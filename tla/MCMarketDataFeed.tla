--------------------------- MODULE MCMarketDataFeed ----------------------------
EXTENDS MarketDataFeed, TLC

Symmetry == Permutations(Symbol)

===============================================================================
