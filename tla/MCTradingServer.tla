---------------------------- MODULE MCTradingServer ----------------------------
EXTENDS TradingServer, TLC

Symmetry == Permutations(Request)

===============================================================================
