------------------------------ MODULE MCOrderBook ------------------------------
EXTENDS OrderBook, TLC

Symmetry == Permutations(OrderId)

===============================================================================
