SPECIFICATION FairSpec
CONSTANTS
  Request = {r1, r2}
  Kind = {"post", "cancel", "orderbook", "statistics", "load"}
  Field = {"total_trades"}
  OrderId = {1,2,3,4,5,6,7}
  Symbol = {SIM}
  MaxPrice = 1
  MaxQuantity = 1
  Stamp = {1}
  MaxOrders = 3
  MaxThreads = 2
  MaxLoads = 1
  IntMax = 15
  NoOrder = NoOrder
  MaxTradeId = 9
CHECK_DEADLOCK FALSE
INVARIANTS
  LoadIsComplete
PROPERTIES
  EveryRequestAnswered
