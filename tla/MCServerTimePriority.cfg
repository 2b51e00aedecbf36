SPECIFICATION Spec
CONSTANTS
  Request = {r1, r2, r3}
  Kind = {"post"}
  Field = {"total_trades"}
  OrderId = {1, 2, 3}
  Symbol = {SIM}
  MaxPrice = 1
  MaxQuantity = 2
  Stamp = {1, 2, 3}
  MaxOrders = 1
  MaxThreads = 0
  MaxLoads = 0
  IntMax = 15
  NoOrder = NoOrder
  MaxTradeId = 9
SYMMETRY Symmetry
INVARIANTS
  FrontIsOldest
