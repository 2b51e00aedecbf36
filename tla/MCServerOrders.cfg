SPECIFICATION Spec
CONSTANTS
  Request = {r1, r2, r3}
  Kind = {"post", "badpost", "cancel", "demo"}
  Field = {"total_trades"}
  OrderId = {1, 2, 3, 4, 5, 6, 7}
  Symbol = {SIM}
  MaxPrice = 2
  MaxQuantity = 2
  Stamp = {1}
  MaxOrders = 1
  MaxThreads = 0
  MaxLoads = 0
  IntMax = 15
  NoOrder = NoOrder
  MaxTradeId = 9
SYMMETRY Symmetry
INVARIANTS
  TypeOK
  TradesReportedOnce
  CancelIsFinal
PROPERTIES
  UsesTheBook
