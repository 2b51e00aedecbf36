SPECIFICATION Spec
CONSTANTS
  Request = {r1, r2}
  Kind = {"post", "load"}
  Field = {"total_volume", "min_price"}
  OrderId = {1, 2, 3}
  Symbol = {SIM}
  MaxPrice = 2
  MaxQuantity = 2
  Stamp = {1}
  MaxOrders = 2
  MaxThreads = 2
  MaxLoads = 1
  IntMax = 1
  NoOrder = NoOrder
  MaxTradeId = 9
SYMMETRY Symmetry
INVARIANTS
  StatsNeverOverstate
  ExactUnlessRaced
  TradesAccountedFor
