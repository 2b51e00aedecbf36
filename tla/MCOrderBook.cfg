SPECIFICATION Spec
CONSTANTS
  OrderId = {o1, o2, o3, o4}
  Symbol = {SIM}
  MaxPrice = 3
  MaxQuantity = 2
  Stamp = {0}
  NoOrder = NoOrder
  MaxTradeId = 2
SYMMETRY Symmetry
INVARIANTS
  TypeOK
  NoEmptyLevels
  OrdersSound
  NotCrossed
  QueuedByArrival
  IdsUnique
  QuantityConserved
  ReturnsItsTrades
  TradeIdsGrow
PROPERTIES
  GoneForGood
  NeverOverfilled
  ImplementsPriceTimePriority
