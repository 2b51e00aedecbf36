SPECIFICATION Spec
CONSTANTS
  OrderId = {o1, o2}
  Symbol = {AAA, BBB}
  MaxPrice = 1
  MaxQuantity = 2
  Stamp = {0}
  NoOrder = NoOrder
  MaxTradeId = 2
SYMMETRY Symmetry
PROPERTIES
  SymbolsAgree
