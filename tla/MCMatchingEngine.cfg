\* Sizes of one and two lots, so that an order trades with two others.
CONSTANTS
  Ids = {i1, i2}
  Prices = {1, 2}
  Quantities = {1, 2}
  Width = 32
  MaxNodes = 4
  NoOrder = NoOrder
  MaxCalls = 4
  MaxDepth = 2
SPECIFICATION EngineSpec
SYMMETRY MCSymmetry
INVARIANTS LotsConserved
CHECK_DEADLOCK FALSE
