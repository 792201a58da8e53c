SPECIFICATION Spec
CONSTANTS
  None = None
  Prices <- MCPrices
  OrderQtys = {2}
  BookQtys = {1}
  TradeQtys = {1, 3}
  RoundTrip = 3
  MinRequote = 2
  RequoteTicks = 1
  MaxPosition = 2
  DecisionInterval = 1
  SampleInterval = 4
  Quoted = {"bid"}
  Optimistic = TRUE
  MaxTime = 7
  MaxOrders = 4
INVARIANTS
  PositionBounded
CHECK_DEADLOCK FALSE
