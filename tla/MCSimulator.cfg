SPECIFICATION Spec
CONSTANTS
  None = None
  Prices <- MCPrices
  OrderQtys = {2}
  BookQtys = {1}
  TradeQtys = {2}
  RoundTrip = 2
  MinRequote = 1
  RequoteTicks = 1
  MaxPosition = 2
  DecisionInterval = 1
  SampleInterval = 2
  Quoted = {"bid", "ask"}
  Optimistic = FALSE
  MaxTime = 3
  MaxOrders = 3
INVARIANTS
  TypeOK
  WorkingQuotes
  HaltedWithdraws
  FillsInLife
  OneOrderPerSide
  RestsPassively
CHECK_DEADLOCK FALSE
