CONSTANTS
  PriceLevels = {"a", "b"}
  Touches <- MCTouches
  Removals = {3}
  MaxLag = 1
  Attempts = 2
  MaxTasks = 2
  MaxWire = 2
  MaxDrops = 1
  MaxDisconnects = 0
  None = None
SPECIFICATION Spec
INVARIANT SyncedBookIsExchangeBook
CHECK_DEADLOCK FALSE
