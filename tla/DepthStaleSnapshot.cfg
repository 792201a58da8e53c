CONSTANTS
  PriceLevels = {"a", "b"}
  Touches <- MCTouches
  Removals = {3}
  MaxLag = 1
  Attempts = 2
  MaxTasks = 2
  MaxWire = 2
  MaxDrops = 0
  MaxDisconnects = 1
  None = None
SPECIFICATION Spec
PROPERTY NewSnapshotPerConnection
CHECK_DEADLOCK FALSE
