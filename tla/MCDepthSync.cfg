\* Two lost events, one lost connection, up to three overlapping repairs.
CONSTANTS
  PriceLevels = {"a", "b"}
  Touches <- MCTouches
  Removals = {3}
  MaxLag = 1
  Attempts = 2
  MaxTasks = 3
  MaxWire = 2
  MaxDrops = 2
  MaxDisconnects = 1
  None = None
SPECIFICATION FairSpec
INVARIANTS TypeOK NoStuckSync BookMatchesCursor
PROPERTY RepairEnds
CHECK_DEADLOCK FALSE
