\* Four trades over three days, one restart, two disk errors.
CONSTANTS
  PqFlushEvery = 2
  PgFlushEvery = 2
  MaxReady = 2
  MaxDay = 3
  MaxTrades = 4
  MaxRestarts = 1
  MaxDiskErrors = 2
SPECIFICATION FairSpec
INVARIANTS TypeOK RowsOnTheirDay CleanCloseKeepsAll BatchesInOrder ClosedPoolLeavesNothing
PROPERTIES ReadableRowsStay CloseEnds
CHECK_DEADLOCK FALSE
