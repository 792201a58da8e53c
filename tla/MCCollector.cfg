\* Levels that come and go two at a time; one lost event, two repairs, of
\* which each may leave one level otherwise.
CONSTANTS
  Prices <- MCPrices
  Tick <- MCTick
  Qtys = {1}
  LotUnits = 3
  MaxBackoff = 2
  MaxSyncs = 2
  MaxLosses = 1
  MaxEvents = 4
  MaxChanges = 2
  MaxDrift = 1
SPECIFICATION FairSpec
INVARIANTS TypeOK EngineTwin MirrorExact RecordedRebuildsBook CursorOfConnection
PROPERTY StoppedClientEnds
CHECK_DEADLOCK FALSE
