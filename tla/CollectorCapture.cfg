\* Two repairs that give the exchange's book, with a level that goes in between.
CONSTANTS
  Prices <- MCPrices
  Tick <- MCTick
  Qtys = {1, 6}
  LotUnits = 3
  MaxBackoff = 2
  MaxSyncs = 2
  MaxLosses = 1
  MaxEvents = 3
  MaxChanges = 2
  MaxDrift = 0
SPECIFICATION Spec
INVARIANT CaptureRebuildsBook
CHECK_DEADLOCK FALSE
