\* Four market events over two units of time, two refits, one failing calibration.
CONSTANTS
  slow = slow
  fast = fast
  Default = default
  None = None
  t1 = t1
  t2 = t2
  crossed = crossed
  Tops <- MCTops
  CrossedTops <- MCCrossed
  Params <- MCParams
  Window <- MCWindow
  History = 2
  MinEvents = 1
  Warmup = 0
  Postponed = 1
  Interval = 1
  SampleMs = 1
  RoundTrip = 1
  Drawdowns <- MCDrawdowns
  MaxTs = 1
  MaxEvents = 4
  MaxRefits = 2
  MaxFailures = 1
SPECIFICATION Spec
SYMMETRY MCSymmetry
INVARIANTS ReplayExact KilledSessionReplays RefitKeepsExcitation BacktestOrder
CHECK_DEADLOCK FALSE
