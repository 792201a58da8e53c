\* Four deliveries of six trades, the last two ids remembered, two buckets kept.
CONSTANTS
  fitted = fitted
  Default = default
  None = None
  t1 = t1
  Own = own
  other = other
  Tops = {t1}
  CrossedTops = {}
  Params <- MCParams
  Window <- MCWindow
  History = 2
  MinEvents = 1
  Capacity = 2
  BucketMs = 2
  MaxBuckets = 2
  Trades <- MCTrades
  BookTimes = {0, 4}
  TapeLength = 3
  Sketches <- MCSketches
  Sizes <- MCSizes
  LabelLengths = {2, 4}
  MaxDeliveries = 4
  MaxUpdates = 1
  MaxRefits = 1
  MaxNow = 1
SPECIFICATION Spec
INVARIANTS SessionExact ChartExact PictureExact
CHECK_DEADLOCK FALSE
