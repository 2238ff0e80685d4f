CONSTANTS
  k1 = k1
  k2 = k2
  Callers = {k1, k2}
  Few = {k1}
  MaxRuns = 2
  WatchedRuns = 1
  GatewayServed = TRUE
  FocusGuarded = TRUE
SPECIFICATION LiveSpec
PROPERTIES
  StopEndsWorkers
  DeadRunIsReported
  ClosingWorkerEnds
