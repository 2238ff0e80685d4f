CONSTANTS
  k1 = k1
  k2 = k2
  Callers = {k1, k2}
  MaxRuns = 2
  GatewayServed = TRUE
  FocusGuarded = TRUE
SPECIFICATION Spec
SYMMETRY Symmetry
INVARIANTS
  TypeOK
  NoPhantomRunning
  StopReachesRun
CONSTRAINT WatchedBound
