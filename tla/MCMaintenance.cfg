\* Two runs beside the maintenance thread; a lease of one tick, a ceiling of two.
SPECIFICATION Spec
CONSTANTS
  MaxRuns = 2
  Lease = 1
  Ceiling = 2
PROPERTIES
  HardVerdictNamesHang
  HangIsLatched
  LossStops
\* The bound MaxRuns is reached.
CHECK_DEADLOCK FALSE
