CONSTANTS
  t1 = t1
  t2 = t2
  Threads = {t1, t2}
  Macros <- MCMacros
  MaxStart = 1
SPECIFICATION FairSpec
INVARIANTS
  NeverStuckBusy
PROPERTIES
  CancelSticks
  CancelledPlayEnds
