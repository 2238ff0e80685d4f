CONSTANTS
  t1 = t1
  Threads = {t1}
  Macros <- MCMacros
  MaxStart = 1
SPECIFICATION FairSpec
PROPERTY StopEndsPlay
