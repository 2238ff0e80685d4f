SPECIFICATION EngineSpec
CONSTANTS
  Parts = {"arbiter", "worker", "pace", "settings", "observer", "update"}
  Clickers = {c1, c2, c3}
  Players = {p1, p2}
  MacroBit = 3
  Plans <- MCPlans
  Pollers = {q1, q2}
  Tickers = {t1, t2}
  MaxRuns = 2
  MaxClicks = 5
  CpsStep = 3
  Stored = {0, 12, 14, 1000}
  Jitters = {35}
  Hesitates = {TRUE}
  BOOT_DELAY = 3
  POLL_INTERVAL = 3
  DEBOUNCE = 1
  OWN_WRITE_GRACE = 7
  QUEUE_CAP = 2
  MaxEdits = 2
INVARIANTS
  WordIsLedger
  MacroClaimsAlone
  CountBelowBit
  SlotUnderClaim
  RunKeepsItsPlan
  RhythmIsSound
PROPERTIES
  ImplementsLease
  LimitedRunEnds
  RepairKeepsTheRest
  ToastMeansEdit
  UpdateKeepsAProgram
CHECK_DEADLOCK FALSE
