CONSTANTS
  Threads <- MCThreads
  Main = "main"
  Updates <- MCUpdates
  Stats = {"stats"}
  Guarded = {"mode"}
  Owner <- MCOwner
  Readers = {"hotkey"}
  Plans <- MCPlans
  MaxBoots = 2
SPECIFICATION UncrossedSpec
INVARIANTS
  ConfigWhole
  NothingLost
PROPERTIES
  ImplementsRegister
CHECK_DEADLOCK FALSE
