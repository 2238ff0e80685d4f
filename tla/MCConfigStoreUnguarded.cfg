CONSTANTS
  Threads <- MCThreads
  Main = "main"
  Updates <- MCUpdates
  Stats = {"stats"}
  Guarded = {"mode"}
  Owner <- MCOwner
  Readers = {}
  Plans <- MCUnguarded
  MaxBoots = 1
SPECIFICATION Spec
INVARIANT SavedStays
CHECK_DEADLOCK FALSE
