SPECIFICATION Spec
CONSTANTS
  Parts = {"recording", "hooks", "latches", "library", "rescue", "daemon", "children"}
  Buttons = {"left", "x1"}
  Keys = {"k"}
  Points = {}
  Gaps = {30, 250}
  MaxEvents = 4
  Threat = 3
  Owners <- MCOwners
  Holders = {"click_worker", "macro_executor"}
  Items = {"p", "q"}
  Factory = {"p"}
  RESCUE_BUTTONS = {"left"}
  Calls = {1, 2}
  Room = 0
  Labels = {"overlay"}
  Storm = 3
INVARIANTS
  FramesAgree
  RecordingWhole
  RescueIsDue
PROPERTIES
  LibraryKept
  FrozenPumpRecovers
  ReleaseLatchFollows
  CommandReachesEngine
  CrashedComesBack
CHECK_DEADLOCK FALSE
