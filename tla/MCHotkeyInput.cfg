SPECIFICATION Spec
CONSTANTS
  r = r
  j = j
  p1 = p1
  p2 = p2
  NoKey = NoKey
  NoPreset = NoPreset
  Keys = {r, j}
  Seed = {r}
  Presets = {p1, p2}
  Configs <- MCConfigs
  Savers = {"page", "tray"}
  Starters = {"page"}
  MaxSaves = 2
INVARIANTS BoundKeysAreExempt BindingsFollow
PROPERTIES GameplayKeysSpare
CHECK_DEADLOCK FALSE
