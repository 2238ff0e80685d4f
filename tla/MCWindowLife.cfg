SPECIFICATION Spec
CONSTANTS
  Labels = {"hud"}
  Suspenders = {s1, s2}
  Dogs = {d1, d2}
INVARIANT RememberedState
PROPERTIES OrphansAreKnown NeverInvisible
CHECK_DEADLOCK FALSE
