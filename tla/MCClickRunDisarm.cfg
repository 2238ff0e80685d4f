CONSTANTS
  k1 = k1
  Callers = {k1}
  MaxRuns = 2
  GatewayServed = FALSE
  FocusGuarded = TRUE
SPECIFICATION Spec
PROPERTY LiveSessionStaysArmed
