SPECIFICATION Spec
CONSTANTS
  Calls = {c1, c2, c3}
  Capacity = 2
  MaxAttempts = 2
  AttemptTimeout = 1
  Budget = 2
  MaxDelay = 0
  Threshold = 1
  Cooldown = 1
  NoPermit = NoPermit
  MaxClock = 2
SYMMETRY CallSymmetry
INVARIANTS HalfOpenSendsOneProbe
PROPERTIES UsesGate
CHECK_DEADLOCK FALSE
