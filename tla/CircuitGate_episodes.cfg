SPECIFICATION FairGateSpec
CONSTANTS
  Callers = {c1, c2, c3}
  FailureThreshold = 2
  CooldownTicks = 2
  Refused = Refused
  MaxGeneration = 6
  MaxTicker = 6
INVARIANTS OneProbe
PROPERTIES ProbesAreDecided ImplementsEpisodes
CHECK_DEADLOCK FALSE
