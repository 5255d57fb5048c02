SPECIFICATION FairSpec
CONSTANTS
  Calls = {c1, c2}
  Capacity = 1
  MaxAttempts = 2
  AttemptTimeout = 1
  Budget = 2
  MaxDelay = 1
  Threshold = 1
  Cooldown = 1
  NoPermit = NoPermit
  MaxClock = 4
INVARIANTS SlotsFollowCalls
PROPERTIES OnlyAttemptsCount CallsEnd
CHECK_DEADLOCK FALSE
