SPECIFICATION FairSpec
CONSTANTS
  Calls = {c1, c2, c3}
  Keys = {k1, k2}
  Answers = {found}
  FlightLimit = 2
  CallerLimit = 2
  None = None
  Failed = Failed
INVARIANT FlightsAreSound
PROPERTY LoadsEnd
CHECK_DEADLOCK FALSE
