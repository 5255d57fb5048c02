SPECIFICATION Spec
CONSTANTS
  Calls = {c1, c2}
  MaxVersion = 2
  FlightLimit = 2
  CallerLimit = 2
  None = None
  Failed = Failed
SYMMETRY CallSymmetry
INVARIANTS NothingStaleOnItsWay
PROPERTIES ImplementsFreshReads
CHECK_DEADLOCK FALSE
