SPECIFICATION Spec
CONSTANTS
  None = None
  Tabs = {"one", "two"}
  Questions = {"q"}
  Texts = {"x", "y"}
  Headings = {"h"}
  Flags = {"completed"}
  MaxAttempts = 2
  MaxClock = 1
  MaxFailures = 1
  ChangesAlone = 3
  ChangesShared = 2
  Bank <- SmallBank
  PageSize = 1
  Trimmed <- SmallTrimmed
  Categories = {"os"}
  OddCategory = "odd"
  All = "all"
  MaxGestures = 5
INVARIANTS
  DisplayIsTrue
PROPERTIES
  WorkIsKept
  PagesSettle
CHECK_DEADLOCK FALSE
