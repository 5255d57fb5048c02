SPECIFICATION RequestSpec
CONSTANTS
  Reservations = {1, 2}
  Principals = {alice, bob}
  Sessions = {x, y}
  SessionLimit = 1
  GlobalLimit = 1
  PrincipalLimit = 1
  AckLimit = 1
  MessageLimit = 3
  Handles = {1, 2}
  ConcurrentCalls = 1
  CallLimit = 1
  ContentLimit = 1
  first = first
  again = again
  changed = changed
  another = another
  NoBody = NoBody
  Nobody = Nobody
  BodyLimit = 3
  SlotLimit = 2
  MaxCrashes = 1
  Clients = {c1, c2}
  Keys = {k1, k2}
  Orders = {o1, o2}
  Amounts = {1}
  NoProposal = NoProposal
  Lifetime = 1
  MaxClock = 1
INVARIANTS SocketsAreLawful StreamsAreLawful DeliveriesAreLawful RefundsAreLawful
PROPERTY EveryRequestEnds
CHECK_DEADLOCK FALSE
