SPECIFICATION FairSpec
CONSTANTS
  Events <- MCEvents
  ForeignEvents <- MCForeign
  NoEvent <- NoneSent
  Relays = {r1, r2}
  Consumers = {"c1", "c2"}
  BatchLimit = 2
  MaxForeign = 1
  MaxOutages = 1
INVARIANTS AmountsMatchRows SentIsPublished AcknowledgedIsHandled
PROPERTIES EveryEventArrives ImplementsFeed
CHECK_DEADLOCK FALSE
