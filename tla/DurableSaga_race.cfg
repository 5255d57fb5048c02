SPECIFICATION FairSpec
CONSTANTS
  small = small
  large = large
  NoSaga = NoSaga
  NoRequest = NoRequest
  Sagas = {s1}
  Drivers = {d1, d2}
  Requests <- MCRequests
  Quantity <- MCQuantity
  Cents <- MCCents
  InitialStock = 1
  MaxOutages = 1
  MaxVersion = 6
INVARIANTS IInv EffectsMatchReceipts NeverPaidAndReleased StateBackedByReceipts ReceiptsBoundToStoredRequest
PROPERTIES NoLostTransition StageOnlyAdvances EverySagaSettles
CHECK_DEADLOCK FALSE
