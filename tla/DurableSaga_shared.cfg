SPECIFICATION Spec
CONSTANTS
  small = small
  large = large
  NoSaga = NoSaga
  NoRequest = NoRequest
  Sagas = {s1, s2}
  Drivers = {d1}
  Requests <- MCRequests
  Quantity <- MCQuantity
  Cents <- MCCents
  InitialStock = 2
  MaxOutages = 1
  MaxVersion = 5
SYMMETRY SagaSymmetry
PROPERTIES ImplementsLedger
CHECK_DEADLOCK FALSE
