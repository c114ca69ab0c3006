SPECIFICATION Spec
CONSTANTS
  MaxEpoch = 2
  Requests = {1, 2}
  Development = {2}
  Unplannable = {}
  Units = 2
  Chunks = 1
  MaxInflight = 1
  StreakLimit = 1
  ClockSkew = TRUE
  MaxPermits = 3
  MaxMail = 2
  MaxFaults = 1
  MaxLapses = 1
INVARIANTS TypeOK NativeExclusive CursorExact UploadWhole FactsNeverRejected
PROPERTIES SlotHeldUntilExit NoRecollection PlacesGranted
CHECK_DEADLOCK FALSE
