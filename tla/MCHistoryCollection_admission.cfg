SPECIFICATION Spec
CONSTANTS
  MaxEpoch = 1
  Requests = {1, 2}
  Development = {}
  Unplannable = {}
  Units = 1
  Chunks = 1
  MaxInflight = 1
  StreakLimit = 1
  ClockSkew = FALSE
  MaxPermits = 3
  MaxMail = 2
  MaxFaults = 1
  MaxLapses = 0
INVARIANTS AdmissionHolds
CHECK_DEADLOCK FALSE
