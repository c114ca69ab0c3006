SPECIFICATION FairSpec
CONSTANTS
  MaxEpoch = 2
  Requests = {1, 2}
  Development = {}
  Unplannable = {1}
  Units = 1
  Chunks = 1
  MaxInflight = 1
  StreakLimit = 1
  ClockSkew = FALSE
  MaxPermits = 2
  MaxMail = 2
  MaxFaults = 2
  MaxLapses = 1
PROPERTIES AbortConverges FinishConverges
CHECK_DEADLOCK FALSE
