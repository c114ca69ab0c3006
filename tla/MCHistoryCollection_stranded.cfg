SPECIFICATION FairSpec
CONSTANTS
  MaxEpoch = 1
  Requests = {1}
  Development = {}
  Unplannable = {}
  Units = 1
  Chunks = 1
  MaxInflight = 1
  StreakLimit = 1
  ClockSkew = FALSE
  MaxPermits = 1
  MaxMail = 2
  MaxFaults = 0
  MaxLapses = 1
PROPERTIES CollectedIsUploaded
CHECK_DEADLOCK FALSE
