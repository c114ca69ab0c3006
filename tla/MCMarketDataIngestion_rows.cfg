SPECIFICATION FairSpec
CONSTANTS
  MaxEpoch = 2
  Requests = {r1}
  NoRequest = NoRequest
  Blocks = 2
  MaxExecutions = 2
  MaxLapses = 1
  MaxResumes = 1
INVARIANTS TypeOK CompletedIsStored WritersHandOver BudgetBounded
PROPERTIES ImplementsContract
CHECK_DEADLOCK FALSE
