SPECIFICATION Spec
CONSTANTS
  Target = 2
  MaxCalls = 1
INVARIANTS TypeOK RemainderOnly NeverOvertrades ClosedIsTrue ZeroFillIsProven
CHECK_DEADLOCK FALSE
