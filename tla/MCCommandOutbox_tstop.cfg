SPECIFICATION Spec
CONSTANTS
  p1 = p1
  t1 = t1
  Place = {p1}
  TOrder = {p1}
  MaxAttempts = 1
INVARIANTS TerminalOrderTruthful
CHECK_DEADLOCK FALSE
