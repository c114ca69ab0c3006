SPECIFICATION Spec
CONSTANTS
  p1 = p1
  t1 = t1
  Place = {p1}
  TOrder = {}
  MaxAttempts = 1
INVARIANTS CancelNotForgotten
CHECK_DEADLOCK FALSE
