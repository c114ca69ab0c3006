SPECIFICATION MCOneOldSpec
CONSTANTS
  p1 = p1
  t1 = t1
  Place = {p1, t1}
  TOrder = {t1}
  MaxAttempts = 2
INVARIANTS TypeOK ZeroFillProofSound PlainOrderTruthful
PROPERTIES ProofsAreFinal HaltHolds RowsSettle
CHECK_DEADLOCK FALSE
