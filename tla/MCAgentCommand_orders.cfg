SPECIFICATION MCOrdersSpec
CONSTANTS
  p1 = p1   p2 = p2   k1 = k1   e1 = e1   s1 = s1   s2 = s2   d1 = d1   d2 = d2
  Place = {p1, p2}   Cancel = {}   Stop = {e1}   Target <- MCTarget
  Digests = {d1, d2}   SnapIds = {s1}   NoSnap = NoSnap
  MaxConn = 2   MaxGap = 1   MaxCrash = 1   MaxLoss = 0   MaxOperated = 1
CONSTRAINT MCFocus
ACTION_CONSTRAINT MCFocusStep
INVARIANTS TypeOK AtMostOnce PreRejectionTruthful PlaceAcksAgree OpenGateKnown
PROPERTIES StopHolds NoOrderOnMissedEvent ImplementsContract
CHECK_DEADLOCK FALSE
