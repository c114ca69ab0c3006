SPECIFICATION FairSpec
CONSTANTS
  p1 = p1
  p2 = p2
  k1 = k1
  e1 = e1
  s1 = s1
  s2 = s2
  d1 = d1
  d2 = d2
  Place = {p1}
  Cancel = {}
  Stop = {}
  Target <- MCTarget
  Digests = {d1}
  SnapIds = {s1, s2}
  NoSnap = NoSnap
  MaxConn = 1
  MaxGap = 0
  MaxCrash = 0
  MaxLoss = 1
  MaxOperated = 0
PROPERTY PlaceSettles
CHECK_DEADLOCK FALSE
