SPECIFICATION Spec
CONSTANTS
  None = None
  c1 = c1
  c2 = c2
  c3 = c3
  c4 = c4
  p1 = p1
  p2 = p2
  p3 = p3
  o1 = o1
  o2 = o2
  k1 = k1
  k2 = k2
  Contents = {c1, c2, c3, c4}
  Runs = {p1, p2}
  Earlier = {o1, o2}
  Clients = {}
  KEEP_SNAPSHOTS = 2
  Pages <- OnePage
  MaxFaults = 0
PROPERTIES LatestRetained
SYMMETRY Symmetry
CHECK_DEADLOCK FALSE
