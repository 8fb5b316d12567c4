SPECIFICATION Spec
CONSTANTS
  p1 = p1
  p2 = p2
  p3 = p3
  w1 = w1
  w2 = w2
  w3 = w3
  w4 = w4
  w5 = w5
  w6 = w6
  g1 = g1
  g2 = g2
  s1 = s1
  s2 = s2
  a1 = a1
  a2 = a2
  k1 = k1
  k2 = k2
  d1 = d1
  d2 = d2
  d3 = d3
  c1 = c1
  c2 = c2
  NoValue = NoValue
INVARIANT
  MapReachesModel
CHECK_DEADLOCK FALSE
