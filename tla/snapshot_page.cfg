SPECIFICATION Spec
CONSTANTS
  Requests = {1, 2, 3}
  Groups = {g1, g2, g3, g4, g5, g6, g7}
  Tags = {t1, t2, t3, t4, t5, t6, t7, t8}
  PVs = {p1, p2, p3, p4, p5}
  Keys = {k1, k2, k3, k4, k5, k6}
  Snapshots = {s1, s2, s3, s4}
  Order <- PVsInOrder
  Fold <- Lower
  Protocol <- Prefix
  Fallback = TRUE
  Scenarios <- PageMix
  g1 = g1
  g2 = g2
  g3 = g3
  g4 = g4
  g5 = g5
  g6 = g6
  g7 = g7
  t1 = t1
  t2 = t2
  t3 = t3
  t4 = t4
  t5 = t5
  t6 = t6
  t7 = t7
  t8 = t8
  p1 = p1
  p2 = p2
  p3 = p3
  p4 = p4
  p5 = p5
  k1 = k1
  k2 = k2
  k3 = k3
  k4 = k4
  k5 = k5
  k6 = k6
  s1 = s1
  s2 = s2
  s3 = s3
  s4 = s4
CHECK_DEADLOCK FALSE
PROPERTIES
  ReadsLoseNothing
