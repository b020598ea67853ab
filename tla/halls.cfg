CONSTANTS
  w1 = w1
  w2 = w2
  u1 = u1
  u2 = u2
  p1 = p1
  p2 = p2
  Workers = {w1, w2}
  Visitors = {u1, u2}
  Places = {p1, p2}
  HallScenes <- SmallScenes
SPECIFICATION HallSpec
CHECK_DEADLOCK FALSE
SYMMETRY Symmetric
INVARIANTS OnePlace CountedOnce CachesAreFresh
