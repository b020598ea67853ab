CONSTANTS
  w1 = w1
  w2 = w2
  e1 = e1
  e2 = e2
  t1 = t1
  t2 = t2
  s1 = s1
  s2 = s2
  Workers = {w1, w2}
  Emails = {e1, e2}
  Tabs = {t1, t2}
  Slots = {s1, s2}
  AccountScenes <- SmallScenes
SPECIFICATION WebSpec
CHECK_DEADLOCK FALSE
SYMMETRY Symmetric
INVARIANTS OneTokenPerSession SignedInStays 
