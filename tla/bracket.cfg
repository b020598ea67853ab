CONSTANTS
  w1 = w1
  w2 = w2
  Fields <- SmallFields
  Workers = {w1, w2}
SPECIFICATION Spec
CHECK_DEADLOCK FALSE
SYMMETRY Symmetric
INVARIANTS   NeverStalls
