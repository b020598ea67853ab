CONSTANTS
  w1 = w1
  w2 = w2
  u1 = u1
  u2 = u2
  u3 = u3
  near = near
  other = other
  Workers = {w1, w2}
  Users = {u1, u2, u3}
  Kinds = {near, other}
  Suit <- SmallSuit
  Scenes <- SmallScenes
SPECIFICATION Spec
CHECK_DEADLOCK FALSE
SYMMETRY Symmetric
INVARIANTS WaitingIsQueued OneSessionPerRequest GamesAreAgreed
