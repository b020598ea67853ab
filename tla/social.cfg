CONSTANTS
  w1 = w1
  w2 = w2
  u1 = u1
  u2 = u2
  s1 = s1
  s2 = s2
  s3 = s3
  Workers = {w1, w2}
  Users = {u1, u2}
  Sockets = {s1, s2, s3}
  Nobody = Nobody
  Scenes <- SmallScenes
SPECIFICATION Spec
CHECK_DEADLOCK FALSE
SYMMETRY Symmetric
INVARIANTS FriendsAgreed ThreadsAreWhole PresenceIsTrue
