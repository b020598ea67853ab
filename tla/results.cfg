CONSTANTS
  w1 = w1
  w2 = w2
  u1 = u1
  u2 = u2
  Workers = {w1, w2}
  Users = {u1, u2}
  Racks <- SmallRacks
  RaceTo = 13
  Scores = {0, 13}
  Fallback = FALSE
  DisplayName <- OwnNames
  LeagueName <- OwnNames
  Scenes <- SmallScenes
SPECIFICATION CardSpec
CHECK_DEADLOCK FALSE
SYMMETRY Symmetric
INVARIANTS ResultCountedOnce EffectsNeedAResult PyramidEndsAtTarget PointsFollowResults 
PROPERTIES CardIsCurrent
