CONSTANTS
  w1 = w1
  w2 = w2
  p1 = p1
  p2 = p2
  p3 = p3
  Workers = {w1, w2}
  Players = {p1, p2, p3}
  Events <- SmallEvents
  StackOf <- SmallStacks
  RatingOf <- SmallRatings
  Pot = 2
SPECIFICATION TournamentSpec
CHECK_DEADLOCK FALSE
SYMMETRY Symmetric
INVARIANTS StacksFollowLedger  
