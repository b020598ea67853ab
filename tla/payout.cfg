CONSTANTS
  u1 = u1
  u2 = u2
  u3 = u3
  h1 = h1
  h2 = h2
  Players = {u1, u2}
  Handlers = {h1, h2}
  Scenes <- SmallScenes
SPECIFICATION FairSpec
CHECK_DEADLOCK FALSE
INVARIANTS FundNeverOverdrawn BooksAgree
PROPERTIES  PayingOutEnds KeepsPromise
