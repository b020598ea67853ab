CONSTANTS
  r1 = r1
  r2 = r2
  r3 = r3
  r4 = r4
  r5 = r5
  aWins = aWins
  bWins = bWins
  Scores = {aWins, bWins}
  WinnerOf <- HigherScore
  Requests = {r1, r2, r3, r4, r5}
  MaxErrors = 1
  MaxAborts = 1
SPECIFICATION Spec
CHECK_DEADLOCK FALSE
SYMMETRY Symmetric
INVARIANTS HeldByConsent  RatedByAgreement PaidOnceInTurn
