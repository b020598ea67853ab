------------------------------ MODULE Pyramid ------------------------------
(***************************************************************************)
(* RackUp Pyramid (games/pyramid): the presets by table and skill, and the *)
(* scoring of one rack of numbered balls.  A state of play is the function *)
(* from the balls pocketed to the side that pocketed them; the balls that  *)
(* remain and the points follow from it, as pocketBalls recomputes them.   *)
(***************************************************************************)
EXTENDS Integers, FiniteSets, FiniteSetsExt, Functions

Tables == {7, 9}
Skills == {"BEGINNER", "INTERMEDIATE", "ADVANCED", "PRO"}
Sides == {"A", "B"}

RackBallCountForTable(tableSizeFt) == IF tableSizeFt = 7 THEN 10 ELSE 15

PointsToWin(tableSizeFt, skill) ==
  IF tableSizeFt = 7
  THEN [BEGINNER |-> 25, INTERMEDIATE |-> 35, ADVANCED |-> 45, PRO |-> 50][skill]
  ELSE [BEGINNER |-> 40, INTERMEDIATE |-> 55, ADVANCED |-> 71, PRO |-> 71][skill]

\* ratingWeight, in hundredths.
RatingWeight(skill) == [BEGINNER |-> 70, INTERMEDIATE |-> 85, ADVANCED |-> 100, PRO |-> 115][skill]

\* The 1-ball is worth 11.
BallPointValue(ball) == IF ball = 1 THEN 11 ELSE ball

Worth(balls) == MapThenSumSet(BallPointValue, balls)

InitialObjectBalls(rack) == 1 .. rack
BallsRemaining(rack, pocketed) == InitialObjectBalls(rack) \ DOMAIN pocketed

Points(pocketed, side) == Worth({ball \in DOMAIN pocketed : pocketed[ball] = side})

\* The side that has won after `last` pocketed, "none" while neither has.
\* (mutant) The target must be passed.
WinnerSidePast(pocketed, target, last) ==
  IF Points(pocketed, "A") > target THEN "A"
  ELSE IF Points(pocketed, "B") > target THEN "B" ELSE "none"
WinnerSide(pocketed, target, last) ==
  LET a == Points(pocketed, "A")
      b == Points(pocketed, "B")
  IN  IF a >= target /\ b >= target THEN IF a # b THEN IF a > b THEN "A" ELSE "B" ELSE last
      ELSE IF a >= target THEN "A"
      ELSE IF b >= target THEN "B"
      ELSE "none"

\* pocketBalls is refused for a ball that is not on the table, or twice in a shot.
MayPocket(rack, pocketed, balls) == balls # {} /\ balls \subseteq BallsRemaining(rack, pocketed)
PocketBalls(pocketed, side, balls) ==
  [ball \in (DOMAIN pocketed) \cup balls |-> IF ball \in balls THEN side ELSE pocketed[ball]]

\* Whether a rack can be run out with neither side at the target.
MayEndUndecided(rack, target) ==
  \E balls \in SUBSET InitialObjectBalls(rack) :
    Worth(balls) < target /\ Worth(InitialObjectBalls(rack) \ balls) < target
=============================================================================
