---------------------------- MODULE MCTournament ----------------------------
(* Tournament on small instances.                                            *)
EXTENDS Tournament, TLC

CONSTANTS w1, w2, p1, p2, p3

\* The pot of 2 leaves a stack of 3 with an odd chip.
SmallStacks == [p \in Players |-> IF p = p1 THEN 3 ELSE 2]
SmallRatings == [p \in Players |-> IF p = p1 THEN 1 ELSE 2]

Of(mode, chips, seeds, size, pairings, requests, steps) ==
  [mode |-> mode, chips |-> chips, seeds |-> seeds, size |-> size, pairings |-> pairings,
   atOnce |-> requests, irregular |-> steps]

\* Served in turn, and with the overlaps of two registrations, starts and reports.
SmallEvents ==
  {Of("CHIP_RACE", TRUE, "manual", 3, 3, 1, 1), Of("SWISS", TRUE, "elo", 3, 3, 1, 0),
   Of("SWISS", FALSE, "random", 3, 3, 1, 0), Of("ROUND_ROBIN", TRUE, "manual", 3, 1, 1, 0),
   Of("SINGLE_ELIMINATION", TRUE, "manual", 2, 1, 1, 1), Of("CHIP_RACE", TRUE, "manual", 2, 1, 2, 0)}

\* Registrations, starts and rounds two at a time; an elimination with chips.
Refuting ==
  {Of("SWISS", TRUE, "elo", 3, 3, 2, 0), Of("SINGLE_ELIMINATION", TRUE, "manual", 2, 1, 1, 0)}

Symmetric == Permutations(Workers)
=============================================================================
