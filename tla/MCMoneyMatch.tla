---------------------------- MODULE MCMoneyMatch ----------------------------
(* MoneyMatch on small instances.                                            *)
EXTENDS MoneyMatch, TLC

CONSTANTS r1, r2, r3, r4, r5, aWins, bWins

HigherScore == aWins :> "A" @@ bWins :> "B"
Symmetric == Permutations(Requests)
=============================================================================
