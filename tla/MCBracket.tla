----------------------------- MODULE MCBracket -----------------------------
(* Bracket on small instances.                                               *)
EXTENDS Bracket, TLC

CONSTANTS w1, w2

Of(mode, sizes, steps, requests, n) ==
  [mode : {mode}, size : sizes, irregular : {steps}, atOnce : {requests}, passes : {n}]

\* One request at a time, up to four entrants in either mode, all but the largest
\* with one irregular step; and two at a time where two matches, or a bye and a
\* match, feed the final.
SmallFields ==
  Of("SINGLE_ELIMINATION", {2, 3, 4}, 1, 1, 2) \cup Of("DOUBLE_ELIMINATION", {2, 3}, 1, 1, 2)
  \cup Of("DOUBLE_ELIMINATION", {4}, 0, 1, 2) \cup Of("SINGLE_ELIMINATION", {3, 4}, 0, 2, 4)

\* The first field in which a bye reaches a round before its feeders exist; two
\* requests at a time; three entrants who may lose twice; and five whose seed without
\* an opponent is given byes up the winners' side.
Refuting ==
  Of("SINGLE_ELIMINATION", {5}, 0, 1, 4) \cup Of("SINGLE_ELIMINATION", {3, 4}, 0, 2, 4)
  \cup Of("DOUBLE_ELIMINATION", {3}, 0, 1, 3) \cup Of("DOUBLE_ELIMINATION", {5}, 0, 1, 4)

Symmetric == Permutations(Workers)
=============================================================================
