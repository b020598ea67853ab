--------------------------- MODULE MCMatchmaking ---------------------------
(* Matchmaking on small instances.                                           *)
EXTENDS Matchmaking, TLC

CONSTANTS w1, w2, u1, u2, u3, near, other

SmallSuit == {{k} : k \in Kinds}

Of(calls, users, n, rows, late, requests, steps) ==
  [calls |-> calls, users |-> users, asks |-> n, posts |-> rows, expires |-> late,
   atOnce |-> requests, irregular |-> steps]

Session == {"confirm", "cancel", "status"}

\* In turn with one crash; searches, confirmations and posts overlapped.
SmallScenes ==
  {Of({"search", "leave"} \cup Session, {u1, u2}, 2, 0, TRUE, 1, 1),
   Of({"search", "leave"}, {u1, u2}, 3, 0, TRUE, 1, 1),
   Of({"search"}, {u1, u2}, 3, 0, TRUE, 2, 0),
   Of({"search", "leave"}, {u1, u2}, 2, 0, TRUE, 2, 0),
   Of({"search", "confirm", "cancel"}, {u1, u2}, 2, 0, FALSE, 2, 0),
   Of({"post", "leave", "search", "auto"}, {u1, u2}, 1, 3, TRUE, 1, 1)}

\* Requests for three different games; one user's post, twice at a time.
Refuting == {Of({"search"}, {u1, u2, u3}, 3, 0, FALSE, 1, 0), Of({"post"}, {u1}, 0, 2, FALSE, 2, 0)}

Symmetric == Permutations(Workers) \cup Permutations({u1, u2}) \cup Permutations(Kinds)
=============================================================================
