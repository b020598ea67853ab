------------------------------ MODULE MCSocial ------------------------------
(* Players among themselves on small instances.                              *)
EXTENDS Social, TLC

CONSTANTS w1, w2, u1, u2, s1, s2, s3

Of(calls, rows, n, lines, requests, steps) ==
  [calls |-> calls, rows |-> rows, threads |-> n, messages |-> lines, atOnce |-> requests,
   irregular |-> steps]

\* In turn with one crash; friendships, threads and sockets two at a time.
SmallScenes ==
  {Of({"friend", "block", "dm", "settings", "challenge", "send"}, 1, 1, 2, 1, 1),
   Of({"friend", "block", "group"}, 2, 1, 2, 1, 1),
   Of({"friend", "block"}, 2, 0, 0, 2, 0),
   Of({"settings", "dm", "challenge", "send", "group"}, 0, 2, 2, 2, 0),
   Of({"connect"}, 0, 0, 0, 1, 1)}

\* Crossed blocks in turn; a socket that opens and closes.
Refuting == {Of({"block"}, 1, 0, 0, 1, 0), Of({"connect"}, 0, 0, 0, 2, 0)}

Symmetric == Permutations(Workers) \cup Permutations(Users)
=============================================================================
