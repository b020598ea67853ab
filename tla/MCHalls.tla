------------------------------ MODULE MCHalls ------------------------------
(* Halls on small instances.                                                 *)
EXTENDS Halls, TLC

CONSTANTS w1, w2, u1, u2, p1, p2

Of(calls, start, n, visits, rows, news, late, requests, steps) ==
  [calls |-> calls, seeded |-> start, halls |-> n, stays |-> visits, rows |-> rows, posts |-> news,
   expires |-> late, atOnce |-> requests, irregular |-> steps]

\* V2 in turn with one crash, and two at a time; feeds and new halls.
SmallScenes ==
  {Of({"in", "out", "live"}, <<p1, p2>>, 2, 3, 3, 0, TRUE, 1, 1),
   Of({"in", "out", "live"}, <<p1, p2>>, 2, 2, 2, 0, FALSE, 2, 0),
   Of({"inV1", "create", "live", "out", "in"}, <<p1>>, 2, 2, 2, 0, TRUE, 1, 1),
   Of({"inV1", "create", "live"}, <<p1>>, 2, 0, 2, 0, FALSE, 2, 0),
   Of({"in", "out", "feed", "post"}, <<p1, p2>>, 2, 2, 2, 1, TRUE, 1, 0),
   Of({"feed", "post", "hint"}, <<p1>>, 1, 0, 0, 2, TRUE, 2, 1)}

\* A hint where no feed is cached; one player checking in twice at a time.
Refuting ==
  {Of({"feed", "hint"}, <<p1>>, 1, 0, 0, 0, FALSE, 1, 0), Of({"inV1"}, <<p1, p2>>, 2, 0, 2, 0, FALSE, 2, 0)}

Symmetric == Permutations(Workers) \cup Permutations(Visitors)
=============================================================================
