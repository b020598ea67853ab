------------------------------ MODULE MCResults ------------------------------
(* Results, Seasons and PlayerCards on small instances.                      *)
EXTENDS PlayerCards

CONSTANTS w1, w2, u1, u2

\* A short rack for the overlaps: 11 + 2 + 3 points, 13 to win.
SmallRacks == {[balls |-> 3, target |-> 13]}

\* Everybody has a name; or all have one name here and their own elsewhere.
OwnNames == [u \in Users |-> u]
SharedNames == [u \in Users |-> "Sam"]

Scene(calls, domain, n, m, events, requests, steps) ==
  [calls |-> calls, domain |-> domain, games |-> n, reports |-> m, events |-> events,
   atOnce |-> requests, irregular |-> steps]

SmallScenes ==
  {Scene({"create", "report", "pocket"}, "money", 1, 2, 0, 1, 1),
   Scene({"create", "report", "pocket"}, "money", 2, 2, 0, 1, 0),
   Scene({"create", "report", "seed"}, "money", 2, 2, 0, 1, 0),
   Scene({"create", "report", "append"}, "money", 1, 1, 1, 1, 1),
   Scene({"elsewhere", "append", "start"}, "money", 0, 2, 3, 1, 1),
   Scene({"elsewhere"}, "tournament_v2", 0, 2, 0, 1, 1),
   Scene({"create", "report", "pocket"}, "money", 1, 2, 0, 2, 0),
   Scene({"elsewhere", "append", "start"}, "money", 0, 1, 2, 2, 0),
   Scene({"elsewhere", "seed"}, "money", 0, 2, 0, 2, 0),
   Scene({"season"}, "league_v2", 2, 2, 0, 1, 1),
   Scene({"season"}, "league_v2", 1, 1, 0, 2, 0),
   Scene({"season", "elsewhere"}, "tournament_v2", 1, 2, 0, 1, 0),
   Scene({"cards", "elsewhere", "seed"}, "money", 2, 1, 0, 1, 1),
   Scene({"cards"}, "money", 1, 0, 0, 2, 0)}

\* A timeline started after the report; two reports at a time; a season in turn;
\* cards in turn; a card and a result at a time.
Refuting ==
  {Scene({"create", "report", "append", "start"}, "money", 1, 1, 3, 1, 0),
   Scene({"create", "report", "pocket"}, "money", 1, 2, 0, 2, 0),
   Scene({"season"}, "league_v2", 1, 1, 0, 1, 0),
   Scene({"cards"}, "money", 3, 0, 0, 1, 0),
   Scene({"cards", "elsewhere"}, "money", 2, 1, 0, 2, 0)}

Symmetric == Permutations(Workers) \cup Permutations(Users)
=============================================================================
