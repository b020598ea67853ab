---------------------------- MODULE MCWebSession ----------------------------
(* WebSession on small instances.                                            *)
EXTENDS WebSession, TLC

CONSTANTS w1, w2, e1, e2, t1, t2, s1, s2

Of(calls, tabs, devices, n, mails, late, requests, steps, outs, ends) ==
  [calls |-> calls, tabs |-> tabs, sessions |-> devices, tokens |-> n, links |-> mails, expires |-> late,
   atOnce |-> requests, irregular |-> steps, outs |-> outs, ends |-> ends]
SignIns == {"signup", "login", "refresh"}
SmallScenes ==
  {Of(SignIns, {t1}, 1, 4, 0, FALSE, 2, 0, 0, 3),
   Of(SignIns, {t1}, 2, 4, 0, FALSE, 1, 0, 1, 2),
   Of(SignIns, {t1}, 1, 3, 0, TRUE, 1, 1, 0, 1),
   Of({"signup", "login", "refresh", "logout"}, {}, 2, 4, 0, TRUE, 1, 1, 0, 0),
   Of({"signup", "link", "follow"}, {}, 1, 2, 2, TRUE, 1, 1, 0, 0),
   Of({"signup", "link", "follow"}, {}, 1, 2, 2, FALSE, 2, 0, 0, 0)}

\* Two tabs, two sessions one after the other, and two tabs in two sessions.
Refuting ==
  {Of(SignIns, {t1, t2}, 1, 3, 0, FALSE, 1, 0, 0, 2), Of(SignIns, {t1}, 2, 3, 0, FALSE, 1, 0, 1, 1),
   Of(SignIns, {t1, t2}, 2, 3, 0, FALSE, 1, 1, 0, 2)}

Symmetric == Permutations(Workers) \cup Permutations(Emails) \cup Permutations(Slots)
=============================================================================
