----------------------------- MODULE MCRocPayout ----------------------------
(* RocPayout on small instances.                                             *)
EXTENDS RocPayout, TLC

CONSTANTS u1, u2, u3, h1, h2

Ranked == u1 :> 2 @@ u2 :> 1
RankedThree == u1 :> 3 @@ u2 :> 2 @@ u3 :> 1
Tied == u1 :> 0 @@ u2 :> 0
AllWallet == [u \in Players |-> "wallet"]
BankFirst == [AllWallet EXCEPT ![u1] = "bank"]
UsdcFirst == [AllWallet EXCEPT ![u1] = "usdc"]
UnlinkedFirst == [AllWallet EXCEPT ![u1] = "usdcUnlinked"]

\* One close that pays by bank and wallet; the scenes add to it.
Plain == [inflow |-> 101, lateFee |-> 46, points |-> Ranked, rail |-> BankFirst, verdicts |-> {"pass"}, outcomes |-> {"paid"},
          atOnce |-> 1, aborts |-> 0, opens |-> 0, edits |-> 0, audits |-> 0, late |-> 0, prefs |-> 0]
Lossy == [Plain EXCEPT !.outcomes = {"paid", "lost"}]

SmallScenes ==
  {[Plain EXCEPT !.points = Tied, !.rail = UsdcFirst, !.verdicts = {"pass", "warnings", "blocked"},
                 !.outcomes = {"paid", "refused"}, !.edits = 1, !.late = 1],
   [Plain EXCEPT !.opens = 2, !.edits = 1],
   [Lossy EXCEPT !.opens = 1, !.edits = 1, !.late = 1],
   [Lossy EXCEPT !.opens = 1, !.aborts = 1],
   [Plain EXCEPT !.verdicts = {"pass", "warnings"}, !.audits = 1, !.aborts = 1],
   [Plain EXCEPT !.opens = 1, !.prefs = 1],
   [Plain EXCEPT !.atOnce = 2],
   [Plain EXCEPT !.inflow = 2, !.atOnce = 2, !.late = 1],
   [Plain EXCEPT !.inflow = 2, !.atOnce = 2, !.aborts = 1],
   [Plain EXCEPT !.inflow = 2, !.rail = AllWallet, !.atOnce = 2, !.aborts = 1]}

\* Two closes and an edit; two closes of three places with a late cent between them; a
\* winner without an account; a lost answer; a crash.
Refuting ==
  {[Plain EXCEPT !.rail = AllWallet, !.atOnce = 2, !.edits = 1],
   [Plain EXCEPT !.inflow = 3, !.lateFee = 1, !.points = RankedThree, !.rail = AllWallet, !.atOnce = 2, !.late = 1],
   [Plain EXCEPT !.rail = UnlinkedFirst], Lossy, [Plain EXCEPT !.rail = AllWallet, !.aborts = 1]}
=============================================================================
