-------------------------- MODULE RocPayinPromise --------------------------
(***************************************************************************)
(* What the pay-in path promises to a player and to the league: money      *)
(* Stripe takes reaches the ledger, whole, once, and nothing else does.    *)
(***************************************************************************)
EXTENDS Naturals

CONSTANTS Payments

VARIABLES taken,     \* cents Stripe took from the player for each payment
          credited   \* cents the ledger shows for each payment

promise == <<taken, credited>>

Init == /\ taken = [p \in Payments |-> 0]
        /\ credited = [p \in Payments |-> 0]

Charge(p) ==
  /\ taken[p] = 0
  /\ taken'[p] \in Nat \ {0}
  /\ taken' = [taken EXCEPT ![p] = taken'[p]]
  /\ UNCHANGED credited

Credit(p) ==
  /\ taken[p] > 0 /\ credited[p] = 0
  /\ credited' = [credited EXCEPT ![p] = taken[p]]
  /\ UNCHANGED taken

Next == \E p \in Payments : Charge(p) \/ Credit(p)

Spec == Init /\ [][Next]_promise /\ \A p \in Payments : WF_promise(Credit(p))
=============================================================================
