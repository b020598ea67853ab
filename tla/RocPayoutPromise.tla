-------------------------- MODULE RocPayoutPromise --------------------------
(***************************************************************************)
(* What closing a session promises its players: each place is awarded at   *)
(* most once, to one player, out of money that is in the fund.  Places cut *)
(* from funds of different size may round up to a cent more than there is. *)
(***************************************************************************)
EXTENDS RocMoney

CONSTANTS Players, Places

VARIABLES inflow,   \* cents paid into the session's fund
          awarded   \* cents of the fund awarded for each place to each player

promise == <<inflow, awarded>>

Spent(a) == SumOver([x \in Places \X Players |-> a[x[1]][x[2]]], Places \X Players)
RoundingCent == 1

Init == /\ inflow \in Nat
        /\ awarded = [k \in Places |-> [u \in Players |-> 0]]

Deposit == /\ inflow' \in Nat /\ inflow' > inflow
           /\ UNCHANGED awarded

Award(k, u) ==
  /\ \A v \in Players : awarded[k][v] = 0
  /\ awarded'[k][u] \in Nat \ {0}
  /\ awarded' = [awarded EXCEPT ![k][u] = awarded'[k][u]]
  /\ Spent(awarded') <= inflow + RoundingCent
  /\ UNCHANGED inflow

Next == Deposit \/ \E k \in Places, u \in Players : Award(k, u)

Spec == Init /\ [][Next]_promise
=============================================================================
