------------------------------ MODULE Requests ------------------------------
(***************************************************************************)
(* How the backend serves requests.  The Node.js process runs one handler  *)
(* at a time, from one await to the next; between two awaits of a handler  *)
(* any other may run, and a second process may serve any of them.  Nothing *)
(* is locked: what a handler has read is a copy of its own, and save()     *)
(* writes the whole copy over what the row has become.                     *)
(*                                                                         *)
(* The components that are served like that EXTEND this module: an action  *)
(* of theirs is what a handler does from one await to the next, and a      *)
(* decision that takes several reads in a row takes them at one moment.    *)
(***************************************************************************)
EXTENDS Naturals, FiniteSets

CONSTANTS
  Workers        \* ids of concurrent requests

VARIABLES
  pc,            \* per request: the step it takes next, "idle" when there is none
  my,            \* per request: the copies it holds
  overlapped,    \* whether two requests were ever served at the same time
  irregular,     \* whether an irregular step was ever taken
  spare,         \* irregular steps that may still be taken
  atOnce         \* requests that are served at a time, at most

requestVars == <<pc, my, overlapped, irregular, spare, atOnce>>

NoWork == [idle |-> TRUE]

\* No request is served; n irregular steps may be seen, and m requests at a time.
ServeNothing(n, m) ==
  /\ pc = [w \in Workers |-> "idle"]
  /\ my = [w \in Workers |-> NoWork]
  /\ overlapped = FALSE
  /\ irregular = FALSE
  /\ spare = n
  /\ atOnce = m

Quiet == \A w \in Workers : pc[w] = "idle"

\* The requests so far were served in turn, and nothing irregular happened.
Orderly == ~overlapped /\ ~irregular

\* A request arrives, and its handler runs to its first await.
Arrive(w) ==
  /\ pc[w] = "idle"
  /\ Cardinality({v \in Workers : pc[v] # "idle"}) < atOnce
  /\ overlapped' = (overlapped \/ ~Quiet)
  /\ UNCHANGED atOnce

\* What is correct to do but not part of the regular course (a correction, a
\* failure): each component says what it counts.
Regular == UNCHANGED <<irregular, spare>>
Irregular ==
  /\ spare > 0
  /\ spare' = spare - 1
  /\ irregular' = TRUE

At(w, step) == pc[w] = step /\ UNCHANGED <<overlapped, irregular, spare, atOnce>>
Goto(w, step) == pc' = [pc EXCEPT ![w] = step]
Hold(w, work) == my' = [my EXCEPT ![w] = work]
Await(w, step, work) == Goto(w, step) /\ Hold(w, work)
Then(w, step) == Goto(w, step) /\ UNCHANGED my
Answer(w) == Await(w, "idle", NoWork)



\* A call of the handler throws, or its process dies.
Abort(w) ==
  /\ pc[w] # "idle"
  /\ Irregular
  /\ Answer(w)
  /\ UNCHANGED <<overlapped, atOnce>>
=============================================================================
