----------------------------- MODULE MoneyMatch -----------------------------
(***************************************************************************)
(* One money match and the stakes held for it (MoneyMatchesService,        *)
(* EscrowService): both players confirm the stakes, the escrow is held,    *)
(* both report the same score and the escrow goes to the winner; anybody   *)
(* may file a dispute, which an arbiter resolves with a result or a        *)
(* refund.                                                                 *)
(*                                                                         *)
(* Every request reads the match, works on its copy across the calls to    *)
(* the escrow, the audit and the notifications, and saves the copy.  There *)
(* is no lock: an action runs from one await to the next.                  *)
(***************************************************************************)
EXTENDS Naturals, FiniteSets

CONSTANTS
  Scores,        \* scores somebody may report; ties are refused
  WinnerOf,      \* the player with the higher score
  Requests,      \* ids of requests; each is made at most once
  MaxErrors,     \* bound on audit rows that cannot be written
  MaxAborts      \* bound on requests cut short by an error or a crash

Players == {"A", "B"}
Ways == Players \cup {"refund"}

ASSUME MoneyMatchAssumption ==
  /\ WinnerOf \in [Scores -> Players]
  /\ MaxErrors \in Nat /\ MaxAborts \in Nat

VARIABLES
  match,      \* the money_matches row
  pc, my,     \* per request: where it is, and the operation and copy it holds
  held,       \* the escrow holds made, by the request that made each
  paid,       \* what the escrow did with each hold: how often it was released
              \* to whom, and refunded
  rated,      \* how often scorekeeping was told each player won
  staked,     \* the players who have asked to confirm the stakes
  reported,   \* the scores each player has reported
  ruled,      \* the rulings of arbiters: score, and the winner they name
  overlapped, \* whether two requests were ever served at the same time
  errors, aborts

vars == <<match, pc, my, held, paid, rated, staked, reported, ruled, overlapped, errors, aborts>>
told == <<staked, reported, ruled>>
faults == <<errors, aborts>>

Nobody == "none"
NoHold == "none"
NoScore == "none"

ASSUME NoHoldAssumption == NoHold \notin Requests

NoPending == [score |-> NoScore, by |-> {}]

Match == [status : {"PENDING", "ACTIVE", "DISPUTED", "COMPLETED"},
          confirmed : SUBSET Players,
          escrow : {"NONE", "HELD", "RELEASED", "REFUNDED", "FAILED"},
          hold : Requests \cup {NoHold},
          pending : [score : Scores \cup {NoScore}, by : SUBSET Players],
          winner : Players \cup {Nobody}]
NewMatch == [status |-> "PENDING", confirmed |-> {}, escrow |-> "NONE", hold |-> NoHold,
             pending |-> NoPending, winner |-> Nobody]

\* What a request holds: the score and winner it settles the match with, and
\* its copy of the row.
NoWork == [score |-> NoScore, winner |-> Nobody, row |-> NewMatch]

Init ==
  /\ match = NewMatch
  /\ pc = [r \in Requests |-> "new"] /\ my = [r \in Requests |-> NoWork]
  /\ held = {}
  /\ paid = [r \in Requests |-> [way \in Ways |-> 0]]
  /\ rated = [p \in Players |-> 0]
  /\ staked = {} /\ reported = [p \in Players |-> {}] /\ ruled = {}
  /\ overlapped = FALSE
  /\ errors = 0 /\ aborts = 0

Busy == {r \in Requests : pc[r] \notin {"new", "done"}}

Goto(r, step) == pc' = [pc EXCEPT ![r] = step]
Answer(r) == Goto(r, "done") /\ my' = [my EXCEPT ![r] = NoWork]
\* The request goes on with its copy as it now is.
Take(r, row, step) == my' = [my EXCEPT ![r].row = row] /\ Goto(r, step)
New(r) == pc[r] = "new" /\ overlapped' = (overlapped \/ Busy # {})

-----------------------------------------------------------------------------
(* confirm *)

\* (mutant) One confirmation is enough to lock the stakes.
LockedInByOne(row) == row.confirmed # {} /\ row.status = "PENDING"
LockedIn(row) == row.confirmed = Players /\ row.status = "PENDING"

Confirm(r, p) ==
  LET row == [match EXCEPT !.confirmed = @ \cup {p}]
  IN  /\ New(r)
      /\ match.status \in {"PENDING", "ACTIVE"}
      /\ staked' = staked \cup {p}
      /\ IF LockedIn(row) THEN Take(r, [row EXCEPT !.status = "ACTIVE"], "hold")
                          ELSE Take(r, row, "save")
      /\ UNCHANGED <<match, held, paid, rated, reported, ruled, faults>>

\* escrow.hold answers with a fresh id, and the audit row is written.  If that
\* fails the match carries on with escrow FAILED, though the hold was made.
Hold(r) ==
  /\ pc[r] = "hold"
  /\ held' = held \cup {r}
  /\ \/ /\ Take(r, [my[r].row EXCEPT !.escrow = "HELD", !.hold = r], "save")
        /\ UNCHANGED errors
     \/ /\ errors < MaxErrors
        /\ errors' = errors + 1
        /\ Take(r, [my[r].row EXCEPT !.escrow = "FAILED", !.hold = r], "save")
  /\ UNCHANGED <<overlapped, match, paid, rated, told, aborts>>

-----------------------------------------------------------------------------
(* setLivestream, dispute *)

\* Only the url changes, and it is not modelled; the row is saved all the same.
SetLivestream(r) ==
  /\ New(r)
  /\ Take(r, match, "save")
  /\ UNCHANGED <<match, held, paid, rated, told, faults>>

Dispute(r) ==
  /\ New(r)
  /\ match.status \in {"PENDING", "ACTIVE"}
  /\ Take(r, [match EXCEPT !.status = "DISPUTED"], "save")
  /\ UNCHANGED <<match, held, paid, rated, told, faults>>

-----------------------------------------------------------------------------
(* complete *)

\* The first report, or one that contradicts the pending one, is a new
\* proposal; one that repeats it adds its player.
Proposal(p, score) ==
  [score |-> score, by |-> IF match.pending.score = score THEN match.pending.by \cup {p} ELSE {p}]

\* (mutant) A report counts as agreed whatever the other player reported.
AgreedWithAnybody(p, score) == match.pending.by \cup {p} = Players
Agreed(p, score) == match.pending.score = score /\ match.pending.by \cup {p} = Players

Reportable == match.status = "ACTIVE" /\ match.confirmed = Players

Propose(r, p, score) ==
  /\ New(r)
  /\ Reportable
  /\ ~Agreed(p, score)
  /\ reported' = [reported EXCEPT ![p] = @ \cup {score}]
  /\ Take(r, [match EXCEPT !.pending = Proposal(p, score)], "save")
  /\ UNCHANGED <<match, held, paid, rated, staked, ruled, faults>>

Settled(row, winner) ==
  [row EXCEPT !.status = "COMPLETED", !.pending = NoPending, !.winner = winner]

InEscrow(row) == row.escrow = "HELD" /\ row.hold # NoHold

Settle(r, score, winner) ==
  /\ my' = [my EXCEPT ![r] = [score |-> score, winner |-> winner, row |-> Settled(match, winner)]]
  /\ Goto(r, IF InEscrow(match) THEN "release" ELSE "saveResult")

Complete(r, p, score) ==
  /\ New(r)
  /\ Reportable
  /\ Agreed(p, score)
  /\ reported' = [reported EXCEPT ![p] = @ \cup {score}]
  /\ Settle(r, score, WinnerOf[score])
  /\ UNCHANGED <<match, held, paid, rated, staked, ruled, faults>>

-----------------------------------------------------------------------------
(* resolveDispute *)

\* The arbiter gives a score and may name a winner of their own.
Rule(r, score, winner) ==
  /\ New(r)
  /\ match.status = "DISPUTED"
  /\ ruled' = ruled \cup {[score |-> score, winner |-> winner]}
  /\ Settle(r, score, winner)
  /\ UNCHANGED <<match, held, paid, rated, staked, reported, faults>>

\* refund or no_contest: no result, no rating.
CallOff(r) ==
  LET row == [match EXCEPT !.status = "COMPLETED"]
  IN  /\ New(r)
      /\ match.status = "DISPUTED"
      /\ Take(r, row, IF InEscrow(row) THEN "refund" ELSE "save")
      /\ UNCHANGED <<match, held, paid, rated, told, faults>>

-----------------------------------------------------------------------------
(* the rest of a request *)

\* escrow.refund is not guarded by a try: an error is an Abort.
Refund(r) ==
  LET hold == my[r].row.hold
  IN  /\ pc[r] = "refund"
      /\ paid' = [paid EXCEPT ![hold]["refund"] = @ + 1]
      /\ Take(r, [my[r].row EXCEPT !.escrow = "REFUNDED"], "save")
      /\ UNCHANGED <<overlapped, match, held, rated, told, faults>>

\* releaseEscrowToWinner: as with the hold, an audit row that cannot be written
\* makes the match say FAILED although the escrow was released.
Release(r) ==
  LET hold == my[r].row.hold
  IN  /\ pc[r] = "release"
      /\ paid' = [paid EXCEPT ![hold][my[r].winner] = @ + 1]
      /\ \/ /\ Take(r, [my[r].row EXCEPT !.escrow = "RELEASED"], "saveResult")
            /\ UNCHANGED errors
         \/ /\ errors < MaxErrors
            /\ errors' = errors + 1
            /\ Take(r, [my[r].row EXCEPT !.escrow = "FAILED"], "saveResult")
      /\ UNCHANGED <<overlapped, match, held, rated, told, aborts>>

\* (mutant) The row is not saved once the escrow is released.
SaveNoResult(r) ==
  /\ pc[r] \in {"save", "saveResult"}
  /\ IF pc[r] = "saveResult" THEN Goto(r, "rate") /\ UNCHANGED <<match, my>>
     ELSE Answer(r) /\ match' = my[r].row
  /\ UNCHANGED <<overlapped, held, paid, rated, told, faults>>

\* Only requests that settle the match with a result go on to scorekeeping.
Save(r) ==
  /\ pc[r] \in {"save", "saveResult"}
  /\ match' = my[r].row
  /\ IF pc[r] = "saveResult" THEN Goto(r, "rate") /\ UNCHANGED my ELSE Answer(r)
  /\ UNCHANGED <<overlapped, held, paid, rated, told, faults>>

\* (mutant) Scorekeeping is given the winner the arbiter names.
RatedWinnerNamed(r) == my[r].winner
RatedWinner(r) == WinnerOf[my[r].score]

\* finalizeViaScorekeeping goes by the score, whoever the winner is said to be.
Rate(r) ==
  /\ pc[r] = "rate"
  /\ rated' = [rated EXCEPT ![RatedWinner(r)] = @ + 1]
  /\ Answer(r)
  /\ UNCHANGED <<overlapped, match, held, paid, told, faults>>

\* A call throws, or the process dies with the request.
Abort(r) ==
  /\ pc[r] \notin {"new", "done"}
  /\ aborts < MaxAborts
  /\ aborts' = aborts + 1
  /\ Answer(r)
  /\ UNCHANGED <<overlapped, match, held, paid, rated, told, errors>>

-----------------------------------------------------------------------------
Arrive(r) ==
  \/ SetLivestream(r) \/ Dispute(r) \/ CallOff(r)
  \/ \E p \in Players : Confirm(r, p)
  \/ \E p \in Players, score \in Scores : Propose(r, p, score) \/ Complete(r, p, score)
  \/ \E score \in Scores, winner \in Players : Rule(r, score, winner)

Next == \E r \in Requests : \/ Arrive(r)
                            \/ Hold(r) \/ Refund(r) \/ Release(r) \/ Save(r) \/ Rate(r)
                            \/ Abort(r)

Spec == Init /\ [][Next]_vars

-----------------------------------------------------------------------------
(* What a money match promises *)

\* Every variable keeps its shape.
TypeOK ==
  /\ match \in Match
  /\ pc \in [Requests -> {"new", "hold", "refund", "release", "save", "saveResult", "rate", "done"}]
  /\ my \in [Requests -> [score : Scores \cup {NoScore}, winner : Players \cup {Nobody}, row : Match]]
  /\ held \subseteq Requests
  /\ paid \in [Requests -> [Ways -> Nat]]
  /\ rated \in [Players -> Nat]
  /\ staked \subseteq Players
  /\ reported \in [Players -> SUBSET Scores]
  /\ ruled \subseteq [score : Scores, winner : Players]
  /\ overlapped \in BOOLEAN
  /\ errors \in 0 .. MaxErrors /\ aborts \in 0 .. MaxAborts

\* Nobody's stake is held before both players confirmed it, whichever copies of
\* the row overwrite each other ("PENDING -> ACTIVE (both stake confirms) +
\* escrow hold", money-matches.service.ts:41).
HeldByConsent == held # {} => staked = Players

AgreedOn(p) == \E score \in Scores : WinnerOf[score] = p /\ \A q \in Players : score \in reported[q]

\* The escrow only ever goes to a player whom a score both players reported, or
\* an arbiter's ruling, makes the winner, and only out of a hold that was made.
ReleasedByAgreement ==
  \A hold \in Requests, p \in Players :
    paid[hold][p] > 0 => /\ hold \in held
                         /\ AgreedOn(p) \/ \E v \in ruled : v.winner = p

\* Ratings move only by a score both players reported or an arbiter gave
\* ("dual-confirm rules", ScorekeepingServiceV2.processReport).
RatedByAgreement ==
  \A p \in Players : rated[p] > 0 => AgreedOn(p) \/ \E v \in ruled : WinnerOf[v.score] = p

Undisturbed == ~overlapped /\ aborts = 0

\* While requests come one after another and run to their end, no hold is paid
\* out twice, even when audit rows get lost ("Release held funds to winner after
\* dual-confirm complete or arbiter resolve", escrow.service.ts:99).
TimesPaid(hold) == paid[hold]["A"] + paid[hold]["B"] + paid[hold]["refund"]
PaidOnceInTurn == Undisturbed => \A hold \in Requests : TimesPaid(hold) <= 1

\* While requests come one after another and run to their end, a completed match
\* has no stakes left in escrow unless the row says FAILED.
NothingLeftHeld ==
  Undisturbed /\ Busy = {} /\ match.status = "COMPLETED" /\ match.escrow # "FAILED" =>
    \A hold \in held : TimesPaid(hold) = 1

\* While requests come one after another and run to their end, a match is rated
\* once when it has a result and never otherwise.
ResultRatedOnce ==
  Undisturbed /\ Busy = {} =>
    rated["A"] + rated["B"] = IF match.status = "COMPLETED" /\ match.winner # Nobody THEN 1 ELSE 0

\* A hold is released to one player, or refunded: never both ("COMPLETED or
\* refund", money-matches.service.ts:43).
PaidOneWay ==
  \A hold \in Requests : Cardinality({way \in Ways : paid[hold][way] > 0}) <= 1
=============================================================================
