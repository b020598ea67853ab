----------------------------- MODULE RocPayout -----------------------------
(***************************************************************************)
(* Closing one ROC session: closeSessionAndPayout audits the session,      *)
(* locks it by its status, cuts its Players Fund into prizes and pays them *)
(* place by place (Stripe transfer, two ledger lines, the winner's balance *)
(* and the payout row), while operators may audit it, edit its standings   *)
(* or open it again and players may change their preferences.              *)
(*                                                                         *)
(* As in RocPayin there is no lock and no transaction: an action runs from *)
(* one await to the next, and a save writes back the whole row the request *)
(* read before.                                                            *)
(***************************************************************************)
EXTENDS RocMoney

CONSTANTS
  Players,        \* the players
  Handlers,       \* ids of the close and audit requests that run at one time
  Scenes          \* what is followed, as the assumption says

\* A scene: the Players Fund cents of the session's pay-ins and of a pay-in confirmed
\* late, the points of those in the session when it is ready to be closed, how each
\* player is paid, what RealAI and a Stripe transfer may answer, how many close and
\* audit requests run at a time, and how many requests at most are cut short by an
\* error or a crash, open the session again, edit a standing, audit the session,
\* confirm a late pay-in or save preferences.
ASSUME PayoutAssumption ==
  /\ IsFiniteSet(Players) /\ IsFiniteSet(Handlers)
  /\ \A s \in Scenes : \E entered \in SUBSET Players :
       s \in [inflow : Nat, lateFee : Nat, points : [entered -> Nat],
              rail : [Players -> {"wallet", "bank", "usdc", "usdcUnlinked"}],
              verdicts : SUBSET {"pass", "warnings", "blocked"}, outcomes : SUBSET {"paid", "refused", "lost"},
              atOnce : 1 .. Cardinality(Handlers),
              aborts : Nat, opens : Nat, edits : Nat, audits : Nat, late : Nat, prefs : Nat]

VARIABLES
  scene,      \* fixed from the start
  session,    \* roc_sessions: status, last audit verdict, operator override
  standing,   \* roc_session_standings: place (0 is null), points, payout
  inflow,     \* Players Fund credits tagged with the session
  debit,      \* payout:<id>:pf_debit lines, by place and payee
  wallet,     \* payout:<id>:wallet lines
  payout,     \* roc_payouts, unique by place and payee
  moved,      \* what Stripe really transferred, by its idempotency key
  balance,    \* roc_player_balances: available, earned, paid out
  pc, my,     \* where each close or audit request is, and what it has read
  opening,    \* the session rows openSession requests have read
  editing,    \* the standing rows setStanding requests have read
  prefs,      \* the balance rows updatePreferences requests have read
  count       \* how often each bounded thing has happened

vars == <<scene, session, standing, inflow, debit, wallet, payout, moved, balance, pc, my,
          opening, editing, prefs, count>>
money == <<debit, wallet, payout, moved, balance>>
others == <<scene, inflow, opening, editing, prefs, count>>

Places == 1 .. 3
Key == Places \X Players

Field == DOMAIN scene.points                      \* who has a standing in the session

External(u) == scene.rail[u] # "wallet"           \* recordExternalPaidOut is called
Linked(u) == scene.rail[u] \in {"bank", "usdc"}   \* Stripe has an account to pay to

None == "none"
NoPayout == [status |-> None, gross |-> 0]
SessionRow == [status : {"REGISTRATION", "AUDIT_HOLD", "PAYING_OUT", "CLOSED"},
               audit : {None, "pass", "warnings", "blocked"}, override : BOOLEAN]
\* What a request holds: its kind, the operator's acknowledgement, the audit's
\* verdict and the copies it has read.
NoWork == [kind |-> None, ack |-> FALSE, verdict |-> None,
           sess |-> [status |-> "REGISTRATION", audit |-> None, override |-> FALSE],
           rows |-> [u \in Field |-> [place |-> 0, points |-> 0, payout |-> 0]],
           order |-> [u \in Field |-> 1],
           prizes |-> <<0, 0, 0>>, k |-> 1, payout |-> NoPayout,
           bal |-> [available |-> 0, earned |-> 0, paidOut |-> 0]]

TotalOf(f) == SumOver(f, DOMAIN f)
\* (mutant) What was already paid out is forgotten.
GrossFund == NonNegative(inflow)
SessionFund == NonNegative(inflow - TotalOf(debit))

\* The orders in which the database may return the standings: by points, ties
\* in any order.
Orders(rows) ==
  {f \in [Field -> 1 .. Cardinality(Field)] :
     /\ \A u, v \in Field : f[u] = f[v] => u = v
     /\ \A u, v \in Field : rows[u].points > rows[v].points => f[u] < f[v]}

FillPlaces(rows, order) ==
  [u \in Field |-> IF rows[u].place = 0 THEN [rows[u] EXCEPT !.place = order[u]] ELSE rows[u]]

Init ==
  /\ scene \in Scenes
  /\ session = [status |-> "REGISTRATION", audit |-> None, override |-> FALSE]
  /\ standing = [u \in Field |-> [place |-> 0, points |-> scene.points[u], payout |-> 0]]
  /\ inflow = scene.inflow
  /\ debit = [key \in Key |-> 0] /\ wallet = [key \in Key |-> 0]
  /\ payout = [key \in Key |-> NoPayout]
  /\ moved = [key \in Key |-> 0]
  /\ balance = [u \in Players |-> [available |-> 0, earned |-> 0, paidOut |-> 0]]
  /\ pc = [h \in Handlers |-> "idle"] /\ my = [h \in Handlers |-> NoWork]
  /\ opening = {} /\ editing = {} /\ prefs = {}
  /\ count = [aborts |-> 0, opens |-> 0, edits |-> 0, audits |-> 0, late |-> 0, prefs |-> 0]

-----------------------------------------------------------------------------
Goto(h, step) == pc' = [pc EXCEPT ![h] = step]
\* The ids are interchangeable: a request takes a free one.
Arrives(h) ==
  /\ Cardinality({g \in Handlers : pc[g] # "idle"}) < scene.atOnce
  /\ h = CHOOSE g \in Handlers : pc[g] = "idle"
End(h) == Goto(h, "idle") /\ my' = [my EXCEPT ![h] = NoWork]

-----------------------------------------------------------------------------
(* closeSessionAndPayout, up to the lock *)

\* The request has read the session: a closed one is reported as such, one
\* being paid out is refused (neither changes anything), any other is audited.
\* ack: release-payout, or close with acknowledgeWarnings.
Close(h, ack) ==
  /\ Arrives(h)
  /\ session.status \notin {"CLOSED", "PAYING_OUT"}
  /\ my' = [my EXCEPT ![h] = [NoWork EXCEPT !.kind = "close", !.ack = ack]]
  /\ Goto(h, "audit")
  /\ UNCHANGED <<session, standing, money, others>>

\* The audit endpoint runs the same audit for itself, in any status.
Audit(h) ==
  /\ Arrives(h)
  /\ count.audits < scene.audits
  /\ count' = [count EXCEPT !.audits = @ + 1]
  /\ my' = [my EXCEPT ![h] = [NoWork EXCEPT !.kind = "audit"]]
  /\ Goto(h, "audit")
  /\ UNCHANGED <<scene, session, standing, money, inflow, opening, editing, prefs>>

\* runSessionAudit.
AuditReadSession(h) ==
  /\ pc[h] = "audit"
  /\ my' = [my EXCEPT ![h].sess = session]
  /\ Goto(h, "auditRead")
  /\ UNCHANGED <<session, standing, money, others>>

\* Reading the standings and filling the places still null; the same in the
\* audit and in the close.
ReadStandings(h, from, to) ==
  /\ pc[h] = from
  /\ \E order \in Orders(standing) :
       my' = [my EXCEPT ![h].order = order, ![h].rows = FillPlaces(standing, order)]
  /\ Goto(h, to)
  /\ UNCHANGED <<session, standing, money, others>>

SaveStandings(h, from, to) ==
  /\ pc[h] = from
  /\ standing' = my[h].rows
  /\ Goto(h, to)
  /\ UNCHANGED <<session, money, my, others>>

\* RealAI has answered; the session row read before the call is saved with the
\* verdict, and with it the status it had then.
AuditVerdict(h) ==
  /\ pc[h] = "auditVerdict"
  /\ \E verdict \in scene.verdicts :
       /\ session' = [my[h].sess EXCEPT !.audit = verdict, !.override = FALSE]
       /\ IF my[h].kind = "audit" THEN End(h)
          ELSE Goto(h, "reload") /\ my' = [my EXCEPT ![h].verdict = verdict]
  /\ UNCHANGED <<standing, money, others>>

\* The session is read again and the gate decides on the verdict.
Held(h, row) == \/ my[h].verdict = "blocked"
                \/ my[h].verdict = "warnings" /\ ~my[h].ack /\ ~row.override
Overridden(h) == my[h].verdict = "warnings" /\ my[h].ack

Reload(h) ==
  /\ pc[h] = "reload"
  /\ my' = [my EXCEPT ![h].sess = session]
  /\ Goto(h, IF Held(h, session) THEN "hold" ELSE IF Overridden(h) THEN "override" ELSE "lock")
  /\ UNCHANGED <<session, standing, money, others>>

Hold(h) ==
  /\ pc[h] = "hold"
  /\ session' = [my[h].sess EXCEPT !.status = "AUDIT_HOLD"]
  /\ End(h)
  /\ UNCHANGED <<standing, money, others>>

Override(h) ==
  /\ pc[h] = "override"
  /\ my' = [my EXCEPT ![h].sess.override = TRUE]
  /\ session' = my'[h].sess
  /\ Goto(h, "lock")
  /\ UNCHANGED <<standing, money, others>>

Lock(h) ==
  /\ pc[h] = "lock"
  /\ my' = [my EXCEPT ![h].sess.status = "PAYING_OUT"]
  /\ session' = my'[h].sess
  /\ Goto(h, "read")
  /\ UNCHANGED <<standing, money, others>>

ReadFund(h) ==
  /\ pc[h] = "fund"
  /\ my' = [my EXCEPT ![h].prizes = SessionPrizes(SessionFund), ![h].k = 1]
  /\ Goto(h, "find")
  /\ UNCHANGED <<session, standing, money, others>>

-----------------------------------------------------------------------------
(* The loop over the places *)

AtPlace(h) == {u \in Field : my[h].rows[u].place = my[h].k}
\* rows.find: the first in the order in which the rows were read.
Payee(h) == CHOOSE u \in AtPlace(h) : \A v \in AtPlace(h) : my[h].order[u] <= my[h].order[v]
KeyOf(h) == <<my[h].k, Payee(h)>>
Prize(h) == my[h].prizes[my[h].k]

Unpaid(h) == /\ Prize(h) > 0
             /\ AtPlace(h) # {}
             /\ payout[KeyOf(h)].status # "paid"

NextPlace(h) ==
  /\ my' = [my EXCEPT ![h].k = IF @ = 3 THEN 3 ELSE @ + 1,
                      ![h].payout = NoPayout, ![h].bal = NoWork.bal]
  /\ Goto(h, IF my[h].k = 3 THEN "close" ELSE "find")

SkipPlace(h) ==
  /\ pc[h] = "find"
  /\ ~Unpaid(h)
  /\ NextPlace(h)
  /\ UNCHANGED <<session, standing, money, others>>

FindPayout(h) ==
  /\ pc[h] = "find"
  /\ Unpaid(h)
  /\ my' = [my EXCEPT ![h].payout = payout[KeyOf(h)]]
  /\ Goto(h, IF payout[KeyOf(h)] = NoPayout THEN "create" ELSE "mark")
  /\ UNCHANGED <<session, standing, money, others>>

CreatePayout(h) ==
  /\ pc[h] = "create"
  /\ payout[KeyOf(h)] = NoPayout
  /\ my' = [my EXCEPT ![h].payout = [status |-> "finalized", gross |-> Prize(h)]]
  /\ payout' = [payout EXCEPT ![KeyOf(h)] = my'[h].payout]
  /\ Goto(h, "mark")
  /\ UNCHANGED <<session, standing, debit, wallet, moved, balance, others>>

SavePayoutAs(h, status) ==
  payout' = [payout EXCEPT ![KeyOf(h)] = [my[h].payout EXCEPT !.status = status]]

MarkTransferring(h) ==
  /\ pc[h] = "mark"
  /\ SavePayoutAs(h, "transferring")
  /\ Goto(h, "transfer")
  /\ UNCHANGED <<session, standing, debit, wallet, moved, balance, my, others>>

\* (mutant) The debit of the Players Fund is left out.
AfterTransferWallet == "walletFind"
AfterTransfer == "debitFind"

\* (mutant) The transfer is requested without an idempotency key.
AcceptedAlways(h) == moved[KeyOf(h)] \in Nat
Accepted(h) == moved[KeyOf(h)] \in {0, Prize(h)}

\* createTransfer.  Without a linked account nothing leaves RackUp and the
\* answer is "paid".  Otherwise Stripe pays once per payout id, refuses, or
\* pays while its answer is lost, which the code takes for a failure.  A retry
\* under the same idempotency key for another amount is refused.
Transfer(h) ==
  LET key == KeyOf(h)
  IN  /\ pc[h] = "transfer"
      /\ \/ /\ ~Linked(Payee(h))
            /\ Goto(h, AfterTransfer)
            /\ UNCHANGED moved
         \/ /\ Linked(Payee(h)) /\ "paid" \in scene.outcomes /\ Accepted(h)
            /\ moved' = [moved EXCEPT ![key] = Prize(h)]
            /\ Goto(h, AfterTransfer)
         \/ /\ Linked(Payee(h))
            /\ "refused" \in scene.outcomes \/ ~Accepted(h)
            /\ Goto(h, "failed")
            /\ UNCHANGED moved
         \/ /\ Linked(Payee(h)) /\ "lost" \in scene.outcomes /\ Accepted(h)
            /\ moved' = [moved EXCEPT ![key] = Prize(h)]
            /\ Goto(h, "failed")
      /\ UNCHANGED <<session, standing, debit, wallet, payout, balance, my, others>>

SaveFailed(h) ==
  /\ pc[h] = "failed"
  /\ SavePayoutAs(h, "failed")
  /\ NextPlace(h)
  /\ UNCHANGED <<session, standing, debit, wallet, moved, balance, others>>

\* (mutant) No lookup and no unique index on the idempotency key.
PostedNever(lines, h) == lines[KeyOf(h)] < 0
Posted(lines, h) == lines[KeyOf(h)] # 0

\* post(): a line found under its key is left as it is; the unique index makes
\* the loser of a race throw (see Collide).
FindDebit(h) ==
  /\ pc[h] = "debitFind"
  /\ Goto(h, IF Posted(debit, h) THEN "walletFind" ELSE "debitPost")
  /\ UNCHANGED <<session, standing, money, my, others>>

PostDebit(h) ==
  /\ pc[h] = "debitPost"
  /\ ~Posted(debit, h)
  /\ debit' = [debit EXCEPT ![KeyOf(h)] = Prize(h)]
  /\ Goto(h, "walletFind")
  /\ UNCHANGED <<session, standing, wallet, payout, moved, balance, my, others>>

FindWallet(h) ==
  /\ pc[h] = "walletFind"
  /\ Goto(h, IF Posted(wallet, h) THEN "creditRead" ELSE "walletPost")
  /\ UNCHANGED <<session, standing, money, my, others>>

PostWallet(h) ==
  /\ pc[h] = "walletPost"
  /\ ~Posted(wallet, h)
  /\ wallet' = [wallet EXCEPT ![KeyOf(h)] = Prize(h)]
  /\ Goto(h, "creditRead")
  /\ UNCHANGED <<session, standing, debit, payout, moved, balance, my, others>>

\* The insert of a payout or a line meets a row with its key: the close throws
\* and leaves the session as it is.
Collide(h) ==
  /\ \/ pc[h] = "create" /\ payout[KeyOf(h)] # NoPayout
     \/ pc[h] = "debitPost" /\ Posted(debit, h)
     \/ pc[h] = "walletPost" /\ Posted(wallet, h)
  /\ End(h)
  /\ UNCHANGED <<session, standing, money, others>>

\* creditAvailable and recordExternalPaidOut: read the balance row, save it.
ReadBalance(h, from, to) ==
  /\ pc[h] = from
  /\ my' = [my EXCEPT ![h].bal = balance[Payee(h)]]
  /\ Goto(h, to)
  /\ UNCHANGED <<session, standing, money, others>>

CreditAvailable(h) ==
  LET bal == my[h].bal
  IN  /\ pc[h] = "credit"
      /\ balance' = [balance EXCEPT ![Payee(h)] =
                      [bal EXCEPT !.available = @ + Prize(h), !.earned = @ + Prize(h)]]
      /\ Goto(h, IF External(Payee(h)) THEN "outRead" ELSE "paid")
      /\ UNCHANGED <<session, standing, debit, wallet, payout, moved, my, others>>

RecordExternalPaidOut(h) ==
  LET bal == my[h].bal
  IN  /\ pc[h] = "out"
      /\ balance' = [balance EXCEPT ![Payee(h)] =
                      [bal EXCEPT !.available = NonNegative(@ - Prize(h)),
                                  !.paidOut = @ + Prize(h)]]
      /\ Goto(h, "paid")
      /\ UNCHANGED <<session, standing, debit, wallet, payout, moved, my, others>>

SavePaid(h) ==
  /\ pc[h] = "paid"
  /\ SavePayoutAs(h, "paid")
  /\ Goto(h, "standing")
  /\ UNCHANGED <<session, standing, debit, wallet, moved, balance, my, others>>

SaveWinner(h) ==
  /\ pc[h] = "standing"
  /\ standing' = [standing EXCEPT ![Payee(h)] = [my[h].rows[Payee(h)] EXCEPT !.payout = Prize(h)]]
  /\ NextPlace(h)
  /\ UNCHANGED <<session, money, others>>

\* (mutant) The final save leaves the status alone.
CloseSessionUnchanged(h) ==
  /\ pc[h] = "close"
  /\ session' = my[h].sess
  /\ End(h)
  /\ UNCHANGED <<standing, money, others>>
CloseSession(h) ==
  /\ pc[h] = "close"
  /\ session' = [my[h].sess EXCEPT !.status = "CLOSED"]
  /\ End(h)
  /\ UNCHANGED <<standing, money, others>>

\* A repository call throws, or the process dies with the request.
Abort(h) ==
  /\ pc[h] # "idle"
  /\ count.aborts < scene.aborts
  /\ count' = [count EXCEPT !.aborts = @ + 1]
  /\ End(h)
  /\ UNCHANGED <<scene, session, standing, money, inflow, opening, editing, prefs>>

-----------------------------------------------------------------------------
(* Requests that touch the same rows *)

\* openSession has no check of the status it leaves.
OpenRead ==
  /\ count.opens < scene.opens
  /\ count' = [count EXCEPT !.opens = @ + 1]
  /\ opening' = opening \cup {session}
  /\ UNCHANGED <<scene, session, standing, money, pc, my, inflow, editing, prefs>>

OpenSave ==
  /\ \E r \in opening : /\ session' = [r EXCEPT !.status = "REGISTRATION"]
                        /\ opening' = opening \ {r}
  /\ UNCHANGED <<scene, standing, money, pc, my, inflow, editing, prefs, count>>

\* setStanding has no check of the session's status either.
EditRead(u) ==
  /\ count.edits < scene.edits
  /\ count' = [count EXCEPT !.edits = @ + 1]
  /\ editing' = editing \cup {<<u, standing[u]>>}
  /\ UNCHANGED <<scene, session, standing, money, pc, my, inflow, opening, prefs>>

EditSave ==
  /\ \E e \in editing, place \in Places :
       /\ standing' = [standing EXCEPT ![e[1]] = [e[2] EXCEPT !.place = place]]
       /\ editing' = editing \ {e}
  /\ UNCHANGED <<scene, session, money, pc, my, inflow, opening, prefs, count>>

\* A webhook confirms a pay-in of the session (RocPayin).
LatePayin ==
  /\ count.late < scene.late
  /\ count' = [count EXCEPT !.late = @ + 1]
  /\ inflow' = inflow + scene.lateFee
  /\ UNCHANGED <<scene, session, standing, money, pc, my, opening, editing, prefs>>

PrefsRead(u) ==
  /\ count.prefs < scene.prefs
  /\ count' = [count EXCEPT !.prefs = @ + 1]
  /\ prefs' = prefs \cup {<<u, balance[u]>>}
  /\ UNCHANGED <<scene, session, standing, money, pc, my, inflow, opening, editing>>

PrefsSave ==
  /\ \E p \in prefs : /\ balance' = [balance EXCEPT ![p[1]] = p[2]]
                      /\ prefs' = prefs \ {p}
  /\ UNCHANGED <<scene, session, standing, debit, wallet, payout, moved, pc, my, inflow, opening,
                 editing, count>>

-----------------------------------------------------------------------------
Gate(h) ==
  \/ AuditReadSession(h)
  \/ ReadStandings(h, "auditRead", "auditSave") \/ SaveStandings(h, "auditSave", "auditVerdict")
  \/ AuditVerdict(h) \/ Reload(h) \/ Hold(h) \/ Override(h) \/ Lock(h)

PayPlaces(h) ==
  \/ ReadStandings(h, "read", "save") \/ SaveStandings(h, "save", "fund") \/ ReadFund(h)
  \/ SkipPlace(h) \/ FindPayout(h) \/ CreatePayout(h) \/ MarkTransferring(h)
  \/ Transfer(h) \/ SaveFailed(h)
  \/ FindDebit(h) \/ PostDebit(h) \/ FindWallet(h) \/ PostWallet(h) \/ Collide(h)
  \/ ReadBalance(h, "creditRead", "credit") \/ CreditAvailable(h)
  \/ ReadBalance(h, "outRead", "out") \/ RecordExternalPaidOut(h)
  \/ SavePaid(h) \/ SaveWinner(h) \/ CloseSession(h)

Step(h) == Gate(h) \/ PayPlaces(h)

Around == \/ OpenRead \/ OpenSave \/ EditSave \/ LatePayin \/ PrefsSave
          \/ \E u \in Field : EditRead(u) \/ PrefsRead(u)

Next ==
  \/ \E h \in Handlers, ack \in BOOLEAN : Close(h, ack)
  \/ \E h \in Handlers : Audit(h) \/ Step(h) \/ Abort(h)
  \/ Around

Spec == Init /\ [][Next]_vars

\* Requests that have been taken in run on; nobody has to send one.
FairSpec == Spec /\ \A h \in Handlers : WF_vars(Step(h))

-----------------------------------------------------------------------------
(* What a close promises *)

Row == [place : Nat, points : Nat, payout : Nat]
Payout == [status : {None, "finalized", "transferring", "failed", "paid"}, gross : Nat]
Balance == [available : Nat, earned : Nat, paidOut : Nat]

\* What a request may hold, and where it may be.
Work == [kind : {None, "close", "audit"}, ack : BOOLEAN,
         verdict : {None, "pass", "warnings", "blocked"}, sess : SessionRow,
         rows : [Field -> Row], order : [Field -> Nat], prizes : [Places -> Nat], k : Places,
         payout : Payout, bal : Balance]

AuditSteps == {"audit", "auditRead", "auditSave", "auditVerdict", "reload", "hold", "override", "lock",
               "read", "save", "fund"}
PlaceSteps == {"create", "mark", "transfer", "failed", "debitFind", "debitPost", "walletFind",
               "walletPost", "creditRead", "credit", "outRead", "out", "paid", "standing"}

\* Every variable keeps its shape; no prize, line or balance is ever negative.
TypeOK ==
  /\ scene \in Scenes
  /\ session \in SessionRow
  /\ standing \in [Field -> Row]
  /\ inflow \in Nat
  /\ debit \in [Key -> Nat] /\ wallet \in [Key -> Nat] /\ moved \in [Key -> Nat]
  /\ payout \in [Key -> Payout]
  /\ balance \in [Players -> Balance]
  /\ pc \in [Handlers -> AuditSteps \cup PlaceSteps \cup {"idle", "find", "close"}]
  /\ my \in [Handlers -> Work]
  /\ opening \subseteq SessionRow
  /\ editing \subseteq Field \X Row
  /\ prefs \subseteq Players \X Balance
  /\ count \in [aborts : Nat, opens : Nat, edits : Nat, audits : Nat, late : Nat, prefs : Nat]

Quiet == \A h \in Handlers : pc[h] = "idle"
TotalFor(f, u) == SumOver([k \in Places |-> f[<<k, u>>]], Places)

\* So far every request ran to its end, no preferences were saved over a balance,
\* and no answer of Stripe can be lost; of requests that run at the same time
\* nothing is said.
Calm == scene.atOnce = 1 /\ count.aborts = 0 /\ count.prefs = 0 /\ "lost" \notin scene.outcomes

\* Whom a place goes to cannot change: no ties, and nobody edits a standing.
Frozen == scene.edits = 0 /\ \A u, v \in Field : scene.points[u] = scene.points[v] => u = v

\* One request at a time never pays out more than came into the session's Players
\* Fund, however often it is opened, edited and closed again ("Players Fund never
\* negative", system design 2.5 and 11.4).  Closes that overlap may cut funds of
\* different size; where nobody can take a place from its holder that costs no more
\* than one cent, the dust the third place gets from the smaller fund.
FundNeverOverdrawn ==
  /\ scene.atOnce = 1 => TotalOf(debit) <= inflow
  /\ Frozen => TotalOf(debit) <= inflow + 1
FundNeverOverdrawnAtOnce == TotalOf(debit) <= inflow
FundExactWhenFrozen == Frozen => TotalOf(debit) <= inflow

\* However often a session is closed again after lost answers, Stripe pays each
\* payout once (Idempotency-Key of createTransfer).
TransferOnce == [][\A key \in Key : moved[key] # 0 => moved'[key] = moved[key]]_vars

\* When nothing is running, what players have earned is what the ledger credited
\* them ("balances are derived, not invented", system design 0.2).
EarnedMatchesLedger ==
  Quiet /\ Calm => \A u \in Players : balance[u].earned = TotalFor(wallet, u)

\* No player is recorded as paid outside RackUp more than Stripe sent.
PaidOutWasSent ==
  Calm /\ (\A u \in Players : scene.rail[u] # "usdcUnlinked") =>
    \A u \in Players : balance[u].paidOut <= TotalFor(moved, u)
PaidOutWasAlwaysSent == \A u \in Players : balance[u].paidOut <= TotalFor(moved, u)

\* When nothing is running, what Stripe sent has left the fund, as a line on the
\* books of the same amount, and the winner's wallet line stands against it
\* ("failure -> FAILED + alert (funds safe)", system design 4.3).
SentIsDebited ==
  Quiet /\ Calm =>
    \A key \in Key : /\ moved[key] # 0 => debit[key] = moved[key]
                     /\ wallet[key] = debit[key]
                     /\ (payout[key].status = "paid") <=> (debit[key] # 0)

\* The same of transfers whose answer is lost.
SentIsAlwaysDebited == Quiet => \A key \in Key : moved[key] # 0 => debit[key] = moved[key]

\* Balances, ledger, transfers and payout rows tell one story ("balances are derived,
\* not invented", system design 0.2).
BooksAgree == EarnedMatchesLedger /\ PaidOutWasSent /\ SentIsDebited

\* A session that starts paying out finishes ("automatic payout"), unless its close
\* is cut short: a later close that finds it PAYING_OUT is refused.
PayingOutEnds ==
  session.status = "PAYING_OUT" /\ scene.aborts = 0 /\ scene.atOnce = 1 ~> session.status # "PAYING_OUT"
PayingOutAlwaysEnds == session.status = "PAYING_OUT" ~> session.status # "PAYING_OUT"

-----------------------------------------------------------------------------
(* RocPayout implements RocPayoutPromise, in scenes where nobody can take a  *)
(* place from its holder: each place is awarded at most once, to one player, *)
(* out of the fund, by closes that overlap and are cut short as well.        *)
Awarded == [k \in Places |-> [u \in Players |-> IF Frozen THEN debit[<<k, u>>] ELSE 0]]
Promise == INSTANCE RocPayoutPromise WITH awarded <- Awarded

\* What a close promises its players is kept.
KeepsPromise == Promise!Spec
=============================================================================
