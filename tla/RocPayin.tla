------------------------------ MODULE RocPayin ------------------------------
(***************************************************************************)
(* Pay-ins of the ROC money core: a player starts a checkout for an entry  *)
(* (startCheckout), Stripe charges the card and sends webhooks at least    *)
(* once, and the webhook controller credits the ledger and then the entry  *)
(* (confirmFromWebhook).                                                   *)
(*                                                                         *)
(* The backend takes no lock and opens no transaction, so requests         *)
(* interleave at every await: each action below runs from one await to the *)
(* next, on the copies of the rows the request read before.  A repository  *)
(* save writes the request's copy of the whole row.                        *)
(***************************************************************************)
EXTENDS RocMoney

CONSTANTS
  Payments,      \* ids of payment rows; one per call of startCheckout
  Entries,       \* entries with a fee
  EntryOf,       \* the entry each checkout is started for
  Fee,           \* amount_due_cents of an entry (the session's entry fee)
  Split,         \* the split frozen in the session, or the league default
  Handlers,      \* confirmations the server may be running at one time
  Live,          \* for which payments a Stripe key is configured (otherwise mock mode)
  Groups,        \* ids creditPaymentSplit can draw for a group
  Redelivers,    \* Stripe may send an event again before the first answer
  MaxCrashes,    \* bound on server crashes
  MaxFailures,   \* bound on database errors inside a confirmation
  Cents,         \* the amounts, splits and prize structures the arithmetic is asked about
  Splits, PercentPlaces, FixedPlaces

ASSUME PayinAssumption ==
  /\ EntryOf \in [Payments -> Entries]
  /\ Fee \in Nat
  /\ Split \in [Accounts -> Nat] /\ Split.pf + Split.op + Split.pl = Bps
  /\ Live \in [Payments -> BOOLEAN] /\ Redelivers \in BOOLEAN
  /\ Groups \subseteq Nat \ {0}
  /\ MaxCrashes \in Nat /\ MaxFailures \in Nat

\* The shares before the last place never exceed the whole; the last takes the rest.
ASSUME MoneyAssumption ==
  /\ Cents \subseteq Nat /\ Splits \subseteq [Accounts -> Nat]
  /\ \A places \in PercentPlaces \cup FixedPlaces : places \in Seq(Nat) /\ places # <<>>
  /\ \A places \in PercentPlaces : Total(places, Len(places) - 1) <= Bps

VARIABLES
  checkout,   \* per payment id: how far its startCheckout request is
  quoted,     \* the amount that request computed as due
  payment,    \* roc_payments
  entry,      \* roc_entries
  posted,     \* roc_ledger_entries: cents credited under pay:<id>:<account>
  group,      \* related_group_id of those lines
  charged,    \* what Stripe took from the player for a payment
  events,     \* webhooks Stripe has not had a 200 for
  pc,         \* where each confirmation is
  serving,    \* the event it serves
  line,       \* the ledger line it is at
  myGroup,    \* the group id it drew
  row,        \* the payment row it read
  entryRow,   \* the entry row it read
  crashes, failures

vars == <<checkout, quoted, payment, entry, posted, group, charged, events, pc,
          serving, line, myGroup, row, entryRow, crashes, failures>>
local == <<serving, line, myGroup, row, entryRow>>
faults == <<crashes, failures>>

\* Stripe refuses charges below 50 cents, so createCheckout rounds up to it.
StripeMinimum == 50
ChargeFor(amount) == IF amount < StripeMinimum THEN StripeMinimum ELSE amount

\* checkout.session.completed names the payment in client_reference_id;
\* payment_intent.succeeded carries only the intent id.
Event == [kind : {"checkout", "intent", "mock"}, pay : Payments]

NoEvent == [kind |-> "none", pay |-> "none"]
NoRow == [status |-> "absent", amount |-> 0, pi |-> FALSE, group |-> 0]
NoEntryRow == [paid |-> 0, status |-> "DUE"]
PendingRow(p, pi) == [status |-> "pending", amount |-> quoted[p], pi |-> pi, group |-> 0]

\* One ledger line of the payment a handler confirms.
Part(amount, a) == SplitAmount(amount, Split)[a]
\* (mutant) The operator line is left out of the loop.
NextLineSkipping(a) == "pl"
NextLine(a) == IF a = "pf" THEN "op" ELSE "pl"

Init ==
  /\ checkout = [p \in Payments |-> "idle"]
  /\ quoted = [p \in Payments |-> 0]
  /\ payment = [p \in Payments |-> NoRow]
  /\ entry = [e \in Entries |-> NoEntryRow]
  /\ posted = [p \in Payments |-> [a \in Accounts |-> 0]]
  /\ group = [p \in Payments |-> [a \in Accounts |-> 0]]
  /\ charged = [p \in Payments |-> 0]
  /\ events = {}
  /\ pc = [h \in Handlers |-> "idle"]
  /\ serving = [h \in Handlers |-> NoEvent]
  /\ line = [h \in Handlers |-> "pf"]
  /\ myGroup = [h \in Handlers |-> 0]
  /\ row = [h \in Handlers |-> NoRow]
  /\ entryRow = [h \in Handlers |-> NoEntryRow]
  /\ crashes = 0 /\ failures = 0

-----------------------------------------------------------------------------
(* startCheckout *)

\* The request reads the entry and computes what is due.  It does not look for
\* other pending payments of the entry.
QuoteDue(p) ==
  LET e == EntryOf[p]
  IN  /\ checkout[p] = "idle"
      /\ entry[e].status # "PAID"
      /\ Fee - entry[e].paid > 0
      /\ quoted' = [quoted EXCEPT ![p] = Fee - entry[e].paid]
      /\ checkout' = [checkout EXCEPT ![p] = "quoted"]
      /\ UNCHANGED <<payment, entry, posted, group, charged, events, pc, local, faults>>

SavePending(p) ==
  /\ checkout[p] = "quoted"
  /\ payment' = [payment EXCEPT ![p] = PendingRow(p, FALSE)]
  /\ checkout' = [checkout EXCEPT ![p] = "pending"]
  /\ UNCHANGED <<quoted, entry, posted, group, charged, events, pc, local, faults>>

\* Stripe answers createCheckout; the request saves its copy of the row again,
\* with the checkout references, and returns the url to the player.  Stripe may
\* leave the payment intent out of the answer.
ReturnCheckout(p) ==
  /\ checkout[p] = "pending"
  /\ \E pi \in BOOLEAN :
       /\ ~Live[p] => pi
       /\ payment' = [payment EXCEPT ![p] = PendingRow(p, pi)]
  /\ checkout' = [checkout EXCEPT ![p] = "returned"]
  /\ UNCHANGED <<quoted, entry, posted, group, charged, events, pc, local, faults>>

\* createCheckout throws: the pending row stays, the player gets no url.
RefuseCheckout(p) ==
  /\ Live[p]
  /\ checkout[p] = "pending"
  /\ checkout' = [checkout EXCEPT ![p] = "failed"]
  /\ UNCHANGED <<quoted, payment, entry, posted, group, charged, events, pc, local, faults>>

\* (mutant) The url reaches the player before the references are saved.
HasUrlEarly(p) == checkout[p] \in {"pending", "returned"}
HasUrl(p) == checkout[p] = "returned"

\* The player pays on the page Stripe shows at the url; Stripe reports the one
\* charge with two webhooks.
Pay(p) ==
  /\ Live[p]
  /\ HasUrl(p)
  /\ charged[p] = 0
  /\ charged' = [charged EXCEPT ![p] = ChargeFor(quoted[p])]
  /\ events' = events \cup [kind : {"checkout", "intent"}, pay : {p}]
  /\ UNCHANGED <<checkout, quoted, payment, entry, posted, group, pc, local, faults>>

-----------------------------------------------------------------------------
(* confirmFromWebhook *)

AlreadyConfirmed(p) == payment[p].status = "confirmed"

Found(ev) == ev.kind # "intent" \/ payment[ev.pay].pi

\* The request has answered 200, whatever happened: the controller catches
\* every error.  A 200 is the last Stripe sends of the event.
Respond(h) ==
  /\ events' = events \ {serving[h]}
  /\ pc' = [pc EXCEPT ![h] = "idle"]
  /\ serving' = [serving EXCEPT ![h] = NoEvent]
  /\ line' = [line EXCEPT ![h] = "pf"]
  /\ myGroup' = [myGroup EXCEPT ![h] = 0]
  /\ row' = [row EXCEPT ![h] = NoRow]
  /\ entryRow' = [entryRow EXCEPT ![h] = NoEntryRow]

\* The payment is unknown or already confirmed.
Dismiss(ev) ==
  /\ ev \in events
  /\ ~Found(ev) \/ AlreadyConfirmed(ev.pay)
  /\ events' = events \ {ev}
  /\ UNCHANGED <<checkout, quoted, payment, entry, posted, group, charged, pc, local, faults>>

\* A random uuid is an id nothing refers to.
FreshGroups ==
  {g \in Groups : /\ \A p \in Payments : payment[p].group # g /\ \A a \in Accounts : group[p][a] # g
                  /\ \A h \in Handlers : myGroup[h] # g}

\* The request has read a payment that is not confirmed.
Begin(h, ev) ==
  /\ pc[h] = "idle"
  /\ payment[ev.pay].status # "absent"
  /\ Found(ev) /\ ~AlreadyConfirmed(ev.pay)
  /\ pc' = [pc EXCEPT ![h] = "check"]
  /\ serving' = [serving EXCEPT ![h] = ev]
  /\ row' = [row EXCEPT ![h] = [payment[ev.pay] EXCEPT !.pi = @ \/ ev.kind # "mock"]]
  /\ FreshGroups # {}
  /\ myGroup' = [myGroup EXCEPT ![h] = CHOOSE g \in FreshGroups : TRUE]
  /\ UNCHANGED <<checkout, quoted, payment, entry, posted, group, charged, line, entryRow, faults>>

\* (mutant) The controller answers 200 before it confirms.
ReceiveAnsweringFirst(h, ev) ==
  /\ ev \in events
  /\ Begin(h, ev)
  /\ events' = events \ {ev}
Receive(h, ev) ==
  /\ ev \in events
  /\ Redelivers \/ \A g \in Handlers : serving[g] # ev
  /\ Begin(h, ev)
  /\ UNCHANGED events

\* In mock mode the player confirms the payment without a charge.
MockConfirm(h, p) == ~Live[p] /\ Begin(h, [kind |-> "mock", pay |-> p]) /\ UNCHANGED events

\* The rest is the loop of creditPaymentSplit over the three lines.
Amount(h) == Part(row[h].amount, line[h])
\* (mutant) No lookup and no unique index on the idempotency key.
NoKeyCheck(h) == posted[serving[h].pay][line[h]] < 0
KeyExists(h) == posted[serving[h].pay][line[h]] # 0

\* (mutant) The payment row is not saved once the lines are posted.
AfterLinesEntry == "readEntry"
AfterLines == "save"
Advance(h) ==
  /\ pc' = [pc EXCEPT ![h] = IF line[h] = "pl" THEN AfterLines ELSE "check"]
  /\ line' = [line EXCEPT ![h] = NextLine(@)]

\* An empty line is left out, a line that is found under its key is not posted.
SkipLine(h) ==
  /\ pc[h] = "check"
  /\ Amount(h) <= 0 \/ KeyExists(h)
  /\ Advance(h)
  /\ UNCHANGED <<checkout, quoted, payment, entry, posted, group, charged, events, serving,
                 myGroup, row, entryRow, faults>>

MissLine(h) ==
  /\ pc[h] = "check"
  /\ Amount(h) > 0 /\ ~KeyExists(h)
  /\ pc' = [pc EXCEPT ![h] = "insert"]
  /\ UNCHANGED <<checkout, quoted, payment, entry, posted, group, charged, events, local, faults>>

InsertLine(h) ==
  LET p == serving[h].pay
  IN  /\ pc[h] = "insert"
      /\ ~KeyExists(h)
      /\ posted' = [posted EXCEPT ![p][line[h]] = @ + Amount(h)]
      /\ group' = [group EXCEPT ![p][line[h]] = myGroup[h]]
      /\ Advance(h)
      /\ UNCHANGED <<checkout, quoted, payment, entry, charged, events, serving, myGroup, row,
                     entryRow, faults>>

\* The unique index on the key refuses the second of two racing inserts: the
\* confirmation throws and the webhook is answered all the same.
DuplicateKey(h) ==
  /\ pc[h] = "insert"
  /\ KeyExists(h)
  /\ Respond(h)
  /\ UNCHANGED <<checkout, quoted, payment, entry, posted, group, charged, faults>>

SavePayment(h) ==
  /\ pc[h] = "save"
  /\ payment' = [payment EXCEPT ![serving[h].pay] =
                   [row[h] EXCEPT !.status = "confirmed", !.group = myGroup[h]]]
  /\ pc' = [pc EXCEPT ![h] = "readEntry"]
  /\ UNCHANGED <<checkout, quoted, entry, posted, group, charged, events, local, faults>>

ReadPaidEntry(h) ==
  /\ pc[h] = "readEntry"
  /\ entryRow' = [entryRow EXCEPT ![h] = entry[EntryOf[serving[h].pay]]]
  /\ pc' = [pc EXCEPT ![h] = "saveEntry"]
  /\ UNCHANGED <<checkout, quoted, payment, entry, posted, group, charged, events, serving, line,
                 myGroup, row, faults>>

SaveEntry(h) ==
  LET paid == entryRow[h].paid + row[h].amount
  IN  /\ pc[h] = "saveEntry"
      /\ entry' = [entry EXCEPT ![EntryOf[serving[h].pay]] =
                    [paid |-> paid, status |-> IF paid >= Fee THEN "PAID" ELSE "PARTIAL"]]
      /\ Respond(h)
      /\ UNCHANGED <<checkout, quoted, payment, posted, group, charged, faults>>

\* A repository call of a confirmation throws (database error, timeout).
Fail(h) ==
  /\ failures < MaxFailures
  /\ pc[h] # "idle"
  /\ Respond(h)
  /\ failures' = failures + 1
  /\ UNCHANGED <<checkout, quoted, payment, entry, posted, group, charged, crashes>>

\* The process dies with everything it was serving; Stripe had no 200 for the
\* events and sends them again.
Crash ==
  /\ crashes < MaxCrashes
  /\ crashes' = crashes + 1
  /\ checkout' = [p \in Payments |->
                    IF checkout[p] \in {"quoted", "pending"} THEN "failed" ELSE checkout[p]]
  /\ pc' = [h \in Handlers |-> "idle"]
  /\ serving' = [h \in Handlers |-> NoEvent]
  /\ line' = [h \in Handlers |-> "pf"]
  /\ myGroup' = [h \in Handlers |-> 0]
  /\ row' = [h \in Handlers |-> NoRow]
  /\ entryRow' = [h \in Handlers |-> NoEntryRow]
  /\ UNCHANGED <<quoted, payment, entry, posted, group, charged, events, failures>>

-----------------------------------------------------------------------------
Checkout(p) == QuoteDue(p) \/ SavePending(p) \/ ReturnCheckout(p) \/ RefuseCheckout(p) \/ Pay(p)

Step(h) == \/ SkipLine(h) \/ MissLine(h) \/ InsertLine(h) \/ DuplicateKey(h)
           \/ SavePayment(h) \/ ReadPaidEntry(h) \/ SaveEntry(h)

Deliver(ev) == Dismiss(ev) \/ \E h \in Handlers : Receive(h, ev)

Next ==
  \/ \E p \in Payments : Checkout(p)
  \/ \E ev \in Event : Deliver(ev)
  \/ \E h \in Handlers, p \in Payments : MockConfirm(h, p)
  \/ \E h \in Handlers : Step(h) \/ Fail(h)
  \/ Crash

Spec == Init /\ [][Next]_vars

\* The event loop resumes every pending await, and Stripe keeps sending an
\* event until it is answered.  Nobody has to start a checkout or to pay.
FairSpec == /\ Spec
            /\ \A h \in Handlers : WF_vars(Step(h))
            /\ \A ev \in Event : WF_vars(Deliver(ev))

-----------------------------------------------------------------------------
PaymentRow == [status : {"absent", "pending", "confirmed"}, amount : Nat, pi : BOOLEAN,
               group : Groups \cup {0}]
EntryRow == [paid : Nat, status : {"DUE", "PARTIAL", "PAID"}]

\* Every variable keeps its shape: no request leaves a malformed row behind.
TypeOK ==
  /\ checkout \in [Payments -> {"idle", "quoted", "pending", "returned", "failed"}]
  /\ quoted \in [Payments -> Nat]
  /\ payment \in [Payments -> PaymentRow]
  /\ entry \in [Entries -> EntryRow]
  /\ posted \in [Payments -> [Accounts -> Nat]]
  /\ group \in [Payments -> [Accounts -> Groups \cup {0}]]
  /\ charged \in [Payments -> Nat]
  /\ events \subseteq Event
  /\ pc \in [Handlers -> {"idle", "check", "insert", "save", "readEntry", "saveEntry"}]
  /\ serving \in [Handlers -> Event \cup {NoEvent}]
  /\ line \in [Handlers -> Accounts]
  /\ myGroup \in [Handlers -> Groups \cup {0}]
  /\ row \in [Handlers -> PaymentRow]
  /\ entryRow \in [Handlers -> EntryRow]
  /\ crashes \in 0 .. MaxCrashes /\ failures \in 0 .. MaxFailures

-----------------------------------------------------------------------------
(* What the money core promises about pay-ins *)

Confirmed(p) == payment[p].status = "confirmed"
PostedTotal(p) == posted[p].pf + posted[p].op + posted[p].pl
Served(p) == \E h \in Handlers : serving[h].pay = p
Outstanding(p) == Served(p) \/ \E ev \in events : ev.pay = p
ConfirmedFor(e) == {p \in Payments : EntryOf[p] = e /\ Confirmed(p)}

\* The ledger lines of a confirmed payment add up to its amount, however its
\* webhooks raced and wherever the server crashed (creditPaymentSplit; system
\* design 11.1).
CreditsSumToPayment ==
  \A p \in Payments : Confirmed(p) => PostedTotal(p) = payment[p].amount

\* The ledger never holds more for a payment than Stripe took for it
\* ("ONLY path that credits the ROC USD ledger for pay-ins").
CreditBackedByCharge ==
  \A p \in Payments : Live[p] => PostedTotal(p) <= charged[p]

\* A ledger line, once posted, keeps its amount and its group for ever
\* ("Immutable append-only ledger", RocLedgerEntry).
LedgerAppendOnly ==
  [][\A p \in Payments, a \in Accounts :
       posted[p][a] # 0 => posted'[p][a] = posted[p][a] /\ group'[p][a] = group[p][a]]_vars

\* No save of a copy read earlier takes a payment Stripe confirmed back to
\* pending: startCheckout saves its row twice, confirmFromWebhook once per
\* webhook.  (In mock mode the id of a pending payment is in profileMoney, and
\* nothing keeps mockConfirm from overtaking startCheckout.)
ConfirmedForGood ==
  [][\A p \in Payments : Live[p] /\ Confirmed(p) => Confirmed(p)']_vars

\* An entry counts as paid only on the strength of a payment for the whole fee
\* whose lines are all on the ledger.
PaidEntryIsFunded ==
  \A e \in Entries : entry[e].status = "PAID" =>
    \E p \in Payments : EntryOf[p] = e /\ PostedTotal(p) >= Fee

\* Once Stripe has nothing left to send about a charge, the whole payment is on
\* the ledger ("Every dollar is a ledger line", system design 0.2), and what is on
\* the ledger is what was taken ("amountUsdCents is the sole charge amount",
\* createCheckout).
NoDollarOffLedger ==
  \A p \in Payments : charged[p] > 0 /\ ~Outstanding(p) =>
    Confirmed(p) /\ PostedTotal(p) = payment[p].amount /\ PostedTotal(p) = charged[p]

\* Between confirmations, an entry's paid amount is what its confirmed payments
\* add up to ("balances are derived, not invented", system design 0.2).
EntryMatchesPayments ==
  \A e \in Entries :
    (\A p \in Payments : EntryOf[p] = e => ~Served(p)) =>
      entry[e].paid = MapThenSumSet(LAMBDA p : payment[p].amount, ConfirmedFor(e))

-----------------------------------------------------------------------------
(* The arithmetic *)

\* The three lines of a pay-in add up to the pay-in, none is negative, and
\* operator and platform never get more than their share ("player-friendly dust
\* policy").
SplitIsExact ==
  \A amount \in Cents, split \in Splits :
    LET parts == SplitAmount(amount, split)
        share == NormalizeSplit(split)
    IN  /\ parts.pf + parts.op + parts.pl = amount
        /\ \A a \in Accounts : parts[a] >= 0
        /\ Bps * parts.op <= amount * share.op
        /\ Bps * parts.pl <= amount * share.pl
        /\ Bps * parts.pf >= amount * share.pf

\* Prizes by percentage pay out the fund to the last cent, whatever the shares
\* announced sum to (MoneyAssumption), and the three places a session writes out
\* agree with the general computation.  Fixed prizes never exceed
\* the fund: a shortfall under HOLD pays nobody, and under SCALE loses less than one
\* cent per place to rounding.
PrizesExhaustFund ==
  \A fund \in Cents :
    /\ \A places \in PercentPlaces :
         LET prizes == PercentOfFund(fund, places)
         IN  /\ Total(prizes, Len(prizes)) = fund
             /\ \A i \in DOMAIN prizes : prizes[i] >= 0
    /\ SessionPrizes(fund) = PercentOfFund(fund, DefaultPlaces)
    /\ \A places \in FixedPlaces, policy \in {"SCALE", "HOLD"} :
         LET prizes == FixedCents(fund, places, policy)
             paid == Total(prizes, Len(prizes))
             asked == Total(places, Len(places))
         IN  /\ paid <= fund
             /\ asked > fund /\ policy = "HOLD" => paid = 0
             /\ asked > fund /\ policy = "SCALE" => fund - paid < Len(places)

\* No cent is made or lost on its way from a pay-in to the prizes, however the
\* shares round (splitAmountUsd, computePlaceAmounts).  It does not depend on the
\* state, and is evaluated where no payment was charged yet.
CentsAreKept ==
  (\A p \in Payments : charged[p] = 0) => SplitIsExact /\ PrizesExhaustFund

-----------------------------------------------------------------------------
(* What all of it amounts to: RocPayin implements RocPayinPromise *)

\* A payment counts as credited when its row says confirmed; until then the
\* lines already posted are not shown.
Credited == [p \in Payments |-> IF Confirmed(p) THEN PostedTotal(p) ELSE 0]

Promise == INSTANCE RocPayinPromise WITH taken <- charged, credited <- Credited

\* Whatever crashes and races, a charge is credited whole, once and eventually.
KeepsPromise == Promise!Spec
=============================================================================
