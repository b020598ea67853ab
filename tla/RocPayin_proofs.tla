--------------------------- MODULE RocPayin_proofs ---------------------------
(***************************************************************************)
(* RocPayin for any number of payments, entries and concurrent             *)
(* confirmations, any fee and any number of crashes and failures: its      *)
(* types, and that a confirmed payment is on the ledger to the cent.       *)
(***************************************************************************)
EXTENDS RocPayin, RocMoney_proofs

LEMMA PartsOfPayment ==
  ASSUME NEW A \in Nat
  PROVE  /\ \A a \in Accounts : Part(A, a) \in Nat
         /\ Part(A, "pf") + Part(A, "op") + Part(A, "pl") = A
BY PayinAssumption, SplitIsWhole DEF Part

-----------------------------------------------------------------------------
(* Type correctness *)

\* A request at work serves an event.
Busy == \A h \in Handlers : pc[h] # "idle" => serving[h] \in Event

TypeInv == TypeOK /\ Busy

LEMMA TypeInit == Init => TypeInv
BY PayinAssumption DEF Init, TypeInv, TypeOK, Busy, PaymentRow, EntryRow, NoRow, NoEntryRow, NoEvent, Accounts

\* A request reads a payment row with its intent filled in, and saves it with
\* its status and group changed: both are payment rows.
LEMMA RowUpdates ==
  ASSUME NEW r \in PaymentRow, NEW b \in BOOLEAN, NEW g \in Groups \cup {0}
  PROVE  /\ [r EXCEPT !.pi = @ \/ b] \in PaymentRow
         /\ [r EXCEPT !.status = "confirmed", !.group = g] \in PaymentRow
<1>1. ASSUME NEW c \in BOOLEAN PROVE [r EXCEPT !.pi = c] \in PaymentRow
  BY DEF PaymentRow
<1>2. r.pi \in BOOLEAN
  BY DEF PaymentRow
<1>3. (r.pi \/ b) \in BOOLEAN
  BY <1>2
<1>4. [r EXCEPT !.pi = @ \/ b] \in PaymentRow
  BY <1>1, <1>3
<1>5. [r EXCEPT !.status = "confirmed"] \in PaymentRow
  BY DEF PaymentRow
<1>6. ASSUME NEW s \in PaymentRow PROVE [s EXCEPT !.group = g] \in PaymentRow
  BY DEF PaymentRow
<1> QED  BY <1>4, <1>5, <1>6

\* Answering a webhook keeps the types of everything it touches.
LEMMA RespondType ==
  ASSUME TypeInv, NEW h \in Handlers, Respond(h)
  PROVE  /\ events' \subseteq Event
         /\ pc' \in [Handlers -> {"idle", "check", "insert", "save", "readEntry", "saveEntry"}]
         /\ serving' \in [Handlers -> Event \cup {NoEvent}]
         /\ line' \in [Handlers -> Accounts]
         /\ myGroup' \in [Handlers -> Groups \cup {0}]
         /\ row' \in [Handlers -> PaymentRow]
         /\ entryRow' \in [Handlers -> EntryRow]
         /\ Busy'
BY DEF TypeInv, TypeOK, Busy, Respond, PaymentRow, EntryRow, NoRow, NoEntryRow, NoEvent, Accounts

\* Moving on to the next line keeps the types of the program counter.
LEMMA AdvanceType ==
  ASSUME TypeInv, NEW h \in Handlers, Advance(h)
  PROVE  /\ pc' \in [Handlers -> {"idle", "check", "insert", "save", "readEntry", "saveEntry"}]
         /\ line' \in [Handlers -> Accounts]
         /\ \A g \in Handlers : g # h => pc'[g] = pc[g] /\ line'[g] = line[g]
         /\ pc'[h] # "idle"
BY DEF TypeInv, TypeOK, Advance, AfterLines, NextLine, Accounts

LEMMA CheckoutType ==
  ASSUME TypeInv, NEW p \in Payments, Checkout(p)
  PROVE  TypeInv'
<1> USE DEF TypeInv, TypeOK, Busy, local, faults
<1>1. CASE QuoteDue(p)
  <2>1. EntryOf[p] \in Entries
    BY PayinAssumption
  <2>2. Fee - entry[EntryOf[p]].paid \in Nat
    BY <1>1, <2>1, PayinAssumption DEF QuoteDue, EntryRow
  <2> QED  BY <1>1, <2>2 DEF QuoteDue
<1>2. CASE SavePending(p)
  BY <1>2 DEF SavePending, PendingRow, PaymentRow
<1>3. CASE ReturnCheckout(p)
  BY <1>3 DEF ReturnCheckout, PendingRow, PaymentRow
<1>4. CASE RefuseCheckout(p)
  BY <1>4 DEF RefuseCheckout
<1>5. CASE Pay(p)
  <2>1. ChargeFor(quoted[p]) \in Nat
    BY DEF ChargeFor, StripeMinimum
  <2>2. [kind : {"checkout", "intent"}, pay : {p}] \subseteq Event
    BY DEF Event
  <2> QED  BY <1>5, <2>1, <2>2 DEF Pay
<1> QED  BY <1>1, <1>2, <1>3, <1>4, <1>5 DEF Checkout

LEMMA BeginType ==
  ASSUME TypeInv, NEW h \in Handlers, NEW ev \in Event, Begin(h, ev), UNCHANGED events
  PROVE  TypeInv'
<1>1. (CHOOSE g \in FreshGroups : TRUE) \in Groups
  BY DEF Begin, FreshGroups
<1>2. [payment[ev.pay] EXCEPT !.pi = @ \/ ev.kind # "mock"] \in PaymentRow
  BY RowUpdates DEF TypeInv, TypeOK, Event
<1> QED  BY <1>1, <1>2 DEF Begin, TypeInv, TypeOK, Busy, faults

LEMMA StepType ==
  ASSUME TypeInv, NEW h \in Handlers, Step(h)
  PROVE  TypeInv'
<1>1. CASE SkipLine(h)
  BY <1>1, AdvanceType DEF SkipLine, TypeInv, TypeOK, Busy, faults
<1>2. CASE MissLine(h)
  BY <1>2 DEF MissLine, TypeInv, TypeOK, Busy, local, faults
<1>3. CASE InsertLine(h)
  <2>1. serving[h] \in Event /\ serving[h].pay \in Payments
    BY <1>3 DEF InsertLine, TypeInv, Busy, Event
  <2>2. Amount(h) \in Nat
    BY PartsOfPayment DEF TypeInv, TypeOK, Amount, PaymentRow
  <2>3. posted' \in [Payments -> [Accounts -> Nat]]
    BY <1>3, <2>1, <2>2 DEF InsertLine, TypeInv, TypeOK
  <2>4. group' \in [Payments -> [Accounts -> Groups \cup {0}]]
    BY <1>3, <2>1 DEF InsertLine, TypeInv, TypeOK
  <2>5. Advance(h)
    BY <1>3 DEF InsertLine
  <2> QED  BY <1>3, <2>3, <2>4, <2>5, AdvanceType DEF InsertLine, TypeInv, TypeOK, Busy, faults
<1>4. CASE DuplicateKey(h)
  BY <1>4, RespondType DEF DuplicateKey, TypeInv, TypeOK, faults
<1>5. CASE SavePayment(h)
  <2>1. serving[h] \in Event /\ serving[h].pay \in Payments
    BY <1>5 DEF SavePayment, TypeInv, Busy, Event
  <2>2. [row[h] EXCEPT !.status = "confirmed", !.group = myGroup[h]] \in PaymentRow
    BY RowUpdates DEF TypeInv, TypeOK
  <2> QED  BY <1>5, <2>1, <2>2 DEF SavePayment, TypeInv, TypeOK, Busy, local, faults
<1>6. CASE ReadPaidEntry(h)
  <2>1. EntryOf[serving[h].pay] \in Entries
    BY <1>6, PayinAssumption DEF ReadPaidEntry, TypeInv, Busy, Event
  <2> QED  BY <1>6, <2>1 DEF ReadPaidEntry, TypeInv, TypeOK, Busy, faults
<1>7. CASE SaveEntry(h)
  <2>1. EntryOf[serving[h].pay] \in Entries
    BY <1>7, PayinAssumption DEF SaveEntry, TypeInv, Busy, Event
  <2>2. entryRow[h].paid + row[h].amount \in Nat
    BY DEF TypeInv, TypeOK, EntryRow, PaymentRow
  <2>3. entry' \in [Entries -> EntryRow]
    BY <1>7, <2>1, <2>2 DEF SaveEntry, TypeInv, TypeOK, EntryRow
  <2> QED  BY <1>7, <2>3, RespondType DEF SaveEntry, TypeInv, TypeOK, faults
<1> QED  BY <1>1, <1>2, <1>3, <1>4, <1>5, <1>6, <1>7 DEF Step

LEMMA TypeStep == TypeInv /\ [Next]_vars => TypeInv'
<1> SUFFICES ASSUME TypeInv, [Next]_vars PROVE TypeInv'
  OBVIOUS
<1>1. ASSUME NEW p \in Payments, Checkout(p) PROVE TypeInv'
  BY <1>1, CheckoutType
<1>2. ASSUME NEW ev \in Event, Deliver(ev) PROVE TypeInv'
  <2>1. CASE Dismiss(ev)
    BY <2>1 DEF Dismiss, TypeInv, TypeOK, Busy, local, faults
  <2>2. ASSUME NEW h \in Handlers, Receive(h, ev) PROVE TypeInv'
    BY <2>2, BeginType DEF Receive
  <2> QED  BY <1>2, <2>1, <2>2 DEF Deliver
<1>3. ASSUME NEW h \in Handlers, NEW p \in Payments, MockConfirm(h, p) PROVE TypeInv'
  BY <1>3, BeginType DEF MockConfirm, Event
<1>4. ASSUME NEW h \in Handlers, Step(h) PROVE TypeInv'
  BY <1>4, StepType
<1>5. ASSUME NEW h \in Handlers, Fail(h) PROVE TypeInv'
  BY <1>5, RespondType, PayinAssumption DEF Fail, TypeInv, TypeOK
<1>6. CASE Crash
  BY <1>6, PayinAssumption
  DEF Crash, TypeInv, TypeOK, Busy, PaymentRow, EntryRow, NoRow, NoEntryRow, NoEvent, Accounts
<1>7. CASE UNCHANGED vars
  BY <1>7 DEF vars, TypeInv, TypeOK, Busy
<1> QED  BY <1>1, <1>2, <1>3, <1>4, <1>5, <1>6, <1>7 DEF Next

\* No request, however interleaved, crashed or repeated, leaves a row, a ledger
\* line or a request's copy malformed; no amount due is ever negative.
THEOREM TypeCorrect == Spec => []TypeOK
<1>1. Init => TypeInv
  BY TypeInit
<1>2. TypeInv /\ [Next]_vars => TypeInv'
  BY TypeStep
<1>3. TypeInv => TypeOK
  BY DEF TypeInv
<1> QED  BY <1>1, <1>2, <1>3, PTL DEF Spec
-----------------------------------------------------------------------------
(* The ledger invariant.  CreditsSumToPayment and CreditBackedByCharge are   *)
(* not inductive: they say nothing of a payment half posted, of the copies   *)
(* requests hold, or of why a webhook exists.  These conjuncts do.           *)

Due(p, a) == Part(payment[p].amount, a)
Saved(p) == payment[p].status # "absent"

\* A payment row exists once startCheckout saved it, with the amount quoted.
RowsQuoted ==
  \A p \in Payments :
    /\ checkout[p] \in {"idle", "quoted"} => payment[p] = NoRow
    /\ checkout[p] \in {"pending", "returned"} => Saved(p)
    /\ Saved(p) => payment[p].amount = quoted[p]
    /\ ~Saved(p) => payment[p] = NoRow

\* A line is on the ledger whole or not at all.
LinesExact ==
  \A p \in Payments, a \in Accounts : posted[p][a] \in {0, Due(p, a)}

\* The lines of the loop that a request has behind it.
Passed(h) ==
  IF pc[h] \in {"check", "insert"}
  THEN {a \in Accounts : (line[h] = "op" /\ a = "pf") \/ (line[h] = "pl" /\ a # "pl")}
  ELSE Accounts

\* A request works on a saved row whose amount no other request changes, and
\* the lines behind it are on the ledger.
RequestsCredit ==
  \A h \in Handlers : pc[h] # "idle" =>
    LET p == serving[h].pay
    IN  /\ Saved(p)
        /\ row[h].amount = payment[p].amount
        /\ \A a \in Passed(h) : posted[p][a] = Due(p, a)

\* A request at rest would start at the first line.
Rested == \A h \in Handlers : pc[h] = "idle" => line[h] = "pf"

\* A row becomes confirmed only behind its last line.
ConfirmedPosted ==
  \A p \in Payments : Confirmed(p) => \A a \in Accounts : posted[p][a] = Due(p, a)

\* Only a charge makes Stripe send a webhook, and a charge is never less than
\* the amount quoted.
EventsCharged ==
  /\ \A p \in Payments : charged[p] # 0 => /\ charged[p] = ChargeFor(quoted[p])
                                            /\ checkout[p] = "returned"
  /\ \A ev \in events : ev.kind # "mock" /\ charged[ev.pay] # 0

\* Unless it is a mock, every request and every line goes back to a charge.
CreditsCharged ==
  /\ \A h \in Handlers : pc[h] # "idle" /\ Live[serving[h].pay] => charged[serving[h].pay] # 0
  /\ \A p \in Payments, a \in Accounts : Live[p] /\ posted[p][a] # 0 => charged[p] # 0

LedgerInv == /\ TypeInv
             /\ RowsQuoted
             /\ LinesExact
             /\ RequestsCredit
             /\ Rested
             /\ ConfirmedPosted
             /\ EventsCharged
             /\ CreditsCharged

LEMMA NothingOfNothing ==
  ASSUME NEW a \in Accounts
  PROVE  Part(0, a) = 0
<1>1. Part(0, "pf") \in Nat /\ Part(0, "op") \in Nat /\ Part(0, "pl") \in Nat
  BY PartsOfPayment DEF Accounts
<1>2. Part(0, "pf") + Part(0, "op") + Part(0, "pl") = 0
  BY PartsOfPayment
<1>3. Part(0, "pf") = 0 /\ Part(0, "op") = 0 /\ Part(0, "pl") = 0
  BY <1>1, <1>2
<1> QED  BY <1>3 DEF Accounts

LEMMA LedgerInit == Init => LedgerInv
<1> SUFFICES ASSUME Init PROVE LedgerInv
  OBVIOUS
<1>1. TypeInv
  BY TypeInit
<1>2. RowsQuoted /\ LinesExact /\ RequestsCredit /\ Rested
  BY DEF Init, RowsQuoted, LinesExact, RequestsCredit, Rested, Saved, NoRow
<1>3. ConfirmedPosted /\ EventsCharged /\ CreditsCharged
  BY DEF Init, ConfirmedPosted, EventsCharged, CreditsCharged, Confirmed, NoRow
<1> QED  BY <1>1, <1>2, <1>3 DEF LedgerInv

\* startCheckout and the player.
LEMMA CheckoutLedger ==
  ASSUME LedgerInv, NEW p \in Payments, Checkout(p), TypeInv'
  PROVE  LedgerInv'
<1> USE DEF LedgerInv
<1>t. TypeOK
  BY DEF TypeInv
<1>1. CASE QuoteDue(p)
  <2>1. ~Saved(p) /\ charged[p] = 0
    BY <1>1 DEF QuoteDue, RowsQuoted, EventsCharged, Saved, NoRow
  <2>2. RowsQuoted' /\ EventsCharged'
    BY <1>1, <1>t, <2>1 DEF QuoteDue, RowsQuoted, EventsCharged, Saved, NoRow, TypeOK
  <2> QED  BY <1>1, <2>2 DEF QuoteDue, LinesExact, RequestsCredit, Rested, ConfirmedPosted,
                            CreditsCharged, Due, Saved, Passed, Confirmed, local
<1>2. CASE SavePending(p)
  <2>1. payment[p] = NoRow /\ charged[p] = 0
    BY <1>2 DEF SavePending, RowsQuoted, EventsCharged
  <2>2. \A a \in Accounts : posted[p][a] = 0
    BY <2>1, NothingOfNothing DEF LinesExact, Due, NoRow
  <2>3. \A q \in Payments : q # p => payment'[q] = payment[q]
    BY <1>2, <1>t DEF SavePending, TypeOK
  <2>4. payment'[p] = PendingRow(p, FALSE)
    BY <1>2, <1>t DEF SavePending, TypeOK
  <2>5. RowsQuoted'
    BY <1>2, <1>t, <2>3, <2>4 DEF SavePending, RowsQuoted, Saved, PendingRow, TypeOK
  <2>6. LinesExact'
    BY <1>2, <2>2, <2>3 DEF SavePending, LinesExact, Due
  <2>7. RequestsCredit'
    <3>0. UNCHANGED <<posted, pc, serving, line, row>> /\ \A h \in Handlers : Passed(h)' = Passed(h)
      BY <1>2 DEF SavePending, Passed, local
    <3> SUFFICES ASSUME NEW h \in Handlers, pc[h] # "idle"
                 PROVE  /\ payment'[serving[h].pay].status # "absent"
                        /\ row[h].amount = payment'[serving[h].pay].amount
                        /\ \A a \in Passed(h) :
                             posted[serving[h].pay][a] = Part(payment'[serving[h].pay].amount, a)
      BY <3>0 DEF RequestsCredit, Saved, Due
    <3>1. serving[h].pay \in Payments /\ Saved(serving[h].pay)
      BY DEF TypeInv, Busy, Event, RequestsCredit
    <3>2. serving[h].pay # p
      BY <2>1, <3>1 DEF Saved, NoRow
    <3> QED  BY <2>3, <3>1, <3>2 DEF RequestsCredit, Saved, Due
  <2>8. ConfirmedPosted'
    BY <1>2, <2>3, <2>4 DEF SavePending, ConfirmedPosted, Confirmed, Due, PendingRow
  <2>9. EventsCharged' /\ CreditsCharged' /\ Rested'
    BY <1>2, <1>t, <2>1 DEF SavePending, EventsCharged, CreditsCharged, Rested, local, TypeOK
  <2> QED  BY <2>5, <2>6, <2>7, <2>8, <2>9
<1>3. CASE ReturnCheckout(p)
  <2>1. Saved(p) /\ payment[p].amount = quoted[p]
    BY <1>3 DEF ReturnCheckout, RowsQuoted
  <2>2. \A q \in Payments : q # p => payment'[q] = payment[q]
    BY <1>3, <1>t DEF ReturnCheckout, TypeOK
  <2>3. payment'[p].status = "pending" /\ payment'[p].amount = payment[p].amount
    BY <1>3, <1>t, <2>1 DEF ReturnCheckout, PendingRow, TypeOK
  <2>4. \A q \in Payments : payment'[q].amount = payment[q].amount /\ (Saved(q)' <=> Saved(q))
    BY <2>1, <2>2, <2>3 DEF Saved
  <2>5. RowsQuoted'
    BY <1>3, <1>t, <2>2, <2>4 DEF ReturnCheckout, RowsQuoted, Saved, TypeOK
  <2>6. LinesExact'
    BY <1>3, <2>4 DEF ReturnCheckout, LinesExact, Due
  <2>7. RequestsCredit'
    BY <1>3, <2>4 DEF ReturnCheckout, RequestsCredit, Passed, Due, local, TypeInv, Busy, Event
  <2>8. ConfirmedPosted'
    BY <1>3, <2>2, <2>3 DEF ReturnCheckout, ConfirmedPosted, Confirmed, Due
  <2>9. EventsCharged' /\ CreditsCharged' /\ Rested'
    BY <1>3, <1>t DEF ReturnCheckout, EventsCharged, CreditsCharged, Rested, local, TypeOK
  <2> QED  BY <2>5, <2>6, <2>7, <2>8, <2>9
<1>4. CASE RefuseCheckout(p)
  <2>1. RowsQuoted' /\ EventsCharged'
    BY <1>4, <1>t DEF RefuseCheckout, RowsQuoted, EventsCharged, Saved, TypeOK
  <2> QED  BY <1>4, <2>1 DEF RefuseCheckout, LinesExact, RequestsCredit, Rested, ConfirmedPosted,
                            CreditsCharged, Due, Saved, Passed, Confirmed, local
<1>5. CASE Pay(p)
  <2>1. ChargeFor(quoted[p]) # 0
    BY <1>t DEF ChargeFor, StripeMinimum, TypeOK
  <2>2. EventsCharged'
    BY <1>5, <1>t, <2>1 DEF Pay, HasUrl, EventsCharged, TypeOK, Event
  <2>3. CreditsCharged'
    BY <1>5, <1>t, <2>1 DEF Pay, CreditsCharged, local, TypeOK
  <2> QED  BY <1>5, <2>2, <2>3 DEF Pay, RowsQuoted, LinesExact, RequestsCredit, Rested, ConfirmedPosted,
                            Due, Saved, Passed, Confirmed, local
<1> QED  BY <1>1, <1>2, <1>3, <1>4, <1>5 DEF Checkout

\* A request that read an unconfirmed row starts before the first line.
LEMMA BeginLedger ==
  ASSUME LedgerInv, NEW h \in Handlers, NEW ev \in Event, Begin(h, ev), UNCHANGED events,
         Live[ev.pay] => charged[ev.pay] # 0, TypeInv'
  PROVE  LedgerInv'
<1> USE DEF LedgerInv
<1>t. TypeOK
  BY DEF TypeInv
<1>1. RowsQuoted' /\ LinesExact' /\ ConfirmedPosted' /\ EventsCharged'
  BY DEF Begin, RowsQuoted, LinesExact, ConfirmedPosted, EventsCharged, Due, Saved, Confirmed
<1>2. RequestsCredit'
  <2> SUFFICES ASSUME NEW g \in Handlers, pc'[g] # "idle"
               PROVE  /\ Saved(serving'[g].pay)
                      /\ row'[g].amount = payment[serving'[g].pay].amount
                      /\ \A a \in Passed(g)' : posted[serving'[g].pay][a] = Due(serving'[g].pay, a)
    BY DEF Begin, RequestsCredit, Saved, Due
  <2>1. CASE g = h
    <3>1. serving'[h] = ev /\ row'[h].amount = payment[ev.pay].amount
      BY <1>t DEF Begin, TypeOK, PaymentRow, Event
    <3>2. Passed(h)' = {}
      BY <1>t DEF Begin, Passed, Rested, TypeOK
    <3> QED  BY <2>1, <3>1, <3>2 DEF Begin, Saved
  <2>2. CASE g # h
    BY <1>t, <2>2 DEF Begin, RequestsCredit, Passed, TypeOK
  <2> QED  BY <2>1, <2>2
<1>3. CreditsCharged' /\ Rested'
  BY <1>t DEF Begin, CreditsCharged, Rested, TypeOK
<1> QED  BY <1>1, <1>2, <1>3

\* A request that stops, answered or not, leaves rows and ledger as they are.
LEMMA StopLedger ==
  ASSUME LedgerInv, TypeInv',
         UNCHANGED <<quoted, payment, posted, charged>>,
         events' \subseteq events,
         \A p \in Payments : /\ checkout[p] \in {"idle", "returned"} => checkout'[p] = checkout[p]
                             /\ checkout'[p] # checkout[p] => checkout'[p] = "failed",
         \A h \in Handlers :
           \/ pc'[h] = "idle" /\ line'[h] = "pf"
           \/ pc'[h] = pc[h] /\ serving'[h] = serving[h] /\ line'[h] = line[h] /\ row'[h] = row[h]
  PROVE  LedgerInv'
<1> USE DEF LedgerInv
<1>1. RowsQuoted' /\ LinesExact' /\ ConfirmedPosted' /\ EventsCharged'
  BY DEF RowsQuoted, LinesExact, ConfirmedPosted, EventsCharged, Due, Saved, Confirmed
<1>2. RequestsCredit' /\ Rested' /\ CreditsCharged'
  BY DEF RequestsCredit, Rested, CreditsCharged, Passed, Due, Saved
<1> QED  BY <1>1, <1>2

\* A line behind a request stays behind it and one more joins: the one it is at.
LEMMA AdvancePassed ==
  ASSUME TypeOK, NEW h \in Handlers, Advance(h), pc[h] \in {"check", "insert"}
  PROVE  /\ Passed(h)' = Passed(h) \cup {line[h]}
         /\ \A g \in Handlers : g # h => Passed(g)' = Passed(g) /\ pc'[g] = pc[g] /\ line'[g] = line[g]
         /\ pc'[h] # "idle"
<1>1. pc' = [pc EXCEPT ![h] = IF line[h] = "pl" THEN "save" ELSE "check"]
      /\ line' = [line EXCEPT ![h] = IF @ = "pf" THEN "op" ELSE "pl"]
  BY DEF Advance, AfterLines, NextLine
<1>2. line[h] \in {"pf", "op", "pl"}
  BY DEF TypeOK, Accounts
<1>3. \A g \in Handlers : g # h => Passed(g)' = Passed(g) /\ pc'[g] = pc[g] /\ line'[g] = line[g]
  BY <1>1 DEF TypeOK, Passed
<1>4. CASE line[h] = "pf"
  <2>1. pc'[h] = "check" /\ line'[h] = "op"
    BY <1>1, <1>4 DEF TypeOK
  <2> QED  BY <1>3, <1>4, <2>1 DEF Passed, Accounts
<1>5. CASE line[h] = "op"
  <2>1. pc'[h] = "check" /\ line'[h] = "pl"
    BY <1>1, <1>5 DEF TypeOK
  <2> QED  BY <1>3, <1>5, <2>1 DEF Passed, Accounts
<1>6. CASE line[h] = "pl"
  <2>1. pc'[h] = "save" /\ line'[h] = "pl"
    BY <1>1, <1>6 DEF TypeOK
  <2> QED  BY <1>3, <1>6, <2>1 DEF Passed, Accounts
<1> QED  BY <1>2, <1>4, <1>5, <1>6

\* The loop of creditPaymentSplit and the two saves behind it.
LEMMA StepLedger ==
  ASSUME LedgerInv, NEW h \in Handlers, Step(h), TypeInv'
  PROVE  LedgerInv'
<1> USE DEF LedgerInv
<1>t. TypeOK
  BY DEF TypeInv
<1>b. pc[h] # "idle" => serving[h].pay \in Payments
  BY DEF TypeInv, Busy, Event
<1> DEFINE p == serving[h].pay
<1>1. CASE SkipLine(h)
  <2>1. p \in Payments /\ Saved(p) /\ row[h].amount = payment[p].amount
    BY <1>1, <1>b DEF SkipLine, RequestsCredit
  <2>2. posted[p][line[h]] = Due(p, line[h])
    <3>1. line[h] \in Accounts /\ Due(p, line[h]) \in Nat
      BY <1>t, <2>1, PartsOfPayment DEF TypeOK, PaymentRow, Due
    <3>2. posted[p][line[h]] \in {0, Due(p, line[h])}
      BY <2>1, <3>1 DEF LinesExact
    <3> QED  BY <1>1, <2>1, <3>1, <3>2 DEF SkipLine, Amount, KeyExists, Due
  <2>3. RequestsCredit'
    BY <1>1, <1>t, <2>1, <2>2, AdvancePassed DEF SkipLine, RequestsCredit, Saved, Due
  <2>4. Rested' /\ CreditsCharged'
    BY <1>1, <1>t, AdvancePassed DEF SkipLine, Rested, CreditsCharged
  <2> QED  BY <1>1, <2>3, <2>4 DEF SkipLine, RowsQuoted, LinesExact, ConfirmedPosted, EventsCharged,
                                  Due, Saved, Confirmed, faults
<1>2. CASE MissLine(h)
  <2>1. \A g \in Handlers : Passed(g)' = Passed(g) /\ (pc'[g] = "idle" <=> pc[g] = "idle")
    BY <1>2, <1>t DEF MissLine, Passed, local, TypeOK
  <2> QED  BY <1>2, <2>1 DEF MissLine, RowsQuoted, LinesExact, RequestsCredit, Rested, ConfirmedPosted,
                            EventsCharged, CreditsCharged, Due, Saved, Confirmed, local
<1>3. CASE InsertLine(h)
  <2>1. p \in Payments /\ Saved(p) /\ row[h].amount = payment[p].amount /\ line[h] \in Accounts
    BY <1>3, <1>b, <1>t DEF InsertLine, RequestsCredit, TypeOK
  <2>2. posted[p][line[h]] = 0 /\ Due(p, line[h]) \in Nat
    BY <1>3, <1>t, <2>1, PartsOfPayment DEF InsertLine, KeyExists, TypeOK, PaymentRow, Due
  <2>3. posted' = [posted EXCEPT ![p][line[h]] = Due(p, line[h])]
    <3>1. Amount(h) = Due(p, line[h])
      BY <2>1 DEF Amount, Due
    <3>2. posted[p][line[h]] + Amount(h) = Due(p, line[h])
      BY <2>2, <3>1
    <3>3. posted' = [posted EXCEPT ![p][line[h]] = posted[p][line[h]] + Amount(h)]
      BY <1>3 DEF InsertLine
    <3> QED  BY <3>2, <3>3
  <2>4. \A q \in Payments, a \in Accounts :
          posted'[q][a] = IF q = p /\ a = line[h] THEN Due(p, line[h]) ELSE posted[q][a]
    BY <1>t, <2>1, <2>3 DEF TypeOK
  <2>5. UNCHANGED <<checkout, quoted, payment, charged, events, serving, row>> /\ Advance(h)
    BY <1>3 DEF InsertLine
  <2>6. RowsQuoted' /\ LinesExact' /\ ConfirmedPosted' /\ EventsCharged'
    BY <2>4, <2>5 DEF RowsQuoted, LinesExact, ConfirmedPosted, EventsCharged, Due, Saved, Confirmed
  <2>7. RequestsCredit'
    <3> SUFFICES ASSUME NEW g \in Handlers, pc'[g] # "idle"
                 PROVE  /\ Saved(serving[g].pay)
                        /\ row[g].amount = payment[serving[g].pay].amount
                        /\ \A a \in Passed(g)' : posted'[serving[g].pay][a] = Due(serving[g].pay, a)
      BY <2>5 DEF RequestsCredit, Saved, Due
    <3>1. CASE g = h
      <4>1. Passed(h)' = Passed(h) \cup {line[h]} /\ Passed(h) \subseteq Accounts
        BY <1>3, <1>t, <2>5, AdvancePassed DEF InsertLine, Passed
      <4> QED  BY <1>3, <2>1, <2>4, <3>1, <4>1 DEF InsertLine, RequestsCredit
    <3>2. CASE g # h
      <4>1. Passed(g)' = Passed(g) /\ pc[g] # "idle" /\ Passed(g) \subseteq Accounts
        BY <1>3, <1>t, <2>5, <3>2, AdvancePassed DEF InsertLine, Passed
      <4>2. serving[g].pay \in Payments
        BY <4>1 DEF TypeInv, Busy, Event
      <4> QED  BY <2>4, <4>1, <4>2 DEF RequestsCredit
    <3> QED  BY <3>1, <3>2
  <2>8. Rested'
    BY <1>3, <1>t, <2>5, AdvancePassed DEF InsertLine, Rested
  <2>9. CreditsCharged'
    BY <1>3, <1>t, <2>1, <2>4, <2>5, AdvancePassed DEF InsertLine, CreditsCharged
  <2> QED  BY <2>6, <2>7, <2>8, <2>9
<1>4. CASE DuplicateKey(h)
  <2>1. UNCHANGED <<checkout, quoted, payment, posted, charged>> /\ events' \subseteq events
    BY <1>4 DEF DuplicateKey, Respond
  <2>2. \A g \in Handlers :
          \/ pc'[g] = "idle" /\ line'[g] = "pf"
          \/ pc'[g] = pc[g] /\ serving'[g] = serving[g] /\ line'[g] = line[g] /\ row'[g] = row[g]
    BY <1>4, <1>t DEF DuplicateKey, Respond, TypeOK
  <2> QED  BY <2>1, <2>2, StopLedger
<1>5. CASE SavePayment(h)
  <2>1. p \in Payments /\ Saved(p) /\ row[h].amount = payment[p].amount /\ Passed(h) = Accounts
    BY <1>5, <1>b DEF SavePayment, RequestsCredit, Passed
  <2>2. \A q \in Payments : q # p => payment'[q] = payment[q]
    BY <1>5, <1>t DEF SavePayment, TypeOK
  <2>3. payment'[p].status = "confirmed" /\ payment'[p].amount = payment[p].amount
    BY <1>5, <1>t, <2>1 DEF SavePayment, TypeOK, PaymentRow
  <2>4. \A q \in Payments : payment'[q].amount = payment[q].amount /\ (Saved(q)' <=> Saved(q))
    BY <2>1, <2>2, <2>3 DEF Saved
  <2>5. UNCHANGED <<checkout, quoted, posted, charged, events, serving, line, row>>
    BY <1>5 DEF SavePayment, local
  <2>6. \A g \in Handlers : Passed(g)' = Passed(g) /\ (pc'[g] = "idle" <=> pc[g] = "idle")
    BY <1>5, <1>t DEF SavePayment, Passed, local, TypeOK
  <2>7. RowsQuoted'
    BY <2>1, <2>2, <2>4, <2>5 DEF RowsQuoted, Saved, NoRow
  <2>8. LinesExact' /\ EventsCharged' /\ CreditsCharged' /\ Rested'
    BY <2>4, <2>5, <2>6 DEF LinesExact, EventsCharged, CreditsCharged, Rested, Due
  <2>9. RequestsCredit'
    BY <2>4, <2>5, <2>6 DEF RequestsCredit, Due, TypeInv, Busy, Event
  <2>10. ConfirmedPosted'
    <3>1. \A a \in Accounts : posted[p][a] = Due(p, a)
      BY <1>5, <2>1 DEF SavePayment, RequestsCredit
    <3> QED  BY <2>1, <2>2, <2>3, <2>5, <3>1 DEF ConfirmedPosted, Confirmed, Due
  <2> QED  BY <2>7, <2>8, <2>9, <2>10
<1>6. CASE ReadPaidEntry(h)
  <2>1. \A g \in Handlers : Passed(g)' = Passed(g) /\ (pc'[g] = "idle" <=> pc[g] = "idle")
    BY <1>6, <1>t DEF ReadPaidEntry, Passed, TypeOK
  <2> QED  BY <1>6, <2>1 DEF ReadPaidEntry, RowsQuoted, LinesExact, RequestsCredit, Rested,
                            ConfirmedPosted, EventsCharged, CreditsCharged, Due, Saved, Confirmed
<1>7. CASE SaveEntry(h)
  <2>1. UNCHANGED <<checkout, quoted, payment, posted, charged>> /\ events' \subseteq events
    BY <1>7 DEF SaveEntry, Respond
  <2>2. \A g \in Handlers :
          \/ pc'[g] = "idle" /\ line'[g] = "pf"
          \/ pc'[g] = pc[g] /\ serving'[g] = serving[g] /\ line'[g] = line[g] /\ row'[g] = row[g]
    BY <1>7, <1>t DEF SaveEntry, Respond, TypeOK
  <2> QED  BY <2>1, <2>2, StopLedger
<1> QED  BY <1>1, <1>2, <1>3, <1>4, <1>5, <1>6, <1>7 DEF Step

LEMMA LedgerStep == LedgerInv /\ [Next]_vars => LedgerInv'
<1> SUFFICES ASSUME LedgerInv, [Next]_vars PROVE LedgerInv'
  OBVIOUS
<1>t. TypeInv' /\ TypeOK /\ TypeInv
  BY TypeStep DEF LedgerInv, TypeInv
<1>1. ASSUME NEW p \in Payments, Checkout(p) PROVE LedgerInv'
  BY <1>1, <1>t, CheckoutLedger
<1>2. ASSUME NEW ev \in Event, Deliver(ev) PROVE LedgerInv'
  <2>1. CASE Dismiss(ev)
    BY <1>t, <2>1, StopLedger DEF Dismiss, local, faults
  <2>2. ASSUME NEW h \in Handlers, Receive(h, ev) PROVE LedgerInv'
    <3>1. Begin(h, ev) /\ UNCHANGED events /\ charged[ev.pay] # 0
      BY <2>2 DEF Receive, LedgerInv, EventsCharged
    <3> QED  BY <1>t, <3>1, BeginLedger
  <2> QED  BY <1>2, <2>1, <2>2 DEF Deliver
<1>3. ASSUME NEW h \in Handlers, NEW p \in Payments, MockConfirm(h, p) PROVE LedgerInv'
  <2> DEFINE ev == [kind |-> "mock", pay |-> p]
  <2>1. ev \in Event /\ Begin(h, ev) /\ UNCHANGED events /\ ~Live[ev.pay]
    BY <1>3 DEF MockConfirm, Event
  <2> HIDE DEF ev
  <2> QED  BY <1>t, <2>1, BeginLedger
<1>4. ASSUME NEW h \in Handlers, Step(h) PROVE LedgerInv'
  BY <1>4, <1>t, StepLedger
<1>5. ASSUME NEW h \in Handlers, Fail(h) PROVE LedgerInv'
  <2>1. UNCHANGED <<checkout, quoted, payment, posted, charged>> /\ events' \subseteq events
    BY <1>5 DEF Fail, Respond
  <2>2. \A g \in Handlers :
          \/ pc'[g] = "idle" /\ line'[g] = "pf"
          \/ pc'[g] = pc[g] /\ serving'[g] = serving[g] /\ line'[g] = line[g] /\ row'[g] = row[g]
    BY <1>5, <1>t DEF Fail, Respond, TypeOK
  <2> QED  BY <1>t, <2>1, <2>2, StopLedger
<1>6. CASE Crash
  BY <1>6, <1>t, StopLedger DEF Crash, TypeOK
<1>7. CASE UNCHANGED vars
  BY <1>7, <1>t, StopLedger DEF vars
<1> QED  BY <1>1, <1>2, <1>3, <1>4, <1>5, <1>6, <1>7 DEF Next

LEMMA LedgerAlways == Spec => []LedgerInv
<1>1. Init => LedgerInv
  BY LedgerInit
<1>2. LedgerInv /\ [Next]_vars => LedgerInv'
  BY LedgerStep
<1> QED  BY <1>1, <1>2, PTL DEF Spec

-----------------------------------------------------------------------------
(* What follows *)

\* Exact lines of a payment add up to its amount.
LEMMA ExactTotal ==
  ASSUME TypeOK, NEW p \in Payments, \A a \in Accounts : posted[p][a] = Due(p, a)
  PROVE  PostedTotal(p) = payment[p].amount
<1>1. payment[p].amount \in Nat
  BY DEF TypeOK, PaymentRow
<1> QED  BY <1>1, PartsOfPayment DEF PostedTotal, Due, Accounts

\* However its webhooks race, repeat or fail, and wherever the server crashes,
\* the lines of a confirmed payment add up to its amount.
THEOREM CreditsAlwaysSum == Spec => []CreditsSumToPayment
<1>1. LedgerInv => CreditsSumToPayment
  BY ExactTotal DEF LedgerInv, TypeInv, ConfirmedPosted, CreditsSumToPayment
<1> QED  BY <1>1, LedgerAlways, PTL

\* The ledger never holds more for a payment than Stripe took for it.
THEOREM CreditsAreBacked == Spec => []CreditBackedByCharge
<1>1. ASSUME LedgerInv, NEW p \in Payments, Live[p]
      PROVE  PostedTotal(p) <= charged[p]
  <2>t. TypeOK /\ payment[p].amount \in Nat /\ charged[p] \in Nat /\ quoted[p] \in Nat
    BY <1>1 DEF LedgerInv, TypeInv, TypeOK, PaymentRow
  <2>1. CASE \A a \in Accounts : posted[p][a] = 0
    BY <2>1, <2>t DEF PostedTotal, Accounts
  <2>2. CASE \E a \in Accounts : posted[p][a] # 0
    <3>1. charged[p] = ChargeFor(quoted[p]) /\ checkout[p] = "returned"
      BY <1>1, <2>2 DEF LedgerInv, CreditsCharged, EventsCharged
    <3>2. payment[p].amount = quoted[p]
      BY <1>1, <3>1 DEF LedgerInv, RowsQuoted
    <3>3. payment[p].amount <= charged[p]
      BY <2>t, <3>1, <3>2 DEF ChargeFor, StripeMinimum
    <3>4. \A a \in Accounts : posted[p][a] <= Due(p, a) /\ posted[p][a] \in Nat /\ Due(p, a) \in Nat
      BY <1>1, <2>t, PartsOfPayment DEF LedgerInv, LinesExact, Due
    <3>5. PostedTotal(p) <= payment[p].amount
      BY <2>t, <3>4, PartsOfPayment DEF PostedTotal, Due, Accounts
    <3> QED  BY <2>t, <3>3, <3>4, <3>5 DEF PostedTotal, Accounts
  <2> QED  BY <2>1, <2>2
<1>2. LedgerInv => CreditBackedByCharge
  BY <1>1 DEF CreditBackedByCharge
<1> QED  BY <1>2, LedgerAlways, PTL

\* No step changes a line that is on the ledger, neither its amount nor its group.
THEOREM LedgerIsAppendOnly == Spec => LedgerAppendOnly
<1> DEFINE Kept == \A p \in Payments, a \in Accounts :
                     posted[p][a] # 0 => posted'[p][a] = posted[p][a] /\ group'[p][a] = group[p][a]
<1>1. LedgerInv /\ [Next]_vars => [Kept]_vars
  <2> SUFFICES ASSUME LedgerInv, [Next]_vars PROVE Kept
    OBVIOUS
  <2>t. TypeOK /\ TypeInv
    BY DEF LedgerInv, TypeInv
  <2>1. ASSUME NEW h \in Handlers, InsertLine(h) PROVE Kept
    <3>1. serving[h].pay \in Payments /\ line[h] \in Accounts
      BY <2>1, <2>t DEF InsertLine, TypeInv, TypeOK, Busy, Event
    <3>2. posted[serving[h].pay][line[h]] = 0
      BY <2>1 DEF InsertLine, KeyExists
    <3> QED  BY <2>1, <2>t, <3>1, <3>2 DEF InsertLine, TypeOK
  <2>2. CASE UNCHANGED <<posted, group>>
    BY <2>2
  <2>3. ASSUME NEW h \in Handlers, Step(h), ~InsertLine(h) PROVE UNCHANGED <<posted, group>>
    BY <2>3 DEF Step, SkipLine, MissLine, DuplicateKey, SavePayment, ReadPaidEntry, SaveEntry
  <2>4. ASSUME NEW p \in Payments, Checkout(p) PROVE UNCHANGED <<posted, group>>
    BY <2>4 DEF Checkout, QuoteDue, SavePending, ReturnCheckout, RefuseCheckout, Pay
  <2>5. ASSUME NEW ev \in Event, Deliver(ev) PROVE UNCHANGED <<posted, group>>
    BY <2>5 DEF Deliver, Dismiss, Receive, Begin
  <2>6. ASSUME NEW h \in Handlers, NEW p \in Payments, MockConfirm(h, p) PROVE UNCHANGED <<posted, group>>
    BY <2>6 DEF MockConfirm, Begin
  <2>7. ASSUME NEW h \in Handlers, Fail(h) PROVE UNCHANGED <<posted, group>>
    BY <2>7 DEF Fail
  <2>8. Crash \/ UNCHANGED vars => UNCHANGED <<posted, group>>
    BY DEF Crash, vars
  <2> QED  BY <2>1, <2>2, <2>3, <2>4, <2>5, <2>6, <2>7, <2>8 DEF Next
<1> QED  BY <1>1, LedgerAlways, PTL DEF Spec, LedgerAppendOnly

-----------------------------------------------------------------------------
(* Entries.  PaidEntryIsFunded speaks of one entry, but what a confirmation  *)
(* adds to it was quoted when another may have been under way.  Since nobody *)
(* ever pays a part, every quote is the whole fee, and so is every payment.  *)

\* No line gets smaller, so a funded entry stays funded.
LinesGrow == \A p \in Payments, a \in Accounts : posted[p][a] <= posted'[p][a]

LEMMA LinesAlwaysGrow ==
  ASSUME TypeInv, TypeInv', [Next]_vars
  PROVE  LinesGrow
<1>t. TypeOK /\ TypeOK'
  BY DEF TypeInv
<1>1. ASSUME NEW h \in Handlers, InsertLine(h) PROVE LinesGrow
  <2>1. serving[h].pay \in Payments /\ line[h] \in Accounts
    BY <1>1, <1>t DEF InsertLine, TypeInv, TypeOK, Busy, Event
  <2>2. posted[serving[h].pay][line[h]] = 0
    BY <1>1 DEF InsertLine, KeyExists
  <2>3. \A p \in Payments, a \in Accounts :
          posted'[p][a] = posted[p][a] \/ (p = serving[h].pay /\ a = line[h])
    BY <1>1, <1>t, <2>1 DEF InsertLine, TypeOK
  <2> SUFFICES ASSUME NEW p \in Payments, NEW a \in Accounts
               PROVE  posted[p][a] <= posted'[p][a]
    BY DEF LinesGrow
  <2>4. posted[p][a] \in Nat /\ posted'[p][a] \in Nat
    BY <1>t DEF TypeOK
  <2> QED  BY <2>2, <2>3, <2>4
<1>2. CASE UNCHANGED posted
  BY <1>2, <1>t DEF LinesGrow, TypeOK
<1>3. ASSUME NEW h \in Handlers, (Step(h) /\ ~InsertLine(h)) \/ Fail(h) PROVE UNCHANGED posted
  BY <1>3 DEF Step, SkipLine, MissLine, DuplicateKey, SavePayment, ReadPaidEntry, SaveEntry, Fail
<1>4. ASSUME NEW p \in Payments, Checkout(p) PROVE UNCHANGED posted
  BY <1>4 DEF Checkout, QuoteDue, SavePending, ReturnCheckout, RefuseCheckout, Pay
<1>5. ASSUME NEW ev \in Event, Deliver(ev) PROVE UNCHANGED posted
  BY <1>5 DEF Deliver, Dismiss, Receive, Begin
<1>6. ASSUME NEW h \in Handlers, NEW p \in Payments, MockConfirm(h, p) PROVE UNCHANGED posted
  BY <1>6 DEF MockConfirm, Begin
<1>7. Crash \/ UNCHANGED vars => UNCHANGED posted
  BY DEF Crash, vars
<1> QED  BY <1>1, <1>2, <1>3, <1>4, <1>5, <1>6, <1>7 DEF Next

Funded(e) == \E p \in Payments : EntryOf[p] = e /\ PostedTotal(p) >= Fee

\* An entry is unpaid or paid in one piece, and a quote is the whole fee.
EntriesWhole ==
  \A e \in Entries : \/ entry[e].paid = 0 /\ entry[e].status # "PAID"
                     \/ entry[e].paid >= Fee /\ entry[e].status = "PAID" /\ Funded(e)
QuotesFee == \A p \in Payments : checkout[p] # "idle" => quoted[p] = Fee /\ Fee > 0

EntryInv == EntriesWhole /\ QuotesFee

LEMMA FundedStays ==
  ASSUME TypeInv, TypeInv', [Next]_vars, NEW e \in Entries, Funded(e)
  PROVE  Funded(e)'
<1>1. PICK p \in Payments : EntryOf[p] = e /\ PostedTotal(p) >= Fee
  BY DEF Funded
<1>2. \A a \in Accounts : posted[p][a] \in Nat /\ posted'[p][a] \in Nat /\ posted[p][a] <= posted'[p][a]
  BY LinesAlwaysGrow DEF LinesGrow, TypeInv, TypeOK
<1>3. PostedTotal(p)' >= PostedTotal(p) /\ PostedTotal(p)' \in Nat /\ PostedTotal(p) \in Nat
  BY <1>2 DEF PostedTotal, Accounts
<1> QED  BY <1>1, <1>3, PayinAssumption DEF Funded

\* The whole fee is what every saved row asks for.
LEMMA SavedIsFee ==
  ASSUME LedgerInv, QuotesFee, NEW p \in Payments, Saved(p)
  PROVE  payment[p].amount = Fee /\ Fee > 0
BY DEF LedgerInv, RowsQuoted, QuotesFee, Saved, NoRow

LEMMA EntryStep == LedgerInv /\ LedgerInv' /\ EntryInv /\ [Next]_vars => EntryInv'
<1> SUFFICES ASSUME LedgerInv, LedgerInv', EntryInv, [Next]_vars PROVE EntryInv'
  OBVIOUS
<1>t. TypeOK /\ TypeInv /\ TypeInv' /\ Fee \in Nat
  BY PayinAssumption DEF LedgerInv, TypeInv
<1>f. \A e \in Entries : Funded(e) => Funded(e)'
  BY <1>t, FundedStays
<1>1. ASSUME NEW p \in Payments, QuoteDue(p) PROVE EntryInv'
  <2>1. entry[EntryOf[p]].paid = 0
    BY <1>1, <1>t, PayinAssumption DEF QuoteDue, EntryInv, EntriesWhole, TypeOK, EntryRow
  <2>2. quoted' = [quoted EXCEPT ![p] = Fee] /\ Fee > 0
    <3>1. Fee - entry[EntryOf[p]].paid = Fee
      BY <1>t, <2>1
    <3>2. Fee - entry[EntryOf[p]].paid > 0
          /\ quoted' = [quoted EXCEPT ![p] = Fee - entry[EntryOf[p]].paid]
      BY <1>1 DEF QuoteDue
    <3> QED  BY <3>1, <3>2
  <2>3. QuotesFee'
    BY <1>1, <1>t, <2>2 DEF QuoteDue, EntryInv, QuotesFee, TypeOK
  <2> QED  BY <1>1, <1>f, <2>3 DEF QuoteDue, EntryInv, EntriesWhole
<1>2. ASSUME NEW h \in Handlers, SaveEntry(h) PROVE EntryInv'
  <2> DEFINE p == serving[h].pay
  <2>1. p \in Payments /\ pc[h] = "saveEntry" /\ Saved(p) /\ row[h].amount = payment[p].amount
        /\ EntryOf[p] \in Entries
    BY <1>2, <1>t, PayinAssumption DEF SaveEntry, TypeInv, Busy, Event, LedgerInv, RequestsCredit
  <2>2. row[h].amount = Fee /\ Fee > 0
    BY <2>1, SavedIsFee DEF EntryInv
  <2>3. \A a \in Accounts : posted[p][a] = Due(p, a)
    BY <2>1 DEF LedgerInv, RequestsCredit, Passed
  <2>4. Funded(EntryOf[p])
    <3>1. PostedTotal(p) = Fee
      BY <1>t, <2>1, <2>2, <2>3, ExactTotal
    <3> QED  BY <1>t, <2>1, <3>1 DEF Funded
  <2> DEFINE paid == entryRow[h].paid + row[h].amount
  <2>5. paid \in Nat /\ paid >= Fee
    BY <1>t, <2>2 DEF TypeOK, EntryRow
  <2>6. entry' = [entry EXCEPT ![EntryOf[p]] = [paid |-> paid, status |-> "PAID"]]
    BY <1>2, <2>5 DEF SaveEntry
  <2>7. UNCHANGED <<checkout, quoted>>
    BY <1>2 DEF SaveEntry
  <2> HIDE DEF paid, p
  <2>8. EntriesWhole'
    BY <1>t, <1>f, <2>1, <2>4, <2>5, <2>6 DEF EntryInv, EntriesWhole, TypeOK
  <2> QED  BY <2>7, <2>8 DEF EntryInv, QuotesFee
<1>3. CASE UNCHANGED <<checkout, quoted, entry>>
  BY <1>3, <1>f DEF EntryInv, EntriesWhole, QuotesFee
<1>4. ASSUME NEW p \in Payments, Checkout(p), ~QuoteDue(p) PROVE EntryInv'
  <2>1. UNCHANGED <<entry, quoted>> /\ checkout[p] # "idle"
        /\ \A q \in Payments : q # p => checkout'[q] = checkout[q]
    BY <1>4, <1>t DEF Checkout, SavePending, ReturnCheckout, RefuseCheckout, Pay, HasUrl, TypeOK
  <2> QED  BY <1>f, <2>1 DEF EntryInv, EntriesWhole, QuotesFee
<1>5. ASSUME NEW h \in Handlers, (Step(h) /\ ~SaveEntry(h)) \/ Fail(h) PROVE UNCHANGED <<checkout, quoted, entry>>
  BY <1>5 DEF Step, SkipLine, MissLine, InsertLine, DuplicateKey, SavePayment, ReadPaidEntry, Fail
<1>6. ASSUME NEW ev \in Event, Deliver(ev) PROVE UNCHANGED <<checkout, quoted, entry>>
  BY <1>6 DEF Deliver, Dismiss, Receive, Begin
<1>7. ASSUME NEW h \in Handlers, NEW p \in Payments, MockConfirm(h, p) PROVE UNCHANGED <<checkout, quoted, entry>>
  BY <1>7 DEF MockConfirm, Begin
<1>8. CASE Crash
  <2>1. UNCHANGED <<entry, quoted>> /\ \A p \in Payments : checkout'[p] # "idle" => checkout[p] # "idle"
    BY <1>8 DEF Crash
  <2> QED  BY <1>f, <2>1 DEF EntryInv, EntriesWhole, QuotesFee
<1>9. UNCHANGED vars => UNCHANGED <<checkout, quoted, entry>>
  BY DEF vars
<1> QED  BY <1>1, <1>2, <1>3, <1>4, <1>5, <1>6, <1>7, <1>8, <1>9 DEF Next

LEMMA EntryAlways == Spec => []EntryInv
<1>1. Init => EntryInv
  BY DEF Init, EntryInv, EntriesWhole, QuotesFee, NoEntryRow
<1>2. LedgerInv /\ LedgerInv' /\ EntryInv /\ [Next]_vars => EntryInv'
  BY EntryStep
<1> QED  BY <1>1, <1>2, LedgerAlways, PTL DEF Spec

\* An entry counts as paid only on the strength of a payment for the whole fee
\* whose lines are on the ledger; PARTIAL is a status no entry ever has.
THEOREM PaidEntriesAreFunded == Spec => []PaidEntryIsFunded
<1>1. EntryInv => PaidEntryIsFunded
  BY DEF EntryInv, EntriesWhole, Funded, PaidEntryIsFunded
<1> QED  BY <1>1, EntryAlways, PTL

-----------------------------------------------------------------------------
(* Rows that stay as they are *)

\* The only writers of a payment row.
LEMMA RowsChangeOnSave ==
  ASSUME [Next]_vars, ~UNCHANGED payment
  PROVE  \/ \E p \in Payments : SavePending(p) \/ ReturnCheckout(p)
         \/ \E h \in Handlers : SavePayment(h)
<1>1. ASSUME NEW q \in Payments, QuoteDue(q) \/ RefuseCheckout(q) \/ Pay(q) PROVE UNCHANGED payment
  BY <1>1 DEF QuoteDue, RefuseCheckout, Pay
<1>2. ASSUME NEW h \in Handlers, (Step(h) /\ ~SavePayment(h)) \/ Fail(h) PROVE UNCHANGED payment
  BY <1>2 DEF Step, SkipLine, MissLine, InsertLine, DuplicateKey, ReadPaidEntry, SaveEntry, Fail
<1>3. ASSUME NEW ev \in Event, Deliver(ev) PROVE UNCHANGED payment
  BY <1>3 DEF Deliver, Dismiss, Receive, Begin
<1>4. ASSUME NEW h \in Handlers, NEW q \in Payments, MockConfirm(h, q) PROVE UNCHANGED payment
  BY <1>4 DEF MockConfirm, Begin
<1>5. Crash \/ UNCHANGED vars => UNCHANGED payment
  BY DEF Crash, vars
<1> QED  BY <1>1, <1>2, <1>3, <1>4, <1>5 DEF Next, Checkout

\* A confirmed payment that Stripe charged is one whose checkout was returned:
\* startCheckout has saved its row for the last time.
LEMMA ConfirmedIsReturned ==
  ASSUME LedgerInv, QuotesFee, NEW p \in Payments, Live[p], Confirmed(p)
  PROVE  checkout[p] = "returned"
<1>1. payment[p].amount \in Nat /\ Saved(p)
  BY DEF LedgerInv, TypeInv, TypeOK, PaymentRow, Confirmed, Saved
<1>2. payment[p].amount = Fee /\ Fee > 0
  BY <1>1, SavedIsFee
<1>3. PostedTotal(p) > 0
  BY <1>1, <1>2, ExactTotal DEF LedgerInv, TypeInv, ConfirmedPosted
<1>4. \E a \in Accounts : posted[p][a] # 0
  BY <1>3 DEF PostedTotal, Accounts
<1> QED  BY <1>4 DEF LedgerInv, CreditsCharged, EventsCharged

LEMMA ConfirmedKept ==
  ASSUME LedgerInv, EntryInv, [Next]_vars, NEW p \in Payments, Live[p], Confirmed(p)
  PROVE  Confirmed(p)'
<1>t. TypeOK /\ TypeInv
  BY DEF LedgerInv, TypeInv
<1>0. checkout[p] = "returned"
  BY ConfirmedIsReturned DEF EntryInv
<1>1. ASSUME NEW q \in Payments, SavePending(q) \/ ReturnCheckout(q) PROVE Confirmed(p)'
  BY <1>0, <1>1, <1>t DEF SavePending, ReturnCheckout, Confirmed, TypeOK
<1>2. ASSUME NEW h \in Handlers, SavePayment(h) PROVE Confirmed(p)'
  <2>1. serving[h].pay \in Payments
    BY <1>2, <1>t DEF SavePayment, TypeInv, Busy, Event
  <2>2. [row[h] EXCEPT !.status = "confirmed", !.group = myGroup[h]].status = "confirmed"
    BY <1>t DEF TypeOK, PaymentRow
  <2> QED  BY <1>2, <1>t, <2>1, <2>2 DEF SavePayment, Confirmed, TypeOK
<1>3. CASE UNCHANGED payment
  BY <1>3 DEF Confirmed
<1>4. CASE ~UNCHANGED payment
  BY <1>1, <1>2, <1>4, RowsChangeOnSave
<1> QED  BY <1>3, <1>4

\* No save of a copy read earlier takes a payment Stripe confirmed back.
THEOREM ConfirmedStays == Spec => ConfirmedForGood
<1> DEFINE Stays == \A p \in Payments : Live[p] /\ Confirmed(p) => Confirmed(p)'
<1>1. LedgerInv /\ EntryInv /\ [Next]_vars => [Stays]_vars
  BY ConfirmedKept
<1> QED  BY <1>1, LedgerAlways, EntryAlways, PTL DEF Spec, ConfirmedForGood

-----------------------------------------------------------------------------
(* Charged money.  While a charge is not confirmed, an event that finds its  *)
(* row is still to be answered.  Two things could lose it: answering the     *)
(* last event without confirming, which only the request beaten to a line    *)
(* does, and only while the one that beat it is still at work on an event of *)
(* its own; and dismissing it, which needs a row that cannot be found.       *)

At(h, p) == pc[h] # "idle" /\ serving[h].pay = p

EventWaits(p) == \E ev \in events : ev.pay = p /\ Found(ev)

EventsHeld(p) ==
  \A h \in Handlers : At(h, p) =>
    /\ serving[h] \in events /\ Found(serving[h])
    /\ pc[h] \notin {"readEntry", "saveEntry"}
    /\ \A g \in Handlers \ {h} : serving[g] # serving[h]

RivalAtWork(p) ==
  \A h \in Handlers : At(h, p) /\ pc[h] = "insert" /\ KeyExists(h) =>
    \E g \in Handlers : At(g, p) /\ line[h] \in Passed(g)

Awaited(p) == EventWaits(p) /\ EventsHeld(p) /\ RivalAtWork(p)

DollarInv == \A p \in Payments : charged[p] # 0 => Live[p] /\ (Confirmed(p) \/ Awaited(p))

\* A charge and its two events arrive before any request serves them.
LEMMA PayAwaited ==
  ASSUME LedgerInv, DollarInv, NEW p \in Payments, Pay(p)
  PROVE  Live[p] /\ Awaited(p)'
<1>t. TypeOK /\ TypeInv
  BY DEF LedgerInv, TypeInv
<1>1. Live[p] /\ charged[p] = 0 /\ UNCHANGED <<pc, serving, line, posted, payment>>
      /\ events' = events \cup [kind : {"checkout", "intent"}, pay : {p}]
  BY DEF Pay, local
<1>2. \A h \in Handlers : ~At(h, p)
  BY <1>1 DEF LedgerInv, CreditsCharged, At
<1>3. \A h \in Handlers : ~At(h, p)'
  BY <1>1, <1>2 DEF At
<1>4. EventWaits(p)'
  <2> DEFINE ev == [kind |-> "checkout", pay |-> p]
  <2>1. ev \in events' /\ ev.pay = p /\ ev.kind # "intent"
    BY <1>1
  <2> HIDE DEF ev
  <2> QED  BY <2>1 DEF EventWaits, Found
<1> QED  BY <1>1, <1>3, <1>4 DEF Awaited, EventsHeld, RivalAtWork

\* A step that leaves the payment's row, lines, events and requests alone.
LEMMA AwaitedAlone ==
  ASSUME TypeInv, NEW p \in Payments, Awaited(p),
         payment'[p] = payment[p], posted'[p] = posted[p],
         \A ev \in events : ev.pay = p /\ Found(ev) => ev \in events',
         \A h \in Handlers : /\ At(h, p) => UNCHANGED <<pc[h], serving[h], line[h]>>
                             /\ ~At(h, p) => /\ ~At(h, p)'
                                             /\ \/ serving'[h] \in {serving[h], NoEvent}
                                                \/ serving'[h].pay # p
  PROVE  Awaited(p)'
<1>1. \A h \in Handlers : At(h, p)' <=> At(h, p)
  BY DEF At
<1>2. EventWaits(p)'
  <2>1. PICK ev \in events : ev.pay = p /\ Found(ev)
    BY DEF Awaited, EventWaits
  <2> QED  BY <2>1 DEF EventWaits, Found
<1>3. EventsHeld(p)'
  <2> SUFFICES ASSUME NEW h \in Handlers, At(h, p)
               PROVE  /\ serving[h] \in events' /\ Found(serving[h])'
                      /\ pc[h] \notin {"readEntry", "saveEntry"}
                      /\ \A g \in Handlers \ {h} : serving'[g] # serving[h]
    BY <1>1 DEF EventsHeld
  <2>1. serving[h] \in events /\ Found(serving[h]) /\ serving[h].pay = p
    BY DEF Awaited, EventsHeld, At
  <2>2. \A g \in Handlers \ {h} : serving'[g] # serving[h]
    BY <2>1 DEF Awaited, EventsHeld, At, TypeInv, Busy, Event, NoEvent
  <2> QED  BY <2>1, <2>2 DEF Awaited, EventsHeld, Found
<1>4. RivalAtWork(p)'
  <2>1. \A h \in Handlers : At(h, p) => Passed(h)' = Passed(h) /\ (KeyExists(h)' <=> KeyExists(h))
    BY DEF Passed, KeyExists, At
  <2> QED  BY <1>1, <2>1 DEF Awaited, RivalAtWork
<1> QED  BY <1>2, <1>3, <1>4 DEF Awaited

\* The same while a request is at a line: it stays at work, and puts the line
\* behind it when it advances.
LEMMA AwaitedAtLine ==
  ASSUME LedgerInv, NEW h \in Handlers, Awaited(serving[h].pay),
         SkipLine(h) \/ MissLine(h) \/ InsertLine(h)
  PROVE  Awaited(serving[h].pay)'
<1> DEFINE p == serving[h].pay
<1>t. TypeOK /\ TypeInv
  BY DEF LedgerInv, TypeInv
<1>0. p \in Payments /\ pc[h] \in {"check", "insert"} /\ UNCHANGED <<serving, payment, events>>
  BY <1>t DEF SkipLine, MissLine, InsertLine, TypeInv, Busy, Event, local
<1>1. \A g \in Handlers : g # h => UNCHANGED <<pc[g], line[g]>> /\ Passed(g)' = Passed(g)
  <2>1. \A g \in Handlers : g # h => UNCHANGED <<pc[g], line[g]>>
    BY <1>t DEF SkipLine, MissLine, InsertLine, Advance, local, TypeOK
  <2> QED  BY <2>1 DEF Passed
<1>2. /\ pc'[h] \in {"check", "insert", "save"}
      /\ Passed(h) \subseteq Passed(h)'
      /\ InsertLine(h) => line[h] \in Passed(h)'
  <2>1. CASE MissLine(h)
    BY <2>1, <1>t DEF MissLine, InsertLine, Passed, local, TypeOK
  <2>2. CASE SkipLine(h) \/ InsertLine(h)
    <3>1. Advance(h)
      BY <2>2 DEF SkipLine, InsertLine
    <3>2. pc'[h] \in {"check", "save"}
      BY <3>1, <1>t DEF Advance, AfterLines, TypeOK
    <3> QED  BY <3>1, <3>2, <1>0, <1>t, AdvancePassed
  <2> QED  BY <2>1, <2>2
<1>3. \A g \in Handlers : At(g, p)' <=> At(g, p)
  BY <1>0, <1>1, <1>2 DEF At
<1>4. EventWaits(p)' /\ EventsHeld(p)'
  BY <1>0, <1>1, <1>2, <1>3 DEF Awaited, EventWaits, EventsHeld, Found
<1>5. RivalAtWork(p)'
  <2> SUFFICES ASSUME NEW g \in Handlers, At(g, p), pc'[g] = "insert", KeyExists(g)'
               PROVE  \E k \in Handlers : At(k, p) /\ line'[g] \in Passed(k)'
    BY <1>3 DEF RivalAtWork
  <2>1. pc[g] = "insert" /\ line'[g] = line[g] /\ KeyExists(g)
        => \E k \in Handlers : At(k, p) /\ line'[g] \in Passed(k)'
    <3>1. ASSUME pc[g] = "insert", line'[g] = line[g], KeyExists(g)
          PROVE  \E k \in Handlers : At(k, p) /\ line'[g] \in Passed(k)'
      <4>1. PICK k \in Handlers : At(k, p) /\ line[g] \in Passed(k)
        BY <3>1 DEF Awaited, RivalAtWork
      <4> QED  BY <3>1, <4>1, <1>1, <1>2
    <3> QED  BY <3>1
  <2>2. CASE g = h
    <3>1. MissLine(h)
      BY <2>2, <1>t DEF SkipLine, InsertLine, Advance, AfterLines, TypeOK
    <3> QED  BY <2>2, <3>1 DEF MissLine, KeyExists, local
  <2>3. CASE g # h
    <3>1. pc[g] = "insert" /\ line'[g] = line[g]
      BY <2>3, <1>1
    <3>2. CASE KeyExists(g)
      BY <2>1, <3>1, <3>2
    <3>3. CASE ~KeyExists(g)
      <4>1. InsertLine(h)
        BY <3>1, <3>3, <1>0 DEF SkipLine, MissLine, KeyExists
      <4>2. posted' = [posted EXCEPT ![p][line[h]] = @ + Amount(h)]
        BY <4>1 DEF InsertLine
      <4>3. line[g] = line[h]
        BY <4>2, <3>1, <3>3, <1>0, <1>t DEF KeyExists, At, TypeOK
      <4> QED  BY <4>1, <4>3, <3>1, <1>0, <1>2 DEF At
    <3> QED  BY <3>2, <3>3
  <2> QED  BY <2>2, <2>3
<1> QED  BY <1>4, <1>5 DEF Awaited

\* A request starts on an event no other request serves.
LEMMA AwaitedReceive ==
  ASSUME LedgerInv, NEW h \in Handlers, NEW ev \in Event, Receive(h, ev), ~Redelivers,
         Awaited(ev.pay)
  PROVE  Awaited(ev.pay)'
<1> DEFINE p == ev.pay
<1>t. TypeOK /\ TypeInv
  BY DEF LedgerInv, TypeInv
<1>0. /\ p \in Payments /\ ev \in events /\ Found(ev) /\ pc[h] = "idle"
      /\ UNCHANGED <<payment, posted, line, events>>
      /\ \A g \in Handlers : serving[g] # ev
  BY DEF Receive, Begin, Event
<1>1. pc' = [pc EXCEPT ![h] = "check"] /\ serving' = [serving EXCEPT ![h] = ev]
  BY DEF Receive, Begin
<1>2. \A g \in Handlers : g # h => UNCHANGED <<pc[g], serving[g]>> /\ (At(g, p)' <=> At(g, p))
  BY <1>t, <1>1 DEF TypeOK, At
<1>3. pc'[h] = "check" /\ serving'[h] = ev /\ At(h, p)' /\ ~At(h, p)
  BY <1>t, <1>0, <1>1 DEF TypeOK, At
<1>4. EventWaits(p)'
  BY <1>0 DEF EventWaits, Found
<1>5. EventsHeld(p)'
  BY <1>0, <1>2, <1>3 DEF Awaited, EventsHeld, Found
<1>6. RivalAtWork(p)'
  <2>1. \A g \in Handlers : g # h => Passed(g)' = Passed(g) /\ (KeyExists(g)' <=> KeyExists(g))
    BY <1>0, <1>2 DEF Passed, KeyExists
  <2> QED  BY <1>0, <1>2, <1>3, <2>1 DEF Awaited, RivalAtWork
<1> QED  BY <1>4, <1>5, <1>6 DEF Awaited

\* A request beaten to a line gives up; the one that beat it has got further.
LEMMA AwaitedDuplicate ==
  ASSUME LedgerInv, NEW h \in Handlers, DuplicateKey(h),
         NEW p \in Payments, p = serving[h].pay, Awaited(p)
  PROVE  Awaited(p)'
<1>t. TypeOK /\ TypeInv
  BY DEF LedgerInv, TypeInv
<1>0. /\ pc[h] = "insert" /\ KeyExists(h) /\ At(h, p) /\ serving[h] \in Event
      /\ UNCHANGED <<payment, posted>>
  BY <1>t DEF DuplicateKey, TypeInv, Busy, At
<1>1. /\ events' = events \ {serving[h]}
      /\ pc' = [pc EXCEPT ![h] = "idle"]
      /\ serving' = [serving EXCEPT ![h] = NoEvent]
      /\ line' = [line EXCEPT ![h] = "pf"]
  BY DEF DuplicateKey, Respond
<1>2. \A g \in Handlers : g # h => /\ UNCHANGED <<pc[g], serving[g], line[g]>>
                                   /\ Passed(g)' = Passed(g) /\ (At(g, p)' <=> At(g, p))
  <2>1. \A g \in Handlers : g # h => UNCHANGED <<pc[g], serving[g], line[g]>>
    BY <1>t, <1>1 DEF TypeOK
  <2> QED  BY <2>1 DEF Passed, At
<1>3. ~At(h, p)' /\ serving'[h] = NoEvent
  BY <1>t, <1>1 DEF TypeOK, At
<1>4. PICK r \in Handlers : At(r, p) /\ line[h] \in Passed(r)
  BY <1>0 DEF Awaited, RivalAtWork
<1>5. r # h /\ line[h] \notin Passed(h)
  BY <1>0, <1>4 DEF Passed
<1>6. EventWaits(p)'
  <2>1. serving[r] \in events /\ Found(serving[r]) /\ serving[r] # serving[h] /\ serving[r].pay = p
    BY <1>0, <1>4, <1>5 DEF Awaited, EventsHeld, At
  <2> QED  BY <1>0, <1>1, <2>1 DEF EventWaits, Found
<1>7. EventsHeld(p)'
  <2> SUFFICES ASSUME NEW g \in Handlers, g # h, At(g, p)
               PROVE  /\ serving[g] \in events' /\ Found(serving[g])'
                      /\ pc[g] \notin {"readEntry", "saveEntry"}
                      /\ \A k \in Handlers \ {g} : serving'[k] # serving[g]
    BY <1>2, <1>3 DEF EventsHeld
  <2>1. /\ serving[g] \in events /\ Found(serving[g]) /\ pc[g] \notin {"readEntry", "saveEntry"}
        /\ \A k \in Handlers \ {g} : serving[k] # serving[g]
    BY DEF Awaited, EventsHeld
  <2>2. serving[g] # NoEvent
    BY <1>t DEF TypeInv, Busy, At, Event, NoEvent
  <2>3. Found(serving[g])'
    BY <1>0, <1>2, <2>1 DEF Found
  <2> QED  BY <1>0, <1>1, <1>2, <1>3, <2>1, <2>2, <2>3
<1>8. RivalAtWork(p)'
  <2> SUFFICES ASSUME NEW g \in Handlers, g # h, At(g, p), pc[g] = "insert", KeyExists(g)
               PROVE  \E k \in Handlers : k # h /\ At(k, p) /\ line[g] \in Passed(k)
    BY <1>0, <1>2, <1>3 DEF RivalAtWork, KeyExists
  <2>1. PICK k \in Handlers : At(k, p) /\ line[g] \in Passed(k)
    BY DEF Awaited, RivalAtWork
  <2>2. CASE k # h
    BY <2>1, <2>2
  <2>3. CASE k = h
    <3>1. line[g] \in Passed(r)
      BY <1>0, <1>4, <2>1, <2>3 DEF Passed
    <3> QED  BY <1>4, <1>5, <3>1
  <2> QED  BY <2>2, <2>3
<1> QED  BY <1>6, <1>7, <1>8 DEF Awaited

\* A step of a request for another payment.
LEMMA AwaitedOther ==
  ASSUME LedgerInv, NEW h \in Handlers, Step(h), NEW p \in Payments, Awaited(p), serving[h].pay # p
  PROVE  Awaited(p)'
<1>t. TypeOK /\ TypeInv
  BY DEF LedgerInv, TypeInv
<1>1. \A g \in Handlers : g # h => UNCHANGED <<pc[g], serving[g], line[g]>>
  <2>1. CASE SkipLine(h) \/ MissLine(h) \/ InsertLine(h)
    BY <1>t, <2>1 DEF SkipLine, MissLine, InsertLine, Advance, local, TypeOK
  <2>2. CASE DuplicateKey(h) \/ SaveEntry(h)
    BY <1>t, <2>2 DEF DuplicateKey, SaveEntry, Respond, TypeOK
  <2>3. CASE SavePayment(h) \/ ReadPaidEntry(h)
    BY <1>t, <2>3 DEF SavePayment, ReadPaidEntry, local, TypeOK
  <2> QED  BY <2>1, <2>2, <2>3 DEF Step
<1>2. serving'[h] \in {serving[h], NoEvent} /\ (serving'[h] = serving[h] \/ pc'[h] = "idle")
  BY <1>t DEF Step, SkipLine, MissLine, InsertLine, DuplicateKey, SavePayment, ReadPaidEntry, SaveEntry,
              Respond, local, TypeOK
<1>3. events' \in {events, events \ {serving[h]}}
  BY DEF Step, SkipLine, MissLine, InsertLine, DuplicateKey, SavePayment, ReadPaidEntry, SaveEntry, Respond
<1>4. payment'[p] = payment[p] /\ posted'[p] = posted[p]
  BY <1>t DEF Step, SkipLine, MissLine, InsertLine, DuplicateKey, SavePayment, ReadPaidEntry, SaveEntry, TypeOK
<1>5. ~At(h, p) /\ ~At(h, p)'
  BY <1>2 DEF At
<1>6. \A g \in Handlers : g # h => (At(g, p)' <=> At(g, p))
  BY <1>1 DEF At
<1> QED  BY <1>t, <1>1, <1>2, <1>3, <1>4, <1>5, <1>6, AwaitedAlone

LEMMA DollarStep ==
  ASSUME MaxFailures = 0, ~Redelivers
  PROVE  LedgerInv /\ EntryInv /\ DollarInv /\ [Next]_vars => DollarInv'
<1> SUFFICES ASSUME LedgerInv, EntryInv, DollarInv, [Next]_vars, NEW p \in Payments, charged'[p] # 0
             PROVE  Live[p] /\ (Confirmed(p)' \/ Awaited(p)')
  BY DEF DollarInv
<1>t. TypeOK /\ TypeInv
  BY DEF LedgerInv, TypeInv
<1>1. CASE Pay(p)
  BY <1>1, PayAwaited
<1>2. CASE ~Pay(p)
  <2>1. charged[p] # 0
    <3>1. ASSUME NEW q \in Payments, Checkout(q) PROVE charged'[p] = charged[p]
      BY <1>2, <1>t, <3>1 DEF Checkout, QuoteDue, SavePending, ReturnCheckout, RefuseCheckout, Pay, TypeOK
    <3>2. ASSUME NEW ev \in Event, Deliver(ev) PROVE charged'[p] = charged[p]
      BY <3>2 DEF Deliver, Dismiss, Receive, Begin
    <3>3. ASSUME NEW h \in Handlers, NEW q \in Payments, MockConfirm(h, q) PROVE charged'[p] = charged[p]
      BY <3>3 DEF MockConfirm, Begin
    <3>4. ASSUME NEW h \in Handlers, Step(h) \/ Fail(h) PROVE charged'[p] = charged[p]
      BY <3>4 DEF Step, SkipLine, MissLine, InsertLine, DuplicateKey, SavePayment, ReadPaidEntry, SaveEntry, Fail
    <3>5. Crash \/ UNCHANGED vars => charged'[p] = charged[p]
      BY DEF Crash, vars
    <3> QED  BY <3>1, <3>2, <3>3, <3>4, <3>5 DEF Next
  <2>2. Live[p] /\ (Confirmed(p) \/ Awaited(p))
    BY <2>1 DEF DollarInv
  <2> SUFFICES ASSUME ~Confirmed(p)' PROVE Awaited(p)'
    BY <2>2
  <2>3. Awaited(p) /\ ~Confirmed(p) /\ checkout[p] = "returned"
    BY <2>1, <2>2, ConfirmedKept DEF LedgerInv, EventsCharged
  <2>4. payment'[p] = payment[p]
    <3>1. ASSUME NEW q \in Payments, SavePending(q) \/ ReturnCheckout(q) PROVE payment'[p] = payment[p]
      BY <1>t, <2>3, <3>1 DEF SavePending, ReturnCheckout, TypeOK
    <3>2. ASSUME NEW h \in Handlers, SavePayment(h) PROVE payment'[p] = payment[p]
      <4>1. CASE serving[h].pay = p
        <5>1. [row[h] EXCEPT !.status = "confirmed", !.group = myGroup[h]].status = "confirmed"
          BY <1>t DEF TypeOK, PaymentRow
        <5> QED  BY <3>2, <4>1, <5>1, <1>t DEF SavePayment, Confirmed, TypeOK
      <4>2. CASE serving[h].pay # p
        BY <3>2, <4>2, <1>t DEF SavePayment, TypeOK
      <4> QED  BY <4>1, <4>2
    <3>3. CASE UNCHANGED payment
      BY <3>3
    <3> QED  BY <3>1, <3>2, <3>3, RowsChangeOnSave
  <2>5. ASSUME NEW q \in Payments, Checkout(q) PROVE Awaited(p)'
    <3>1. UNCHANGED <<pc, serving, line, posted>> /\ events \subseteq events'
      BY <2>5 DEF Checkout, QuoteDue, SavePending, ReturnCheckout, RefuseCheckout, Pay, local
    <3> QED  BY <1>t, <2>3, <2>4, <3>1, AwaitedAlone DEF At
  <2>6. ASSUME NEW ev \in Event, Dismiss(ev) PROVE Awaited(p)'
    <3>1. UNCHANGED <<pc, serving, line, posted>> /\ events' = events \ {ev}
      BY <2>6 DEF Dismiss, local
    <3>2. ~(ev.pay = p /\ Found(ev))
      BY <2>3, <2>6 DEF Dismiss, AlreadyConfirmed, Confirmed
    <3> QED  BY <1>t, <2>3, <2>4, <3>1, <3>2, AwaitedAlone DEF At
  <2>7. ASSUME NEW h \in Handlers, NEW ev \in Event, Receive(h, ev) PROVE Awaited(p)'
    <3>1. CASE ev.pay = p
      BY <2>3, <2>7, <3>1, AwaitedReceive
    <3>2. CASE ev.pay # p
      <4>1. UNCHANGED <<events, line, posted>> /\ pc[h] = "idle"
            /\ pc' = [pc EXCEPT ![h] = "check"] /\ serving' = [serving EXCEPT ![h] = ev]
        BY <2>7 DEF Receive, Begin
      <4>2. ~At(h, p) /\ ~At(h, p)' /\ serving'[h].pay # p
        BY <1>t, <3>2, <4>1 DEF At, TypeOK
      <4>3. \A g \in Handlers : g # h => UNCHANGED <<pc[g], serving[g], line[g]>>
        BY <1>t, <4>1 DEF TypeOK
      <4> QED  BY <1>t, <2>3, <2>4, <4>1, <4>2, <4>3, AwaitedAlone DEF At
    <3> QED  BY <3>1, <3>2
  <2>8. ASSUME NEW h \in Handlers, NEW q \in Payments, MockConfirm(h, q) PROVE Awaited(p)'
    <3> DEFINE ev == [kind |-> "mock", pay |-> q]
    <3>1. /\ UNCHANGED <<events, line, posted>> /\ pc[h] = "idle" /\ q # p
          /\ pc' = [pc EXCEPT ![h] = "check"] /\ serving' = [serving EXCEPT ![h] = ev]
      BY <2>2, <2>8 DEF MockConfirm, Begin
    <3>2. ev.pay # p
      BY <3>1
    <3> HIDE DEF ev
    <3>3. ~At(h, p) /\ ~At(h, p)' /\ serving'[h].pay # p
      BY <1>t, <3>1, <3>2 DEF At, TypeOK
    <3>4. \A g \in Handlers : g # h => UNCHANGED <<pc[g], serving[g], line[g]>>
      BY <1>t, <3>1 DEF TypeOK
    <3> QED  BY <1>t, <2>3, <2>4, <3>1, <3>3, <3>4, AwaitedAlone DEF At
  <2>9. ASSUME NEW h \in Handlers, Step(h) PROVE Awaited(p)'
    <3>1. CASE serving[h].pay # p
      BY <2>3, <2>9, <3>1, AwaitedOther
    <3>2. CASE serving[h].pay = p
      <4>1. pc[h] \notin {"idle", "readEntry", "saveEntry"}
        BY <2>3, <2>9, <3>2 DEF Awaited, EventsHeld, At, Step, SkipLine, MissLine, InsertLine,
                                DuplicateKey, SavePayment, ReadPaidEntry, SaveEntry
      <4>2. ~SavePayment(h)
        <5>1. [row[h] EXCEPT !.status = "confirmed", !.group = myGroup[h]].status = "confirmed"
          BY <1>t DEF TypeOK, PaymentRow
        <5> QED  BY <3>2, <5>1, <1>t DEF SavePayment, Confirmed, TypeOK
      <4>3. CASE SkipLine(h) \/ MissLine(h) \/ InsertLine(h)
        <5>1. Awaited(serving[h].pay)' /\ serving'[h] = serving[h]
          BY <2>3, <3>2, <4>3, AwaitedAtLine DEF SkipLine, MissLine, InsertLine, local
        <5> QED  BY <3>2, <5>1
      <4>4. CASE DuplicateKey(h)
        BY <2>3, <3>2, <4>4, AwaitedDuplicate
      <4> QED  BY <2>9, <4>1, <4>2, <4>3, <4>4 DEF Step, ReadPaidEntry, SaveEntry
    <3> QED  BY <3>1, <3>2
  <2>10. ASSUME NEW h \in Handlers, Fail(h) PROVE FALSE
    BY <2>10, <1>t DEF Fail, TypeOK
  <2>11. CASE Crash
    <3>1. UNCHANGED events /\ \A h \in Handlers : pc'[h] = "idle"
      BY <2>11 DEF Crash
    <3> QED  BY <2>3, <2>4, <3>1 DEF Awaited, EventWaits, EventsHeld, RivalAtWork, At, Found
  <2>12. CASE UNCHANGED vars
    <3>1. UNCHANGED <<pc, serving, line, posted, events>>
      BY <2>12 DEF vars
    <3> QED  BY <1>t, <2>3, <2>4, <3>1, AwaitedAlone DEF At
  <2> QED  BY <2>5, <2>6, <2>7, <2>8, <2>9, <2>10, <2>11, <2>12 DEF Next, Deliver
<1> QED  BY <1>1, <1>2

\* Without database errors, and unless Stripe sends an event a second time while
\* the first is served, once Stripe has nothing left to send about a charge the
\* payment is confirmed and the ledger holds exactly what was charged, however often
\* the server crashed.  (A fee below Stripe's minimum is charged at the minimum.)
THEOREM EveryDollarOnLedger ==
  ASSUME MaxFailures = 0, ~Redelivers, Fee >= StripeMinimum
  PROVE  Spec => []NoDollarOffLedger
<1>1. Init => DollarInv
  BY DEF Init, DollarInv
<1>2. LedgerInv /\ EntryInv /\ DollarInv /\ [Next]_vars => DollarInv'
  BY DollarStep
<1>3. LedgerInv /\ EntryInv /\ DollarInv => NoDollarOffLedger
  <2> SUFFICES ASSUME LedgerInv, EntryInv, DollarInv, NEW p \in Payments, charged[p] > 0, ~Outstanding(p)
               PROVE  /\ Confirmed(p)
                      /\ PostedTotal(p) = payment[p].amount /\ PostedTotal(p) = charged[p]
    BY DEF NoDollarOffLedger
  <2>1. charged[p] # 0 /\ TypeOK
    BY DEF LedgerInv, TypeInv, TypeOK
  <2>2. Confirmed(p)
    BY <2>1 DEF DollarInv, Awaited, EventWaits, Outstanding
  <2>3. PostedTotal(p) = payment[p].amount
    BY <2>1, <2>2, ExactTotal DEF LedgerInv, ConfirmedPosted
  <2>4. payment[p].amount = Fee /\ charged[p] = Fee
    <3>1. Saved(p)
      BY <2>2 DEF Confirmed, Saved
    <3>2. payment[p].amount = Fee /\ payment[p].amount = quoted[p] /\ charged[p] = ChargeFor(quoted[p])
      BY <2>1, <3>1, SavedIsFee DEF LedgerInv, EntryInv, RowsQuoted, EventsCharged
    <3> QED  BY <3>2, PayinAssumption DEF ChargeFor, StripeMinimum
  <2> QED  BY <2>2, <2>3, <2>4
<1> QED  BY <1>1, <1>2, <1>3, LedgerAlways, EntryAlways, PTL DEF Spec

-----------------------------------------------------------------------------
(* The refinement of RocPayinPromise: a charge is the player's Pay, a credit *)
(* is the first save of the row as confirmed, every other step is a stutter. *)

\* A confirmed payment of a live league shows the fee, before and after a step.
LEMMA ConfirmedShowsFee ==
  ASSUME LedgerInv, EntryInv, NEW p \in Payments, Confirmed(p)
  PROVE  PostedTotal(p) = Fee /\ Fee > 0
<1>1. Saved(p) /\ TypeOK
  BY DEF Confirmed, Saved, LedgerInv, TypeInv
<1>2. payment[p].amount = Fee /\ Fee > 0
  BY <1>1, SavedIsFee DEF EntryInv
<1> QED  BY <1>1, <1>2, ExactTotal DEF LedgerInv, ConfirmedPosted

ShowsFee ==
  \A p \in Payments : Confirmed(p) => PostedTotal(p) = Fee /\ Fee > 0

LEMMA ConfirmedAllShowFee == LedgerInv /\ EntryInv => ShowsFee
BY ConfirmedShowsFee DEF ShowsFee

\* A row turns to confirmed by the save of confirmFromWebhook, and by no other.
LEMMA NewlyConfirmed ==
  ASSUME LedgerInv, [Next]_vars, NEW p \in Payments, ~Confirmed(p), Confirmed(p)'
  PROVE  \E h \in Handlers : SavePayment(h) /\ serving[h].pay = p
<1>t. TypeOK
  BY DEF LedgerInv, TypeInv
<1>1. ~UNCHANGED payment
  BY DEF Confirmed
<1>2. ASSUME NEW q \in Payments, SavePending(q) \/ ReturnCheckout(q) PROVE FALSE
  <2>1. CASE p = q
    BY <1>2, <1>t, <2>1 DEF SavePending, ReturnCheckout, PendingRow, Confirmed, TypeOK
  <2>2. CASE p # q
    BY <1>2, <1>t, <2>2 DEF SavePending, ReturnCheckout, Confirmed, TypeOK
  <2> QED  BY <2>1, <2>2
<1>3. PICK h \in Handlers : SavePayment(h)
  BY <1>1, <1>2, RowsChangeOnSave
<1>4. serving[h].pay = p
  BY <1>3, <1>t DEF SavePayment, Confirmed, TypeOK
<1> QED  BY <1>3, <1>4

LEMMA PromiseInit == Init => Promise!Init
<1> SUFFICES ASSUME Init PROVE Promise!Init
  OBVIOUS
<1>1. charged = [p \in Payments |-> 0]
  BY DEF Init
<1>2. \A p \in Payments : ~Confirmed(p)
  BY DEF Init, Confirmed, NoRow
<1>3. Credited = [p \in Payments |-> 0]
  BY <1>2 DEF Credited
<1> QED  BY <1>1, <1>3 DEF Promise!Init

LEMMA PromiseStep ==
  ASSUME \A p \in Payments : Live[p], Fee >= StripeMinimum
  PROVE  LedgerInv /\ LedgerInv' /\ EntryInv /\ EntryInv' /\ [Next]_vars
         => [Promise!Next]_(Promise!promise)
<1> SUFFICES ASSUME LedgerInv, LedgerInv', EntryInv, EntryInv', [Next]_vars
             PROVE  [Promise!Next]_(Promise!promise)
  OBVIOUS
<1>t. TypeOK /\ TypeOK' /\ Fee \in Nat
  BY PayinAssumption DEF LedgerInv, TypeInv
<1>0. /\ Credited \in [Payments -> Nat] /\ Credited' \in [Payments -> Nat]
      /\ \A p \in Payments : /\ Credited[p] = IF Confirmed(p) THEN Fee ELSE 0
                             /\ Credited'[p] = IF Confirmed(p)' THEN Fee ELSE 0
  <2>1. ShowsFee
    BY ConfirmedAllShowFee
  <2>2. ShowsFee'
    BY ConfirmedAllShowFee, PTL
  <2> QED  BY <1>t, <2>1, <2>2 DEF ShowsFee, Credited
<1>1. \A p \in Payments : Confirmed(p) => Confirmed(p)'
  BY ConfirmedKept
<1>2. ASSUME NEW p \in Payments, ~Confirmed(p), Confirmed(p)'
      PROVE  Promise!Credit(p)
  <2>1. PICK h \in Handlers : SavePayment(h) /\ serving[h].pay = p
    BY <1>2, NewlyConfirmed
  <2>2. UNCHANGED charged /\ \A q \in Payments : q # p => payment'[q] = payment[q]
    BY <1>t, <2>1 DEF SavePayment, TypeOK
  <2>3. \A q \in Payments : q # p => Credited'[q] = Credited[q]
    BY <1>0, <2>2 DEF Confirmed
  <2>4. charged[p] = Fee /\ Fee > 0
    <3>1. charged[p] # 0
      BY <2>1 DEF SavePayment, LedgerInv, CreditsCharged
    <3>2. charged[p] = ChargeFor(quoted[p]) /\ checkout[p] # "idle"
      BY <3>1 DEF LedgerInv, EventsCharged
    <3> QED  BY <1>t, <3>2 DEF EntryInv, QuotesFee, ChargeFor, StripeMinimum
  <2>5. Credited[p] = 0 /\ Credited'[p] = charged[p]
    BY <1>0, <1>2, <2>4
  <2>6. Credited' = [Credited EXCEPT ![p] = charged[p]]
    BY <1>0, <2>3, <2>5
  <2> QED  BY <1>t, <2>2, <2>4, <2>5, <2>6 DEF Promise!Credit
<1>3. CASE \A p \in Payments : Confirmed(p)' <=> Confirmed(p)
  <2>1. Credited' = Credited
    BY <1>0, <1>3
  <2>2. ASSUME NEW p \in Payments, Pay(p) PROVE Promise!Charge(p)
    <3>1. ChargeFor(quoted[p]) \in Nat \ {0}
      BY <1>t DEF ChargeFor, StripeMinimum, TypeOK
    <3>2. charged' = [charged EXCEPT ![p] = ChargeFor(quoted[p])] /\ charged[p] = 0
      BY <2>2 DEF Pay
    <3>3. charged'[p] = ChargeFor(quoted[p])
      BY <1>t, <3>2 DEF TypeOK
    <3> QED  BY <2>1, <3>1, <3>2, <3>3 DEF Promise!Charge
  <2>3. CASE UNCHANGED charged
    BY <2>1, <2>3 DEF Promise!promise
  <2>4. ASSUME NEW p \in Payments, Checkout(p), ~Pay(p) PROVE UNCHANGED charged
    BY <2>4 DEF Checkout, QuoteDue, SavePending, ReturnCheckout, RefuseCheckout
  <2>5. ASSUME NEW ev \in Event, Deliver(ev) PROVE UNCHANGED charged
    BY <2>5 DEF Deliver, Dismiss, Receive, Begin
  <2>6. ASSUME NEW h \in Handlers, NEW p \in Payments, MockConfirm(h, p) PROVE UNCHANGED charged
    BY <2>6 DEF MockConfirm, Begin
  <2>7. ASSUME NEW h \in Handlers, Step(h) \/ Fail(h) PROVE UNCHANGED charged
    BY <2>7 DEF Step, SkipLine, MissLine, InsertLine, DuplicateKey, SavePayment, ReadPaidEntry, SaveEntry, Fail
  <2>8. Crash \/ UNCHANGED vars => UNCHANGED charged
    BY DEF Crash, vars
  <2> QED  BY <2>2, <2>3, <2>4, <2>5, <2>6, <2>7, <2>8 DEF Next, Promise!Next
<1> QED  BY <1>1, <1>2, <1>3 DEF Promise!Next

\* In a league whose payments all go to Stripe, and whose fee is at least Stripe's
\* minimum, every behaviour of the pay-ins, with any crashes, failures and repeated
\* events, is one of RocPayinPromise: a charge is credited whole and once, and
\* nothing is credited that was not charged.
THEOREM PayinImplementsPromise ==
  ASSUME \A p \in Payments : Live[p], Fee >= StripeMinimum
  PROVE  Spec => Promise!Init /\ [][Promise!Next]_(Promise!promise)
<1>1. Init => Promise!Init
  BY PromiseInit
<1>2. LedgerInv /\ LedgerInv' /\ EntryInv /\ EntryInv' /\ [Next]_vars => [Promise!Next]_(Promise!promise)
  BY PromiseStep
<1> QED  BY <1>1, <1>2, LedgerAlways, EntryAlways, PTL DEF Spec

-----------------------------------------------------------------------------
(* The arithmetic *)

LEMMA SplitExact == SplitIsExact
<1> SUFFICES ASSUME NEW amount \in Cents, NEW split \in Splits
             PROVE  LET parts == SplitAmount(amount, split)
                        share == NormalizeSplit(split)
                    IN  /\ parts.pf + parts.op + parts.pl = amount
                        /\ \A a \in Accounts : parts[a] >= 0
                        /\ Bps * parts.op <= amount * share.op
                        /\ Bps * parts.pl <= amount * share.pl
                        /\ Bps * parts.pf >= amount * share.pf
  BY DEF SplitIsExact
<1>1. amount \in Nat /\ split \in [Accounts -> Nat]
  BY MoneyAssumption
<1> DEFINE parts == SplitAmount(amount, split)
<1>2. (\A a \in Accounts : parts[a] \in Nat) /\ parts.pf + parts.op + parts.pl = amount
  BY <1>1, SplitIsWhole
<1>3. \A a \in Accounts : parts[a] >= 0
  <2> HIDE DEF parts
  <2> QED  BY <1>2
<1> QED  BY <1>1, <1>2, <1>3, SplitKeepsShares, Zenon

LEMMA PercentExact ==
  ASSUME NEW fund \in Nat, NEW places \in PercentPlaces
  PROVE  LET prizes == PercentOfFund(fund, places)
         IN  /\ Total(prizes, Len(prizes)) = fund
             /\ \A i \in DOMAIN prizes : prizes[i] >= 0
<1> DEFINE n == Len(places)
           prizes == PercentOfFund(fund, places)
<1>1. n \in Nat \ {0} /\ places \in [1 .. n -> Nat] /\ Total(places, n - 1) <= Bps
  BY MoneyAssumption
<1>2. fund \in Int /\ NonNegative(fund) = fund
  BY DEF NonNegative
<1> HIDE DEF n
<1>3. prizes \in [1 .. n -> Nat] /\ Total(prizes, n) = fund
  <2>1. Len(places) = n
    BY DEF n
  <2> QED  BY <1>1, <1>2, <2>1, PercentagesAreTheFund
<1> HIDE DEF prizes
<1>4. Len(prizes) = n /\ \A i \in DOMAIN prizes : prizes[i] >= 0
  BY <1>1, <1>3
<1> QED  BY <1>3, <1>4 DEF prizes

LEMMA FixedExact ==
  ASSUME NEW fund \in Nat, NEW places \in FixedPlaces, NEW policy \in {"SCALE", "HOLD"}
  PROVE  LET prizes == FixedCents(fund, places, policy)
             paid == Total(prizes, Len(prizes))
             asked == Total(places, Len(places))
         IN  /\ paid <= fund
             /\ asked > fund /\ policy = "HOLD" => paid = 0
             /\ asked > fund /\ policy = "SCALE" => fund - paid < Len(places)
<1> DEFINE n == Len(places)
           prizes == FixedCents(fund, places, policy)
<1>1. n \in Nat \ {0} /\ places \in [1 .. n -> Nat]
  BY MoneyAssumption
<1>2. fund \in Int /\ NonNegative(fund) = fund
  BY DEF NonNegative
<1>n. Len(places) = n
  OBVIOUS
<1> HIDE DEF n
<1>3. prizes \in [1 .. n -> Nat] /\ Total(prizes, n) <= fund
  <2>1. /\ prizes \in [1 .. n -> Nat]
        /\ \A i \in 1 .. n : prizes[i] <= places[i]
        /\ Total(prizes, n) <= NonNegative(fund)
    BY <1>1, <1>2, <1>n, FixedPrizesFit, Zenon
  <2> QED  BY <1>2, <2>1
<1>4. Total(places, n) > fund =>
        /\ policy = "HOLD" => Total(prizes, n) = 0
        /\ policy = "SCALE" => fund - Total(prizes, n) < n
  BY <1>1, <1>n, ShortfallOfFixed
<1> HIDE DEF prizes
<1>5. Len(prizes) = n
  BY <1>1, <1>3
<1> QED  BY <1>3, <1>4, <1>5, <1>n DEF prizes

\* For any amounts, any splits, and prize lists of any length, no cent is made or
\* lost on its way from a pay-in to the prizes: the lines add up to the pay-in,
\* prizes by percentage are the fund, and fixed prizes stay within it
\* (splitAmountUsd, computePlaceAmounts).
THEOREM CentsAlwaysKept == Spec => []CentsAreKept
<1>1. \A fund \in Cents : fund \in Nat
  BY MoneyAssumption
<1>2. PrizesExhaustFund
  BY <1>1, PercentExact, FixedExact, SessionAsGeneral DEF PrizesExhaustFund
<1>3. CentsAreKept
  BY <1>2, SplitExact DEF CentsAreKept
<1> QED  BY <1>3, PTL
=============================================================================
