-------------------------- MODULE RocPayout_proofs --------------------------
(***************************************************************************)
(* RocPayout for any number of players and of concurrent closes, any fund, *)
(* any points and any number of crashes, edits and reopenings: its types,  *)
(* what it can overdraw, that it implements RocPayoutPromise, and that     *)
(* its books agree when requests are served in turn.                       *)
(***************************************************************************)
EXTENDS RocPayout, RocMoney_proofs

-----------------------------------------------------------------------------
(* Scenes and payees *)

LEMMA SceneFields ==
  ASSUME scene \in Scenes
  PROVE  /\ Field \in SUBSET Players /\ IsFiniteSet(Field)
         /\ scene.points \in [Field -> Nat]
         /\ scene.inflow \in Nat /\ scene.lateFee \in Nat /\ scene.atOnce \in Nat
         /\ scene.verdicts \in SUBSET {"pass", "warnings", "blocked"}
         /\ scene.rail \in [Players -> {"wallet", "bank", "usdc", "usdcUnlinked"}]
<1>1. PICK entered \in SUBSET Players :
        scene \in [inflow : Nat, lateFee : Nat, points : [entered -> Nat],
              rail : [Players -> {"wallet", "bank", "usdc", "usdcUnlinked"}],
              verdicts : SUBSET {"pass", "warnings", "blocked"}, outcomes : SUBSET {"paid", "refused", "lost"},
              atOnce : 1 .. Cardinality(Handlers),
              aborts : Nat, opens : Nat, edits : Nat, audits : Nat, late : Nat, prefs : Nat]
  BY PayoutAssumption
<1>2. scene.points \in [entered -> Nat] /\ Field = entered
  BY <1>1 DEF Field
<1>3. IsFiniteSet(Field)
  BY <1>2, FS_Subset, PayoutAssumption
<1>4. scene.atOnce \in Nat
  <2>1. scene.atOnce \in 1 .. Cardinality(Handlers)
    BY <1>1
  <2> QED  BY <2>1, FS_CardinalityType, PayoutAssumption
<1> QED  BY <1>1, <1>2, <1>3, <1>4

\* Somebody in a finite set comes first.
LEMMA LeastExists ==
  ASSUME NEW D, NEW f \in [D -> Nat], NEW S \in SUBSET D, IsFiniteSet(S), S # {}
  PROVE  \E u \in S : \A v \in S : f[u] <= f[v]
<1> DEFINE Good == {T \in SUBSET S : T = {} \/ \E u \in T : \A v \in T : f[u] <= f[v]}
<1>1. \A T \in SUBSET S : (\A U \in SUBSET T : U # T => U \in Good) => T \in Good
  <2> SUFFICES ASSUME NEW T \in SUBSET S, \A U \in SUBSET T : U # T => U \in Good, T # {}
               PROVE  \E u \in T : \A v \in T : f[u] <= f[v]
    OBVIOUS
  <2>1. PICK x \in T : TRUE
    OBVIOUS
  <2>2. T \ {x} \in Good
    BY <2>1
  <2>3. \A v \in T : f[v] \in Nat
    OBVIOUS
  <2>4. CASE T \ {x} = {}
    BY <2>1, <2>3, <2>4
  <2>5. CASE T \ {x} # {}
    <3>1. PICK u \in T \ {x} : \A v \in T \ {x} : f[u] <= f[v]
      BY <2>2, <2>5
    <3>2. CASE f[u] <= f[x]
      BY <3>1, <3>2
    <3>3. CASE ~(f[u] <= f[x])
      <4>1. \A v \in T : f[x] <= f[v]
        BY <2>1, <2>3, <3>1, <3>3
      <4> QED  BY <2>1, <4>1
    <3> QED  BY <3>2, <3>3
  <2> QED  BY <2>4, <2>5
<1> HIDE DEF Good
<1>2. S \in Good
  BY <1>1, SubsetInduction
<1> QED  BY <1>2 DEF Good

\* A place that is held has a payee, who holds it.
LEMMA PayeeHolds ==
  ASSUME TypeOK, NEW h \in Handlers, AtPlace(h) # {}
  PROVE  /\ Payee(h) \in Field /\ my[h].rows[Payee(h)].place = my[h].k
         /\ KeyOf(h) \in Key /\ my[h].k \in Places /\ Payee(h) \in Players
<1>1. my[h].order \in [Field -> Nat] /\ my[h].k \in Places
  BY DEF TypeOK, Work
<1>2. AtPlace(h) \in SUBSET Field /\ IsFiniteSet(AtPlace(h)) /\ Field \in SUBSET Players
  BY SceneFields, FS_Subset DEF AtPlace, TypeOK
<1>3. \E u \in AtPlace(h) : \A v \in AtPlace(h) : my[h].order[u] <= my[h].order[v]
  BY <1>1, <1>2, LeastExists
<1>4. Payee(h) \in AtPlace(h)
  BY <1>3 DEF Payee
<1> QED  BY <1>1, <1>2, <1>4 DEF AtPlace, KeyOf, Key

-----------------------------------------------------------------------------
(* Type correctness *)

\* A request at a place pays somebody something there.
PlaceHeld == \A h \in Handlers : pc[h] \in PlaceSteps => AtPlace(h) # {} /\ Prize(h) > 0

TypeInv == TypeOK /\ PlaceHeld

LEMMA SceneFixed == [Next]_vars => scene' = scene /\ Field' = Field
<1> SUFFICES ASSUME [Next]_vars PROVE scene' = scene
  BY DEF Field
<1>1. ASSUME NEW h \in Handlers, Gate(h) PROVE scene' = scene
  BY <1>1 DEF Gate, AuditReadSession, ReadStandings, SaveStandings, AuditVerdict, Reload, Hold, Override, Lock, others
<1>2. ASSUME NEW h \in Handlers, PayPlaces(h) PROVE scene' = scene
  BY <1>2 DEF PayPlaces, ReadStandings, SaveStandings, ReadFund, SkipPlace, FindPayout, CreatePayout,
    MarkTransferring, Transfer, SaveFailed, FindDebit, PostDebit, FindWallet, PostWallet, Collide,
    ReadBalance, CreditAvailable, RecordExternalPaidOut, SavePaid, SaveWinner, CloseSession, others
<1>3. ASSUME Around PROVE scene' = scene
  BY <1>3 DEF Around, OpenRead, OpenSave, EditSave, LatePayin, PrefsSave, EditRead, PrefsRead
<1>4. ASSUME NEW h \in Handlers, NEW ack \in BOOLEAN, Close(h, ack) PROVE scene' = scene
  BY <1>4 DEF Close, others
<1>5. ASSUME NEW h \in Handlers, Audit(h) \/ Abort(h) PROVE scene' = scene
  BY <1>5 DEF Audit, Abort
<1> QED  BY <1>1, <1>2, <1>3, <1>4, <1>5 DEF Next, Step, vars

LEMMA NoWorkType == scene \in Scenes => NoWork \in Work
BY SceneFields DEF NoWork, Work, SessionRow, Row, Places, NoPayout, Payout, Balance, None

LEMMA WorkUpdates ==
  ASSUME NEW w \in Work
  PROVE  /\ \A s \in SessionRow : [w EXCEPT !.sess = s] \in Work
         /\ \A v \in {None, "pass", "warnings", "blocked"} : [w EXCEPT !.verdict = v] \in Work
         /\ \A r \in [Field -> Row], o \in [Field -> Nat] : [w EXCEPT !.order = o, !.rows = r] \in Work
         /\ \A f \in [Places -> Nat] : [w EXCEPT !.prizes = f, !.k = 1] \in Work
         /\ \A p \in Payout : [w EXCEPT !.payout = p] \in Work
         /\ \A b \in Balance : [w EXCEPT !.bal = b] \in Work
         /\ \A k \in Places : [w EXCEPT !.k = k, !.payout = NoPayout, !.bal = NoWork.bal] \in Work
<1>1. \A s \in SessionRow : [w EXCEPT !.sess = s] \in Work
  BY DEF Work
<1>2. \A v \in {None, "pass", "warnings", "blocked"} : [w EXCEPT !.verdict = v] \in Work
  BY DEF Work
<1>3. ASSUME NEW r \in [Field -> Row], NEW o \in [Field -> Nat]
      PROVE  [w EXCEPT !.order = o, !.rows = r] \in Work
  <2>1. [w EXCEPT !.order = o] \in Work
    BY DEF Work
  <2>2. \A x \in Work : [x EXCEPT !.rows = r] \in Work
    BY DEF Work
  <2> QED  BY <2>1, <2>2
<1>4. ASSUME NEW f \in [Places -> Nat] PROVE [w EXCEPT !.prizes = f, !.k = 1] \in Work
  <2>1. [w EXCEPT !.prizes = f] \in Work
    BY DEF Work
  <2>2. 1 \in Places
    BY DEF Places
  <2>3. \A x \in Work : [x EXCEPT !.k = 1] \in Work
    BY <2>2 DEF Work
  <2> QED  BY <2>1, <2>3
<1>5. \A p \in Payout : [w EXCEPT !.payout = p] \in Work
  BY DEF Work
<1>6. \A b \in Balance : [w EXCEPT !.bal = b] \in Work
  BY DEF Work
<1>7. \A k \in Places : [w EXCEPT !.k = k, !.payout = NoPayout, !.bal = NoWork.bal] \in Work
  <2>1. NoPayout \in Payout
    BY DEF NoPayout, Payout
  <2>2. NoWork.bal \in Balance
    BY DEF NoWork, Balance
  <2> HIDE DEF NoPayout, NoWork, Payout, Balance
  <2> QED  BY <2>1, <2>2 DEF Work
<1> QED  BY <1>1, <1>2, <1>3, <1>4, <1>5, <1>6, <1>7

\* A request that enters a place only by looking up its payout has a payee there.
LEMMA PlaceKept ==
  ASSUME TypeInv, scene' = scene,
         \A g \in Handlers : pc'[g] \in PlaceSteps =>
           /\ pc[g] \in PlaceSteps
           /\ my'[g].rows = my[g].rows /\ my'[g].k = my[g].k /\ my'[g].prizes = my[g].prizes
  PROVE  PlaceHeld'
BY DEF TypeInv, PlaceHeld, AtPlace, Prize, Field

Steps == AuditSteps \cup PlaceSteps \cup {"idle", "find", "close"}

\* A step of one request leaves the others where they are.
LEMMA StepsElsewhere ==
  ASSUME TypeInv, scene' = scene, NEW h \in Handlers, NEW step \in Steps \ PlaceSteps, Goto(h, step),
         \A g \in Handlers \ {h} : my'[g] = my[g]
  PROVE  pc' \in [Handlers -> Steps] /\ PlaceHeld'
<1>1. pc' = [pc EXCEPT ![h] = step] /\ pc \in [Handlers -> Steps]
  BY DEF Goto, TypeInv, TypeOK, Steps
<1>2. \A g \in Handlers : pc'[g] \in PlaceSteps => g # h /\ pc[g] \in PlaceSteps
  BY <1>1
<1> QED  BY <1>1, <1>2, PlaceKept

LEMMA EndType ==
  ASSUME TypeInv, scene' = scene, NEW h \in Handlers, End(h)
  PROVE  pc' \in [Handlers -> Steps] /\ my' \in [Handlers -> Work] /\ PlaceHeld'
<1>1. Goto(h, "idle") /\ my' = [my EXCEPT ![h] = NoWork] /\ my \in [Handlers -> Work] /\ NoWork \in Work
  BY NoWorkType DEF End, TypeInv, TypeOK
<1> HIDE DEF NoWork
<1>2. "idle" \in Steps \ PlaceSteps
  BY DEF Steps, PlaceSteps
<1>3. \A g \in Handlers \ {h} : my'[g] = my[g]
  BY <1>1
<1> QED  BY <1>1, <1>2, <1>3, StepsElsewhere

\* The type of what a request holds is what it was and what it read.
LEMMA WorkTypes ==
  ASSUME TypeInv, NEW h \in Handlers
  PROVE  /\ my \in [Handlers -> Work] /\ my[h] \in Work /\ pc \in [Handlers -> Steps]
         /\ my[h].sess \in SessionRow /\ my[h].rows \in [Field -> Row] /\ my[h].order \in [Field -> Nat]
         /\ my[h].prizes \in [Places -> Nat] /\ my[h].k \in Places
         /\ my[h].payout \in Payout /\ my[h].bal \in Balance
<1>1. my \in [Handlers -> Work] /\ pc \in [Handlers -> Steps]
  BY DEF TypeInv, TypeOK, Steps
<1> QED  BY <1>1 DEF Work

LEMMA ReadStandingsType ==
  ASSUME TypeInv, NEW h \in Handlers, NEW from, NEW to \in Steps \ PlaceSteps, ReadStandings(h, from, to)
  PROVE  TypeInv'
<1>1. scene' = scene /\ Field' = Field
  BY DEF ReadStandings, others, Field
<1>2. PICK order \in Orders(standing) :
        my' = [my EXCEPT ![h] = [my[h] EXCEPT !.order = order, !.rows = FillPlaces(standing, order)]]
  BY DEF ReadStandings
<1>3. order \in [Field -> 1 .. Cardinality(Field)] /\ order \in [Field -> Nat]
  BY DEF Orders
<1>4. FillPlaces(standing, order) \in [Field -> Row]
  BY <1>3 DEF FillPlaces, TypeInv, TypeOK, Row
<1>5. [my[h] EXCEPT !.order = order, !.rows = FillPlaces(standing, order)] \in Work
  BY <1>3, <1>4, WorkTypes, WorkUpdates
<1>6. my' \in [Handlers -> Work] /\ \A g \in Handlers \ {h} : my'[g] = my[g]
  BY <1>2, <1>5, WorkTypes
<1>7. pc' \in [Handlers -> Steps] /\ PlaceHeld'
  BY <1>1, <1>6, StepsElsewhere DEF ReadStandings
<1> QED  BY <1>1, <1>6, <1>7 DEF ReadStandings, TypeInv, TypeOK, Work, Steps, money, others

LEMMA SaveStandingsType ==
  ASSUME TypeInv, NEW h \in Handlers, NEW from, NEW to \in Steps \ PlaceSteps, SaveStandings(h, from, to)
  PROVE  TypeInv'
<1>1. scene' = scene /\ Field' = Field /\ UNCHANGED my /\ standing' \in [Field -> Row]
  BY WorkTypes DEF SaveStandings, others, Field
<1>2. pc' \in [Handlers -> Steps] /\ PlaceHeld'
  BY <1>1, StepsElsewhere DEF SaveStandings
<1> QED  BY <1>1, <1>2 DEF SaveStandings, TypeInv, TypeOK, Work, Steps, money, others

\* A request that goes on, outside the places, with its session row replaced.
LEMMA SessionStepType ==
  ASSUME TypeInv, NEW h \in Handlers, NEW step \in Steps \ PlaceSteps, Goto(h, step),
         NEW w \in Work, my' = [my EXCEPT ![h] = w], session' \in SessionRow,
         UNCHANGED <<scene, standing, money, inflow, opening, editing, prefs>>,
         count' \in [aborts : Nat, opens : Nat, edits : Nat, audits : Nat, late : Nat, prefs : Nat]
  PROVE  TypeInv'
<1>1. my' \in [Handlers -> Work] /\ \A g \in Handlers \ {h} : my'[g] = my[g]
  BY WorkTypes
<1>2. pc' \in [Handlers -> Steps] /\ PlaceHeld'
  BY <1>1, StepsElsewhere
<1>3. Field' = Field
  BY DEF Field
<1> QED  BY <1>1, <1>2, <1>3 DEF TypeInv, TypeOK, Work, Steps, money

LEMMA SessionUpdates ==
  ASSUME NEW r \in SessionRow
  PROVE  /\ \A v \in {None, "pass", "warnings", "blocked"} :
              [r EXCEPT !.audit = v, !.override = FALSE] \in SessionRow
         /\ \A x \in {"REGISTRATION", "AUDIT_HOLD", "PAYING_OUT", "CLOSED"} :
              [r EXCEPT !.status = x] \in SessionRow
         /\ [r EXCEPT !.override = TRUE] \in SessionRow
BY DEF SessionRow

LEMMA RequestType ==
  ASSUME TypeInv, NEW h \in Handlers, (\E ack \in BOOLEAN : Close(h, ack)) \/ Audit(h) \/ Abort(h)
  PROVE  TypeInv'
<1> USE DEF others
<1>0. /\ NoWork \in Work /\ session \in SessionRow
      /\ count \in [aborts : Nat, opens : Nat, edits : Nat, audits : Nat, late : Nat, prefs : Nat]
  BY NoWorkType DEF TypeInv, TypeOK
<1>s. "audit" \in Steps \ PlaceSteps /\ "idle" \in Steps \ PlaceSteps
  BY DEF Steps, AuditSteps, PlaceSteps
<1>1. ASSUME NEW ack \in BOOLEAN, Close(h, ack) PROVE TypeInv'
  <2> DEFINE w == [NoWork EXCEPT !.kind = "close", !.ack = ack]
  <2>1. w \in Work
    BY <1>0 DEF Work
  <2>2. my' = [my EXCEPT ![h] = w] /\ Goto(h, "audit")
    BY <1>1 DEF Close
  <2> HIDE DEF w
  <2> QED  BY <1>0, <1>1, <1>s, <2>1, <2>2, SessionStepType DEF Close
<1>2. CASE Audit(h)
  <2> DEFINE w == [NoWork EXCEPT !.kind = "audit"]
  <2>1. w \in Work
    BY <1>0 DEF Work
  <2>2. my' = [my EXCEPT ![h] = w] /\ Goto(h, "audit")
    BY <1>2 DEF Audit
  <2>3. count' \in [aborts : Nat, opens : Nat, edits : Nat, audits : Nat, late : Nat, prefs : Nat]
    BY <1>0, <1>2 DEF Audit
  <2> HIDE DEF w
  <2> QED  BY <1>0, <1>2, <1>s, <2>1, <2>2, <2>3, SessionStepType DEF Audit
<1>3. CASE Abort(h)
  <2>3. count' \in [aborts : Nat, opens : Nat, edits : Nat, audits : Nat, late : Nat, prefs : Nat]
    BY <1>0, <1>3 DEF Abort
  <2> QED  BY <1>0, <1>3, <1>s, <2>3, SessionStepType DEF Abort, End
<1> QED  BY <1>1, <1>2, <1>3

LEMMA GateType ==
  ASSUME TypeInv, NEW h \in Handlers, Gate(h)
  PROVE  TypeInv'
<1> USE DEF others
<1>0. /\ NoWork \in Work /\ session \in SessionRow /\ my[h].sess \in SessionRow /\ my[h] \in Work
      /\ count \in [aborts : Nat, opens : Nat, edits : Nat, audits : Nat, late : Nat, prefs : Nat]
  BY NoWorkType, WorkTypes DEF TypeInv, TypeOK
<1>s. /\ AuditSteps \subseteq Steps \ PlaceSteps
      /\ "idle" \in Steps \ PlaceSteps
  BY DEF Steps, AuditSteps, PlaceSteps
<1>1. CASE AuditReadSession(h)
  <2>1. [my[h] EXCEPT !.sess = session] \in Work
    BY <1>0, WorkUpdates
  <2> QED  BY <1>0, <1>1, <1>s, <2>1, SessionStepType DEF AuditReadSession, AuditSteps
<1>2. CASE ReadStandings(h, "auditRead", "auditSave")
  BY <1>2, <1>s, ReadStandingsType DEF AuditSteps
<1>3. CASE SaveStandings(h, "auditSave", "auditVerdict")
  BY <1>3, <1>s, SaveStandingsType DEF AuditSteps
<1>4. CASE AuditVerdict(h)
  <2>1. PICK verdict \in scene.verdicts :
          /\ session' = [my[h].sess EXCEPT !.audit = verdict, !.override = FALSE]
          /\ IF my[h].kind = "audit" THEN End(h)
             ELSE Goto(h, "reload") /\ my' = [my EXCEPT ![h] = [my[h] EXCEPT !.verdict = verdict]]
    BY <1>4 DEF AuditVerdict
  <2>2. verdict \in {None, "pass", "warnings", "blocked"}
    BY SceneFields DEF TypeInv, TypeOK
  <2>3. session' \in SessionRow /\ [my[h] EXCEPT !.verdict = verdict] \in Work
    BY <1>0, <2>1, <2>2, SessionUpdates, WorkUpdates
  <2> QED  BY <1>0, <1>4, <1>s, <2>1, <2>3, SessionStepType DEF AuditVerdict, End, AuditSteps
<1>5. CASE Reload(h)
  <2>1. [my[h] EXCEPT !.sess = session] \in Work
    BY <1>0, WorkUpdates
  <2>2. PICK step \in AuditSteps : Goto(h, step)
    BY <1>5 DEF Reload, AuditSteps
  <2> QED  BY <1>0, <1>5, <1>s, <2>1, <2>2, SessionStepType DEF Reload
<1>6. CASE Hold(h)
  BY <1>0, <1>6, <1>s, SessionUpdates, SessionStepType DEF Hold, End
<1>7. CASE Override(h)
  <2>1. my' = [my EXCEPT ![h] = [my[h] EXCEPT !.sess = [my[h].sess EXCEPT !.override = TRUE]]]
    BY <1>7 DEF Override
  <2>2. [my[h] EXCEPT !.sess = [my[h].sess EXCEPT !.override = TRUE]] \in Work
    BY <1>0, SessionUpdates, WorkUpdates
  <2>3. session' = [my[h].sess EXCEPT !.override = TRUE]
    <3>1. my'[h] = [my[h] EXCEPT !.sess = [my[h].sess EXCEPT !.override = TRUE]]
      BY <2>1, WorkTypes
    <3>2. my'[h].sess = [my[h].sess EXCEPT !.override = TRUE]
      BY <1>0, <3>1 DEF Work
    <3> QED  BY <1>7, <3>2 DEF Override
  <2> QED  BY <1>0, <1>7, <1>s, <2>1, <2>2, <2>3, SessionUpdates, SessionStepType DEF Override, AuditSteps
<1>8. CASE Lock(h)
  <2>1. my' = [my EXCEPT ![h] = [my[h] EXCEPT !.sess = [my[h].sess EXCEPT !.status = "PAYING_OUT"]]]
    BY <1>8 DEF Lock
  <2>2. [my[h] EXCEPT !.sess = [my[h].sess EXCEPT !.status = "PAYING_OUT"]] \in Work
    BY <1>0, SessionUpdates, WorkUpdates
  <2>3. session' = [my[h].sess EXCEPT !.status = "PAYING_OUT"]
    BY <1>0, <1>8, <2>1, WorkTypes DEF Lock, Work
  <2> QED  BY <1>0, <1>8, <1>s, <2>1, <2>2, <2>3, SessionUpdates, SessionStepType DEF Lock, AuditSteps
<1> QED  BY <1>1, <1>2, <1>3, <1>4, <1>5, <1>6, <1>7, <1>8 DEF Gate

LEMMA AroundType ==
  ASSUME TypeInv, Around
  PROVE  TypeInv'
<1> USE DEF TypeInv, TypeOK
<1>0. Field' = Field /\ Work' = Work /\ UNCHANGED <<scene, pc, my>>
  BY DEF Around, OpenRead, OpenSave, EditSave, LatePayin, PrefsSave, EditRead, PrefsRead, Field, Work
<1>p. PlaceHeld'
  BY <1>0, PlaceKept
<1>c. ASSUME NEW c \in [aborts : Nat, opens : Nat, edits : Nat, audits : Nat, late : Nat, prefs : Nat]
      PROVE  /\ [c EXCEPT !.opens = @ + 1] \in [aborts : Nat, opens : Nat, edits : Nat, audits : Nat, late : Nat, prefs : Nat]
             /\ [c EXCEPT !.edits = @ + 1] \in [aborts : Nat, opens : Nat, edits : Nat, audits : Nat, late : Nat, prefs : Nat]
             /\ [c EXCEPT !.late = @ + 1] \in [aborts : Nat, opens : Nat, edits : Nat, audits : Nat, late : Nat, prefs : Nat]
             /\ [c EXCEPT !.prefs = @ + 1] \in [aborts : Nat, opens : Nat, edits : Nat, audits : Nat, late : Nat, prefs : Nat]
  OBVIOUS
<1>1. CASE OpenRead
  BY <1>0, <1>p, <1>1, <1>c DEF OpenRead, money
<1>2. CASE OpenSave
  BY <1>0, <1>p, <1>2, SessionUpdates DEF OpenSave, money
<1>3. CASE EditSave
  <2>1. PICK e \in editing, place \in Places :
          standing' = [standing EXCEPT ![e[1]] = [e[2] EXCEPT !.place = place]] /\ editing' = editing \ {e}
    BY <1>3 DEF EditSave
  <2>2. e[1] \in Field /\ e[2] \in Row
    OBVIOUS
  <2>3. [e[2] EXCEPT !.place = place] \in Row
    BY <2>2 DEF Row, Places
  <2> QED  BY <1>0, <1>p, <1>3, <2>1, <2>3 DEF EditSave, money
<1>4. CASE LatePayin
  <2>1. inflow' \in Nat
    BY <1>4, SceneFields DEF LatePayin
  <2>2. count' \in [aborts : Nat, opens : Nat, edits : Nat, audits : Nat, late : Nat, prefs : Nat]
    BY <1>4, <1>c DEF LatePayin
  <2> QED  BY <1>0, <1>p, <1>4, <2>1, <2>2 DEF LatePayin, money
<1>5. CASE PrefsSave
  <2>1. PICK q \in prefs : balance' = [balance EXCEPT ![q[1]] = q[2]] /\ prefs' = prefs \ {q}
    BY <1>5 DEF PrefsSave
  <2>2. balance' \in [Players -> Balance] /\ prefs' \subseteq Players \X Balance
    BY <2>1
  <2> QED  BY <1>0, <1>p, <1>5, <2>2 DEF PrefsSave
<1>6. ASSUME NEW u \in Field, EditRead(u) PROVE TypeInv'
  <2>1. editing' \subseteq Field \X Row
    BY <1>6 DEF EditRead
  <2>2. count' \in [aborts : Nat, opens : Nat, edits : Nat, audits : Nat, late : Nat, prefs : Nat]
    BY <1>6, <1>c DEF EditRead
  <2> QED  BY <1>0, <1>p, <1>6, <2>1, <2>2 DEF EditRead, money
<1>7. ASSUME NEW u \in Field, PrefsRead(u) PROVE TypeInv'
  <2>1. prefs' \subseteq Players \X Balance
    BY <1>7, SceneFields DEF PrefsRead
  <2>2. count' \in [aborts : Nat, opens : Nat, edits : Nat, audits : Nat, late : Nat, prefs : Nat]
    BY <1>7, <1>c DEF PrefsRead
  <2> QED  BY <1>0, <1>p, <1>7, <2>1, <2>2 DEF PrefsRead, money
<1> QED  BY <1>1, <1>2, <1>3, <1>4, <1>5, <1>6, <1>7 DEF Around

\* The places of the players are finitely many.
LEMMA KeyFinite == IsFiniteSet(Key) /\ IsFiniteSet(Places) /\ Places = {1, 2, 3}
<1>1. IsFiniteSet(Places) /\ Places = {1, 2, 3}
  <2>1. 1 \in Int /\ 3 \in Int
    OBVIOUS
  <2>2. IsFiniteSet(1 .. 3)
    BY <2>1, FS_Interval
  <2> QED  BY <2>2 DEF Places
<1>2. IsFiniteSet(Key)
  BY <1>1, FS_Product, PayoutAssumption DEF Key
<1> QED  BY <1>1, <1>2

\* The fund is cut into prizes of no less than nothing.
LEMMA FundType ==
  ASSUME TypeInv
  PROVE  /\ TotalOf(debit) \in Nat /\ SessionFund \in Nat
         /\ SessionPrizes(SessionFund) \in [Places -> Nat]
<1>1. TotalOf(debit) \in Nat
  <2>1. IsFiniteSet(Key) /\ DOMAIN debit = Key /\ debit \in [Key -> Nat] /\ Key \in SUBSET Key
    BY KeyFinite DEF TypeInv, TypeOK
  <2> QED  BY <2>1, SumNat DEF TotalOf
<1>2. SessionFund \in Nat
  BY <1>1 DEF SessionFund, NonNegative, TypeInv, TypeOK
<1>3. \A k \in 1 .. 3 : SessionPrizes(SessionFund)[k] \in Nat
  BY <1>2, PrizesAreTheFund
<1>4. \A a, b, c : <<a, b, c>> \in [1 .. 3 -> {a, b, c}]
  OBVIOUS
<1>5. \E a, b, c : SessionPrizes(SessionFund) = <<a, b, c>>
  BY DEF SessionPrizes
<1>6. PICK S : SessionPrizes(SessionFund) \in [1 .. 3 -> S]
  <2>1. PICK a, b, c : SessionPrizes(SessionFund) = <<a, b, c>>
    BY <1>5
  <2>2. SessionPrizes(SessionFund) \in [1 .. 3 -> {a, b, c}]
    BY <1>4, <2>1
  <2> QED  BY <2>2
<1>7. SessionPrizes(SessionFund) \in [1 .. 3 -> Nat]
  <2> DEFINE p == SessionPrizes(SessionFund)
  <2>1. p \in [1 .. 3 -> S] /\ \A k \in 1 .. 3 : p[k] \in Nat
    BY <1>3, <1>6
  <2> HIDE DEF p
  <2>2. p = [k \in 1 .. 3 |-> p[k]]
    BY <2>1
  <2>3. [k \in 1 .. 3 |-> p[k]] \in [1 .. 3 -> Nat]
    BY <2>1
  <2>4. p \in [1 .. 3 -> Nat]
    BY <2>2, <2>3
  <2> QED  BY <2>4 DEF p
<1> HIDE DEF SessionFund
<1> QED  BY <1>1, <1>2, <1>7 DEF Places

\* At a place, a request keeps what it pays there.
LEMMA LoopStepType ==
  ASSUME TypeInv, scene' = scene, NEW h \in Handlers, NEW step \in Steps, Goto(h, step),
         step \in PlaceSteps => AtPlace(h) # {} /\ Prize(h) > 0,
         NEW w \in Work, my' = [my EXCEPT ![h] = w],
         w.rows = my[h].rows, w.k = my[h].k, w.prizes = my[h].prizes
  PROVE  Field' = Field /\ pc' \in [Handlers -> Steps] /\ my' \in [Handlers -> Work] /\ PlaceHeld'
<1>1. /\ pc' = [pc EXCEPT ![h] = step] /\ pc \in [Handlers -> Steps] /\ pc' \in [Handlers -> Steps]
      /\ my' \in [Handlers -> Work] /\ my \in [Handlers -> Work] /\ my'[h] = w
  BY WorkTypes DEF Goto
<1>2. Field' = Field
  BY DEF Field
<1>3. ASSUME NEW g \in Handlers, pc'[g] \in PlaceSteps
      PROVE  /\ my[g].rows = my'[g].rows /\ my[g].k = my'[g].k /\ my[g].prizes = my'[g].prizes
             /\ AtPlace(g) # {} /\ Prize(g) > 0
  <2>1. CASE g = h
    BY <1>1, <1>3, <2>1
  <2>2. CASE g # h
    BY <1>1, <1>3, <2>2 DEF TypeInv, PlaceHeld
  <2> QED  BY <2>1, <2>2
<1>4. PlaceHeld'
  BY <1>2, <1>3 DEF PlaceHeld, AtPlace, Prize
<1> QED  BY <1>1, <1>2, <1>4

\* The same when it changes nothing it holds.
LEMMA LoopGotoType ==
  ASSUME TypeInv, scene' = scene, NEW h \in Handlers, NEW step \in Steps, Goto(h, step),
         pc[h] \in PlaceSteps, UNCHANGED my
  PROVE  Field' = Field /\ pc' \in [Handlers -> Steps] /\ my' \in [Handlers -> Work] /\ PlaceHeld'
<1>1. my' = [my EXCEPT ![h] = my[h]] /\ my[h] \in Work
  BY WorkTypes
<1>2. AtPlace(h) # {} /\ Prize(h) > 0
  BY DEF TypeInv, PlaceHeld
<1> QED  BY <1>1, <1>2, LoopStepType

\* Going on to the next place.
LEMMA NextPlaceType ==
  ASSUME TypeInv, scene' = scene, NEW h \in Handlers, NextPlace(h)
  PROVE  Field' = Field /\ pc' \in [Handlers -> Steps] /\ my' \in [Handlers -> Work] /\ PlaceHeld'
<1> DEFINE next == IF my[h].k = 3 THEN 3 ELSE my[h].k + 1
           w == [my[h] EXCEPT !.k = next, !.payout = NoPayout, !.bal = NoWork.bal]
<1>1. next \in Places
  BY WorkTypes DEF Places
<1>2. w \in Work
  BY <1>1, WorkTypes, WorkUpdates
<1>3. my' = [my EXCEPT ![h] = w]
  <2>1. my[h] = my[h] /\ my \in [Handlers -> Work]
    BY WorkTypes
  <2> QED  BY <2>1 DEF NextPlace
<1>4. PICK step \in Steps \ PlaceSteps : Goto(h, step)
  BY DEF NextPlace, Steps, PlaceSteps
<1> HIDE DEF w
<1>5. my' \in [Handlers -> Work] /\ \A g \in Handlers \ {h} : my'[g] = my[g]
  BY <1>2, <1>3, WorkTypes
<1> QED  BY <1>4, <1>5, StepsElsewhere DEF Field

\* Money that is written for a payee has the type of money.
LEMMA MoneyType ==
  ASSUME TypeInv, NEW h \in Handlers, pc[h] \in PlaceSteps
  PROVE  /\ KeyOf(h) \in Key /\ Payee(h) \in Players /\ Payee(h) \in Field
         /\ Prize(h) \in Nat /\ Prize(h) > 0 /\ AtPlace(h) # {}
         /\ \A x \in Payout : [payout EXCEPT ![KeyOf(h)] = x] \in [Key -> Payout]
         /\ \A n \in Nat : /\ [debit EXCEPT ![KeyOf(h)] = n] \in [Key -> Nat]
                           /\ [wallet EXCEPT ![KeyOf(h)] = n] \in [Key -> Nat]
                           /\ [moved EXCEPT ![KeyOf(h)] = n] \in [Key -> Nat]
<1>1. AtPlace(h) # {} /\ Prize(h) > 0
  BY DEF TypeInv, PlaceHeld
<1>2. KeyOf(h) \in Key /\ Payee(h) \in Players /\ Payee(h) \in Field
  BY <1>1, PayeeHolds DEF TypeInv
<1>3. Prize(h) \in Nat
  BY WorkTypes DEF Prize
<1> QED  BY <1>1, <1>2, <1>3 DEF TypeInv, TypeOK

LEMMA PayoutRowType ==
  ASSUME TypeInv, NEW h \in Handlers
  PROVE  /\ \A status \in {"finalized", "transferring", "failed", "paid"} :
              [my[h].payout EXCEPT !.status = status] \in Payout
         /\ AtPlace(h) # {} => payout[KeyOf(h)] \in Payout
         /\ NoPayout \in Payout
<1>1. \A x \in Payout, status \in {"finalized", "transferring", "failed", "paid"} :
        [x EXCEPT !.status = status] \in Payout
  BY DEF Payout
<1>2. NoPayout \in Payout
  BY DEF NoPayout, Payout
<1>3. AtPlace(h) # {} => payout[KeyOf(h)] \in Payout
  BY PayeeHolds DEF TypeInv, TypeOK
<1> QED  BY <1>1, <1>2, <1>3, WorkTypes

\* Looking up and saving the payout row, and the transfer.
LEMMA PayoutStepType ==
  ASSUME TypeInv, NEW h \in Handlers,
         \/ ReadFund(h) \/ SkipPlace(h) \/ FindPayout(h) \/ CreatePayout(h) \/ MarkTransferring(h)
         \/ Transfer(h) \/ SaveFailed(h) \/ SavePaid(h)
  PROVE  TypeInv'
<1> USE DEF others
<1>s. PlaceSteps \subseteq Steps /\ {"find", "close", "idle"} \subseteq Steps \ PlaceSteps
  BY DEF Steps, PlaceSteps
<1>f. scene' = scene => Field' = Field /\ Work' = Work
  BY DEF Field, Work
<1>1. CASE ReadFund(h)
  <2> DEFINE w == [my[h] EXCEPT !.prizes = SessionPrizes(SessionFund), !.k = 1]
  <2>1. w \in Work
    BY FundType, WorkTypes, WorkUpdates
  <2>2. my' = [my EXCEPT ![h] = w] /\ Goto(h, "find") /\ scene' = scene
    BY <1>1 DEF ReadFund
  <2> HIDE DEF w
  <2>3. my' \in [Handlers -> Work] /\ \A g \in Handlers \ {h} : my'[g] = my[g]
    BY <2>1, <2>2, WorkTypes
  <2>4. pc' \in [Handlers -> Steps] /\ PlaceHeld'
    BY <1>s, <2>2, <2>3, StepsElsewhere
  <2> QED  BY <1>1, <1>f, <2>2, <2>3, <2>4 DEF ReadFund, TypeInv, TypeOK, Steps, money
<1>2. CASE SkipPlace(h)
  <2>1. scene' = scene /\ NextPlace(h)
    BY <1>2 DEF SkipPlace
  <2> QED  BY <1>2, <1>f, <2>1, NextPlaceType DEF SkipPlace, TypeInv, TypeOK, Steps, money
<1>3. CASE FindPayout(h)
  <2> DEFINE w == [my[h] EXCEPT !.payout = payout[KeyOf(h)]]
  <2>1. AtPlace(h) # {} /\ Prize(h) > 0 /\ scene' = scene /\ my' = [my EXCEPT ![h] = w]
    BY <1>3 DEF FindPayout, Unpaid
  <2>2. w \in Work
    BY <2>1, PayoutRowType, WorkTypes, WorkUpdates
  <2>3. w.rows = my[h].rows /\ w.k = my[h].k /\ w.prizes = my[h].prizes
    BY WorkTypes DEF Work
  <2> HIDE DEF w
  <2>4. PICK step \in Steps : Goto(h, step)
    BY <1>3, <1>s DEF FindPayout, PlaceSteps
  <2>5. Field' = Field /\ pc' \in [Handlers -> Steps] /\ my' \in [Handlers -> Work] /\ PlaceHeld'
    BY <2>1, <2>2, <2>3, <2>4, LoopStepType
  <2> QED  BY <1>3, <1>f, <2>1, <2>5 DEF FindPayout, TypeInv, TypeOK, Steps, money
<1>4. CASE CreatePayout(h)
  <2> DEFINE row == [status |-> "finalized", gross |-> Prize(h)]
             w == [my[h] EXCEPT !.payout = row]
  <2>1. pc[h] \in PlaceSteps /\ scene' = scene /\ my' = [my EXCEPT ![h] = w] /\ Goto(h, "mark")
    BY <1>4 DEF CreatePayout, PlaceSteps
  <2>2. AtPlace(h) # {} /\ Prize(h) > 0 /\ row \in Payout
    BY <2>1, MoneyType DEF Payout
  <2> HIDE DEF row
  <2>3. w \in Work /\ w.rows = my[h].rows /\ w.k = my[h].k /\ w.prizes = my[h].prizes /\ w.payout = row
    <3>1. w \in Work
      BY <2>2, WorkTypes, WorkUpdates
    <3>2. w.rows = my[h].rows /\ w.k = my[h].k /\ w.prizes = my[h].prizes /\ w.payout = row
      BY WorkTypes DEF Work
    <3> QED  BY <3>1, <3>2
  <2> HIDE DEF w
  <2>4. "mark" \in Steps
    BY <1>s DEF PlaceSteps
  <2>5. Field' = Field /\ pc' \in [Handlers -> Steps] /\ my' \in [Handlers -> Work] /\ PlaceHeld'
    BY <2>1, <2>2, <2>3, <2>4, LoopStepType
  <2>6. my'[h].payout = row
    BY <2>1, <2>3, WorkTypes
  <2>7. payout' \in [Key -> Payout]
    BY <1>4, <2>1, <2>2, <2>6, MoneyType DEF CreatePayout
  <2> QED  BY <1>4, <1>f, <2>1, <2>5, <2>7 DEF CreatePayout, TypeInv, TypeOK, Steps
<1>5. CASE MarkTransferring(h)
  <2>1. pc[h] \in PlaceSteps /\ scene' = scene /\ UNCHANGED my /\ Goto(h, "transfer")
    BY <1>5 DEF MarkTransferring, PlaceSteps
  <2>2. "transfer" \in Steps
    BY <1>s DEF PlaceSteps
  <2>3. Field' = Field /\ pc' \in [Handlers -> Steps] /\ my' \in [Handlers -> Work] /\ PlaceHeld'
    BY <2>1, <2>2, LoopGotoType
  <2>4. payout' \in [Key -> Payout]
    BY <1>5, <2>1, MoneyType, PayoutRowType DEF MarkTransferring, SavePayoutAs
  <2> QED  BY <1>5, <1>f, <2>1, <2>3, <2>4 DEF MarkTransferring, TypeInv, TypeOK, Steps
<1>6. CASE Transfer(h)
  <2>1. pc[h] \in PlaceSteps /\ scene' = scene /\ UNCHANGED my
    BY <1>6 DEF Transfer, PlaceSteps
  <2>2. PICK step \in {"debitFind", "failed"} : Goto(h, step)
    BY <1>6 DEF Transfer, AfterTransfer
  <2>3. step \in Steps
    BY <1>s DEF PlaceSteps
  <2>4. Field' = Field /\ pc' \in [Handlers -> Steps] /\ my' \in [Handlers -> Work] /\ PlaceHeld'
    BY <2>1, <2>2, <2>3, LoopGotoType
  <2>5. moved' \in [Key -> Nat]
    BY <1>6, <2>1, MoneyType DEF Transfer, TypeInv, TypeOK
  <2> QED  BY <1>6, <1>f, <2>1, <2>4, <2>5 DEF Transfer, TypeInv, TypeOK, Steps
<1>7. CASE SaveFailed(h)
  <2>1. pc[h] \in PlaceSteps /\ scene' = scene /\ NextPlace(h)
    BY <1>7 DEF SaveFailed, PlaceSteps
  <2>2. payout' \in [Key -> Payout]
    BY <1>7, <2>1, MoneyType, PayoutRowType DEF SaveFailed, SavePayoutAs
  <2> QED  BY <1>7, <1>f, <2>1, <2>2, NextPlaceType DEF SaveFailed, TypeInv, TypeOK, Steps
<1>8. CASE SavePaid(h)
  <2>1. pc[h] \in PlaceSteps /\ scene' = scene /\ UNCHANGED my /\ Goto(h, "standing")
    BY <1>8 DEF SavePaid, PlaceSteps
  <2>2. "standing" \in Steps
    BY <1>s DEF PlaceSteps
  <2>3. Field' = Field /\ pc' \in [Handlers -> Steps] /\ my' \in [Handlers -> Work] /\ PlaceHeld'
    BY <2>1, <2>2, LoopGotoType
  <2>4. payout' \in [Key -> Payout]
    BY <1>8, <2>1, MoneyType, PayoutRowType DEF SavePaid, SavePayoutAs
  <2> QED  BY <1>8, <1>f, <2>1, <2>3, <2>4 DEF SavePaid, TypeInv, TypeOK, Steps
<1> QED  BY <1>1, <1>2, <1>3, <1>4, <1>5, <1>6, <1>7, <1>8

LEMMA BalanceUpdates ==
  ASSUME NEW b \in Balance, NEW p \in Nat
  PROVE  /\ [b EXCEPT !.available = @ + p, !.earned = @ + p] \in Balance
         /\ [b EXCEPT !.available = NonNegative(@ - p), !.paidOut = @ + p] \in Balance
<1>1. /\ b.available + p \in Nat /\ b.earned + p \in Nat /\ b.paidOut + p \in Nat
      /\ NonNegative(b.available - p) \in Nat
  BY DEF Balance, NonNegative
<1>2. \A m, n \in Nat : /\ [b EXCEPT !.available = m, !.earned = n] \in Balance
                        /\ [b EXCEPT !.available = m, !.paidOut = n] \in Balance
  BY DEF Balance
<1> QED  BY <1>1, <1>2

\* Posting the lines and saving the balance, the standing and the session.
LEMMA LedgerStepType ==
  ASSUME TypeInv, NEW h \in Handlers,
         \/ FindDebit(h) \/ PostDebit(h) \/ FindWallet(h) \/ PostWallet(h) \/ Collide(h)
         \/ ReadBalance(h, "creditRead", "credit") \/ CreditAvailable(h)
         \/ ReadBalance(h, "outRead", "out") \/ RecordExternalPaidOut(h)
         \/ SaveWinner(h) \/ CloseSession(h)
  PROVE  TypeInv'
<1> USE DEF others
<1>s. PlaceSteps \subseteq Steps /\ {"find", "close", "idle"} \subseteq Steps \ PlaceSteps
  BY DEF Steps, PlaceSteps
<1>f. scene' = scene => Field' = Field /\ Work' = Work
  BY DEF Field, Work
\* What the steps that only move on have in common.
<1>g. ASSUME scene' = scene, UNCHANGED my, pc[h] \in PlaceSteps, NEW step \in PlaceSteps, Goto(h, step)
      PROVE  Field' = Field /\ pc' \in [Handlers -> Steps] /\ my' \in [Handlers -> Work] /\ PlaceHeld'
  BY <1>g, <1>s, LoopGotoType
<1>1. CASE FindDebit(h) \/ FindWallet(h)
  <2>1. pc[h] \in PlaceSteps /\ scene' = scene /\ UNCHANGED my
    BY <1>1 DEF FindDebit, FindWallet, PlaceSteps
  <2>2. PICK step \in PlaceSteps : Goto(h, step)
    BY <1>1 DEF FindDebit, FindWallet, PlaceSteps
  <2> QED  BY <1>1, <1>f, <1>g, <2>1, <2>2 DEF FindDebit, FindWallet, TypeInv, TypeOK, Steps, money
<1>2. CASE PostDebit(h)
  <2>1. pc[h] \in PlaceSteps /\ scene' = scene /\ UNCHANGED my /\ Goto(h, "walletFind")
    BY <1>2 DEF PostDebit, PlaceSteps
  <2>2. debit' \in [Key -> Nat]
    BY <1>2, <2>1, MoneyType DEF PostDebit
  <2> QED  BY <1>2, <1>f, <1>g, <2>1, <2>2 DEF PostDebit, TypeInv, TypeOK, Steps, PlaceSteps
<1>3. CASE PostWallet(h)
  <2>1. pc[h] \in PlaceSteps /\ scene' = scene /\ UNCHANGED my /\ Goto(h, "creditRead")
    BY <1>3 DEF PostWallet, PlaceSteps
  <2>2. wallet' \in [Key -> Nat]
    BY <1>3, <2>1, MoneyType DEF PostWallet
  <2> QED  BY <1>3, <1>f, <1>g, <2>1, <2>2 DEF PostWallet, TypeInv, TypeOK, Steps, PlaceSteps
<1>4. CASE Collide(h)
  <2>1. scene' = scene
    BY <1>4 DEF Collide
  <2>2. pc' \in [Handlers -> Steps] /\ my' \in [Handlers -> Work] /\ PlaceHeld'
    BY <1>4, <2>1, EndType DEF Collide
  <2> QED  BY <1>4, <1>f, <2>1, <2>2 DEF Collide, TypeInv, TypeOK, Steps, money
<1>5. CASE ReadBalance(h, "creditRead", "credit") \/ ReadBalance(h, "outRead", "out")
  <2> DEFINE w == [my[h] EXCEPT !.bal = balance[Payee(h)]]
  <2>1. pc[h] \in PlaceSteps /\ scene' = scene /\ my' = [my EXCEPT ![h] = w]
    BY <1>5 DEF ReadBalance, PlaceSteps
  <2>2. balance[Payee(h)] \in Balance /\ AtPlace(h) # {} /\ Prize(h) > 0
    BY <2>1, MoneyType DEF TypeInv, TypeOK
  <2>3. w \in Work
    BY <2>2, WorkTypes, WorkUpdates
  <2>4. w.rows = my[h].rows /\ w.k = my[h].k /\ w.prizes = my[h].prizes
    BY WorkTypes DEF Work
  <2> HIDE DEF w
  <2>5. PICK step \in Steps : Goto(h, step)
    BY <1>5, <1>s DEF ReadBalance, PlaceSteps
  <2>6. Field' = Field /\ pc' \in [Handlers -> Steps] /\ my' \in [Handlers -> Work] /\ PlaceHeld'
    BY <2>1, <2>2, <2>3, <2>4, <2>5, LoopStepType
  <2> QED  BY <1>5, <1>f, <2>1, <2>6 DEF ReadBalance, TypeInv, TypeOK, Steps, money
<1>6. CASE CreditAvailable(h)
  <2>1. pc[h] \in PlaceSteps /\ scene' = scene /\ UNCHANGED my
    BY <1>6 DEF CreditAvailable, PlaceSteps
  <2>2. PICK step \in PlaceSteps : Goto(h, step)
    BY <1>6 DEF CreditAvailable, PlaceSteps
  <2>3. my[h].bal \in Balance /\ Prize(h) \in Nat
    BY <2>1, WorkTypes, MoneyType
  <2>4. [my[h].bal EXCEPT !.available = @ + Prize(h), !.earned = @ + Prize(h)] \in Balance
    BY <2>3, BalanceUpdates
  <2>5. balance' \in [Players -> Balance]
    BY <1>6, <2>1, <2>4, MoneyType DEF CreditAvailable, TypeInv, TypeOK
  <2> QED  BY <1>6, <1>f, <1>g, <2>1, <2>2, <2>5 DEF CreditAvailable, TypeInv, TypeOK, Steps
<1>7. CASE RecordExternalPaidOut(h)
  <2>1. pc[h] \in PlaceSteps /\ scene' = scene /\ UNCHANGED my /\ Goto(h, "paid")
    BY <1>7 DEF RecordExternalPaidOut, PlaceSteps
  <2>2. my[h].bal \in Balance /\ Prize(h) \in Nat
    BY <2>1, WorkTypes, MoneyType
  <2>3. [my[h].bal EXCEPT !.available = NonNegative(@ - Prize(h)), !.paidOut = @ + Prize(h)] \in Balance
    BY <2>2, BalanceUpdates
  <2>4. balance' \in [Players -> Balance]
    BY <1>7, <2>1, <2>3, MoneyType DEF RecordExternalPaidOut, TypeInv, TypeOK
  <2> QED  BY <1>7, <1>f, <1>g, <2>1, <2>4 DEF RecordExternalPaidOut, TypeInv, TypeOK, Steps, PlaceSteps
<1>8. CASE SaveWinner(h)
  <2>1. pc[h] \in PlaceSteps /\ scene' = scene /\ NextPlace(h)
    BY <1>8 DEF SaveWinner, PlaceSteps
  <2>2. my[h].rows \in [Field -> Row] /\ Payee(h) \in Field /\ Prize(h) \in Nat
    BY <2>1, MoneyType, WorkTypes
  <2>3. [my[h].rows[Payee(h)] EXCEPT !.payout = Prize(h)] \in Row
    BY <2>2 DEF Row
  <2>4. standing' \in [Field -> Row]
    BY <1>8, <2>2, <2>3 DEF SaveWinner, TypeInv, TypeOK
  <2> QED  BY <1>8, <1>f, <2>1, <2>4, NextPlaceType DEF SaveWinner, TypeInv, TypeOK, Steps, money
<1>9. CASE CloseSession(h)
  <2>1. /\ my' = [my EXCEPT ![h] = NoWork] /\ Goto(h, "idle") /\ NoWork \in Work
        /\ session' = [my[h].sess EXCEPT !.status = "CLOSED"] /\ UNCHANGED <<scene, inflow, standing, money, opening, editing, prefs, count>>
    BY <1>9, NoWorkType DEF CloseSession, End, TypeInv, TypeOK
  <2>2. session' \in SessionRow
    BY <2>1, WorkTypes, SessionUpdates
  <2>3. count' \in [aborts : Nat, opens : Nat, edits : Nat, audits : Nat, late : Nat, prefs : Nat]
    BY <2>1 DEF TypeInv, TypeOK
  <2> HIDE DEF NoWork
  <2> QED  BY <1>s, <2>1, <2>2, <2>3, SessionStepType
<1> QED  BY <1>1, <1>2, <1>3, <1>4, <1>5, <1>6, <1>7, <1>8, <1>9

LEMMA TypeInvInit == Init => TypeInv
<1> SUFFICES ASSUME Init PROVE TypeInv
  OBVIOUS
<1>1. scene \in Scenes /\ NoWork \in Work /\ scene.inflow \in Nat /\ scene.points \in [Field -> Nat]
  BY NoWorkType, SceneFields DEF Init
<1>2. pc = [h \in Handlers |-> "idle"] /\ my = [h \in Handlers |-> NoWork]
  BY DEF Init
<1>3. PlaceHeld
  BY <1>2 DEF PlaceHeld, PlaceSteps
<1>4. standing \in [Field -> Row]
  BY <1>1 DEF Init, Row
<1>5. session \in SessionRow
  BY DEF Init, SessionRow
<1>6. /\ debit \in [Key -> Nat] /\ wallet \in [Key -> Nat] /\ moved \in [Key -> Nat]
      /\ payout \in [Key -> Payout]
  BY DEF Init, NoPayout, Payout
<1>7. balance \in [Players -> Balance]
  BY DEF Init, Balance
<1>8. count \in [aborts : Nat, opens : Nat, edits : Nat, audits : Nat, late : Nat, prefs : Nat]
  BY DEF Init
<1>9. opening = {} /\ editing = {} /\ prefs = {} /\ inflow = scene.inflow
  BY DEF Init
<1> HIDE DEF NoWork
<1>10. my \in [Handlers -> Work] /\ pc \in [Handlers -> AuditSteps \cup PlaceSteps \cup {"idle", "find", "close"}]
  BY <1>1, <1>2
<1> QED  BY <1>1, <1>3, <1>4, <1>5, <1>6, <1>7, <1>8, <1>9, <1>10 DEF TypeInv, TypeOK

LEMMA TypeInvNext == TypeInv /\ [Next]_vars => TypeInv'
<1> SUFFICES ASSUME TypeInv, [Next]_vars PROVE TypeInv'
  OBVIOUS
<1>s. "save" \in Steps \ PlaceSteps /\ "fund" \in Steps \ PlaceSteps
  BY DEF Steps, AuditSteps, PlaceSteps
<1>1. ASSUME NEW h \in Handlers, PayPlaces(h) PROVE TypeInv'
  <2>1. CASE ReadStandings(h, "read", "save")
    BY <1>s, <2>1, ReadStandingsType
  <2>2. CASE SaveStandings(h, "save", "fund")
    BY <1>s, <2>2, SaveStandingsType
  <2> QED  BY <1>1, <2>1, <2>2, PayoutStepType, LedgerStepType DEF PayPlaces
<1>2. ASSUME NEW h \in Handlers, Step(h) PROVE TypeInv'
  BY <1>1, <1>2, GateType DEF Step
<1>3. CASE UNCHANGED vars
  BY <1>3 DEF vars, TypeInv, TypeOK, PlaceHeld, AtPlace, Prize, Field, Work
<1> QED  BY <1>2, <1>3, RequestType, AroundType DEF Next

LEMMA TypeInvariant == Spec => []TypeInv
BY TypeInvInit, TypeInvNext, PTL DEF Spec

\* Every request, row and line of a close keeps its type, however many requests run
\* together, are cut short and start again.
THEOREM TypeCorrect == Spec => []TypeOK
<1>1. TypeInv => TypeOK
  BY DEF TypeInv
<1> QED  BY <1>1, TypeInvariant, PTL

-----------------------------------------------------------------------------
(* What a step may change *)

\* The steps of one request.
Moves(h) == (\E ack \in BOOLEAN : Close(h, ack)) \/ Audit(h) \/ Step(h) \/ Abort(h)

LEMMA NextMoves == [Next]_vars <=> (\E h \in Handlers : Moves(h)) \/ Around \/ UNCHANGED vars
BY DEF Next, Moves

\* A step of one request leaves what the others hold.
LEMMA MovesAlone ==
  ASSUME TypeInv, NEW h \in Handlers, Moves(h), NEW g \in Handlers \ {h}
  PROVE  pc'[g] = pc[g] /\ my'[g] = my[g]
<1>1. pc \in [Handlers -> Steps] /\ my \in [Handlers -> Work]
  BY WorkTypes
<1> HIDE DEF NoWork
<1>2. CASE Gate(h)
  BY <1>1, <1>2 DEF Gate, AuditReadSession, ReadStandings, SaveStandings, AuditVerdict, Reload, Hold, Override, Lock,
    others, End, Goto
<1>3. CASE \/ ReadStandings(h, "read", "save") \/ SaveStandings(h, "save", "fund") \/ ReadFund(h) \/ SkipPlace(h)
           \/ FindPayout(h) \/ CreatePayout(h) \/ MarkTransferring(h) \/ Transfer(h) \/ SaveFailed(h)
  BY <1>1, <1>3 DEF ReadStandings, SaveStandings, ReadFund, SkipPlace, FindPayout, CreatePayout, MarkTransferring,
    Transfer, SaveFailed, NextPlace, others, Goto
<1>4. CASE \/ FindDebit(h) \/ PostDebit(h) \/ FindWallet(h) \/ PostWallet(h) \/ Collide(h)
           \/ ReadBalance(h, "creditRead", "credit") \/ CreditAvailable(h)
           \/ ReadBalance(h, "outRead", "out") \/ RecordExternalPaidOut(h)
           \/ SavePaid(h) \/ SaveWinner(h) \/ CloseSession(h)
  BY <1>1, <1>4 DEF FindDebit, PostDebit, FindWallet, PostWallet, Collide, ReadBalance, CreditAvailable,
    RecordExternalPaidOut, SavePaid, SaveWinner, CloseSession, NextPlace, others, End, Goto
<1>5. CASE (\E ack \in BOOLEAN : Close(h, ack)) \/ Audit(h) \/ Abort(h)
  BY <1>1, <1>5 DEF Close, Audit, Abort, others, End, Goto
<1> QED  BY <1>2, <1>3, <1>4, <1>5 DEF Moves, Step, PayPlaces

\* The debit lines change only where one is posted, and the transfers only in
\* createTransfer.
LEMMA MoneyFrame ==
  [Next]_vars => /\ UNCHANGED debit \/ \E h \in Handlers : PostDebit(h)
                 /\ UNCHANGED moved \/ \E h \in Handlers : Transfer(h)
<1> SUFFICES ASSUME [Next]_vars
             PROVE  /\ UNCHANGED debit \/ \E h \in Handlers : PostDebit(h)
                    /\ UNCHANGED moved \/ \E h \in Handlers : Transfer(h)
  OBVIOUS
<1>1. ASSUME NEW h \in Handlers, Moves(h), ~PostDebit(h), ~Transfer(h)
      PROVE  UNCHANGED <<debit, moved>>
  <2>1. CASE Gate(h)
    BY <2>1 DEF Gate, AuditReadSession, ReadStandings, SaveStandings, AuditVerdict, Reload, Hold, Override, Lock, money
  <2>2. CASE PayPlaces(h)
    BY <1>1, <2>2 DEF PayPlaces, ReadStandings, SaveStandings, ReadFund, SkipPlace, FindPayout, CreatePayout,
      MarkTransferring, SaveFailed, FindDebit, FindWallet, PostWallet, Collide, ReadBalance, CreditAvailable,
      RecordExternalPaidOut, SavePaid, SaveWinner, CloseSession, money
  <2>3. CASE (\E ack \in BOOLEAN : Close(h, ack)) \/ Audit(h) \/ Abort(h)
    BY <2>3 DEF Close, Audit, Abort, money
  <2> QED  BY <1>1, <2>1, <2>2, <2>3 DEF Moves, Step
<1>2. ASSUME NEW h \in Handlers, PostDebit(h) \/ Transfer(h)
      PROVE  (PostDebit(h) => UNCHANGED moved) /\ (Transfer(h) => UNCHANGED debit)
  BY <1>2 DEF PostDebit, Transfer
<1>3. CASE Around
  BY <1>3 DEF Around, OpenRead, OpenSave, EditSave, LatePayin, PrefsSave, EditRead, PrefsRead, money
<1>4. CASE UNCHANGED vars
  BY <1>4 DEF vars
<1> QED  BY <1>1, <1>2, <1>3, <1>4, NextMoves

\* The Players Fund of a session only grows, and no step of a close touches what came in.
LEMMA InflowGrows ==
  ASSUME TypeInv, [Next]_vars
  PROVE  inflow \in Nat /\ inflow' \in Nat /\ inflow' >= inflow
<1>1. inflow \in Nat /\ scene.lateFee \in Nat
  BY SceneFields DEF TypeInv, TypeOK
<1>2. CASE UNCHANGED inflow
  BY <1>1, <1>2
<1>3. CASE LatePayin
  BY <1>1, <1>3 DEF LatePayin
<1>4. ASSUME NEW h \in Handlers, Moves(h) PROVE UNCHANGED inflow
  <2>1. CASE Gate(h)
    BY <2>1 DEF Gate, AuditReadSession, ReadStandings, SaveStandings, AuditVerdict, Reload, Hold, Override, Lock, others
  <2>2. CASE PayPlaces(h)
    BY <2>2 DEF PayPlaces, ReadStandings, SaveStandings, ReadFund, SkipPlace, FindPayout, CreatePayout,
      MarkTransferring, Transfer, SaveFailed, FindDebit, PostDebit, FindWallet, PostWallet, Collide, ReadBalance,
      CreditAvailable, RecordExternalPaidOut, SavePaid, SaveWinner, CloseSession, others
  <2>3. CASE (\E ack \in BOOLEAN : Close(h, ack)) \/ Audit(h) \/ Abort(h)
    BY <2>3 DEF Close, Audit, Abort, others
  <2> QED  BY <1>4, <2>1, <2>2, <2>3 DEF Moves, Step
<1>5. Around /\ ~LatePayin => UNCHANGED inflow
  BY DEF Around, OpenRead, OpenSave, EditSave, PrefsSave, EditRead, PrefsRead
<1>6. UNCHANGED vars => UNCHANGED inflow
  BY DEF vars
<1> QED  BY <1>2, <1>3, <1>4, <1>5, <1>6, NextMoves

-----------------------------------------------------------------------------
(* Transfers *)

\* Stripe pays each payout once, however many closes overlap and however often a
\* session is closed again after lost answers: a second request under the same
\* idempotency key moves nothing (createTransfer).
THEOREM EveryTransferOnce == Spec => TransferOnce
<1> DEFINE Once == \A key \in Key : moved[key] # 0 => moved'[key] = moved[key]
<1>1. TypeInv /\ [Next]_vars => [Once]_vars
  <2> SUFFICES ASSUME TypeInv, [Next]_vars PROVE Once
    OBVIOUS
  <2>1. CASE UNCHANGED moved
    BY <2>1
  <2>2. ASSUME NEW h \in Handlers, Transfer(h) PROVE Once
    <3>1. KeyOf(h) \in Key /\ moved \in [Key -> Nat]
      BY <2>2, MoneyType DEF Transfer, PlaceSteps, TypeInv, TypeOK
    <3>2. UNCHANGED moved \/ (Accepted(h) /\ moved' = [moved EXCEPT ![KeyOf(h)] = Prize(h)])
      BY <2>2 DEF Transfer
    <3> QED  BY <3>1, <3>2 DEF Accepted
  <2> QED  BY <2>1, <2>2, MoneyFrame
<1> QED  BY <1>1, TypeInvariant, PTL DEF Spec, TransferOnce

-----------------------------------------------------------------------------
(* What is owed while a close runs *)

\* A request that has cut the fund and is among its places; and where it has not yet
\* posted the place's debit.
Loop == {"find"} \cup PlaceSteps
Undebited == {"find", "create", "mark", "transfer", "failed", "debitFind", "debitPost"}

Rest(p, k) == IF k = 1 THEN p[2] + p[3] ELSE IF k = 2 THEN p[3] ELSE 0
Owed(h) == (IF pc[h] \in Undebited THEN Prize(h) ELSE 0) + Rest(my[h].prizes, my[h].k)

\* One request at a time: what it still owes is in the fund.
OneAtATime == \A g, h \in Handlers : pc[g] # "idle" /\ pc[h] # "idle" => g = h
FundCovers == /\ TotalOf(debit) <= inflow
              /\ \A h \in Handlers : pc[h] \in Loop => TotalOf(debit) + Owed(h) <= inflow
OneInv == scene.atOnce = 1 => OneAtATime /\ FundCovers

\* Tenfold what a place may get out of a fund, the third with its dust.
Share(k, fund) == IF k = 1 THEN 5 * fund ELSE IF k = 2 THEN 3 * fund ELSE 2 * fund + 14
SharesInv ==
  /\ \A h \in Handlers : pc[h] \in Loop => \A k \in Places : 10 * my[h].prizes[k] <= Share(k, inflow)
  /\ \A key \in Key : 10 * debit[key] <= Share(key[1], inflow)

\* Where the points leave no choice there is one order, and whoever has read the
\* standings has it.
ScenePoints == [u \in Field |-> [points |-> scene.points[u]]]
Rank == CHOOSE f \in Orders(ScenePoints) : TRUE
Filled == Loop \cup {"auditSave", "save", "fund"}
Ranked == Rank \in Orders(ScenePoints)
RankInv ==
  Frozen =>
    /\ editing = {}
    /\ \A u \in Field : standing[u].points = scene.points[u] /\ standing[u].place \in {0, Rank[u]}
    /\ \A h \in Handlers : pc[h] \in Filled =>
         Ranked /\ \A u \in Field : my[h].rows[u].points = scene.points[u] /\ my[h].rows[u].place = Rank[u]
    /\ \A key \in Key : debit[key] # 0 => Ranked /\ key[2] \in Field /\ Rank[key[2]] = key[1]

\* A request is among its places because it has just cut the fund, or it was there
\* before, with the same prizes, at the same place or at the one before.
LEMMA LoopSteps ==
  ASSUME TypeInv, NEW h \in Handlers, Moves(h), ~ReadFund(h), pc'[h] \in Loop
  PROVE  /\ pc[h] \in Loop /\ my'[h].prizes = my[h].prizes /\ my'[h].rows = my[h].rows
         /\ \/ my'[h].k = my[h].k /\ (pc'[h] \in Undebited => pc[h] \in Undebited)
            \/ my[h].k # 3 /\ my'[h].k = my[h].k + 1
<1>1. pc \in [Handlers -> Steps] /\ my \in [Handlers -> Work] /\ my[h] \in Work
  BY WorkTypes
<1>2. ASSUME NEW step, Goto(h, step) PROVE pc'[h] = step
  BY <1>1, <1>2 DEF Goto
<1>3. CASE Gate(h)
  <2>1. PICK step \in AuditSteps \cup {"idle"} : Goto(h, step)
    BY <1>3 DEF Gate, AuditReadSession, ReadStandings, SaveStandings, AuditVerdict, Reload, Hold, Override, Lock, End,
      AuditSteps
  <2> QED  BY <1>2, <2>1 DEF AuditSteps, PlaceSteps, Loop
<1>4. CASE (\E ack \in BOOLEAN : Close(h, ack)) \/ Audit(h) \/ Abort(h) \/ Collide(h) \/ CloseSession(h)
  <2>1. PICK step \in {"audit", "idle"} : Goto(h, step)
    BY <1>4 DEF Close, Audit, Abort, Collide, CloseSession, End
  <2> QED  BY <1>2, <2>1 DEF PlaceSteps, Loop
<1>5. CASE ReadStandings(h, "read", "save") \/ SaveStandings(h, "save", "fund")
  <2>1. PICK step \in {"save", "fund"} : Goto(h, step)
    BY <1>5 DEF ReadStandings, SaveStandings
  <2> QED  BY <1>2, <2>1 DEF PlaceSteps, Loop
<1>6. CASE SkipPlace(h) \/ SaveFailed(h) \/ SaveWinner(h)
  <2>1. NextPlace(h) /\ pc[h] \in Loop
    BY <1>6 DEF SkipPlace, SaveFailed, SaveWinner, Loop, PlaceSteps
  <2>2. my[h].k # 3
    BY <1>2, <2>1 DEF NextPlace, Loop, PlaceSteps
  <2>3. my'[h] = [my[h] EXCEPT !.k = my[h].k + 1, !.payout = NoPayout, !.bal = NoWork.bal]
    BY <1>1, <2>1, <2>2 DEF NextPlace
  <2> DEFINE next == my[h].k + 1
             b == NoWork.bal
             w == my[h]
  <2>4. my'[h] = [w EXCEPT !.k = next, !.payout = NoPayout, !.bal = b] /\ w \in Work
    BY <1>1, <2>3
  <2> HIDE DEF w, b, next
  <2>5. my'[h].prizes = w.prizes /\ my'[h].rows = w.rows /\ my'[h].k = next
    BY <2>4 DEF Work
  <2> QED  BY <2>1, <2>2, <2>5 DEF w, next
<1>7. CASE FindPayout(h) \/ CreatePayout(h) \/ ReadBalance(h, "creditRead", "credit") \/ ReadBalance(h, "outRead", "out")
  <2>1. /\ pc[h] \in Loop
        /\ pc[h] \in Undebited \/ pc'[h] \notin Undebited
    BY <1>2, <1>7 DEF FindPayout, CreatePayout, ReadBalance, Loop, PlaceSteps, Undebited
  <2>2. (\E p : my' = [my EXCEPT ![h].payout = p]) \/ (\E b : my' = [my EXCEPT ![h].bal = b])
    BY <1>7 DEF FindPayout, CreatePayout, ReadBalance
  <2>3. my'[h].prizes = my[h].prizes /\ my'[h].rows = my[h].rows /\ my'[h].k = my[h].k
    BY <1>1, <2>2 DEF Work
  <2> QED  BY <2>1, <2>3
<1>8. CASE \/ MarkTransferring(h) \/ Transfer(h) \/ FindDebit(h) \/ PostDebit(h) \/ FindWallet(h) \/ PostWallet(h)
           \/ CreditAvailable(h) \/ RecordExternalPaidOut(h) \/ SavePaid(h)
  <2>1. UNCHANGED my
    BY <1>8 DEF MarkTransferring, Transfer, FindDebit, PostDebit, FindWallet, PostWallet, CreditAvailable,
      RecordExternalPaidOut, SavePaid
  <2>2. pc[h] \in Loop
    BY <1>8 DEF MarkTransferring, Transfer, FindDebit, PostDebit, FindWallet, PostWallet, CreditAvailable,
      RecordExternalPaidOut, SavePaid, Loop, PlaceSteps
  <2>3. pc[h] \in Undebited \/ pc'[h] \notin Undebited
    BY <1>2, <1>8 DEF MarkTransferring, Transfer, FindDebit, PostDebit, FindWallet, PostWallet, CreditAvailable,
      RecordExternalPaidOut, SavePaid, Undebited
  <2> QED  BY <2>1, <2>2, <2>3
<1> QED  BY <1>3, <1>4, <1>5, <1>6, <1>7, <1>8 DEF Moves, Step, PayPlaces

-----------------------------------------------------------------------------
(* Each place within its share *)

LEMMA ShareGrows ==
  ASSUME NEW m \in Nat, NEW n \in Nat, m <= n, NEW k
  PROVE  Share(k, m) <= Share(k, n) /\ Share(k, m) \in Nat /\ Share(k, n) \in Nat
BY DEF Share

\* The prizes of a fund are each within their share of it.
LEMMA PrizesWithinShares ==
  ASSUME NEW F \in Nat, NEW k \in Places
  PROVE  10 * SessionPrizes(F)[k] <= Share(k, F)
<1> DEFINE first == (F * 5000) \div Bps
           second == (F * 3000) \div Bps
<1>1. first \in Nat /\ second \in Nat /\ first + second <= F
  BY FlooredShare, SharesFit DEF Bps
<1>2. /\ 10000 * first <= F * 5000 /\ F * 5000 < 10000 * first + 10000
      /\ 10000 * second <= F * 3000 /\ F * 3000 < 10000 * second + 10000
  <2> DEFINE x == F * 5000
             y == F * 3000
  <2>1. x \in Nat /\ y \in Nat
    OBVIOUS
  <2> HIDE DEF x, y
  <2>2. /\ 10000 * (x \div 10000) <= x /\ x < 10000 * (x \div 10000) + 10000
        /\ 10000 * (y \div 10000) <= y /\ y < 10000 * (y \div 10000) + 10000
    BY <2>1
  <2> QED  BY <2>2 DEF x, y, Bps
<1>3. SessionPrizes(F) = <<first, second, F - (first + second)>>
  <2>1. NonNegative(F) = F
    BY DEF NonNegative
  <2> HIDE DEF first, second
  <2>2. NonNegative(F - (first + second)) = F - (first + second)
    BY <1>1 DEF NonNegative
  <2> QED  BY <2>1, <2>2 DEF SessionPrizes, first, second
<1> HIDE DEF first, second
<1>4. 10 * first <= 5 * F /\ 10 * second <= 3 * F /\ 10 * (F - (first + second)) <= 2 * F + 14
  BY <1>1, <1>2
<1> QED  BY <1>1, <1>3, <1>4 DEF Share, Places

LEMMA SharesKept == TypeInv /\ SharesInv /\ [Next]_vars => SharesInv'
<1> SUFFICES ASSUME TypeInv, SharesInv, [Next]_vars PROVE SharesInv'
  OBVIOUS
<1>0. TypeInv'
  BY TypeInvNext
<1>i. \A k : /\ Share(k, inflow) <= Share(k, inflow')
             /\ Share(k, inflow) \in Nat /\ Share(k, inflow') \in Nat
  BY InflowGrows, ShareGrows
<1>1. ASSUME NEW h \in Handlers, pc'[h] \in Loop, NEW k \in Places
      PROVE  10 * my'[h].prizes[k] <= Share(k, inflow')
  <2>1. my'[h].prizes[k] \in Nat
    <3>1. TypeInv' => my'[h].prizes \in [Places -> Nat]
      BY DEF TypeInv, TypeOK, Work
    <3> QED  BY <1>0, <3>1
  <2>2. CASE pc[h] \in Loop /\ my'[h].prizes = my[h].prizes
    <3>1. 10 * my'[h].prizes[k] <= Share(k, inflow)
      BY <2>2 DEF SharesInv
    <3> QED  BY <1>i, <2>1, <3>1
  <2>3. CASE ReadFund(h)
    <3>1. my'[h].prizes = SessionPrizes(SessionFund)
      <4>1. my' = [my EXCEPT ![h] = [my[h] EXCEPT !.prizes = SessionPrizes(SessionFund), !.k = 1]] /\ my \in [Handlers -> Work] /\ my[h] \in Work
        BY <2>3, WorkTypes DEF ReadFund
      <4> DEFINE p == SessionPrizes(SessionFund)
                 w == my[h]
      <4>2. my'[h] = [w EXCEPT !.prizes = p, !.k = 1] /\ w \in Work
        BY <4>1
      <4> HIDE DEF p, w
      <4>3. my'[h].prizes = p
        BY <4>2 DEF Work
      <4> QED  BY <4>3 DEF p
    <3>2. SessionFund \in Nat /\ SessionFund <= inflow
      BY FundType, InflowGrows DEF SessionFund, NonNegative
    <3>3. 10 * my'[h].prizes[k] <= Share(k, SessionFund)
      BY <3>1, <3>2, PrizesWithinShares
    <3>4. Share(k, SessionFund) <= Share(k, inflow) /\ Share(k, SessionFund) \in Nat
      BY <3>2, InflowGrows, ShareGrows
    <3> QED  BY <1>i, <2>1, <3>3, <3>4
  <2>4. CASE Moves(h) /\ ~ReadFund(h)
    BY <1>1, <2>2, <2>4, LoopSteps
  <2>5. CASE pc'[h] = pc[h] /\ my'[h] = my[h]
    BY <1>1, <2>2, <2>5
  <2>6. ASSUME NEW g \in Handlers \ {h}, Moves(g) PROVE pc'[h] = pc[h] /\ my'[h] = my[h]
    BY <2>6, MovesAlone
  <2>7. Around \/ UNCHANGED vars => UNCHANGED <<pc, my>>
    BY DEF Around, OpenRead, OpenSave, EditSave, LatePayin, PrefsSave, EditRead, PrefsRead, vars
  <2> QED  BY <2>3, <2>4, <2>5, <2>6, <2>7, NextMoves
<1>2. ASSUME NEW key \in Key
      PROVE  10 * debit'[key] <= Share(key[1], inflow')
  <2>1. debit[key] \in Nat /\ 10 * debit[key] <= Share(key[1], inflow)
    BY DEF SharesInv, TypeInv, TypeOK
  <2>2. CASE debit'[key] = debit[key]
    BY <1>i, <2>1, <2>2
  <2>3. ASSUME NEW h \in Handlers, PostDebit(h), debit'[key] # debit[key]
        PROVE  10 * debit'[key] <= Share(key[1], inflow')
    <3>1. pc[h] \in Loop /\ KeyOf(h) \in Key /\ Prize(h) \in Nat /\ my[h].k \in Places
      BY <2>3, MoneyType, WorkTypes DEF PostDebit, Loop, PlaceSteps
    <3>2. key = KeyOf(h) /\ debit'[key] = Prize(h)
      BY <2>3, <3>1 DEF PostDebit, TypeInv, TypeOK
    <3>3. key[1] = my[h].k /\ Prize(h) = my[h].prizes[my[h].k]
      BY <3>2 DEF KeyOf, Prize
    <3>4. 10 * Prize(h) <= Share(key[1], inflow)
      BY <3>1, <3>3 DEF SharesInv
    <3> QED  BY <1>i, <3>1, <3>2, <3>4
  <2> QED  BY <2>2, <2>3, MoneyFrame
<1> QED  BY <1>1, <1>2 DEF SharesInv

LEMMA SharesInit == Init => SharesInv
<1> SUFFICES ASSUME Init PROVE SharesInv
  OBVIOUS
<1>1. inflow \in Nat
  BY SceneFields DEF Init
<1>2. \A k : Share(k, inflow) \in Nat
  BY <1>1, ShareGrows
<1>3. \A h \in Handlers : pc[h] \notin Loop
  BY DEF Init, Loop, PlaceSteps
<1>4. \A key \in Key : debit[key] = 0
  BY DEF Init
<1> QED  BY <1>2, <1>3, <1>4 DEF SharesInv

\* One line more.
LEMMA OneMore ==
  ASSUME NEW f \in [Key -> Nat], NEW g \in [Key -> Nat], NEW x \in Key, f[x] = 0,
         \A y \in Key \ {x} : g[y] = f[y]
  PROVE  SumOver(g, Key) = SumOver(f, Key) + g[x]
<1>1. IsFiniteSet(Key) /\ Key \in SUBSET Key /\ f \in [Key -> Int] /\ g \in [Key -> Int]
  BY KeyFinite
<1>2. SumOver(g, Key) = SumOver(f, Key) - f[x] + g[x]
  BY <1>1, SumUpdate
<1>3. SumOver(f, Key) \in Nat
  BY <1>1, SumNat
<1> QED  BY <1>2, <1>3

\* Lines of which each place has at most one add up to one amount for each place.
LEMMA OnePerPlace ==
  ASSUME NEW f \in [Key -> Nat], NEW w \in [Places -> Players],
         \A key \in Key : f[key] # 0 => key[2] = w[key[1]]
  PROVE  SumOver(f, Key) = f[<<1, w[1]>>] + f[<<2, w[2]>>] + f[<<3, w[3]>>]
<1> DEFINE a == <<1, w[1]>>
           b == <<2, w[2]>>
           c == <<3, w[3]>>
           Only(cells) == [key \in Key |-> IF key \in cells THEN f[key] ELSE 0]
<1>1. /\ a \in Key /\ b \in Key /\ c \in Key
      /\ a # b /\ a # c /\ b # c
  BY DEF Key, Places
<1>2. \A key \in Key : key \in {a, b, c} \/ f[key] = 0
  <2> SUFFICES ASSUME NEW key \in Key, f[key] # 0 PROVE key \in {a, b, c}
    OBVIOUS
  <2>1. key[2] = w[key[1]] /\ key[1] \in {1, 2, 3} /\ key = <<key[1], key[2]>>
    BY KeyFinite DEF Key
  <2> QED  BY <2>1
<1> HIDE DEF a, b, c
<1>3. f[a] \in Nat /\ f[b] \in Nat /\ f[c] \in Nat
  BY <1>1
<1>4. \A cells : Only(cells) \in [Key -> Nat]
  OBVIOUS
<1>5. SumOver(Only({}), Key) = 0
  <2>1. \A key \in Key : Only({})[key] = 0
    OBVIOUS
  <2> HIDE DEF Only
  <2> QED  BY <2>1, KeyFinite, SumZero
<1>6. ASSUME NEW cells, NEW x \in Key, x \notin cells
      PROVE  SumOver(Only(cells \cup {x}), Key) = SumOver(Only(cells), Key) + f[x]
  <2>1. /\ Only(cells)[x] = 0 /\ Only(cells \cup {x})[x] = f[x]
        /\ \A y \in Key \ {x} : Only(cells \cup {x})[y] = Only(cells)[y]
    BY <1>6
  <2> DEFINE p == Only(cells)
             q == Only(cells \cup {x})
  <2>2. p \in [Key -> Nat] /\ q \in [Key -> Nat] /\ p[x] = 0 /\ q[x] = f[x] /\ \A y \in Key \ {x} : q[y] = p[y]
    BY <1>4, <2>1
  <2> HIDE DEF Only, p, q
  <2>3. SumOver(q, Key) = SumOver(p, Key) + q[x]
    BY <2>2, OneMore
  <2> QED  BY <2>2, <2>3 DEF p, q
<1>7. Only((({} \cup {a}) \cup {b}) \cup {c}) = f
  BY <1>2
<1> HIDE DEF Only
<1>8. SumOver(Only({} \cup {a}), Key) = SumOver(Only({}), Key) + f[a]
  BY <1>1, <1>6
<1>9. SumOver(Only(({} \cup {a}) \cup {b}), Key) = SumOver(Only({} \cup {a}), Key) + f[b]
  BY <1>1, <1>6
<1>10. SumOver(Only((({} \cup {a}) \cup {b}) \cup {c}), Key) = SumOver(Only(({} \cup {a}) \cup {b}), Key) + f[c]
  <2>1. c \notin ({} \cup {a}) \cup {b}
    BY <1>1
  <2> QED  BY <1>1, <1>6, <2>1
<1>11. SumOver(f, Key) = f[a] + f[b] + f[c]
  <2> DEFINE A == SumOver(Only({} \cup {a}), Key)
             B == SumOver(Only(({} \cup {a}) \cup {b}), Key)
  <2>1. A = f[a]
    BY <1>3, <1>5, <1>8
  <2>2. B = A + f[b]
    BY <1>9
  <2>3. SumOver(f, Key) = B + f[c]
    BY <1>7, <1>10
  <2> HIDE DEF A, B
  <2> QED  BY <1>3, <2>1, <2>2, <2>3
<1> QED  BY <1>11 DEF a, b, c

-----------------------------------------------------------------------------
(* One order *)

\* An order takes every number.
LEMMA OrderOnto ==
  ASSUME IsFiniteSet(Field), NEW rows, NEW f \in Orders(rows), NEW n \in 1 .. Cardinality(Field)
  PROVE  \E u \in Field : f[u] = n
<1>1. Cardinality(Field) \in Nat /\ Cardinality(Field) \in Int /\ 1 \in Int
  BY FS_CardinalityType
<1>2. IsFiniteSet(1 .. Cardinality(Field)) /\ Cardinality(1 .. Cardinality(Field)) = Cardinality(Field)
  BY <1>1, FS_Interval
<1>3. f \in Injection(Field, 1 .. Cardinality(Field))
  BY DEF Orders, Injection, IsInjective
<1>4. f \in Surjection(Field, 1 .. Cardinality(Field))
  BY <1>2, <1>3, FS_Injection
<1> QED  BY <1>4 DEF Surjection

\* Points that all differ leave one order.
LEMMA OneOrder ==
  ASSUME IsFiniteSet(Field), NEW rows, \A u \in Field : rows[u].points \in Nat,
         \A u, v \in Field : rows[u].points = rows[v].points => u = v,
         NEW f \in Orders(rows), NEW g \in Orders(rows)
  PROVE  f = g
<1> DEFINE N == Cardinality(Field)
           Differ == {u \in Field : f[u] # g[u]}
<1>1. /\ f \in [Field -> 1 .. N] /\ g \in [Field -> 1 .. N]
      /\ \A u, v \in Field : (f[u] = f[v] => u = v) /\ (g[u] = g[v] => u = v)
      /\ \A u, v \in Field : rows[u].points > rows[v].points => f[u] < f[v] /\ g[u] < g[v]
  BY DEF Orders
<1>2. N \in Nat
  BY FS_CardinalityType
<1> HIDE DEF N
<1>3. f \in [Field -> Nat] /\ g \in [Field -> Nat]
  BY <1>1, <1>2
<1>4. CASE Differ = {}
  BY <1>3, <1>4
<1>5. CASE Differ # {}
  <2>1. Differ \in SUBSET Field /\ IsFiniteSet(Differ)
    BY FS_Subset
  <2>2. PICK u \in Differ : \A v \in Differ : f[u] <= f[v]
    <3> HIDE DEF Differ
    <3> QED  BY <1>3, <1>5, <2>1, LeastExists
  <2>3. PICK w \in Field : g[w] = f[u]
    BY <1>1, OrderOnto DEF N
  <2>4. w # u /\ f[w] # f[u] /\ f[w] # g[w]
    BY <1>1, <2>2, <2>3
  <2>5. f[u] < f[w]
    BY <1>3, <2>2, <2>4
  <2>6. rows[u].points > rows[w].points
    <3>1. rows[u].points \in Nat /\ rows[w].points \in Nat /\ rows[u].points # rows[w].points
      BY <2>2, <2>4
    <3>2. ~(rows[w].points > rows[u].points)
      <4>1. rows[w].points > rows[u].points => f[w] < f[u]
        BY <1>1, <2>2
      <4> QED  BY <1>3, <2>2, <2>5, <4>1
    <3> QED  BY <3>1, <3>2
  <2>7. g[u] < f[u]
    <3>1. g[u] < g[w]
      BY <1>1, <2>2, <2>6
    <3> QED  BY <2>3, <3>1
  <2>8. PICK z \in Field : f[z] = g[u]
    BY <1>1, <2>2, OrderOnto DEF N
  <2>9. z \notin Differ
    BY <1>3, <2>2, <2>7, <2>8
  <2>10. g[z] = g[u]
    BY <2>8, <2>9
  <2>11. z = u
    BY <1>1, <2>2, <2>10
  <2> QED  BY <2>2, <2>9, <2>11
<1> QED  BY <1>4, <1>5

\* Whoever holds the rows to pay by has just read them, or held them before.
LEMMA RowSteps ==
  ASSUME TypeInv, NEW h \in Handlers, Moves(h), pc'[h] \in Filled,
         ~ReadStandings(h, "auditRead", "auditSave"), ~ReadStandings(h, "read", "save")
  PROVE  pc[h] \in Filled /\ my'[h].rows = my[h].rows
<1>1. pc \in [Handlers -> Steps] /\ my \in [Handlers -> Work] /\ my[h] \in Work
  BY WorkTypes
<1>2. ASSUME NEW step, Goto(h, step) PROVE pc'[h] = step
  BY <1>1, <1>2 DEF Goto
<1>3. CASE ReadFund(h)
  <2> DEFINE w == my[h]
             p == SessionPrizes(SessionFund)
  <2>1. my' = [my EXCEPT ![h] = [w EXCEPT !.prizes = p, !.k = 1]] /\ w \in Work
    BY <1>1, <1>3 DEF ReadFund
  <2> HIDE DEF w, p
  <2>2. my'[h].rows = w.rows
    BY <1>1, <2>1 DEF Work
  <2> QED  BY <1>3, <2>2 DEF ReadFund, Filled, w
<1>4. CASE SaveStandings(h, "save", "fund")
  BY <1>4 DEF SaveStandings, Filled
<1>5. CASE pc'[h] \in Loop /\ ~ReadFund(h)
  BY <1>5, LoopSteps DEF Filled
<1>6. CASE Gate(h)
  <2>1. PICK step \in {"auditRead", "auditVerdict", "reload", "idle", "hold", "override", "lock", "read"} : Goto(h, step)
    BY <1>6 DEF Gate, AuditReadSession, SaveStandings, AuditVerdict, Reload, Hold, Override, Lock, End
  <2> QED  BY <1>2, <2>1 DEF Filled, Loop, PlaceSteps
<1>7. CASE (\E ack \in BOOLEAN : Close(h, ack)) \/ Audit(h) \/ Abort(h) \/ Collide(h) \/ CloseSession(h)
  <2>1. PICK step \in {"audit", "idle"} : Goto(h, step)
    BY <1>7 DEF Close, Audit, Abort, Collide, CloseSession, End
  <2> QED  BY <1>2, <2>1 DEF Filled, Loop, PlaceSteps
<1>8. CASE \/ SkipPlace(h) \/ FindPayout(h) \/ CreatePayout(h) \/ MarkTransferring(h)
           \/ Transfer(h) \/ SaveFailed(h) \/ FindDebit(h) \/ PostDebit(h) \/ FindWallet(h) \/ PostWallet(h)
           \/ ReadBalance(h, "creditRead", "credit") \/ CreditAvailable(h)
           \/ ReadBalance(h, "outRead", "out") \/ RecordExternalPaidOut(h) \/ SavePaid(h) \/ SaveWinner(h)
  <2>1. PICK step \in PlaceSteps \cup {"find", "close"} : Goto(h, step)
    BY <1>8 DEF SkipPlace, FindPayout, CreatePayout, MarkTransferring, Transfer, AfterTransfer, SaveFailed, FindDebit,
      PostDebit, FindWallet, PostWallet, ReadBalance, CreditAvailable, RecordExternalPaidOut, SavePaid, SaveWinner,
      NextPlace, PlaceSteps
  <2>2. pc'[h] \in Loop
    BY <1>2, <2>1 DEF Filled, Loop, PlaceSteps
  <2>3. ~ReadFund(h)
    BY <1>8 DEF ReadFund, SkipPlace, FindPayout, CreatePayout, MarkTransferring, Transfer, SaveFailed, FindDebit,
      PostDebit, FindWallet, PostWallet, ReadBalance, CreditAvailable, RecordExternalPaidOut, SavePaid, SaveWinner
  <2> QED  BY <1>5, <2>2, <2>3
<1> QED  BY <1>3, <1>4, <1>6, <1>7, <1>8 DEF Moves, Step, PayPlaces

\* The standings change where they are saved after reading, where a winner is saved and
\* where an edit is.
LEMMA StandingFrame ==
  [Next]_vars =>
    /\ \/ UNCHANGED standing \/ EditSave
       \/ \E h \in Handlers : SaveStandings(h, "auditSave", "auditVerdict") \/ SaveStandings(h, "save", "fund") \/ SaveWinner(h)
    /\ UNCHANGED editing \/ EditSave \/ \E u \in Field : EditRead(u)
<1> SUFFICES ASSUME [Next]_vars
             PROVE  /\ \/ UNCHANGED standing \/ EditSave
                       \/ \E h \in Handlers : \/ SaveStandings(h, "auditSave", "auditVerdict")
                                              \/ SaveStandings(h, "save", "fund") \/ SaveWinner(h)
                    /\ UNCHANGED editing \/ EditSave \/ \E u \in Field : EditRead(u)
  OBVIOUS
<1>1. ASSUME NEW h \in Handlers, Moves(h)
      PROVE  /\ UNCHANGED editing
             /\ \/ UNCHANGED standing \/ SaveStandings(h, "auditSave", "auditVerdict")
                \/ SaveStandings(h, "save", "fund") \/ SaveWinner(h)
  <2>1. CASE Gate(h)
    <3>1. CASE SaveStandings(h, "auditSave", "auditVerdict")
      BY <3>1 DEF SaveStandings, others
    <3> QED  BY <2>1, <3>1 DEF Gate, AuditReadSession, ReadStandings, AuditVerdict, Reload, Hold, Override, Lock, others
  <2>2. CASE PayPlaces(h)
    <3>1. CASE SaveStandings(h, "save", "fund") \/ SaveWinner(h)
      BY <3>1 DEF SaveStandings, SaveWinner, others
    <3> QED  BY <2>2, <3>1 DEF PayPlaces, ReadStandings, ReadFund, SkipPlace, FindPayout, CreatePayout,
          MarkTransferring, Transfer, SaveFailed, FindDebit, PostDebit, FindWallet, PostWallet, Collide, ReadBalance,
          CreditAvailable, RecordExternalPaidOut, SavePaid, CloseSession, others
  <2>3. CASE (\E ack \in BOOLEAN : Close(h, ack)) \/ Audit(h) \/ Abort(h)
    BY <2>3 DEF Close, Audit, Abort, others
  <2> QED  BY <1>1, <2>1, <2>2, <2>3 DEF Moves, Step
<1>2. CASE Around
  BY <1>2 DEF Around, OpenRead, OpenSave, LatePayin, PrefsSave, EditRead, PrefsRead
<1>3. CASE UNCHANGED vars
  BY <1>3 DEF vars
<1> QED  BY <1>1, <1>2, <1>3, NextMoves

LEMMA RankFixed == scene' = scene => Field' = Field /\ Frozen' = Frozen /\ Rank' = Rank /\ Ranked' = Ranked
BY DEF Field, Frozen, Rank, Ranked, ScenePoints, Orders

\* The edits a frozen scene allows.
LEMMA NoEdits == ASSUME TypeInv, Frozen PROVE \A u \in Field : ~EditRead(u)
<1>1. scene.edits = 0 /\ count.edits \in Nat
  BY DEF Frozen, TypeInv, TypeOK
<1> QED  BY <1>1 DEF EditRead

\* Reading the standings gives every place its one holder.
LEMMA ReadRanked ==
  ASSUME TypeInv, RankInv, Frozen, NEW h \in Handlers, NEW from, NEW to, ReadStandings(h, from, to)
  PROVE  Ranked /\ \A u \in Field : my'[h].rows[u].points = scene.points[u] /\ my'[h].rows[u].place = Rank[u]
<1>1. PICK order \in Orders(standing) :
        my' = [my EXCEPT ![h] = [my[h] EXCEPT !.order = order, !.rows = FillPlaces(standing, order)]]
  BY DEF ReadStandings
<1>2. /\ IsFiniteSet(Field) /\ scene.points \in [Field -> Nat]
      /\ \A u \in Field : standing[u].points = scene.points[u] /\ standing[u].place \in {0, Rank[u]}
      /\ standing \in [Field -> Row]
  BY SceneFields DEF TypeInv, TypeOK, RankInv
<1>3. order \in Orders(ScenePoints)
  BY <1>2 DEF Orders, ScenePoints
<1>4. Ranked
  BY <1>3 DEF Ranked, Rank
<1>5. order = Rank
  <2>1. /\ \A u \in Field : ScenePoints[u].points \in Nat
        /\ \A u, v \in Field : ScenePoints[u].points = ScenePoints[v].points => u = v
    BY <1>2 DEF ScenePoints, Frozen, Field
  <2> HIDE DEF ScenePoints, Rank
  <2> QED  BY <1>2, <1>3, <1>4, <2>1, OneOrder DEF Ranked
<1>6. my'[h].rows = FillPlaces(standing, order)
  <2> DEFINE w == my[h]
             r == FillPlaces(standing, order)
  <2>1. my' = [my EXCEPT ![h] = [w EXCEPT !.order = order, !.rows = r]] /\ w \in Work /\ my \in [Handlers -> Work]
    BY <1>1, WorkTypes
  <2> HIDE DEF w, r
  <2>2. my'[h].rows = r
    BY <2>1 DEF Work
  <2> QED  BY <2>2 DEF r
<1>7. ASSUME NEW u \in Field
      PROVE  my'[h].rows[u].points = scene.points[u] /\ my'[h].rows[u].place = Rank[u]
  <2>1. my'[h].rows[u] = IF standing[u].place = 0 THEN [standing[u] EXCEPT !.place = Rank[u]] ELSE standing[u]
    BY <1>5, <1>6 DEF FillPlaces
  <2>2. standing[u] \in Row
    BY <1>2
  <2> QED  BY <1>2, <2>1, <2>2 DEF Row
<1> QED  BY <1>4, <1>7

LEMMA RankKept == TypeInv /\ RankInv /\ [Next]_vars => RankInv'
<1> SUFFICES ASSUME TypeInv, RankInv, [Next]_vars, Frozen PROVE RankInv'
  BY RankFixed, SceneFixed DEF RankInv
<1>0. scene' = scene /\ Field' = Field /\ Frozen' = Frozen /\ Rank' = Rank /\ Ranked' = Ranked
  BY RankFixed, SceneFixed
<1>1. editing = {} /\ ~EditSave /\ \A u \in Field : ~EditRead(u)
  BY NoEdits DEF RankInv, EditSave
<1>2. editing' = {}
  BY <1>1, StandingFrame
<1>3. \A u \in Field : standing'[u].points = scene.points[u] /\ standing'[u].place \in {0, Rank[u]}
  <2>1. CASE UNCHANGED standing
    BY <2>1 DEF RankInv
  <2>2. ASSUME NEW h \in Handlers, SaveStandings(h, "auditSave", "auditVerdict") \/ SaveStandings(h, "save", "fund")
        PROVE  \A u \in Field : standing'[u].points = scene.points[u] /\ standing'[u].place \in {0, Rank[u]}
    <3>1. pc[h] \in Filled /\ standing' = my[h].rows
      BY <2>2 DEF SaveStandings, Filled
    <3> QED  BY <3>1 DEF RankInv
  <2>3. ASSUME NEW h \in Handlers, SaveWinner(h), NEW u \in Field
        PROVE  standing'[u].points = scene.points[u] /\ standing'[u].place \in {0, Rank[u]}
    <3>1. pc[h] \in Filled /\ pc[h] \in PlaceSteps
      BY <2>3 DEF SaveWinner, Filled, Loop, PlaceSteps
    <3>2. Payee(h) \in Field /\ my[h].rows \in [Field -> Row] /\ standing \in [Field -> Row]
      BY <3>1, MoneyType, WorkTypes DEF TypeInv, TypeOK
    <3>3. my[h].rows[u].points = scene.points[u] /\ my[h].rows[u].place = Rank[u]
      BY <3>1 DEF RankInv
    <3>4. standing[u].points = scene.points[u] /\ standing[u].place \in {0, Rank[u]}
      BY DEF RankInv
    <3>5. standing'[u] = IF u = Payee(h) THEN [my[h].rows[u] EXCEPT !.payout = Prize(h)] ELSE standing[u]
      BY <2>3, <3>2 DEF SaveWinner
    <3>6. my[h].rows[u] \in Row
      BY <3>2
    <3>7. \A r \in Row : \A n : [r EXCEPT !.payout = n].points = r.points /\ [r EXCEPT !.payout = n].place = r.place
      BY DEF Row
    <3> QED  BY <3>3, <3>4, <3>5, <3>6, <3>7
  <2> QED  BY <1>1, <2>1, <2>2, <2>3, StandingFrame
<1>4. ASSUME NEW h \in Handlers, pc'[h] \in Filled
      PROVE  Ranked /\ \A u \in Field : my'[h].rows[u].points = scene.points[u] /\ my'[h].rows[u].place = Rank[u]
  <2>1. CASE pc[h] \in Filled /\ my'[h].rows = my[h].rows
    BY <2>1 DEF RankInv
  <2>2. CASE ReadStandings(h, "auditRead", "auditSave") \/ ReadStandings(h, "read", "save")
    BY <2>2, ReadRanked
  <2>3. CASE Moves(h)
    BY <1>4, <2>1, <2>2, <2>3, RowSteps
  <2>4. ASSUME NEW g \in Handlers \ {h}, Moves(g) PROVE pc'[h] = pc[h] /\ my'[h] = my[h]
    BY <2>4, MovesAlone
  <2>5. Around \/ UNCHANGED vars => UNCHANGED <<pc, my>>
    BY DEF Around, OpenRead, OpenSave, EditSave, LatePayin, PrefsSave, EditRead, PrefsRead, vars
  <2> QED  BY <1>4, <2>1, <2>3, <2>4, <2>5, NextMoves
<1>5. ASSUME NEW key \in Key, debit'[key] # 0
      PROVE  Ranked /\ key[2] \in Field /\ Rank[key[2]] = key[1]
  <2>1. CASE debit[key] # 0
    BY <2>1 DEF RankInv
  <2>2. ASSUME NEW h \in Handlers, PostDebit(h), debit[key] = 0
        PROVE  Ranked /\ key[2] \in Field /\ Rank[key[2]] = key[1]
    <3>1. pc[h] \in Filled /\ pc[h] \in PlaceSteps
      BY <2>2 DEF PostDebit, Filled, Loop, PlaceSteps
    <3>2. AtPlace(h) # {} /\ KeyOf(h) \in Key /\ debit \in [Key -> Nat]
      BY <3>1, MoneyType DEF TypeInv, TypeOK
    <3>3. key = KeyOf(h)
      BY <1>5, <2>2, <3>2 DEF PostDebit
    <3>4. Payee(h) \in Field /\ my[h].rows[Payee(h)].place = my[h].k
      BY <3>2, PayeeHolds DEF TypeInv
    <3>5. Ranked /\ my[h].rows[Payee(h)].place = Rank[Payee(h)]
      BY <3>1, <3>4 DEF RankInv
    <3> QED  BY <3>3, <3>4, <3>5 DEF KeyOf
  <2> QED  BY <1>5, <2>1, <2>2, MoneyFrame
<1> HIDE DEF Rank, Ranked
<1> QED  BY <1>0, <1>2, <1>3, <1>4, <1>5 DEF RankInv

LEMMA RankInit == Init => RankInv
<1> SUFFICES ASSUME Init PROVE RankInv
  OBVIOUS
<1>1. /\ editing = {} /\ \A h \in Handlers : pc[h] \notin Filled
      /\ \A key \in Key : debit[key] = 0
      /\ \A u \in Field : standing[u].points = scene.points[u] /\ standing[u].place = 0
  BY DEF Init, Filled, Loop, PlaceSteps
<1> QED  BY <1>1 DEF RankInv

\* In a frozen scene the debits of all places come to a cent more than the fund at most.
LEMMA FrozenBound ==
  ASSUME TypeInv, SharesInv, RankInv, Frozen
  PROVE  TotalOf(debit) <= inflow + 1
<1>1. debit \in [Key -> Nat] /\ DOMAIN debit = Key /\ inflow \in Nat
  BY DEF TypeInv, TypeOK
<1>2. CASE \A key \in Key : debit[key] = 0
  <2>1. TotalOf(debit) = 0
    BY <1>1, <1>2, KeyFinite, SumZero DEF TotalOf
  <2> QED  BY <1>1, <2>1
<1>3. ASSUME NEW k0 \in Key, debit[k0] # 0
      PROVE  TotalOf(debit) <= inflow + 1
  <2>1. Ranked /\ k0[2] \in Players
    BY <1>3 DEF RankInv, Key
  <2>2. \A u, v \in Field : Rank[u] = Rank[v] => u = v
    <3> HIDE DEF Rank
    <3> QED  BY <2>1 DEF Ranked, Orders
  <2> DEFINE Paid(k, u) == <<k, u>> \in Key /\ debit[<<k, u>>] # 0
             w == [k \in Places |-> IF \E u \in Players : Paid(k, u) THEN CHOOSE u \in Players : Paid(k, u) ELSE k0[2]]
  <2>3. \A k \in Places, u \in Players, v \in Players : Paid(k, u) /\ Paid(k, v) => u = v
    <3> HIDE DEF Rank
    <3> QED  BY <2>2 DEF RankInv
  <2>4. w \in [Places -> Players]
    BY <2>1
  <2>5. ASSUME NEW key \in Key, debit[key] # 0 PROVE key[2] = w[key[1]]
    <3>1. key[1] \in Places /\ key[2] \in Players /\ Paid(key[1], key[2])
      BY <2>5 DEF Key
    <3> HIDE DEF Paid
    <3> QED  BY <2>3, <3>1
  <2>6. \A k \in Places : <<k, w[k]>> \in Key
    BY <2>4 DEF Key
  <2> HIDE DEF w
  <2>7. TotalOf(debit) = debit[<<1, w[1]>>] + debit[<<2, w[2]>>] + debit[<<3, w[3]>>]
    BY <1>1, <2>4, <2>5, OnePerPlace DEF TotalOf
  <2>8. /\ 10 * debit[<<1, w[1]>>] <= 5 * inflow /\ 10 * debit[<<2, w[2]>>] <= 3 * inflow
        /\ 10 * debit[<<3, w[3]>>] <= 2 * inflow + 14
    BY <2>6, KeyFinite DEF SharesInv, Share
  <2>9. debit[<<1, w[1]>>] \in Nat /\ debit[<<2, w[2]>>] \in Nat /\ debit[<<3, w[3]>>] \in Nat
    BY <1>1, <2>6, KeyFinite
  <2> QED  BY <1>1, <2>7, <2>8, <2>9
<1> QED  BY <1>2, <1>3

-----------------------------------------------------------------------------
(* One request at a time *)

\* Where one request runs at a time, one that is taken in finds no other.
LEMMA ArrivesAlone ==
  ASSUME TypeInv, scene.atOnce = 1, NEW h \in Handlers, Arrives(h)
  PROVE  \A g \in Handlers : pc[g] = "idle"
<1> DEFINE busy == {g \in Handlers : pc[g] # "idle"}
<1>1. Cardinality(busy) < 1
  BY DEF Arrives
<1>2. IsFiniteSet(busy) /\ Cardinality(busy) \in Nat
  BY FS_Subset, FS_CardinalityType, PayoutAssumption
<1>3. busy = {}
  <2> HIDE DEF busy
  <2>1. Cardinality(busy) = 0
    BY <1>1, <1>2
  <2> QED  BY <1>2, <2>1, FS_EmptySet
<1> QED  BY <1>3

\* And no other runs while one does.
LEMMA BusyMoves ==
  ASSUME TypeInv, scene.atOnce = 1, NEW h \in Handlers, Moves(h)
  PROVE  pc[h] # "idle" \/ \A g \in Handlers : pc[g] = "idle"
<1>1. CASE (\E ack \in BOOLEAN : Close(h, ack)) \/ Audit(h)
  BY <1>1, ArrivesAlone DEF Close, Audit
<1>2. CASE Gate(h)
  BY <1>2 DEF Gate, AuditReadSession, ReadStandings, SaveStandings, AuditVerdict, Reload, Hold, Override, Lock
<1>3. CASE PayPlaces(h)
  BY <1>3 DEF PayPlaces, ReadStandings, SaveStandings, ReadFund, SkipPlace, FindPayout, CreatePayout,
    MarkTransferring, Transfer, SaveFailed, FindDebit, PostDebit, FindWallet, PostWallet, Collide, ReadBalance,
    CreditAvailable, RecordExternalPaidOut, SavePaid, SaveWinner, CloseSession
<1>4. CASE Abort(h)
  BY <1>4 DEF Abort
<1> QED  BY <1>1, <1>2, <1>3, <1>4 DEF Moves, Step

\* What a request owes at its place and after it.
LEMMA OwedType ==
  ASSUME TypeInv, NEW h \in Handlers
  PROVE  /\ Owed(h) \in Nat /\ Prize(h) \in Nat /\ Rest(my[h].prizes, my[h].k) \in Nat
         /\ my[h].prizes[1] \in Nat /\ my[h].prizes[2] \in Nat /\ my[h].prizes[3] \in Nat
<1>1. my[h].prizes[1] \in Nat /\ my[h].prizes[2] \in Nat /\ my[h].prizes[3] \in Nat
  BY WorkTypes, KeyFinite
<1>2. Prize(h) \in Nat
  BY WorkTypes DEF Prize
<1>3. Rest(my[h].prizes, my[h].k) \in Nat
  BY <1>1 DEF Rest
<1> QED  BY <1>1, <1>2, <1>3 DEF Owed

\* What is owed never grows in the loop, and a posted debit is no longer owed.
LEMMA OwedShrinks ==
  ASSUME TypeInv, TypeInv', NEW h \in Handlers, Moves(h), ~ReadFund(h), pc'[h] \in Loop
  PROVE  Owed(h)' <= Owed(h) /\ (PostDebit(h) => Owed(h)' = Owed(h) - Prize(h))
<1> DEFINE p == my[h].prizes
           k == my[h].k
<1>1. /\ my'[h].prizes = p
      /\ \/ my'[h].k = k /\ (pc'[h] \in Undebited => pc[h] \in Undebited)
         \/ k # 3 /\ my'[h].k = k + 1
  BY LoopSteps
<1>2. p[1] \in Nat /\ p[2] \in Nat /\ p[3] \in Nat /\ p[k] \in Nat /\ k \in {1, 2, 3}
  BY OwedType, WorkTypes, KeyFinite DEF Prize
<1>3. Owed(h) = (IF pc[h] \in Undebited THEN p[k] ELSE 0) + Rest(p, k)
  BY DEF Owed, Prize
<1>4. Owed(h)' = (IF pc'[h] \in Undebited THEN p[my'[h].k] ELSE 0) + Rest(p, my'[h].k)
  BY <1>1 DEF Owed, Prize
<1>5. PostDebit(h) => pc[h] \in Undebited /\ pc'[h] \notin Undebited /\ my'[h].k = k
  BY WorkTypes DEF PostDebit, Goto, Undebited
<1>6. Prize(h) = p[k]
  BY DEF Prize
<1> HIDE DEF p, k
<1>7. CASE my'[h].k = k /\ (pc'[h] \in Undebited => pc[h] \in Undebited)
  <2>1. Rest(p, k) \in Nat
    BY <1>2 DEF Rest
  <2> QED  BY <1>2, <1>3, <1>4, <1>5, <1>6, <1>7, <2>1
<1>8. CASE k # 3 /\ my'[h].k = k + 1
  <2>1. ~PostDebit(h)
    BY <1>2, <1>5, <1>8
  <2>2. CASE k = 1
    BY <1>2, <1>3, <1>4, <1>8, <2>1, <2>2 DEF Rest
  <2>3. CASE k = 2
    BY <1>2, <1>3, <1>4, <1>8, <2>1, <2>3 DEF Rest
  <2> QED  BY <1>2, <1>8, <2>2, <2>3
<1> QED  BY <1>1, <1>7, <1>8

\* A fund that is read owes what is left in it.
LEMMA FundIsOwed ==
  ASSUME TypeInv, NEW h \in Handlers, ReadFund(h)
  PROVE  Owed(h)' = SessionFund /\ UNCHANGED <<debit, inflow>>
<1> DEFINE w == my[h]
           p == SessionPrizes(SessionFund)
<1>1. my' = [my EXCEPT ![h] = [w EXCEPT !.prizes = p, !.k = 1]] /\ w \in Work /\ my \in [Handlers -> Work]
  BY WorkTypes DEF ReadFund
<1>2. pc'[h] = "find"
  BY WorkTypes DEF ReadFund, Goto
<1>3. p[1] + p[2] + p[3] = SessionFund /\ p[1] \in Nat /\ p[2] \in Nat /\ p[3] \in Nat
  BY FundType, PrizesAreTheFund
<1> HIDE DEF w, p, SessionFund
<1>4. my'[h].prizes = p /\ my'[h].k = 1
  BY <1>1 DEF Work
<1>5. Owed(h)' = p[1] + (p[2] + p[3])
  BY <1>2, <1>4 DEF Owed, Prize, Rest, Undebited
<1>6. UNCHANGED <<debit, inflow>>
  BY DEF ReadFund, money, others
<1> QED  BY <1>3, <1>5, <1>6

OwedInNat == TotalOf(debit) \in Nat /\ \A h \in Handlers : Owed(h) \in Nat

LEMMA OwedTypes == TypeInv => OwedInNat
BY FundType, OwedType DEF OwedInNat

LEMMA OwedTypesAfter == TypeInv' => OwedInNat'
BY OwedTypes, PTL

LEMMA OneKept == TypeInv /\ OneInv /\ [Next]_vars => OneInv'
<1> SUFFICES ASSUME TypeInv, OneInv, [Next]_vars, scene.atOnce = 1 PROVE OneAtATime' /\ FundCovers'
  BY SceneFixed DEF OneInv
<1>0. OneAtATime /\ FundCovers /\ TypeInv'
  BY TypeInvNext DEF OneInv
<1>1. TotalOf(debit) \in Nat /\ TotalOf(debit)' \in Nat /\ inflow \in Nat /\ inflow' \in Nat /\ inflow' >= inflow
  BY <1>0, OwedTypes, OwedTypesAfter, InflowGrows DEF OwedInNat
<1>2. ASSUME UNCHANGED <<pc, my>> PROVE OneAtATime' /\ \A h \in Handlers : Owed(h)' = Owed(h)
  BY <1>0, <1>2 DEF OneAtATime, Owed, Prize
<1>3. CASE UNCHANGED <<pc, my, debit>>
  <2>1. TotalOf(debit)' = TotalOf(debit)
    BY <1>3 DEF TotalOf
  <2>2. \A h \in Handlers : Owed(h)' = Owed(h) /\ Owed(h) \in Nat
    BY <1>2, <1>3, OwedType
  <2> HIDE DEF Owed, TotalOf
  <2> QED  BY <1>0, <1>1, <1>2, <1>3, <2>1, <2>2 DEF FundCovers
<1>4. ASSUME NEW h \in Handlers, Moves(h) PROVE OneAtATime' /\ FundCovers'
  <2>1. \A g \in Handlers \ {h} : pc'[g] = pc[g] /\ my'[g] = my[g]
    BY <1>4, MovesAlone
  <2>2. \A g \in Handlers \ {h} : pc[g] = "idle"
    BY <1>0, <1>4, BusyMoves DEF OneAtATime
  <2>3. OneAtATime'
    BY <2>1, <2>2 DEF OneAtATime
  <2>4. \A g \in Handlers : pc'[g] \in Loop => g = h
    BY <2>1, <2>2 DEF Loop, PlaceSteps
  <2>5. CASE PostDebit(h)
    <3>1. pc[h] \in PlaceSteps /\ pc[h] \in Loop /\ pc'[h] \in Loop /\ ~ReadFund(h)
      BY <2>5, WorkTypes DEF PostDebit, Goto, ReadFund, Loop, PlaceSteps
    <3>2. KeyOf(h) \in Key /\ Prize(h) \in Nat /\ debit \in [Key -> Nat] /\ debit[KeyOf(h)] = 0
      BY <2>5, <3>1, MoneyType DEF PostDebit, Posted, TypeInv, TypeOK
    <3>3. debit' = [debit EXCEPT ![KeyOf(h)] = Prize(h)] /\ debit' \in [Key -> Nat]
      BY <1>0, <2>5, <3>2 DEF PostDebit
    <3>4. debit'[KeyOf(h)] = Prize(h) /\ \A key \in Key \ {KeyOf(h)} : debit'[key] = debit[key]
      BY <3>2, <3>3
    <3>5. SumOver(debit', Key) = SumOver(debit, Key) + debit'[KeyOf(h)]
      BY <3>2, <3>3, <3>4, OneMore
    <3>6. TotalOf(debit)' = TotalOf(debit) + Prize(h)
      BY <3>2, <3>3, <3>4, <3>5 DEF TotalOf
    <3>7. Owed(h)' = Owed(h) - Prize(h) /\ Owed(h) \in Nat
      BY <1>0, <1>4, <2>5, <3>1, OwedShrinks, OwedType
    <3>8. TotalOf(debit) + Owed(h) <= inflow
      BY <1>0, <3>1 DEF FundCovers
    <3>9. Owed(h)' \in Nat
      BY <1>0, OwedTypesAfter DEF OwedInNat
    <3> HIDE DEF Owed, TotalOf, Prize
    <3>10. TotalOf(debit)' + Owed(h)' <= inflow' /\ TotalOf(debit)' <= inflow'
      BY <1>1, <3>2, <3>6, <3>7, <3>8, <3>9
    <3> QED  BY <2>3, <2>4, <3>10 DEF FundCovers
  <2>6. CASE ~PostDebit(h)
    <3>1. UNCHANGED debit
      <4>1. ASSUME NEW g \in Handlers, PostDebit(g) PROVE g = h
        BY <2>2, <4>1 DEF PostDebit
      <4> QED  BY <2>6, <4>1, MoneyFrame
    <3>2. TotalOf(debit)' = TotalOf(debit) /\ TotalOf(debit) <= inflow
      BY <1>0, <3>1 DEF TotalOf, FundCovers
    <3>3. ASSUME pc'[h] \in Loop PROVE TotalOf(debit) + Owed(h)' <= inflow'
      <4>1. CASE ReadFund(h)
        <5>1. Owed(h)' = SessionFund
          BY <4>1, FundIsOwed
        <5>2. SessionFund = inflow - TotalOf(debit)
          <6> HIDE DEF TotalOf
          <6> QED  BY <1>1, <3>2 DEF SessionFund, NonNegative
        <5> HIDE DEF Owed, TotalOf, SessionFund
        <5> QED  BY <1>1, <5>1, <5>2
      <4>2. CASE ~ReadFund(h)
        <5>1. Owed(h)' <= Owed(h) /\ Owed(h) \in Nat
          BY <1>0, <1>4, <3>3, <4>2, OwedShrinks, OwedType
        <5>2. TotalOf(debit) + Owed(h) <= inflow
          BY <1>0, <1>4, <3>3, <4>2, LoopSteps DEF FundCovers
        <5>3. Owed(h)' \in Nat
          BY <1>0, OwedTypesAfter DEF OwedInNat
        <5> HIDE DEF Owed, TotalOf
        <5> QED  BY <1>1, <5>1, <5>2, <5>3
      <4> QED  BY <4>1, <4>2
    <3> HIDE DEF Owed, TotalOf
    <3> QED  BY <1>1, <2>3, <2>4, <3>2, <3>3 DEF FundCovers
  <2> QED  BY <2>5, <2>6
<1>5. Around \/ UNCHANGED vars => UNCHANGED <<pc, my, debit>>
  BY DEF Around, OpenRead, OpenSave, EditSave, LatePayin, PrefsSave, EditRead, PrefsRead, vars, money
<1> QED  BY <1>3, <1>4, <1>5, NextMoves

LEMMA OneInit == Init => OneInv
<1> SUFFICES ASSUME Init PROVE OneInv
  OBVIOUS
<1>1. \A h \in Handlers : pc[h] = "idle" /\ pc[h] \notin Loop
  BY DEF Init, Loop, PlaceSteps
<1>2. DOMAIN debit = Key /\ (\A key \in Key : debit[key] = 0) /\ inflow \in Nat
  BY SceneFields DEF Init
<1>3. TotalOf(debit) = 0
  BY <1>2, KeyFinite, SumZero DEF TotalOf
<1> QED  BY <1>1, <1>2, <1>3 DEF OneInv, OneAtATime, FundCovers

-----------------------------------------------------------------------------
(* The fund *)

PayoutInv == TypeInv /\ SharesInv /\ RankInv /\ OneInv

LEMMA PayoutInvariant == Spec => []PayoutInv
<1>1. Init => PayoutInv
  BY TypeInvInit, SharesInit, RankInit, OneInit DEF PayoutInv
<1>2. PayoutInv /\ [Next]_vars => PayoutInv'
  BY TypeInvNext, SharesKept, RankKept, OneKept DEF PayoutInv
<1> QED  BY <1>1, <1>2, PTL DEF Spec

\* One request at a time never pays out more of the Players Fund than came in, for any
\* fund, players, points, edits, reopenings, crashes and late pay-ins; and closes that
\* overlap, where nobody can take a place from its holder, pay out a cent more at most.
THEOREM FundIsNeverOverdrawn == Spec => []FundNeverOverdrawn
<1>1. PayoutInv => FundNeverOverdrawn
  BY FrozenBound DEF PayoutInv, OneInv, FundCovers, FundNeverOverdrawn
<1> QED  BY <1>1, PayoutInvariant, PTL

-----------------------------------------------------------------------------
(* The promise *)

\* The promise adds up the way the fund does.
LEMMA PromiseSum == ASSUME NEW f, NEW S PROVE Promise!SumOver(f, S) = SumOver(f, S)
BY DEF Promise!SumOver, SumOver, Promise!MapThenSumSet, MapThenSumSet, Promise!MapThenFoldSet, MapThenFoldSet

LEMMA PromiseInit == Init => Promise!Init
<1> SUFFICES ASSUME Init PROVE Promise!Init
  OBVIOUS
<1>1. inflow \in Nat
  BY SceneFields DEF Init
<1>2. \A k \in Places, u \in Players : debit[<<k, u>>] = 0
  BY DEF Init, Key
<1>3. Awarded = [k \in Places |-> [u \in Players |-> 0]]
  BY <1>2 DEF Awarded
<1> QED  BY <1>1, <1>3 DEF Promise!Init

\* What is awarded in a frozen scene adds up to what was debited.
LEMMA SpentIsDebited ==
  ASSUME NEW d \in [Key -> Nat], NEW a, a = [k \in Places |-> [u \in Players |-> d[<<k, u>>]]]
  PROVE  Promise!Spent(a) = SumOver(d, Key)
<1> DEFINE f == [x \in Places \X Players |-> a[x[1]][x[2]]]
<1>1. f = d
  <2>1. \A x \in Key : f[x] = d[x]
    BY DEF Key
  <2> QED  BY <2>1 DEF Key
<1>2. Promise!Spent(a) = Promise!SumOver(f, Places \X Players)
  BY DEF Promise!Spent
<1> HIDE DEF f
<1> QED  BY <1>1, <1>2, PromiseSum DEF Key

LEMMA FrozenBounded == PayoutInv => (Frozen => TotalOf(debit) <= inflow + 1)
BY FrozenBound DEF PayoutInv

LEMMA FrozenBoundAfter == PayoutInv' => (Frozen => TotalOf(debit) <= inflow + 1)'
BY FrozenBounded, PTL

\* A debit that is posted awards its place, to a player who has it for good.
LEMMA PostAwards ==
  ASSUME PayoutInv, PayoutInv', scene' = scene, Frozen, NEW h \in Handlers, PostDebit(h)
  PROVE  Promise!Award(my[h].k, Payee(h))
<1> DEFINE k == my[h].k
           u == Payee(h)
           Shown(d) == [q \in Places |-> [v \in Players |-> d[<<q, v>>]]]
<1>0. TypeInv /\ RankInv
  BY DEF PayoutInv
<1>1. pc[h] \in PlaceSteps /\ pc[h] \in Filled
  BY DEF PostDebit, PlaceSteps, Filled, Loop
<1>2. /\ k \in Places /\ u \in Players /\ u \in Field /\ <<k, u>> \in Key /\ KeyOf(h) = <<k, u>>
      /\ Prize(h) \in Nat \ {0} /\ my[h].rows[u].place = k
  BY <1>0, <1>1, MoneyType, PayeeHolds, WorkTypes DEF KeyOf, TypeInv
<1>3. Ranked /\ Rank[u] = k
  BY <1>0, <1>1, <1>2 DEF RankInv
<1> HIDE DEF k, u
<1>4. /\ debit \in [Key -> Nat] /\ debit' \in [Key -> Nat]
      /\ debit[<<k, u>>] = 0 /\ debit' = [debit EXCEPT ![<<k, u>>] = Prize(h)]
      /\ UNCHANGED inflow
  BY <1>2 DEF PostDebit, Posted, PayoutInv, TypeInv, TypeOK, others
<1>5. Frozen' /\ Awarded = Shown(debit) /\ Awarded' = Shown(debit')
  BY RankFixed DEF Awarded
<1>6. ASSUME NEW v \in Players, debit[<<k, v>>] # 0 PROVE FALSE
  <2>1. <<k, v>> \in Key
    BY <1>2 DEF Key
  <2>2. v \in Field /\ Rank[v] = k
    BY <1>0, <1>6, <2>1 DEF RankInv
  <2>3. u = v
    <3> HIDE DEF Rank
    <3> QED  BY <1>2, <1>3, <2>2 DEF Ranked, Orders
  <2> QED  BY <1>4, <1>6, <2>3
<1>7. \A v \in Players : Awarded[k][v] = 0
  BY <1>2, <1>5, <1>6
<1>8. Awarded'[k][u] = Prize(h)
  BY <1>2, <1>4, <1>5
<1>9. Awarded' = [Awarded EXCEPT ![k][u] = Prize(h)]
  <2>1. \A q \in Places, v \in Players : <<q, v>> \in Key
    BY DEF Key
  <2>2. ASSUME NEW q \in Places, NEW v \in Players
        PROVE  Shown(debit')[q][v] = IF q = k /\ v = u THEN Prize(h) ELSE debit[<<q, v>>]
    BY <1>2, <1>4, <2>1
  <2>3. Shown(debit') = [q \in Places |-> [v \in Players |-> IF q = k /\ v = u THEN Prize(h) ELSE debit[<<q, v>>]]]
    BY <2>2
  <2>4. [Shown(debit) EXCEPT ![k][u] = Prize(h)]
          = [q \in Places |-> [v \in Players |-> IF q = k /\ v = u THEN Prize(h) ELSE debit[<<q, v>>]]]
    BY <1>2
  <2> QED  BY <1>5, <2>3, <2>4
<1>10. Promise!Spent(Awarded') <= inflow + 1
  <2>1. TotalOf(debit)' <= inflow' + 1
    BY <1>5, FrozenBoundAfter
  <2>2. Promise!Spent(Awarded') = SumOver(debit', Key)
    BY <1>4, <1>5, SpentIsDebited
  <2>3. TotalOf(debit)' = SumOver(debit', Key)
    BY <1>4 DEF TotalOf
  <2> QED  BY <1>4, <2>1, <2>2, <2>3
<1>11. UNCHANGED inflow
  BY <1>4
<1> HIDE DEF Awarded
<1> QED  BY <1>2, <1>7, <1>8, <1>9, <1>10, <1>11 DEF Promise!Award, Promise!RoundingCent, k, u

LEMMA PromiseStep == PayoutInv /\ PayoutInv' /\ [Next]_vars => [Promise!Next]_(Promise!promise)
<1> SUFFICES ASSUME PayoutInv, PayoutInv', [Next]_vars
             PROVE  [Promise!Next]_(Promise!promise)
  OBVIOUS
<1>0. scene' = scene /\ Frozen' = Frozen
  BY SceneFixed, RankFixed
<1>1. inflow \in Nat /\ inflow' \in Nat /\ inflow' >= inflow
  BY InflowGrows DEF PayoutInv
<1>2. ASSUME UNCHANGED Awarded PROVE [Promise!Next]_(Promise!promise)
  <2>1. CASE inflow' = inflow
    BY <1>2, <2>1 DEF Promise!promise
  <2>2. CASE inflow' # inflow
    <3>1. inflow' > inflow
      BY <1>1, <2>2
    <3> QED  BY <1>1, <1>2, <3>1 DEF Promise!Next, Promise!Deposit
  <2> QED  BY <2>1, <2>2
<1>3. CASE UNCHANGED debit \/ ~Frozen
  BY <1>0, <1>2, <1>3 DEF Awarded
<1>4. ASSUME NEW h \in Handlers, PostDebit(h), Frozen PROVE Promise!Next
  <2>1. Promise!Award(my[h].k, Payee(h))
    BY <1>0, <1>4, PostAwards
  <2>2. my[h].k \in Places /\ Payee(h) \in Players
    BY <1>4, MoneyType, WorkTypes DEF PostDebit, PlaceSteps, PayoutInv
  <2> QED  BY <2>1, <2>2 DEF Promise!Next
<1> QED  BY <1>3, <1>4, MoneyFrame

\* Every behaviour of the closes of a session, overlapping and cut short as they may be,
\* is one of RocPayoutPromise: where nobody can take a place from its holder, each place
\* is awarded once, to one player, out of the fund and its rounding cent.
THEOREM PayoutImplementsPromise == Spec => KeepsPromise
<1>1. Init => Promise!Init
  BY PromiseInit
<1>2. PayoutInv /\ PayoutInv' /\ [Next]_vars => [Promise!Next]_(Promise!promise)
  BY PromiseStep
<1>3. Spec => Promise!Init /\ [][Promise!Next]_(Promise!promise)
  BY <1>1, <1>2, PayoutInvariant, PTL DEF Spec
<1> QED  BY <1>3 DEF KeepsPromise, Promise!Spec

-----------------------------------------------------------------------------
(* Served one at a time, the books agree *)

\* How far the payment of a place has come.
Unmoved == {"create", "mark", "transfer", "failed"}
NoDebit == Unmoved \cup {"debitFind", "debitPost"}
NoLine == NoDebit \cup {"walletFind", "walletPost"}
Uncredited == {"creditRead", "credit"}
Unrecorded == (PlaceSteps \ Unmoved) \ {"paid", "standing"}

\* A payment nobody is at work on is whole, or was not made.
Settled(key) ==
  /\ wallet[key] = debit[key]
  /\ moved[key] # 0 => debit[key] = moved[key]
  /\ payout[key].status = "paid" <=> debit[key] # 0

\* The payment a request is at work on has been made as far as the request has come.
HalfPaid(h, key) ==
  /\ moved[key] = IF pc[h] \in Unmoved \/ ~Linked(Payee(h)) THEN 0 ELSE Prize(h)
  /\ debit[key] = IF pc[h] \in NoDebit THEN 0 ELSE Prize(h)
  /\ wallet[key] = IF pc[h] \in NoLine THEN 0 ELSE Prize(h)
  /\ payout[key].status = "paid" <=> pc[h] = "standing"
  /\ pc[h] \in {"outRead", "out"} => External(Payee(h))

AllLinked == \A u \in Players : scene.rail[u] # "usdcUnlinked"

\* What the ledger has credited u and the balance has not, and what has been sent u
\* and is not recorded.
Due(h, u) == IF pc[h] \in Uncredited /\ u = Payee(h) THEN Prize(h) ELSE 0
Unsaid(h, u) == IF pc[h] \in Unrecorded /\ u = Payee(h) /\ Linked(u) THEN Prize(h) ELSE 0

\* The books, when h is the request being served, if any is.
BooksAt(h) ==
  /\ \A key \in Key : pc[h] \notin PlaceSteps \/ key # KeyOf(h) => Settled(key)
  /\ pc[h] \in PlaceSteps => HalfPaid(h, KeyOf(h))
  /\ pc[h] \in {"credit", "out"} => my[h].bal = balance[Payee(h)]
  /\ \A u \in Players : balance[u].earned + Due(h, u) = TotalFor(wallet, u)
  /\ AllLinked => \A u \in Players : balance[u].paidOut + Unsaid(h, u) <= TotalFor(moved, u)

Alone(h) == \A g \in Handlers : g # h => pc[g] = "idle"
BooksInv == Calm => prefs = {} /\ \A h \in Handlers : Alone(h) => BooksAt(h)
\* Some request may run.
LEMMA SomeHandler == scene \in Scenes => Handlers # {}
<1> SUFFICES ASSUME scene \in Scenes, Handlers = {} PROVE FALSE
  OBVIOUS
<1>1. Cardinality(Handlers) = 0
  BY FS_EmptySet
<1>2. scene.atOnce \in 1 .. Cardinality(Handlers)
  BY PayoutAssumption
<1> QED  BY <1>1, <1>2

\* These are steps at a place.
LEMMA StepNames ==
  /\ Unmoved \subseteq PlaceSteps /\ NoDebit \subseteq PlaceSteps /\ NoLine \subseteq PlaceSteps
  /\ Uncredited \subseteq PlaceSteps /\ Unrecorded \subseteq PlaceSteps
BY DEF Unmoved, NoDebit, NoLine, Uncredited, Unrecorded, PlaceSteps

\* What a player has at the places changes by what it changes at one.
LEMMA OnePlaceMore ==
  ASSUME NEW f \in [Key -> Nat], NEW g \in [Key -> Nat], NEW x \in Key, NEW u \in Players,
         \A y \in Key \ {x} : g[y] = f[y]
  PROVE  /\ TotalFor(f, u) \in Nat /\ TotalFor(g, u) \in Nat
         /\ u = x[2] => TotalFor(g, u) = TotalFor(f, u) - f[x] + g[x]
         /\ u # x[2] => TotalFor(g, u) = TotalFor(f, u)
<1> DEFINE F == [k \in Places |-> f[<<k, u>>]]
           G == [k \in Places |-> g[<<k, u>>]]
<1>1. \A k \in Places : <<k, u>> \in Key
  BY DEF Key
<1>2. F \in [Places -> Nat] /\ G \in [Places -> Nat]
  BY <1>1
<1>3. x[1] \in Places /\ x = <<x[1], x[2]>>
  BY DEF Key
<1>4. \A k \in Places : (u = x[2] => k # x[1]) => G[k] = F[k]
  BY <1>1, <1>3
<1>5. u = x[2] => F[x[1]] = f[x] /\ G[x[1]] = g[x]
  BY <1>3
<1> HIDE DEF F, G
<1>6. IsFiniteSet(Places) /\ Places \in SUBSET Places /\ F \in [Places -> Int] /\ G \in [Places -> Int]
  BY <1>2, KeyFinite
<1>7. SumOver(F, Places) \in Nat /\ SumOver(G, Places) \in Nat
  BY <1>2, <1>6, SumNat
<1>8. CASE u = x[2]
  <2>1. \A k \in Places \ {x[1]} : G[k] = F[k]
    BY <1>4, <1>8
  <2>2. SumOver(G, Places) = SumOver(F, Places) - F[x[1]] + G[x[1]]
    BY <1>3, <1>6, <2>1, SumUpdate
  <2> QED  BY <1>5, <1>7, <1>8, <2>2 DEF TotalFor, F, G
<1>9. CASE u # x[2]
  <2>1. \A k \in Places : G[k] = F[k]
    BY <1>4, <1>9
  <2>2. SumOver(G, Places) = SumOver(F, Places)
    BY <1>6, <2>1, SumSame
  <2> QED  BY <1>7, <1>9, <2>2 DEF TotalFor, F, G
<1> QED  BY <1>8, <1>9

\* Where a request is and what it pays there depends on these.
LEMMA KeyStays ==
  ASSUME scene' = scene, NEW h \in Handlers,
         my'[h].rows = my[h].rows, my'[h].order = my[h].order, my'[h].k = my[h].k,
         my'[h].prizes = my[h].prizes
  PROVE  KeyOf(h)' = KeyOf(h) /\ Payee(h)' = Payee(h) /\ Prize(h)' = Prize(h)
<1>1. AtPlace(h)' = AtPlace(h)
  BY DEF AtPlace, Field
<1>2. Payee(h)' = Payee(h)
  BY <1>1 DEF Payee
<1> QED  BY <1>2 DEF KeyOf, Prize

\* Outside the places, and with the money untouched, the books stay as they are.
LEMMA BooksStay ==
  ASSUME NEW g \in Handlers, NEW h \in Handlers, BooksAt(h), scene' = scene, UNCHANGED money,
         pc[h] \notin PlaceSteps, pc'[g] \notin PlaceSteps
  PROVE  BooksAt(g)'
<1>1. /\ pc[h] \notin Uncredited /\ pc[h] \notin Unrecorded /\ pc'[g] \notin Uncredited /\ pc'[g] \notin Unrecorded
      /\ pc'[g] \notin {"credit", "out"}
  BY StepNames DEF PlaceSteps
<1>2. \A u \in Players : balance[u].earned + 0 = TotalFor(wallet, u)
  BY <1>1 DEF BooksAt, Due
<1>3. AllLinked => \A u \in Players : balance[u].paidOut + 0 <= TotalFor(moved, u)
  BY <1>1 DEF BooksAt, Unsaid
<1>4. \A key \in Key : Settled(key)
  BY DEF BooksAt
<1>5. UNCHANGED <<debit, wallet, payout, moved, balance>>
  BY DEF money
<1>6. (\A u \in Players : Due(g, u)' = 0 /\ Unsaid(g, u)' = 0) /\ AllLinked' = AllLinked
  BY <1>1 DEF Due, Unsaid, AllLinked
<1>7. \A u \in Players : balance'[u].earned + Due(g, u)' = TotalFor(wallet, u)'
  BY <1>2, <1>5, <1>6 DEF TotalFor
<1>8. AllLinked' => \A u \in Players : balance'[u].paidOut + Unsaid(g, u)' <= TotalFor(moved, u)'
  BY <1>3, <1>5, <1>6 DEF TotalFor
<1>9. \A key \in Key : Settled(key)'
  BY <1>4, <1>5 DEF Settled
<1> HIDE DEF Due, Unsaid, TotalFor, AllLinked, Settled
<1> QED  BY <1>1, <1>7, <1>8, <1>9 DEF BooksAt

\* What a step at a place has to keep, at the key, the payee and the prize it works
\* with: what it does not write stays, and the books of the payee move together.
LEMMA PlaceStep ==
  ASSUME TypeInv, TypeInv', NEW h \in Handlers, BooksAt(h), scene' = scene,
         pc'[h] \in PlaceSteps,
         NEW key \in Key, NEW u \in Players, NEW p \in Nat,
         KeyOf(h) = key, KeyOf(h)' = key, Payee(h) = u, Payee(h)' = u, Prize(h) = p, Prize(h)' = p, key[2] = u,
         \A x \in Key \ {key} : /\ debit'[x] = debit[x] /\ wallet'[x] = wallet[x]
                                /\ moved'[x] = moved[x] /\ payout'[x] = payout[x],
         \A v \in Players \ {u} : balance'[v] = balance[v],
         HalfPaid(h, key)',
         pc'[h] \in {"credit", "out"} => my'[h].bal = balance'[u],
         balance'[u].earned + (IF pc'[h] \in Uncredited THEN p ELSE 0) + wallet[key]
           = balance[u].earned + (IF pc[h] \in Uncredited THEN p ELSE 0) + wallet'[key],
         AllLinked =>
           balance'[u].paidOut + (IF pc'[h] \in Unrecorded /\ Linked(u) THEN p ELSE 0) + moved[key]
             <= balance[u].paidOut + (IF pc[h] \in Unrecorded /\ Linked(u) THEN p ELSE 0) + moved'[key]
  PROVE  BooksAt(h)'
<1>0. /\ wallet \in [Key -> Nat] /\ wallet' \in [Key -> Nat] /\ moved \in [Key -> Nat] /\ moved' \in [Key -> Nat]
      /\ \A v \in Players : /\ balance[v].earned \in Nat /\ balance[v].paidOut \in Nat
                            /\ balance'[v].earned \in Nat /\ balance'[v].paidOut \in Nat
  BY DEF TypeInv, TypeOK, Balance
<1>1. \A x \in Key : pc'[h] \notin PlaceSteps \/ x # KeyOf(h)' => Settled(x)'
  BY DEF BooksAt, Settled
<1>2. pc'[h] \in PlaceSteps => HalfPaid(h, KeyOf(h))'
  BY DEF HalfPaid
<1>3. Linked(u)' = Linked(u) /\ AllLinked' = AllLinked
  BY DEF Linked, AllLinked
<1>4. \A v \in Players : /\ TotalFor(wallet, v) \in Nat /\ TotalFor(wallet', v) \in Nat
                         /\ TotalFor(moved, v) \in Nat /\ TotalFor(moved', v) \in Nat
                         /\ v = u => /\ TotalFor(wallet', v) = TotalFor(wallet, v) - wallet[key] + wallet'[key]
                                     /\ TotalFor(moved', v) = TotalFor(moved, v) - moved[key] + moved'[key]
                         /\ v # u => /\ TotalFor(wallet', v) = TotalFor(wallet, v)
                                     /\ TotalFor(moved', v) = TotalFor(moved, v)
  BY <1>0, OnePlaceMore
<1>5. \A v \in Players : TotalFor(wallet, v)' = TotalFor(wallet', v) /\ TotalFor(moved, v)' = TotalFor(moved', v)
  BY DEF TotalFor
<1>6. \A v \in Players : /\ Due(h, v) = IF pc[h] \in Uncredited /\ v = u THEN p ELSE 0
                         /\ Due(h, v)' = IF pc'[h] \in Uncredited /\ v = u THEN p ELSE 0
                         /\ Unsaid(h, v) = IF pc[h] \in Unrecorded /\ v = u /\ Linked(v) THEN p ELSE 0
                         /\ Unsaid(h, v)' = IF pc'[h] \in Unrecorded /\ v = u /\ Linked(v) THEN p ELSE 0
  BY DEF Due, Unsaid, Linked
<1>7. \A v \in Players : balance[v].earned + Due(h, v) = TotalFor(wallet, v)
  BY DEF BooksAt
<1>8. AllLinked => \A v \in Players : balance[v].paidOut + Unsaid(h, v) <= TotalFor(moved, v)
  BY DEF BooksAt
<1>w. wallet[key] \in Nat /\ wallet'[key] \in Nat /\ moved[key] \in Nat /\ moved'[key] \in Nat
  BY <1>0
<1> HIDE DEF TotalFor, Due, Unsaid, Linked, AllLinked, HalfPaid, Settled
<1>9. ASSUME NEW v \in Players
      PROVE  balance'[v].earned + Due(h, v)' = TotalFor(wallet', v)
  <2>1. CASE v = u
    BY <1>0, <1>4, <1>6, <1>7, <1>w, <2>1
  <2>2. CASE v # u
    BY <1>4, <1>6, <1>7, <2>2
  <2> QED  BY <2>1, <2>2
<1>10. ASSUME AllLinked, NEW v \in Players
       PROVE  balance'[v].paidOut + Unsaid(h, v)' <= TotalFor(moved', v)
  <2>1. CASE v = u
    BY <1>0, <1>4, <1>6, <1>8, <1>10, <1>w, <2>1
  <2>2. CASE v # u
    BY <1>4, <1>6, <1>8, <1>10, <2>2
  <2> QED  BY <2>1, <2>2
<1>11. \A v \in Players : balance'[v].earned + Due(h, v)' = TotalFor(wallet, v)'
  BY <1>5, <1>9
<1>12. AllLinked' => \A v \in Players : balance'[v].paidOut + Unsaid(h, v)' <= TotalFor(moved, v)'
  BY <1>3, <1>5, <1>10
<1> QED  BY <1>1, <1>2, <1>11, <1>12 DEF BooksAt

\* What holds of a request at a place, and of the place it is at after a step that
\* leaves it there.
LEMMA AtThePlace ==
  ASSUME TypeInv, NEW h \in Handlers, BooksAt(h), pc[h] \in PlaceSteps
  PROVE  /\ KeyOf(h) \in Key /\ Payee(h) \in Players /\ Prize(h) \in Nat /\ Prize(h) > 0
         /\ KeyOf(h)[2] = Payee(h) /\ HalfPaid(h, KeyOf(h))
         /\ pc[h] \in {"credit", "out"} => my[h].bal = balance[Payee(h)]
<1>1. KeyOf(h)[2] = Payee(h)
  BY DEF KeyOf
<1> QED  BY <1>1, MoneyType DEF BooksAt

LEMMA StaysThere ==
  ASSUME TypeInv, scene' = scene, NEW h \in Handlers, NEW step \in PlaceSteps, Goto(h, step), UNCHANGED my
  PROVE  /\ pc'[h] = step
         /\ KeyOf(h)' = KeyOf(h) /\ Payee(h)' = Payee(h) /\ Prize(h)' = Prize(h)
<1>1. pc'[h] = step
  BY WorkTypes DEF Goto
<1> QED  BY <1>1, KeyStays

\* The steps that write the payout row and ask for the transfer.
LEMMA PayoutBooks ==
  ASSUME TypeInv, TypeInv', NEW h \in Handlers, BooksAt(h), "lost" \notin scene.outcomes,
         MarkTransferring(h) \/ Transfer(h) \/ SavePaid(h)
  PROVE  BooksAt(h)'
<1>0. pc[h] \in PlaceSteps /\ scene' = scene /\ UNCHANGED my /\ UNCHANGED <<debit, wallet, balance>>
  BY DEF MarkTransferring, Transfer, SavePaid, PlaceSteps, others
<1>1. PICK key \in Key, u \in Players, p \in Nat \ {0} : KeyOf(h) = key /\ Payee(h) = u /\ Prize(h) = p /\ key[2] = u
  BY <1>0, AtThePlace
<1>2. HalfPaid(h, key)
  BY <1>0, <1>1, AtThePlace
<1>3. PICK step \in PlaceSteps : Goto(h, step)
  BY DEF MarkTransferring, Transfer, SavePaid, AfterTransfer, PlaceSteps
<1>4. pc'[h] = step /\ KeyOf(h)' = key /\ Payee(h)' = u /\ Prize(h)' = p
  BY <1>0, <1>1, <1>3, StaysThere
<1>t. /\ payout \in [Key -> Payout] /\ moved \in [Key -> Nat] /\ wallet \in [Key -> Nat] /\ my[h].payout \in Payout
      /\ \A v \in Players : balance[v].earned \in Nat /\ balance[v].paidOut \in Nat
      /\ pc \in [Handlers -> Steps]
  BY WorkTypes DEF TypeInv, TypeOK, Balance
<1>5. CASE MarkTransferring(h)
  <2>1. pc[h] = "mark" /\ step = "transfer" /\ UNCHANGED moved
    BY <1>4, <1>5, <1>t DEF MarkTransferring, Goto
  <2>2. payout' = [payout EXCEPT ![key] = [my[h].payout EXCEPT !.status = "transferring"]]
    BY <1>1, <1>5 DEF MarkTransferring, SavePayoutAs
  <2>3. payout'[key].status = "transferring" /\ \A x \in Key \ {key} : payout'[x] = payout[x]
    BY <1>t, <2>2 DEF Payout
  <2>4. HalfPaid(h, key)'
    BY <1>0, <1>1, <1>2, <1>4, <2>1, <2>3 DEF HalfPaid, Unmoved, NoDebit, NoLine, Linked, External
  <2> QED  BY <1>0, <1>1, <1>4, <1>t, <2>1, <2>3, <2>4, PlaceStep DEF PlaceSteps, Uncredited, Unrecorded, Unmoved
<1>6. CASE SavePaid(h)
  <2>1. pc[h] = "paid" /\ step = "standing" /\ UNCHANGED moved
    BY <1>4, <1>6, <1>t DEF SavePaid, Goto
  <2>2. payout' = [payout EXCEPT ![key] = [my[h].payout EXCEPT !.status = "paid"]]
    BY <1>1, <1>6 DEF SavePaid, SavePayoutAs
  <2>3. payout'[key].status = "paid" /\ \A x \in Key \ {key} : payout'[x] = payout[x]
    BY <1>t, <2>2 DEF Payout
  <2>4. HalfPaid(h, key)'
    BY <1>0, <1>1, <1>2, <1>4, <2>1, <2>3 DEF HalfPaid, Unmoved, NoDebit, NoLine, Linked, External
  <2> QED  BY <1>0, <1>1, <1>4, <1>t, <2>1, <2>3, <2>4, PlaceStep DEF PlaceSteps, Uncredited, Unrecorded, Unmoved
<1>7. CASE Transfer(h)
  <2>1. pc[h] = "transfer" /\ UNCHANGED payout /\ moved[key] = 0
    BY <1>2, <1>7 DEF Transfer, HalfPaid, Unmoved
  <2>2. \/ ~Linked(u) /\ step = "debitFind" /\ UNCHANGED moved
        \/ Linked(u) /\ step = "debitFind" /\ moved' = [moved EXCEPT ![key] = p]
        \/ Linked(u) /\ step = "failed" /\ UNCHANGED moved
    BY <1>1, <1>4, <1>7, <1>t DEF Transfer, AfterTransfer, Goto
  <2>3. /\ moved'[key] = IF step = "failed" \/ ~Linked(u) THEN 0 ELSE p
        /\ \A x \in Key \ {key} : moved'[x] = moved[x]
        /\ step \in {"debitFind", "failed"}
    BY <1>t, <2>1, <2>2
  <2>4. HalfPaid(h, key)'
    BY <1>0, <1>1, <1>2, <1>4, <2>1, <2>3 DEF HalfPaid, Unmoved, NoDebit, NoLine, Linked, External
  <2> QED  BY <1>0, <1>1, <1>4, <1>t, <2>1, <2>3, <2>4, PlaceStep DEF PlaceSteps, Uncredited, Unrecorded, Unmoved
<1> QED  BY <1>5, <1>6, <1>7

\* Looking for the ledger lines and posting them.
LEMMA LineBooks ==
  ASSUME TypeInv, TypeInv', NEW h \in Handlers, BooksAt(h),
         FindDebit(h) \/ PostDebit(h) \/ FindWallet(h) \/ PostWallet(h)
  PROVE  BooksAt(h)'
<1>0. pc[h] \in PlaceSteps /\ scene' = scene /\ UNCHANGED my /\ UNCHANGED <<payout, moved, balance>>
  BY DEF FindDebit, PostDebit, FindWallet, PostWallet, PlaceSteps, others, money
<1>1. PICK key \in Key, u \in Players, p \in Nat \ {0} : KeyOf(h) = key /\ Payee(h) = u /\ Prize(h) = p /\ key[2] = u
  BY <1>0, AtThePlace
<1>2. HalfPaid(h, key)
  BY <1>0, <1>1, AtThePlace
<1>3. PICK step \in PlaceSteps : Goto(h, step)
  BY DEF FindDebit, PostDebit, FindWallet, PostWallet, PlaceSteps
<1>4. pc'[h] = step /\ KeyOf(h)' = key /\ Payee(h)' = u /\ Prize(h)' = p
  BY <1>0, <1>1, <1>3, StaysThere
<1>t. /\ debit \in [Key -> Nat] /\ moved \in [Key -> Nat] /\ wallet \in [Key -> Nat]
      /\ \A v \in Players : balance[v].earned \in Nat /\ balance[v].paidOut \in Nat
      /\ pc \in [Handlers -> Steps]
  BY WorkTypes DEF TypeInv, TypeOK, Balance
<1>5. \/ pc[h] = "debitFind" /\ step = "debitPost" /\ UNCHANGED <<debit, wallet>>
      \/ pc[h] = "debitPost" /\ step = "walletFind" /\ debit' = [debit EXCEPT ![key] = p] /\ UNCHANGED wallet
      \/ pc[h] = "walletFind" /\ step = "walletPost" /\ UNCHANGED <<debit, wallet>>
      \/ pc[h] = "walletPost" /\ step = "creditRead" /\ wallet' = [wallet EXCEPT ![key] = p] /\ UNCHANGED debit
  <2>1. pc[h] = "debitFind" => ~Posted(debit, h)
    BY <1>1, <1>2 DEF HalfPaid, NoDebit, Posted
  <2>2. pc[h] = "walletFind" => ~Posted(wallet, h)
    BY <1>1, <1>2 DEF HalfPaid, NoLine, Posted
  <2> QED  BY <1>1, <1>4, <1>t, <2>1, <2>2 DEF FindDebit, PostDebit, FindWallet, PostWallet, Goto, money
<1>6. /\ debit'[key] = (IF pc[h] = "debitPost" THEN p ELSE debit[key])
      /\ wallet'[key] = (IF pc[h] = "walletPost" THEN p ELSE wallet[key])
      /\ \A x \in Key \ {key} : debit'[x] = debit[x] /\ wallet'[x] = wallet[x]
  BY <1>5, <1>t
<1>7. HalfPaid(h, key)'
  BY <1>0, <1>1, <1>2, <1>4, <1>5, <1>6 DEF HalfPaid, Unmoved, NoDebit, NoLine, Linked, External
<1>8. /\ step \notin {"credit", "out"}
      /\ pc[h] \in Unrecorded /\ step \in Unrecorded
      /\ pc[h] \notin Uncredited /\ (step \in Uncredited <=> pc[h] = "walletPost")
      /\ pc[h] = "walletPost" => wallet[key] = 0
  BY <1>2, <1>5 DEF HalfPaid, NoLine, PlaceSteps, Uncredited, Unrecorded, Unmoved
<1> QED  BY <1>0, <1>1, <1>4, <1>t, <1>6, <1>7, <1>8, PlaceStep DEF PlaceSteps

\* The same of a step that reads the payout row or the balance.
LEMMA ReadsThere ==
  ASSUME TypeInv, scene' = scene, NEW h \in Handlers, NEW step \in PlaceSteps, Goto(h, step), NEW x,
         my' = [my EXCEPT ![h].payout = x] \/ my' = [my EXCEPT ![h].bal = x]
  PROVE  /\ pc'[h] = step
         /\ my' = [my EXCEPT ![h].payout = x] => my'[h].payout = x
         /\ my' = [my EXCEPT ![h].bal = x] => my'[h].bal = x
         /\ KeyOf(h)' = KeyOf(h) /\ Payee(h)' = Payee(h) /\ Prize(h)' = Prize(h)
<1>1. pc'[h] = step
  BY WorkTypes DEF Goto
<1>2. my \in [Handlers -> Work] /\ my[h] \in Work
  BY WorkTypes
<1>3. /\ my' = [my EXCEPT ![h].payout = x] => my'[h].payout = x
      /\ my' = [my EXCEPT ![h].bal = x] => my'[h].bal = x
  BY <1>2 DEF Work
<1>4. /\ my'[h].rows = my[h].rows /\ my'[h].order = my[h].order
      /\ my'[h].k = my[h].k /\ my'[h].prizes = my[h].prizes
  BY <1>2 DEF Work
<1> QED  BY <1>1, <1>3, <1>4, KeyStays

\* Creating the payout row, and the winner's balance.
LEMMA BalanceBooks ==
  ASSUME TypeInv, TypeInv', NEW h \in Handlers, BooksAt(h),
         \/ CreatePayout(h) \/ ReadBalance(h, "creditRead", "credit") \/ CreditAvailable(h)
         \/ ReadBalance(h, "outRead", "out") \/ RecordExternalPaidOut(h)
  PROVE  BooksAt(h)'
<1>0. pc[h] \in PlaceSteps /\ scene' = scene /\ UNCHANGED <<debit, wallet, moved>>
  BY DEF CreatePayout, ReadBalance, CreditAvailable, RecordExternalPaidOut, PlaceSteps, others, money
<1>1. PICK key \in Key, u \in Players, p \in Nat \ {0} : KeyOf(h) = key /\ Payee(h) = u /\ Prize(h) = p /\ key[2] = u
  BY <1>0, AtThePlace
<1>2. HalfPaid(h, key) /\ (pc[h] \in {"credit", "out"} => my[h].bal = balance[u])
  BY <1>0, <1>1, AtThePlace
<1>3. PICK step \in PlaceSteps : Goto(h, step)
  BY DEF CreatePayout, ReadBalance, CreditAvailable, RecordExternalPaidOut, PlaceSteps
<1>t. /\ payout \in [Key -> Payout] /\ wallet \in [Key -> Nat] /\ moved \in [Key -> Nat]
      /\ balance \in [Players -> Balance] /\ my \in [Handlers -> Work] /\ my[h] \in Work
      /\ balance[u].earned \in Nat /\ balance[u].paidOut \in Nat /\ wallet[key] \in Nat /\ moved[key] \in Nat
      /\ pc \in [Handlers -> Steps]
  BY WorkTypes DEF TypeInv, TypeOK, Balance
<1>5. CASE CreatePayout(h)
  <2> DEFINE row == [status |-> "finalized", gross |-> p]
  <2>1. pc[h] = "create" /\ step = "mark" /\ UNCHANGED balance
    BY <1>3, <1>5, <1>t DEF CreatePayout, Goto
  <2>2. my' = [my EXCEPT ![h].payout = row]
    BY <1>1, <1>5 DEF CreatePayout
  <2> HIDE DEF row
  <2>3. pc'[h] = "mark" /\ my'[h].payout = row /\ KeyOf(h)' = key /\ Payee(h)' = u /\ Prize(h)' = p
    BY <1>0, <1>1, <1>3, <2>1, <2>2, ReadsThere
  <2>4. payout' = [payout EXCEPT ![key] = row]
    BY <1>1, <1>5, <2>3 DEF CreatePayout
  <2>5. payout'[key].status = "finalized" /\ \A x \in Key \ {key} : payout'[x] = payout[x]
    BY <1>t, <2>4 DEF row
  <2>6. HalfPaid(h, key)'
    BY <1>0, <1>1, <1>2, <2>1, <2>3, <2>5 DEF HalfPaid, Unmoved, NoDebit, NoLine, Linked, External
  <2> QED  BY <1>0, <1>1, <1>t, <2>1, <2>3, <2>5, <2>6, PlaceStep DEF PlaceSteps, Uncredited, Unrecorded, Unmoved
<1>6. CASE ReadBalance(h, "creditRead", "credit") \/ ReadBalance(h, "outRead", "out")
  <2>1. /\ (pc[h] = "creditRead" /\ step = "credit") \/ (pc[h] = "outRead" /\ step = "out")
        /\ UNCHANGED <<balance, payout>>
    <3>1. UNCHANGED <<balance, payout>>
      BY <1>6 DEF ReadBalance, money
    <3>2. /\ (pc[h] = "creditRead" /\ Goto(h, "credit")) \/ (pc[h] = "outRead" /\ Goto(h, "out"))
      BY <1>6 DEF ReadBalance
    <3> QED  BY <1>3, <1>t, <3>1, <3>2 DEF Goto
  <2>2. PICK b : my' = [my EXCEPT ![h].bal = b] /\ b = balance[u]
    BY <1>1, <1>6 DEF ReadBalance
  <2>3. pc'[h] = step /\ my'[h].bal = b /\ KeyOf(h)' = key /\ Payee(h)' = u /\ Prize(h)' = p
    BY <1>0, <1>1, <1>3, <2>2, ReadsThere
  <2>4. HalfPaid(h, key)'
    BY <1>0, <1>1, <1>2, <2>1, <2>3 DEF HalfPaid, Unmoved, NoDebit, NoLine, Linked, External
  <2>5. /\ step \in Uncredited <=> pc[h] \in Uncredited
        /\ step \in Unrecorded /\ pc[h] \in Unrecorded
    BY <2>1 DEF PlaceSteps, Uncredited, Unrecorded, Unmoved
  <2> QED  BY <1>0, <1>1, <1>t, <2>1, <2>2, <2>3, <2>4, <2>5, PlaceStep
<1>7. CASE CreditAvailable(h)
  <2>1. /\ pc[h] = "credit" /\ UNCHANGED <<my, payout>>
        /\ step = IF External(u) THEN "outRead" ELSE "paid"
    BY <1>1, <1>3, <1>7, <1>t DEF CreditAvailable, Goto
  <2>2. pc'[h] = step /\ KeyOf(h)' = key /\ Payee(h)' = u /\ Prize(h)' = p
    BY <1>0, <1>1, <1>3, <2>1, StaysThere
  <2>3. balance' = [balance EXCEPT ![u] = [balance[u] EXCEPT !.available = @ + p, !.earned = @ + p]]
    BY <1>1, <1>2, <1>7, <2>1 DEF CreditAvailable
  <2>4. /\ balance'[u].earned = balance[u].earned + p /\ balance'[u].paidOut = balance[u].paidOut
        /\ \A v \in Players \ {u} : balance'[v] = balance[v]
    BY <1>t, <2>3 DEF Balance
  <2>5. HalfPaid(h, key)'
    BY <1>0, <1>1, <1>2, <2>1, <2>2 DEF HalfPaid, Unmoved, NoDebit, NoLine, Linked, External
  <2>6. /\ step \notin Uncredited /\ pc[h] \in Uncredited /\ pc[h] \in Unrecorded
        /\ step \in Unrecorded \/ ~Linked(u)
    BY <2>1 DEF PlaceSteps, Uncredited, Unrecorded, Unmoved, External, Linked
  <2>7. step \notin {"credit", "out"}
    BY <2>1
  <2> QED  BY <1>0, <1>1, <1>t, <2>1, <2>2, <2>4, <2>5, <2>6, <2>7, PlaceStep
<1>8. CASE RecordExternalPaidOut(h)
  <2>1. pc[h] = "out" /\ UNCHANGED <<my, payout>> /\ step = "paid"
    BY <1>1, <1>3, <1>8, <1>t DEF RecordExternalPaidOut, Goto
  <2>2. pc'[h] = step /\ KeyOf(h)' = key /\ Payee(h)' = u /\ Prize(h)' = p
    BY <1>0, <1>1, <1>3, <2>1, StaysThere
  <2>3. balance' = [balance EXCEPT ![u] = [balance[u] EXCEPT !.available = NonNegative(@ - p), !.paidOut = @ + p]]
    BY <1>1, <1>2, <1>8, <2>1 DEF RecordExternalPaidOut
  <2>4. /\ balance'[u].earned = balance[u].earned /\ balance'[u].paidOut = balance[u].paidOut + p
        /\ \A v \in Players \ {u} : balance'[v] = balance[v]
    BY <1>t, <2>3 DEF Balance
  <2>5. HalfPaid(h, key)'
    BY <1>0, <1>1, <1>2, <2>1, <2>2 DEF HalfPaid, Unmoved, NoDebit, NoLine, Linked, External
  <2>6. step \notin Uncredited /\ pc[h] \notin Uncredited /\ pc[h] \in Unrecorded /\ step \notin Unrecorded
    BY <2>1 DEF PlaceSteps, Uncredited, Unrecorded, Unmoved
  <2>7. AllLinked =>
          balance'[u].paidOut + (IF step \in Unrecorded /\ Linked(u) THEN p ELSE 0) + moved[key]
             <= balance[u].paidOut + (IF pc[h] \in Unrecorded /\ Linked(u) THEN p ELSE 0) + moved'[key]
    <3>1. External(u)
      BY <1>1, <1>2, <2>1 DEF HalfPaid
    <3>2. AllLinked => Linked(u)
      BY <1>0, <3>1, SceneFields DEF AllLinked, External, Linked, TypeInv, TypeOK
    <3> QED  BY <1>0, <1>t, <2>4, <2>6, <3>2
  <2> QED  BY <1>0, <1>1, <1>t, <2>1, <2>2, <2>4, <2>5, <2>6, <2>7, PlaceStep
<1> QED  BY <1>5, <1>6, <1>7, <1>8

\* Coming to a place that is not paid yet: nothing has been done there.
LEMMA FindBooks ==
  ASSUME TypeInv, TypeInv', NEW h \in Handlers, BooksAt(h), FindPayout(h)
  PROVE  BooksAt(h)'
<1>0. /\ pc[h] = "find" /\ scene' = scene /\ UNCHANGED <<debit, wallet, payout, moved, balance>>
      /\ AtPlace(h) # {} /\ Prize(h) > 0 /\ payout[KeyOf(h)].status # "paid"
  BY DEF FindPayout, others, money, Unpaid
<1>1. PICK key \in Key, u \in Players, p \in Nat : KeyOf(h) = key /\ Payee(h) = u /\ Prize(h) = p /\ key[2] = u
  BY <1>0, PayeeHolds, WorkTypes DEF KeyOf, Prize, TypeInv
<1>2. Settled(key)
  BY <1>0 DEF BooksAt, PlaceSteps
<1>3. PICK step \in {"create", "mark"} : Goto(h, step)
  BY DEF FindPayout
<1>4. step \in PlaceSteps
  BY DEF PlaceSteps
<1>5. pc'[h] = step /\ KeyOf(h)' = key /\ Payee(h)' = u /\ Prize(h)' = p
  <2>1. PICK x : my' = [my EXCEPT ![h].payout = x]
    BY DEF FindPayout
  <2> QED  BY <1>0, <1>1, <1>3, <1>4, <2>1, ReadsThere
<1>t. /\ wallet[key] \in Nat /\ debit[key] \in Nat /\ moved[key] \in Nat
      /\ \A v \in Players : balance[v].earned \in Nat /\ balance[v].paidOut \in Nat
  BY DEF TypeInv, TypeOK, Balance
<1>6. debit[key] = 0 /\ wallet[key] = 0 /\ moved[key] = 0 /\ payout[key].status # "paid"
  BY <1>0, <1>1, <1>2, <1>t DEF Settled
<1>7. HalfPaid(h, key)'
  BY <1>0, <1>5, <1>6 DEF HalfPaid, Unmoved, NoDebit, NoLine, Linked, External
<1> QED  BY <1>0, <1>1, <1>4, <1>5, <1>7, <1>t, PlaceStep DEF PlaceSteps, Uncredited, Unrecorded, Unmoved

\* Leaving a place: the payment has been made there, or none of it has.
LEMMA LeaveBooks ==
  ASSUME TypeInv, TypeInv', NEW h \in Handlers, BooksAt(h), SaveFailed(h) \/ SaveWinner(h) \/ Collide(h)
  PROVE  BooksAt(h)'
<1>0. pc[h] \in PlaceSteps /\ scene' = scene /\ UNCHANGED <<debit, wallet, moved, balance>>
  BY DEF SaveFailed, SaveWinner, Collide, PlaceSteps, others, money
<1>1. PICK key \in Key, u \in Players, p \in Nat \ {0} : KeyOf(h) = key /\ Payee(h) = u /\ Prize(h) = p /\ key[2] = u
  BY <1>0, AtThePlace
<1>2. HalfPaid(h, key)
  BY <1>0, <1>1, AtThePlace
<1>t. payout \in [Key -> Payout] /\ pc \in [Handlers -> Steps] /\ my[h].payout \in Payout
  BY WorkTypes DEF TypeInv, TypeOK
<1>3. pc'[h] \notin PlaceSteps
  BY <1>t DEF SaveFailed, SaveWinner, Collide, NextPlace, End, Goto, PlaceSteps
<1>4. pc[h] \in {"create", "failed", "standing"}
  BY <1>1, <1>2 DEF SaveFailed, SaveWinner, Collide, HalfPaid, Posted, NoDebit, NoLine
<1>5. Settled(key)' /\ \A x \in Key \ {key} : payout'[x] = payout[x]
  <2>1. CASE SaveFailed(h)
    <3>1. payout' = [payout EXCEPT ![key] = [my[h].payout EXCEPT !.status = "failed"]]
      BY <1>1, <2>1 DEF SaveFailed, SavePayoutAs
    <3>2. payout'[key].status = "failed" /\ \A x \in Key \ {key} : payout'[x] = payout[x]
      BY <1>t, <3>1 DEF Payout
    <3> QED  BY <1>0, <1>1, <1>2, <2>1, <3>2 DEF SaveFailed, Settled, HalfPaid, Unmoved, NoDebit, NoLine
  <2>2. CASE SaveWinner(h) \/ Collide(h)
    <3>1. UNCHANGED payout
      BY <2>2 DEF SaveWinner, Collide, money
    <3> QED  BY <1>0, <1>1, <1>2, <1>4, <2>2, <3>1 DEF SaveWinner, Collide, Settled, HalfPaid, Unmoved, NoDebit, NoLine
  <2> QED  BY <2>1, <2>2
<1>6. \A x \in Key : Settled(x)'
  <2>1. \A x \in Key \ {key} : Settled(x)
    BY <1>1 DEF BooksAt
  <2>2. \A x \in Key \ {key} : Settled(x)'
    BY <1>0, <1>5, <2>1 DEF Settled
  <2> QED  BY <1>5, <2>2
<1>7. \A v \in Players : Due(h, v) = 0 /\ Due(h, v)' = 0 /\ Unsaid(h, v) = 0 /\ Unsaid(h, v)' = 0
  BY <1>3, <1>4, StepNames DEF Due, Unsaid, Uncredited, Unrecorded, Unmoved
<1>8. AllLinked' = AllLinked
  BY <1>0 DEF AllLinked
<1>9. \A v \in Players : balance'[v].earned + Due(h, v)' = TotalFor(wallet, v)'
  BY <1>0, <1>7 DEF BooksAt, TotalFor
<1>10. AllLinked' => \A v \in Players : balance'[v].paidOut + Unsaid(h, v)' <= TotalFor(moved, v)'
  BY <1>0, <1>7, <1>8 DEF BooksAt, TotalFor
<1>11. pc'[h] \notin {"credit", "out"}
  BY <1>3 DEF PlaceSteps
<1> HIDE DEF Due, Unsaid, TotalFor, AllLinked, Settled
<1> QED  BY <1>3, <1>6, <1>9, <1>10, <1>11 DEF BooksAt

\* The other steps of a request touch no money, before the places or after them.
LEMMA RestBooks ==
  ASSUME TypeInv, TypeInv', scene.atOnce = 1, NEW h \in Handlers, Moves(h), BooksAt(h), ~Abort(h),
         ~(CreatePayout(h) \/ MarkTransferring(h) \/ Transfer(h) \/ SavePaid(h) \/ FindPayout(h)),
         ~(FindDebit(h) \/ PostDebit(h) \/ FindWallet(h) \/ PostWallet(h)),
         ~(ReadBalance(h, "creditRead", "credit") \/ CreditAvailable(h)),
         ~(ReadBalance(h, "outRead", "out") \/ RecordExternalPaidOut(h)),
         ~(SaveFailed(h) \/ SaveWinner(h) \/ Collide(h))
  PROVE  BooksAt(h)'
<1>1. Gate(h) \/ ReadStandings(h, "read", "save") \/ SaveStandings(h, "save", "fund") \/ ReadFund(h)
      \/ SkipPlace(h) \/ CloseSession(h) \/ (\E ack \in BOOLEAN : Close(h, ack)) \/ Audit(h)
  BY DEF Moves, Step, PayPlaces
<1>2. scene' = scene /\ UNCHANGED money
  <2>1. CASE Gate(h)
    BY <2>1 DEF Gate, AuditReadSession, ReadStandings, SaveStandings, AuditVerdict, Reload, Hold, Override, Lock, others
  <2> QED  BY <1>1, <2>1 DEF ReadStandings, SaveStandings, ReadFund, SkipPlace, CloseSession, Close, Audit, others
<1>3. pc[h] \notin PlaceSteps /\ pc'[h] \notin PlaceSteps
  <2>0. pc \in [Handlers -> Steps]
    BY WorkTypes
  <2>1. CASE Gate(h)
    <3>1. PICK step \in AuditSteps \cup {"idle"} : Goto(h, step)
      BY <2>1 DEF Gate, AuditReadSession, ReadStandings, SaveStandings, AuditVerdict, Reload, Hold, Override, Lock, End,
        AuditSteps
    <3>2. pc[h] \in AuditSteps
      BY <2>1 DEF Gate, AuditReadSession, ReadStandings, SaveStandings, AuditVerdict, Reload, Hold, Override, Lock,
        AuditSteps
    <3> QED  BY <2>0, <3>1, <3>2 DEF Goto, AuditSteps, PlaceSteps
  <2>2. CASE (\E ack \in BOOLEAN : Close(h, ack)) \/ Audit(h)
    <3>1. pc[h] = "idle"
      BY <2>2, ArrivesAlone DEF Close, Audit
    <3>2. Goto(h, "audit")
      BY <2>2 DEF Close, Audit
    <3> QED  BY <2>0, <3>1, <3>2 DEF Goto, PlaceSteps
  <2>3. CASE \/ ReadStandings(h, "read", "save") \/ SaveStandings(h, "save", "fund") \/ ReadFund(h)
             \/ SkipPlace(h) \/ CloseSession(h)
    BY <2>0, <2>3 DEF ReadStandings, SaveStandings, ReadFund, SkipPlace, CloseSession, NextPlace, End, Goto, PlaceSteps
  <2> QED  BY <1>1, <2>1, <2>2, <2>3
<1> QED  BY <1>2, <1>3, BooksStay

\* The books stay in order at a step of the one request that is served.
LEMMA ServedBooks ==
  ASSUME TypeInv, TypeInv', scene.atOnce = 1, "lost" \notin scene.outcomes, NEW h \in Handlers,
         Moves(h), BooksAt(h), ~Abort(h)
  PROVE  BooksAt(h)'
BY PayoutBooks, LineBooks, BalanceBooks, FindBooks, LeaveBooks, RestBooks

\* A request saves no preferences, and only an audit or its end is counted.
LEMMA MovesCount ==
  ASSUME NEW h \in Handlers, Moves(h)
  PROVE  UNCHANGED prefs /\ (UNCHANGED count \/ Audit(h) \/ Abort(h))
<1>1. CASE Gate(h)
  BY <1>1 DEF Gate, AuditReadSession, ReadStandings, SaveStandings, AuditVerdict, Reload, Hold, Override, Lock, others
<1>2. CASE PayPlaces(h)
  BY <1>2 DEF PayPlaces, ReadStandings, SaveStandings, ReadFund, SkipPlace, FindPayout, CreatePayout,
    MarkTransferring, Transfer, SaveFailed, FindDebit, PostDebit, FindWallet, PostWallet, Collide, ReadBalance,
    CreditAvailable, RecordExternalPaidOut, SavePaid, SaveWinner, CloseSession, others
<1>3. CASE (\E ack \in BOOLEAN : Close(h, ack)) \/ Audit(h) \/ Abort(h)
  BY <1>3 DEF Close, Audit, Abort, others
<1> QED  BY <1>1, <1>2, <1>3 DEF Moves, Step

\* Once something has disturbed the calm, it stays disturbed.
LEMMA CalmBefore ==
  ASSUME TypeInv, [Next]_vars, Calm'
  PROVE  /\ Calm /\ (\A h \in Handlers : ~Abort(h)) /\ \A u \in Field : ~PrefsRead(u)
<1>1. scene' = scene /\ count.aborts \in Nat /\ count.prefs \in Nat
  BY SceneFixed DEF TypeInv, TypeOK
<1>2. /\ scene.atOnce = 1 /\ "lost" \notin scene.outcomes
      /\ count'.aborts = 0 /\ count'.prefs = 0
  BY <1>1 DEF Calm
<1>t. count \in [aborts : Nat, opens : Nat, edits : Nat, audits : Nat, late : Nat, prefs : Nat]
  BY DEF TypeInv, TypeOK
<1>3. \A c \in [aborts : Nat, opens : Nat, edits : Nat, audits : Nat, late : Nat, prefs : Nat] :
        /\ [c EXCEPT !.aborts = @ + 1].aborts # 0 /\ [c EXCEPT !.prefs = @ + 1].prefs # 0
        /\ [c EXCEPT !.opens = @ + 1].aborts = c.aborts /\ [c EXCEPT !.opens = @ + 1].prefs = c.prefs
        /\ [c EXCEPT !.edits = @ + 1].aborts = c.aborts /\ [c EXCEPT !.edits = @ + 1].prefs = c.prefs
        /\ [c EXCEPT !.audits = @ + 1].aborts = c.aborts /\ [c EXCEPT !.audits = @ + 1].prefs = c.prefs
        /\ [c EXCEPT !.late = @ + 1].aborts = c.aborts /\ [c EXCEPT !.late = @ + 1].prefs = c.prefs
  OBVIOUS
<1>4. ASSUME NEW h \in Handlers, Abort(h) PROVE FALSE
  BY <1>2, <1>3, <1>4, <1>t DEF Abort
<1>5. ASSUME NEW u \in Field, PrefsRead(u) PROVE FALSE
  BY <1>2, <1>3, <1>5, <1>t DEF PrefsRead
<1>6. count'.aborts = count.aborts /\ count'.prefs = count.prefs
  <2>1. ASSUME NEW h \in Handlers, Moves(h) PROVE UNCHANGED count \/ Audit(h)
    BY <1>4, <2>1, MovesCount
  <2>2. ASSUME NEW h \in Handlers, Audit(h) PROVE count'.aborts = count.aborts /\ count'.prefs = count.prefs
    BY <1>3, <1>t, <2>2 DEF Audit
  <2>3. CASE Around
    BY <1>3, <1>5, <1>t, <2>3 DEF Around, OpenRead, OpenSave, EditSave, LatePayin, PrefsSave, EditRead
  <2>4. CASE UNCHANGED vars
    BY <2>4 DEF vars
  <2> QED  BY <2>1, <2>2, <2>3, <2>4, NextMoves
<1> QED  BY <1>1, <1>2, <1>4, <1>5, <1>6 DEF Calm

\* When nothing runs, the books do not depend on who was served last.
IdleAlike == \A g, h \in Handlers : pc[g] = "idle" /\ pc[h] = "idle" /\ BooksAt(h) => BooksAt(g)

LEMMA IdleBooks == IdleAlike
<1> SUFFICES ASSUME NEW g \in Handlers, NEW h \in Handlers, pc[g] = "idle", pc[h] = "idle", BooksAt(h)
             PROVE  BooksAt(g)
  BY DEF IdleAlike
<1>1. /\ "idle" \notin PlaceSteps /\ "idle" \notin Uncredited /\ "idle" \notin Unrecorded
      /\ "idle" \notin {"credit", "out"}
  BY StepNames DEF PlaceSteps
<1>2. \A u \in Players : Due(g, u) = 0 /\ Due(h, u) = 0 /\ Unsaid(g, u) = 0 /\ Unsaid(h, u) = 0
  BY <1>1 DEF Due, Unsaid
<1> QED  BY <1>1, <1>2 DEF BooksAt

LEMMA IdleBooksAfter == IdleAlike'
BY IdleBooks, PTL

\* The books depend on these variables only.
LEMMA SameBooks ==
  ASSUME UNCHANGED <<scene, pc, my, money>>, NEW h \in Handlers, BooksAt(h)
  PROVE  BooksAt(h)'
<1>1. UNCHANGED <<debit, wallet, payout, moved, balance>>
  BY DEF money
<1>2. KeyOf(h)' = KeyOf(h) /\ Payee(h)' = Payee(h) /\ Prize(h)' = Prize(h)
  BY KeyStays
<1>3. /\ \A u \in Players : Linked(u)' = Linked(u) /\ External(u)' = External(u)
      /\ Linked(Payee(h))' = Linked(Payee(h)) /\ External(Payee(h))' = External(Payee(h))
      /\ AllLinked' = AllLinked
  BY <1>2 DEF Linked, External, AllLinked
<1>4. /\ \A u \in Players : /\ Due(h, u)' = Due(h, u) /\ Unsaid(h, u)' = Unsaid(h, u)
                            /\ TotalFor(wallet, u)' = TotalFor(wallet, u) /\ TotalFor(moved, u)' = TotalFor(moved, u)
      /\ \A key \in Key : Settled(key)' = Settled(key)
      /\ HalfPaid(h, KeyOf(h))' = HalfPaid(h, KeyOf(h))
  BY <1>1, <1>2, <1>3 DEF Due, Unsaid, TotalFor, Settled, HalfPaid
<1> QED  BY <1>1, <1>2, <1>3, <1>4 DEF BooksAt

LEMMA BooksKept == TypeInv /\ OneInv /\ BooksInv /\ [Next]_vars => BooksInv'
<1> SUFFICES ASSUME TypeInv, OneInv, BooksInv, [Next]_vars, Calm'
             PROVE  prefs' = {} /\ \A h \in Handlers : Alone(h)' => BooksAt(h)'
  BY DEF BooksInv
<1>0. TypeInv' /\ OneInv' /\ scene' = scene
  BY TypeInvNext, OneKept, SceneFixed
<1>1. /\ Calm /\ (\A h \in Handlers : ~Abort(h)) /\ \A u \in Field : ~PrefsRead(u)
  BY CalmBefore
<1>2. prefs = {} /\ \A h \in Handlers : Alone(h) => BooksAt(h)
  BY <1>1 DEF BooksInv
<1>3. scene.atOnce = 1 /\ "lost" \notin scene.outcomes /\ OneAtATime
  BY <1>1 DEF Calm, OneInv
<1>4. ASSUME NEW h \in Handlers, Moves(h) PROVE prefs' = {} /\ \A g \in Handlers : Alone(g)' => BooksAt(g)'
  <2>1. Alone(h) /\ Alone(h)'
    <3>1. \A g \in Handlers \ {h} : pc[g] = "idle" /\ pc'[g] = pc[g]
      BY <1>3, <1>4, BusyMoves, MovesAlone DEF OneAtATime
    <3> QED  BY <3>1 DEF Alone
  <2>2. BooksAt(h)'
    BY <1>0, <1>1, <1>2, <1>3, <1>4, <2>1, ServedBooks
  <2>3. UNCHANGED prefs
    BY <1>4, MovesCount
  <2>4. ASSUME NEW g \in Handlers, g # h, Alone(g)' PROVE BooksAt(g)'
    <3>1. pc'[g] = "idle" /\ pc'[h] = "idle"
      BY <2>1, <2>4 DEF Alone
    <3> QED  BY <2>2, <3>1, IdleBooksAfter DEF IdleAlike
  <2> QED  BY <1>2, <2>2, <2>3, <2>4
<1>5. CASE UNCHANGED <<scene, pc, my, money, prefs>>
  <2>1. \A h \in Handlers : Alone(h)' = Alone(h)
    BY <1>5 DEF Alone
  <2>2. \A h \in Handlers : BooksAt(h) => BooksAt(h)'
    BY <1>5, SameBooks
  <2> QED  BY <1>2, <1>5, <2>1, <2>2
<1>6. Around => UNCHANGED <<scene, pc, my, money, prefs>>
  BY <1>1, <1>2 DEF Around, OpenRead, OpenSave, EditSave, LatePayin, PrefsSave, EditRead
<1>7. UNCHANGED vars => UNCHANGED <<scene, pc, my, money, prefs>>
  BY DEF vars, money
<1> QED  BY <1>4, <1>5, <1>6, <1>7, NextMoves

LEMMA BooksInit == Init => BooksInv
<1> SUFFICES ASSUME Init PROVE prefs = {} /\ \A h \in Handlers : BooksAt(h)
  BY DEF BooksInv
<1>0. /\ debit = [key \in Key |-> 0] /\ wallet = [key \in Key |-> 0] /\ moved = [key \in Key |-> 0]
      /\ payout = [key \in Key |-> NoPayout] /\ pc = [h \in Handlers |-> "idle"] /\ prefs = {}
      /\ balance = [u \in Players |-> [available |-> 0, earned |-> 0, paidOut |-> 0]]
  BY DEF Init
<1>1. \A key \in Key : Settled(key)
  BY <1>0 DEF Settled, NoPayout, None
<1>2. /\ "idle" \notin PlaceSteps /\ "idle" \notin Uncredited /\ "idle" \notin Unrecorded
      /\ "idle" \notin {"credit", "out"}
  BY StepNames DEF PlaceSteps
<1>3. \A u \in Players : TotalFor(wallet, u) = 0 /\ TotalFor(moved, u) = 0
  <2>1. ASSUME NEW f, f = [key \in Key |-> 0], NEW u \in Players PROVE TotalFor(f, u) = 0
    <3> DEFINE F == [k \in Places |-> f[<<k, u>>]]
    <3>1. \A k \in Places : F[k] = 0
      BY <2>1 DEF Key
    <3> HIDE DEF F
    <3>2. SumOver(F, Places) = 0
      BY <3>1, KeyFinite, SumZero
    <3> QED  BY <3>2 DEF F, TotalFor
  <2> QED  BY <1>0, <2>1
<1>4. \A h \in Handlers, u \in Players : Due(h, u) = 0 /\ Unsaid(h, u) = 0
  BY <1>0, <1>2 DEF Due, Unsaid
<1> QED  BY <1>0, <1>1, <1>2, <1>3, <1>4 DEF BooksAt

\* Where requests are served one at a time, none is cut short and no answer of Stripe is
\* lost, balances, ledger lines, transfers and payout rows agree whenever nothing runs,
\* and no player is ever recorded as paid out more than was sent, whatever sessions are
\* opened again, standings edited and pay-ins confirmed late.
THEOREM BooksAlwaysAgree == Spec => []BooksAgree
<1>1. TypeInv /\ OneInv /\ BooksInv => BooksAgree
  <2> SUFFICES ASSUME TypeInv, OneInv, BooksInv, Calm PROVE BooksAgree
    BY DEF BooksAgree, EarnedMatchesLedger, PaidOutWasSent, SentIsDebited
  <2>1. PICK g \in Handlers : Alone(g)
    <3>1. OneAtATime
      BY DEF OneInv, Calm
    <3>2. Handlers # {}
      BY SomeHandler DEF TypeInv, TypeOK
    <3> QED  BY <3>1, <3>2 DEF OneAtATime, Alone
  <2>2. BooksAt(g)
    BY <2>1 DEF BooksInv
  <2>3. ASSUME Quiet
        PROVE  /\ \A key \in Key : Settled(key)
               /\ \A u \in Players : balance[u].earned = TotalFor(wallet, u)
    <3>1. pc[g] = "idle" /\ "idle" \notin PlaceSteps /\ "idle" \notin Uncredited
      BY <2>3, StepNames DEF Quiet, PlaceSteps
    <3>2. \A u \in Players : Due(g, u) = 0 /\ balance[u].earned \in Nat
      BY <3>1 DEF Due, TypeInv, TypeOK, Balance
    <3> QED  BY <2>2, <3>1, <3>2 DEF BooksAt
  <2>4. ASSUME AllLinked, NEW u \in Players PROVE balance[u].paidOut <= TotalFor(moved, u)
    <3>1. balance[u].paidOut \in Nat /\ Unsaid(g, u) \in Nat /\ balance[u].paidOut + Unsaid(g, u) <= TotalFor(moved, u)
      BY <2>2, <2>4, WorkTypes DEF BooksAt, Unsaid, Prize, TypeInv, TypeOK, Balance
    <3>2. TotalFor(moved, u) \in Nat
      <4>1. moved \in [Key -> Nat] /\ <<1, u>> \in Key
        BY KeyFinite DEF TypeInv, TypeOK, Key
      <4> QED  BY <4>1, OnePlaceMore
    <3> QED  BY <3>1, <3>2
  <2> QED  BY <2>3, <2>4 DEF BooksAgree, EarnedMatchesLedger, PaidOutWasSent, SentIsDebited, Settled, AllLinked
<1>2. Init => TypeInv /\ OneInv /\ BooksInv
  BY TypeInvInit, OneInit, BooksInit
<1>3. TypeInv /\ OneInv /\ BooksInv /\ [Next]_vars => TypeInv' /\ OneInv' /\ BooksInv'
  BY TypeInvNext, OneKept, BooksKept
<1> QED  BY <1>1, <1>2, <1>3, PTL DEF Spec
=============================================================================
