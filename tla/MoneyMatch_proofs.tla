-------------------------- MODULE MoneyMatch_proofs --------------------------
(***************************************************************************)
(* MoneyMatch for any scores, any number of requests and any errors and    *)
(* crashes: its types, that stakes are held, released and rated only with  *)
(* the consent the code asks for, and, when requests come one after        *)
(* another, paid and rated once.                                           *)
(***************************************************************************)
EXTENDS MoneyMatch, TLAPS

Work == [score : Scores \cup {NoScore}, winner : Players \cup {Nobody}, row : Match]
Steps == {"new", "hold", "refund", "release", "save", "saveResult", "rate", "done"}

-----------------------------------------------------------------------------
(* Type correctness *)

\* A request that is about to move the escrow has a hold, and one that settles
\* the match has a score and a winner.
Equipped(r) ==
  /\ pc[r] \in {"release", "refund"} => my[r].row.escrow = "HELD" /\ my[r].row.hold \in Requests
  /\ pc[r] \in {"release", "saveResult", "rate"} => my[r].score \in Scores /\ my[r].winner \in Players

TypeInv == TypeOK /\ \A r \in Requests : Equipped(r)

LEMMA NewMatchIsMatch == NewMatch \in Match /\ NoWork \in Work
BY DEF NewMatch, NoWork, Work, Match, NoPending, NoHold, NoScore, Nobody, Players

LEMMA TypeInit == Init => TypeInv
<1> SUFFICES ASSUME Init PROVE TypeInv
  OBVIOUS
<1>1. match \in Match /\ my \in [Requests -> Work]
  BY NewMatchIsMatch DEF Init
<1>2. paid \in [Requests -> [Ways -> Nat]]
  BY DEF Init
<1>3. errors \in 0 .. MaxErrors /\ aborts \in 0 .. MaxAborts
  BY MoneyMatchAssumption DEF Init
<1>4. TypeOK
  BY <1>1, <1>2, <1>3 DEF Init, TypeOK, Work
<1>5. \A r \in Requests : Equipped(r)
  BY DEF Init, Equipped
<1> QED  BY <1>4, <1>5 DEF TypeInv

\* Every change the actions make to a row leaves a row.
LEMMA RowChanges ==
  ASSUME NEW row \in Match
  PROVE  /\ \A p \in Players : [row EXCEPT !.confirmed = @ \cup {p}] \in Match
         /\ \A s \in {"ACTIVE", "DISPUTED", "COMPLETED"} : [row EXCEPT !.status = s] \in Match
         /\ \A e \in {"HELD", "RELEASED", "REFUNDED", "FAILED"} : [row EXCEPT !.escrow = e] \in Match
         /\ \A h \in Requests, e \in {"HELD", "FAILED"} : [row EXCEPT !.escrow = e, !.hold = h] \in Match
         /\ \A w \in Players : Settled(row, w) \in Match
         /\ \A q \in [score : Scores \cup {NoScore}, by : SUBSET Players] : [row EXCEPT !.pending = q] \in Match
<1>1. \A p \in Players : [row EXCEPT !.confirmed = @ \cup {p}] \in Match
  BY DEF Match, Players
<1>2. \A s \in {"ACTIVE", "DISPUTED", "COMPLETED"} : [row EXCEPT !.status = s] \in Match
  BY DEF Match
<1>3. \A e \in {"HELD", "RELEASED", "REFUNDED", "FAILED"} : [row EXCEPT !.escrow = e] \in Match
  BY DEF Match
<1>4. \A h \in Requests, e \in {"HELD", "FAILED"} : [row EXCEPT !.escrow = e, !.hold = h] \in Match
  BY DEF Match
<1>5. NoPending \in [score : Scores \cup {NoScore}, by : SUBSET Players]
  BY DEF NoPending
<1>6. \A w \in Players : Settled(row, w) \in Match
  BY <1>5 DEF Match, Settled
<1>7. \A q \in [score : Scores \cup {NoScore}, by : SUBSET Players] : [row EXCEPT !.pending = q] \in Match
  BY DEF Match
<1> QED  BY <1>1, <1>2, <1>3, <1>4, <1>6, <1>7

\* A request that takes in a row, or goes on with a changed one, has its types.
LEMMA TakeType ==
  ASSUME TypeInv, NEW r \in Requests, NEW row \in Match, NEW step \in Steps,
         Take(r, row, step),
         step = "refund" => row.escrow = "HELD" /\ row.hold \in Requests,
         step \in {"release", "saveResult", "rate"} => my[r].score \in Scores /\ my[r].winner \in Players,
         step # "release"
  PROVE  /\ pc' \in [Requests -> Steps]
         /\ my' \in [Requests -> Work]
         /\ \A q \in Requests : Equipped(q)'
<1>1. my \in [Requests -> Work] /\ pc \in [Requests -> Steps]
  BY DEF TypeInv, TypeOK, Work, Steps
<1>2. /\ [my[r] EXCEPT !.row = row] \in Work /\ [my[r] EXCEPT !.row = row].row = row
      /\ [my[r] EXCEPT !.row = row].score = my[r].score /\ [my[r] EXCEPT !.row = row].winner = my[r].winner
  BY <1>1 DEF Work
<1>3. my' = [my EXCEPT ![r] = [my[r] EXCEPT !.row = row]] /\ pc' = [pc EXCEPT ![r] = step]
  BY DEF Take, Goto
<1> QED  BY <1>1, <1>2, <1>3 DEF TypeInv, Equipped

LEMMA AnswerType ==
  ASSUME TypeInv, NEW r \in Requests, Answer(r)
  PROVE  /\ pc' \in [Requests -> Steps]
         /\ my' \in [Requests -> Work]
         /\ \A q \in Requests : Equipped(q)'
BY NewMatchIsMatch DEF Answer, Goto, TypeInv, TypeOK, Equipped, Work, Steps

LEMMA SettleType ==
  ASSUME TypeInv, NEW r \in Requests, NEW score \in Scores, NEW winner \in Players,
         Settle(r, score, winner)
  PROVE  /\ pc' \in [Requests -> Steps]
         /\ my' \in [Requests -> Work]
         /\ \A q \in Requests : Equipped(q)'
<1> DEFINE w == [score |-> score, winner |-> winner, row |-> Settled(match, winner)]
           step == IF InEscrow(match) THEN "release" ELSE "saveResult"
<1>1. match \in Match /\ Settled(match, winner) \in Match
  BY RowChanges DEF TypeInv, TypeOK
<1>2. /\ Settled(match, winner).escrow = match.escrow
      /\ Settled(match, winner).hold = match.hold
  BY <1>1 DEF Settled, Match
<1>3. w \in Work
  BY <1>1 DEF Work
<1>4. step \in Steps
  BY DEF Steps
<1>5. step = "release" => match.escrow = "HELD" /\ match.hold \in Requests
  BY <1>1 DEF InEscrow, Match
<1>6. my' = [my EXCEPT ![r] = w] /\ pc' = [pc EXCEPT ![r] = step]
  BY DEF Settle, Goto
<1>7. w.score = score /\ w.winner = winner /\ w.row = Settled(match, winner)
  OBVIOUS
<1>8. my \in [Requests -> Work] /\ pc \in [Requests -> Steps]
  BY DEF TypeInv, TypeOK, Work, Steps
<1>9. step # "refund"
  OBVIOUS
<1> HIDE DEF w, step
<1> QED  BY <1>2, <1>3, <1>4, <1>5, <1>6, <1>7, <1>8, <1>9 DEF TypeInv, Equipped

\* What a request only writes down leaves the other variables well typed.
LEMMA ToldType ==
  ASSUME TypeInv
  PROVE  /\ \A p \in Players : staked \cup {p} \subseteq Players
         /\ \A p \in Players, s \in Scores : [reported EXCEPT ![p] = @ \cup {s}] \in [Players -> SUBSET Scores]
         /\ \A s \in Scores, w \in Players :
              ruled \cup {[score |-> s, winner |-> w]} \subseteq [score : Scores, winner : Players]
BY DEF TypeInv, TypeOK

LEMMA NewOverlap ==
  ASSUME TypeInv, NEW r \in Requests, New(r)
  PROVE  overlapped' \in BOOLEAN
BY DEF TypeInv, TypeOK, New

LEMMA ConfirmType ==
  ASSUME TypeInv, NEW r \in Requests, NEW p \in Players, Confirm(r, p)
  PROVE  TypeInv'
<1> DEFINE row == [match EXCEPT !.confirmed = @ \cup {p}]
<1>1. match \in Match /\ row \in Match /\ [row EXCEPT !.status = "ACTIVE"] \in Match
  BY RowChanges DEF TypeInv, TypeOK
<1>2. Take(r, [row EXCEPT !.status = "ACTIVE"], "hold") \/ Take(r, row, "save")
  BY DEF Confirm
<1>3. /\ pc' \in [Requests -> Steps] /\ my' \in [Requests -> Work]
      /\ \A q \in Requests : Equipped(q)'
  BY <1>1, <1>2, TakeType DEF Steps
<1>4. overlapped' \in BOOLEAN /\ staked' \subseteq Players
  BY NewOverlap, ToldType DEF Confirm
<1> QED  BY <1>1, <1>3, <1>4 DEF Confirm, TypeInv, TypeOK, faults, Work, Steps

LEMMA HoldType ==
  ASSUME TypeInv, NEW r \in Requests, Hold(r)
  PROVE  TypeInv'
<1>t. my \in [Requests -> Work] /\ pc \in [Requests -> Steps] /\ my[r].row \in Match
  BY DEF TypeInv, TypeOK, Work, Steps
<1>1. PICK e \in {"HELD", "FAILED"} : Take(r, [my[r].row EXCEPT !.escrow = e, !.hold = r], "save")
  BY DEF Hold
<1>2. [my[r].row EXCEPT !.escrow = e, !.hold = r] \in Match
  BY <1>t, RowChanges
<1>3. /\ pc' \in [Requests -> Steps] /\ my' \in [Requests -> Work]
      /\ \A q \in Requests : Equipped(q)'
  BY <1>1, <1>2, TakeType DEF Steps
<1>6. errors' \in 0 .. MaxErrors
  BY MoneyMatchAssumption DEF Hold, TypeInv, TypeOK
<1> QED  BY <1>3, <1>6 DEF Hold, TypeInv, TypeOK, told, Work, Steps

LEMMA ProposeType ==
  ASSUME TypeInv, NEW r \in Requests, NEW p \in Players, NEW score \in Scores, Propose(r, p, score)
  PROVE  TypeInv'
<1>t. match \in Match
  BY DEF TypeInv, TypeOK
<1>1. Proposal(p, score) \in [score : Scores \cup {NoScore}, by : SUBSET Players]
  BY <1>t DEF Proposal, Match
<1>2. [match EXCEPT !.pending = Proposal(p, score)] \in Match
  BY <1>t, <1>1, RowChanges
<1>3. Take(r, [match EXCEPT !.pending = Proposal(p, score)], "save")
  BY DEF Propose
<1>4. /\ pc' \in [Requests -> Steps] /\ my' \in [Requests -> Work]
      /\ \A q \in Requests : Equipped(q)'
  BY <1>2, <1>3, TakeType DEF Steps
<1>5. overlapped' \in BOOLEAN /\ reported' \in [Players -> SUBSET Scores]
  BY NewOverlap, ToldType DEF Propose
<1> QED  BY <1>t, <1>4, <1>5 DEF Propose, TypeInv, TypeOK, faults, Work, Steps

LEMMA FileType ==
  ASSUME TypeInv, NEW r \in Requests, SetLivestream(r) \/ Dispute(r) \/ CallOff(r)
  PROVE  TypeInv'
<1>t. match \in Match
  BY DEF TypeInv, TypeOK
<1>1. [match EXCEPT !.status = "DISPUTED"] \in Match /\ [match EXCEPT !.status = "COMPLETED"] \in Match
  BY <1>t, RowChanges
<1>2. InEscrow([match EXCEPT !.status = "COMPLETED"]) =>
        /\ [match EXCEPT !.status = "COMPLETED"].escrow = "HELD"
        /\ [match EXCEPT !.status = "COMPLETED"].hold \in Requests
  BY <1>t DEF InEscrow, Match
<1>3. \/ Take(r, match, "save") \/ Take(r, [match EXCEPT !.status = "DISPUTED"], "save")
      \/ Take(r, [match EXCEPT !.status = "COMPLETED"], "save")
      \/ Take(r, [match EXCEPT !.status = "COMPLETED"], "refund") /\ InEscrow([match EXCEPT !.status = "COMPLETED"])
  BY DEF SetLivestream, Dispute, CallOff
<1>4. /\ pc' \in [Requests -> Steps] /\ my' \in [Requests -> Work]
      /\ \A q \in Requests : Equipped(q)'
  BY <1>t, <1>1, <1>2, <1>3, TakeType DEF Steps
<1>5. overlapped' \in BOOLEAN
  BY NewOverlap DEF SetLivestream, Dispute, CallOff
<1> QED  BY <1>t, <1>4, <1>5 DEF SetLivestream, Dispute, CallOff, TypeInv, TypeOK, told, faults, Work, Steps

LEMMA SettlesType ==
  ASSUME TypeInv, NEW r \in Requests, NEW score \in Scores, NEW p \in Players,
         Complete(r, p, score) \/ Rule(r, score, p)
  PROVE  TypeInv'
<1>1. WinnerOf[score] \in Players
  BY MoneyMatchAssumption
<1>2. /\ pc' \in [Requests -> Steps] /\ my' \in [Requests -> Work]
      /\ \A q \in Requests : Equipped(q)'
  BY <1>1, SettleType DEF Complete, Rule
<1>3. overlapped' \in BOOLEAN /\ reported' \in [Players -> SUBSET Scores]
      /\ ruled' \subseteq [score : Scores, winner : Players]
  BY NewOverlap, ToldType DEF Complete, Rule, TypeInv, TypeOK
<1> QED  BY <1>2, <1>3 DEF Complete, Rule, TypeInv, TypeOK, faults, Work, Steps

\* Refund and Release count one more payment of a hold that exists.
LEMMA PayType ==
  ASSUME TypeInv, NEW r \in Requests, Refund(r) \/ Release(r)
  PROVE  TypeInv'
<1>t. /\ my \in [Requests -> Work] /\ pc \in [Requests -> Steps] /\ my[r].row \in Match
      /\ paid \in [Requests -> [Ways -> Nat]]
  BY DEF TypeInv, TypeOK, Work, Steps
<1>1. my[r].row.hold \in Requests /\ (Release(r) => my[r].winner \in Players)
  BY DEF Refund, Release, TypeInv, Equipped
<1>2. PICK way \in Ways : paid' = [paid EXCEPT ![my[r].row.hold][way] = @ + 1]
  BY <1>1 DEF Refund, Release, Ways
<1>3. paid' \in [Requests -> [Ways -> Nat]]
  BY <1>t, <1>1, <1>2
<1>4. PICK e \in {"REFUNDED", "RELEASED", "FAILED"}, step \in {"save", "saveResult"} :
        /\ Take(r, [my[r].row EXCEPT !.escrow = e], step)
        /\ step = "saveResult" => Release(r)
  BY DEF Refund, Release
<1>5. [my[r].row EXCEPT !.escrow = e] \in Match
  BY <1>t, RowChanges
<1>6. Release(r) => my[r].score \in Scores /\ my[r].winner \in Players
  BY DEF Release, TypeInv, Equipped
<1>7. /\ pc' \in [Requests -> Steps] /\ my' \in [Requests -> Work]
      /\ \A q \in Requests : Equipped(q)'
  BY <1>4, <1>5, <1>6, TakeType DEF Steps
<1>8. errors' \in 0 .. MaxErrors
  BY MoneyMatchAssumption DEF Refund, Release, TypeInv, TypeOK, faults
<1> QED  BY <1>3, <1>7, <1>8 DEF Refund, Release, TypeInv, TypeOK, told, faults, Work, Steps

LEMMA FinishType ==
  ASSUME TypeInv, NEW r \in Requests, Save(r) \/ Rate(r) \/ Abort(r)
  PROVE  TypeInv'
<1>t. /\ my \in [Requests -> Work] /\ pc \in [Requests -> Steps] /\ my[r].row \in Match
      /\ rated \in [Players -> Nat]
  BY DEF TypeInv, TypeOK, Work, Steps
<1>1. CASE Save(r)
  <2>1. /\ pc' \in [Requests -> Steps] /\ my' \in [Requests -> Work]
        /\ \A q \in Requests : Equipped(q)'
    <3>1. CASE pc[r] = "saveResult"
      BY <1>1, <1>t, <3>1 DEF Save, Goto, TypeInv, Equipped, Steps
    <3>2. CASE pc[r] # "saveResult"
      BY <1>1, <3>2, AnswerType DEF Save
    <3> QED  BY <3>1, <3>2
  <2> QED  BY <1>1, <1>t, <2>1 DEF Save, TypeInv, TypeOK, told, faults, Work, Steps
<1>2. CASE Rate(r)
  <2>1. RatedWinner(r) \in Players
    BY <1>2, MoneyMatchAssumption DEF Rate, RatedWinner, TypeInv, Equipped
  <2>2. rated' \in [Players -> Nat]
    BY <1>2, <1>t, <2>1 DEF Rate
  <2> QED  BY <1>2, <2>2, AnswerType DEF Rate, TypeInv, TypeOK, told, faults, Work, Steps
<1>3. CASE Abort(r)
  <2>1. aborts' \in 0 .. MaxAborts
    BY <1>3, MoneyMatchAssumption DEF Abort, TypeInv, TypeOK
  <2> QED  BY <1>3, <2>1, AnswerType DEF Abort, TypeInv, TypeOK, told, Work, Steps
<1> QED  BY <1>1, <1>2, <1>3

LEMMA TypeStep == TypeInv /\ [Next]_vars => TypeInv'
<1> SUFFICES ASSUME TypeInv, [Next]_vars PROVE TypeInv'
  OBVIOUS
<1>1. ASSUME NEW r \in Requests, Arrive(r) PROVE TypeInv'
  BY <1>1, ConfirmType, ProposeType, FileType, SettlesType DEF Arrive
<1>2. ASSUME NEW r \in Requests, Hold(r) \/ Refund(r) \/ Release(r) \/ Save(r) \/ Rate(r) \/ Abort(r)
      PROVE  TypeInv'
  BY <1>2, HoldType, PayType, FinishType
<1>3. CASE UNCHANGED vars
  BY <1>3 DEF vars, TypeInv, TypeOK, Equipped
<1> QED  BY <1>1, <1>2, <1>3 DEF Next

LEMMA TypeAlways == Spec => []TypeInv
BY TypeInit, TypeStep, PTL DEF Spec

\* Whichever copies of the row overwrite each other, and wherever requests are
\* cut short, rows stay well formed and a request that moves the escrow has a
\* hold to move.
THEOREM TypeCorrect == Spec => []TypeOK
<1>1. TypeInv => TypeOK
  BY DEF TypeInv
<1> QED  BY <1>1, TypeAlways, PTL

-----------------------------------------------------------------------------
(* Consent *)

\* What a row says was asked for by the players it names: the stakes confirmed,
\* the pending score reported, the escrow held.  Stale copies say less than the
\* players have done since, never more.
Sound(row, st, rep, h) ==
  /\ row.confirmed \subseteq st
  /\ \A p \in row.pending.by : row.pending.score \in rep[p]
  /\ row.escrow = "HELD" => row.hold \in h

\* A result comes from both players or from an arbiter.
Backed(score, winner, rep, ru) ==
  \/ winner = WinnerOf[score] /\ \A q \in Players : score \in rep[q]
  \/ [score |-> score, winner |-> winner] \in ru

WithConsent(r) ==
  /\ Sound(my[r].row, staked, reported, held)
  /\ pc[r] = "hold" => my[r].row.confirmed = Players
  /\ pc[r] \in {"release", "saveResult", "rate"} => Backed(my[r].score, my[r].winner, reported, ruled)

ConsentInv ==
  /\ TypeInv
  /\ HeldByConsent
  /\ ReleasedByAgreement
  /\ RatedByAgreement
  /\ Sound(match, staked, reported, held)
  /\ \A r \in Requests : WithConsent(r)

\* What was asked for stays asked for.
LEMMA SoundStays ==
  ASSUME NEW row \in Match, NEW st \in SUBSET Players, NEW h \in SUBSET Requests,
         NEW rep \in [Players -> SUBSET Scores],
         NEW st2 \in SUBSET Players, NEW h2 \in SUBSET Requests, NEW rep2 \in [Players -> SUBSET Scores],
         st \subseteq st2, h \subseteq h2, \A p \in Players : rep[p] \subseteq rep2[p],
         Sound(row, st, rep, h)
  PROVE  Sound(row, st2, rep2, h2)
BY DEF Sound, Match

LEMMA BackedStays ==
  ASSUME NEW rep \in [Players -> SUBSET Scores], NEW rep2 \in [Players -> SUBSET Scores], NEW ru, NEW ru2,
         NEW score, NEW winner,
         \A p \in Players : rep[p] \subseteq rep2[p], ru \subseteq ru2,
         Backed(score, winner, rep, ru)
  PROVE  Backed(score, winner, rep2, ru2)
BY DEF Backed

\* Consent only grows.
Growing ==
  /\ staked \subseteq staked' /\ held \subseteq held' /\ ruled \subseteq ruled'
  /\ \A p \in Players : reported[p] \subseteq reported'[p]

LEMMA ConsentGrows == TypeInv /\ [Next]_vars => Growing
<1> SUFFICES ASSUME TypeInv, [Next]_vars PROVE Growing
  OBVIOUS
<1> USE DEF Growing
<1>1. ASSUME NEW r \in Requests, Arrive(r) PROVE Growing
  <2>1. ASSUME NEW p \in Players, Confirm(r, p) PROVE Growing
    BY <2>1 DEF Confirm
  <2>2. ASSUME NEW p \in Players, NEW score \in Scores, Propose(r, p, score) \/ Complete(r, p, score) PROVE Growing
    BY <2>2 DEF Propose, Complete, TypeInv, TypeOK
  <2>3. ASSUME NEW p \in Players, NEW score \in Scores, Rule(r, score, p) PROVE Growing
    BY <2>3 DEF Rule
  <2>4. ASSUME SetLivestream(r) \/ Dispute(r) \/ CallOff(r) PROVE Growing
    BY <2>4 DEF SetLivestream, Dispute, CallOff, told
  <2> QED  BY <1>1, <2>1, <2>2, <2>3, <2>4 DEF Arrive
<1>2. ASSUME NEW r \in Requests, Hold(r) \/ Refund(r) \/ Release(r) \/ Save(r) \/ Rate(r) \/ Abort(r)
      PROVE  Growing
  BY <1>2 DEF Hold, Refund, Release, Save, Rate, Abort, told
<1>3. CASE UNCHANGED vars
  BY <1>3 DEF vars
<1> QED  BY <1>1, <1>2, <1>3 DEF Next

\* Holds, releases and ratings that had consent have it still.
LEMMA AgreedStays ==
  ASSUME TypeInv, Growing, TypeInv'
  PROVE  /\ \A p \in Players : AgreedOn(p) => AgreedOn(p)'
         /\ \A row \in Match : Sound(row, staked, reported, held) => Sound(row, staked', reported', held')
         /\ \A score \in Scores, winner \in Players :
              Backed(score, winner, reported, ruled) => Backed(score, winner, reported', ruled')
<1>t. /\ staked \in SUBSET Players /\ staked' \in SUBSET Players
      /\ held \in SUBSET Requests /\ held' \in SUBSET Requests
      /\ reported \in [Players -> SUBSET Scores] /\ reported' \in [Players -> SUBSET Scores]
  BY DEF TypeInv, TypeOK
<1>1. \A p \in Players : AgreedOn(p) => AgreedOn(p)'
  BY DEF AgreedOn, Growing
<1>2. \A row \in Match : Sound(row, staked, reported, held) => Sound(row, staked', reported', held')
  BY <1>t, SoundStays DEF Growing
<1>3. \A score \in Scores, winner \in Players :
        Backed(score, winner, reported, ruled) => Backed(score, winner, reported', ruled')
  BY <1>t, BackedStays DEF Growing
<1> QED  BY <1>1, <1>2, <1>3

\* A backed result makes its winner the agreed or the ruled one, and its score
\* justifies a rating.
LEMMA BackedIsAgreed ==
  ASSUME TypeInv, NEW score \in Scores, NEW winner \in Players, Backed(score, winner, reported, ruled)
  PROVE  /\ AgreedOn(winner) \/ \E v \in ruled : v.winner = winner
         /\ AgreedOn(WinnerOf[score]) \/ \E v \in ruled : WinnerOf[v.score] = WinnerOf[score]
<1>1. CASE winner = WinnerOf[score] /\ \A q \in Players : score \in reported[q]
  BY <1>1 DEF AgreedOn
<1>2. CASE [score |-> score, winner |-> winner] \in ruled
  <2> DEFINE v == [score |-> score, winner |-> winner]
  <2>1. v \in ruled /\ v.winner = winner /\ v.score = score
    BY <1>2
  <2> QED  BY <2>1
<1> QED  BY <1>1, <1>2 DEF Backed

LEMMA ConsentInit == Init => ConsentInv
<1> SUFFICES ASSUME Init PROVE ConsentInv
  OBVIOUS
<1>1. Sound(NewMatch, {}, reported, {})
  BY DEF Sound, NewMatch, NoPending
<1>2. \A r \in Requests : my[r].row = NewMatch /\ pc[r] = "new"
  BY DEF Init, NoWork
<1>3. ReleasedByAgreement /\ RatedByAgreement /\ HeldByConsent
  BY DEF Init, ReleasedByAgreement, RatedByAgreement, HeldByConsent, Ways
<1> QED  BY <1>1, <1>2, <1>3, TypeInit DEF Init, ConsentInv, WithConsent

\* The requests that do not move keep their consent.
LEMMA OthersConsent ==
  ASSUME ConsentInv, Growing, TypeInv', NEW q \in Requests,
         pc'[q] = pc[q], my'[q] = my[q]
  PROVE  WithConsent(q)'
<1>1. my[q].row \in Match
  BY DEF ConsentInv, TypeInv, TypeOK
<1>2. pc[q] \in {"release", "saveResult", "rate"} => my[q].score \in Scores /\ my[q].winner \in Players
  BY DEF ConsentInv, TypeInv, Equipped
<1>3. TypeInv /\ WithConsent(q)
  BY DEF ConsentInv
<1>4. Sound(my[q].row, staked', reported', held')
  BY <1>1, <1>3, AgreedStays DEF WithConsent
<1>5. pc[q] \in {"release", "saveResult", "rate"} => Backed(my[q].score, my[q].winner, reported', ruled')
  BY <1>2, <1>3, AgreedStays DEF WithConsent
<1> QED  BY <1>3, <1>4, <1>5 DEF WithConsent

LEMMA TakeConsent ==
  ASSUME ConsentInv, Growing, TypeInv', NEW r \in Requests, NEW row \in Match, NEW step \in Steps,
         Take(r, row, step),
         Sound(row, staked', reported', held'),
         step = "hold" => row.confirmed = Players,
         step \in {"release", "saveResult", "rate"} => Backed(my[r].score, my[r].winner, reported', ruled')
  PROVE  \A q \in Requests : WithConsent(q)'
<1>1. my \in [Requests -> Work] /\ pc \in [Requests -> Steps]
  BY DEF ConsentInv, TypeInv, TypeOK, Work, Steps
<1>2. /\ [my[r] EXCEPT !.row = row].row = row
      /\ [my[r] EXCEPT !.row = row].score = my[r].score /\ [my[r] EXCEPT !.row = row].winner = my[r].winner
  BY <1>1 DEF Work
<1>3. my' = [my EXCEPT ![r] = [my[r] EXCEPT !.row = row]] /\ pc' = [pc EXCEPT ![r] = step]
  BY DEF Take, Goto
<1>4. /\ my'[r].row = row /\ my'[r].score = my[r].score /\ my'[r].winner = my[r].winner
      /\ pc'[r] = step
      /\ \A q \in Requests : q # r => my'[q] = my[q] /\ pc'[q] = pc[q]
  BY <1>1, <1>2, <1>3
<1>5. WithConsent(r)'
  BY <1>4 DEF WithConsent
<1>6. \A q \in Requests : q # r => WithConsent(q)'
  BY <1>4, OthersConsent
<1> QED  BY <1>5, <1>6

LEMMA AnswerConsent ==
  ASSUME ConsentInv, Growing, TypeInv', NEW r \in Requests, Answer(r)
  PROVE  \A q \in Requests : WithConsent(q)'
<1>1. my \in [Requests -> Work] /\ pc \in [Requests -> Steps]
  BY DEF ConsentInv, TypeInv, TypeOK, Work, Steps
<1>2. /\ my'[r] = NoWork /\ pc'[r] = "done"
      /\ \A q \in Requests : q # r => my'[q] = my[q] /\ pc'[q] = pc[q]
  BY <1>1 DEF Answer, Goto
<1>3. Sound(NewMatch, staked', reported', held')
  BY DEF Sound, NewMatch, NoPending
<1>4. WithConsent(r)'
  BY <1>2, <1>3 DEF WithConsent, NoWork
<1>5. \A q \in Requests : q # r => WithConsent(q)'
  BY <1>2, OthersConsent
<1> QED  BY <1>4, <1>5

LEMMA SettleConsent ==
  ASSUME ConsentInv, Growing, TypeInv', NEW r \in Requests, NEW score \in Scores, NEW winner \in Players,
         Settle(r, score, winner), Backed(score, winner, reported', ruled')
  PROVE  \A q \in Requests : WithConsent(q)'
<1> DEFINE w == [score |-> score, winner |-> winner, row |-> Settled(match, winner)]
           step == IF InEscrow(match) THEN "release" ELSE "saveResult"
<1>1. my \in [Requests -> Work] /\ pc \in [Requests -> Steps] /\ match \in Match
  BY DEF ConsentInv, TypeInv, TypeOK, Work, Steps
<1>2. my' = [my EXCEPT ![r] = w] /\ pc' = [pc EXCEPT ![r] = step]
  BY DEF Settle, Goto
<1>3. w.score = score /\ w.winner = winner /\ w.row = Settled(match, winner)
  OBVIOUS
<1>4. /\ Settled(match, winner).confirmed = match.confirmed
      /\ Settled(match, winner).pending.by = {}
      /\ Settled(match, winner).escrow = match.escrow /\ Settled(match, winner).hold = match.hold
  BY <1>1 DEF Settled, Match, NoPending
<1>5. Sound(match, staked', reported', held')
  BY <1>1, AgreedStays DEF ConsentInv
<1>6. Sound(Settled(match, winner), staked', reported', held')
  BY <1>4, <1>5 DEF Sound
<1>7. step # "hold"
  OBVIOUS
<1> HIDE DEF w, step
<1>8. /\ my'[r] = w /\ pc'[r] = step
      /\ \A q \in Requests : q # r => my'[q] = my[q] /\ pc'[q] = pc[q]
  BY <1>1, <1>2
<1>9. WithConsent(r)'
  BY <1>3, <1>6, <1>7, <1>8 DEF WithConsent
<1>10. \A q \in Requests : q # r => WithConsent(q)'
  BY <1>8, OthersConsent
<1> QED  BY <1>9, <1>10

\* While nothing is held, paid or rated, what was done with consent has it still.
LEMMA DoneConsent ==
  ASSUME ConsentInv, Growing, TypeInv'
  PROVE  /\ held' = held => HeldByConsent'
         /\ paid' = paid => ReleasedByAgreement'
         /\ rated' = rated => RatedByAgreement'
         /\ match' = match => Sound(match', staked', reported', held')
<1>t. TypeInv /\ match \in Match /\ staked' \subseteq Players
  BY DEF ConsentInv, TypeInv, TypeOK
<1>1. held' = held => HeldByConsent'
  BY <1>t DEF ConsentInv, HeldByConsent, Growing
<1>2. paid' = paid => ReleasedByAgreement'
  BY <1>t, AgreedStays DEF ConsentInv, ReleasedByAgreement, Growing
<1>3. rated' = rated => RatedByAgreement'
  BY <1>t, AgreedStays DEF ConsentInv, RatedByAgreement, Growing
<1>4. match' = match => Sound(match', staked', reported', held')
  BY <1>t, AgreedStays DEF ConsentInv
<1> QED  BY <1>1, <1>2, <1>3, <1>4

\* The requests that take the row in: what they make of it says no more than
\* the players have asked for.
LEMMA ArriveConsent ==
  ASSUME ConsentInv, Growing, TypeInv', NEW r \in Requests, Arrive(r)
  PROVE  \A q \in Requests : WithConsent(q)'
<1>t. /\ match \in Match /\ staked' \in SUBSET Players /\ reported \in [Players -> SUBSET Scores]
      /\ TypeInv /\ Sound(match, staked', reported', held')
  BY AgreedStays DEF ConsentInv, TypeInv, TypeOK
<1>1. ASSUME NEW p \in Players, Confirm(r, p) PROVE \A q \in Requests : WithConsent(q)'
  <2> DEFINE row == [match EXCEPT !.confirmed = @ \cup {p}]
             locked == [row EXCEPT !.status = "ACTIVE"]
  <2>1. row \in Match /\ locked \in Match
    BY <1>t, RowChanges
  <2>2. /\ row.confirmed = match.confirmed \cup {p} /\ locked.confirmed = match.confirmed \cup {p}
        /\ row.pending = match.pending /\ locked.pending = match.pending
        /\ row.escrow = match.escrow /\ locked.escrow = match.escrow
        /\ row.hold = match.hold /\ locked.hold = match.hold
    BY <1>t DEF Match
  <2>3. p \in staked'
    BY <1>1 DEF Confirm
  <2>4. Sound(row, staked', reported', held') /\ Sound(locked, staked', reported', held')
    BY <1>t, <2>2, <2>3 DEF Sound
  <2>5. \/ Take(r, row, "save")
        \/ Take(r, locked, "hold") /\ locked.confirmed = Players
    BY <1>1, <2>2 DEF Confirm, LockedIn
  <2> HIDE DEF row, locked
  <2> QED  BY <2>1, <2>4, <2>5, TakeConsent DEF Steps
<1>2. ASSUME NEW p \in Players, NEW score \in Scores, Propose(r, p, score)
      PROVE  \A q \in Requests : WithConsent(q)'
  <2> DEFINE row == [match EXCEPT !.pending = Proposal(p, score)]
  <2>1. Proposal(p, score) \in [score : Scores \cup {NoScore}, by : SUBSET Players]
    BY <1>t DEF Proposal, Match
  <2>2. row \in Match
    BY <1>t, <2>1, RowChanges
  <2>2a. /\ row.confirmed = match.confirmed /\ row.pending = Proposal(p, score)
         /\ row.escrow = match.escrow /\ row.hold = match.hold
    BY <1>t DEF Match
  <2>3. score \in reported'[p]
    BY <1>2, <1>t DEF Propose
  <2>4. \A q \in Proposal(p, score).by : Proposal(p, score).score \in reported'[q]
    BY <1>t, <2>3 DEF Proposal, Sound
  <2>5. Sound(row, staked', reported', held')
    BY <1>t, <2>2a, <2>4 DEF Sound
  <2>6. Take(r, row, "save")
    BY <1>2 DEF Propose
  <2> HIDE DEF row
  <2> QED  BY <2>2, <2>5, <2>6, TakeConsent DEF Steps
<1>3. ASSUME NEW p \in Players, NEW score \in Scores, Complete(r, p, score)
      PROVE  \A q \in Requests : WithConsent(q)'
  <2>1. score \in reported'[p]
    BY <1>3, <1>t DEF Complete
  <2>2. \A q \in match.pending.by : score \in reported'[q]
    BY <1>3, <1>t DEF Complete, Agreed, Sound
  <2>3. \A q \in Players : score \in reported'[q]
    BY <1>3, <2>1, <2>2 DEF Complete, Agreed
  <2>4. WinnerOf[score] \in Players /\ Backed(score, WinnerOf[score], reported', ruled')
    BY <2>3, MoneyMatchAssumption DEF Backed
  <2> QED  BY <1>3, <2>4, SettleConsent DEF Complete
<1>4. ASSUME NEW score \in Scores, NEW winner \in Players, Rule(r, score, winner)
      PROVE  \A q \in Requests : WithConsent(q)'
  BY <1>4, SettleConsent DEF Rule, Backed
<1>5. ASSUME SetLivestream(r) \/ Dispute(r) \/ CallOff(r) PROVE \A q \in Requests : WithConsent(q)'
  <2>a. \A s \in {"DISPUTED", "COMPLETED"} : [match EXCEPT !.status = s] \in Match
    BY <1>t, RowChanges
  <2>b. \A s \in {"DISPUTED", "COMPLETED"} :
          /\ [match EXCEPT !.status = s].confirmed = match.confirmed
          /\ [match EXCEPT !.status = s].pending = match.pending
          /\ [match EXCEPT !.status = s].escrow = match.escrow
          /\ [match EXCEPT !.status = s].hold = match.hold
    BY <1>t DEF Match
  <2>c. \A s \in {"DISPUTED", "COMPLETED"} : Sound([match EXCEPT !.status = s], staked', reported', held')
    BY <1>t, <2>b DEF Sound
  <2>1. \A s \in {"DISPUTED", "COMPLETED"} : /\ [match EXCEPT !.status = s] \in Match
                                             /\ Sound([match EXCEPT !.status = s], staked', reported', held')
    BY <2>a, <2>c
  <2>2. \E row \in Match, step \in {"save", "refund"} :
          Take(r, row, step) /\ Sound(row, staked', reported', held')
    BY <1>5, <1>t, <2>1 DEF SetLivestream, Dispute, CallOff
  <2> QED  BY <2>2, TakeConsent DEF Steps
<1> QED  BY <1>1, <1>2, <1>3, <1>4, <1>5 DEF Arrive

\* A hold is made by a request that saw both players confirm.
LEMMA HoldConsent ==
  ASSUME ConsentInv, Growing, TypeInv', NEW r \in Requests, Hold(r)
  PROVE  HeldByConsent' /\ \A q \in Requests : WithConsent(q)'
<1>t. /\ my[r].row \in Match /\ staked' \in SUBSET Players /\ TypeInv
      /\ my[r].row.confirmed = Players /\ Sound(my[r].row, staked', reported', held')
  BY AgreedStays DEF ConsentInv, TypeInv, TypeOK, WithConsent, Hold
<1>1. HeldByConsent'
  BY <1>t DEF HeldByConsent, Sound
<1>2. PICK e \in {"HELD", "FAILED"} : Take(r, [my[r].row EXCEPT !.escrow = e, !.hold = r], "save")
  BY DEF Hold
<1> DEFINE row == [my[r].row EXCEPT !.escrow = e, !.hold = r]
<1>3. row \in Match
  BY <1>t, RowChanges
<1>3a. row.confirmed = my[r].row.confirmed /\ row.pending = my[r].row.pending /\ row.hold = r
  BY <1>t DEF Match
<1>4. Sound(row, staked', reported', held')
  BY <1>t, <1>3a DEF Sound, Hold
<1> HIDE DEF row
<1>5. Take(r, row, "save")
  BY <1>2 DEF row
<1>6. \A q \in Requests : WithConsent(q)'
  BY <1>3, <1>4, <1>5, TakeConsent DEF Steps
<1> QED  BY <1>1, <1>6

\* What is paid out comes from a hold its row knows of, and a release goes to
\* the winner of a backed result.
LEMMA PayConsent ==
  ASSUME ConsentInv, Growing, TypeInv', NEW r \in Requests, Refund(r) \/ Release(r)
  PROVE  ReleasedByAgreement' /\ \A q \in Requests : WithConsent(q)'
<1>t. /\ my[r].row \in Match /\ TypeInv /\ WithConsent(r) /\ paid \in [Requests -> [Ways -> Nat]]
      /\ Sound(my[r].row, staked', reported', held')
  BY AgreedStays DEF ConsentInv, TypeInv, TypeOK, WithConsent
<1>1. my[r].row.hold \in held' /\ my[r].row.hold \in Requests
  BY <1>t DEF Refund, Release, TypeInv, Equipped, Sound
<1>2. held' = held /\ (\A p \in Players : AgreedOn(p)' = AgreedOn(p)) /\ ruled' = ruled
  BY DEF Refund, Release, told, AgreedOn
<1>3. ASSUME Release(r) PROVE ReleasedByAgreement'
  <2>1. my[r].score \in Scores /\ my[r].winner \in Players /\ Backed(my[r].score, my[r].winner, reported, ruled)
    BY <1>3, <1>t DEF Release, TypeInv, Equipped, WithConsent
  <2>2. AgreedOn(my[r].winner) \/ \E v \in ruled : v.winner = my[r].winner
    BY <1>t, <2>1, BackedIsAgreed
  <2>3. \A h \in Requests, p \in Players :
          \/ paid'[h][p] = paid[h][p]
          \/ h = my[r].row.hold /\ p = my[r].winner
    BY <1>3, <1>t, <1>1 DEF Release, Ways
  <2>4. ReleasedByAgreement'
    BY <1>1, <1>2, <2>2, <2>3 DEF ReleasedByAgreement, ConsentInv
  <2> QED  BY <2>4
<1>4. ASSUME Refund(r) PROVE ReleasedByAgreement'
  <2>1. \A h \in Requests, p \in Players : paid'[h][p] = paid[h][p]
    BY <1>4, <1>t, <1>1 DEF Refund, Ways, Players
  <2> QED  BY <1>2, <2>1 DEF ReleasedByAgreement, ConsentInv
<1>5. PICK e \in {"REFUNDED", "RELEASED", "FAILED"}, step \in {"save", "saveResult"} :
        /\ Take(r, [my[r].row EXCEPT !.escrow = e], step)
        /\ step = "saveResult" => Release(r)
  BY DEF Refund, Release
<1> DEFINE row == [my[r].row EXCEPT !.escrow = e]
<1>6. row \in Match
  BY <1>t, RowChanges
<1>6a. /\ row.confirmed = my[r].row.confirmed /\ row.pending = my[r].row.pending
       /\ row.escrow = e /\ row.hold = my[r].row.hold
  BY <1>t DEF Match
<1>7. Sound(row, staked', reported', held')
  BY <1>t, <1>6a DEF Sound
<1>8. step = "saveResult" => Backed(my[r].score, my[r].winner, reported', ruled')
  BY <1>5, <1>t DEF WithConsent, Release, told
<1> HIDE DEF row
<1>9. Take(r, row, step)
  BY <1>5 DEF row
<1>10. \A q \in Requests : WithConsent(q)'
  BY <1>6, <1>7, <1>8, <1>9, TakeConsent DEF Steps
<1> QED  BY <1>3, <1>4, <1>10

\* The row saved is the request's copy, and the rating follows its score.
LEMMA FinishConsent ==
  ASSUME ConsentInv, Growing, TypeInv', NEW r \in Requests, Save(r) \/ Rate(r) \/ Abort(r)
  PROVE  /\ RatedByAgreement'
         /\ Sound(match', staked', reported', held')
         /\ \A q \in Requests : WithConsent(q)'
<1>t. /\ my \in [Requests -> Work] /\ pc \in [Requests -> Steps]
      /\ my[r].row \in Match /\ match \in Match /\ TypeInv /\ WithConsent(r)
      /\ rated \in [Players -> Nat]
      /\ Sound(my[r].row, staked', reported', held') /\ Sound(match, staked', reported', held')
  BY AgreedStays DEF ConsentInv, TypeInv, TypeOK, WithConsent, Work, Steps
<1>1. CASE Save(r)
  <2>1. CASE pc[r] = "saveResult"
    <3>1. /\ my' = my /\ pc'[r] = "rate"
          /\ \A q \in Requests : q # r => pc'[q] = pc[q]
      BY <1>1, <1>t, <2>1 DEF Save, Goto
    <3>2. Backed(my[r].score, my[r].winner, reported', ruled')
      BY <1>1, <1>t, <2>1 DEF Save, WithConsent, told
    <3>3. WithConsent(r)'
      BY <1>t, <3>1, <3>2 DEF WithConsent
    <3>4. \A q \in Requests : q # r => WithConsent(q)'
      BY <3>1, OthersConsent
    <3> QED  BY <1>1, <1>t, <3>3, <3>4, DoneConsent DEF Save
  <2>2. CASE pc[r] # "saveResult"
    BY <1>1, <1>t, <2>2, AnswerConsent, DoneConsent DEF Save
  <2> QED  BY <2>1, <2>2
<1>2. CASE Rate(r)
  <2>1. my[r].score \in Scores /\ my[r].winner \in Players /\ Backed(my[r].score, my[r].winner, reported, ruled)
    BY <1>2, <1>t DEF Rate, TypeInv, Equipped, WithConsent
  <2>2. AgreedOn(RatedWinner(r)) \/ \E v \in ruled : WinnerOf[v.score] = RatedWinner(r)
    BY <1>t, <2>1, BackedIsAgreed DEF RatedWinner
  <2>3. \A p \in Players : rated'[p] = rated[p] \/ p = RatedWinner(r)
    BY <1>2, <1>t DEF Rate
  <2>4. (\A p \in Players : AgreedOn(p)' = AgreedOn(p)) /\ ruled' = ruled
    BY <1>2 DEF Rate, told, AgreedOn
  <2>5. RatedByAgreement'
    BY <2>2, <2>3, <2>4 DEF RatedByAgreement, ConsentInv
  <2> QED  BY <1>2, <1>t, <2>5, AnswerConsent DEF Rate
<1>3. CASE Abort(r)
  BY <1>3, <1>t, AnswerConsent, DoneConsent DEF Abort
<1> QED  BY <1>1, <1>2, <1>3

LEMMA ConsentStep == ConsentInv /\ [Next]_vars => ConsentInv'
<1> SUFFICES ASSUME ConsentInv, [Next]_vars PROVE ConsentInv'
  OBVIOUS
<1>1. TypeInv /\ TypeInv' /\ Growing
  BY TypeStep, ConsentGrows DEF ConsentInv
<1>2. ASSUME NEW r \in Requests, Arrive(r) PROVE ConsentInv'
  <2>1. held' = held /\ paid' = paid /\ rated' = rated /\ match' = match
    BY <1>2 DEF Arrive, Confirm, SetLivestream, Dispute, CallOff, Propose, Complete, Rule
  <2> QED  BY <1>1, <1>2, <2>1, ArriveConsent, DoneConsent DEF ConsentInv
<1>3. ASSUME NEW r \in Requests, Hold(r) PROVE ConsentInv'
  <2>1. paid' = paid /\ rated' = rated /\ match' = match
    BY <1>3 DEF Hold
  <2> QED  BY <1>1, <1>3, <2>1, HoldConsent, DoneConsent DEF ConsentInv
<1>4. ASSUME NEW r \in Requests, Refund(r) \/ Release(r) PROVE ConsentInv'
  <2>1. held' = held /\ rated' = rated /\ match' = match
    BY <1>4 DEF Refund, Release
  <2> QED  BY <1>1, <1>4, <2>1, PayConsent, DoneConsent DEF ConsentInv
<1>5. ASSUME NEW r \in Requests, Save(r) \/ Rate(r) \/ Abort(r) PROVE ConsentInv'
  <2>1. held' = held /\ paid' = paid
    BY <1>5 DEF Save, Rate, Abort
  <2> QED  BY <1>1, <1>5, <2>1, FinishConsent, DoneConsent DEF ConsentInv
<1>6. CASE UNCHANGED vars
  <2>1. /\ held' = held /\ paid' = paid /\ rated' = rated /\ match' = match
        /\ my' = my /\ pc' = pc
    BY <1>6 DEF vars
  <2>2. \A q \in Requests : WithConsent(q)'
    BY <1>1, <2>1, OthersConsent
  <2> QED  BY <1>1, <2>1, <2>2, DoneConsent DEF ConsentInv
<1> QED  BY <1>2, <1>3, <1>4, <1>5, <1>6 DEF Next

LEMMA ConsentAlways == Spec => []ConsentInv
BY ConsentInit, ConsentStep, PTL DEF Spec

\* EscrowService.hold is only ever called once both players have confirmed their
\* stakes, whichever requests overwrite each other's copies of the row.
THEOREM StakesHeldByConsent == Spec => []HeldByConsent
<1>1. ConsentInv => HeldByConsent
  BY DEF ConsentInv
<1> QED  BY <1>1, ConsentAlways, PTL

\* EscrowService.release only ever pays the winner of a score both players
\* reported or the winner an arbiter named, out of a hold that was made.
THEOREM EscrowReleasedByAgreement == Spec => []ReleasedByAgreement
<1>1. ConsentInv => ReleasedByAgreement
  BY DEF ConsentInv
<1> QED  BY <1>1, ConsentAlways, PTL

\* Scorekeeping is only ever told of a score both players reported or an
\* arbiter gave.
THEOREM RatingsByAgreement == Spec => []RatedByAgreement
<1>1. ConsentInv => RatedByAgreement
  BY DEF ConsentInv
<1> QED  BY <1>1, ConsentAlways, PTL

-----------------------------------------------------------------------------
(* Requests that come one after another *)

Ratings == rated["A"] + rated["B"]

\* What a row says of the escrow, and of the result, is what happened.
Truthful(row) ==
  /\ row.status = "PENDING" => row.escrow = "NONE"
  /\ row.status # "COMPLETED" => row.winner = Nobody
  /\ row.escrow = "NONE" => held = {}
  /\ row.escrow = "HELD" => held = {row.hold} /\ TimesPaid(row.hold) = 0
  /\ row.escrow \in {"RELEASED", "REFUNDED"} =>
       row.status = "COMPLETED" /\ \A hold \in held : TimesPaid(hold) = 1

\* A row no request has anything left to do about.
AtRest(row) ==
  /\ Truthful(row)
  /\ row.status = "COMPLETED" => row.escrow # "HELD"
  /\ Ratings = IF row.status = "COMPLETED" /\ row.winner # Nobody THEN 1 ELSE 0

\* What the one request at work still has to do.
AtWork(r) ==
  /\ pc[r] = "save" => AtRest(my[r].row)
  /\ pc[r] # "save" => Truthful(my[r].row) /\ Ratings = 0
  /\ pc[r] = "hold" => held = {} /\ my[r].row.status = "ACTIVE"
  /\ pc[r] = "refund" => my[r].row.status = "COMPLETED" /\ my[r].row.winner = Nobody
  /\ pc[r] \in {"release", "saveResult", "rate"} =>
       my[r].row.status = "COMPLETED" /\ my[r].row.winner = my[r].winner
  /\ pc[r] \in {"saveResult", "rate"} => my[r].row.escrow # "HELD"
  /\ pc[r] = "rate" => match = my[r].row

InTurn ==
  /\ \A hold \in Requests : TimesPaid(hold) <= IF hold \in held THEN 1 ELSE 0
  /\ \A q \in Busy, r \in Busy : q = r
  /\ Busy = {} => AtRest(match)
  /\ \A r \in Busy : AtWork(r)

TurnInv == TypeInv /\ (Undisturbed => InTurn)

LEMMA TurnInit == Init => TurnInv
<1> SUFFICES ASSUME Init PROVE TurnInv
  OBVIOUS
<1>1. TypeInv
  BY TypeInit
<1>2. Busy = {}
  BY DEF Init, Busy
<1>3. \A hold \in Requests : TimesPaid(hold) = 0
  BY DEF Init, TimesPaid, Ways, Players
<1>4. AtRest(match)
  BY DEF Init, AtRest, Truthful, NewMatch, Ratings, Players
<1>5. InTurn
  BY <1>2, <1>3, <1>4 DEF InTurn
<1> QED  BY <1>1, <1>5 DEF TurnInv

\* Only the request that acts can become busy, or stop.
LEMMA OneBusy ==
  ASSUME NEW r \in Requests, pc \in [Requests -> Steps], Busy \subseteq {r}, NEW step, Goto(r, step)
  PROVE  /\ pc'[r] = step
         /\ Busy' = IF step \in {"new", "done"} THEN {} ELSE {r}
BY DEF Goto, Busy, Steps

\* A request that takes the row in while no other is served.
LEMMA TakesTurn ==
  ASSUME TypeInv, InTurn, NEW r \in Requests, Busy = {},
         NEW row \in Match, NEW step \in {"hold", "save", "refund"}, Take(r, row, step),
         held' = held, paid' = paid, rated' = rated, match' = match,
         Truthful(row),
         step = "save" => AtRest(row),
         step # "save" => Ratings = 0,
         step = "hold" => row.status = "ACTIVE" /\ held = {},
         step = "refund" => row.status = "COMPLETED" /\ row.winner = Nobody
  PROVE  InTurn'
<1>1. my \in [Requests -> Work] /\ pc \in [Requests -> Steps]
  BY DEF TypeInv, TypeOK, Work, Steps
<1>2. my'[r].row = row
  BY <1>1 DEF Take, Work
<1>3. pc'[r] = step /\ Busy' = {r}
  BY <1>1, OneBusy DEF Take
<1>4. AtWork(r)'
  BY <1>2, <1>3 DEF AtWork, AtRest, Truthful, TimesPaid, Ratings
<1> QED  BY <1>3, <1>4 DEF InTurn, TimesPaid

\* The requests that change the row without a result.
LEMMA AsksInTurn ==
  ASSUME TypeInv, InTurn, NEW r \in Requests, Busy = {},
         \/ SetLivestream(r) \/ Dispute(r) \/ CallOff(r)
         \/ \E p \in Players : Confirm(r, p)
         \/ \E p \in Players, score \in Scores : Propose(r, p, score)
  PROVE  InTurn'
<1>t. match \in Match /\ AtRest(match)
  BY DEF TypeInv, TypeOK, InTurn
<1>1. CASE SetLivestream(r)
  BY <1>1, <1>t, TakesTurn DEF SetLivestream, AtRest
<1>2. CASE Dispute(r)
  <2> DEFINE row == [match EXCEPT !.status = "DISPUTED"]
  <2>a. row \in Match
    BY <1>t, RowChanges
  <2>1. /\ row \in Match /\ row.status = "DISPUTED"
        /\ row.escrow = match.escrow /\ row.hold = match.hold /\ row.winner = match.winner
    BY <1>t, <2>a DEF Match
  <2>2. match.status \in {"PENDING", "ACTIVE"} /\ Take(r, row, "save")
    BY <1>2 DEF Dispute
  <2> HIDE DEF row
  <2>3. AtRest(row)
    BY <1>t, <2>1, <2>2 DEF AtRest, Truthful
  <2> QED  BY <1>2, <2>1, <2>2, <2>3, TakesTurn DEF Dispute, AtRest
<1>3. CASE CallOff(r)
  <2> DEFINE row == [match EXCEPT !.status = "COMPLETED"]
  <2>a. row \in Match
    BY <1>t, RowChanges
  <2>1. /\ row \in Match /\ row.status = "COMPLETED"
        /\ row.escrow = match.escrow /\ row.hold = match.hold /\ row.winner = match.winner
    BY <1>t, <2>a DEF Match
  <2>2. match.status = "DISPUTED" /\ Take(r, row, IF InEscrow(row) THEN "refund" ELSE "save")
    BY <1>3 DEF CallOff
  <2> HIDE DEF row
  <2>3. Truthful(row) /\ Ratings = 0 /\ row.winner = Nobody
    BY <1>t, <2>1, <2>2 DEF AtRest, Truthful
  <2>4. row.escrow = "HELD" => InEscrow(row)
    BY <2>3, NoHoldAssumption DEF InEscrow, Truthful, TypeInv, TypeOK
  <2>5. CASE InEscrow(row)
    BY <1>3, <2>1, <2>2, <2>3, <2>5, TakesTurn DEF CallOff
  <2>6. CASE ~InEscrow(row)
    <3>1. AtRest(row)
      BY <2>1, <2>3, <2>4, <2>6 DEF AtRest
    <3> QED  BY <1>3, <2>1, <2>2, <2>3, <2>6, <3>1, TakesTurn DEF CallOff
  <2> QED  BY <2>5, <2>6
<1>4. ASSUME NEW p \in Players, Confirm(r, p) PROVE InTurn'
  <2> DEFINE row == [match EXCEPT !.confirmed = @ \cup {p}]
             locked == [row EXCEPT !.status = "ACTIVE"]
  <2>1. row \in Match /\ locked \in Match
    BY <1>t, RowChanges
  <2>2. /\ row.status = match.status /\ locked.status = "ACTIVE"
        /\ row.escrow = match.escrow /\ row.hold = match.hold /\ row.winner = match.winner
        /\ locked.escrow = match.escrow /\ locked.hold = match.hold /\ locked.winner = match.winner
    BY <1>t DEF Match
  <2>3. \/ Take(r, row, "save")
        \/ Take(r, locked, "hold") /\ match.status = "PENDING"
    BY <1>4, <2>2 DEF Confirm, LockedIn
  <2> HIDE DEF row, locked
  <2>4. AtRest(row)
    BY <1>t, <2>2 DEF AtRest, Truthful
  <2>5. match.status = "PENDING" => Truthful(locked) /\ held = {} /\ Ratings = 0
    BY <1>t, <2>2 DEF AtRest, Truthful
  <2> QED  BY <1>4, <2>1, <2>2, <2>3, <2>4, <2>5, TakesTurn DEF Confirm, AtRest
<1>5. ASSUME NEW p \in Players, NEW score \in Scores, Propose(r, p, score) PROVE InTurn'
  <2> DEFINE row == [match EXCEPT !.pending = Proposal(p, score)]
  <2>1. Proposal(p, score) \in [score : Scores \cup {NoScore}, by : SUBSET Players]
    BY <1>t DEF Proposal, Match
  <2>a. row \in Match
    BY <1>t, <2>1, RowChanges
  <2>2. /\ row \in Match /\ row.status = match.status
        /\ row.escrow = match.escrow /\ row.hold = match.hold /\ row.winner = match.winner
    BY <1>t, <2>a DEF Match
  <2>3. Take(r, row, "save")
    BY <1>5 DEF Propose
  <2> HIDE DEF row
  <2>4. AtRest(row)
    BY <1>t, <2>2 DEF AtRest, Truthful
  <2> QED  BY <1>5, <2>2, <2>3, <2>4, TakesTurn DEF Propose, AtRest
<1> QED  BY <1>1, <1>2, <1>3, <1>4, <1>5

\* The requests that give the match a result.
LEMMA SettlesInTurn ==
  ASSUME TypeInv, InTurn, NEW r \in Requests, Busy = {}, NEW score \in Scores, NEW p \in Players,
         Complete(r, p, score) \/ Rule(r, score, p)
  PROVE  InTurn'
<1>t. /\ match \in Match /\ AtRest(match)
      /\ my \in [Requests -> Work] /\ pc \in [Requests -> Steps]
  BY DEF TypeInv, TypeOK, InTurn, Work, Steps
<1>1. PICK winner \in Players : Settle(r, score, winner)
  BY MoneyMatchAssumption DEF Complete, Rule
<1> DEFINE row == Settled(match, winner)
           step == IF InEscrow(match) THEN "release" ELSE "saveResult"
<1>2. match.status \in {"ACTIVE", "DISPUTED"} /\ held' = held /\ paid' = paid /\ rated' = rated
  BY DEF Complete, Rule, Reportable
<1>3. /\ row.status = "COMPLETED" /\ row.winner = winner
      /\ row.escrow = match.escrow /\ row.hold = match.hold
  BY <1>t DEF Settled, Match
<1>4. my'[r].row = row /\ my'[r].winner = winner /\ Goto(r, step)
  BY <1>1, <1>t DEF Settle
<1> HIDE DEF row
<1>5. Truthful(row) /\ Ratings = 0
  BY <1>t, <1>2, <1>3 DEF AtRest, Truthful
<1>6. match.escrow = "HELD" => InEscrow(match)
  BY <1>t, NoHoldAssumption DEF InEscrow, AtRest, Truthful, TypeInv, TypeOK
<1>7. /\ step \in {"release", "saveResult"}
      /\ step = "saveResult" => row.escrow # "HELD"
  BY <1>3, <1>6
<1> HIDE DEF step
<1>8. pc'[r] = step /\ Busy' = {r}
  BY <1>t, <1>4, <1>7, OneBusy
<1>9. AtWork(r)'
  BY <1>2, <1>3, <1>4, <1>5, <1>7, <1>8 DEF AtWork, Truthful, TimesPaid, Ratings
<1> QED  BY <1>2, <1>8, <1>9 DEF InTurn, TimesPaid

\* The request at work is the only one.
LEMMA AloneAtWork ==
  ASSUME TypeInv, InTurn, NEW r \in Requests, pc[r] \notin {"new", "done"}
  PROVE  /\ Busy = {r} /\ AtWork(r)
         /\ my \in [Requests -> Work] /\ pc \in [Requests -> Steps]
         /\ my[r].row \in Match
BY DEF TypeInv, TypeOK, InTurn, Busy, Work, Steps

LEMMA HoldInTurn ==
  ASSUME TypeInv, InTurn, NEW r \in Requests, Hold(r)
  PROVE  InTurn'
<1>t. /\ Busy = {r} /\ AtWork(r) /\ held = {}
      /\ my \in [Requests -> Work] /\ pc \in [Requests -> Steps] /\ my[r].row \in Match
      /\ pc[r] = "hold"
  BY AloneAtWork DEF Hold, AtWork
<1>1. held' = {r} /\ paid' = paid /\ rated' = rated
  BY <1>t DEF Hold
<1>2. PICK e \in {"HELD", "FAILED"} : Take(r, [my[r].row EXCEPT !.escrow = e, !.hold = r], "save")
  BY DEF Hold
<1> DEFINE row == [my[r].row EXCEPT !.escrow = e, !.hold = r]
<1>3. /\ row.escrow = e /\ row.hold = r
      /\ row.status = my[r].row.status /\ row.winner = my[r].row.winner
  BY <1>t DEF Match
<1> HIDE DEF row
<1>4. my'[r].row = row /\ Goto(r, "save")
  BY <1>2, <1>t DEF Take, Work, row
<1>5. pc'[r] = "save" /\ Busy' = {r}
  BY <1>t, <1>4, OneBusy
<1>6. \A h \in Requests : TimesPaid(h) = 0
  <2>1. paid \in [Requests -> [{"A", "B", "refund"} -> Nat]]
    BY DEF TypeInv, TypeOK, Ways, Players
  <2>2. \A h \in Requests : TimesPaid(h) <= 0
    BY <1>t DEF InTurn
  <2> QED  BY <2>1, <2>2 DEF TimesPaid
<1>7. AtWork(r)'
  BY <1>t, <1>1, <1>3, <1>4, <1>5, <1>6 DEF AtWork, AtRest, Truthful, TimesPaid, Ratings
<1> QED  BY <1>1, <1>5, <1>6, <1>7 DEF InTurn, TimesPaid

\* The hold paid out is the one hold there is, and had not been paid.
LEMMA PayInTurn ==
  ASSUME TypeInv, InTurn, NEW r \in Requests, Refund(r) \/ Release(r)
  PROVE  InTurn'
<1>t. /\ Busy = {r} /\ AtWork(r)
      /\ my \in [Requests -> Work] /\ pc \in [Requests -> Steps] /\ my[r].row \in Match
      /\ pc[r] \in {"refund", "release"} /\ paid \in [Requests -> [Ways -> Nat]]
  BY AloneAtWork DEF Refund, Release, TypeInv, TypeOK
<1>1. PICK hold \in Requests :
        hold = my[r].row.hold /\ my[r].row.escrow = "HELD" /\ (pc[r] = "release" => my[r].winner \in Players)
  BY <1>t DEF TypeInv, Equipped
<1>2. held = {hold} /\ TimesPaid(hold) = 0 /\ Ratings = 0 /\ my[r].row.status = "COMPLETED"
  BY <1>t, <1>1 DEF AtWork, Truthful
<1>3. held' = held /\ rated' = rated
  BY DEF Refund, Release
<1>4. PICK way \in Ways : paid' = [paid EXCEPT ![hold][way] = @ + 1]
  BY <1>1 DEF Refund, Release, Ways
<1>5. PICK e \in {"REFUNDED", "RELEASED", "FAILED"}, step \in {"save", "saveResult"} :
        /\ Take(r, [my[r].row EXCEPT !.escrow = e], step)
        /\ step = "saveResult" => pc[r] = "release"
        /\ step = "save" => pc[r] = "refund"
  BY DEF Refund, Release
<1> DEFINE row == [my[r].row EXCEPT !.escrow = e]
<1>6. /\ row.escrow = e /\ row.hold = hold
      /\ row.status = my[r].row.status /\ row.winner = my[r].row.winner
  BY <1>t, <1>1 DEF Match
<1> HIDE DEF row
<1>7. my'[r].row = row /\ my'[r].winner = my[r].winner /\ Goto(r, step)
  BY <1>5, <1>t DEF Take, Work, row
<1>8. pc'[r] = step /\ Busy' = {r}
  BY <1>t, <1>7, OneBusy
<1>9. \A h \in Requests : /\ h # hold => paid'[h] = paid[h]
                          /\ h = hold => TimesPaid(h)' = 1
  <2>1. \A h \in Requests : h # hold => paid'[h] = paid[h]
    BY <1>t, <1>1, <1>4
  <2>2. paid[hold] \in [Ways -> Nat] /\ paid'[hold] = [paid[hold] EXCEPT ![way] = @ + 1]
    BY <1>t, <1>1, <1>4
  <2>3. way \in {"A", "B", "refund"} /\ {"A", "B", "refund"} = Ways
    BY DEF Ways, Players
  <2>4. \A f \in [{"A", "B", "refund"} -> Nat] : \A w \in {"A", "B", "refund"} :
          f["A"] + f["B"] + f["refund"] = 0 =>
            LET g == [f EXCEPT ![w] = @ + 1] IN g["A"] + g["B"] + g["refund"] = 1
    OBVIOUS
  <2>5. TimesPaid(hold)' = 1
    BY <1>2, <2>2, <2>3, <2>4 DEF TimesPaid
  <2> QED  BY <2>1, <2>5
<1>10. AtWork(r)'
  BY <1>t, <1>1, <1>2, <1>3, <1>5, <1>6, <1>7, <1>8, <1>9 DEF AtWork, AtRest, Truthful, Ratings
<1>11. \A h \in Requests : TimesPaid(h)' <= IF h \in held' THEN 1 ELSE 0
  BY <1>2, <1>3, <1>9 DEF InTurn, TimesPaid
<1> QED  BY <1>8, <1>10, <1>11 DEF InTurn

\* A saved row is at rest, but for the rating of its result.
LEMMA FinishInTurn ==
  ASSUME TypeInv, InTurn, NEW r \in Requests, Save(r) \/ Rate(r)
  PROVE  InTurn'
<1>t. /\ Busy = {r} /\ AtWork(r)
      /\ my \in [Requests -> Work] /\ pc \in [Requests -> Steps] /\ my[r].row \in Match
      /\ rated \in [Players -> Nat] /\ held' = held /\ paid' = paid
  BY AloneAtWork DEF Save, Rate, TypeInv, TypeOK
<1>1. CASE pc[r] = "save"
  <2>1. match' = my[r].row /\ rated' = rated /\ Goto(r, "done")
    BY <1>1 DEF Save, Rate, Answer
  <2>2. Busy' = {}
    BY <1>t, <2>1, OneBusy
  <2>3. AtRest(match)'
    BY <1>1, <1>t, <2>1 DEF AtWork, AtRest, Truthful, TimesPaid, Ratings
  <2> QED  BY <1>t, <2>2, <2>3 DEF InTurn, TimesPaid
<1>2. CASE pc[r] = "saveResult"
  <2>1. match' = my[r].row /\ rated' = rated /\ my' = my /\ Goto(r, "rate")
    BY <1>2 DEF Save, Rate
  <2>2. Busy' = {r} /\ pc'[r] = "rate"
    BY <1>t, <2>1, OneBusy
  <2>3. AtWork(r)'
    BY <1>2, <1>t, <2>1, <2>2 DEF AtWork, Truthful, TimesPaid, Ratings
  <2> QED  BY <1>t, <2>2, <2>3 DEF InTurn, TimesPaid
<1>3. CASE pc[r] = "rate"
  <2>1. match' = match /\ Goto(r, "done") /\ rated' = [rated EXCEPT ![RatedWinner(r)] = @ + 1]
    BY <1>3 DEF Save, Rate, Answer
  <2>2. Busy' = {}
    BY <1>t, <2>1, OneBusy
  <2>3. RatedWinner(r) \in Players /\ my[r].winner \in Players
    BY <1>3, MoneyMatchAssumption DEF RatedWinner, TypeInv, Equipped
  <2>4. Ratings = 0 /\ Players = {"A", "B"}
    BY <1>3, <1>t DEF AtWork, Players
  <2>5. Ratings' = 1
    BY <1>t, <2>1, <2>3, <2>4 DEF Ratings
  <2>6. AtRest(match)'
    BY <1>3, <1>t, <2>1, <2>3, <2>5 DEF AtWork, AtRest, Truthful, TimesPaid, Players, Nobody
  <2> QED  BY <1>t, <2>2, <2>6 DEF InTurn, TimesPaid
<1> QED  BY <1>1, <1>2, <1>3 DEF Save, Rate

LEMMA TurnStep == TurnInv /\ [Next]_vars => TurnInv'
<1> SUFFICES ASSUME TurnInv, [Next]_vars PROVE TurnInv'
  OBVIOUS
<1>1. TypeInv /\ TypeInv'
  BY TypeStep DEF TurnInv
<1> SUFFICES ASSUME Undisturbed' PROVE InTurn'
  BY <1>1 DEF TurnInv
<1>2. ASSUME NEW r \in Requests, Arrive(r) PROVE InTurn'
  <2>1. New(r) /\ aborts' = aborts
    BY <1>2 DEF Arrive, SetLivestream, Dispute, CallOff, Confirm, Propose, Complete, Rule, faults
  <2>2. Busy = {} /\ InTurn
    BY <1>1, <2>1 DEF New, Undisturbed, TurnInv, TypeInv, TypeOK
  <2> QED  BY <1>1, <1>2, <2>2, AsksInTurn, SettlesInTurn DEF Arrive
<1>3. ASSUME NEW r \in Requests, Hold(r) \/ Refund(r) \/ Release(r) \/ Save(r) \/ Rate(r) PROVE InTurn'
  <2>1. overlapped' = overlapped /\ aborts' = aborts
    BY <1>3 DEF Hold, Refund, Release, Save, Rate, faults
  <2>2. InTurn
    BY <2>1 DEF Undisturbed, TurnInv
  <2> QED  BY <1>1, <1>3, <2>2, HoldInTurn, PayInTurn, FinishInTurn
<1>4. ASSUME NEW r \in Requests, Abort(r) PROVE FALSE
  BY <1>1, <1>4, MoneyMatchAssumption DEF Abort, Undisturbed, TypeInv, TypeOK
<1>5. CASE UNCHANGED vars
  BY <1>1, <1>5 DEF vars, TurnInv, Undisturbed, InTurn, AtRest, AtWork, Truthful, TimesPaid, Ratings, Busy
<1> QED  BY <1>2, <1>3, <1>4, <1>5 DEF Next

LEMMA TurnAlways == Spec => []TurnInv
BY TurnInit, TurnStep, PTL DEF Spec

\* While requests are served one after another, EscrowService releases or
\* refunds no hold a second time, whatever audit rows fail to be written.
THEOREM HoldsPaidOnce == Spec => []PaidOnceInTurn
<1>1. TurnInv => PaidOnceInTurn
  BY DEF TurnInv, InTurn, PaidOnceInTurn, TypeInv, TypeOK, TimesPaid, Ways, Players
<1> QED  BY <1>1, TurnAlways, PTL

\* Served one after another, the requests leave no stakes in escrow once the
\* match is COMPLETED, unless its row says that the escrow FAILED.
THEOREM NoStakesLeftHeld == Spec => []NothingLeftHeld
<1>1. TurnInv => NothingLeftHeld
  <2> SUFFICES ASSUME TurnInv, Undisturbed, Busy = {}, match.status = "COMPLETED", match.escrow # "FAILED"
               PROVE  \A hold \in held : TimesPaid(hold) = 1
    BY DEF NothingLeftHeld
  <2>1. AtRest(match) /\ match.escrow \in {"NONE", "HELD", "RELEASED", "REFUNDED", "FAILED"}
    BY DEF TurnInv, InTurn, TypeInv, TypeOK, Match
  <2> QED  BY <2>1 DEF AtRest, Truthful
<1> QED  BY <1>1, TurnAlways, PTL

\* Served one after another, the requests tell scorekeeping of a match once when
\* it has a result, and never when it was called off.
THEOREM ResultsRatedOnce == Spec => []ResultRatedOnce
<1>1. TurnInv => ResultRatedOnce
  BY DEF TurnInv, InTurn, AtRest, ResultRatedOnce, Ratings
<1> QED  BY <1>1, TurnAlways, PTL
=============================================================================
