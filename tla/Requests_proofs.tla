-------------------------- MODULE Requests_proofs --------------------------
(***************************************************************************)
(* What every component served by Requests relies on: a step of a handler  *)
(* concerns its own request only, and as long as none has overlapped, at   *)
(* most one is being served.                                               *)
(***************************************************************************)
EXTENDS Requests, Sequences, SequencesExt, SequenceTheorems, TLAPS

\* Every request is somewhere and holds something.
Served ==
  /\ pc = [w \in Workers |-> pc[w]]
  /\ my = [w \in Workers |-> my[w]]
  /\ overlapped \in BOOLEAN /\ irregular \in BOOLEAN

\* The other requests are where they were.
Alone(w) == \A v \in Workers \ {w} : pc'[v] = pc[v] /\ my'[v] = my[v]

\* Request w goes on to a step, with the copies it takes there.
Moved(w, step, work) == pc'[w] = step /\ my'[w] = work /\ Alone(w)

InTurn == ~overlapped => \A v, w \in Workers : pc[v] # "idle" /\ pc[w] # "idle" => v = w

LEMMA NothingServed ==
  ASSUME NEW n, NEW m, ServeNothing(n, m)
  PROVE  Served /\ InTurn /\ \A w \in Workers : pc[w] = "idle"
BY DEF ServeNothing, Served, InTurn

LEMMA Awaiting ==
  ASSUME Served, NEW w \in Workers, NEW step, NEW work, Await(w, step, work)
  PROVE  Moved(w, step, work) /\ pc' = [v \in Workers |-> pc'[v]] /\ my' = [v \in Workers |-> my'[v]]
BY DEF Served, Await, Goto, Hold, Moved, Alone

LEMMA GoingOn ==
  ASSUME Served, NEW w \in Workers, NEW step, Then(w, step)
  PROVE  Moved(w, step, my[w]) /\ pc' = [v \in Workers |-> pc'[v]] /\ my' = [v \in Workers |-> my'[v]]
BY DEF Served, Then, Goto, Moved, Alone

LEMMA Answering ==
  ASSUME Served, NEW w \in Workers, Answer(w)
  PROVE  Moved(w, "idle", NoWork) /\ pc' = [v \in Workers |-> pc'[v]] /\ my' = [v \in Workers |-> my'[v]]
BY Awaiting DEF Answer

\* As long as nothing has overlapped, a request that arrives finds no other.
LEMMA ArrivesInTurn ==
  ASSUME Served, InTurn, NEW w \in Workers, Arrive(w)
  PROVE  /\ overlapped' \in BOOLEAN
         /\ ~overlapped' => ~overlapped /\ Quiet
         /\ Alone(w) => InTurn'
BY DEF Served, InTurn, Arrive, Alone, Quiet

\* A request that is being served is then the only one.
LEMMA ServedInTurn ==
  ASSUME Served, InTurn, NEW w \in Workers, pc[w] # "idle", UNCHANGED overlapped
  PROVE  /\ overlapped' \in BOOLEAN
         /\ ~overlapped => \A v \in Workers \ {w} : pc[v] = "idle"
         /\ Alone(w) => InTurn'
BY DEF Served, InTurn, Alone

-----------------------------------------------------------------------------
(* Tables, kept as sequences of rows *)

\* A row that is saved over another leaves the table as long as it was ...
LEMMA SavedRow ==
  ASSUME NEW S, NEW s \in Seq(S), NEW i, NEW x \in S
  PROVE  /\ [s EXCEPT ![i] = x] \in Seq(S)
         /\ DOMAIN [s EXCEPT ![i] = x] = DOMAIN s
         /\ \A j \in DOMAIN s : [s EXCEPT ![i] = x][j] = IF j = i THEN x ELSE s[j]
<1>1. s \in [1 .. Len(s) -> S] /\ Len(s) \in Nat
  OBVIOUS
<1> DEFINE t == [s EXCEPT ![i] = x]
<1>2. t \in [1 .. Len(s) -> S]
  BY <1>1
<1>3. \A j \in DOMAIN s : t[j] = IF j = i THEN x ELSE s[j]
  OBVIOUS
<1>4. DOMAIN t = DOMAIN s
  OBVIOUS
<1> HIDE DEF t
<1>5. t \in Seq(S)
  BY <1>1, <1>2
<1> QED  BY <1>3, <1>4, <1>5 DEF t

\* ... and one that is inserted comes after all there are.
LEMMA InsertedRow ==
  ASSUME NEW S, NEW s \in Seq(S), NEW x \in S
  PROVE  /\ Append(s, x) \in Seq(S)
         /\ Len(s) \in Nat /\ Len(Append(s, x)) = Len(s) + 1
         /\ DOMAIN s = 1 .. Len(s) /\ DOMAIN Append(s, x) = 1 .. (Len(s) + 1)
         /\ \A j \in DOMAIN s : Append(s, x)[j] = s[j]
         /\ Append(s, x)[Len(s) + 1] = x
OBVIOUS

\* What holds of every row of a table is its type.
LEMMA TableOf ==
  ASSUME NEW S, NEW T, NEW s \in Seq(S), \A i \in DOMAIN s : s[i] \in T
  PROVE  s \in Seq(T)
<1>1. s \in [1 .. Len(s) -> T] /\ Len(s) \in Nat
  OBVIOUS
<1> QED  BY <1>1

LEMMA FrontAndLast ==
  ASSUME NEW S, NEW s \in Seq(S), s # <<>>
  PROVE  /\ Front(s) \in Seq(S) /\ Last(s) \in S
         /\ Len(s) \in DOMAIN s /\ Last(s) = s[Len(s)]
         /\ DOMAIN Front(s) = DOMAIN s \ {Len(s)}
         /\ \A n \in DOMAIN Front(s) : Front(s)[n] = s[n]
<1>1. Len(s) \in Nat \ {0} /\ DOMAIN s = 1 .. Len(s)
  OBVIOUS
<1>2. /\ SubSeq(s, 1, Len(s) - 1) \in Seq(S) /\ Len(SubSeq(s, 1, Len(s) - 1)) = Len(s) - 1
      /\ \A n \in 1 .. (Len(s) - 1) : SubSeq(s, 1, Len(s) - 1)[n] = s[n]
  BY <1>1
<1>3. DOMAIN SubSeq(s, 1, Len(s) - 1) = 1 .. (Len(s) - 1)
  BY <1>2
<1> QED  BY <1>1, <1>2, <1>3 DEF Front, Last

LEMMA RemovedAt ==
  ASSUME NEW S, NEW s \in Seq(S), NEW i \in DOMAIN s
  PROVE  /\ RemoveAt(s, i) \in Seq(S)
         /\ DOMAIN RemoveAt(s, i) = 1 .. (Len(s) - 1)
         /\ \A n \in 1 .. (Len(s) - 1) : RemoveAt(s, i)[n] = IF n < i THEN s[n] ELSE s[n + 1]
<1>1. Len(s) \in Nat /\ DOMAIN s = 1 .. Len(s) /\ i \in 1 .. Len(s) /\ i \in Nat
  OBVIOUS
<1> DEFINE l == SubSeq(s, 1, i - 1)
           r == SubSeq(s, i + 1, Len(s))
<1>2. l \in Seq(S) /\ Len(l) = i - 1 /\ \A n \in 1 .. (i - 1) : l[n] = s[n]
  BY <1>1
<1>3. r \in Seq(S) /\ Len(r) = Len(s) - i /\ \A n \in 1 .. (Len(s) - i) : r[n] = s[n + i]
  BY <1>1
<1> HIDE DEF l, r
<1>4. l \o r \in Seq(S) /\ Len(l \o r) = Len(s) - 1
  <2>1. l \o r \in Seq(S)
    BY <1>2, <1>3
  <2>2. Len(l \o r) = Len(l) + Len(r)
    BY <1>2, <1>3, ConcatProperties
  <2>3. (i - 1) + (Len(s) - i) = Len(s) - 1
    BY <1>1
  <2> QED  BY <1>2, <1>3, <2>1, <2>2, <2>3
<1>5. DOMAIN (l \o r) = 1 .. (Len(s) - 1)
  <2>1. DOMAIN (l \o r) = 1 .. Len(l \o r)
    BY <1>4
  <2> QED  BY <1>4, <2>1
<1>6. \A n \in 1 .. (Len(s) - 1) : (l \o r)[n] = IF n < i THEN s[n] ELSE s[n + 1]
  <2> SUFFICES ASSUME NEW n \in 1 .. (Len(s) - 1) PROVE (l \o r)[n] = IF n < i THEN s[n] ELSE s[n + 1]
    OBVIOUS
  <2>1. (l \o r)[n] = IF n <= i - 1 THEN l[n] ELSE r[n - (i - 1)]
    BY <1>1, <1>2, <1>3
  <2>2. CASE n < i
    BY <1>1, <1>2, <2>1, <2>2
  <2>3. CASE ~(n < i)
    <3>1. n - (i - 1) \in 1 .. (Len(s) - i) /\ (n - (i - 1)) + i = n + 1
      BY <1>1, <2>3
    <3> QED  BY <1>1, <1>3, <2>1, <2>3, <3>1
  <2> QED  BY <2>2, <2>3
<1> QED  BY <1>4, <1>5, <1>6 DEF RemoveAt, l, r
=============================================================================
