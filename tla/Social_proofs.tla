---------------------------- MODULE Social_proofs ----------------------------
(***************************************************************************)
(* Social for any users, sockets and requests at a time: its types, that   *)
(* friends agreed, that threads are whole and that presence is true.       *)
(*                                                                         *)
(* And Halls, which the same users visit: that nobody is counted twice,    *)
(* that a player is in one place, and that what is cached is fresh.  And   *)
(* WebSession, by which they sign in: that a session has one token, that   *)
(* fetches sign nobody out, and that the profile stored is the tokens'.    *)
(***************************************************************************)
EXTENDS Social, Halls, WebSession, Requests_proofs, FiniteSetTheorems

Row == [from : Users, to : Users, status : Status, by : Users \cup {Nobody}]
ThreadRow == [kind : {"DM", "GROUP"}, key : SUBSET Users, owner : Users, in : SUBSET Users, last : Nat]
NextStep == {"idle", "send"}

-----------------------------------------------------------------------------
(* Type correctness *)

\* What a request holds at each of its steps.
Holds(step, work) ==
  /\ step = "savePair" => work \in [row : Nat, copy : Row]
  /\ step = "saveThread" => work \in [thread : ThreadRow, then : NextStep] /\ work.thread.last = 0
  /\ step = "saveMembers" =>
       work \in [in : DOMAIN threads, who : SUBSET Users, from : Users, then : NextStep]
  /\ step \in {"send", "saveMessage"} => work \in [in : DOMAIN threads, from : Users]
  /\ step = "preview" => work \in [in : DOMAIN threads, message : 1 .. Len(messages)]
  /\ step \in {"authenticate", "goOnline", "goOffline", "stillOn"} =>
       work \in [socket : Sockets, user : Users]
  /\ step = "tell" => work \in [user : Users, online : BOOLEAN]

Equipped(w) == Holds(pc[w], my[w])

\* TypeOK with the bound on a thread's newest message apart from its type.
ChatOK ==
  /\ threads \in Seq(ThreadRow)
  /\ \A t \in DOMAIN threads : threads[t].last \in 0 .. Len(messages)
  /\ messages \in Seq([in : DOMAIN threads, from : Users])
  /\ openTo \subseteq Users

FriendsOK ==
  /\ pairs \in Seq(Row)
  /\ asked \subseteq Users \X Users /\ agreed \subseteq Users \X Users

PresenceOK ==
  /\ sockets \in [Sockets -> [user : Users \cup {Nobody}, open : BOOLEAN, known : BOOLEAN]]
  /\ \A s \in Sockets : sockets[s].open => sockets[s].user \in Users
  /\ online \in [Users -> SUBSET Sockets]
  /\ told \in [Users -> BOOLEAN]

TypeInv == Served /\ FriendsOK /\ ChatOK /\ PresenceOK /\ \A w \in Workers : Equipped(w)

LEMMA TypeInit == Init => TypeInv
<1> SUFFICES ASSUME Init PROVE TypeInv
  OBVIOUS
<1>1. Served /\ \A w \in Workers : pc[w] = "idle"
  BY NothingServed DEF Init
<1>2. FriendsOK /\ ChatOK
  BY DEF Init, FriendsOK, ChatOK
<1>3. PresenceOK
  BY SocialAssumption DEF Init, PresenceOK
<1> QED  BY <1>1, <1>2, <1>3 DEF TypeInv, Equipped, Holds

\* The threads and messages only become more, so what is held of them stays good.
LEMMA OthersEquipped ==
  ASSUME NEW w \in Workers, Alone(w), \A v \in Workers : Equipped(v),
         DOMAIN threads \subseteq DOMAIN threads', 1 .. Len(messages) \subseteq 1 .. Len(messages')
  PROVE  \A v \in Workers \ {w} : Equipped(v)'
<1> SUFFICES ASSUME NEW v \in Workers \ {w} PROVE Equipped(v)'
  OBVIOUS
<1>1. pc'[v] = pc[v] /\ my'[v] = my[v] /\ Equipped(v)
  BY DEF Alone
<1>2. pc[v] = "saveMembers" =>
        my[v] \in [in : DOMAIN threads', who : SUBSET Users, from : Users, then : NextStep]
  BY <1>1 DEF Equipped, Holds
<1>3. pc[v] \in {"send", "saveMessage"} => my[v] \in [in : DOMAIN threads', from : Users]
  BY <1>1 DEF Equipped, Holds
<1>4. pc[v] = "preview" => my[v] \in [in : DOMAIN threads', message : 1 .. Len(messages')]
  BY <1>1 DEF Equipped, Holds
<1> QED  BY <1>1, <1>2, <1>3, <1>4 DEF Equipped, Holds

\* The frame of every step of a request: it is enough to look at the step's own
\* request and at what it changes.
LEMMA StepType ==
  ASSUME TypeInv, NEW w \in Workers, Alone(w),
         pc' = [v \in Workers |-> pc'[v]], my' = [v \in Workers |-> my'[v]],
         overlapped' \in BOOLEAN, UNCHANGED irregular,
         DOMAIN threads \subseteq DOMAIN threads', 1 .. Len(messages) \subseteq 1 .. Len(messages'),
         FriendsOK', ChatOK', PresenceOK', Equipped(w)'
  PROVE  TypeInv'
<1>1. \A v \in Workers : Equipped(v)'
  BY OthersEquipped DEF TypeInv
<1>2. Served'
  BY DEF TypeInv, Served
<1> QED  BY <1>1, <1>2 DEF TypeInv

LEMMA RestType ==
  ASSUME TypeInv
  PROVE  /\ FriendRest => FriendsOK'
         /\ ChatRest => ChatOK' /\ DOMAIN threads \subseteq DOMAIN threads' /\ 1 .. Len(messages) \subseteq 1 .. Len(messages')
         /\ PresenceRest => PresenceOK'
         /\ UNCHANGED socialVars => FriendRest /\ ChatRest /\ PresenceRest
BY DEF TypeInv, FriendRest, ChatRest, PresenceRest, FriendsOK, ChatOK, PresenceOK, socialVars

\* A call about a friendship takes a row to save, and nothing else moves.
LEMMA CallTakesARow ==
  ASSUME TypeInv, NEW w \in Workers, NEW u \in Users,
         \/ \E v \in Users : Request(w, u, v) \/ Block(w, u, v) \/ Unblock(w, u, v)
         \/ \E i \in DOMAIN pairs : Accept(w, u, i) \/ Decline(w, u, i) \/ CancelRequest(w, u, i) \/ Unfriend(w, u, i)
  PROVE  /\ \E n \in Nat, copy \in Row : Change(w, n, copy)
         /\ Arrive(w) /\ UNCHANGED irregular
         /\ FriendsOK' /\ ChatRest /\ PresenceRest
<1>t. /\ \A i \in DOMAIN pairs : i \in Nat /\ pairs[i] \in Row
      /\ \A v \in Users : RowsOf(u, v) \subseteq DOMAIN pairs
      /\ \A v \in Users : Found(u, v) \subseteq Nat
  <2>1. DOMAIN pairs = 1 .. Len(pairs) /\ \A i \in DOMAIN pairs : pairs[i] \in Row
    BY DEF TypeInv, FriendsOK
  <2>2. \A v \in Users : RowsOf(u, v) \subseteq DOMAIN pairs
    BY DEF RowsOf
  <2>3. Len(pairs) \in Nat
    BY DEF TypeInv, FriendsOK
  <2> QED  BY <2>1, <2>2, <2>3 DEF Found
<1>s. /\ "PENDING" \in Status /\ "ACCEPTED" \in Status /\ "DECLINED" \in Status
      /\ "BLOCKED" \in Status /\ "CANCELLED" \in Status
  BY DEF Status
<1>1. ASSUME NEW v \in Users, Request(w, u, v)
      PROVE  \E n \in Nat, copy \in Row : Change(w, n, copy)
  <2>1. [from |-> u, to |-> v, status |-> "PENDING", by |-> Nobody] \in Row
    BY <1>s DEF Row
  <2> QED  BY <1>1, <1>t, <2>1 DEF Request
<1>2. ASSUME NEW v \in Users, Block(w, u, v)
      PROVE  \E n \in Nat, copy \in Row : Change(w, n, copy)
  <2>1. [from |-> u, to |-> v, status |-> "BLOCKED", by |-> u] \in Row
    BY <1>s DEF Row
  <2>2. PICK n \in Found(u, v) : Change(w, n, IF n = 0 THEN [from |-> u, to |-> v, status |-> "BLOCKED", by |-> u]
                                              ELSE [pairs[n] EXCEPT !.status = "BLOCKED", !.by = u])
    BY <1>2 DEF Block
  <2>3. n # 0 => pairs[n] \in Row
    BY <1>t DEF Found
  <2>4. n # 0 => [pairs[n] EXCEPT !.status = "BLOCKED", !.by = u] \in Row
    BY <1>s, <2>3 DEF Row
  <2>5. n \in Nat
    BY <1>t
  <2> QED  BY <2>1, <2>2, <2>4, <2>5
<1>3. ASSUME NEW v \in Users, Unblock(w, u, v)
      PROVE  \E n \in Nat, copy \in Row : Change(w, n, copy)
  <2>2. PICK n \in RowsOf(u, v) : Change(w, n, [pairs[n] EXCEPT !.status = "CANCELLED", !.by = Nobody])
    BY <1>3 DEF Unblock
  <2>3. n \in Nat /\ pairs[n] \in Row
    BY <1>t
  <2>4. [pairs[n] EXCEPT !.status = "CANCELLED", !.by = Nobody] \in Row
    BY <1>s, <2>3 DEF Row
  <2> QED  BY <2>2, <2>3, <2>4
<1>4. ASSUME NEW i \in DOMAIN pairs,
             Accept(w, u, i) \/ Decline(w, u, i) \/ CancelRequest(w, u, i) \/ Unfriend(w, u, i)
      PROVE  \E n \in Nat, copy \in Row : Change(w, n, copy)
  <2>1. \A s \in Status : SetTo(pairs[i], s) \in Row
    BY <1>t DEF Row, SetTo
  <2>2. \E s \in Status : Change(w, i, SetTo(pairs[i], s))
    BY <1>4, <1>s DEF Accept, Decline, CancelRequest, Unfriend
  <2> QED  BY <1>t, <2>1, <2>2
<1>5. /\ Arrive(w) /\ UNCHANGED <<irregular, pairs>> /\ ChatRest /\ PresenceRest
      /\ asked' \subseteq Users \X Users
      /\ agreed' \subseteq Users \X Users
  <2>1. \A i \in DOMAIN pairs : pairs[i].from \in Users /\ pairs[i].to \in Users
    BY <1>t DEF Row
  <2>2. asked \subseteq Users \X Users /\ agreed \subseteq Users \X Users
    BY DEF TypeInv, FriendsOK
  <2>3. ASSUME NEW v \in Users, Request(w, u, v) \/ Block(w, u, v) \/ Unblock(w, u, v)
      PROVE  /\ Arrive(w) /\ UNCHANGED <<irregular, pairs>> /\ ChatRest /\ PresenceRest
             /\ asked' \subseteq Users \X Users
             /\ agreed' \subseteq Users \X Users
    <3>1. asked' = asked \cup {<<u, v>>} \/ asked' = asked
      BY <2>3 DEF Request, Block, Unblock, socialVars
    <3>2. asked' \subseteq Users \X Users
      BY <2>2, <3>1
    <3> QED  BY <2>2, <2>3, <3>2 DEF Request, Block, Unblock, Call, Regular, socialVars, ChatRest, PresenceRest
  <2>4. ASSUME NEW i \in DOMAIN pairs, Decline(w, u, i) \/ CancelRequest(w, u, i) \/ Unfriend(w, u, i)
      PROVE  /\ Arrive(w) /\ UNCHANGED <<irregular, pairs>> /\ ChatRest /\ PresenceRest
             /\ asked' \subseteq Users \X Users
             /\ agreed' \subseteq Users \X Users
    BY <2>2, <2>4 DEF Decline, CancelRequest, Unfriend, Call, Regular, socialVars, ChatRest, PresenceRest
  <2>5. ASSUME NEW i \in DOMAIN pairs, Accept(w, u, i)
      PROVE  /\ Arrive(w) /\ UNCHANGED <<irregular, pairs>> /\ ChatRest /\ PresenceRest
             /\ asked' \subseteq Users \X Users
             /\ agreed' \subseteq Users \X Users
    BY <2>1, <2>2, <2>5 DEF Accept, Call, Regular, ChatRest, PresenceRest
  <2> QED  BY <2>3, <2>4, <2>5
<1>6. FriendsOK'
  BY <1>5 DEF FriendsOK, TypeInv
<1> QED  BY <1>1, <1>2, <1>3, <1>4, <1>5, <1>6

LEMMA FriendCallType ==
  ASSUME TypeInv, NEW w \in Workers, NEW u \in Users,
         \/ \E v \in Users : Request(w, u, v) \/ Block(w, u, v) \/ Unblock(w, u, v)
         \/ \E i \in DOMAIN pairs : Accept(w, u, i) \/ Decline(w, u, i) \/ CancelRequest(w, u, i) \/ Unfriend(w, u, i)
  PROVE  TypeInv'
<1>1. PICK n \in Nat, copy \in Row : Change(w, n, copy)
  BY CallTakesARow
<1>2. Arrive(w) /\ UNCHANGED irregular /\ FriendsOK' /\ ChatRest /\ PresenceRest
  BY CallTakesARow
<1> DEFINE work == [row |-> n, copy |-> copy]
<1>3. Await(w, "savePair", work)
  BY <1>1 DEF Change
<1>4. work \in [row : Nat, copy : Row]
  OBVIOUS
<1> HIDE DEF work
<1>5. Moved(w, "savePair", work) /\ pc' = [v \in Workers |-> pc'[v]] /\ my' = [v \in Workers |-> my'[v]]
  BY <1>3, Awaiting DEF TypeInv
<1>6. Equipped(w)' /\ Alone(w)
  BY <1>4, <1>5 DEF Moved, Equipped, Holds
<1>7. overlapped' \in BOOLEAN
  BY <1>2 DEF Arrive, TypeInv, Served
<1> QED  BY <1>2, <1>5, <1>6, <1>7, RestType, StepType

\* A step that only takes copies, whatever request it belongs to.
LEMMA CopyType ==
  ASSUME TypeInv, NEW w \in Workers, NEW step, NEW work,
         Await(w, step, work), Holds(step, work),
         Arrive(w) \/ UNCHANGED overlapped, UNCHANGED irregular, UNCHANGED socialVars
  PROVE  TypeInv'
<1>1. Moved(w, step, work) /\ pc' = [v \in Workers |-> pc'[v]] /\ my' = [v \in Workers |-> my'[v]]
  BY Awaiting DEF TypeInv
<1>2. Equipped(w)' /\ Alone(w)
  BY <1>1 DEF Moved, Equipped, Holds, socialVars
<1>3. overlapped' \in BOOLEAN
  BY DEF Arrive, TypeInv, Served
<1> QED  BY <1>1, <1>2, <1>3, RestType, StepType

LEMMA SavePairType ==
  ASSUME TypeInv, NEW w \in Workers, SavePair(w)
  PROVE  TypeInv'
<1>1. my[w] \in [row : Nat, copy : Row]
  BY DEF SavePair, At, TypeInv, Equipped, Holds
<1>2. pairs' \in Seq(Row)
  <2>1. my[w].copy \in Row /\ pairs \in Seq(Row)
    BY <1>1 DEF TypeInv, FriendsOK
  <2>2. Append(pairs, my[w].copy) \in Seq(Row)
    BY <2>1
  <2>3. [pairs EXCEPT ![my[w].row] = my[w].copy] \in Seq(Row)
    BY <2>1, SavedRow
  <2> QED  BY <2>2, <2>3 DEF SavePair
<1>3. FriendsOK'
  BY <1>2 DEF SavePair, TypeInv, FriendsOK
<1>4. Moved(w, "idle", NoWork) /\ pc' = [v \in Workers |-> pc'[v]] /\ my' = [v \in Workers |-> my'[v]]
  BY Answering DEF TypeInv, SavePair
<1>5. Equipped(w)' /\ Alone(w)
  BY <1>4 DEF Moved, Equipped, Holds
<1> QED  BY <1>3, <1>4, <1>5, RestType, StepType DEF SavePair, At, TypeInv, Served

LEMMA ChatCallType ==
  ASSUME TypeInv, NEW w \in Workers, NEW u \in Users,
         \/ \E v \in Users : OpenDm(w, u, v) \/ Challenge(w, u, v)
         \/ \E others \in SUBSET Users : CreateGroup(w, u, others)
         \/ \E t \in DOMAIN threads : Write(w, u, t) \/ \E v \in Users : AddMember(w, u, t, v)
  PROVE  TypeInv'
<1> DEFINE step1(v) == [thread |-> Thread("DM", {u, v}, u), then |-> "idle"]
           step2(v) == [thread |-> Thread("DM", {u, v}, u), then |-> "send"]
           step3(others) == [thread |-> Thread("GROUP", others \cup {u}, u), then |-> "idle"]
           step4(t) == [in |-> t, from |-> u]
           step5(t, v) == [in |-> t, who |-> {v}, from |-> u, then |-> "idle"]
<1>1. \A v \in Users : Holds("saveThread", step1(v)) /\ Holds("saveThread", step2(v))
  <2>1. \A v \in Users : Thread("DM", {u, v}, u) \in ThreadRow /\ Thread("DM", {u, v}, u).last = 0
    BY DEF Thread, ThreadRow
  <2> QED  BY <2>1 DEF Holds, NextStep
<1>2. \A others \in SUBSET Users : Holds("saveThread", step3(others))
  <2>1. \A others \in SUBSET Users : Thread("GROUP", others \cup {u}, u) \in ThreadRow
                                     /\ Thread("GROUP", others \cup {u}, u).last = 0
    BY DEF Thread, ThreadRow
  <2> QED  BY <2>1 DEF Holds, NextStep
<1>3. \A t \in DOMAIN threads : Holds("send", step4(t)) /\ \A v \in Users : Holds("saveMembers", step5(t, v))
  BY DEF Holds, NextStep
<1>4. \A v \in Users : Dms({u, v}) \subseteq DOMAIN threads
  BY DEF Dms
<1> HIDE DEF step1, step2, step3, step4, step5
<1>5. ASSUME NEW v \in Users, OpenDm(w, u, v) PROVE TypeInv'
  <2>1. Await(w, "saveThread", step1(v))
    BY <1>5 DEF OpenDm, step1
  <2> QED  BY <1>1, <1>5, <2>1, CopyType DEF OpenDm, Call, Regular
<1>6. ASSUME NEW v \in Users, Challenge(w, u, v) PROVE TypeInv'
  <2>1. Await(w, "saveThread", step2(v)) \/ \E t \in DOMAIN threads : Await(w, "send", step4(t))
    BY <1>4, <1>6 DEF Challenge, step2, step4
  <2> QED  BY <1>1, <1>3, <1>6, <2>1, CopyType DEF Challenge, Call, Regular
<1>7. ASSUME NEW others \in SUBSET Users, CreateGroup(w, u, others) PROVE TypeInv'
  <2>1. Await(w, "saveThread", step3(others))
    BY <1>7 DEF CreateGroup, step3
  <2> QED  BY <1>2, <1>7, <2>1, CopyType DEF CreateGroup, Call, Regular
<1>8. ASSUME NEW t \in DOMAIN threads, Write(w, u, t) PROVE TypeInv'
  <2>1. Await(w, "send", step4(t))
    BY <1>8 DEF Write, step4
  <2> QED  BY <1>3, <1>8, <2>1, CopyType DEF Write, Call, Regular
<1>9. ASSUME NEW t \in DOMAIN threads, NEW v \in Users, AddMember(w, u, t, v) PROVE TypeInv'
  <2>1. Await(w, "saveMembers", step5(t, v))
    BY <1>9 DEF AddMember, step5
  <2> QED  BY <1>3, <1>9, <2>1, CopyType DEF AddMember, Call, Regular
<1> QED  BY <1>5, <1>6, <1>7, <1>8, <1>9

LEMMA ChangeSettingsType ==
  ASSUME TypeInv, NEW w \in Workers, NEW u \in Users, ChangeSettings(w, u)
  PROVE  TypeInv'
<1>1. openTo' \subseteq Users
  BY DEF ChangeSettings, TypeInv, ChatOK
<1>2. ChatOK'
  BY <1>1 DEF ChangeSettings, TypeInv, ChatOK
<1>3. Alone(w) /\ Equipped(w)' /\ UNCHANGED <<pc, my, irregular, threads, messages>>
  BY DEF ChangeSettings, Call, Regular, Alone, TypeInv, Equipped, Holds
<1>4. overlapped' \in BOOLEAN
  BY DEF ChangeSettings, Call, Arrive, TypeInv, Served
<1>5. pc' = [v \in Workers |-> pc'[v]] /\ my' = [v \in Workers |-> my'[v]]
  BY <1>3 DEF TypeInv, Served
<1> QED  BY <1>2, <1>3, <1>4, <1>5, RestType, StepType DEF ChangeSettings

LEMMA SaveThreadType ==
  ASSUME TypeInv, NEW w \in Workers, SaveThread(w)
  PROVE  TypeInv'
<1> DEFINE thread == my[w].thread
           work == [in |-> Len(threads) + 1, who |-> thread.key, from |-> thread.owner, then |-> my[w].then]
<1>1. my[w] \in [thread : ThreadRow, then : NextStep] /\ thread \in ThreadRow /\ thread.last = 0
  BY DEF SaveThread, At, TypeInv, Equipped, Holds
<1>2. CASE threads' = threads /\ Answer(w)
  <2>1. Holds("idle", NoWork) /\ UNCHANGED socialVars
    BY <1>2 DEF Holds, SaveThread, FriendRest, PresenceRest, socialVars
  <2> QED  BY <1>2, <2>1, CopyType DEF SaveThread, At, Answer
<1>3. CASE threads' = Append(threads, thread) /\ Await(w, "saveMembers", work)
  <2>1. threads \in Seq(ThreadRow) /\ Len(messages) \in Nat
    BY DEF TypeInv, ChatOK
  <2>2. /\ threads' \in Seq(ThreadRow) /\ DOMAIN threads \subseteq DOMAIN threads'
        /\ DOMAIN threads' = 1 .. (Len(threads) + 1) /\ Len(threads) \in Nat
        /\ \A t \in DOMAIN threads : threads'[t] = threads[t]
        /\ threads'[Len(threads) + 1] = thread /\ DOMAIN threads = 1 .. Len(threads)
    BY <1>1, <1>3, <2>1, InsertedRow
  <2>3. \A t \in DOMAIN threads' : threads'[t].last \in 0 .. Len(messages)
    <3>1. \A t \in DOMAIN threads : threads[t].last \in 0 .. Len(messages)
      BY DEF TypeInv, ChatOK
    <3> QED  BY <1>1, <2>1, <2>2, <3>1
  <2>4. messages \in Seq([in : DOMAIN threads', from : Users])
    <3> DEFINE old == [in : DOMAIN threads, from : Users]
               new == [in : DOMAIN threads', from : Users]
    <3>1. messages \in Seq(old)
      BY DEF TypeInv, ChatOK
    <3>2. old \subseteq new
      BY <2>2
    <3> HIDE DEF old, new
    <3>3. \A n \in DOMAIN messages : messages[n] \in new
      BY <3>1, <3>2
    <3>4. messages \in Seq(new)
      BY <3>1, <3>3, TableOf
    <3> QED  BY <3>4 DEF new
  <2>5. ChatOK'
    BY <2>2, <2>3, <2>4 DEF ChatOK, SaveThread, TypeInv
  <2>6. work \in [in : DOMAIN threads', who : SUBSET Users, from : Users, then : NextStep]
    BY <1>1, <2>2 DEF ThreadRow
  <2>7. Moved(w, "saveMembers", work) /\ pc' = [v \in Workers |-> pc'[v]] /\ my' = [v \in Workers |-> my'[v]]
    BY <1>3, Awaiting DEF TypeInv
  <2> HIDE DEF work
  <2>8. Equipped(w)' /\ Alone(w)
    BY <2>6, <2>7 DEF Moved, Equipped, Holds
  <2>9. UNCHANGED <<overlapped, irregular, messages>> /\ FriendRest /\ PresenceRest /\ overlapped \in BOOLEAN
    BY DEF SaveThread, At, TypeInv, Served
  <2> QED  BY <2>2, <2>5, <2>7, <2>8, <2>9, RestType, StepType
<1> QED  BY <1>2, <1>3 DEF SaveThread

\* A thread that is there gets members or a newest message.
LEMMA ThreadChanges ==
  ASSUME TypeInv, NEW t \in DOMAIN threads, NEW in \in SUBSET Users, NEW n \in 0 .. Len(messages),
         NEW new, new = [threads EXCEPT ![t].in = in] \/ new = [threads EXCEPT ![t].last = n]
  PROVE  /\ new \in Seq(ThreadRow) /\ DOMAIN new = DOMAIN threads
         /\ \A q \in DOMAIN threads : new[q].last \in 0 .. Len(messages)
<1>1. threads \in Seq(ThreadRow) /\ Len(messages) \in Nat /\ threads[t] \in ThreadRow
  BY DEF TypeInv, ChatOK
<1>2. PICK row \in ThreadRow : new = [threads EXCEPT ![t] = row] /\ row.last \in 0 .. Len(messages)
  <2>1. CASE new = [threads EXCEPT ![t].in = in]
    <3>1. [threads[t] EXCEPT !.in = in] \in ThreadRow /\ [threads[t] EXCEPT !.in = in].last = threads[t].last
      BY <1>1 DEF ThreadRow
    <3> QED  BY <2>1, <3>1 DEF TypeInv, ChatOK
  <2>2. CASE new = [threads EXCEPT ![t].last = n]
    <3>1. n \in Nat
      BY <1>1
    <3>2. [threads[t] EXCEPT !.last = n] \in ThreadRow /\ [threads[t] EXCEPT !.last = n].last = n
      BY <1>1, <3>1 DEF ThreadRow
    <3> QED  BY <2>2, <3>2
  <2> QED  BY <2>1, <2>2
<1>3. \A q \in DOMAIN threads : threads[q].last \in 0 .. Len(messages)
  BY DEF TypeInv, ChatOK
<1> QED  BY <1>1, <1>2, <1>3, SavedRow

LEMMA SaveMembersType ==
  ASSUME TypeInv, NEW w \in Workers, SaveMembers(w)
  PROVE  TypeInv'
<1>1. my[w] \in [in : DOMAIN threads, who : SUBSET Users, from : Users, then : NextStep]
  BY DEF SaveMembers, At, TypeInv, Equipped, Holds
<1> DEFINE work == [in |-> my[w].in, from |-> my[w].from]
<1>2. PICK in \in SUBSET Users : threads' = [threads EXCEPT ![my[w].in].in = in]
  <2>1. threads[my[w].in].in \cup my[w].who \in SUBSET Users
    <3>1. my[w].in \in DOMAIN threads /\ my[w].who \in SUBSET Users
      BY <1>1
    <3>2. threads[my[w].in] \in ThreadRow
      BY <3>1 DEF TypeInv, ChatOK
    <3> QED  BY <3>1, <3>2 DEF ThreadRow
  <2>2. threads' = [threads EXCEPT ![my[w].in].in = threads[my[w].in].in \cup my[w].who]
    BY DEF SaveMembers, Joining
  <2> QED  BY <2>1, <2>2
<1>3. /\ threads' \in Seq(ThreadRow) /\ DOMAIN threads' = DOMAIN threads
      /\ \A q \in DOMAIN threads : threads'[q].last \in 0 .. Len(messages)
  <2>1. 0 \in 0 .. Len(messages) /\ my[w].in \in DOMAIN threads
    BY <1>1 DEF TypeInv, ChatOK
  <2> DEFINE t == my[w].in
             new == threads'
  <2>2. t \in DOMAIN threads /\ new = [threads EXCEPT ![t].in = in]
    BY <1>2, <2>1
  <2> HIDE DEF t, new
  <2>3. /\ new \in Seq(ThreadRow) /\ DOMAIN new = DOMAIN threads
        /\ \A q \in DOMAIN threads : new[q].last \in 0 .. Len(messages)
    BY <2>1, <2>2, ThreadChanges
  <2> QED  BY <2>3 DEF new
<1>4. ChatOK'
  BY <1>3 DEF ChatOK, SaveMembers, TypeInv
<1>5. Await(w, "idle", NoWork) \/ Await(w, "send", work)
  BY DEF SaveMembers, Answer
<1>6. Holds("idle", NoWork)' /\ (work \in [in : DOMAIN threads', from : Users])
  BY <1>1, <1>3 DEF Holds
<1> HIDE DEF work
<1>7. (Moved(w, "idle", NoWork) \/ Moved(w, "send", work))
       /\ pc' = [v \in Workers |-> pc'[v]] /\ my' = [v \in Workers |-> my'[v]]
  BY <1>5, Awaiting DEF TypeInv
<1>8. Equipped(w)' /\ Alone(w)
  BY <1>6, <1>7 DEF Moved, Equipped, Holds
<1>9. UNCHANGED <<overlapped, irregular, messages>> /\ FriendRest /\ PresenceRest /\ overlapped \in BOOLEAN
  BY DEF SaveMembers, At, TypeInv, Served
<1> QED  BY <1>3, <1>4, <1>7, <1>8, <1>9, RestType, StepType

LEMMA SendType ==
  ASSUME TypeInv, NEW w \in Workers, Send(w)
  PROVE  TypeInv'
<1>1. Holds("saveMessage", my[w]) /\ Holds("idle", NoWork)
  BY DEF Send, At, TypeInv, Equipped, Holds
<1>2. Await(w, "saveMessage", my[w]) \/ Await(w, "idle", NoWork)
  BY DEF Send, Then, Answer, Await, Hold, TypeInv, Served
<1> QED  BY <1>1, <1>2, CopyType DEF Send, At

LEMMA SaveMessageType ==
  ASSUME TypeInv, NEW w \in Workers, SaveMessage(w)
  PROVE  TypeInv'
<1> DEFINE work == [in |-> my[w].in, message |-> Len(messages) + 1]
<1>1. my[w] \in [in : DOMAIN threads, from : Users]
  BY DEF SaveMessage, At, TypeInv, Equipped, Holds
<1>2. /\ messages' \in Seq([in : DOMAIN threads, from : Users])
      /\ Len(messages) \in Nat /\ Len(messages') = Len(messages) + 1
  <2>1. messages \in Seq([in : DOMAIN threads, from : Users])
    BY DEF TypeInv, ChatOK
  <2> QED  BY <1>1, <2>1, InsertedRow DEF SaveMessage
<1>3. 1 .. Len(messages) \subseteq 1 .. Len(messages') /\ 0 .. Len(messages) \subseteq 0 .. Len(messages')
  BY <1>2
<1>4. ChatOK'
  BY <1>2, <1>3 DEF ChatOK, SaveMessage, TypeInv
<1>5. work \in [in : DOMAIN threads', message : 1 .. Len(messages')]
  BY <1>1, <1>2 DEF SaveMessage
<1>6. Await(w, "preview", work)
  BY DEF SaveMessage
<1> HIDE DEF work
<1>7. Moved(w, "preview", work) /\ pc' = [v \in Workers |-> pc'[v]] /\ my' = [v \in Workers |-> my'[v]]
  BY <1>6, Awaiting DEF TypeInv
<1>8. Equipped(w)' /\ Alone(w)
  BY <1>5, <1>7 DEF Moved, Equipped, Holds
<1>9. UNCHANGED <<overlapped, irregular, threads>> /\ FriendRest /\ PresenceRest /\ overlapped \in BOOLEAN
  BY DEF SaveMessage, At, TypeInv, Served
<1> QED  BY <1>3, <1>4, <1>7, <1>8, <1>9, RestType, StepType

LEMMA PreviewType ==
  ASSUME TypeInv, NEW w \in Workers, Preview(w)
  PROVE  TypeInv'
<1>1. my[w] \in [in : DOMAIN threads, message : 1 .. Len(messages)]
  BY DEF Preview, At, TypeInv, Equipped, Holds
<1>2. /\ threads' \in Seq(ThreadRow) /\ DOMAIN threads' = DOMAIN threads
      /\ \A q \in DOMAIN threads : threads'[q].last \in 0 .. Len(messages)
  <2>1. my[w].message \in 0 .. Len(messages)
    BY <1>1 DEF TypeInv, ChatOK
  <2> QED  BY <1>1, <2>1, ThreadChanges DEF Preview
<1>3. ChatOK'
  BY <1>2 DEF ChatOK, Preview, TypeInv
<1>4. Moved(w, "idle", NoWork) /\ pc' = [v \in Workers |-> pc'[v]] /\ my' = [v \in Workers |-> my'[v]]
  BY Answering DEF TypeInv, Preview
<1>5. Equipped(w)' /\ Alone(w)
  BY <1>4 DEF Moved, Equipped, Holds
<1>6. UNCHANGED <<overlapped, irregular, messages>> /\ FriendRest /\ PresenceRest /\ overlapped \in BOOLEAN
  BY DEF Preview, At, TypeInv, Served
<1> QED  BY <1>2, <1>3, <1>4, <1>5, <1>6, RestType, StepType

\* The steps of presence change nothing but presence.
LEMMA PresenceStepType ==
  ASSUME TypeInv, NEW w \in Workers, NEW step, NEW work,
         Await(w, step, work), Holds(step, work),
         Arrive(w) \/ UNCHANGED overlapped, UNCHANGED irregular,
         FriendRest, ChatRest, PresenceOK'
  PROVE  TypeInv'
<1>1. Moved(w, step, work) /\ pc' = [v \in Workers |-> pc'[v]] /\ my' = [v \in Workers |-> my'[v]]
  BY Awaiting DEF TypeInv
<1>2. Equipped(w)' /\ Alone(w)
  BY <1>1 DEF Moved, Equipped, Holds, ChatRest
<1>3. overlapped' \in BOOLEAN
  BY DEF Arrive, TypeInv, Served
<1> QED  BY <1>1, <1>2, <1>3, RestType, StepType

LEMMA PresenceType ==
  ASSUME TypeInv, NEW w \in Workers,
         \/ \E s \in Sockets : Disconnect(w, s) \/ \E u \in Users : Connect(w, s, u)
         \/ Authenticate(w) \/ GoOnline(w) \/ Tell(w) \/ GoOffline(w) \/ StillOn(w)
  PROVE  TypeInv'
<1>t. /\ sockets \in [Sockets -> [user : Users \cup {Nobody}, open : BOOLEAN, known : BOOLEAN]]
      /\ \A s \in Sockets : sockets[s].open => sockets[s].user \in Users
      /\ online \in [Users -> SUBSET Sockets] /\ told \in [Users -> BOOLEAN]
  BY DEF TypeInv, PresenceOK
<1>i. Holds("idle", NoWork)
  BY DEF Holds
<1>s. SocketsRest => UNCHANGED <<online, told>> /\ FriendRest /\ ChatRest
  BY DEF SocketsRest
<1>1. ASSUME NEW s \in Sockets, NEW u \in Users, Connect(w, s, u) PROVE TypeInv'
  <2>1. sockets' = [sockets EXCEPT ![s] = [user |-> u, open |-> TRUE, known |-> FALSE]]
    BY <1>1 DEF Connect
  <2>2. PresenceOK'
    BY <1>s, <1>t, <1>1, <2>1 DEF PresenceOK, Connect
  <2>3. Holds("authenticate", [socket |-> s, user |-> u])
    BY DEF Holds
  <2> QED  BY <1>s, <1>1, <2>2, <2>3, PresenceStepType DEF Connect, Call, Regular
<1>2. ASSUME NEW s \in Sockets, Disconnect(w, s) PROVE TypeInv'
  <2>1. sockets' = [sockets EXCEPT ![s].open = FALSE] /\ sockets[s].user \in Users
    BY <1>t, <1>2 DEF Disconnect
  <2>2. PresenceOK'
    BY <1>s, <1>t, <1>2, <2>1 DEF PresenceOK, Disconnect
  <2>3. Holds("goOffline", [socket |-> s, user |-> sockets[s].user])
    BY <2>1 DEF Holds
  <2>4. Await(w, "goOffline", [socket |-> s, user |-> sockets[s].user]) \/ Await(w, "idle", NoWork)
    BY <1>2 DEF Disconnect, Answer
  <2> QED  BY <1>i, <1>s, <1>2, <2>2, <2>3, <2>4, PresenceStepType DEF Disconnect, Call, Regular
<1>3. CASE Authenticate(w)
  <2>1. sockets' = [sockets EXCEPT ![my[w].socket].known = TRUE] /\ my[w].socket \in Sockets
    BY <1>3 DEF Authenticate, At, TypeInv, Equipped, Holds
  <2>2. PresenceOK'
    <3>1. \A s \in Sockets : /\ sockets'[s].user = sockets[s].user /\ sockets'[s].open = sockets[s].open
                             /\ sockets'[s] \in [user : Users \cup {Nobody}, open : BOOLEAN, known : BOOLEAN]
      BY <1>t, <2>1
    <3>2. sockets' = [s \in Sockets |-> sockets'[s]] /\ UNCHANGED <<online, told>>
      BY <1>s, <1>t, <1>3, <2>1 DEF Authenticate
    <3>3. sockets' \in [Sockets -> [user : Users \cup {Nobody}, open : BOOLEAN, known : BOOLEAN]]
      BY <3>1, <3>2
    <3> QED  BY <1>t, <3>1, <3>2, <3>3 DEF PresenceOK
  <2>3. Holds("goOnline", my[w])
    BY <1>3 DEF Authenticate, At, TypeInv, Equipped, Holds
  <2>4. Await(w, "goOnline", my[w])
    BY <1>3 DEF Authenticate, Then, Await, Hold, TypeInv, Served
  <2> QED  BY <1>s, <1>3, <2>2, <2>3, <2>4, PresenceStepType DEF Authenticate, At
<1>4. CASE GoOnline(w)
  <2>1. my[w] \in [socket : Sockets, user : Users]
    BY <1>4 DEF GoOnline, At, TypeInv, Equipped, Holds
  <2>2. PresenceOK'
    BY <1>t, <1>4, <2>1 DEF PresenceOK, GoOnline
  <2>3. Holds("tell", [user |-> my[w].user, online |-> TRUE])
    BY <2>1 DEF Holds
  <2> QED  BY <1>4, <2>2, <2>3, PresenceStepType DEF GoOnline, At
<1>5. CASE Tell(w)
  <2>1. my[w] \in [user : Users, online : BOOLEAN]
    BY <1>5 DEF Tell, At, TypeInv, Equipped, Holds
  <2>2. PresenceOK'
    BY <1>t, <1>5, <2>1 DEF PresenceOK, Tell
  <2> QED  BY <1>i, <1>5, <2>2, PresenceStepType DEF Tell, At, Answer
<1>6. CASE GoOffline(w)
  <2>1. my[w] \in [socket : Sockets, user : Users] /\ Holds("stillOn", my[w])
    BY <1>6 DEF GoOffline, At, TypeInv, Equipped, Holds
  <2>2. PresenceOK'
    BY <1>t, <1>6, <2>1 DEF PresenceOK, GoOffline
  <2>3. Await(w, "stillOn", my[w])
    BY <1>6 DEF GoOffline, Then, Await, Hold, TypeInv, Served
  <2> QED  BY <1>6, <2>1, <2>2, <2>3, PresenceStepType DEF GoOffline, At
<1>7. CASE StillOn(w)
  <2>1. my[w] \in [socket : Sockets, user : Users]
    BY <1>7 DEF StillOn, At, TypeInv, Equipped, Holds
  <2>2. Holds("tell", [user |-> my[w].user, online |-> FALSE])
    BY <2>1 DEF Holds
  <2>3. Await(w, "tell", [user |-> my[w].user, online |-> FALSE]) \/ Await(w, "idle", NoWork)
    BY <1>7 DEF StillOn, Answer
  <2> QED  BY <1>i, <1>7, <2>2, <2>3, CopyType DEF StillOn, At
<1> QED  BY <1>1, <1>2, <1>3, <1>4, <1>5, <1>6, <1>7

LEMMA ProcessDiesType ==
  ASSUME TypeInv, ProcessDies
  PROVE  TypeInv'
<1>1. PresenceOK'
  <2>1. sockets' = [s \in Sockets |-> [sockets[s] EXCEPT !.open = FALSE]] /\ UNCHANGED <<online, told>>
    BY DEF ProcessDies, SocketsRest
  <2>2. \A s \in Sockets : sockets[s] \in [user : Users \cup {Nobody}, open : BOOLEAN, known : BOOLEAN]
    BY DEF TypeInv, PresenceOK
  <2>3. \A s \in Sockets : /\ [sockets[s] EXCEPT !.open = FALSE] \in [user : Users \cup {Nobody}, open : BOOLEAN, known : BOOLEAN]
                           /\ ~[sockets[s] EXCEPT !.open = FALSE].open
    BY <2>2
  <2> QED  BY <2>1, <2>3 DEF TypeInv, PresenceOK
<1>2. FriendsOK' /\ ChatOK'
  BY RestType DEF ProcessDies, SocketsRest
<1>3. Served' /\ \A w \in Workers : pc'[w] = "idle"
  BY DEF ProcessDies, Irregular, TypeInv, Served
<1> QED  BY <1>1, <1>2, <1>3 DEF TypeInv, Equipped, Holds

LEMMA TypeStep == TypeInv /\ [Next]_vars => TypeInv'
<1> SUFFICES ASSUME TypeInv, [Next]_vars PROVE TypeInv'
  OBVIOUS
<1>1. ASSUME NEW w \in Workers, Serve(w) PROVE TypeInv'
  BY <1>1, SavePairType, SaveThreadType, SaveMembersType, SendType, SaveMessageType, PreviewType,
     PresenceType DEF Serve
<1>2. CASE UNCHANGED vars
  BY <1>2 DEF vars, requestVars, socialVars, TypeInv, Served, FriendsOK, ChatOK, PresenceOK, Equipped, Holds
<1> QED  BY <1>1, <1>2, FriendCallType, ChatCallType, ChangeSettingsType, PresenceType, ProcessDiesType DEF Next

LEMMA TypeAlways == Spec => []TypeInv
BY TypeInit, TypeStep, PTL DEF Spec

\* However the calls interleave and wherever the process dies, every table and
\* every copy of a row keeps its shape, and a message is in a thread that exists.
THEOREM TypeCorrect == Spec => []TypeOK
<1>1. TypeInv => TypeOK
  <2> SUFFICES ASSUME TypeInv PROVE TypeOK
    OBVIOUS
  <2>1. threads \in Seq([kind : {"DM", "GROUP"}, key : SUBSET Users, owner : Users,
                         in : SUBSET Users, last : 0 .. Len(messages)])
    <3>1. threads \in Seq(ThreadRow) /\ \A t \in DOMAIN threads : threads[t] \in ThreadRow
      BY DEF TypeInv, ChatOK
    <3>2. \A t \in DOMAIN threads : threads[t] \in [kind : {"DM", "GROUP"}, key : SUBSET Users, owner : Users,
                                                   in : SUBSET Users, last : 0 .. Len(messages)]
      BY <3>1 DEF ThreadRow, TypeInv, ChatOK
    <3> QED  BY <3>1, <3>2, TableOf
  <2> QED  BY <2>1 DEF TypeInv, FriendsOK, ChatOK, PresenceOK, TypeOK, Row
<1> QED  BY <1>1, TypeAlways, PTL

-----------------------------------------------------------------------------
(* Which calls concern what *)

FriendStep(w) ==
  \/ \E u \in Users :
       \/ \E v \in Users : Request(w, u, v) \/ Block(w, u, v) \/ Unblock(w, u, v)
       \/ \E i \in DOMAIN pairs : Accept(w, u, i) \/ Decline(w, u, i) \/ CancelRequest(w, u, i) \/ Unfriend(w, u, i)
  \/ SavePair(w)

ChatStep(w) ==
  \/ \E u \in Users :
       \/ \E v \in Users : OpenDm(w, u, v) \/ Challenge(w, u, v)
       \/ \E others \in SUBSET Users : CreateGroup(w, u, others)
       \/ \E t \in DOMAIN threads : Write(w, u, t) \/ \E v \in Users : AddMember(w, u, t, v)
       \/ ChangeSettings(w, u)
  \/ SaveThread(w) \/ SaveMembers(w) \/ Send(w) \/ SaveMessage(w) \/ Preview(w)

PresenceStep(w) ==
  \/ \E s \in Sockets : Disconnect(w, s) \/ \E u \in Users : Connect(w, s, u)
  \/ Authenticate(w) \/ GoOnline(w) \/ Tell(w) \/ GoOffline(w) \/ StillOn(w)

LEMMA NextSteps ==
  Next => ProcessDies \/ \E w \in Workers : FriendStep(w) \/ ChatStep(w) \/ PresenceStep(w)
BY DEF Next, Serve, FriendStep, ChatStep, PresenceStep

ChatSteps == {"saveThread", "saveMembers", "send", "saveMessage", "preview"}
PresenceSteps == {"authenticate", "goOnline", "tell", "goOffline", "stillOn"}

\* The request begins, or goes on with what it was at.
Goes(w, steps) ==
  /\ Alone(w) /\ UNCHANGED irregular
  /\ \/ Arrive(w)
     \/ pc[w] \in steps /\ UNCHANGED overlapped
  /\ pc'[w] \in steps \cup {"idle"}

LEMMA FriendStepGoes ==
  ASSUME TypeInv, NEW w \in Workers, FriendStep(w)
  PROVE  Goes(w, {"savePair"}) /\ ChatRest /\ PresenceRest
<1>1. CASE SavePair(w)
  <2>1. Moved(w, "idle", NoWork)
    BY <1>1, Answering DEF SavePair, TypeInv
  <2> QED  BY <1>1, <2>1 DEF SavePair, At, Goes, Moved
<1>2. CASE ~SavePair(w)
  <2>1. PICK n \in Nat, copy \in Row : Change(w, n, copy)
    BY <1>2, CallTakesARow DEF FriendStep
  <2>2. Moved(w, "savePair", [row |-> n, copy |-> copy])
    BY <2>1, Awaiting DEF Change, TypeInv
  <2>3. Arrive(w) /\ UNCHANGED irregular /\ ChatRest /\ PresenceRest
    BY <1>2, CallTakesARow DEF FriendStep
  <2> QED  BY <2>2, <2>3 DEF Goes, Moved
<1> QED  BY <1>1, <1>2

LEMMA ChatStepGoes ==
  ASSUME TypeInv, NEW w \in Workers, ChatStep(w)
  PROVE  Goes(w, ChatSteps) /\ FriendRest /\ PresenceRest
<1>a. ASSUME NEW step \in ChatSteps, NEW work, Await(w, step, work) PROVE Alone(w) /\ pc'[w] \in ChatSteps
  BY <1>a, Awaiting DEF TypeInv, Moved
<1>b. Answer(w) => Alone(w) /\ pc'[w] = "idle"
  BY Answering DEF TypeInv, Moved
<1>c. ASSUME NEW step \in ChatSteps, Then(w, step) PROVE Alone(w) /\ pc'[w] \in ChatSteps
  BY <1>c, GoingOn DEF TypeInv, Moved
<1>1. ASSUME NEW u \in Users, NEW v \in Users, OpenDm(w, u, v) \/ Challenge(w, u, v)
      PROVE  Alone(w) /\ pc'[w] \in ChatSteps
  BY <1>1, <1>a DEF OpenDm, Challenge, ChatSteps
<1>2. ASSUME NEW u \in Users, NEW others \in SUBSET Users, CreateGroup(w, u, others)
      PROVE  Alone(w) /\ pc'[w] \in ChatSteps
  BY <1>2, <1>a DEF CreateGroup, ChatSteps
<1>3. ASSUME NEW u \in Users, NEW t \in DOMAIN threads, Write(w, u, t) \/ \E v \in Users : AddMember(w, u, t, v)
      PROVE  Alone(w) /\ pc'[w] \in ChatSteps
  BY <1>3, <1>a DEF Write, AddMember, ChatSteps
<1>4. ASSUME NEW u \in Users, ChangeSettings(w, u)
      PROVE  Goes(w, ChatSteps) /\ FriendRest /\ PresenceRest
  BY <1>4 DEF ChangeSettings, Call, Regular, Arrive, Goes, Alone
<1>5. CASE SaveThread(w) \/ SaveMembers(w) \/ Send(w) \/ SaveMessage(w) \/ Preview(w)
  <2>1. Alone(w) /\ pc'[w] \in ChatSteps \cup {"idle"}
    BY <1>5, <1>a, <1>b, <1>c DEF SaveThread, SaveMembers, Send, SaveMessage, Preview, ChatSteps
  <2>2. pc[w] \in ChatSteps /\ UNCHANGED <<overlapped, irregular>> /\ FriendRest /\ PresenceRest
    BY <1>5 DEF SaveThread, SaveMembers, Send, SaveMessage, Preview, ChatSteps, At, socialVars,
                FriendRest, PresenceRest
  <2> QED  BY <2>1, <2>2 DEF Goes
<1>6. ASSUME NEW u \in Users,
             \/ \E v \in Users : OpenDm(w, u, v) \/ Challenge(w, u, v)
             \/ \E others \in SUBSET Users : CreateGroup(w, u, others)
             \/ \E t \in DOMAIN threads : Write(w, u, t) \/ \E v \in Users : AddMember(w, u, t, v)
      PROVE  Goes(w, ChatSteps) /\ FriendRest /\ PresenceRest
  <2>1. Arrive(w) /\ UNCHANGED irregular /\ FriendRest /\ PresenceRest
    BY <1>6 DEF OpenDm, Challenge, CreateGroup, Write, AddMember, Call, Regular, socialVars, FriendRest, PresenceRest
  <2>2. Alone(w) /\ pc'[w] \in ChatSteps
    BY <1>6, <1>1, <1>2, <1>3
  <2> QED  BY <2>1, <2>2 DEF Goes
<1> QED  BY <1>4, <1>5, <1>6 DEF ChatStep

LEMMA PresenceStepGoes ==
  ASSUME TypeInv, NEW w \in Workers, PresenceStep(w)
  PROVE  Goes(w, PresenceSteps) /\ FriendRest /\ ChatRest
<1>a. ASSUME NEW step \in PresenceSteps, NEW work, Await(w, step, work) PROVE Alone(w) /\ pc'[w] \in PresenceSteps
  BY <1>a, Awaiting DEF TypeInv, Moved
<1>b. Answer(w) => Alone(w) /\ pc'[w] = "idle"
  BY Answering DEF TypeInv, Moved
<1>c. ASSUME NEW step \in PresenceSteps, Then(w, step) PROVE Alone(w) /\ pc'[w] \in PresenceSteps
  BY <1>c, GoingOn DEF TypeInv, Moved
<1>1. ASSUME NEW s \in Sockets, Disconnect(w, s) \/ \E u \in Users : Connect(w, s, u)
      PROVE  Goes(w, PresenceSteps) /\ FriendRest /\ ChatRest
  <2>1. Alone(w) /\ pc'[w] \in PresenceSteps \cup {"idle"}
    BY <1>1, <1>a, <1>b DEF Disconnect, Connect, PresenceSteps
  <2> QED  BY <1>1, <2>1 DEF Disconnect, Connect, Call, Regular, Goes, SocketsRest
<1>2. CASE Authenticate(w) \/ GoOnline(w) \/ Tell(w) \/ GoOffline(w) \/ StillOn(w)
  <2>1. Alone(w) /\ pc'[w] \in PresenceSteps \cup {"idle"}
    BY <1>2, <1>a, <1>b, <1>c DEF Authenticate, GoOnline, Tell, GoOffline, StillOn, PresenceSteps
  <2> QED  BY <1>2, <2>1 DEF Authenticate, GoOnline, Tell, GoOffline, StillOn, PresenceSteps, At, Goes,
                             SocketsRest, socialVars, FriendRest, ChatRest
<1> QED  BY <1>1, <1>2 DEF PresenceStep

\* If nothing has overlapped, whatever step is taken, no other request is being served.
LEMMA GoesInTurn ==
  ASSUME TypeInv, InTurn, NEW w \in Workers, NEW steps, "idle" \notin steps, Goes(w, steps)
  PROVE  /\ InTurn'
         /\ Orderly' => Orderly /\ \A v \in Workers \ {w} : pc[v] = "idle" /\ pc'[v] = "idle"
<1>1. CASE Arrive(w)
  BY <1>1, ArrivesInTurn DEF Goes, Orderly, TypeInv, Served, Quiet, Alone
<1>2. CASE pc[w] \in steps /\ UNCHANGED overlapped
  BY <1>2, ServedInTurn DEF Goes, Orderly, TypeInv, Served, Alone
<1> QED  BY <1>1, <1>2 DEF Goes

LEMMA DyingInTurn ==
  ASSUME InTurn, ProcessDies
  PROVE  InTurn' /\ ~Orderly' /\ FriendRest /\ ChatRest /\ \A w \in Workers : pc'[w] = "idle"
BY DEF InTurn, ProcessDies, Irregular, Orderly, SocketsRest

-----------------------------------------------------------------------------
(* Friends *)

\* What a row says, its players have done: whoever is asked or a friend was asked
\* for, and whoever is a friend has accepted.
Wanted(row, ask, agree) ==
  /\ row.from # row.to
  /\ row.status \in {"PENDING", "ACCEPTED"} => <<row.from, row.to>> \in ask
  /\ row.status = "ACCEPTED" => <<row.to, row.from>> \in agree

\* It holds of the rows and of every copy that is still to be saved: a stale copy
\* says what was wanted earlier, and that is never taken back.
FriendsInv ==
  /\ TypeInv
  /\ \A i \in DOMAIN pairs : Wanted(pairs[i], asked, agreed)
  /\ \A w \in Workers : pc[w] = "savePair" => Wanted(my[w].copy, asked, agreed)

LEMMA WantedStays ==
  ASSUME NEW row, NEW ask, NEW agree, NEW ask2, NEW agree2,
         Wanted(row, ask, agree), ask \subseteq ask2, agree \subseteq agree2
  PROVE  Wanted(row, ask2, agree2)
BY DEF Wanted

LEMMA FriendsInit == Init => FriendsInv
<1> SUFFICES ASSUME Init PROVE FriendsInv
  OBVIOUS
<1>1. pairs = <<>> /\ \A w \in Workers : pc[w] = "idle"
  BY NothingServed DEF Init
<1> QED  BY <1>1, TypeInit DEF FriendsInv

\* A step that saves no row and takes none to save.
LEMMA ElsewhereFriends ==
  ASSUME FriendsInv, TypeInv', FriendRest,
         \A w \in Workers : pc'[w] = "savePair" => pc[w] = "savePair" /\ my'[w] = my[w]
  PROVE  FriendsInv'
BY DEF FriendsInv, FriendRest, Wanted

\* A call takes a copy that says what has been done by then.
LEMMA CallWanted ==
  ASSUME FriendsInv, NEW w \in Workers, NEW u \in Users,
         \/ \E v \in Users : Request(w, u, v) \/ Block(w, u, v) \/ Unblock(w, u, v)
         \/ \E i \in DOMAIN pairs : Accept(w, u, i) \/ Decline(w, u, i) \/ CancelRequest(w, u, i) \/ Unfriend(w, u, i)
  PROVE  /\ \E n, copy : Change(w, n, copy) /\ Wanted(copy, asked', agreed')
         /\ pairs' = pairs /\ asked \subseteq asked' /\ agreed \subseteq agreed'
<1>t. /\ \A i \in DOMAIN pairs : pairs[i] \in Row /\ Wanted(pairs[i], asked, agreed)
      /\ \A v \in Users : RowsOf(u, v) \subseteq DOMAIN pairs
  BY DEF FriendsInv, TypeInv, FriendsOK, RowsOf
<1>1. ASSUME NEW v \in Users, Request(w, u, v)
      PROVE  \E n, copy : Change(w, n, copy) /\ Wanted(copy, asked', agreed')
  <2>1. Wanted([from |-> u, to |-> v, status |-> "PENDING", by |-> Nobody], asked', agreed')
    BY <1>1 DEF Request, Wanted
  <2> QED  BY <1>1, <2>1 DEF Request
<1>2. ASSUME NEW v \in Users, Block(w, u, v)
      PROVE  \E n, copy : Change(w, n, copy) /\ Wanted(copy, asked', agreed')
  <2>1. PICK n \in Found(u, v) : Change(w, n, IF n = 0 THEN [from |-> u, to |-> v, status |-> "BLOCKED", by |-> u]
                                              ELSE [pairs[n] EXCEPT !.status = "BLOCKED", !.by = u])
    BY <1>2 DEF Block
  <2>2. u # v
    BY <1>2 DEF Block
  <2>3. Wanted([from |-> u, to |-> v, status |-> "BLOCKED", by |-> u], asked', agreed')
    BY <2>2 DEF Wanted
  <2>4. n # 0 => pairs[n] \in Row /\ Wanted(pairs[n], asked, agreed)
    BY <1>t DEF Found
  <2>5. n # 0 => Wanted([pairs[n] EXCEPT !.status = "BLOCKED", !.by = u], asked', agreed')
    BY <2>4 DEF Wanted, Row
  <2> QED  BY <2>1, <2>3, <2>5
<1>3. ASSUME NEW v \in Users, Unblock(w, u, v)
      PROVE  \E n, copy : Change(w, n, copy) /\ Wanted(copy, asked', agreed')
  <2>1. PICK n \in RowsOf(u, v) : Change(w, n, [pairs[n] EXCEPT !.status = "CANCELLED", !.by = Nobody])
    BY <1>3 DEF Unblock
  <2>2. pairs[n] \in Row /\ Wanted(pairs[n], asked, agreed)
    BY <1>t
  <2>3. Wanted([pairs[n] EXCEPT !.status = "CANCELLED", !.by = Nobody], asked', agreed')
    BY <2>2 DEF Wanted, Row
  <2> QED  BY <2>1, <2>3
<1>4. ASSUME NEW i \in DOMAIN pairs, Decline(w, u, i) \/ CancelRequest(w, u, i) \/ Unfriend(w, u, i)
      PROVE  \E n, copy : Change(w, n, copy) /\ Wanted(copy, asked', agreed')
  <2>1. \A s \in {"DECLINED", "CANCELLED"} : Wanted(SetTo(pairs[i], s), asked', agreed')
    BY <1>t DEF Wanted, Row, SetTo
  <2>2. \E s \in {"DECLINED", "CANCELLED"} : Change(w, i, SetTo(pairs[i], s))
    BY <1>4 DEF Decline, CancelRequest, Unfriend
  <2> QED  BY <2>1, <2>2
<1>5. ASSUME NEW i \in DOMAIN pairs, Accept(w, u, i)
      PROVE  \E n, copy : Change(w, n, copy) /\ Wanted(copy, asked', agreed')
  <2>1. pairs[i] \in Row /\ Wanted(pairs[i], asked, agreed) /\ pairs[i].to = u /\ pairs[i].status = "PENDING"
    BY <1>t, <1>5 DEF Accept, MayAnswer
  <2>2. <<u, pairs[i].from>> \in agreed'
    BY <1>5, <2>1 DEF Accept, Wanted
  <2>3. SetTo(pairs[i], "ACCEPTED").from = pairs[i].from /\ SetTo(pairs[i], "ACCEPTED").to = u
    BY <2>1 DEF SetTo, Row
  <2>4. <<pairs[i].from, u>> \in asked' /\ pairs[i].from # u
    BY <1>5, <2>1 DEF Accept, Wanted
  <2>5. Wanted(SetTo(pairs[i], "ACCEPTED"), asked', agreed')
    BY <2>2, <2>3, <2>4 DEF Wanted
  <2> QED  BY <1>5, <2>5 DEF Accept
<1>6. pairs' = pairs /\ asked \subseteq asked' /\ agreed \subseteq agreed'
  BY DEF Request, Block, Unblock, Accept, Decline, CancelRequest, Unfriend, socialVars
<1> QED  BY <1>1, <1>2, <1>3, <1>4, <1>5, <1>6

LEMMA CallFriends ==
  ASSUME FriendsInv, TypeInv', NEW w \in Workers, NEW u \in Users,
         \/ \E v \in Users : Request(w, u, v) \/ Block(w, u, v) \/ Unblock(w, u, v)
         \/ \E i \in DOMAIN pairs : Accept(w, u, i) \/ Decline(w, u, i) \/ CancelRequest(w, u, i) \/ Unfriend(w, u, i)
  PROVE  FriendsInv'
<1>1. PICK n, copy : Change(w, n, copy) /\ Wanted(copy, asked', agreed')
  BY CallWanted
<1>2. pairs' = pairs /\ asked \subseteq asked' /\ agreed \subseteq agreed'
  BY CallWanted
<1>3. Moved(w, "savePair", [row |-> n, copy |-> copy])
  BY <1>1, Awaiting DEF Change, FriendsInv, TypeInv
<1>4. my'[w].copy = copy
  BY <1>3 DEF Moved
<1>5. \A v \in Workers : pc'[v] = "savePair" => Wanted(my'[v].copy, asked', agreed')
  BY <1>1, <1>2, <1>3, <1>4, WantedStays DEF Moved, Alone, FriendsInv
<1>6. \A i \in DOMAIN pairs' : Wanted(pairs'[i], asked', agreed')
  BY <1>2, WantedStays DEF FriendsInv
<1> QED  BY <1>5, <1>6 DEF FriendsInv

LEMMA SavedFriends ==
  ASSUME FriendsInv, TypeInv', NEW w \in Workers, SavePair(w)
  PROVE  FriendsInv'
<1>1. my[w].copy \in Row /\ Wanted(my[w].copy, asked, agreed) /\ pairs \in Seq(Row)
  BY DEF SavePair, At, FriendsInv, TypeInv, FriendsOK, Equipped, Holds
<1>2. \A i \in DOMAIN pairs' : Wanted(pairs'[i], asked, agreed)
  <2>1. CASE pairs' = Append(pairs, my[w].copy)
    <3> DEFINE copy == my[w].copy
               new == pairs'
    <3>0. copy \in Row /\ new = Append(pairs, copy)
      BY <1>1, <2>1
    <3> HIDE DEF copy, new
    <3>2. /\ DOMAIN new = 1 .. (Len(pairs) + 1) /\ new[Len(pairs) + 1] = copy /\ Len(pairs) \in Nat
          /\ DOMAIN pairs = 1 .. Len(pairs) /\ \A i \in DOMAIN pairs : new[i] = pairs[i]
      BY <1>1, <3>0, InsertedRow
    <3>3. \A i \in DOMAIN new : new[i] = copy \/ (i \in DOMAIN pairs /\ new[i] = pairs[i])
      BY <3>2
    <3>1. \A i \in DOMAIN pairs' : pairs'[i] = my[w].copy \/ (i \in DOMAIN pairs /\ pairs'[i] = pairs[i])
      BY <3>3 DEF new, copy
    <3> QED  BY <1>1, <3>1 DEF FriendsInv
  <2>2. CASE pairs' = [pairs EXCEPT ![my[w].row] = my[w].copy]
    <3>1. \A i \in DOMAIN pairs' : i \in DOMAIN pairs /\ (pairs'[i] = my[w].copy \/ pairs'[i] = pairs[i])
      BY <1>1, <2>2, SavedRow
    <3> QED  BY <1>1, <3>1 DEF FriendsInv
  <2> QED  BY <2>1, <2>2 DEF SavePair
<1>3. Moved(w, "idle", NoWork)
  BY Answering DEF SavePair, FriendsInv, TypeInv
<1> QED  BY <1>2, <1>3 DEF SavePair, Moved, Alone, FriendsInv

LEMMA FriendsStep == FriendsInv /\ [Next]_vars => FriendsInv'
<1> SUFFICES ASSUME FriendsInv, [Next]_vars PROVE FriendsInv'
  OBVIOUS
<1>t. TypeInv /\ TypeInv'
  BY TypeStep DEF FriendsInv
<1>1. ASSUME NEW w \in Workers, FriendStep(w) PROVE FriendsInv'
  BY <1>t, <1>1, CallFriends, SavedFriends DEF FriendStep
<1>2. ASSUME NEW w \in Workers, ChatStep(w) \/ PresenceStep(w) PROVE FriendsInv'
  <2>1. Alone(w) /\ pc'[w] # "savePair" /\ FriendRest
    BY <1>t, <1>2, ChatStepGoes, PresenceStepGoes DEF Goes, ChatSteps, PresenceSteps
  <2> QED  BY <1>t, <2>1, ElsewhereFriends DEF Alone
<1>3. CASE ProcessDies
  BY <1>t, <1>3, ElsewhereFriends DEF ProcessDies, SocketsRest
<1>4. CASE UNCHANGED vars
  BY <1>t, <1>4, ElsewhereFriends DEF vars, requestVars, socialVars, FriendRest
<1> QED  BY <1>1, <1>2, <1>3, <1>4, NextSteps

\* Nobody becomes a friend without wanting it: a row is ACCEPTED only if one of
\* the two has asked and the other has accepted, whatever stale rows two requests
\* at a time save over each other.
THEOREM FriendsHaveAgreed == Spec => []FriendsAgreed
<1>1. FriendsInv => FriendsAgreed
  BY DEF FriendsInv, Wanted, FriendsAgreed
<1> QED  BY <1>1, FriendsInit, FriendsStep, PTL DEF Spec

-----------------------------------------------------------------------------
(* Threads *)

\* Someone is about to put the owner of thread t into it.
Completing(t) ==
  \E w \in Workers : pc[w] = "saveMembers" /\ my[w].in = t /\ threads[t].owner \in my[w].who

\* A thread is whole unless it is being completed, its pair's only one if it is
\* direct; nobody but its two players ever gets into a direct thread.
WholeOrCompleting ==
  /\ \A t \in DOMAIN threads :
       /\ threads[t].owner \in threads[t].key
       /\ threads[t].kind = "DM" => threads[t].in \in {{}, threads[t].key} /\ Dms(threads[t].key) = {t}
       /\ irregular \/ threads[t].owner \in threads[t].in \/ Completing(t)
  /\ \A w \in Workers :
       /\ pc[w] = "saveThread" =>
            my[w].thread.owner \in my[w].thread.key /\ my[w].thread.in = {}
       /\ pc[w] = "saveMembers" =>
            (threads[my[w].in].kind = "DM" => my[w].who = threads[my[w].in].key)

\* Served in turn, a thread shows its newest message unless that is being noted,
\* and the message noted is the newest of all.
NewestShown ==
  /\ \A w \in Workers : pc[w] = "preview" => my[w].message = Len(messages)
  /\ \A t \in DOMAIN threads : \A n \in DOMAIN messages :
       messages[n].in = t =>
         n <= threads[t].last \/ \E w \in Workers : pc[w] = "preview" /\ my[w].in = t

ThreadsInv == TypeInv /\ InTurn /\ WholeOrCompleting /\ (Orderly => NewestShown)

LEMMA ThreadsInit == Init => ThreadsInv
<1> SUFFICES ASSUME Init PROVE ThreadsInv
  OBVIOUS
<1>1. InTurn /\ \A w \in Workers : pc[w] = "idle"
  BY NothingServed DEF Init
<1>2. threads = <<>> /\ messages = <<>>
  BY DEF Init
<1> QED  BY <1>1, <1>2, TypeInit DEF ThreadsInv, WholeOrCompleting, NewestShown

\* A step that changes no thread and takes up none wrongly.
LEMMA ElsewhereThreads ==
  ASSUME ThreadsInv, TypeInv', InTurn', NEW w \in Workers, Alone(w),
         UNCHANGED <<irregular, threads, messages>>, Orderly' => Orderly,
         pc[w] \notin {"saveMembers", "preview"}, pc'[w] # "preview",
         pc'[w] = "saveThread" => my'[w].thread.owner \in my'[w].thread.key /\ my'[w].thread.in = {},
         pc'[w] = "saveMembers" => threads[my'[w].in].kind # "DM"
  PROVE  ThreadsInv'
<1>1. \A t \in DOMAIN threads : Completing(t) => Completing(t)'
  BY DEF Completing, Alone
<1>2. \A t \in DOMAIN threads : (Dms(threads[t].key))' = Dms(threads[t].key)
  BY DEF Dms
<1>3. WholeOrCompleting'
  <2>1. \A t \in DOMAIN threads :
          /\ threads[t].owner \in threads[t].key
          /\ threads[t].kind = "DM" => threads[t].in \in {{}, threads[t].key} /\ Dms(threads[t].key)' = {t}
          /\ irregular \/ threads[t].owner \in threads[t].in \/ Completing(t)'
    BY <1>1, <1>2 DEF ThreadsInv, WholeOrCompleting
  <2>2. \A v \in Workers :
          /\ pc'[v] = "saveThread" => my'[v].thread.owner \in my'[v].thread.key /\ my'[v].thread.in = {}
          /\ pc'[v] = "saveMembers" => (threads[my'[v].in].kind = "DM" => my'[v].who = threads[my'[v].in].key)
    BY DEF ThreadsInv, WholeOrCompleting, Alone
  <2> QED  BY <2>1, <2>2 DEF WholeOrCompleting
<1>4. Orderly' => NewestShown'
  <2> SUFFICES ASSUME Orderly' PROVE NewestShown'
    OBVIOUS
  <2>1. NewestShown
    BY DEF ThreadsInv
  <2> QED  BY <2>1 DEF NewestShown, Alone
<1> QED  BY <1>3, <1>4 DEF ThreadsInv

LEMMA OpensThreads ==
  ASSUME ThreadsInv, TypeInv', NEW w \in Workers, ChatStep(w),
         ~(SaveMembers(w) \/ SaveMessage(w) \/ Preview(w)), UNCHANGED threads
  PROVE  ThreadsInv'
<1>1. TypeInv /\ InTurn /\ Served
  BY DEF ThreadsInv, TypeInv
<1>2. Goes(w, ChatSteps) /\ FriendRest /\ PresenceRest
  BY <1>1, ChatStepGoes
<1>3. Alone(w) /\ InTurn' /\ UNCHANGED irregular /\ (Orderly' => Orderly)
  <2>1. "idle" \notin ChatSteps
    BY DEF ChatSteps
  <2>2. InTurn' /\ (Orderly' => Orderly)
    BY <1>1, <1>2, <2>1, GoesInTurn
  <2> QED  BY <1>2, <2>2 DEF Goes
<1>4. pc[w] \notin {"saveMembers", "preview"} /\ UNCHANGED messages
  <2>1. CASE SaveThread(w) \/ Send(w)
    BY <2>1 DEF SaveThread, Send, At, socialVars
  <2>2. ASSUME NEW u \in Users,
               \/ \E v \in Users : OpenDm(w, u, v) \/ Challenge(w, u, v)
               \/ \E others \in SUBSET Users : CreateGroup(w, u, others)
        PROVE  pc[w] \notin {"saveMembers", "preview"} /\ UNCHANGED messages
    BY <2>2 DEF OpenDm, Challenge, CreateGroup, Call, Arrive, socialVars
  <2>3. ASSUME NEW u \in Users,
               \/ \E t \in DOMAIN threads : Write(w, u, t) \/ \E v \in Users : AddMember(w, u, t, v)
               \/ ChangeSettings(w, u)
        PROVE  pc[w] \notin {"saveMembers", "preview"} /\ UNCHANGED messages
    BY <2>3 DEF Write, AddMember, ChangeSettings, Call, Arrive, socialVars
  <2> QED  BY <2>1, <2>2, <2>3 DEF ChatStep
<1>5. /\ pc'[w] # "preview"
      /\ pc'[w] = "saveThread" => my'[w].thread.owner \in my'[w].thread.key /\ my'[w].thread.in = {}
      /\ pc'[w] = "saveMembers" => threads[my'[w].in].kind # "DM"
  <2>a. ASSUME NEW step, NEW work, Await(w, step, work) PROVE pc'[w] = step /\ my'[w] = work
    BY <1>1, <2>a, Awaiting DEF Moved
  <2>b. ASSUME NEW thread, NEW then, Await(w, "saveThread", [thread |-> thread, then |-> then])
        PROVE  pc'[w] = "saveThread" /\ my'[w].thread = thread
    <3>1. pc'[w] = "saveThread" /\ my'[w] = [thread |-> thread, then |-> then]
      BY <2>a, <2>b
    <3> QED  BY <3>1
  <2>1. ASSUME NEW u \in Users, NEW v \in Users, OpenDm(w, u, v) \/ Challenge(w, u, v)
      PROVE  /\ pc'[w] # "preview"
             /\ pc'[w] = "saveThread" => my'[w].thread.owner \in my'[w].thread.key /\ my'[w].thread.in = {}
             /\ pc'[w] = "saveMembers" => threads[my'[w].in].kind # "DM"
    <3>1. \/ \E then \in NextStep : Await(w, "saveThread", [thread |-> Thread("DM", {u, v}, u), then |-> then])
          \/ \E t \in Dms({u, v}) : Await(w, "send", [in |-> t, from |-> u])
      BY <2>1 DEF OpenDm, Challenge, NextStep
    <3>2. pc'[w] = "send" \/ (pc'[w] = "saveThread" /\ my'[w].thread = Thread("DM", {u, v}, u))
      BY <2>a, <2>b, <3>1
    <3>3. Thread("DM", {u, v}, u).owner \in Thread("DM", {u, v}, u).key /\ Thread("DM", {u, v}, u).in = {}
      BY DEF Thread
    <3> QED  BY <3>2, <3>3
  <2>2. ASSUME NEW u \in Users, NEW others \in SUBSET Users, CreateGroup(w, u, others)
      PROVE  /\ pc'[w] # "preview"
             /\ pc'[w] = "saveThread" => my'[w].thread.owner \in my'[w].thread.key /\ my'[w].thread.in = {}
             /\ pc'[w] = "saveMembers" => threads[my'[w].in].kind # "DM"
    <3>1. /\ pc'[w] = "saveThread"
          /\ my'[w] = [thread |-> Thread("GROUP", others \cup {u}, u), then |-> "idle"]
      BY <2>a, <2>2 DEF CreateGroup
    <3> QED  BY <3>1 DEF Thread
  <2>3. ASSUME NEW u \in Users, NEW t \in DOMAIN threads, Write(w, u, t)
      PROVE  /\ pc'[w] # "preview"
             /\ pc'[w] = "saveThread" => my'[w].thread.owner \in my'[w].thread.key /\ my'[w].thread.in = {}
             /\ pc'[w] = "saveMembers" => threads[my'[w].in].kind # "DM"
    <3>1. pc'[w] = "send"
      BY <2>a, <2>3 DEF Write
    <3> QED  BY <3>1
  <2>4. ASSUME NEW u \in Users, NEW t \in DOMAIN threads, NEW v \in Users, AddMember(w, u, t, v)
      PROVE  /\ pc'[w] # "preview"
             /\ pc'[w] = "saveThread" => my'[w].thread.owner \in my'[w].thread.key /\ my'[w].thread.in = {}
             /\ pc'[w] = "saveMembers" => threads[my'[w].in].kind # "DM"
    <3>1. pc'[w] = "saveMembers" /\ my'[w].in = t /\ threads[t].kind = "GROUP"
      BY <2>a, <2>4 DEF AddMember
    <3> QED  BY <3>1
  <2>5. ASSUME NEW u \in Users, ChangeSettings(w, u)
      PROVE  /\ pc'[w] # "preview"
             /\ pc'[w] = "saveThread" => my'[w].thread.owner \in my'[w].thread.key /\ my'[w].thread.in = {}
             /\ pc'[w] = "saveMembers" => threads[my'[w].in].kind # "DM"
    BY <2>5 DEF ChangeSettings, Call, Arrive
  <2>6. CASE Send(w)
    <3>1. pc'[w] \in {"saveMessage", "idle"}
      BY <1>1, <2>6, GoingOn, Answering DEF Send, Moved
    <3> QED  BY <3>1
  <2>7. CASE SaveThread(w)
    <3>1. threads \in Seq(ThreadRow) /\ my[w].thread \in ThreadRow
      BY <1>1, <2>7 DEF SaveThread, At, TypeInv, ChatOK, Equipped, Holds
    <3>2. threads' # Append(threads, my[w].thread)
      BY <3>1, InsertedRow
    <3>3. Answer(w)
      BY <2>7, <3>2 DEF SaveThread
    <3>4. pc'[w] = "idle"
      BY <1>1, <3>3, Answering DEF Moved
    <3> QED  BY <3>4
  <2> QED  BY <2>1, <2>2, <2>3, <2>4, <2>5, <2>6, <2>7 DEF ChatStep
<1> QED  BY <1>3, <1>4, <1>5, ElsewhereThreads

LEMMA ChatInTurn ==
  ASSUME ThreadsInv, NEW w \in Workers, ChatStep(w)
  PROVE  /\ TypeInv /\ Served /\ Alone(w) /\ InTurn' /\ UNCHANGED irregular
         /\ Orderly' => NewestShown /\ \A v \in Workers \ {w} : pc[v] = "idle" /\ pc'[v] = "idle"
<1>1. TypeInv /\ InTurn /\ Served
  BY DEF ThreadsInv, TypeInv
<1>2. Goes(w, ChatSteps) /\ "idle" \notin ChatSteps
  BY <1>1, ChatStepGoes DEF ChatSteps
<1>3. InTurn' /\ (Orderly' => Orderly /\ \A v \in Workers \ {w} : pc[v] = "idle" /\ pc'[v] = "idle")
  BY <1>1, <1>2, GoesInTurn
<1> QED  BY <1>1, <1>2, <1>3 DEF Goes, ThreadsInv

\* A thread is inserted with nobody in it, by the request that goes on to put its
\* owner there; a second one of a pair is refused.
LEMMA InsertsThread ==
  ASSUME ThreadsInv, TypeInv', NEW w \in Workers, SaveThread(w), threads' # threads
  PROVE  ThreadsInv'
<1>1. /\ TypeInv /\ Served /\ Alone(w) /\ InTurn' /\ UNCHANGED irregular
      /\ Orderly' => NewestShown /\ \A v \in Workers \ {w} : pc[v] = "idle" /\ pc'[v] = "idle"
  BY ChatInTurn DEF ChatStep
<1>2. PICK new : new = my[w].thread
  OBVIOUS
<1>3. new \in ThreadRow /\ threads \in Seq(ThreadRow) /\ new.owner \in new.key /\ new.in = {}
  BY <1>1, <1>2 DEF SaveThread, At, TypeInv, ChatOK, Equipped, Holds, ThreadsInv, WholeOrCompleting
<1>4. PICK t0 : t0 = Len(threads) + 1
  OBVIOUS
<1>5. /\ threads' = Append(threads, new) /\ UNCHANGED messages
      /\ Await(w, "saveMembers", [in |-> t0, who |-> new.key, from |-> new.owner, then |-> my[w].then])
      /\ new.kind = "DM" => Dms(new.key) = {}
  BY <1>2, <1>4 DEF SaveThread
<1>6. /\ DOMAIN threads' = DOMAIN threads \cup {t0} /\ t0 \notin DOMAIN threads
      /\ threads'[t0] = new /\ \A t \in DOMAIN threads : threads'[t] = threads[t]
  BY <1>3, <1>4, <1>5, InsertedRow
<1>7. pc'[w] = "saveMembers" /\ my'[w].in = t0 /\ my'[w].who = new.key /\ pc[w] = "saveThread"
  <2>1. /\ pc'[w] = "saveMembers"
        /\ my'[w] = [in |-> t0, who |-> new.key, from |-> new.owner, then |-> my[w].then]
    BY <1>1, <1>5, Awaiting DEF Moved
  <2> QED  BY <2>1 DEF SaveThread, At
<1>8. Completing(t0)'
  BY <1>3, <1>6, <1>7 DEF Completing
<1>9. \A t \in DOMAIN threads : Completing(t) => Completing(t)'
  BY <1>1, <1>6, <1>7 DEF Completing, Alone
<1>10. WholeOrCompleting'
  <2>1. \A t \in DOMAIN threads :
          /\ threads[t].owner \in threads[t].key
          /\ threads[t].kind = "DM" => threads[t].in \in {{}, threads[t].key} /\ Dms(threads[t].key) = {t}
          /\ irregular \/ threads[t].owner \in threads[t].in \/ Completing(t)
    BY DEF ThreadsInv, WholeOrCompleting
  <2>2. \A t \in DOMAIN threads : threads[t].kind = "DM" => Dms(threads[t].key)' = {t}
    <3> SUFFICES ASSUME NEW t \in DOMAIN threads, threads[t].kind = "DM" PROVE Dms(threads[t].key)' = {t}
      OBVIOUS
    <3>1. Dms(threads[t].key) = {t}
      BY <2>1
    <3>2. ~(new.kind = "DM" /\ new.key = threads[t].key)
      BY <1>5, <3>1
    <3> QED  BY <1>6, <3>1, <3>2 DEF Dms
  <2>3. new.kind = "DM" => Dms(new.key)' = {t0}
    BY <1>5, <1>6 DEF Dms
  <2>4. \A t \in DOMAIN threads' :
          /\ threads'[t].owner \in threads'[t].key
          /\ threads'[t].kind = "DM" => threads'[t].in \in {{}, threads'[t].key} /\ Dms(threads[t].key)' = {t}
          /\ irregular' \/ threads'[t].owner \in threads'[t].in \/ Completing(t)'
    BY <1>1, <1>3, <1>6, <1>8, <1>9, <2>1, <2>2, <2>3
  <2>5. \A v \in Workers :
          /\ pc'[v] = "saveThread" => my'[v].thread.owner \in my'[v].thread.key /\ my'[v].thread.in = {}
          /\ pc'[v] = "saveMembers" => (threads'[my'[v].in].kind = "DM" => my'[v].who = threads'[my'[v].in].key)
    <3>1. \A v \in Workers : pc[v] = "saveMembers" => my[v].in \in DOMAIN threads
      BY <1>1 DEF TypeInv, Equipped, Holds
    <3> QED  BY <1>1, <1>6, <1>7, <3>1 DEF Alone, ThreadsInv, WholeOrCompleting
  <2> QED  BY <2>4, <2>5 DEF WholeOrCompleting
<1>11. Orderly' => NewestShown'
  <2> SUFFICES ASSUME Orderly' PROVE NewestShown'
    OBVIOUS
  <2>1. \A n \in DOMAIN messages : messages[n].in \in DOMAIN threads
    <3> DEFINE M == [in : DOMAIN threads, from : Users]
    <3>1. messages \in Seq(M)
      BY <1>1 DEF TypeInv, ChatOK
    <3> HIDE DEF M
    <3>2. \A n \in DOMAIN messages : messages[n] \in M
      BY <3>1
    <3> QED  BY <3>2 DEF M
  <2>2. \A v \in Workers : (pc[v] = "preview") = (pc'[v] = "preview") /\ (pc[v] = "preview" => my'[v] = my[v])
    BY <1>1, <1>7 DEF Alone
  <2> QED  BY <1>1, <1>5, <1>6, <2>1, <2>2 DEF NewestShown
<1> QED  BY <1>1, <1>10, <1>11 DEF ThreadsInv

LEMMA PutsMembers ==
  ASSUME ThreadsInv, TypeInv', NEW w \in Workers, SaveMembers(w)
  PROVE  ThreadsInv'
<1>1. /\ TypeInv /\ Served /\ Alone(w) /\ InTurn' /\ UNCHANGED irregular
      /\ Orderly' => NewestShown /\ \A v \in Workers \ {w} : pc[v] = "idle" /\ pc'[v] = "idle"
  BY ChatInTurn DEF ChatStep
<1>2. PICK t0, who : t0 = my[w].in /\ who = my[w].who
  OBVIOUS
<1>3. t0 \in DOMAIN threads /\ who \in SUBSET Users /\ threads \in Seq(ThreadRow) /\ threads[t0] \in ThreadRow
  BY <1>1, <1>2 DEF SaveMembers, At, TypeInv, ChatOK, Equipped, Holds
<1>4. threads' = [threads EXCEPT ![t0].in = threads[t0].in \cup who] /\ UNCHANGED messages
  BY <1>2 DEF SaveMembers, Joining
<1>5. /\ DOMAIN threads' = DOMAIN threads
      /\ \A t \in DOMAIN threads : /\ threads'[t].kind = threads[t].kind /\ threads'[t].key = threads[t].key
                                   /\ threads'[t].owner = threads[t].owner /\ threads'[t].last = threads[t].last
                                   /\ t # t0 => threads'[t].in = threads[t].in
      /\ threads'[t0].in = threads[t0].in \cup who
  <2>1. \A t \in DOMAIN threads : threads[t] \in ThreadRow
    BY <1>3
  <2> QED  BY <1>3, <1>4, <2>1 DEF ThreadRow
<1>6. pc[w] = "saveMembers" /\ pc'[w] \in {"idle", "send"}
  BY <1>1, Answering, Awaiting DEF SaveMembers, At, Moved
<1>7. \A t \in DOMAIN threads : Dms(threads[t].key)' = Dms(threads[t].key)
  BY <1>5 DEF Dms
<1>8. \A t \in DOMAIN threads :
        Completing(t) => Completing(t)' \/ (t = t0 /\ threads[t0].owner \in who)
  BY <1>1, <1>2, <1>5 DEF Completing, Alone
<1>9. WholeOrCompleting'
  <2>1. \A t \in DOMAIN threads :
          /\ threads[t].owner \in threads[t].key
          /\ threads[t].kind = "DM" => threads[t].in \in {{}, threads[t].key} /\ Dms(threads[t].key) = {t}
          /\ irregular \/ threads[t].owner \in threads[t].in \/ Completing(t)
    BY DEF ThreadsInv, WholeOrCompleting
  <2>2. threads[t0].kind = "DM" => who = threads[t0].key
    BY <1>2, <1>6 DEF ThreadsInv, WholeOrCompleting
  <2>3. \A t \in DOMAIN threads :
          /\ threads'[t].owner \in threads'[t].key
          /\ threads'[t].kind = "DM" => threads'[t].in \in {{}, threads'[t].key}
    BY <1>5, <2>1, <2>2
  <2>4. \A t \in DOMAIN threads :
          irregular' \/ threads'[t].owner \in threads'[t].in \/ Completing(t)'
    BY <1>1, <1>5, <1>8, <2>1
  <2>5. \A t \in DOMAIN threads : threads'[t].kind = "DM" => Dms(threads[t].key)' = {t}
    BY <1>5, <1>7, <2>1
  <2>6. \A v \in Workers :
          /\ pc'[v] = "saveThread" => my'[v].thread.owner \in my'[v].thread.key /\ my'[v].thread.in = {}
          /\ pc'[v] = "saveMembers" => (threads'[my'[v].in].kind = "DM" => my'[v].who = threads'[my'[v].in].key)
    <3>1. \A v \in Workers : pc[v] = "saveMembers" => my[v].in \in DOMAIN threads
      BY <1>1 DEF TypeInv, Equipped, Holds
    <3> QED  BY <1>1, <1>5, <1>6, <3>1 DEF Alone, ThreadsInv, WholeOrCompleting
  <2> QED  BY <1>5, <2>3, <2>4, <2>5, <2>6 DEF WholeOrCompleting
<1>10. Orderly' => NewestShown'
  <2> SUFFICES ASSUME Orderly' PROVE NewestShown'
    OBVIOUS
  <2>1. \A v \in Workers : (pc[v] = "preview") = (pc'[v] = "preview") /\ (pc[v] = "preview" => my'[v] = my[v])
    BY <1>1, <1>6 DEF Alone
  <2> QED  BY <1>1, <1>4, <1>5, <2>1 DEF NewestShown
<1> QED  BY <1>1, <1>9, <1>10 DEF ThreadsInv

LEMMA InsertsMessage ==
  ASSUME ThreadsInv, TypeInv', NEW w \in Workers, SaveMessage(w)
  PROVE  ThreadsInv'
<1>1. /\ TypeInv /\ Served /\ Alone(w) /\ InTurn' /\ UNCHANGED irregular
      /\ Orderly' => NewestShown /\ \A v \in Workers \ {w} : pc[v] = "idle" /\ pc'[v] = "idle"
  BY ChatInTurn DEF ChatStep
<1>2. PICK new : new = my[w]
  OBVIOUS
<1>3. new \in [in : DOMAIN threads, from : Users] /\ messages \in Seq([in : DOMAIN threads, from : Users])
  BY <1>1, <1>2 DEF SaveMessage, At, TypeInv, ChatOK, Equipped, Holds
<1>4. PICK n0 : n0 = Len(messages) + 1
  OBVIOUS
<1>5. messages' = Append(messages, new) /\ UNCHANGED threads
      /\ Await(w, "preview", [in |-> new.in, message |-> n0])
  BY <1>2, <1>4 DEF SaveMessage
<1>6. /\ DOMAIN messages' = DOMAIN messages \cup {n0} /\ Len(messages') = n0
      /\ messages'[n0] = new /\ \A n \in DOMAIN messages : messages'[n] = messages[n]
  BY <1>3, <1>4, <1>5, InsertedRow
<1>7. pc'[w] = "preview" /\ my'[w].in = new.in /\ my'[w].message = n0 /\ pc[w] = "saveMessage"
  <2>1. pc'[w] = "preview" /\ my'[w] = [in |-> new.in, message |-> n0]
    BY <1>1, <1>5, Awaiting DEF Moved
  <2> QED  BY <2>1 DEF SaveMessage, At
<1>8. WholeOrCompleting'
  <2>1. \A t \in DOMAIN threads : Completing(t) => Completing(t)'
    BY <1>1, <1>5, <1>7 DEF Completing, Alone
  <2>2. \A t \in DOMAIN threads : Dms(threads[t].key)' = Dms(threads[t].key)
    BY <1>5 DEF Dms
  <2>3. \A t \in DOMAIN threads :
          /\ threads[t].owner \in threads[t].key
          /\ threads[t].kind = "DM" => threads[t].in \in {{}, threads[t].key} /\ Dms(threads[t].key)' = {t}
          /\ irregular' \/ threads[t].owner \in threads[t].in \/ Completing(t)'
    BY <1>1, <2>1, <2>2 DEF ThreadsInv, WholeOrCompleting
  <2>4. \A v \in Workers :
          /\ pc'[v] = "saveThread" => my'[v].thread.owner \in my'[v].thread.key /\ my'[v].thread.in = {}
          /\ pc'[v] = "saveMembers" => (threads[my'[v].in].kind = "DM" => my'[v].who = threads[my'[v].in].key)
    BY <1>1, <1>7 DEF Alone, ThreadsInv, WholeOrCompleting
  <2> QED  BY <1>5, <2>3, <2>4 DEF WholeOrCompleting
<1>9. Orderly' => NewestShown'
  <2> SUFFICES ASSUME Orderly' PROVE NewestShown'
    OBVIOUS
  <2>1. \A v \in Workers : v # w => pc[v] # "preview" /\ pc'[v] # "preview"
    BY <1>1
  <2>2. \A v \in Workers : pc'[v] = "preview" => my'[v].message = Len(messages')
    BY <1>6, <1>7, <2>1
  <2>3. \A t \in DOMAIN threads : \A n \in DOMAIN messages : messages[n].in = t => n <= threads[t].last
    BY <1>1, <1>7, <2>1 DEF NewestShown
  <2>4. \A t \in DOMAIN threads : \A n \in DOMAIN messages' :
          messages'[n].in = t => n <= threads[t].last \/ \E v \in Workers : pc'[v] = "preview" /\ my'[v].in = t
    BY <1>6, <1>7, <2>3
  <2> QED  BY <1>5, <2>2, <2>4 DEF NewestShown
<1> QED  BY <1>1, <1>8, <1>9 DEF ThreadsInv

LEMMA ShowsNewest ==
  ASSUME ThreadsInv, TypeInv', NEW w \in Workers, Preview(w)
  PROVE  ThreadsInv'
<1>1. /\ TypeInv /\ Served /\ Alone(w) /\ InTurn' /\ UNCHANGED irregular
      /\ Orderly' => NewestShown /\ \A v \in Workers \ {w} : pc[v] = "idle" /\ pc'[v] = "idle"
  BY ChatInTurn DEF ChatStep
<1>2. PICK t0, n0 : t0 = my[w].in /\ n0 = my[w].message
  OBVIOUS
<1>3. t0 \in DOMAIN threads /\ threads \in Seq(ThreadRow)
      /\ DOMAIN messages = 1 .. Len(messages) /\ Len(messages) \in Nat
  BY <1>1, <1>2 DEF Preview, At, TypeInv, ChatOK, Equipped, Holds
<1>4. threads' = [threads EXCEPT ![t0].last = n0] /\ UNCHANGED messages
  BY <1>2 DEF Preview
<1>5. /\ DOMAIN threads' = DOMAIN threads
      /\ \A t \in DOMAIN threads : /\ threads'[t].kind = threads[t].kind /\ threads'[t].key = threads[t].key
                                   /\ threads'[t].owner = threads[t].owner /\ threads'[t].in = threads[t].in
                                   /\ t # t0 => threads'[t].last = threads[t].last
      /\ threads'[t0].last = n0
  <2>1. \A t \in DOMAIN threads : threads[t] \in ThreadRow
    BY <1>3
  <2> QED  BY <1>3, <1>4, <2>1 DEF ThreadRow
<1>6. pc[w] = "preview" /\ pc'[w] = "idle"
  BY <1>1, Answering DEF Preview, At, Moved
<1>7. WholeOrCompleting'
  <2>1. \A t \in DOMAIN threads : Completing(t) => Completing(t)'
    BY <1>1, <1>5, <1>6 DEF Completing, Alone
  <2>2. \A t \in DOMAIN threads : Dms(threads[t].key)' = Dms(threads[t].key)
    BY <1>5 DEF Dms
  <2>3. \A t \in DOMAIN threads :
          /\ threads'[t].owner \in threads'[t].key
          /\ threads'[t].kind = "DM" => threads'[t].in \in {{}, threads'[t].key} /\ Dms(threads[t].key)' = {t}
          /\ irregular' \/ threads'[t].owner \in threads'[t].in \/ Completing(t)'
    BY <1>1, <1>5, <2>1, <2>2 DEF ThreadsInv, WholeOrCompleting
  <2>4. \A v \in Workers :
          /\ pc'[v] = "saveThread" => my'[v].thread.owner \in my'[v].thread.key /\ my'[v].thread.in = {}
          /\ pc'[v] = "saveMembers" => (threads'[my'[v].in].kind = "DM" => my'[v].who = threads'[my'[v].in].key)
    <3>1. \A v \in Workers : pc[v] = "saveMembers" => my[v].in \in DOMAIN threads
      BY <1>1 DEF TypeInv, Equipped, Holds
    <3> QED  BY <1>1, <1>5, <1>6, <3>1 DEF Alone, ThreadsInv, WholeOrCompleting
  <2> QED  BY <1>5, <2>3, <2>4 DEF WholeOrCompleting
<1>8. Orderly' => NewestShown'
  <2> SUFFICES ASSUME Orderly' PROVE NewestShown'
    OBVIOUS
  <2>1. \A v \in Workers : v # w => pc[v] # "preview" /\ pc'[v] # "preview"
    BY <1>1
  <2>2. n0 = Len(messages)
    BY <1>1, <1>2, <1>6 DEF NewestShown
  <2>3. \A t \in DOMAIN threads \ {t0} : \A n \in DOMAIN messages : messages[n].in = t => n <= threads[t].last
    BY <1>1, <1>2, <2>1 DEF NewestShown
  <2>4. \A n \in DOMAIN messages : n <= n0
    BY <1>3, <2>2
  <2> QED  BY <1>4, <1>5, <1>6, <2>1, <2>3, <2>4 DEF NewestShown
<1> QED  BY <1>1, <1>7, <1>8 DEF ThreadsInv

LEMMA ThreadsStep == ThreadsInv /\ [Next]_vars => ThreadsInv'
<1> SUFFICES ASSUME ThreadsInv, [Next]_vars PROVE ThreadsInv'
  OBVIOUS
<1>t. TypeInv /\ TypeInv' /\ InTurn
  BY TypeStep DEF ThreadsInv
<1>1. ASSUME NEW w \in Workers, ChatStep(w) PROVE ThreadsInv'
  <2>1. CASE SaveMembers(w) \/ SaveMessage(w) \/ Preview(w)
    BY <1>t, <2>1, PutsMembers, InsertsMessage, ShowsNewest
  <2>2. CASE UNCHANGED threads /\ ~(SaveMembers(w) \/ SaveMessage(w) \/ Preview(w))
    BY <1>t, <1>1, <2>2, OpensThreads
  <2>3. CASE threads' # threads /\ ~(SaveMembers(w) \/ SaveMessage(w) \/ Preview(w))
    <3>1. SaveThread(w)
      BY <1>1, <2>3 DEF ChatStep, OpenDm, Challenge, CreateGroup, Write, AddMember, ChangeSettings, Send, socialVars
    <3> QED  BY <1>t, <2>3, <3>1, InsertsThread
  <2> QED  BY <2>1, <2>2, <2>3
<1>2. ASSUME NEW w \in Workers, NEW steps, steps = {"savePair"} \/ steps = PresenceSteps,
             Goes(w, steps), ChatRest
      PROVE  ThreadsInv'
  <2>1. InTurn' /\ (Orderly' => Orderly)
    <3>1. "idle" \notin steps
      BY <1>2 DEF PresenceSteps
    <3> QED  BY <1>t, <1>2, <3>1, GoesInTurn
  <2>2. Alone(w) /\ UNCHANGED irregular /\ pc[w] \notin {"saveMembers", "preview"}
        /\ pc'[w] \notin {"saveThread", "saveMembers", "preview"}
    BY <1>2 DEF Goes, Arrive, PresenceSteps
  <2> QED  BY <1>t, <1>2, <2>1, <2>2, ElsewhereThreads DEF ChatRest
<1>3. CASE ProcessDies
  <2>1. InTurn' /\ ~Orderly' /\ irregular' = TRUE /\ UNCHANGED threads /\ \A w \in Workers : pc'[w] = "idle"
    BY <1>t, <1>3, DyingInTurn DEF ProcessDies, Irregular, ChatRest
  <2>2. \A t \in DOMAIN threads : Dms(threads[t].key)' = Dms(threads[t].key)
    BY <2>1 DEF Dms
  <2>3. WholeOrCompleting'
    BY <2>1, <2>2 DEF ThreadsInv, WholeOrCompleting
  <2> QED  BY <1>t, <2>1, <2>3 DEF ThreadsInv
<1>4. CASE UNCHANGED vars
  BY <1>t, <1>4 DEF vars, requestVars, socialVars, ThreadsInv, WholeOrCompleting, NewestShown, Completing,
                    Dms, InTurn, Orderly
<1> QED
  BY <1>t, <1>1, <1>2, <1>3, <1>4, NextSteps, FriendStepGoes, PresenceStepGoes

\* A direct thread has both of its players in it and is its pair's only one, a
\* group its founder, however the requests that open them interleave; and served
\* in turn, a thread shows its newest message.
THEOREM ThreadsStayWhole == Spec => []ThreadsAreWhole
<1>1. ThreadsInv => ThreadsAreWhole
  <2> SUFFICES ASSUME ThreadsInv, Quiet, ~irregular, NEW t \in DOMAIN threads
               PROVE  /\ threads[t].kind = "DM" => threads[t].in = threads[t].key /\ Dms(threads[t].key) = {t}
                      /\ threads[t].owner \in threads[t].in
                      /\ Orderly => \A n \in DOMAIN messages : messages[n].in = t => n <= threads[t].last
    BY DEF ThreadsAreWhole
  <2>1. threads[t].owner \in threads[t].in
    BY DEF ThreadsInv, WholeOrCompleting, Completing, Quiet
  <2>2. threads[t].kind = "DM" => threads[t].in = threads[t].key /\ Dms(threads[t].key) = {t}
    BY <2>1 DEF ThreadsInv, WholeOrCompleting
  <2>3. Orderly => \A n \in DOMAIN messages : messages[n].in = t => n <= threads[t].last
    BY DEF ThreadsInv, NewestShown, Quiet
  <2> QED  BY <2>1, <2>2, <2>3
<1> QED  BY <1>1, ThreadsInit, ThreadsStep, PTL DEF Spec

-----------------------------------------------------------------------------
(* Presence *)

OpenOf(u) == {s \in Sockets : sockets[s].user = u /\ sockets[s].open}
True(u) == online[u] = OpenOf(u) /\ told[u] = (online[u] # {})
Known(s) == sockets[s].open => sockets[s].known

PresenceAtRest == (\A u \in Users : True(u)) /\ \A s \in Sockets : Known(s)

\* What holds while a request about user u is served: what is not yet true of them.
Meanwhile(step, u, work) ==
  /\ \A v \in Users \ {u} : True(v)
  /\ step \in {"authenticate", "goOnline"} =>
       /\ work.socket \in OpenOf(u)
       /\ step = "goOnline" => sockets[work.socket].known
       /\ \A s \in Sockets \ {work.socket} : Known(s)
       /\ online[u] = OpenOf(u) \ {work.socket}
       /\ told[u] = (online[u] # {})
  /\ step \notin {"authenticate", "goOnline"} => \A s \in Sockets : Known(s)
  /\ step = "tell" => online[u] = OpenOf(u) /\ work.online = (online[u] # {})
  /\ step = "goOffline" =>
       /\ work.socket \notin OpenOf(u)
       /\ online[u] = OpenOf(u) \cup {work.socket}
       /\ told[u]
  /\ step = "stillOn" => online[u] = OpenOf(u) /\ told[u]

PresenceInv ==
  /\ TypeInv /\ InTurn
  /\ Orderly =>
       /\ (\A w \in Workers : pc[w] \notin PresenceSteps) => PresenceAtRest
       /\ \A w \in Workers : pc[w] \in PresenceSteps => Meanwhile(pc[w], my[w].user, my[w])

LEMMA PresenceInit == Init => PresenceInv
<1> SUFFICES ASSUME Init PROVE PresenceInv
  OBVIOUS
<1>1. InTurn /\ \A w \in Workers : pc[w] = "idle"
  BY NothingServed DEF Init
<1>2. PresenceAtRest
  BY DEF Init, PresenceAtRest, True, OpenOf, Known
<1> QED  BY <1>1, <1>2, TypeInit DEF PresenceInv, PresenceSteps

\* As long as nothing overlaps, a step finds presence at rest or its own work in hand.
LEMMA InHand ==
  ASSUME PresenceInv, TypeInv', NEW w \in Workers, NEW steps, "idle" \notin steps, Goes(w, steps)
  PROVE  /\ InTurn' /\ Alone(w) /\ Served
         /\ Orderly' =>
              /\ \A v \in Workers \ {w} : pc'[v] \notin PresenceSteps
              /\ IF pc[w] \in PresenceSteps THEN Meanwhile(pc[w], my[w].user, my[w]) ELSE PresenceAtRest
<1>1. /\ InTurn'
      /\ Orderly' => Orderly /\ \A v \in Workers \ {w} : pc[v] = "idle" /\ pc'[v] = "idle"
  BY GoesInTurn DEF PresenceInv
<1>2. "idle" \notin PresenceSteps
  BY DEF PresenceSteps
<1>3. Alone(w) /\ Served
  BY DEF Goes, PresenceInv, TypeInv
<1> QED  BY <1>1, <1>2, <1>3 DEF PresenceInv

\* What a step has to leave behind.
LEMMA LeavesPresence ==
  ASSUME PresenceInv, TypeInv', NEW w \in Workers, InTurn',
         Orderly' =>
           /\ \A v \in Workers \ {w} : pc'[v] \notin PresenceSteps
           /\ pc'[w] \notin PresenceSteps => PresenceAtRest'
           /\ pc'[w] \in PresenceSteps => Meanwhile(pc[w], my[w].user, my[w])'
  PROVE  PresenceInv'
BY DEF PresenceInv

LEMMA ElsewherePresence ==
  ASSUME PresenceInv, TypeInv', NEW w \in Workers, NEW steps,
         steps = {"savePair"} \/ steps = ChatSteps, Goes(w, steps), PresenceRest
  PROVE  PresenceInv'
<1>1. "idle" \notin steps /\ pc[w] \notin PresenceSteps /\ pc'[w] \notin PresenceSteps
  BY DEF Goes, Arrive, ChatSteps, PresenceSteps
<1>2. /\ InTurn'
      /\ Orderly' => PresenceAtRest /\ \A v \in Workers \ {w} : pc'[v] \notin PresenceSteps
  BY <1>1, InHand
<1>3. PresenceAtRest' = PresenceAtRest
  BY DEF PresenceRest, PresenceAtRest, True, OpenOf, Known
<1> QED  BY <1>1, <1>2, <1>3, LeavesPresence

LEMMA Connects ==
  ASSUME PresenceInv, TypeInv', NEW w \in Workers, NEW s \in Sockets, NEW u \in Users, Connect(w, s, u), Orderly',
         PresenceAtRest
  PROVE  pc'[w] = "authenticate" /\ Meanwhile(pc[w], my[w].user, my[w])'
<1>1. pc'[w] = "authenticate" /\ my'[w] = [socket |-> s, user |-> u]
  BY Awaiting DEF Connect, PresenceInv, TypeInv, Moved
<1>2. /\ sockets' = [sockets EXCEPT ![s] = [user |-> u, open |-> TRUE, known |-> FALSE]]
      /\ sockets[s].user = Nobody /\ UNCHANGED <<online, told>>
  BY DEF Connect, SocketsRest
<1>3. sockets \in [Sockets -> [user : Users \cup {Nobody}, open : BOOLEAN, known : BOOLEAN]]
  BY DEF PresenceInv, TypeInv, PresenceOK
<1>4. /\ \A v \in Users \ {u} : OpenOf(v)' = OpenOf(v)
      /\ OpenOf(u)' = OpenOf(u) \cup {s} /\ s \notin OpenOf(u)
      /\ \A q \in Sockets \ {s} : Known(q)' = Known(q)
  BY <1>2, <1>3, SocialAssumption DEF OpenOf, Known
<1>5. \A v \in Users : (True(v) /\ OpenOf(v)' = OpenOf(v)) => True(v)'
  BY <1>2 DEF True
<1>6. online[u] = OpenOf(u) /\ told[u] = (online[u] # {}) /\ \A v \in Users : True(v)
  BY DEF PresenceAtRest, True
<1>7. my'[w].user = u /\ my'[w].socket = s
  BY <1>1
<1>8. online'[u] = OpenOf(u)' \ {s} /\ told'[u] = (online'[u] # {}) /\ s \in OpenOf(u)'
  BY <1>2, <1>4, <1>6
<1>9. \A q \in Sockets \ {s} : Known(q)'
  BY <1>4 DEF PresenceAtRest
<1>10. \A v \in Users \ {u} : True(v)'
  BY <1>4, <1>5, <1>6
<1> QED  BY <1>1, <1>7, <1>8, <1>9, <1>10 DEF Meanwhile

LEMMA AuthenticatesPresence ==
  ASSUME PresenceInv, TypeInv', NEW w \in Workers, Authenticate(w), Meanwhile(pc[w], my[w].user, my[w])
  PROVE  pc'[w] = "goOnline" /\ Meanwhile(pc[w], my[w].user, my[w])'
<1>1. PICK s, u : s = my[w].socket /\ u = my[w].user
  OBVIOUS
<1>2. s \in Sockets /\ u \in Users /\ pc[w] = "authenticate"
  BY <1>1 DEF Authenticate, At, PresenceInv, TypeInv, Equipped, Holds
<1>3. pc'[w] = "goOnline" /\ my'[w] = my[w]
  BY GoingOn DEF Authenticate, PresenceInv, TypeInv, Moved
<1>4. sockets' = [sockets EXCEPT ![s].known = TRUE] /\ UNCHANGED <<online, told>>
  BY <1>1 DEF Authenticate, SocketsRest
<1>5. sockets \in [Sockets -> [user : Users \cup {Nobody}, open : BOOLEAN, known : BOOLEAN]]
  BY DEF PresenceInv, TypeInv, PresenceOK
<1>6. /\ \A v \in Users : OpenOf(v)' = OpenOf(v)
      /\ \A q \in Sockets \ {s} : Known(q)' = Known(q)
      /\ sockets'[s].known
  BY <1>2, <1>4, <1>5 DEF OpenOf, Known
<1>7. \A v \in Users : True(v) => True(v)'
  BY <1>4, <1>6 DEF True
<1>8. /\ \A v \in Users \ {u} : True(v)
      /\ s \in OpenOf(u) /\ \A q \in Sockets \ {s} : Known(q)
      /\ online[u] = OpenOf(u) \ {s} /\ told[u] = (online[u] # {})
  BY <1>1, <1>2 DEF Meanwhile
<1>9. online'[u] = OpenOf(u)' \ {s} /\ told'[u] = (online'[u] # {}) /\ s \in OpenOf(u)'
  BY <1>2, <1>4, <1>6, <1>8
<1>10. (\A v \in Users \ {u} : True(v)') /\ \A q \in Sockets \ {s} : Known(q)'
  BY <1>6, <1>7, <1>8
<1>11. my'[w].user = u /\ my'[w].socket = s
  BY <1>1, <1>3
<1> QED  BY <1>3, <1>6, <1>9, <1>10, <1>11 DEF Meanwhile

LEMMA GoesOnline ==
  ASSUME PresenceInv, TypeInv', NEW w \in Workers, GoOnline(w), Meanwhile(pc[w], my[w].user, my[w])
  PROVE  pc'[w] = "tell" /\ Meanwhile(pc[w], my[w].user, my[w])'
<1>1. PICK s, u : s = my[w].socket /\ u = my[w].user
  OBVIOUS
<1>2. s \in Sockets /\ u \in Users /\ pc[w] = "goOnline"
  BY <1>1 DEF GoOnline, At, PresenceInv, TypeInv, Equipped, Holds
<1>3. pc'[w] = "tell" /\ my'[w] = [user |-> u, online |-> TRUE]
  BY <1>1, Awaiting DEF GoOnline, PresenceInv, TypeInv, Moved
<1>4. online' = [online EXCEPT ![u] = @ \cup {s}] /\ UNCHANGED <<sockets, told>>
  BY <1>1 DEF GoOnline
<1>5. online \in [Users -> SUBSET Sockets]
  BY DEF PresenceInv, TypeInv, PresenceOK
<1>6. /\ \A v \in Users : OpenOf(v)' = OpenOf(v)
      /\ \A q \in Sockets : Known(q)' = Known(q)
      /\ \A v \in Users \ {u} : online'[v] = online[v]
      /\ online'[u] = online[u] \cup {s}
  BY <1>2, <1>4, <1>5 DEF OpenOf, Known
<1>7. \A v \in Users \ {u} : True(v) => True(v)'
  BY <1>4, <1>6 DEF True
<1>8. /\ \A v \in Users \ {u} : True(v)
      /\ s \in OpenOf(u) /\ sockets[s].known /\ \A q \in Sockets \ {s} : Known(q)
      /\ online[u] = OpenOf(u) \ {s}
  BY <1>1, <1>2 DEF Meanwhile
<1>9. online'[u] = OpenOf(u)' /\ online'[u] # {}
  BY <1>2, <1>6, <1>8
<1>10. (\A v \in Users \ {u} : True(v)') /\ \A q \in Sockets : Known(q)'
  BY <1>6, <1>7, <1>8 DEF Known
<1>11. my'[w].user = u /\ my'[w].online = TRUE
  BY <1>3
<1> QED  BY <1>3, <1>9, <1>10, <1>11 DEF Meanwhile

LEMMA Tells ==
  ASSUME PresenceInv, TypeInv', NEW w \in Workers, Tell(w), Meanwhile(pc[w], my[w].user, my[w])
  PROVE  pc'[w] = "idle" /\ PresenceAtRest'
<1>1. PICK u, b : u = my[w].user /\ b = my[w].online
  OBVIOUS
<1>2. u \in Users /\ pc[w] = "tell"
  BY <1>1 DEF Tell, At, PresenceInv, TypeInv, Equipped, Holds
<1>3. pc'[w] = "idle"
  BY Answering DEF Tell, PresenceInv, TypeInv, Moved
<1>4. told' = [told EXCEPT ![u] = b] /\ UNCHANGED <<sockets, online>>
  BY <1>1 DEF Tell
<1>5. told \in [Users -> BOOLEAN]
  BY DEF PresenceInv, TypeInv, PresenceOK
<1>6. /\ \A v \in Users : OpenOf(v)' = OpenOf(v)
      /\ \A q \in Sockets : Known(q)' = Known(q)
      /\ \A v \in Users \ {u} : told'[v] = told[v]
      /\ told'[u] = b
  BY <1>2, <1>4, <1>5 DEF OpenOf, Known
<1>7. \A v \in Users \ {u} : True(v) => True(v)'
  BY <1>4, <1>6 DEF True
<1>8. /\ \A v \in Users \ {u} : True(v)
      /\ \A q \in Sockets : Known(q)
      /\ online[u] = OpenOf(u) /\ b = (online[u] # {})
  BY <1>1, <1>2 DEF Meanwhile
<1>9. True(u)'
  BY <1>2, <1>4, <1>6, <1>8 DEF True
<1> QED  BY <1>3, <1>6, <1>7, <1>8, <1>9 DEF PresenceAtRest

LEMMA Disconnects ==
  ASSUME PresenceInv, TypeInv', NEW w \in Workers, NEW s \in Sockets, Disconnect(w, s), PresenceAtRest
  PROVE  pc'[w] = "goOffline" /\ Meanwhile(pc[w], my[w].user, my[w])'
<1>1. PICK u : u = sockets[s].user
  OBVIOUS
<1>2. sockets[s].open /\ sockets[s].known /\ u \in Users
  BY <1>1 DEF Disconnect, PresenceAtRest, Known, PresenceInv, TypeInv, PresenceOK
<1>3. pc'[w] = "goOffline" /\ my'[w] = [socket |-> s, user |-> u]
  BY <1>1, <1>2, Awaiting DEF Disconnect, PresenceInv, TypeInv, Moved
<1>4. sockets' = [sockets EXCEPT ![s].open = FALSE] /\ UNCHANGED <<online, told>>
  BY DEF Disconnect, SocketsRest
<1>5. sockets \in [Sockets -> [user : Users \cup {Nobody}, open : BOOLEAN, known : BOOLEAN]]
  BY DEF PresenceInv, TypeInv, PresenceOK
<1>6. /\ \A v \in Users \ {u} : OpenOf(v)' = OpenOf(v)
      /\ OpenOf(u)' = OpenOf(u) \ {s} /\ s \in OpenOf(u)
      /\ \A q \in Sockets : Known(q) => Known(q)'
  BY <1>1, <1>2, <1>4, <1>5 DEF OpenOf, Known
<1>7. \A v \in Users \ {u} : True(v) => True(v)'
  BY <1>4, <1>6 DEF True
<1>8. /\ \A v \in Users : True(v)
      /\ \A q \in Sockets : Known(q)
      /\ online[u] = OpenOf(u) /\ told[u] = (online[u] # {})
  BY <1>2 DEF PresenceAtRest, True
<1>9. s \notin OpenOf(u)' /\ online'[u] = OpenOf(u)' \cup {s} /\ told'[u]
  BY <1>4, <1>6, <1>8
<1>10. (\A v \in Users \ {u} : True(v)') /\ \A q \in Sockets : Known(q)'
  BY <1>6, <1>7, <1>8
<1>11. my'[w].user = u /\ my'[w].socket = s
  BY <1>3
<1> QED  BY <1>3, <1>9, <1>10, <1>11 DEF Meanwhile

LEMMA GoesOffline ==
  ASSUME PresenceInv, TypeInv', NEW w \in Workers, GoOffline(w), Meanwhile(pc[w], my[w].user, my[w])
  PROVE  pc'[w] = "stillOn" /\ Meanwhile(pc[w], my[w].user, my[w])'
<1>1. PICK s, u : s = my[w].socket /\ u = my[w].user
  OBVIOUS
<1>2. s \in Sockets /\ u \in Users /\ pc[w] = "goOffline"
  BY <1>1 DEF GoOffline, At, PresenceInv, TypeInv, Equipped, Holds
<1>3. pc'[w] = "stillOn" /\ my'[w] = my[w]
  BY GoingOn DEF GoOffline, PresenceInv, TypeInv, Moved
<1>4. online' = [online EXCEPT ![u] = @ \ {s}] /\ UNCHANGED <<sockets, told>>
  BY <1>1 DEF GoOffline
<1>5. online \in [Users -> SUBSET Sockets]
  BY DEF PresenceInv, TypeInv, PresenceOK
<1>6. /\ \A v \in Users : OpenOf(v)' = OpenOf(v)
      /\ \A q \in Sockets : Known(q)' = Known(q)
      /\ \A v \in Users \ {u} : online'[v] = online[v]
      /\ online'[u] = online[u] \ {s}
  BY <1>2, <1>4, <1>5 DEF OpenOf, Known
<1>7. \A v \in Users \ {u} : True(v) => True(v)'
  BY <1>4, <1>6 DEF True
<1>8. /\ \A v \in Users \ {u} : True(v)
      /\ \A q \in Sockets : Known(q)
      /\ s \notin OpenOf(u) /\ online[u] = OpenOf(u) \cup {s} /\ told[u]
  BY <1>1, <1>2 DEF Meanwhile
<1>9. online'[u] = OpenOf(u)' /\ told'[u]
  BY <1>2, <1>4, <1>6, <1>8
<1>10. (\A v \in Users \ {u} : True(v)') /\ \A q \in Sockets : Known(q)'
  BY <1>6, <1>7, <1>8
<1>11. my'[w].user = u /\ my'[w].socket = s
  BY <1>1, <1>3
<1> QED  BY <1>3, <1>9, <1>10, <1>11 DEF Meanwhile

LEMMA LooksWhetherStillOn ==
  ASSUME PresenceInv, TypeInv', NEW w \in Workers, StillOn(w), Meanwhile(pc[w], my[w].user, my[w])
  PROVE  \/ pc'[w] = "tell" /\ Meanwhile(pc[w], my[w].user, my[w])'
         \/ pc'[w] = "idle" /\ PresenceAtRest'
<1>1. PICK u : u = my[w].user
  OBVIOUS
<1>2. u \in Users /\ pc[w] = "stillOn"
  BY <1>1 DEF StillOn, At, PresenceInv, TypeInv, Equipped, Holds
<1>3. UNCHANGED <<sockets, online, told>>
  BY DEF StillOn, socialVars
<1>4. /\ \A v \in Users : OpenOf(v)' = OpenOf(v) /\ True(v)' = True(v)
      /\ \A q \in Sockets : Known(q)' = Known(q)
  BY <1>3 DEF OpenOf, Known, True
<1>5. /\ \A v \in Users \ {u} : True(v)
      /\ \A q \in Sockets : Known(q)
      /\ online[u] = OpenOf(u) /\ told[u]
  BY <1>1, <1>2 DEF Meanwhile
<1>6. CASE online[u] = {}
  <2>1. pc'[w] = "tell" /\ my'[w] = [user |-> u, online |-> FALSE]
    BY <1>1, <1>6, Awaiting DEF StillOn, NoneLeft, PresenceInv, TypeInv, Moved
  <2>2. my'[w].user = u /\ my'[w].online = FALSE
    BY <2>1
  <2>3. online'[u] = OpenOf(u)' /\ my'[w].online = (online'[u] # {})
    BY <1>2, <1>3, <1>4, <1>5, <1>6, <2>2
  <2>4. (\A v \in Users \ {u} : True(v)') /\ \A q \in Sockets : Known(q)'
    BY <1>4, <1>5
  <2> QED  BY <2>1, <2>2, <2>3, <2>4 DEF Meanwhile
<1>7. CASE online[u] # {}
  <2>1. pc'[w] = "idle"
    BY <1>1, <1>7, Answering DEF StillOn, NoneLeft, PresenceInv, TypeInv, Moved
  <2>2. told[u] = TRUE
    BY <1>2, <1>5 DEF PresenceInv, TypeInv, PresenceOK
  <2>3. True(u)
    BY <1>5, <1>7, <2>2 DEF True
  <2> QED  BY <1>4, <1>5, <2>1, <2>3 DEF PresenceAtRest
<1> QED  BY <1>6, <1>7

LEMMA PresenceKept == PresenceInv /\ [Next]_vars => PresenceInv'
<1> SUFFICES ASSUME PresenceInv, [Next]_vars PROVE PresenceInv'
  OBVIOUS
<1>t. TypeInv /\ TypeInv' /\ InTurn
  BY TypeStep DEF PresenceInv
<1>1. ASSUME NEW w \in Workers, FriendStep(w) PROVE PresenceInv'
  BY <1>t, <1>1, FriendStepGoes, ElsewherePresence
<1>2. ASSUME NEW w \in Workers, ChatStep(w) PROVE PresenceInv'
  BY <1>t, <1>2, ChatStepGoes, ElsewherePresence
<1>3. ASSUME NEW w \in Workers, PresenceStep(w) PROVE PresenceInv'
  <2>1. Goes(w, PresenceSteps) /\ "idle" \notin PresenceSteps
    BY <1>t, <1>3, PresenceStepGoes DEF PresenceSteps
  <2>2. /\ InTurn'
        /\ Orderly' =>
             /\ \A v \in Workers \ {w} : pc'[v] \notin PresenceSteps
             /\ pc[w] \in PresenceSteps => Meanwhile(pc[w], my[w].user, my[w])
             /\ pc[w] \notin PresenceSteps => PresenceAtRest
    BY <1>t, <2>1, InHand
  <2>3. ASSUME Orderly'
        PROVE  \/ pc'[w] = "idle" /\ PresenceAtRest'
               \/ pc'[w] # "idle" /\ Meanwhile(pc[w], my[w].user, my[w])'
    <3>1. ASSUME NEW s \in Sockets, Disconnect(w, s) \/ \E u \in Users : Connect(w, s, u)
          PROVE  pc'[w] # "idle" /\ Meanwhile(pc[w], my[w].user, my[w])'
      <4>1. PresenceAtRest
        BY <2>1, <2>2, <2>3, <3>1 DEF Disconnect, Connect, Call, Arrive
      <4> QED  BY <1>t, <2>3, <3>1, <4>1, Connects, Disconnects
    <3>2. CASE Authenticate(w) \/ GoOnline(w) \/ Tell(w) \/ GoOffline(w) \/ StillOn(w)
      <4>1. Meanwhile(pc[w], my[w].user, my[w])
        BY <2>2, <2>3, <3>2 DEF Authenticate, GoOnline, Tell, GoOffline, StillOn, At, PresenceSteps
      <4> QED  BY <1>t, <3>2, <4>1, AuthenticatesPresence, GoesOnline, Tells, GoesOffline, LooksWhetherStillOn
    <3> QED  BY <1>3, <3>1, <3>2 DEF PresenceStep
  <2>4. pc'[w] \in PresenceSteps \cup {"idle"}
    BY <2>1 DEF Goes
  <2> QED  BY <1>t, <2>1, <2>2, <2>3, <2>4, LeavesPresence
<1>4. CASE ProcessDies
  BY <1>t, <1>4, DyingInTurn DEF PresenceInv
<1>5. CASE UNCHANGED vars
  BY <1>t, <1>5 DEF vars, requestVars, socialVars, PresenceInv, PresenceAtRest, Meanwhile, True, OpenOf, Known,
                    InTurn, Orderly
<1> QED  BY <1>1, <1>2, <1>3, <1>4, <1>5, NextSteps

\* Served in turn, a user's set in Redis holds exactly the sockets they have open,
\* and their friends were last told whether there is one.
THEOREM PresenceStaysTrue == Spec => []PresenceIsTrue
<1>1. PresenceInv => PresenceIsTrue
  <2> SUFFICES ASSUME PresenceInv, Orderly, Quiet PROVE \A u \in Users : online[u] = OpenOf(u) /\ told[u] = (online[u] # {})
    BY DEF PresenceIsTrue, OpenOf
  <2>1. PresenceAtRest
    BY DEF PresenceInv, Quiet, PresenceSteps
  <2> QED  BY <2>1 DEF PresenceAtRest, True
<1> QED  BY <1>1, PresenceInit, PresenceKept, PTL DEF Spec

-----------------------------------------------------------------------------
(* Halls, of the same users and requests: types, and that a board counts nobody twice *)

\* Every request is somewhere and holds something.
Moving == pc = [w \in Workers |-> pc[w]] /\ my = [w \in Workers |-> my[w]]

\* What a handler still has to do at each of its steps.
Departure == <<"dropFeed", "deleteRows", "dropBoard", "hideActivity">>
Move == <<"leave">> \o Arrival
Leaving == <<"leave">> \o Exclusive

TodosAt(step) ==
  CASE step = "closeStays" -> {Move, Leaving, Departure}
    [] step = "leave" -> {Arrival, Exclusive}
    [] step = "openStay" -> {<<"dropFeed", "deleteRows", "insertRow", "dropBoard", "showActivity">>}
    [] step = "dropFeed" -> {<<"deleteRows", "insertRow", "dropBoard", "showActivity">>,
                             <<"deleteRows", "dropBoard", "hideActivity">>, <<>>}
    [] step = "deleteRows" -> {<<"insertRow", "dropBoard", "showActivity">>, <<"insertRow", "dropBoard">>,
                               <<"dropBoard", "hideActivity">>}
    [] step = "insertRow" -> {<<"dropBoard", "showActivity">>, <<"dropBoard">>}
    [] step = "dropBoard" -> {<<"showActivity">>, <<>>, <<"hideActivity">>}
    [] step = "showActivity" -> {<<>>}
    [] step = "hideActivity" -> {<<>>}

Todo == {"closeStays", "leave", "openStay", "dropFeed", "deleteRows", "insertRow", "dropBoard",
         "showActivity", "hideActivity"}

Visit == [user : Visitors, hall : Nat, previous : SUBSET Nat, n : {0}, todo : UNION {TodosAt(step) : step \in Todo}]

\* A board that counts nobody twice.
OnceOn(board) == \A g, h \in DOMAIN board : g # h => board[g] \cap board[h] = {}

HallHolds(step, work) ==
  /\ step \in Todo => work \in Visit /\ work.todo \in TodosAt(step)
  /\ step = "insertHall" => work.place \in Places /\ work.user \in Visitors /\ work.todo \in {<<>>, Exclusive}
  /\ step = "cacheBoard" => OnceOn(work.board)

\* Every row of the first version has a number of its own.
RowsApart ==
  /\ made \in Nat
  /\ checkins \subseteq [user : Visitors, hall : Nat, made : 1 .. made, late : BOOLEAN]
  /\ \A c, d \in checkins : c.made = d.made => c = d

StayRow == [user : Visitors, hall : Nat, out : BOOLEAN]

HallShapes ==
  /\ halls \in Seq(Places)
  /\ stays \in Seq(StayRow)
  /\ activity = [u \in Visitors |-> activity[u]]
  /\ posts = [h \in Ids |-> posts[h]] /\ feed = [h \in Ids |-> feed[h]]

HallInv ==
  /\ Moving /\ HallShapes /\ RowsApart /\ OnceOn(live)
  /\ \A w \in Workers : HallHolds(pc[w], my[w])

\* Nobody is counted in two halls, since a player's newest row is one row.
LEMMA BoardCountsOnce ==
  ASSUME RowsApart
  PROVE  OnceOn(Board)
<1> SUFFICES ASSUME NEW g \in DOMAIN Board, NEW h \in DOMAIN Board,
                    NEW u \in Board[g] \cap Board[h]
             PROVE  g = h
  BY DEF OnceOn
<1>1. /\ Board[g] = {c.user : c \in {d \in Counted : d.hall = g}}
      /\ Board[h] = {c.user : c \in {d \in Counted : d.hall = h}}
  BY DEF Board
<1>2. PICK c \in Counted : c.hall = g /\ c.user = u
  BY <1>1
<1>3. PICK d \in Counted : d.hall = h /\ d.user = u
  BY <1>1
<1>4. c \in checkins /\ d \in checkins /\ c.made <= d.made /\ d.made <= c.made
  BY <1>2, <1>3 DEF Counted, NewestRows
<1>5. c.made \in Nat /\ d.made \in Nat
  BY <1>4 DEF RowsApart
<1>6. c.made = d.made
  BY <1>4, <1>5
<1>7. c = d
  BY <1>4, <1>6 DEF RowsApart
<1> QED  BY <1>2, <1>3, <1>7

-----------------------------------------------------------------------------
LEMMA HallAwaits ==
  ASSUME Moving, NEW w \in Workers, NEW step, NEW work, Await(w, step, work)
  PROVE  Moved(w, step, work) /\ Moving'
BY DEF Moving, Await, Goto, Hold, Moved, Alone

LEMMA HallAnswers ==
  ASSUME Moving, NEW w \in Workers, Answer(w)
  PROVE  Moved(w, "idle", NoWork) /\ Moving'
BY HallAwaits DEF Answer

NextOf(todo) == IF todo = <<>> THEN "idle" ELSE Head(todo)
WorkOf(todo, work) == IF todo = <<>> THEN NoWork ELSE [work EXCEPT !.todo = Tail(todo)]

LEMMA HallDoes ==
  ASSUME Moving, NEW w \in Workers, NEW todo, NEW work, Do(w, todo, work)
  PROVE  Moved(w, NextOf(todo), WorkOf(todo, work)) /\ Moving'
BY HallAwaits, HallAnswers DEF Do, NextOf, WorkOf

LEMMA OneAhead ==
  ASSUME NEW S, NEW s \in Seq(S), NEW a \in S
  PROVE  <<a>> \o s # <<>> /\ Head(<<a>> \o s) = a /\ Tail(<<a>> \o s) = s
<1> DEFINE t == <<a>> \o s
<1>1. <<a>> \in Seq(S) /\ Len(<<a>>) = 1 /\ Len(s) \in Nat
  OBVIOUS
<1>2. t \in Seq(S) /\ Len(t) = Len(s) + 1 /\ t[1] = a /\ \A i \in 1 .. Len(s) : t[i + 1] = s[i]
  BY <1>1
<1> HIDE DEF t
<1>3. t # <<>> /\ Head(t) = a
  BY <1>1, <1>2
<1>4. Tail(t) \in Seq(S) /\ Len(Tail(t)) = Len(s) /\ \A i \in 1 .. Len(s) : Tail(t)[i] = t[i + 1]
  BY <1>1, <1>2, <1>3
<1>5. Tail(t) = s
  BY <1>2, <1>4, SeqEqual
<1> QED  BY <1>3, <1>5 DEF t

LEMMA TwoAhead ==
  ASSUME NEW S, NEW s \in Seq(S), NEW a \in S, NEW b \in S
  PROVE  <<a, b>> \o s # <<>> /\ Head(<<a, b>> \o s) = a /\ Tail(<<a, b>> \o s) = <<b>> \o s
<1> DEFINE t == <<a, b>> \o s
           u == <<b>> \o s
<1>1. <<a, b>> \in Seq(S) /\ <<b>> \in Seq(S) /\ Len(<<a, b>>) = 2 /\ Len(<<b>>) = 1 /\ Len(s) \in Nat
  OBVIOUS
<1>2. t \in Seq(S) /\ Len(t) = Len(s) + 2 /\ t[1] = a /\ t[2] = b /\ \A i \in 1 .. Len(s) : t[i + 2] = s[i]
  BY <1>1
<1>3. u \in Seq(S) /\ Len(u) = Len(s) + 1 /\ u[1] = b /\ \A i \in 1 .. Len(s) : u[i + 1] = s[i]
  BY <1>1
<1> HIDE DEF t, u
<1>4. t # <<>> /\ Head(t) = a
  BY <1>1, <1>2
<1>5. Tail(t) \in Seq(S) /\ Len(Tail(t)) = Len(s) + 1 /\ \A i \in 1 .. (Len(s) + 1) : Tail(t)[i] = t[i + 1]
  BY <1>1, <1>2, <1>4
<1>6. \A i \in 1 .. (Len(s) + 1) : Tail(t)[i] = u[i]
  <2> SUFFICES ASSUME NEW i \in 1 .. (Len(s) + 1) PROVE Tail(t)[i] = u[i]
    OBVIOUS
  <2>1. CASE i = 1
    BY <1>1, <1>2, <1>3, <1>5, <2>1
  <2>2. CASE i # 1
    <3>1. i - 1 \in 1 .. Len(s) /\ (i - 1) + 2 = i + 1 /\ (i - 1) + 1 = i
      BY <1>1, <2>2
    <3>2. t[i + 1] = s[i - 1] /\ u[i] = s[i - 1]
      BY <1>2, <1>3, <3>1
    <3> QED  BY <1>5, <3>2
  <2> QED  BY <2>1, <2>2
<1>7. Tail(t) = u
  BY <1>3, <1>5, <1>6, SeqEqual
<1> QED  BY <1>4, <1>7 DEF t, u

LEMMA PlansAreSteps == Arrival \in Seq(Todo) /\ Exclusive \in Seq(Todo) /\ "leave" \in Todo /\ "closeStays" \in Todo
BY DEF Arrival, Exclusive, Todo

\* A plan is followed to its end.
LEMMA PlansGoOn ==
  ASSUME NEW step \in Todo, NEW todo \in TodosAt(step), todo # <<>>
  PROVE  Head(todo) \in Todo /\ Tail(todo) \in TodosAt(Head(todo))
<1>1. CASE step = "closeStays"
  <2>1. todo \in {Move, Leaving, Departure}
    BY <1>1 DEF TodosAt
  <2>2. CASE todo = Move
    <3>1. Head(todo) = "leave" /\ Tail(todo) = Arrival
      BY <2>2, PlansAreSteps, OneAhead DEF Move
    <3> QED  BY <3>1 DEF Todo, TodosAt
  <2>3. CASE todo = Leaving
    <3>1. Head(todo) = "leave" /\ Tail(todo) = Exclusive
      BY <2>3, PlansAreSteps, OneAhead DEF Leaving
    <3> QED  BY <3>1 DEF Todo, TodosAt
  <2>4. CASE todo = Departure
    <3>1. Head(todo) = "dropFeed" /\ Tail(todo) = <<"deleteRows", "dropBoard", "hideActivity">>
      BY <2>4 DEF Departure
    <3> QED  BY <3>1 DEF Todo, TodosAt
  <2> QED  BY <2>1, <2>2, <2>3, <2>4
<1>2. CASE step = "leave"
  <2>1. todo \in {Arrival, Exclusive}
    BY <1>2 DEF TodosAt
  <2>2. CASE todo = Arrival
    <3>1. Head(todo) = "openStay" /\ Tail(todo) = <<"dropFeed", "deleteRows", "insertRow", "dropBoard", "showActivity">>
      BY <2>2 DEF Arrival
    <3> QED  BY <3>1 DEF Todo, TodosAt
  <2>3. CASE todo = Exclusive
    <3>1. Head(todo) = "deleteRows" /\ Tail(todo) = <<"insertRow", "dropBoard">>
      BY <2>3 DEF Exclusive
    <3> QED  BY <3>1 DEF Todo, TodosAt
  <2> QED  BY <2>1, <2>2, <2>3
<1>3. CASE step = "openStay"
  <2>1. todo \in {<<"dropFeed", "deleteRows", "insertRow", "dropBoard", "showActivity">>}
    BY <1>3 DEF TodosAt
  <2>2. CASE todo = <<"dropFeed", "deleteRows", "insertRow", "dropBoard", "showActivity">>
    <3>1. Head(todo) = "dropFeed" /\ Tail(todo) = <<"deleteRows", "insertRow", "dropBoard", "showActivity">>
      BY <2>2
    <3> QED  BY <3>1 DEF Todo, TodosAt
  <2> QED  BY <2>1, <2>2
<1>4. CASE step = "dropFeed"
  <2>1. todo \in {<<"deleteRows", "insertRow", "dropBoard", "showActivity">>, <<"deleteRows", "dropBoard", "hideActivity">>, <<>>}
    BY <1>4 DEF TodosAt
  <2>2. CASE todo = <<"deleteRows", "insertRow", "dropBoard", "showActivity">>
    <3>1. Head(todo) = "deleteRows" /\ Tail(todo) = <<"insertRow", "dropBoard", "showActivity">>
      BY <2>2
    <3> QED  BY <3>1 DEF Todo, TodosAt
  <2>3. CASE todo = <<"deleteRows", "dropBoard", "hideActivity">>
    <3>1. Head(todo) = "deleteRows" /\ Tail(todo) = <<"dropBoard", "hideActivity">>
      BY <2>3
    <3> QED  BY <3>1 DEF Todo, TodosAt
  <2> QED  BY <2>1, <2>2, <2>3
<1>5. CASE step = "deleteRows"
  <2>1. todo \in {<<"insertRow", "dropBoard", "showActivity">>, <<"insertRow", "dropBoard">>, <<"dropBoard", "hideActivity">>}
    BY <1>5 DEF TodosAt
  <2>2. CASE todo = <<"insertRow", "dropBoard", "showActivity">>
    <3>1. Head(todo) = "insertRow" /\ Tail(todo) = <<"dropBoard", "showActivity">>
      BY <2>2
    <3> QED  BY <3>1 DEF Todo, TodosAt
  <2>3. CASE todo = <<"insertRow", "dropBoard">>
    <3>1. Head(todo) = "insertRow" /\ Tail(todo) = <<"dropBoard">>
      BY <2>3
    <3> QED  BY <3>1 DEF Todo, TodosAt
  <2>4. CASE todo = <<"dropBoard", "hideActivity">>
    <3>1. Head(todo) = "dropBoard" /\ Tail(todo) = <<"hideActivity">>
      BY <2>4
    <3> QED  BY <3>1 DEF Todo, TodosAt
  <2> QED  BY <2>1, <2>2, <2>3, <2>4
<1>6. CASE step = "insertRow"
  <2>1. todo \in {<<"dropBoard", "showActivity">>, <<"dropBoard">>}
    BY <1>6 DEF TodosAt
  <2>2. CASE todo = <<"dropBoard", "showActivity">>
    <3>1. Head(todo) = "dropBoard" /\ Tail(todo) = <<"showActivity">>
      BY <2>2
    <3> QED  BY <3>1 DEF Todo, TodosAt
  <2>3. CASE todo = <<"dropBoard">>
    <3>1. Head(todo) = "dropBoard" /\ Tail(todo) = <<>>
      BY <2>3
    <3> QED  BY <3>1 DEF Todo, TodosAt
  <2> QED  BY <2>1, <2>2, <2>3
<1>7. CASE step = "dropBoard"
  <2>1. todo \in {<<"showActivity">>, <<>>, <<"hideActivity">>}
    BY <1>7 DEF TodosAt
  <2>2. CASE todo = <<"showActivity">>
    <3>1. Head(todo) = "showActivity" /\ Tail(todo) = <<>>
      BY <2>2
    <3> QED  BY <3>1 DEF Todo, TodosAt
  <2>3. CASE todo = <<"hideActivity">>
    <3>1. Head(todo) = "hideActivity" /\ Tail(todo) = <<>>
      BY <2>3
    <3> QED  BY <3>1 DEF Todo, TodosAt
  <2> QED  BY <2>1, <2>2, <2>3
<1>8. step # "showActivity"
  BY DEF TodosAt
<1>9. step # "hideActivity"
  BY DEF TodosAt
<1> QED  BY <1>1, <1>2, <1>3, <1>4, <1>5, <1>6, <1>7, <1>8, <1>9 DEF Todo

LEMMA VisitGoesOn ==
  ASSUME NEW step \in Todo, NEW work \in Visit, work.todo \in TodosAt(step)
  PROVE  HallHolds(NextOf(work.todo), WorkOf(work.todo, work))
<1>1. CASE work.todo = <<>>
  BY <1>1 DEF NextOf, WorkOf, HallHolds, Todo
<1>2. CASE work.todo # <<>>
  <2> DEFINE next == Head(work.todo)
             new == [work EXCEPT !.todo = Tail(work.todo)]
  <2>1. next \in Todo /\ Tail(work.todo) \in TodosAt(next)
    BY <1>2, PlansGoOn
  <2>2. new.todo = Tail(work.todo) /\ new \in Visit
    BY <2>1 DEF Visit
  <2>3. NextOf(work.todo) = next /\ WorkOf(work.todo, work) = new
    BY <1>2 DEF NextOf, WorkOf
  <2> HIDE DEF next, new
  <2> QED  BY <2>1, <2>2, <2>3 DEF HallHolds, Todo
<1> QED  BY <1>1, <1>2

\* What a check-in has to do: to leave where the player is, unless they are nowhere
\* else, and to arrive, unless they are here already.
Arriving(here) == IF here THEN Exclusive ELSE Arrival
PlanOf(elsewhere, here) ==
  IF ~elsewhere THEN Arriving(here) ELSE <<"closeStays", "leave">> \o Arriving(here)

StartOf(elsewhere, here) == IF elsewhere THEN "closeStays" ELSE IF here THEN "deleteRows" ELSE "openStay"
RestOf(elsewhere, here) ==
  IF elsewhere THEN (IF here THEN Leaving ELSE Move)
  ELSE IF here THEN <<"insertRow", "dropBoard">>
  ELSE <<"dropFeed", "deleteRows", "insertRow", "dropBoard", "showActivity">>

LEMMA PlansOfCheckIn ==
  ASSUME NEW elsewhere \in BOOLEAN, NEW here \in BOOLEAN
  PROVE  /\ PlanOf(elsewhere, here) # <<>>
         /\ Head(PlanOf(elsewhere, here)) = StartOf(elsewhere, here)
         /\ Tail(PlanOf(elsewhere, here)) = RestOf(elsewhere, here)
<1>1. CASE ~elsewhere
  <2>1. PlanOf(elsewhere, here) = IF here THEN Exclusive ELSE Arrival
    BY <1>1 DEF PlanOf, Arriving
  <2>2. /\ Exclusive # <<>> /\ Head(Exclusive) = "deleteRows"
        /\ Tail(Exclusive) = <<"insertRow", "dropBoard">>
    BY DEF Exclusive
  <2>3. /\ Arrival # <<>> /\ Head(Arrival) = "openStay"
        /\ Tail(Arrival) = <<"dropFeed", "deleteRows", "insertRow", "dropBoard", "showActivity">>
    BY DEF Arrival
  <2> QED  BY <1>1, <2>1, <2>2, <2>3 DEF StartOf, RestOf
<1>2. CASE elsewhere
  <2>1. PlanOf(elsewhere, here) = <<"closeStays", "leave">> \o Arriving(here) /\ Arriving(here) \in Seq(Todo)
    BY <1>2, PlansAreSteps DEF PlanOf, Arriving
  <2>2. /\ PlanOf(elsewhere, here) # <<>> /\ Head(PlanOf(elsewhere, here)) = "closeStays"
        /\ Tail(PlanOf(elsewhere, here)) = <<"leave">> \o Arriving(here)
    BY <2>1, PlansAreSteps, TwoAhead
  <2> QED  BY <1>2, <2>2 DEF StartOf, RestOf, Arriving, Leaving, Move
<1> QED  BY <1>1, <1>2

\* A visit that begins: what its request holds.
VisitOf(u, h, previous, todo) == [user |-> u, hall |-> h, previous |-> previous, n |-> 0, todo |-> todo]

LEMMA VisitBegins ==
  ASSUME NEW u \in Visitors, NEW h \in Nat, NEW previous \in SUBSET Nat, NEW step \in Todo, NEW todo \in TodosAt(step)
  PROVE  HallHolds(step, VisitOf(u, h, previous, todo))
<1>1. VisitOf(u, h, previous, todo) \in Visit
  BY DEF Visit, VisitOf
<1>2. VisitOf(u, h, previous, todo).todo = todo
  BY DEF VisitOf
<1>3. step # "insertHall" /\ step # "cacheBoard"
  BY DEF Todo
<1> QED  BY <1>1, <1>2, <1>3 DEF HallHolds

LEMMA WorkBegins ==
  ASSUME NEW u, NEW h, NEW previous, NEW todo, todo # <<>>
  PROVE  WorkOf(todo, Work(u, h, previous)) = VisitOf(u, h, previous, Tail(todo))
BY DEF WorkOf, Work, VisitOf

LEMMA ExclusivePlan ==
  /\ Exclusive # <<>> /\ Head(Exclusive) = "deleteRows"
  /\ Tail(Exclusive) = <<"insertRow", "dropBoard">>
BY DEF Exclusive

LEMMA DeparturePlan ==
  /\ <<"closeStays", "dropFeed", "deleteRows", "dropBoard", "hideActivity">> # <<>>
  /\ Head(<<"closeStays", "dropFeed", "deleteRows", "dropBoard", "hideActivity">>) = "closeStays"
  /\ Tail(<<"closeStays", "dropFeed", "deleteRows", "dropBoard", "hideActivity">>) = Departure
BY DEF Departure

LEMMA HallStep ==
  ASSUME HallInv, NEW w \in Workers, NEW step, NEW work, Moved(w, step, work), Moving',
         HallShapes', RowsApart', OnceOn(live'), HallHolds(step, work)
  PROVE  HallInv'
<1>1. \A v \in Workers : HallHolds(pc'[v], my'[v])
  BY DEF HallInv, Moved, Alone
<1> QED  BY <1>1 DEF HallInv

LEMMA HallHalls ==
  ASSUME HallShapes, NEW h \in DOMAIN halls
  PROVE  h \in Nat
BY DEF HallShapes

\* What each call holds first.
Begins(w, step, work) == Moved(w, step, work) /\ Moving' /\ HallHolds(step, work)

LEMMA CheckInBegins ==
  ASSUME HallInv, NEW w \in Workers, NEW u \in Visitors, NEW h \in DOMAIN halls, CheckIn(w, u, h)
  PROVE  LET away == Elsewhere(u, h) # {}
             here == OpenStays(u) \ Elsewhere(u, h) # {}
         IN  Begins(w, StartOf(away, here), VisitOf(u, h, Elsewhere(u, h), RestOf(away, here)))
<1> DEFINE previous == Elsewhere(u, h)
           away == previous # {}
           here == OpenStays(u) \ previous # {}
           plan == PlanOf(away, here)
<1>1. Do(w, plan, Work(u, h, previous))
  BY DEF CheckIn, PlanOf, Arriving
<1>2. h \in Nat /\ Moving /\ previous \in SUBSET Nat
  <2>1. DOMAIN stays \subseteq Nat
    BY DEF HallInv, HallShapes
  <2> QED  BY <2>1, HallHalls DEF HallInv, Elsewhere, OpenStays
<1>3. away \in BOOLEAN /\ here \in BOOLEAN
  OBVIOUS
<1> HIDE DEF previous, away, here
<1>4. plan # <<>> /\ Head(plan) = StartOf(away, here) /\ Tail(plan) = RestOf(away, here)
  BY <1>3, PlansOfCheckIn
<1>5. StartOf(away, here) \in Todo /\ RestOf(away, here) \in TodosAt(StartOf(away, here))
  BY <1>3 DEF StartOf, RestOf, Todo, TodosAt
<1> HIDE DEF plan
<1>6. Moved(w, NextOf(plan), WorkOf(plan, Work(u, h, previous))) /\ Moving'
  BY <1>1, <1>2, HallDoes
<1>7. NextOf(plan) = StartOf(away, here)
      /\ WorkOf(plan, Work(u, h, previous)) = VisitOf(u, h, previous, RestOf(away, here))
  BY <1>4, WorkBegins DEF NextOf
<1>8. HallHolds(StartOf(away, here), VisitOf(u, h, previous, RestOf(away, here)))
  BY <1>2, <1>5, VisitBegins
<1>9. Begins(w, StartOf(away, here), VisitOf(u, h, previous, RestOf(away, here)))
  BY <1>6, <1>7, <1>8 DEF Begins
<1> QED  BY <1>9 DEF previous, away, here

LEMMA CheckOutBegins ==
  ASSUME HallInv, NEW w \in Workers, NEW u \in Visitors, NEW h \in DOMAIN halls, CheckOut(w, u, h)
  PROVE  \E i \in OpenStays(u) : /\ stays[i].hall = h
                                      /\ Begins(w, "closeStays", VisitOf(u, h, {i}, Departure))
<1> DEFINE plan == <<"closeStays", "dropFeed", "deleteRows", "dropBoard", "hideActivity">>
<1>1. PICK i \in OpenStays(u) : stays[i].hall = h /\ Do(w, plan, Work(u, h, {i}))
  BY DEF CheckOut
<1>2. h \in Nat /\ Moving /\ {i} \in SUBSET Nat
  <2>1. DOMAIN stays \subseteq Nat
    BY DEF HallInv, HallShapes
  <2> QED  BY <1>1, <2>1, HallHalls DEF HallInv, OpenStays
<1>3. plan # <<>> /\ Head(plan) = "closeStays" /\ Tail(plan) = Departure
  BY DeparturePlan
<1>4. "closeStays" \in Todo /\ Departure \in TodosAt("closeStays")
  BY DEF Todo, TodosAt
<1> HIDE DEF plan
<1>5. Moved(w, NextOf(plan), WorkOf(plan, Work(u, h, {i}))) /\ Moving'
  BY <1>1, <1>2, HallDoes
<1>6. NextOf(plan) = "closeStays" /\ WorkOf(plan, Work(u, h, {i})) = VisitOf(u, h, {i}, Departure)
  BY <1>3, WorkBegins DEF NextOf
<1>7. HallHolds("closeStays", VisitOf(u, h, {i}, Departure))
  BY <1>2, <1>4, VisitBegins
<1> QED  BY <1>1, <1>5, <1>6, <1>7 DEF Begins

\* A check-in of the first version writes its row only.
LEMMA ExclusiveBegins ==
  ASSUME Moving, NEW w \in Workers, NEW u \in Visitors, NEW h \in Nat,
         Do(w, Exclusive, Work(u, h, {}))
  PROVE  Begins(w, "deleteRows", VisitOf(u, h, {}, <<"insertRow", "dropBoard">>))
<1>1. NextOf(Exclusive) = "deleteRows"
      /\ WorkOf(Exclusive, Work(u, h, {})) = VisitOf(u, h, {}, <<"insertRow", "dropBoard">>)
  BY ExclusivePlan, WorkBegins DEF NextOf
<1>2. "deleteRows" \in Todo /\ <<"insertRow", "dropBoard">> \in TodosAt("deleteRows")
  BY DEF Todo, TodosAt
<1>3. HallHolds("deleteRows", VisitOf(u, h, {}, <<"insertRow", "dropBoard">>))
  BY <1>2, VisitBegins
<1> QED  BY <1>1, <1>3, HallDoes DEF Begins

LEMMA HallContinues ==
  ASSUME HallInv, NEW w \in Workers, pc[w] \in Todo, Continue(w)
  PROVE  /\ my[w] \in Visit /\ my[w].todo \in TodosAt(pc[w])
         /\ Begins(w, NextOf(my[w].todo), WorkOf(my[w].todo, my[w]))
<1>1. my[w] \in Visit /\ my[w].todo \in TodosAt(pc[w]) /\ Moving
  BY DEF HallInv, HallHolds
<1>2. HallHolds(NextOf(my[w].todo), WorkOf(my[w].todo, my[w]))
  BY <1>1, VisitGoesOn
<1> QED  BY <1>1, <1>2, HallDoes DEF Continue, Begins

\* The steps that follow a plan.
Follows(w) ==
  \/ CloseStays(w) \/ Leave(w) \/ OpenStay(w) \/ DropFeed(w) \/ DeleteRows(w)
  \/ InsertRow(w) \/ DropBoard(w) \/ ShowActivity(w) \/ HideActivity(w)

LEMMA FollowsPlan ==
  ASSUME HallInv, NEW w \in Workers, Follows(w)
  PROVE  /\ pc[w] \in Todo /\ Continue(w)
         /\ my[w] \in Visit /\ my[w].todo \in TodosAt(pc[w])
         /\ Begins(w, NextOf(my[w].todo), WorkOf(my[w].todo, my[w]))
<1>1. pc[w] \in Todo /\ Continue(w)
  BY DEF Follows, Todo, At, CloseStays, Leave, OpenStay, DropFeed, DeleteRows,
         InsertRow, DropBoard, ShowActivity, HideActivity
<1> QED  BY <1>1, HallContinues

\* Rows that go, or come with the next number, stay apart.
LEMMA RowsStayApart ==
  ASSUME RowsApart, NEW u \in Visitors, NEW h \in Nat
  PROVE  /\ (made' = made /\ checkins' \subseteq checkins) => RowsApart'
         /\ (/\ made' = made + 1
             /\ checkins' = checkins \cup {[user |-> u, hall |-> h, made |-> made + 1, late |-> FALSE]})
              => RowsApart'
<1> DEFINE new == [user |-> u, hall |-> h, made |-> made + 1, late |-> FALSE]
           Rows(n) == [user : Visitors, hall : Nat, made : 1 .. n, late : BOOLEAN]
<1>0. made \in Nat /\ checkins \subseteq Rows(made)
  BY DEF RowsApart
<1>1. ASSUME made' = made, checkins' \subseteq checkins PROVE RowsApart'
  BY <1>1 DEF RowsApart
<1>2. ASSUME made' = made + 1, checkins' = checkins \cup {new} PROVE RowsApart'
  <2>1. /\ 1 .. made \subseteq 1 .. made' /\ made + 1 \in 1 .. made' /\ made' \in Nat
        /\ \A n \in 1 .. made : n # made + 1
    BY <1>0, <1>2
  <2>2. new \in Rows(made') /\ new.made = made + 1
    BY <2>1
  <2>3. \A c \in checkins : c \in Rows(made') /\ c.made \in 1 .. made
    BY <1>0, <2>1
  <2> HIDE DEF new
  <2>4. \A c, d \in checkins' : c.made = d.made => c = d
    <3>1. \A c \in checkins : c.made # new.made
      BY <2>1, <2>2, <2>3
    <3> QED  BY <1>2, <3>1 DEF RowsApart
  <2>5. checkins' \subseteq Rows(made')
    BY <1>2, <2>2, <2>3
  <2> QED  BY <2>1, <2>4, <2>5 DEF RowsApart
<1> QED  BY <1>1, <1>2

\* Marking a row late keeps its number, its user and its hall.
LEMMA LateRowsApart ==
  ASSUME RowsApart, NEW c \in checkins, made' = made,
         checkins' = (checkins \ {c}) \cup {[c EXCEPT !.late = TRUE]}
  PROVE  RowsApart'
<1> DEFINE new == [c EXCEPT !.late = TRUE]
<1>1. c \in [user : Visitors, hall : Nat, made : 1 .. made, late : BOOLEAN]
  BY DEF RowsApart
<1>2. new \in [user : Visitors, hall : Nat, made : 1 .. made, late : BOOLEAN] /\ new.made = c.made
  BY <1>1
<1>3. checkins' = (checkins \ {c}) \cup {new}
  OBVIOUS
<1> HIDE DEF new
<1> QED  BY <1>2, <1>3 DEF RowsApart

LEMMA PlansKeepShapes ==
  ASSUME HallInv, NEW w \in Workers, Follows(w)
  PROVE  HallShapes' /\ RowsApart' /\ OnceOn(live')
<1>0. /\ my[w] \in Visit /\ my[w].user \in Visitors /\ my[w].hall \in Nat
      /\ HallShapes /\ RowsApart /\ OnceOn(live)
  BY FollowsPlan DEF HallInv, Visit
<1>1. CASE CloseStays(w)
  <2>1. /\ stays' = [i \in DOMAIN stays |->
                       IF i \in my[w].previous THEN [stays[i] EXCEPT !.out = TRUE] ELSE stays[i]]
        /\ UNCHANGED <<hallScene, halls, checkins, made, live, activity, posts, feed>>
    BY <1>1 DEF CloseStays
  <2>2. stays' \in Seq(StayRow)
    <3>1. stays \in [1 .. Len(stays) -> StayRow] /\ Len(stays) \in Nat
      BY <1>0 DEF HallShapes
    <3>2. \A i \in DOMAIN stays : [stays[i] EXCEPT !.out = TRUE] \in StayRow /\ stays[i] \in StayRow
      BY <3>1 DEF StayRow
    <3>3. stays' \in [1 .. Len(stays) -> StayRow]
      BY <2>1, <3>1, <3>2
    <3> QED  BY <3>1, <3>3
  <2>3. Ids' = Ids
    BY <2>1 DEF Ids
  <2> QED  BY <1>0, <2>1, <2>2, <2>3, RowsStayApart DEF HallShapes
<1>2. CASE Leave(w)
  <2>1. /\ activity' = [activity EXCEPT ![my[w].user] = 0]
        /\ feed' = [h \in Ids |-> IF h \in {stays[i].hall : i \in my[w].previous} THEN "none" ELSE feed[h]]
        /\ UNCHANGED <<hallScene, halls, stays, checkins, made, live, posts>>
    BY <1>2 DEF Leave
  <2>2. Ids' = Ids
    BY <2>1 DEF Ids
  <2>3. activity' = [u \in Visitors |-> activity'[u]] /\ feed' = [h \in Ids |-> feed'[h]]
    BY <1>0, <2>1 DEF HallShapes
  <2> QED  BY <1>0, <2>1, <2>2, <2>3, RowsStayApart DEF HallShapes
<1>3. CASE OpenStay(w)
  <2>1. /\ stays' = Append(stays, NewStay(my[w].user, my[w].hall))
        /\ UNCHANGED <<hallScene, halls, checkins, made, live, activity, posts, feed>>
    BY <1>3 DEF OpenStay
  <2>2. NewStay(my[w].user, my[w].hall) \in StayRow
    BY <1>0 DEF NewStay, StayRow
  <2>3. stays' \in Seq(StayRow)
    BY <1>0, <2>1, <2>2, InsertedRow DEF HallShapes
  <2>4. Ids' = Ids
    BY <2>1 DEF Ids
  <2> QED  BY <1>0, <2>1, <2>3, <2>4, RowsStayApart DEF HallShapes
<1>4. CASE DropFeed(w)
  <2>1. /\ feed' = [feed EXCEPT ![my[w].hall] = "none"]
        /\ UNCHANGED <<hallScene, halls, stays, checkins, made, live, activity, posts>>
    BY <1>4 DEF DropFeed
  <2>2. Ids' = Ids
    BY <2>1 DEF Ids
  <2>3. feed' = [h \in Ids |-> feed'[h]]
    BY <1>0, <2>1 DEF HallShapes
  <2> QED  BY <1>0, <2>1, <2>2, <2>3, RowsStayApart DEF HallShapes
<1>5. CASE DeleteRows(w)
  <2>1. /\ checkins' = {c \in checkins : c.user # my[w].user}
        /\ UNCHANGED <<hallScene, halls, stays, made, live, activity, posts, feed>>
    BY <1>5 DEF DeleteRows
  <2>2. Ids' = Ids
    BY <2>1 DEF Ids
  <2>3. RowsApart'
    BY <1>0, <2>1, RowsStayApart
  <2> QED  BY <1>0, <2>1, <2>2, <2>3 DEF HallShapes
<1>6. CASE InsertRow(w)
  <2>1. /\ made' = made + 1
        /\ checkins' = checkins \cup {[user |-> my[w].user, hall |-> my[w].hall, made |-> made + 1, late |-> FALSE]}
        /\ UNCHANGED <<hallScene, halls, stays, live, activity, posts, feed>>
    BY <1>6 DEF InsertRow
  <2>2. Ids' = Ids
    BY <2>1 DEF Ids
  <2>3. RowsApart'
    BY <1>0, <2>1, RowsStayApart
  <2> QED  BY <1>0, <2>1, <2>2, <2>3 DEF HallShapes
<1>7. CASE DropBoard(w)
  <2>1. /\ live' = <<>>
        /\ UNCHANGED <<hallScene, halls, stays, checkins, made, activity, posts, feed>>
    BY <1>7 DEF DropBoard, DroppedBoard, NoBoard
  <2>2. Ids' = Ids
    BY <2>1 DEF Ids
  <2>3. OnceOn(live')
    BY <2>1 DEF OnceOn
  <2> QED  BY <1>0, <2>1, <2>2, <2>3, RowsStayApart DEF HallShapes
<1>8. CASE ShowActivity(w) \/ HideActivity(w)
  <2>1. /\ activity' = [activity EXCEPT ![my[w].user] = my[w].hall] \/ activity' = [activity EXCEPT ![my[w].user] = 0]
        /\ UNCHANGED <<hallScene, halls, stays, checkins, made, live, posts, feed>>
    BY <1>8 DEF ShowActivity, HideActivity
  <2>2. Ids' = Ids
    BY <2>1 DEF Ids
  <2>3. activity' = [u \in Visitors |-> activity'[u]]
    BY <1>0, <2>1 DEF HallShapes
  <2> QED  BY <1>0, <2>1, <2>2, <2>3, RowsStayApart DEF HallShapes
<1> QED  BY <1>1, <1>2, <1>3, <1>4, <1>5, <1>6, <1>7, <1>8 DEF Follows
-----------------------------------------------------------------------------
\* What a step that only moves a request, or no request, leaves alone.
RowsKept == UNCHANGED <<hallScene, halls, stays, checkins, made, activity, posts>>

LEMMA RowsGoApart == ASSUME RowsApart, made' = made, checkins' \subseteq checkins PROVE RowsApart'
BY DEF RowsApart

LEMMA RowsKeptApart ==
  ASSUME HallShapes, RowsApart, RowsKept, feed' = [h \in Ids |-> feed'[h]]
  PROVE  HallShapes' /\ RowsApart'
<1>1. Ids' = Ids
  BY DEF RowsKept, Ids
<1>2. HallShapes'
  BY <1>1 DEF HallShapes, RowsKept
<1>3. RowsApart'
  BY RowsGoApart DEF RowsKept
<1> QED  BY <1>2, <1>3

LEMMA HallsKept ==
  ASSUME HallInv, UNCHANGED hallsVars
  PROVE  HallShapes' /\ RowsApart' /\ OnceOn(live')
<1>1. RowsKept /\ feed' = feed /\ live' = live
  BY DEF RowsKept, hallsVars
<1>2. feed' = [h \in Ids |-> feed'[h]]
  BY <1>1 DEF HallInv, HallShapes
<1> QED  BY <1>1, <1>2, RowsKeptApart DEF HallInv

LEMMA HallBegins ==
  ASSUME HallInv, NEW w \in Workers, NEW step, NEW work, Begins(w, step, work), UNCHANGED hallsVars
  PROVE  HallInv'
BY HallStep, HallsKept DEF Begins

LEMMA HallAnswered == HallHolds("idle", NoWork)
BY DEF HallHolds, Todo

LEMMA CallsKeepCounting ==
  ASSUME HallInv, NEW w \in Workers, NEW u \in Visitors,
         \/ \E h \in DOMAIN halls : CheckIn(w, u, h) \/ CheckOut(w, u, h) \/ CheckInV1(w, u, h)
         \/ \E p \in Places : CreateHall(w, u, p) \/ CheckInAt(w, u, p)
  PROVE  HallInv'
<1>0. Moving /\ UNCHANGED hallsVars
  BY DEF HallInv, CheckIn, CheckOut, CheckInV1, CreateHall, CheckInAt
<1>1. ASSUME NEW h \in DOMAIN halls, CheckIn(w, u, h) PROVE HallInv'
  BY <1>0, <1>1, CheckInBegins, HallBegins
<1>2. ASSUME NEW h \in DOMAIN halls, CheckOut(w, u, h) PROVE HallInv'
  BY <1>0, <1>2, CheckOutBegins, HallBegins
<1>3. ASSUME NEW h \in DOMAIN halls, Do(w, Exclusive, Work(u, h, {})) PROVE HallInv'
  <2>1. h \in Nat
    BY HallHalls DEF HallInv
  <2> QED  BY <1>0, <1>3, <2>1, ExclusiveBegins, HallBegins
<1>4. ASSUME NEW p \in Places, NEW todo \in {<<>>, Exclusive},
             Await(w, "insertHall", [place |-> p, todo |-> todo, user |-> u])
      PROVE  HallInv'
  <2> DEFINE work == [place |-> p, todo |-> todo, user |-> u]
  <2>1. work.place = p /\ work.todo = todo /\ work.user = u
    OBVIOUS
  <2> HIDE DEF work
  <2>2. HallHolds("insertHall", work)
    BY <2>1 DEF HallHolds, Todo
  <2>3. Moved(w, "insertHall", work) /\ Moving'
    BY <1>0, <1>4, HallAwaits DEF work
  <2> QED  BY <1>0, <2>2, <2>3, HallBegins DEF Begins
<1>5. ASSUME NEW h \in DOMAIN halls, CheckInV1(w, u, h) PROVE HallInv'
  BY <1>3, <1>5 DEF CheckInV1
<1>6. ASSUME NEW p \in Places, CreateHall(w, u, p) PROVE HallInv'
  BY <1>4, <1>6 DEF CreateHall
<1>7. ASSUME NEW p \in Places, CheckInAt(w, u, p) PROVE HallInv'
  BY <1>3, <1>4, <1>7 DEF CheckInAt
<1> QED  BY <1>1, <1>2, <1>5, <1>6, <1>7

\* The new hall is the last; whoever checks in there is counted in it next.
LEMMA InsertHallKeepsCounting ==
  ASSUME HallInv, NEW w \in Workers, InsertHall(w)
  PROVE  HallInv'
<1> DEFINE place == my[w].place
           todo == my[w].todo
           user == my[w].user
           hall == Len(halls) + 1
<1>1. /\ place \in Places /\ user \in Visitors /\ todo \in {<<>>, Exclusive}
      /\ HallShapes /\ RowsApart /\ OnceOn(live) /\ Moving
  BY DEF InsertHall, At, HallInv, HallHolds
<1>2. /\ halls' = Append(halls, place) /\ Do(w, todo, Work(user, hall, {}))
      /\ UNCHANGED <<hallScene, stays, checkins, made, live, activity, posts, feed>>
  BY DEF InsertHall
<1>3. HallShapes'
  <2>1. halls' \in Seq(Places)
    BY <1>1, <1>2, InsertedRow DEF HallShapes
  <2>2. Ids' = Ids
    BY <1>2 DEF Ids
  <2> QED  BY <1>1, <1>2, <2>1, <2>2 DEF HallShapes
<1>4. RowsApart' /\ OnceOn(live')
  BY <1>1, <1>2, RowsStayApart
<1>5. hall \in Nat
  BY <1>1 DEF HallShapes
<1> HIDE DEF place, todo, user, hall
<1>6. CASE todo = <<>>
  <2>1. Moved(w, "idle", NoWork) /\ Moving'
    BY <1>1, <1>2, <1>6, HallAnswers DEF Do
  <2> QED  BY <1>3, <1>4, <2>1, HallAnswered, HallStep
<1>7. CASE todo = Exclusive
  <2>1. Begins(w, "deleteRows", VisitOf(user, hall, {}, <<"insertRow", "dropBoard">>))
    BY <1>1, <1>2, <1>5, <1>7, ExclusiveBegins
  <2> QED  BY <1>3, <1>4, <2>1, HallStep DEF Begins
<1> QED  BY <1>1, <1>6, <1>7

\* Only a board that is made from the rows is cached.
LEMMA BoardsKeepCounting ==
  ASSUME HallInv, NEW w \in Workers, ReadBoard(w) \/ CacheBoard(w)
  PROVE  HallInv'
<1>1. CASE ReadBoard(w)
  <2> DEFINE work == [board |-> Board, todo |-> <<>>]
  <2>1. OnceOn(Board)
    BY BoardCountsOnce DEF HallInv
  <2>2. work.board = Board
    OBVIOUS
  <2>3. Await(w, "cacheBoard", work) /\ UNCHANGED hallsVars /\ Moving
    BY <1>1 DEF ReadBoard, HallInv
  <2> HIDE DEF work
  <2>4. HallHolds("cacheBoard", work)
    BY <2>1, <2>2 DEF HallHolds, Todo
  <2> QED  BY <2>3, <2>4, HallAwaits, HallBegins DEF Begins
<1>2. CASE CacheBoard(w)
  <2>1. /\ live' = my[w].board /\ Answer(w) /\ RowsKept /\ feed' = feed /\ pc[w] = "cacheBoard"
    BY <1>2 DEF CacheBoard, At, RowsKept
  <2>2. OnceOn(live') /\ Moving /\ HallShapes /\ RowsApart
    BY <2>1 DEF HallInv, HallHolds
  <2>3. feed' = [h \in Ids |-> feed'[h]]
    BY <2>1, <2>2 DEF HallShapes
  <2> QED  BY <2>1, <2>2, <2>3, RowsKeptApart, HallAnswers, HallAnswered, HallStep
<1> QED  BY <1>1, <1>2

\* Posts, and what is cached of them.
LEMMA FeedsKeepCounting ==
  ASSUME HallInv, NEW w \in Workers, NEW h \in DOMAIN halls,
         \/ \E u \in Visitors : Post(w, u, h)
         \/ ReadFeed(w, h)
  PROVE  HallInv'
<1>0. Moving /\ HallShapes /\ RowsApart /\ OnceOn(live) /\ h \in Nat
  BY HallHalls DEF HallInv
<1>1. ASSUME NEW u \in Visitors, Post(w, u, h) PROVE HallInv'
  <2> DEFINE work == Work(u, h, {})
  <2>1. /\ posts' = [posts EXCEPT ![h] = @ + 1] /\ Await(w, "dropFeed", work)
        /\ UNCHANGED <<hallScene, halls, stays, checkins, made, live, activity, feed>>
    BY <1>1 DEF Post
  <2>2. Ids' = Ids
    BY <2>1 DEF Ids
  <2>3. posts' = [g \in Ids |-> posts'[g]]
    BY <1>0, <2>1 DEF HallShapes
  <2>4. HallShapes'
    BY <1>0, <2>1, <2>2, <2>3 DEF HallShapes
  <2>5. RowsApart' /\ OnceOn(live')
    BY <1>0, <2>1, RowsStayApart
  <2>6. work = VisitOf(u, h, {}, <<>>)
    BY DEF Work, VisitOf
  <2>7. HallHolds("dropFeed", work)
    BY <1>0, <2>6, VisitBegins DEF Todo, TodosAt
  <2> HIDE DEF work
  <2> QED  BY <1>0, <2>1, <2>4, <2>5, <2>7, HallAwaits, HallStep
<1>2. CASE ReadFeed(w, h)
  <2> DEFINE work == [hall |-> h, n |-> posts[h], todo |-> <<>>]
  <2>1. Await(w, "cacheFeed", work) /\ UNCHANGED hallsVars
    BY <1>2 DEF ReadFeed
  <2> HIDE DEF work
  <2>2. HallHolds("cacheFeed", work)
    BY DEF HallHolds, Todo
  <2> QED  BY <1>0, <2>1, <2>2, HallAwaits, HallBegins DEF Begins
<1> QED  BY <1>1, <1>2

LEMMA CachedFeedKeepsCounting ==
  ASSUME HallInv, NEW w \in Workers, CacheFeed(w)
  PROVE  HallInv'
<1>1. /\ feed' = [feed EXCEPT ![my[w].hall] = ToString(my[w].n)] /\ Answer(w)
      /\ RowsKept /\ live' = live /\ HallShapes /\ RowsApart /\ OnceOn(live) /\ Moving
  BY DEF CacheFeed, RowsKept, HallInv
<1>2. feed' = [g \in Ids |-> feed'[g]]
  BY <1>1 DEF HallShapes
<1> QED  BY <1>1, <1>2, RowsKeptApart, HallAnswers, HallAnswered, HallStep

\* Time, a hint and a request that is cut short.
LEMMA RestKeepsCounting ==
  ASSUME HallInv,
         \/ \E w \in Workers : Abort(w) /\ UNCHANGED hallsVars
         \/ \E w \in Workers : \E h \in DOMAIN halls : Hint(w, h)
         \/ \E c \in checkins : RowEnds(c)
         \/ BoardEnds
         \/ \E h \in DOMAIN halls : FeedEnds(h)
         \/ UNCHANGED allHallsVars
  PROVE  HallInv'
<1>0. Moving /\ HallShapes /\ RowsApart /\ OnceOn(live)
  BY DEF HallInv
<1>1. ASSUME NEW w \in Workers, Abort(w), UNCHANGED hallsVars PROVE HallInv'
  <2>1. Moved(w, "idle", NoWork) /\ Moving'
    BY <1>0, <1>1, HallAnswers DEF Abort
  <2> QED  BY <1>1, <2>1, HallAnswered, HallBegins DEF Begins
<1>2. ASSUME UNCHANGED <<pc, my>>, HallShapes', RowsApart', OnceOn(live') PROVE HallInv'
  BY <1>2 DEF HallInv, Moving
<1>3. ASSUME NEW h, feed' = [feed EXCEPT ![h] = feed'[h]], RowsKept, live' = live, UNCHANGED <<pc, my>>
      PROVE  HallInv'
  <2>1. feed' = [g \in Ids |-> feed'[g]]
    BY <1>0, <1>3 DEF HallShapes
  <2> QED  BY <1>0, <1>2, <1>3, <2>1, RowsKeptApart
<1>4. ASSUME NEW w \in Workers, NEW h \in DOMAIN halls, Hint(w, h) PROVE HallInv'
  <2>1. feed' = [feed EXCEPT ![h] = "list"] /\ RowsKept /\ live' = live /\ UNCHANGED <<pc, my>>
    BY <1>4 DEF Hint, RowsKept
  <2>2. feed' = [g \in Ids |-> feed'[g]]
    BY <1>0, <2>1 DEF HallShapes
  <2> QED  BY <1>0, <1>2, <2>1, <2>2, RowsKeptApart
<1>5. ASSUME NEW h \in DOMAIN halls, FeedEnds(h) PROVE HallInv'
  <2>1. feed' = [feed EXCEPT ![h] = "none"] /\ RowsKept /\ live' = live /\ UNCHANGED <<pc, my>>
    BY <1>5 DEF FeedEnds, requestVars, RowsKept
  <2>2. feed' = [g \in Ids |-> feed'[g]]
    BY <1>0, <2>1 DEF HallShapes
  <2> QED  BY <1>0, <1>2, <2>1, <2>2, RowsKeptApart
<1>6. CASE BoardEnds
  <2>1. live' = <<>> /\ RowsKept /\ feed' = feed /\ UNCHANGED <<pc, my>>
    BY <1>6 DEF BoardEnds, NoBoard, requestVars, RowsKept
  <2>2. OnceOn(live')
    BY <2>1 DEF OnceOn
  <2>3. feed' = [g \in Ids |-> feed'[g]]
    BY <1>0, <2>1 DEF HallShapes
  <2> QED  BY <1>0, <1>2, <2>1, <2>2, <2>3, RowsKeptApart
<1>7. ASSUME NEW c \in checkins, RowEnds(c) PROVE HallInv'
  <2>1. /\ checkins' = (checkins \ {c}) \cup {[c EXCEPT !.late = TRUE]}
        /\ UNCHANGED <<pc, my, hallScene, halls, stays, made, live, activity, posts, feed>>
    BY <1>7 DEF RowEnds, requestVars
  <2>2. Ids' = Ids
    BY <2>1 DEF Ids
  <2>3. HallShapes'
    BY <1>0, <2>1, <2>2 DEF HallShapes
  <2> QED  BY <1>0, <1>2, <2>1, <2>3, LateRowsApart
<1>8. CASE UNCHANGED allHallsVars
  <2>1. UNCHANGED <<pc, my>> /\ UNCHANGED hallsVars
    BY <1>8 DEF allHallsVars, requestVars
  <2> QED  BY <1>2, <2>1, HallsKept
<1> QED  BY <1>1, <1>4, <1>5, <1>6, <1>7, <1>8

LEMMA HallBeginsEmpty == ASSUME HallInit PROVE HallInv
<1>1. /\ hallScene \in HallScenes /\ halls = hallScene.seeded /\ stays = <<>> /\ checkins = {} /\ made = 0
      /\ live = <<>> /\ activity = [u \in Visitors |-> 0] /\ posts = [h \in Ids |-> 0]
      /\ feed = [h \in Ids |-> "none"] /\ ServeNothing(hallScene.irregular, hallScene.atOnce)
  BY DEF HallInit, NoBoard
<1>2. halls \in Seq(Places)
  BY <1>1, HallsAssumption
<1>3. Moving /\ \A w \in Workers : pc[w] = "idle"
  BY <1>1 DEF ServeNothing, Moving
<1>4. HallShapes /\ RowsApart /\ OnceOn(live)
  BY <1>1, <1>2 DEF HallShapes, RowsApart, OnceOn
<1>5. \A w \in Workers : HallHolds(pc[w], my[w])
  BY <1>3 DEF HallHolds, Todo
<1> QED  BY <1>3, <1>4, <1>5 DEF HallInv

\* Every step keeps the rows apart and what is counted.
LEMMA HallKeepsCounting == ASSUME HallInv, [HallNext]_allHallsVars PROVE HallInv'
<1>1. CASE UNCHANGED allHallsVars
  BY <1>1, RestKeepsCounting
<1>2. ASSUME NEW w \in Workers, HallServe(w) PROVE HallInv'
  <2>1. CASE Follows(w)
    BY <2>1, FollowsPlan, PlansKeepShapes, HallStep DEF Begins
  <2>2. CASE InsertHall(w)
    BY <2>2, InsertHallKeepsCounting
  <2>3. CASE CacheBoard(w)
    BY <2>3, BoardsKeepCounting
  <2>4. CASE CacheFeed(w)
    BY <2>4, CachedFeedKeepsCounting
  <2> QED  BY <1>2, <2>1, <2>2, <2>3, <2>4 DEF HallServe, Follows
<1>3. ASSUME NEW w \in Workers, NEW u \in Visitors, NEW h \in DOMAIN halls, Post(w, u, h) PROVE HallInv'
  BY <1>3, FeedsKeepCounting
<1>4. ASSUME NEW w \in Workers, NEW h \in DOMAIN halls, ReadFeed(w, h) PROVE HallInv'
  BY <1>4, FeedsKeepCounting
<1>5. ASSUME NEW w \in Workers, ReadBoard(w) PROVE HallInv'
  BY <1>5, BoardsKeepCounting
<1> QED  BY <1>1, <1>2, <1>3, <1>4, <1>5, CallsKeepCounting, RestKeepsCounting DEF HallNext

\* "One player counts in at most one hall" on every board that is cached
\* (Halls.CountedOnce), also while check-ins overlap, fail, or leave two rows.
THEOREM PlayersCountOnce == HallSpec => []CountedOnce
<1>1. HallInv => CountedOnce
  BY DEF HallInv, OnceOn, CountedOnce
<1>2. HallInit => HallInv
  BY HallBeginsEmpty
<1>3. HallInv /\ [HallNext]_allHallsVars => HallInv'
  BY HallKeepsCounting
<1> QED  BY <1>1, <1>2, <1>3, PTL DEF HallSpec
-----------------------------------------------------------------------------
(* Halls served in turn: what a request that is being served has done *)

NoStay(u) == OpenStays(u) = {}
Sole(u, h) == \E i \in DOMAIN stays : OpenStays(u) = {i} /\ stays[i].hall = h
RowsAt(u) == {c.hall : c \in {d \in checkins : d.user = u}}

\* The V2 rows, the V1 rows and the activity agree where a player is.
AtRest(u) ==
  \/ NoStay(u) /\ RowsAt(u) = {} /\ activity[u] = 0
  \/ \E h \in Nat : Sole(u, h) /\ RowsAt(u) = {h} /\ activity[u] = h

\* What holds of the player whose check-in or check-out is being served.
InVisit(step, u, h, previous, todo) ==
  CASE step = "closeStays" -> todo \in {Move, Departure} /\ previous = OpenStays(u)
    [] step = "leave" -> todo = Arrival /\ NoStay(u)
    [] step = "openStay" -> NoStay(u)
    [] step = "dropFeed" ->
         \/ todo = <<"deleteRows", "insertRow", "dropBoard", "showActivity">> /\ Sole(u, h)
         \/ todo = <<"deleteRows", "dropBoard", "hideActivity">> /\ NoStay(u)
         \/ todo = <<>> /\ AtRest(u)
    [] step = "deleteRows" ->
         \/ todo = <<"insertRow", "dropBoard", "showActivity">> /\ Sole(u, h)
         \/ todo = <<"insertRow", "dropBoard">> /\ Sole(u, h) /\ activity[u] = h
         \/ todo = <<"dropBoard", "hideActivity">> /\ NoStay(u)
    [] step = "insertRow" ->
         /\ Sole(u, h) /\ RowsAt(u) = {}
         /\ todo = <<"dropBoard", "showActivity">> \/ (todo = <<"dropBoard">> /\ activity[u] = h)
    [] step = "dropBoard" ->
         \/ todo = <<"showActivity">> /\ Sole(u, h) /\ RowsAt(u) = {h}
         \/ todo = <<"hideActivity">> /\ NoStay(u) /\ RowsAt(u) = {}
         \/ todo = <<>> /\ AtRest(u)
    [] step = "showActivity" -> Sole(u, h) /\ RowsAt(u) = {h}
    [] step = "hideActivity" -> NoStay(u) /\ RowsAt(u) = {}

PlaceTold(step, work) ==
  /\ \A u \in Visitors : IF step \in Todo /\ u = work.user
                      THEN InVisit(step, u, work.hall, work.previous, work.todo) ELSE AtRest(u)
  /\ step = "insertHall" => work.todo = <<>>

NoneLate == \A c \in checkins : ~c.late
BoardFresh == live # <<>> /\ NoneLate => live = Board
FeedFresh(h) == feed[h] \in {"none", "list", ToString(posts[h])}

\* What is cached, or will be, is what would be read; or it is dropped next.
CacheTold(step, work) ==
  /\ BoardFresh \/ step \in {"insertRow", "dropBoard"}
  /\ \A h \in Ids : FeedFresh(h) \/ (step = "dropFeed" /\ work.hall = h)
  /\ step = "cacheBoard" /\ NoneLate => work.board = Board
  /\ step = "cacheFeed" => work.n = posts[work.hall]

HallTold(step, work) == CacheTold(step, work) /\ ("inV1" \notin hallScene.calls => PlaceTold(step, work))

HallTurn == overlapped \in BOOLEAN /\ irregular \in BOOLEAN /\ InTurn

TurnInv ==
  /\ HallInv /\ HallTurn
  /\ Orderly => /\ Quiet => HallTold("idle", NoWork)
                /\ \A w \in Workers : pc[w] # "idle" => HallTold(pc[w], my[w])

\* What holds when nothing is served does not depend on what is held.
LEMMA NobodyTold ==
  ASSUME NEW a, NEW b, HallTold("idle", a)
  PROVE  HallTold("idle", b)
BY DEF HallTold, CacheTold, PlaceTold, Todo

\* A call finds the halls as they are when nothing is served.
LEMMA CallTells ==
  ASSUME TurnInv, HallInv', NEW w \in Workers, Arrive(w), Regular, NEW step, NEW work,
         Moved(w, step, work), HallTold("idle", NoWork) => HallTold(step, work)'
  PROVE  TurnInv'
<1>1. /\ overlapped' \in BOOLEAN /\ irregular' = irregular
      /\ ~overlapped' => ~overlapped /\ Quiet
      /\ pc[w] = "idle"
  BY DEF Arrive, Regular, TurnInv, HallTurn, Quiet
<1>2. HallTurn'
  BY <1>1 DEF TurnInv, HallTurn, InTurn, Moved, Alone, Quiet
<1>3. ASSUME Orderly' PROVE HallTold(step, work)' /\ \A v \in Workers \ {w} : pc'[v] = "idle"
  BY <1>1, <1>3 DEF TurnInv, Orderly, Quiet, Moved, Alone
<1>4. ASSUME Orderly', Quiet' PROVE HallTold("idle", NoWork)'
  <2>1. step = "idle"
    BY <1>4 DEF Quiet, Moved
  <2> QED  BY <1>3, <1>4, <2>1 DEF HallTold, CacheTold, PlaceTold, Todo
<1>5. ASSUME Orderly', NEW v \in Workers, pc'[v] # "idle" PROVE HallTold(pc[v], my[v])'
  <2>1. v = w /\ pc'[v] = step /\ my'[v] = work
    BY <1>3, <1>5 DEF Moved
  <2> QED  BY <1>3, <1>5, <2>1 DEF HallTold, CacheTold, PlaceTold
<1> QED  BY <1>2, <1>4, <1>5 DEF TurnInv

\* A request that is served in turn goes on from what it was told.
LEMMA ServeTells ==
  ASSUME TurnInv, HallInv', NEW w \in Workers, pc[w] # "idle", UNCHANGED <<overlapped, irregular>>,
         NEW step, NEW work, Moved(w, step, work), HallTold(pc[w], my[w]) => HallTold(step, work)'
  PROVE  TurnInv'
<1>1. HallTurn'
  BY DEF TurnInv, HallTurn, InTurn, Moved, Alone
<1>2. ASSUME Orderly' PROVE HallTold(step, work)' /\ \A v \in Workers \ {w} : pc'[v] = "idle"
  BY <1>2 DEF TurnInv, HallTurn, InTurn, Orderly, Moved, Alone
<1>3. ASSUME Orderly', Quiet' PROVE HallTold("idle", NoWork)'
  <2>1. step = "idle"
    BY <1>3 DEF Quiet, Moved
  <2> QED  BY <1>2, <1>3, <2>1 DEF HallTold, CacheTold, PlaceTold, Todo
<1>4. ASSUME Orderly', NEW v \in Workers, pc'[v] # "idle" PROVE HallTold(pc[v], my[v])'
  <2>1. v = w /\ pc'[v] = step /\ my'[v] = work
    BY <1>2, <1>4 DEF Moved
  <2> QED  BY <1>2, <1>4, <2>1 DEF HallTold, CacheTold, PlaceTold
<1> QED  BY <1>1, <1>3, <1>4 DEF TurnInv

\* A request that is cut short leaves what it has done, and nothing is claimed.
LEMMA CutShortTells ==
  ASSUME TurnInv, HallInv', NEW w \in Workers, Abort(w)
  PROVE  TurnInv'
<1>1. Moved(w, "idle", NoWork) /\ irregular' = TRUE /\ overlapped' = overlapped
  BY HallAnswers DEF Abort, Irregular, TurnInv, HallInv
<1>2. HallTurn'
  BY <1>1 DEF TurnInv, HallTurn, InTurn, Moved, Alone
<1> QED  BY <1>1, <1>2 DEF TurnInv, Orderly

\* Time passes between any two steps.
LEMMA TimeTells ==
  ASSUME TurnInv, HallInv', UNCHANGED <<pc, my, overlapped, irregular>>,
         ASSUME NEW step, NEW work, HallTold(step, work) PROVE HallTold(step, work)'
  PROVE  TurnInv'
<1>1. HallTurn'
  BY DEF TurnInv, HallTurn, InTurn
<1>2. ASSUME NEW step, NEW work PROVE HallTold(step, work) => HallTold(step, work)'
  OBVIOUS
<1>3. ASSUME NEW w \in Workers, HallTold(pc[w], my[w]) PROVE HallTold(pc[w], my[w])'
  <2>1. PICK step : step = pc[w]
    OBVIOUS
  <2>2. PICK work : work = my[w]
    OBVIOUS
  <2>3. HallTold(step, work)'
    BY <1>2, <1>3, <2>1, <2>2
  <2>4. pc'[w] = step /\ my'[w] = work
    BY <2>1, <2>2
  <2> QED  BY <2>3, <2>4 DEF HallTold, CacheTold, PlaceTold
<1>4. HallTold("idle", NoWork) => HallTold("idle", NoWork)'
  BY <1>2 DEF NoWork
<1> QED  BY <1>1, <1>3, <1>4 DEF TurnInv, Orderly, Quiet
-----------------------------------------------------------------------------
(* What is cached *)

\* The step after one that changes the rows changes them again, or drops the board.
LEMMA RowsThenBoard ==
  ASSUME NEW step, NEW todo \in TodosAt(step), step \in Todo
  PROVE  /\ step = "deleteRows" => NextOf(todo) \in {"insertRow", "dropBoard"}
         /\ step = "insertRow" => NextOf(todo) = "dropBoard"
         /\ NextOf(todo) \notin {"cacheBoard", "cacheFeed"}
<1>1. CASE step = "deleteRows"
  <2>1. todo \in {<<"insertRow", "dropBoard", "showActivity">>, <<"insertRow", "dropBoard">>, <<"dropBoard", "hideActivity">>}
    BY <1>1 DEF TodosAt
  <2> QED  BY <1>1, <2>1 DEF NextOf
<1>2. CASE step = "insertRow"
  <2>1. todo \in {<<"dropBoard", "showActivity">>, <<"dropBoard">>}
    BY <1>2 DEF TodosAt
  <2> QED  BY <1>2, <2>1 DEF NextOf
<1>3. NextOf(todo) \notin {"cacheBoard", "cacheFeed"}
  <2>1. CASE todo = <<>>
    BY <2>1 DEF NextOf
  <2>2. CASE todo # <<>>
    BY <2>2, PlansGoOn DEF NextOf, Todo
  <2> QED  BY <2>1, <2>2
<1> QED  BY <1>1, <1>2, <1>3

\* The board and what is late follow the rows; a feed is fresh if neither it nor
\* the posts change.
LEMMA CachesKept ==
  /\ (checkins' = checkins /\ live' = live) => (BoardFresh => BoardFresh')
  /\ \A h : (feed'[h] = feed[h] /\ posts'[h] = posts[h]) => (FeedFresh(h) => FeedFresh(h)')
  /\ checkins' = checkins => (NoneLate' <=> NoneLate) /\ Board' = Board
BY DEF BoardFresh, NoneLate, FeedFresh, Board, Counted, NewestRows

LEMMA FollowKeepsFresh ==
  ASSUME HallInv, NEW w \in Workers, Follows(w), NEW old, old = my[w], CacheTold(pc[w], my[w]),
         NEW step, NEW work, step = NextOf(old.todo)
  PROVE  CacheTold(step, work)'
<1>1. /\ pc[w] \in Todo /\ old.todo \in TodosAt(pc[w]) /\ HallShapes
  BY FollowsPlan DEF HallInv
<1>2. /\ pc[w] = "deleteRows" => step \in {"insertRow", "dropBoard"}
      /\ pc[w] = "insertRow" => step = "dropBoard"
      /\ step \notin {"cacheBoard", "cacheFeed"}
  BY <1>1, RowsThenBoard
<1>3. hallScene' = hallScene /\ posts' = posts /\ Ids' = Ids
  BY DEF Follows, CloseStays, Leave, OpenStay, DropFeed, DeleteRows,
         InsertRow, DropBoard, ShowActivity, HideActivity, Ids
<1>4. BoardFresh' \/ step \in {"insertRow", "dropBoard"}
  <2>1. CASE DeleteRows(w) \/ InsertRow(w)
    BY <1>2, <2>1 DEF DeleteRows, InsertRow, At
  <2>2. CASE DropBoard(w)
    BY <2>2 DEF DropBoard, DroppedBoard, NoBoard, BoardFresh
  <2>3. CASE \/ CloseStays(w) \/ Leave(w) \/ OpenStay(w) \/ DropFeed(w)
             \/ ShowActivity(w) \/ HideActivity(w)
    <3>1. pc[w] \notin {"insertRow", "dropBoard"} /\ checkins' = checkins /\ live' = live
      BY <2>3 DEF CloseStays, Leave, OpenStay, DropFeed, ShowActivity, HideActivity, At
    <3> QED  BY <3>1, CachesKept DEF CacheTold
  <2> QED  BY <2>1, <2>2, <2>3 DEF Follows
<1>5. ASSUME NEW h \in Ids PROVE FeedFresh(h)'
  <2>1. CASE Leave(w)
    <3>1. pc[w] = "leave" /\ (feed'[h] = "none" \/ feed'[h] = feed[h])
      BY <2>1 DEF Leave, At
    <3>2. FeedFresh(h)
      BY <3>1 DEF CacheTold
    <3> QED  BY <1>3, <3>1, <3>2 DEF FeedFresh
  <2>2. CASE DropFeed(w)
    <3>1. feed' = [feed EXCEPT ![old.hall] = "none"]
      BY <2>2 DEF DropFeed
    <3>2. feed'[h] = IF h = old.hall THEN "none" ELSE feed[h]
      BY <1>1, <3>1 DEF HallShapes
    <3>3. FeedFresh(h) \/ h = old.hall
      BY DEF CacheTold
    <3> QED  BY <1>3, <3>2, <3>3 DEF FeedFresh
  <2>3. CASE \/ CloseStays(w) \/ OpenStay(w) \/ DeleteRows(w) \/ InsertRow(w)
             \/ DropBoard(w) \/ ShowActivity(w) \/ HideActivity(w)
    <3>1. pc[w] # "dropFeed" /\ feed' = feed
      BY <2>3 DEF CloseStays, OpenStay, DeleteRows, InsertRow, DropBoard,
                  ShowActivity, HideActivity, At
    <3>2. FeedFresh(h)
      BY <3>1 DEF CacheTold
    <3> QED  BY <1>3, <3>1, <3>2, CachesKept
  <2> QED  BY <2>1, <2>2, <2>3 DEF Follows
<1> QED  BY <1>2, <1>3, <1>4, <1>5 DEF CacheTold

LEMMA NothingMoved ==
  ASSUME UNCHANGED hallsVars
  PROVE  /\ hallScene' = hallScene /\ Ids' = Ids /\ BoardFresh' = BoardFresh
         /\ NoneLate' = NoneLate /\ Board' = Board /\ posts' = posts
         /\ \A h : FeedFresh(h)' = FeedFresh(h)
         /\ \A u : AtRest(u)' = AtRest(u)
<1>1. UNCHANGED <<hallScene, halls, stays, checkins, made, live, activity, posts, feed>>
  BY DEF hallsVars
<1>2. Ids' = Ids /\ BoardFresh' = BoardFresh /\ NoneLate' = NoneLate /\ Board' = Board
  BY <1>1 DEF Ids, BoardFresh, NoneLate, Board, Counted, NewestRows
<1>3. \A h : FeedFresh(h)' = FeedFresh(h)
  BY <1>1 DEF FeedFresh
<1>4. \A u : AtRest(u)' = AtRest(u)
  BY <1>1 DEF AtRest, NoStay, Sole, RowsAt, OpenStays
<1> QED  BY <1>1, <1>2, <1>3, <1>4

\* A call that only reads: nothing is stale, and no caller's copy is.
LEMMA ReadsFresh ==
  ASSUME UNCHANGED hallsVars, CacheTold("idle", NoWork), NEW step, NEW work,
         step = "cacheBoard" => work.board = Board,
         step = "cacheFeed" => work.n = posts[work.hall]
  PROVE  CacheTold(step, work)'
BY NothingMoved DEF CacheTold

\* A post makes one feed stale, which is dropped next.
LEMMA PostTellsFeed ==
  ASSUME HallShapes, NEW w \in Workers, NEW u, NEW h, Post(w, u, h), CacheTold("idle", NoWork),
         NEW work, work = Work(u, h, {})
  PROVE  CacheTold("dropFeed", work)'
<1>1. /\ posts' = [posts EXCEPT ![h] = @ + 1] /\ work.hall = h
      /\ UNCHANGED <<hallScene, halls, stays, checkins, made, live, activity, feed>>
  BY DEF Post, Work
<1>2. Ids' = Ids
  BY <1>1 DEF Ids
<1>3. ASSUME NEW g \in Ids, g # h PROVE FeedFresh(g)'
  <2>1. posts'[g] = posts[g] /\ feed'[g] = feed[g]
    BY <1>1, <1>3 DEF HallShapes
  <2>2. FeedFresh(g)
    BY DEF CacheTold
  <2> QED  BY <2>1, <2>2, CachesKept
<1>4. BoardFresh'
  <2>1. checkins' = checkins /\ live' = live
    BY <1>1
  <2> QED  BY <2>1, CachesKept DEF CacheTold
<1> QED  BY <1>1, <1>2, <1>3, <1>4 DEF CacheTold

LEMMA CachesFromRows ==
  ASSUME HallShapes, NEW w \in Workers, CacheBoard(w) \/ CacheFeed(w), CacheTold(pc[w], my[w]),
         NEW work
  PROVE  CacheTold("idle", work)'
<1>1. CASE CacheBoard(w)
  <2>1. /\ pc[w] = "cacheBoard" /\ live' = my[w].board
        /\ UNCHANGED <<hallScene, checkins, posts, feed>>
    BY <1>1 DEF CacheBoard, At
  <2>2. BoardFresh'
    <3>1. NoneLate' = NoneLate /\ Board' = Board
      BY <2>1, CachesKept DEF NoneLate
    <3>2. NoneLate => live' = Board
      BY <2>1 DEF CacheTold
    <3> QED  BY <3>1, <3>2 DEF BoardFresh
  <2>3. Ids' = Ids /\ \A h \in Ids : FeedFresh(h)'
    <3>1. \A h \in Ids : FeedFresh(h)
      BY <2>1 DEF CacheTold
    <3> QED  BY <2>1, <3>1, CachesKept DEF Ids
  <2> QED  BY <2>2, <2>3 DEF CacheTold
<1>2. CASE CacheFeed(w)
  <2> DEFINE g == my[w].hall
  <2>1. /\ pc[w] = "cacheFeed" /\ feed' = [feed EXCEPT ![g] = ToString(my[w].n)]
        /\ UNCHANGED <<hallScene, checkins, posts, live>>
    BY <1>2 DEF CacheFeed, At
  <2>2. my[w].n = posts[g]
    BY <2>1 DEF CacheTold
  <2> HIDE DEF g
  <2>3. ASSUME NEW h \in Ids PROVE FeedFresh(h)'
    <3>1. feed'[h] = IF h = g THEN ToString(posts[g]) ELSE feed[h]
      BY <2>1, <2>2 DEF HallShapes
    <3>2. FeedFresh(h)
      BY <2>1 DEF CacheTold
    <3> QED  BY <2>1, <3>1, <3>2 DEF FeedFresh
  <2>4. Ids' = Ids
    BY <2>1 DEF Ids
  <2>5. BoardFresh'
    BY <2>1, CachesKept DEF CacheTold
  <2> QED  BY <2>3, <2>4, <2>5 DEF CacheTold
<1> QED  BY <1>1, <1>2

\* A row that ends, a board or a feed that ends, and a hint, at any step.
LEMMA TimeKeepsFresh ==
  ASSUME HallShapes, RowsApart,
         \/ \E c \in checkins : RowEnds(c)
         \/ BoardEnds
         \/ \E h \in DOMAIN halls : FeedEnds(h) \/ \E w \in Workers : Hint(w, h),
         NEW step, NEW work, CacheTold(step, work)
  PROVE  CacheTold(step, work)'
<1>1. ASSUME NEW c \in checkins, RowEnds(c) PROVE CacheTold(step, work)'
  <2> DEFINE new == [c EXCEPT !.late = TRUE]
  <2>1. checkins' = (checkins \ {c}) \cup {new} /\ UNCHANGED <<hallScene, posts, feed>>
    BY <1>1 DEF RowEnds
  <2>2. new.late = TRUE
    BY DEF RowsApart
  <2> HIDE DEF new
  <2>3. ~NoneLate'
    BY <2>1, <2>2 DEF NoneLate
  <2>4. Ids' = Ids
    BY <2>1 DEF Ids
  <2>5. \A h : FeedFresh(h) => FeedFresh(h)'
    BY <2>1, CachesKept
  <2> QED  BY <2>1, <2>3, <2>4, <2>5 DEF CacheTold, BoardFresh
<1>2. CASE BoardEnds
  <2>1. live' = <<>> /\ UNCHANGED <<hallScene, checkins, posts, feed>>
    BY <1>2 DEF BoardEnds, NoBoard
  <2>2. Ids' = Ids /\ BoardFresh'
    BY <2>1 DEF Ids, BoardFresh
  <2>3. \A h : FeedFresh(h) => FeedFresh(h)'
    BY <2>1, CachesKept
  <2>4. NoneLate' = NoneLate /\ Board' = Board
    BY <2>1, CachesKept DEF NoneLate
  <2> QED  BY <2>1, <2>2, <2>3, <2>4 DEF CacheTold
<1>3. ASSUME NEW g, NEW content \in {"none", "list"}, feed' = [feed EXCEPT ![g] = content],
             UNCHANGED <<hallScene, checkins, posts, live>>
      PROVE  CacheTold(step, work)'
  <2>1. Ids' = Ids /\ BoardFresh' = BoardFresh /\ NoneLate' = NoneLate /\ Board' = Board
    BY <1>3 DEF Ids, BoardFresh, NoneLate, Board, Counted, NewestRows
  <2>2. ASSUME NEW h \in Ids, FeedFresh(h) PROVE FeedFresh(h)'
    <3>1. feed'[h] = content \/ feed'[h] = feed[h]
      BY <1>3 DEF HallShapes
    <3> QED  BY <1>3, <2>2, <3>1 DEF FeedFresh
  <2> QED  BY <1>3, <2>1, <2>2 DEF CacheTold
<1>4. ASSUME NEW h \in DOMAIN halls, FeedEnds(h) PROVE CacheTold(step, work)'
  BY <1>3, <1>4 DEF FeedEnds
<1>5. ASSUME NEW h \in DOMAIN halls, NEW w \in Workers, Hint(w, h) PROVE CacheTold(step, work)'
  BY <1>3, <1>5 DEF Hint
<1> QED  BY <1>1, <1>2, <1>4, <1>5

\* A hall that is inserted changes no row, board or feed.
LEMMA HallKeepsFresh ==
  ASSUME NEW w \in Workers, InsertHall(w), CacheTold(pc[w], my[w]),
         NEW step, NEW work, step \notin {"cacheBoard", "cacheFeed"}
  PROVE  CacheTold(step, work)'
<1>1. pc[w] = "insertHall" /\ UNCHANGED <<hallScene, checkins, live, posts, feed>>
  BY DEF InsertHall, At
<1>2. Ids' = Ids /\ BoardFresh' = BoardFresh
  BY <1>1 DEF Ids, BoardFresh, NoneLate, Board, Counted, NewestRows
<1>3. \A h \in Ids : FeedFresh(h)'
  BY <1>1, CachesKept DEF CacheTold
<1> QED  BY <1>1, <1>2, <1>3 DEF CacheTold
-----------------------------------------------------------------------------
(* Where a player is *)

StaysKept(u) ==
  /\ OpenStays(u)' = OpenStays(u)
  /\ \A i \in OpenStays(u) : i \in DOMAIN stays' /\ stays'[i].hall = stays[i].hall

LEMMA KeptStays ==
  ASSUME NEW u, StaysKept(u)
  PROVE  (NoStay(u) => NoStay(u)') /\ \A h : Sole(u, h) => Sole(u, h)'
BY DEF StaysKept, NoStay, Sole

LEMMA KeptAtRest ==
  ASSUME NEW u, StaysKept(u), RowsAt(u)' = RowsAt(u), activity'[u] = activity[u], AtRest(u)
  PROVE  AtRest(u)'
BY KeptStays DEF AtRest

\* The rows of both versions that a step leaves alone.
LEMMA SameStays ==
  ASSUME stays' = stays, NEW u
  PROVE  StaysKept(u)
BY DEF StaysKept, OpenStays

LEMMA SameRows ==
  ASSUME checkins' = checkins, NEW u
  PROVE  RowsAt(u)' = RowsAt(u)
BY DEF RowsAt

\* Closing a user's open stays: they have none, and the others theirs.
LEMMA ClosesStays ==
  ASSUME HallShapes, NEW u, NEW previous, previous = OpenStays(u),
         stays' = [i \in DOMAIN stays |-> IF i \in previous THEN [stays[i] EXCEPT !.out = TRUE] ELSE stays[i]]
  PROVE  NoStay(u)' /\ \A v : v # u => StaysKept(v)
<1>1. \A i \in DOMAIN stays : stays[i] \in StayRow
  BY DEF HallShapes
<1>2. \A i \in DOMAIN stays :
        /\ stays'[i].user = stays[i].user /\ stays'[i].hall = stays[i].hall
        /\ i \in previous => stays'[i].out = TRUE
        /\ i \notin previous => stays'[i].out = stays[i].out
  <2> SUFFICES ASSUME NEW i \in DOMAIN stays
               PROVE  /\ stays'[i].user = stays[i].user /\ stays'[i].hall = stays[i].hall
                      /\ i \in previous => stays'[i].out = TRUE
                      /\ i \notin previous => stays'[i].out = stays[i].out
    OBVIOUS
  <2>1. stays[i] \in StayRow /\ stays'[i] = IF i \in previous THEN [stays[i] EXCEPT !.out = TRUE] ELSE stays[i]
    BY <1>1
  <2> QED  BY <2>1 DEF StayRow
<1>3. DOMAIN stays' = DOMAIN stays
  OBVIOUS
<1>4. NoStay(u)'
  BY <1>2, <1>3 DEF NoStay, OpenStays
<1>5. ASSUME NEW v, v # u PROVE StaysKept(v)
  BY <1>2, <1>3, <1>5 DEF StaysKept, OpenStays
<1> QED  BY <1>4, <1>5

\* Opening one where there is none: it is the only one.
LEMMA OpensStay ==
  ASSUME HallShapes, NEW u \in Visitors, NEW h \in Nat, NoStay(u), stays' = Append(stays, NewStay(u, h))
  PROVE  Sole(u, h)' /\ \A v : v # u => StaysKept(v)
<1> DEFINE n == Len(stays) + 1
           new == NewStay(u, h)
<1>1. new \in StayRow /\ new.user = u /\ new.hall = h /\ new.out = FALSE
  BY DEF NewStay, StayRow
<1> HIDE DEF new
<1>2. /\ DOMAIN stays' = DOMAIN stays \cup {n} /\ stays'[n] = new /\ n \notin DOMAIN stays
      /\ \A i \in DOMAIN stays : stays'[i] = stays[i]
  <2>1. /\ DOMAIN stays = 1 .. Len(stays) /\ DOMAIN stays' = 1 .. n /\ Len(stays) \in Nat
        /\ \A i \in DOMAIN stays : stays'[i] = stays[i]
        /\ stays'[n] = new
    BY <1>1, InsertedRow DEF HallShapes, new
  <2> QED  BY <2>1
<1> HIDE DEF n
<1>3. OpenStays(u)' = {n}
  <2>1. \A i \in DOMAIN stays : ~(stays[i].user = u /\ ~stays[i].out)
    BY DEF NoStay, OpenStays
  <2> QED  BY <1>1, <1>2, <2>1 DEF OpenStays
<1>4. Sole(u, h)'
  BY <1>1, <1>2, <1>3 DEF Sole
<1>5. ASSUME NEW v, v # u PROVE StaysKept(v)
  BY <1>1, <1>2, <1>5 DEF StaysKept, OpenStays
<1> QED  BY <1>4, <1>5

\* A user's rows of the first version are deleted, and then there is one.
LEMMA DeletesRows ==
  ASSUME NEW u, checkins' = {c \in checkins : c.user # u}
  PROVE  RowsAt(u)' = {} /\ \A v : v # u => RowsAt(v)' = RowsAt(v)
BY DEF RowsAt

LEMMA InsertsRow ==
  ASSUME NEW u, NEW h, NEW n, RowsAt(u) = {},
         checkins' = checkins \cup {[user |-> u, hall |-> h, made |-> n, late |-> FALSE]}
  PROVE  RowsAt(u)' = {h} /\ \A v : v # u => RowsAt(v)' = RowsAt(v)
<1> DEFINE new == [user |-> u, hall |-> h, made |-> n, late |-> FALSE]
<1>1. new.user = u /\ new.hall = h /\ checkins' = checkins \cup {new}
  OBVIOUS
<1> HIDE DEF new
<1>2. RowsAt(u)' = {h}
  BY <1>1 DEF RowsAt
<1>3. ASSUME NEW v, v # u PROVE RowsAt(v)' = RowsAt(v)
  BY <1>1, <1>3 DEF RowsAt
<1> QED  BY <1>2, <1>3

\* A row that ends is still a row.
LEMMA EndsRow ==
  ASSUME RowsApart, NEW c \in checkins, checkins' = (checkins \ {c}) \cup {[c EXCEPT !.late = TRUE]}, NEW u
  PROVE  RowsAt(u)' = RowsAt(u)
<1> DEFINE new == [c EXCEPT !.late = TRUE]
<1>1. c \in [user : Visitors, hall : Nat, made : 1 .. made, late : BOOLEAN]
  BY DEF RowsApart
<1>2. new.user = c.user /\ new.hall = c.hall /\ checkins' = (checkins \ {c}) \cup {new}
  BY <1>1
<1> HIDE DEF new
<1> QED  BY <1>2 DEF RowsAt

\* The player being served goes from one step of the plan to the next.
LEMMA HandGoesOn ==
  ASSUME HallInv, NEW w \in Workers, Follows(w), NEW u \in Visitors, NEW h \in Nat, NEW previous, NEW todo,
         u = my[w].user, h = my[w].hall, previous = my[w].previous, todo = my[w].todo,
         InVisit(pc[w], u, h, previous, todo)
  PROVE  IF todo = <<>> THEN AtRest(u)' ELSE InVisit(Head(todo), u, h, previous, Tail(todo))'
<1>0. HallShapes /\ RowsApart /\ StaysKept(u) \in BOOLEAN
  BY DEF HallInv, StaysKept
<1>1. CASE CloseStays(w)
  <2>1. /\ pc[w] = "closeStays"
        /\ stays' = [i \in DOMAIN stays |-> IF i \in previous THEN [stays[i] EXCEPT !.out = TRUE] ELSE stays[i]]
    BY <1>1 DEF CloseStays, At
  <2>2. todo \in {Move, Departure} /\ previous = OpenStays(u)
    BY <2>1 DEF InVisit
  <2>3. NoStay(u)'
    BY <1>0, <2>1, <2>2, ClosesStays
  <2>4. CASE todo = Move
    <3>1. todo # <<>> /\ Head(todo) = "leave" /\ Tail(todo) = Arrival
      BY <2>4, PlansAreSteps, OneAhead DEF Move
    <3> QED  BY <2>3, <3>1 DEF InVisit
  <2>5. CASE todo = Departure
    <3>1. todo # <<>> /\ Head(todo) = "dropFeed" /\ Tail(todo) = <<"deleteRows", "dropBoard", "hideActivity">>
      BY <2>5 DEF Departure
    <3> QED  BY <2>3, <3>1 DEF InVisit
  <2> QED  BY <2>2, <2>4, <2>5
<1>2. CASE Leave(w)
  <2>1. pc[w] = "leave" /\ stays' = stays
    BY <1>2 DEF Leave, At
  <2>2. todo = Arrival /\ NoStay(u)
    BY <2>1 DEF InVisit
  <2>3. todo # <<>> /\ Head(todo) = "openStay"
    BY <2>2 DEF Arrival
  <2>4. NoStay(u)'
    BY <2>1, <2>2, SameStays, KeptStays
  <2> QED  BY <2>3, <2>4 DEF InVisit
<1>3. CASE OpenStay(w)
  <2>1. pc[w] = "openStay" /\ stays' = Append(stays, NewStay(u, h))
    BY <1>3 DEF OpenStay, At
  <2>2. todo = <<"dropFeed", "deleteRows", "insertRow", "dropBoard", "showActivity">> /\ NoStay(u)
    BY <2>1, FollowsPlan DEF InVisit, TodosAt
  <2>3. todo # <<>> /\ Head(todo) = "dropFeed" /\ Tail(todo) = <<"deleteRows", "insertRow", "dropBoard", "showActivity">>
    BY <2>2
  <2>4. Sole(u, h)'
    BY <1>0, <2>1, <2>2, OpensStay
  <2> QED  BY <2>3, <2>4 DEF InVisit
<1>4. CASE DropFeed(w)
  <2>1. pc[w] = "dropFeed" /\ UNCHANGED <<stays, checkins, activity>>
    BY <1>4 DEF DropFeed, At
  <2>2. /\ Sole(u, h) => Sole(u, h)'
        /\ NoStay(u) => NoStay(u)'
        /\ AtRest(u) => AtRest(u)'
    BY <2>1, SameStays, SameRows, KeptStays, KeptAtRest
  <2>3. CASE todo = <<"deleteRows", "insertRow", "dropBoard", "showActivity">> /\ Sole(u, h)
    <3>1. todo # <<>> /\ Head(todo) = "deleteRows" /\ Tail(todo) = <<"insertRow", "dropBoard", "showActivity">>
      BY <2>3
    <3> QED  BY <2>2, <2>3, <3>1 DEF InVisit
  <2>4. CASE todo = <<"deleteRows", "dropBoard", "hideActivity">> /\ NoStay(u)
    <3>1. todo # <<>> /\ Head(todo) = "deleteRows" /\ Tail(todo) = <<"dropBoard", "hideActivity">>
      BY <2>4
    <3> QED  BY <2>2, <2>4, <3>1 DEF InVisit
  <2>5. CASE todo = <<>> /\ AtRest(u)
    BY <2>2, <2>5
  <2> QED  BY <2>1, <2>3, <2>4, <2>5 DEF InVisit
<1>5. CASE DeleteRows(w)
  <2>1. /\ pc[w] = "deleteRows" /\ checkins' = {c \in checkins : c.user # u}
        /\ UNCHANGED <<stays, activity>>
    BY <1>5 DEF DeleteRows, At
  <2>2. /\ Sole(u, h) => Sole(u, h)'
        /\ NoStay(u) => NoStay(u)'
        /\ RowsAt(u)' = {}
    BY <2>1, SameStays, KeptStays, DeletesRows
  <2>3. CASE todo = <<"insertRow", "dropBoard", "showActivity">> /\ Sole(u, h)
    <3>1. todo # <<>> /\ Head(todo) = "insertRow" /\ Tail(todo) = <<"dropBoard", "showActivity">>
      BY <2>3
    <3> QED  BY <2>2, <2>3, <3>1 DEF InVisit
  <2>4. CASE todo = <<"insertRow", "dropBoard">> /\ Sole(u, h) /\ activity[u] = h
    <3>1. todo # <<>> /\ Head(todo) = "insertRow" /\ Tail(todo) = <<"dropBoard">> /\ activity'[u] = h
      BY <2>1, <2>4
    <3> QED  BY <2>2, <2>4, <3>1 DEF InVisit
  <2>5. CASE todo = <<"dropBoard", "hideActivity">> /\ NoStay(u)
    <3>1. todo # <<>> /\ Head(todo) = "dropBoard" /\ Tail(todo) = <<"hideActivity">>
      BY <2>5
    <3> QED  BY <2>2, <2>5, <3>1 DEF InVisit
  <2> QED  BY <2>1, <2>3, <2>4, <2>5 DEF InVisit
<1>6. CASE InsertRow(w)
  <2>1. /\ pc[w] = "insertRow"
        /\ checkins' = checkins \cup {[user |-> u, hall |-> h, made |-> made + 1, late |-> FALSE]}
        /\ UNCHANGED <<stays, activity>>
    BY <1>6 DEF InsertRow, At
  <2>2. /\ Sole(u, h) /\ RowsAt(u) = {}
        /\ todo = <<"dropBoard", "showActivity">> \/ (todo = <<"dropBoard">> /\ activity[u] = h)
    BY <2>1 DEF InVisit
  <2>3. Sole(u, h)' /\ RowsAt(u)' = {h}
    BY <2>1, <2>2, SameStays, KeptStays, InsertsRow
  <2>4. CASE todo = <<"dropBoard", "showActivity">>
    <3>1. todo # <<>> /\ Head(todo) = "dropBoard" /\ Tail(todo) = <<"showActivity">>
      BY <2>4
    <3> QED  BY <2>3, <3>1 DEF InVisit
  <2>5. CASE todo = <<"dropBoard">> /\ activity[u] = h
    <3>1. todo # <<>> /\ Head(todo) = "dropBoard" /\ Tail(todo) = <<>> /\ activity'[u] = h
      BY <2>1, <2>5
    <3>2. AtRest(u)'
      BY <2>3, <3>1 DEF AtRest
    <3> QED  BY <3>1, <3>2 DEF InVisit
  <2> QED  BY <2>2, <2>4, <2>5
<1>7. CASE DropBoard(w)
  <2>1. pc[w] = "dropBoard" /\ UNCHANGED <<stays, checkins, activity>>
    BY <1>7 DEF DropBoard, At
  <2>2. /\ Sole(u, h) => Sole(u, h)'
        /\ NoStay(u) => NoStay(u)'
        /\ AtRest(u) => AtRest(u)'
        /\ RowsAt(u)' = RowsAt(u)
    BY <2>1, SameStays, SameRows, KeptStays, KeptAtRest
  <2>3. CASE todo = <<"showActivity">> /\ Sole(u, h) /\ RowsAt(u) = {h}
    <3>1. todo # <<>> /\ Head(todo) = "showActivity"
      BY <2>3
    <3> QED  BY <2>2, <2>3, <3>1 DEF InVisit
  <2>4. CASE todo = <<"hideActivity">> /\ NoStay(u) /\ RowsAt(u) = {}
    <3>1. todo # <<>> /\ Head(todo) = "hideActivity"
      BY <2>4
    <3> QED  BY <2>2, <2>4, <3>1 DEF InVisit
  <2>5. CASE todo = <<>> /\ AtRest(u)
    BY <2>2, <2>5
  <2> QED  BY <2>1, <2>3, <2>4, <2>5 DEF InVisit
<1>8. CASE ShowActivity(w)
  <2>1. pc[w] = "showActivity" /\ UNCHANGED <<stays, checkins>> /\ activity' = [activity EXCEPT ![u] = h]
    BY <1>8 DEF ShowActivity, At
  <2>2. todo = <<>> /\ Sole(u, h) /\ RowsAt(u) = {h}
    BY <2>1, FollowsPlan DEF InVisit, TodosAt
  <2>3. activity'[u] = h
    BY <1>0, <2>1 DEF HallShapes
  <2>4. Sole(u, h)' /\ RowsAt(u)' = {h}
    BY <2>1, <2>2, SameStays, SameRows, KeptStays
  <2> QED  BY <2>2, <2>3, <2>4 DEF AtRest
<1>9. CASE HideActivity(w)
  <2>1. pc[w] = "hideActivity" /\ UNCHANGED <<stays, checkins>> /\ activity' = [activity EXCEPT ![u] = 0]
    BY <1>9 DEF HideActivity, At
  <2>2. todo = <<>> /\ NoStay(u) /\ RowsAt(u) = {}
    BY <2>1, FollowsPlan DEF InVisit, TodosAt
  <2>3. activity'[u] = 0
    BY <1>0, <2>1 DEF HallShapes
  <2>4. NoStay(u)' /\ RowsAt(u)' = {}
    BY <2>1, <2>2, SameStays, SameRows, KeptStays
  <2> QED  BY <2>2, <2>3, <2>4 DEF AtRest
<1> QED  BY <1>1, <1>2, <1>3, <1>4, <1>5, <1>6, <1>7, <1>8, <1>9 DEF Follows

\* The others stay where they are.
LEMMA OthersAtRest ==
  ASSUME HallInv, NEW w \in Workers, Follows(w), NEW u \in Visitors, u = my[w].user,
         InVisit(pc[w], u, my[w].hall, my[w].previous, my[w].todo),
         NEW v, v # u, v \in Visitors, AtRest(v)
  PROVE  AtRest(v)'
<1>0. HallShapes /\ my[w].hall \in Nat
  BY FollowsPlan DEF HallInv, Visit
<1>1. StaysKept(v)
  <2>1. CASE CloseStays(w)
    <3>1. PICK previous : previous = my[w].previous
      OBVIOUS
    <3>2. /\ pc[w] = "closeStays"
          /\ stays' = [i \in DOMAIN stays |-> IF i \in previous THEN [stays[i] EXCEPT !.out = TRUE] ELSE stays[i]]
      BY <2>1, <3>1 DEF CloseStays, At
    <3>3. previous = OpenStays(u)
      BY <3>1, <3>2 DEF InVisit
    <3> QED  BY <1>0, <3>2, <3>3, ClosesStays
  <2>2. CASE OpenStay(w)
    <3>1. PICK h \in Nat : h = my[w].hall
      BY <1>0
    <3>2. pc[w] = "openStay" /\ stays' = Append(stays, NewStay(u, h))
      BY <2>2, <3>1 DEF OpenStay, At
    <3>3. NoStay(u)
      BY <3>2 DEF InVisit
    <3> QED  BY <1>0, <3>2, <3>3, OpensStay
  <2>3. CASE \/ Leave(w) \/ DropFeed(w) \/ DeleteRows(w) \/ InsertRow(w)
             \/ DropBoard(w) \/ ShowActivity(w) \/ HideActivity(w)
    <3>1. stays' = stays
      BY <2>3 DEF Leave, DropFeed, DeleteRows, InsertRow, DropBoard,
                  ShowActivity, HideActivity
    <3> QED  BY <3>1, SameStays
  <2> QED  BY <2>1, <2>2, <2>3 DEF Follows
<1>2. RowsAt(v)' = RowsAt(v)
  <2>1. CASE DeleteRows(w)
    <3>1. checkins' = {c \in checkins : c.user # u}
      BY <2>1 DEF DeleteRows
    <3> QED  BY <3>1, DeletesRows
  <2>2. CASE InsertRow(w)
    <3>1. PICK h, n : h = my[w].hall /\ n = made + 1
      OBVIOUS
    <3>2. /\ pc[w] = "insertRow"
          /\ checkins' = checkins \cup {[user |-> u, hall |-> h, made |-> n, late |-> FALSE]}
      BY <2>2, <3>1 DEF InsertRow, At
    <3>3. RowsAt(u) = {}
      BY <3>2 DEF InVisit
    <3> QED  BY <3>2, <3>3, InsertsRow
  <2>3. CASE \/ CloseStays(w) \/ Leave(w) \/ OpenStay(w) \/ DropFeed(w)
             \/ DropBoard(w) \/ ShowActivity(w) \/ HideActivity(w)
    <3>1. checkins' = checkins
      BY <2>3 DEF CloseStays, Leave, OpenStay, DropFeed, DropBoard,
                  ShowActivity, HideActivity
    <3> QED  BY <3>1, SameRows
  <2> QED  BY <2>1, <2>2, <2>3 DEF Follows
<1>3. activity'[v] = activity[v]
  <2>1. \/ activity' = activity
        \/ activity' = [activity EXCEPT ![u] = 0]
        \/ activity' = [activity EXCEPT ![u] = my[w].hall]
    BY DEF Follows, CloseStays, Leave, OpenStay, DropFeed, DeleteRows,
           InsertRow, DropBoard, ShowActivity, HideActivity
  <2> QED  BY <1>0, <2>1 DEF HallShapes
<1> QED  BY <1>1, <1>2, <1>3, KeptAtRest

LEMMA WorkKeeps ==
  ASSUME NEW old \in Visit, old.todo # <<>>
  PROVE  /\ WorkOf(old.todo, old).user = old.user /\ WorkOf(old.todo, old).hall = old.hall
         /\ WorkOf(old.todo, old).previous = old.previous /\ WorkOf(old.todo, old).todo = Tail(old.todo)
BY DEF WorkOf, Visit

\* The step after this one finds every player where it expects them.
LEMMA FollowKeepsPlace ==
  ASSUME HallInv, NEW w \in Workers, Follows(w), PlaceTold(pc[w], my[w]),
         NEW old, old = my[w], NEW step, step = NextOf(old.todo), NEW work, work = WorkOf(old.todo, old)
  PROVE  PlaceTold(step, work)'
<1>1. /\ pc[w] \in Todo /\ old \in Visit /\ old.todo \in TodosAt(pc[w])
      /\ old.user \in Visitors /\ old.hall \in Nat
  BY FollowsPlan DEF Visit
<1>2. InVisit(pc[w], old.user, old.hall, old.previous, old.todo)
  BY <1>1 DEF PlaceTold
<1>3. ASSUME NEW v \in Visitors, v # old.user PROVE AtRest(v)'
  <2>1. AtRest(v)
    BY <1>1, <1>3 DEF PlaceTold
  <2> QED  BY <1>1, <1>2, <1>3, <2>1, OthersAtRest
<1>4. IF old.todo = <<>> THEN AtRest(old.user)'
      ELSE InVisit(Head(old.todo), old.user, old.hall, old.previous, Tail(old.todo))'
  BY <1>1, <1>2, HandGoesOn
<1>5. CASE old.todo = <<>>
  <2>1. step = "idle" /\ \A v \in Visitors : AtRest(v)'
    BY <1>3, <1>4, <1>5 DEF NextOf
  <2> QED  BY <2>1 DEF PlaceTold, Todo
<1>6. CASE old.todo # <<>>
  <2>1. /\ step = Head(old.todo) /\ step \in Todo
        /\ work.user = old.user /\ work.hall = old.hall /\ work.previous = old.previous /\ work.todo = Tail(old.todo)
    BY <1>1, <1>6, PlansGoOn, WorkKeeps DEF NextOf
  <2>2. InVisit(step, work.user, work.hall, work.previous, work.todo)'
    BY <1>4, <1>6, <2>1
  <2>3. step # "insertHall"
    BY <2>1 DEF Todo
  <2> QED  BY <1>3, <2>1, <2>2, <2>3 DEF PlaceTold
<1> QED  BY <1>5, <1>6

LEMMA FollowsTells ==
  ASSUME TurnInv, HallInv', NEW w \in Workers, Follows(w)
  PROVE  TurnInv'
<1>1. PICK old : old = my[w]
  OBVIOUS
<1>2. PICK step, work : step = NextOf(old.todo) /\ work = WorkOf(old.todo, old)
  OBVIOUS
<1>3. Moved(w, step, work) /\ pc[w] \in Todo
  BY <1>1, <1>2, FollowsPlan DEF TurnInv, Begins
<1>4. hallScene' = hallScene /\ UNCHANGED <<overlapped, irregular>>
  BY DEF Follows, CloseStays, Leave, OpenStay, DropFeed, DeleteRows,
         InsertRow, DropBoard, ShowActivity, HideActivity, At
<1>5. CacheTold(pc[w], my[w]) => CacheTold(step, work)'
  BY <1>1, <1>2, FollowKeepsFresh DEF TurnInv
<1>6. PlaceTold(pc[w], my[w]) => PlaceTold(step, work)'
  BY <1>1, <1>2, FollowKeepsPlace DEF TurnInv
<1>7. HallTold(pc[w], my[w]) => HallTold(step, work)'
  BY <1>4, <1>5, <1>6 DEF HallTold
<1>8. pc[w] # "idle"
  BY <1>3 DEF Todo
<1> QED  BY <1>3, <1>4, <1>7, <1>8, ServeTells

LEMMA HandKept ==
  ASSUME UNCHANGED <<stays, activity>>, NEW step \in Todo, NEW u, RowsAt(u)' = RowsAt(u),
         NEW h, NEW previous, NEW todo, InVisit(step, u, h, previous, todo)
  PROVE  InVisit(step, u, h, previous, todo)'
<1>1. OpenStays(u)' = OpenStays(u) /\ activity'[u] = activity[u]
  BY DEF OpenStays
<1>2. NoStay(u)' = NoStay(u) /\ Sole(u, h)' = Sole(u, h)
  BY <1>1 DEF NoStay, Sole
<1>3. AtRest(u) => AtRest(u)'
  BY SameStays, KeptAtRest
<1>4. CASE step = "closeStays"
  BY <1>1, <1>4 DEF InVisit
<1>5. CASE step \in {"leave", "openStay"}
  BY <1>2, <1>5 DEF InVisit
<1>6. CASE step \in {"dropFeed", "deleteRows"}
  BY <1>1, <1>2, <1>3, <1>6 DEF InVisit
<1>7. CASE step \in {"insertRow", "dropBoard"}
  BY <1>1, <1>2, <1>3, <1>7 DEF InVisit
<1>8. CASE step \in {"showActivity", "hideActivity"}
  BY <1>1, <1>2, <1>8 DEF InVisit
<1> QED  BY <1>4, <1>5, <1>6, <1>7, <1>8 DEF Todo

\* A call that changes nothing yet, but takes what it has read with it.
LEMMA CallOnlyTells ==
  ASSUME TurnInv, HallInv', NEW w \in Workers, Arrive(w), Regular, UNCHANGED hallsVars,
         NEW step, NEW work, Moved(w, step, work),
         CacheTold("idle", NoWork) =>
           /\ step = "cacheBoard" => work.board = Board
           /\ step = "cacheFeed" => work.n = posts[work.hall],
         "inV1" \notin hallScene.calls /\ (\A u \in Visitors : AtRest(u)) => PlaceTold(step, work)
  PROVE  TurnInv'
<1>1. CacheTold("idle", NoWork) => CacheTold(step, work)'
  BY ReadsFresh
<1>2. hallScene' = hallScene
  BY NothingMoved
<1>3. PlaceTold(step, work) => PlaceTold(step, work)'
  <2>1. UNCHANGED <<stays, checkins, activity>>
    BY DEF hallsVars
  <2>2. \A u \in Visitors : AtRest(u) => AtRest(u)'
    BY NothingMoved
  <2>3. ASSUME step \in Todo, InVisit(step, work.user, work.hall, work.previous, work.todo)
        PROVE  InVisit(step, work.user, work.hall, work.previous, work.todo)'
    BY <2>1, <2>3, SameRows, HandKept
  <2> QED  BY <2>2, <2>3 DEF PlaceTold
<1>4. PlaceTold("idle", NoWork) => \A u \in Visitors : AtRest(u)
  BY DEF PlaceTold, Todo
<1>5. HallTold("idle", NoWork) => HallTold(step, work)'
  BY <1>1, <1>2, <1>3, <1>4 DEF HallTold
<1> QED  BY <1>5, CallTells

\* A player who is at rest is nowhere, here or in one other hall.
LEMMA CheckInTells ==
  ASSUME TurnInv, HallInv', NEW w \in Workers, NEW u \in Visitors, NEW h \in DOMAIN halls, CheckIn(w, u, h)
  PROVE  TurnInv'
<1>0. h \in Nat /\ Arrive(w) /\ Regular /\ UNCHANGED hallsVars
  BY HallHalls DEF TurnInv, HallInv, CheckIn, HallCall
<1> DEFINE away == Elsewhere(u, h) # {}
           here == OpenStays(u) \ Elsewhere(u, h) # {}
<1>1. Begins(w, StartOf(away, here), VisitOf(u, h, Elsewhere(u, h), RestOf(away, here)))
  BY CheckInBegins DEF TurnInv
<1>2. PICK step, work : step = StartOf(away, here) /\ work = VisitOf(u, h, Elsewhere(u, h), RestOf(away, here))
  OBVIOUS
<1>3. /\ work.user = u /\ work.hall = h /\ work.previous = Elsewhere(u, h) /\ work.todo = RestOf(away, here)
      /\ step \in {"closeStays", "deleteRows", "openStay"}
  BY <1>2 DEF VisitOf, StartOf
<1>4. ASSUME \A v \in Visitors : AtRest(v) PROVE PlaceTold(step, work)
  <2>1. CASE NoStay(u)
    <3>1. ~away /\ ~here
      BY <2>1 DEF NoStay, Elsewhere
    <3>2. step = "openStay"
      BY <1>2, <3>1 DEF StartOf
    <3>3. InVisit(step, u, work.hall, work.previous, work.todo)
      BY <2>1, <3>2 DEF InVisit
    <3> QED  BY <1>3, <1>4, <3>2, <3>3 DEF PlaceTold, Todo
  <2>2. ASSUME Sole(u, h), activity[u] = h PROVE PlaceTold(step, work)
    <3>1. ~away /\ here
      BY <2>2 DEF Sole, Elsewhere
    <3>2. step = "deleteRows" /\ work.todo = <<"insertRow", "dropBoard">>
      BY <1>2, <1>3, <3>1 DEF StartOf, RestOf
    <3>3. InVisit(step, u, work.hall, work.previous, work.todo)
      BY <1>3, <2>2, <3>2 DEF InVisit
    <3> QED  BY <1>3, <1>4, <3>2, <3>3 DEF PlaceTold, Todo
  <2>3. ASSUME NEW g \in Nat, g # h, Sole(u, g) PROVE PlaceTold(step, work)
    <3>1. away /\ ~here /\ Elsewhere(u, h) = OpenStays(u)
      BY <2>3 DEF Sole, Elsewhere
    <3>2. step = "closeStays" /\ work.todo = Move
      BY <1>2, <1>3, <3>1 DEF StartOf, RestOf
    <3>3. InVisit(step, u, work.hall, work.previous, work.todo)
      BY <1>3, <3>1, <3>2 DEF InVisit
    <3> QED  BY <1>3, <1>4, <3>2, <3>3 DEF PlaceTold, Todo
  <2> QED  BY <1>0, <1>4, <2>1, <2>2, <2>3 DEF AtRest
<1>5. Moved(w, step, work)
  BY <1>1, <1>2 DEF Begins
<1>6. step \notin {"cacheBoard", "cacheFeed"}
  BY <1>3
<1> HIDE DEF away, here
<1> QED  BY <1>0, <1>4, <1>5, <1>6, CallOnlyTells

LEMMA CheckOutTells ==
  ASSUME TurnInv, HallInv', NEW w \in Workers, NEW u \in Visitors, NEW h \in DOMAIN halls, CheckOut(w, u, h)
  PROVE  TurnInv'
<1>0. h \in Nat /\ Arrive(w) /\ Regular /\ UNCHANGED hallsVars
  BY HallHalls DEF TurnInv, HallInv, CheckOut, HallCall
<1>1. PICK i \in OpenStays(u) : stays[i].hall = h /\ Begins(w, "closeStays", VisitOf(u, h, {i}, Departure))
  BY CheckOutBegins DEF TurnInv
<1>2. PICK work : work = VisitOf(u, h, {i}, Departure)
  OBVIOUS
<1>3. work.user = u /\ work.hall = h /\ work.previous = {i} /\ work.todo = Departure
  BY <1>2 DEF VisitOf
<1>4. ASSUME \A v \in Visitors : AtRest(v) PROVE PlaceTold("closeStays", work)
  <2>1. OpenStays(u) = {i}
    BY <1>1, <1>4 DEF AtRest, NoStay, Sole
  <2>2. InVisit("closeStays", u, work.hall, work.previous, work.todo)
    BY <1>3, <2>1 DEF InVisit
  <2> QED  BY <1>3, <1>4, <2>2 DEF PlaceTold, Todo
<1>5. Moved(w, "closeStays", work)
  BY <1>1, <1>2 DEF Begins
<1> QED  BY <1>0, <1>4, <1>5, CallOnlyTells

\* Calls of the first version are in scenes that do not claim one place.
LEMMA FirstVersionTells ==
  ASSUME TurnInv, HallInv', NEW w \in Workers, NEW u \in Visitors,
         \/ \E h \in DOMAIN halls : CheckInV1(w, u, h)
         \/ \E p \in Places : CreateHall(w, u, p) \/ CheckInAt(w, u, p)
  PROVE  TurnInv'
<1>0. /\ Arrive(w) /\ Regular /\ UNCHANGED hallsVars /\ Moving
      /\ \A h \in DOMAIN halls : h \in Nat
  BY HallHalls DEF TurnInv, HallInv, CheckInV1, CreateHall, CheckInAt, HallCall
<1>1. ASSUME "inV1" \in hallScene.calls, NEW h \in DOMAIN halls, Do(w, Exclusive, Work(u, h, {}))
      PROVE  TurnInv'
  <2>1. PICK work : work = VisitOf(u, h, {}, <<"insertRow", "dropBoard">>)
    OBVIOUS
  <2>2. Moved(w, "deleteRows", work)
    BY <1>0, <1>1, <2>1, ExclusiveBegins DEF Begins
  <2> QED  BY <1>0, <1>1, <2>2, CallOnlyTells
<1>2. ASSUME NEW p \in Places, NEW todo, todo = <<>> \/ "inV1" \in hallScene.calls,
             Await(w, "insertHall", [place |-> p, todo |-> todo, user |-> u])
      PROVE  TurnInv'
  <2>1. PICK work : work = [place |-> p, todo |-> todo, user |-> u]
    OBVIOUS
  <2>2. Moved(w, "insertHall", work) /\ work.todo = todo
    BY <1>0, <1>2, <2>1, HallAwaits
  <2>3. "inV1" \notin hallScene.calls /\ (\A v \in Visitors : AtRest(v)) => PlaceTold("insertHall", work)
    BY <1>2, <2>2 DEF PlaceTold, Todo
  <2> QED  BY <1>0, <2>2, <2>3, CallOnlyTells
<1>3. ASSUME NEW h \in DOMAIN halls, CheckInV1(w, u, h) PROVE TurnInv'
  BY <1>1, <1>3 DEF CheckInV1, HallCall
<1>4. ASSUME NEW p \in Places, CreateHall(w, u, p) PROVE TurnInv'
  BY <1>2, <1>4 DEF CreateHall
<1>5. ASSUME NEW p \in Places, CheckInAt(w, u, p) PROVE TurnInv'
  BY <1>1, <1>2, <1>5 DEF CheckInAt
<1> QED  BY <1>3, <1>4, <1>5

LEMMA InsertHallTells ==
  ASSUME TurnInv, HallInv', NEW w \in Workers, InsertHall(w)
  PROVE  TurnInv'
<1>1. /\ pc[w] = "insertHall" /\ UNCHANGED <<overlapped, irregular, hallScene, stays, checkins, activity>>
      /\ Do(w, my[w].todo, Work(my[w].user, Len(halls) + 1, {})) /\ Moving
      /\ my[w].todo \in {<<>>, Exclusive}
  BY DEF InsertHall, At, TurnInv, HallInv, HallHolds
<1>2. PICK todo, base : todo = my[w].todo /\ base = Work(my[w].user, Len(halls) + 1, {})
  OBVIOUS
<1>3. PICK step, work : step = NextOf(todo) /\ work = WorkOf(todo, base)
  OBVIOUS
<1>4. Moved(w, step, work)
  BY <1>1, <1>2, <1>3, HallDoes
<1>5. /\ todo = <<>> => step = "idle"
      /\ step \in {"idle", "deleteRows"}
  BY <1>1, <1>2, <1>3, ExclusivePlan DEF NextOf
<1>6. CacheTold(pc[w], my[w]) => CacheTold(step, work)'
  BY <1>5, HallKeepsFresh
<1>7. PlaceTold(pc[w], my[w]) => PlaceTold(step, work)'
  <2> SUFFICES ASSUME PlaceTold(pc[w], my[w]) PROVE PlaceTold(step, work)'
    OBVIOUS
  <2>1. step = "idle" /\ \A u \in Visitors : AtRest(u)
    BY <1>1, <1>2, <1>5 DEF PlaceTold, Todo
  <2>2. \A u \in Visitors : AtRest(u)'
    <3> TAKE u \in Visitors
    <3> QED  BY <1>1, <2>1, SameStays, SameRows, KeptAtRest
  <2> QED  BY <2>1, <2>2 DEF PlaceTold, Todo
<1>8. HallTold(pc[w], my[w]) => HallTold(step, work)'
  BY <1>1, <1>6, <1>7 DEF HallTold
<1> QED  BY <1>1, <1>4, <1>8, ServeTells

\* What is read for the board, or for a feed, and what is cached then.
LEMMA ReadsTell ==
  ASSUME TurnInv, HallInv', NEW w \in Workers,
         ReadBoard(w) \/ \E h \in DOMAIN halls : ReadFeed(w, h)
  PROVE  TurnInv'
<1>0. Arrive(w) /\ Regular /\ UNCHANGED hallsVars /\ Moving
  BY DEF TurnInv, HallInv, ReadBoard, ReadFeed, HallCall
<1>1. ASSUME NEW step \in {"cacheBoard", "cacheFeed"}, NEW work, \A u \in Visitors : AtRest(u)
      PROVE  PlaceTold(step, work)
  BY <1>1 DEF PlaceTold, Todo
<1>2. CASE ReadBoard(w)
  <2>1. PICK work : work = [board |-> Board, todo |-> <<>>]
    OBVIOUS
  <2>2. Moved(w, "cacheBoard", work) /\ work.board = Board
    BY <1>0, <1>2, <2>1, HallAwaits DEF ReadBoard
  <2> QED  BY <1>0, <1>1, <2>2, CallOnlyTells
<1>3. ASSUME NEW h \in DOMAIN halls, ReadFeed(w, h) PROVE TurnInv'
  <2>1. PICK work : work = [hall |-> h, n |-> posts[h], todo |-> <<>>]
    OBVIOUS
  <2>2. Moved(w, "cacheFeed", work) /\ work.n = posts[work.hall]
    BY <1>0, <1>3, <2>1, HallAwaits DEF ReadFeed
  <2> QED  BY <1>0, <1>1, <2>2, CallOnlyTells
<1> QED  BY <1>2, <1>3

LEMMA CachesTell ==
  ASSUME TurnInv, HallInv', NEW w \in Workers, CacheBoard(w) \/ CacheFeed(w)
  PROVE  TurnInv'
<1>1. /\ pc[w] \in {"cacheBoard", "cacheFeed"} /\ Moved(w, "idle", NoWork)
      /\ UNCHANGED <<overlapped, irregular, hallScene, stays, checkins, activity>>
  BY HallAnswers DEF TurnInv, HallInv, CacheBoard, CacheFeed, At
<1>2. PICK work : work = NoWork
  OBVIOUS
<1>3. CacheTold(pc[w], my[w]) => CacheTold("idle", work)'
  BY CachesFromRows DEF TurnInv, HallInv
<1>4. PlaceTold(pc[w], my[w]) => PlaceTold("idle", work)'
  <2> SUFFICES ASSUME PlaceTold(pc[w], my[w]) PROVE PlaceTold("idle", work)'
    OBVIOUS
  <2>1. \A u \in Visitors : AtRest(u)
    BY <1>1 DEF PlaceTold, Todo
  <2>2. \A u \in Visitors : AtRest(u)'
    <3> TAKE u \in Visitors
    <3> QED  BY <1>1, <2>1, SameStays, SameRows, KeptAtRest
  <2> QED  BY <2>2 DEF PlaceTold, Todo
<1>5. HallTold(pc[w], my[w]) => HallTold("idle", work)'
  BY <1>1, <1>3, <1>4 DEF HallTold
<1>6. pc[w] # "idle"
  BY <1>1
<1> QED  BY <1>1, <1>2, <1>5, <1>6, ServeTells

LEMMA PostTells ==
  ASSUME TurnInv, HallInv', NEW w \in Workers, NEW u \in Visitors, NEW h \in DOMAIN halls, Post(w, u, h)
  PROVE  TurnInv'
<1>1. PICK work : work = Work(u, h, {})
  OBVIOUS
<1>2. /\ Arrive(w) /\ Regular /\ Moved(w, "dropFeed", work)
      /\ UNCHANGED <<hallScene, stays, checkins, activity>>
      /\ work.user = u /\ work.todo = <<>>
  BY <1>1, HallAwaits DEF TurnInv, HallInv, Post, HallCall, Work
<1>3. CacheTold("idle", NoWork) => CacheTold("dropFeed", work)'
  BY <1>1, PostTellsFeed DEF TurnInv, HallInv
<1>4. PlaceTold("idle", NoWork) => PlaceTold("dropFeed", work)'
  <2> SUFFICES ASSUME PlaceTold("idle", NoWork) PROVE PlaceTold("dropFeed", work)'
    OBVIOUS
  <2>1. \A v \in Visitors : AtRest(v)
    BY DEF PlaceTold, Todo
  <2>2. \A v \in Visitors : AtRest(v)'
    <3> TAKE v \in Visitors
    <3> QED  BY <1>2, <2>1, SameStays, SameRows, KeptAtRest
  <2>3. InVisit("dropFeed", u, work.hall, work.previous, work.todo)'
    BY <1>2, <2>2 DEF InVisit
  <2> QED  BY <1>2, <2>2, <2>3 DEF PlaceTold
<1>5. HallTold("idle", NoWork) => HallTold("dropFeed", work)'
  BY <1>2, <1>3, <1>4 DEF HallTold
<1> QED  BY <1>2, <1>5, CallTells

\* Time moves nobody: a row that ends is still a row.
LEMMA TimeKeepsPlace ==
  ASSUME RowsApart,
         \/ \E c \in checkins : RowEnds(c)
         \/ BoardEnds
         \/ \E h \in DOMAIN halls : FeedEnds(h) \/ \E w \in Workers : Hint(w, h),
         NEW step, NEW work, PlaceTold(step, work)
  PROVE  PlaceTold(step, work)'
<1>1. UNCHANGED <<stays, activity>>
  BY DEF RowEnds, BoardEnds, FeedEnds, Hint
<1>2. ASSUME NEW u PROVE RowsAt(u)' = RowsAt(u)
  <2>1. ASSUME NEW c \in checkins, RowEnds(c) PROVE RowsAt(u)' = RowsAt(u)
    BY <2>1, EndsRow DEF RowEnds
  <2>2. CASE checkins' = checkins
    BY <2>2, SameRows
  <2> QED  BY <2>1, <2>2 DEF BoardEnds, FeedEnds, Hint
<1>3. ASSUME NEW u \in Visitors, AtRest(u) PROVE AtRest(u)'
  BY <1>1, <1>2, <1>3, SameStays, KeptAtRest
<1>4. ASSUME step \in Todo, InVisit(step, work.user, work.hall, work.previous, work.todo)
      PROVE  InVisit(step, work.user, work.hall, work.previous, work.todo)'
  BY <1>1, <1>2, <1>4, HandKept
<1> QED  BY <1>3, <1>4 DEF PlaceTold

LEMMA TimeKeepsTold ==
  ASSUME TurnInv,
         \/ \E c \in checkins : RowEnds(c)
         \/ BoardEnds
         \/ \E h \in DOMAIN halls : FeedEnds(h) \/ \E w \in Workers : Hint(w, h),
         NEW step, NEW work, HallTold(step, work)
  PROVE  HallTold(step, work)'
<1>1. hallScene' = hallScene /\ HallShapes /\ RowsApart
  BY DEF RowEnds, BoardEnds, FeedEnds, Hint, TurnInv, HallInv
<1>2. CacheTold(step, work)'
  BY <1>1, TimeKeepsFresh DEF HallTold
<1>3. PlaceTold(step, work) => PlaceTold(step, work)'
  BY <1>1, TimeKeepsPlace
<1> QED  BY <1>1, <1>2, <1>3 DEF HallTold

LEMMA RestTells ==
  ASSUME TurnInv, HallInv',
         \/ \E w \in Workers : Abort(w) /\ UNCHANGED hallsVars
         \/ \E w \in Workers : \E h \in DOMAIN halls : Hint(w, h)
         \/ \E c \in checkins : RowEnds(c)
         \/ BoardEnds
         \/ \E h \in DOMAIN halls : FeedEnds(h)
         \/ UNCHANGED allHallsVars
  PROVE  TurnInv'
<1>1. ASSUME NEW w \in Workers, Abort(w) PROVE TurnInv'
  BY <1>1, CutShortTells
<1>2. ASSUME NEW w \in Workers, NEW h \in DOMAIN halls, Hint(w, h) PROVE TurnInv'
  <2>1. PICK work : work = my[w]
    OBVIOUS
  <2>2. Arrive(w) /\ Regular /\ UNCHANGED <<pc, my>> /\ pc[w] = "idle"
    BY <1>2 DEF Hint, HallCall, Arrive
  <2>3. Moved(w, "idle", work)
    BY <2>1, <2>2 DEF Moved, Alone
  <2>4. HallTold("idle", NoWork) => HallTold("idle", work)'
    <3>1. HallTold("idle", NoWork) => HallTold("idle", work)
      <4>1. PICK none : none = NoWork
        OBVIOUS
      <4> QED  BY <4>1, NobodyTold
    <3> QED  BY <1>2, <3>1, TimeKeepsTold
  <2> QED  BY <2>2, <2>3, <2>4, CallTells
<1>3. CASE \/ \E c \in checkins : RowEnds(c)
           \/ BoardEnds
           \/ \E h \in DOMAIN halls : FeedEnds(h)
  <2>1. UNCHANGED <<pc, my, overlapped, irregular>>
    BY <1>3 DEF RowEnds, BoardEnds, FeedEnds, requestVars
  <2>2. ASSUME NEW step, NEW work, HallTold(step, work) PROVE HallTold(step, work)'
    BY <1>3, <2>2, TimeKeepsTold
  <2> QED  BY <2>1, <2>2, TimeTells
<1>4. CASE UNCHANGED allHallsVars
  <2>1. UNCHANGED <<pc, my, overlapped, irregular>> /\ UNCHANGED hallsVars
    BY <1>4 DEF allHallsVars, requestVars
  <2>2. UNCHANGED <<hallScene, halls, stays, checkins, made, live, activity, posts, feed>>
    BY <2>1 DEF hallsVars
  <2>3. ASSUME NEW step, NEW work, HallTold(step, work) PROVE HallTold(step, work)'
    <3>1. CacheTold(step, work)'
      BY <2>1, <2>3, NothingMoved DEF HallTold, CacheTold
    <3>2. ASSUME step \in Todo, InVisit(step, work.user, work.hall, work.previous, work.todo)
          PROVE  InVisit(step, work.user, work.hall, work.previous, work.todo)'
      BY <2>2, <3>2, SameRows, HandKept
    <3>3. PlaceTold(step, work) => PlaceTold(step, work)'
      BY <2>1, <3>2, NothingMoved DEF PlaceTold
    <3> QED  BY <2>2, <2>3, <3>1, <3>3 DEF HallTold
  <2> QED  BY <2>1, <2>3, TimeTells
<1> QED  BY <1>1, <1>2, <1>3, <1>4

LEMMA TurnBegins == ASSUME HallInit PROVE TurnInv
<1>1. /\ stays = <<>> /\ checkins = {} /\ live = <<>> /\ activity = [u \in Visitors |-> 0]
      /\ feed = [h \in Ids |-> "none"]
      /\ overlapped = FALSE /\ irregular = FALSE /\ pc = [w \in Workers |-> "idle"]
  BY DEF HallInit, NoBoard, ServeNothing
<1>2. HallInv
  BY HallBeginsEmpty
<1>3. HallTurn /\ \A w \in Workers : pc[w] = "idle"
  BY <1>1 DEF HallTurn, InTurn
<1>4. \A u \in Visitors : AtRest(u)
  BY <1>1 DEF AtRest, NoStay, OpenStays, RowsAt
<1>5. HallTold("idle", NoWork)
  BY <1>1, <1>4 DEF HallTold, CacheTold, PlaceTold, BoardFresh, FeedFresh, Todo
<1> QED  BY <1>2, <1>3, <1>5 DEF TurnInv

LEMMA TurnKept == ASSUME TurnInv, [HallNext]_allHallsVars PROVE TurnInv'
<1>0. HallInv'
  BY HallKeepsCounting DEF TurnInv
<1>1. CASE UNCHANGED allHallsVars
  BY <1>0, <1>1, RestTells
<1>2. ASSUME NEW w \in Workers, HallServe(w) PROVE TurnInv'
  BY <1>0, <1>2, FollowsTells, InsertHallTells, CachesTell DEF HallServe, Follows
<1>3. ASSUME NEW w \in Workers, NEW u \in Visitors, NEW h \in DOMAIN halls, CheckIn(w, u, h) PROVE TurnInv'
  BY <1>0, <1>3, CheckInTells
<1>4. ASSUME NEW w \in Workers, NEW u \in Visitors, NEW h \in DOMAIN halls, CheckOut(w, u, h) PROVE TurnInv'
  BY <1>0, <1>4, CheckOutTells
<1>5. ASSUME NEW w \in Workers, NEW u \in Visitors, NEW h \in DOMAIN halls, Post(w, u, h) PROVE TurnInv'
  BY <1>0, <1>5, PostTells
<1> QED  BY <1>0, <1>1, <1>2, <1>3, <1>4, <1>5, FirstVersionTells, ReadsTell, RestTells DEF HallNext

\* Served in turn through V2, a player is in one hall at most, and the rows of both
\* versions and the activity agree which (Halls.OnePlace).
THEOREM PlayersAreInOnePlace == HallSpec => []OnePlace
<1>1. TurnInv => OnePlace
  <2> SUFFICES ASSUME TurnInv, Orderly, Quiet, "inV1" \notin hallScene.calls, NEW u \in Visitors
               PROVE  LET there == {stays[i].hall : i \in OpenStays(u)}
                      IN  /\ \A i, j \in OpenStays(u) : i = j
                          /\ {c.hall : c \in {d \in checkins : d.user = u}} = there
                          /\ activity[u] \in there \/ (activity[u] = 0 /\ there = {})
    BY DEF OnePlace
  <2>1. AtRest(u)
    BY DEF TurnInv, Orderly, Quiet, HallTold, PlaceTold, Todo
  <2>2. CASE NoStay(u) /\ RowsAt(u) = {} /\ activity[u] = 0
    BY <2>2 DEF NoStay, RowsAt
  <2>3. ASSUME NEW h, Sole(u, h), RowsAt(u) = {h}, activity[u] = h
        PROVE  LET there == {stays[i].hall : i \in OpenStays(u)}
               IN  /\ \A i, j \in OpenStays(u) : i = j
                   /\ {c.hall : c \in {d \in checkins : d.user = u}} = there
                   /\ activity[u] \in there \/ (activity[u] = 0 /\ there = {})
    BY <2>3 DEF Sole, RowsAt
  <2> QED  BY <2>1, <2>2, <2>3 DEF AtRest
<1>2. HallInit => TurnInv
  BY TurnBegins
<1>3. TurnInv /\ [HallNext]_allHallsVars => TurnInv'
  BY TurnKept
<1> QED  BY <1>1, <1>2, <1>3, PTL DEF HallSpec

\* Served in turn, the board and the feeds that are cached are what would be read
\* (Halls.CachesAreFresh).
THEOREM WhatIsCachedIsFresh == HallSpec => []CachesAreFresh
<1>1. TurnInv => CachesAreFresh
  <2> SUFFICES ASSUME TurnInv, Orderly, Quiet
               PROVE  /\ live # NoBoard /\ (\A c \in checkins : ~c.late) => live = Board
                      /\ \A h \in Ids : feed[h] \in {"none", "list", ToString(posts[h])}
    BY DEF CachesAreFresh
  <2>1. CacheTold("idle", NoWork)
    BY DEF TurnInv, Orderly, Quiet, HallTold
  <2> QED  BY <2>1 DEF CacheTold, BoardFresh, NoneLate, FeedFresh, NoBoard
<1>2. HallInit => TurnInv
  BY TurnBegins
<1>3. TurnInv /\ [HallNext]_allHallsVars => TurnInv'
  BY TurnKept
<1> QED  BY <1>1, <1>2, <1>3, PTL DEF HallSpec

-----------------------------------------------------------------------------
(* Signing in: a session has one token *)

DeviceRow == [user : Emails, revoked : BOOLEAN]
TokenRow == [session : DOMAIN sessions, revoked : BOOLEAN, late : BOOLEAN]

\* What a request holds that hands out a token.
TokenHolds(step, work) ==
  /\ step \in {"createUser", "createSession"} => work.user \in Emails
  /\ step = "revoke" => work.token \in DOMAIN tokens
  /\ step = "issue" => work.session \in DOMAIN sessions

SessionShapes ==
  /\ sessions \in Seq(DeviceRow) /\ tokens \in Seq(TokenRow)
  /\ held = [s \in DOMAIN sessions |-> held[s]] /\ held \in Seq(Nat)

SessionInv ==
  /\ Moving /\ overlapped \in BOOLEAN /\ irregular \in BOOLEAN /\ InTurn
  /\ SessionShapes /\ \A w \in Workers : TokenHolds(pc[w], my[w])

Good(s) == {t \in DOMAIN tokens : tokens[t].session = s /\ ~tokens[t].revoked}
HoldsGood(s) == held[s] \in Good(s)

\* Who is about to hand out a token of a session.
Issuing(w, s) == pc[w] = "issue" /\ my[w].session = s

\* However refreshes overlap, a session without a good token is about to get one.
GoodToCome == ~irregular => \A s \in DOMAIN sessions : HoldsGood(s) \/ \E w \in Workers : Issuing(w, s)

\* Served in turn, a session has its client's token only, or, while one is about to
\* be handed out, none; and what is about to be revoked is good.
OnlyTold(step, work) ==
  /\ \A s \in DOMAIN sessions : Good(s) = IF step = "issue" /\ work.session = s THEN {} ELSE {held[s]}
  /\ step = "revoke" => ~tokens[work.token].revoked

TokensInv ==
  /\ SessionInv /\ GoodToCome
  /\ Orderly => /\ Quiet => OnlyTold("idle", NoWork)
                /\ \A w \in Workers : pc[w] # "idle" => OnlyTold(pc[w], my[w])

-----------------------------------------------------------------------------
(* What a step leaves as it is *)

LEMMA WebAwaits ==
  ASSUME Moving, NEW w \in Workers, NEW step, NEW work, Await(w, step, work)
  PROVE  Moved(w, step, work) /\ Moving'
BY DEF Moving, Await, Goto, Hold, Moved, Alone

LEMMA WebAnswers ==
  ASSUME Moving, NEW w \in Workers, Answer(w)
  PROVE  Moved(w, "idle", NoWork) /\ Moving'
BY WebAwaits DEF Answer

LEMMA WebGoesOn ==
  ASSUME Moving, NEW w \in Workers, NEW step, Then(w, step)
  PROVE  Moved(w, step, my[w]) /\ Moving'
BY DEF Moving, Then, Goto, Moved, Alone

LEMMA WebArrives ==
  ASSUME SessionInv, NEW w \in Workers, NEW call, AccountCall(w, call), Alone(w)
  PROVE  /\ pc[w] = "idle" /\ overlapped' \in BOOLEAN /\ UNCHANGED irregular /\ InTurn'
         /\ ~overlapped' => ~overlapped /\ Quiet
BY DEF SessionInv, AccountCall, Arrive, Regular, Quiet, InTurn, Alone

\* Tokens, sessions and who holds what being as they were, so is what is said of them.
TokensStand == UNCHANGED <<sessions, tokens, held>>

LEMMA StandingTokens ==
  ASSUME TokensStand
  PROVE  /\ SessionShapes => SessionShapes'
         /\ \A s : Good(s)' = Good(s) /\ (HoldsGood(s)' <=> HoldsGood(s))
         /\ \A step, work : TokenHolds(step, work)' <=> TokenHolds(step, work)
         /\ \A step, work : OnlyTold(step, work)' <=> OnlyTold(step, work)
BY DEF TokensStand, SessionShapes, Good, HoldsGood, TokenHolds, OnlyTold, DeviceRow, TokenRow

\* A request that goes on, neither from nor to a step that hands out a token.
LEMMA GoesOnTold ==
  ASSUME TokensInv, TokensStand, NEW w \in Workers, NEW step, NEW work,
         Moved(w, step, work), Moving', overlapped' \in BOOLEAN, irregular' \in BOOLEAN, InTurn',
         ~irregular' => ~irregular, ~overlapped' => ~overlapped,
         TokenHolds(step, work), step \notin {"issue"}, irregular' \/ pc[w] # "issue",
         Orderly' => OnlyTold(step, work) 
  PROVE  TokensInv'
<1>1. SessionInv'
  <2>1. \A v \in Workers : TokenHolds(pc'[v], my'[v])
    BY DEF TokensInv, SessionInv, Moved, Alone
  <2> QED  BY <2>1, StandingTokens DEF TokensInv, SessionInv
<1>2. GoodToCome'
  BY StandingTokens DEF TokensInv, GoodToCome, Issuing, Moved, Alone, TokensStand
<1>3. ASSUME Orderly' PROVE /\ Quiet' => OnlyTold("idle", NoWork)'
                            /\ \A v \in Workers : (pc[v] # "idle" => OnlyTold(pc[v], my[v]))'
  <2>1. OnlyTold(step, work)'
    BY <1>3, StandingTokens
  <2>2. pc'[w] = step /\ my'[w] = work
    BY DEF Moved
  <2>3. CASE step = "idle"
    <3>1. OnlyTold("idle", NoWork)'
      BY <2>1, <2>3 DEF OnlyTold
    <3>2. ASSUME NEW v \in Workers, pc'[v] # "idle" PROVE OnlyTold(pc[v], my[v])'
      <4>1. v # w /\ pc'[v] = pc[v] /\ my'[v] = my[v]
        BY <2>2, <2>3, <3>2 DEF Moved, Alone
      <4>2. Orderly
        BY <1>3 DEF Orderly, TokensInv, SessionInv
      <4>3. PICK here : here = pc[v]
        OBVIOUS
      <4>4. PICK mine : mine = my[v]
        OBVIOUS
      <4>5. OnlyTold(here, mine)
        BY <3>2, <4>1, <4>2, <4>3, <4>4 DEF TokensInv
      <4>6. OnlyTold(here, mine)'
        BY <4>5, StandingTokens
      <4> QED  BY <4>1, <4>3, <4>4, <4>6 DEF OnlyTold
    <3> QED  BY <3>1, <3>2
  <2>4. CASE step # "idle"
    <3>1. ~Quiet'
      BY <2>2, <2>4 DEF Quiet
    <3>2. ~overlapped'
      BY <1>3 DEF Orderly
    <3>3. \A v \in Workers : pc'[v] # "idle" => v = w
      BY <3>2, <2>2, <2>4 DEF InTurn
    <3>4. OnlyTold(pc[w], my[w])'
      BY <2>1, <2>2 DEF OnlyTold
    <3> QED  BY <3>1, <3>3, <3>4
  <2> QED  BY <2>3, <2>4
<1> QED  BY <1>1, <1>2, <1>3 DEF TokensInv
-----------------------------------------------------------------------------
(* The steps that leave the tokens alone *)

LEMMA WebServed ==
  ASSUME SessionInv, NEW w \in Workers, pc[w] # "idle", UNCHANGED overlapped, Alone(w)
  PROVE  /\ InTurn' /\ overlapped' \in BOOLEAN
         /\ ~overlapped => \A v \in Workers \ {w} : pc[v] = "idle"
BY DEF SessionInv, InTurn, Alone

\* Signing up or in, a refresh, asking for a link or following one.
LEMMA ArrivalsTold ==
  ASSUME TokensInv, NEW w \in Workers, NEW call, NEW step, NEW work,
         AccountCall(w, call), Await(w, step, work), TokensStand,
         TokenHolds(step, work), step # "issue", step = "revoke" => ~tokens[work.token].revoked
  PROVE  TokensInv'
<1>1. SessionInv /\ Moving
  BY DEF TokensInv, SessionInv
<1>2. Moved(w, step, work) /\ Moving' /\ Alone(w)
  BY <1>1, WebAwaits DEF Moved
<1>3. /\ pc[w] = "idle" /\ overlapped' \in BOOLEAN /\ UNCHANGED irregular /\ InTurn'
      /\ ~overlapped' => ~overlapped /\ Quiet
  BY <1>1, <1>2, WebArrives
<1>4. Orderly' => OnlyTold(step, work)
  <2> SUFFICES ASSUME Orderly' PROVE OnlyTold(step, work)
    OBVIOUS
  <2>1. OnlyTold("idle", NoWork)
    BY <1>3 DEF Orderly, TokensInv
  <2> QED  BY <2>1 DEF OnlyTold
<1>5. irregular' \in BOOLEAN
  BY <1>1, <1>3 DEF SessionInv
<1> QED  BY <1>2, <1>3, <1>4, <1>5, GoesOnTold

LEMMA SignupTold ==
  ASSUME TokensInv, NEW w \in Workers, NEW e \in Emails, Signup(w, e) \/ Login(w, e)
  PROVE  TokensInv'
<1>1. TokensStand
  BY DEF Signup, Login, accountVars, TokensStand
<1>2. CASE Signup(w, e)
  <2>1. AccountCall(w, "signup") /\ Await(w, "createUser", [user |-> e])
    BY <1>2 DEF Signup
  <2>2. TokenHolds("createUser", [user |-> e])
    BY DEF TokenHolds
  <2> QED  BY <1>1, <2>1, <2>2, ArrivalsTold
<1>3. CASE Login(w, e)
  <2>1. AccountCall(w, "login") /\ Await(w, "createSession", [user |-> e])
    BY <1>3 DEF Login
  <2>2. TokenHolds("createSession", [user |-> e])
    BY DEF TokenHolds
  <2> QED  BY <1>1, <2>1, <2>2, ArrivalsTold
<1> QED  BY <1>2, <1>3

LEMMA RefreshTold ==
  ASSUME TokensInv, NEW w \in Workers, NEW t \in DOMAIN tokens, Refresh(w, t)
  PROVE  TokensInv'
<1>1. TokensStand /\ AccountCall(w, "refresh") /\ Await(w, "revoke", [token |-> t]) /\ ~tokens[t].revoked
  BY DEF Refresh, accountVars, TokensStand
<1>2. TokenHolds("revoke", [token |-> t])
  BY DEF TokenHolds
<1> QED  BY <1>1, <1>2, ArrivalsTold

LEMMA LinkArrivalsTold ==
  ASSUME TokensInv, NEW w \in Workers,
         \/ \E e \in Emails, k \in Kinds : AskLink(w, e, k)
         \/ \E n \in DOMAIN links : FollowLink(w, n)
  PROVE  TokensInv'
<1>1. ASSUME NEW e \in Emails, NEW k \in Kinds, AskLink(w, e, k) PROVE TokensInv'
  <2>1. TokensStand /\ AccountCall(w, "link") /\ Await(w, "saveLink", [user |-> e, kind |-> k])
    BY <1>1 DEF AskLink, SessionRest, TokensStand
  <2>2. TokenHolds("saveLink", [user |-> e, kind |-> k])
    BY DEF TokenHolds
  <2> QED  BY <2>1, <2>2, ArrivalsTold
<1>2. ASSUME NEW n \in DOMAIN links, FollowLink(w, n) PROVE TokensInv'
  <2>1. TokensStand /\ AccountCall(w, "follow") /\ Await(w, "useLink", [link |-> n])
    BY <1>2 DEF FollowLink, accountVars, TokensStand
  <2>2. TokenHolds("useLink", [link |-> n])
    BY DEF TokenHolds
  <2> QED  BY <2>1, <2>2, ArrivalsTold
<1> QED  BY <1>1, <1>2

\* A step of a request that neither was nor is about to hand out a token.
LEMMA MovesOnTold ==
  ASSUME TokensInv, NEW w \in Workers, NEW step, NEW work, TokensStand,
         Moved(w, step, work), Moving', pc[w] # "idle", pc[w] # "issue", pc[w] # "revoke",
         UNCHANGED <<overlapped, irregular>>, TokenHolds(step, work), step \notin {"issue", "revoke"}
  PROVE  TokensInv'
<1>1. SessionInv /\ Alone(w)
  BY DEF TokensInv, Moved
<1>2. InTurn' /\ overlapped' \in BOOLEAN /\ irregular' \in BOOLEAN
  BY <1>1, WebServed DEF SessionInv
<1>3. Orderly' => OnlyTold(step, work)
  <2> SUFFICES ASSUME Orderly' PROVE OnlyTold(step, work)
    OBVIOUS
  <2>1. OnlyTold(pc[w], my[w])
    BY DEF Orderly, TokensInv
  <2> QED  BY <2>1 DEF OnlyTold
<1> QED  BY <1>2, <1>3, GoesOnTold

LEMMA WorksTold ==
  ASSUME TokensInv, NEW w \in Workers, CreateUser(w) \/ SaveLink(w) \/ UseLink(w) \/ Apply(w)
  PROVE  TokensInv'
<1>0. Moving /\ TokenHolds(pc[w], my[w])
  BY DEF TokensInv, SessionInv
<1>1. TokensStand /\ UNCHANGED <<overlapped, irregular>> /\ pc[w] \notin {"idle", "issue", "revoke"}
  BY DEF CreateUser, SaveLink, UseLink, Apply, At, SessionRest, TokensStand
<1>2. CASE Answer(w)
  <2>1. Moved(w, "idle", NoWork) /\ Moving' /\ TokenHolds("idle", NoWork)
    BY <1>0, <1>2, WebAnswers DEF TokenHolds
  <2> QED  BY <1>1, <2>1, MovesOnTold
<1>3. ASSUME NEW step \in {"createSession", "apply"}, Then(w, step),
             step = "createSession" => pc[w] = "createUser"
      PROVE TokensInv'
  <2>1. Moved(w, step, my[w]) /\ Moving'
    BY <1>0, <1>3, WebGoesOn
  <2>2. PICK work : work = my[w]
    OBVIOUS
  <2>3. TokenHolds(step, work)
    BY <1>0, <1>3, <2>2 DEF TokenHolds
  <2> QED  BY <1>1, <1>3, <2>1, <2>2, <2>3, MovesOnTold
<1> QED  BY <1>2, <1>3 DEF CreateUser, SaveLink, UseLink, Apply, At

\* A request that is cut short, or an answer that is lost: what is told no longer holds.
LEMMA CutShortTold ==
  ASSUME TokensInv, NEW w \in Workers, Abort(w), TokensStand
  PROVE  TokensInv'
<1>1. Moving /\ SessionInv /\ irregular' = TRUE /\ UNCHANGED overlapped /\ pc[w] # "idle"
  BY DEF TokensInv, SessionInv, Abort, Irregular
<1>2. Moved(w, "idle", NoWork) /\ Moving' /\ TokenHolds("idle", NoWork)
  BY <1>1, WebAnswers DEF Abort, TokenHolds
<1>3. InTurn' /\ overlapped' \in BOOLEAN
  BY <1>1, <1>2, WebServed DEF Moved
<1> QED  BY <1>1, <1>2, <1>3, GoesOnTold DEF Orderly

LEMMA RestTold ==
  ASSUME TokensInv, TokensStand, UNCHANGED <<pc, my, overlapped>>, irregular' \in BOOLEAN, irregular => irregular'
  PROVE  TokensInv'
<1>1. SessionInv'
  BY StandingTokens DEF TokensInv, SessionInv, Moving, InTurn, TokenHolds, TokensStand
<1>2. GoodToCome'
  BY StandingTokens DEF TokensInv, GoodToCome, Issuing, TokensStand, SessionInv
<1>3. Orderly' => Orderly
  BY DEF Orderly, TokensInv, SessionInv
<1>4. Quiet' <=> Quiet
  BY DEF Quiet
<1>5. OnlyTold("idle", NoWork)' <=> OnlyTold("idle", NoWork)
  BY StandingTokens
<1>6. \A w \in Workers : OnlyTold(pc[w], my[w]) => OnlyTold(pc[w], my[w])'
  BY StandingTokens DEF OnlyTold, TokensStand
<1> QED  BY <1>1, <1>2, <1>3, <1>4, <1>5, <1>6 DEF TokensInv
-----------------------------------------------------------------------------
(* The steps that hand a token out *)

LEMMA CreateSessionTold ==
  ASSUME TokensInv, NEW w \in Workers, CreateSession(w)
  PROVE  TokensInv'
<1> DEFINE n == Len(sessions) + 1
<1>0. SessionInv /\ Moving /\ SessionShapes
  BY DEF TokensInv, SessionInv
<1>1. /\ pc[w] = "createSession" /\ UNCHANGED <<overlapped, irregular, tokens>>
      /\ sessions' = Append(sessions, [user |-> my[w].user, revoked |-> FALSE]) /\ held' = Append(held, 0)
  BY DEF CreateSession, At
<1>2. Moved(w, "issue", [session |-> n]) /\ Moving'
  <2>1. Await(w, "issue", [session |-> n])
    BY DEF CreateSession
  <2> HIDE DEF n
  <2> QED  BY <1>0, <2>1, WebAwaits
<1>3. InTurn' /\ overlapped' \in BOOLEAN /\ irregular' \in BOOLEAN
      /\ (~overlapped => \A v \in Workers \ {w} : pc[v] = "idle")
  BY <1>0, <1>1, <1>2, WebServed DEF Moved, SessionInv
<1>4. my[w].user \in Emails
  BY <1>0, <1>1 DEF SessionInv, TokenHolds
<1>5. /\ sessions' \in Seq(DeviceRow) /\ DOMAIN sessions = 1 .. Len(sessions) /\ Len(sessions) \in Nat
      /\ DOMAIN sessions' = 1 .. n
  <2>1. sessions \in Seq(DeviceRow) /\ [user |-> my[w].user, revoked |-> FALSE] \in DeviceRow
    BY <1>0, <1>4 DEF SessionShapes, DeviceRow
  <2> QED  BY <1>1, <2>1, InsertedRow
<1>6. n \in DOMAIN sessions' /\ n \notin DOMAIN sessions /\ DOMAIN sessions' = DOMAIN sessions \cup {n}
  BY <1>5
<1>7. /\ held' \in Seq(Nat) /\ held' = [s \in DOMAIN sessions' |-> held'[s]]
      /\ \A s \in DOMAIN sessions : held'[s] = held[s]
  <2>1. held \in Seq(Nat) /\ DOMAIN held = DOMAIN sessions /\ 0 \in Nat
    BY <1>0 DEF SessionShapes
  <2>2. /\ Append(held, 0) \in Seq(Nat) /\ DOMAIN held = 1 .. Len(held) /\ Len(held) \in Nat
        /\ DOMAIN Append(held, 0) = 1 .. (Len(held) + 1)
        /\ \A s \in DOMAIN held : Append(held, 0)[s] = held[s]
    BY <2>1, InsertedRow
  <2>3. Len(held) = Len(sessions)
    BY <1>5, <2>1, <2>2
  <2>4. DOMAIN held' = 1 .. n /\ held' \in [1 .. Len(held') -> Nat] /\ DOMAIN held' = 1 .. Len(held')
    <3>1. held' \in Seq(Nat) /\ DOMAIN held' = 1 .. (Len(held) + 1)
      BY <1>1, <2>2
    <3>2. held' \in [1 .. Len(held') -> Nat] /\ DOMAIN held' = 1 .. Len(held')
      BY <3>1
    <3> QED  BY <2>3, <3>1, <3>2
  <2>5. held' = [s \in DOMAIN sessions' |-> held'[s]]
    <3>1. held' = [s \in DOMAIN held' |-> held'[s]]
      BY <2>4
    <3> QED  BY <1>5, <2>4, <3>1
  <2> QED  BY <1>1, <2>1, <2>2, <2>5
<1> HIDE DEF n
<1>8. tokens' \in Seq(TokenRow')
  <2>1. TokenRow \subseteq TokenRow'
    BY <1>6 DEF TokenRow
  <2>2. tokens \in Seq(TokenRow)
    BY <1>0 DEF SessionShapes
  <2>3. \A t \in DOMAIN tokens : tokens[t] \in TokenRow
    BY <2>2
  <2>4. PICK more : more = TokenRow'
    OBVIOUS
  <2>5. PICK some : some = TokenRow
    OBVIOUS
  <2>6. tokens \in Seq(more)
    BY <2>1, <2>2, <2>3, <2>4, <2>5, TableOf
  <2> QED  BY <1>1, <2>4, <2>6
<1>9. \A s : Good(s)' = Good(s)
  BY <1>1 DEF Good
<1>10. Good(n) = {}
  <2>1. tokens \in Seq(TokenRow)
    BY <1>0 DEF SessionShapes
  <2>2. \A t \in DOMAIN tokens : tokens[t] \in TokenRow
    BY <2>1
  <2>3. \A t \in DOMAIN tokens : tokens[t].session # n
    BY <1>6, <2>2 DEF TokenRow
  <2> QED  BY <2>3 DEF Good
<1>11. SessionInv'
  <2>1. SessionShapes'
    BY <1>5, <1>7, <1>8 DEF SessionShapes, DeviceRow
  <2>2. ASSUME NEW v \in Workers PROVE TokenHolds(pc[v], my[v])'
    BY <1>0, <1>1, <1>2, <1>6 DEF SessionInv, TokenHolds, Moved, Alone
  <2> QED  BY <1>2, <1>3, <2>1, <2>2 DEF SessionInv
<1>12. GoodToCome'
  <2> SUFFICES ASSUME ~irregular', NEW s \in DOMAIN sessions'
               PROVE  HoldsGood(s)' \/ \E v \in Workers : Issuing(v, s)'
    BY DEF GoodToCome
  <2>1. CASE s = n
    <3>1. pc'[w] = "issue" /\ my'[w].session = s
      BY <1>2, <2>1 DEF Moved
    <3> QED  BY <3>1 DEF Issuing
  <2>2. CASE s # n
    <3>1. s \in DOMAIN sessions
      BY <1>6, <2>2
    <3>2. HoldsGood(s) \/ \E v \in Workers : Issuing(v, s)
      BY <1>1, <3>1 DEF TokensInv, GoodToCome
    <3>3. HoldsGood(s) => HoldsGood(s)'
      BY <1>7, <1>9, <3>1 DEF HoldsGood
    <3>4. ASSUME NEW v \in Workers, Issuing(v, s) PROVE Issuing(v, s)'
      BY <1>1, <1>2, <3>4 DEF Issuing, Moved, Alone
    <3> QED  BY <3>2, <3>3, <3>4
  <2> QED  BY <2>1, <2>2
<1>13. ASSUME Orderly' PROVE (Quiet => OnlyTold("idle", NoWork))'
                             /\ \A v \in Workers : (pc[v] # "idle" => OnlyTold(pc[v], my[v]))'
  <2>1. pc'[w] = "issue" /\ my'[w] = [session |-> n] /\ \A v \in Workers : pc'[v] # "idle" => v = w
    BY <1>1, <1>2, <1>3, <1>13 DEF Moved, InTurn, Orderly
  <2>2. Orderly
    BY <1>1, <1>13 DEF Orderly
  <2>3. \A s \in DOMAIN sessions : Good(s) = {held[s]}
    BY <1>1, <2>2 DEF TokensInv, OnlyTold
  <2>4. \A s \in DOMAIN sessions' : Good(s)' = IF s = n THEN {} ELSE {held'[s]}
    BY <1>6, <1>7, <1>9, <1>10, <2>3
  <2>5. OnlyTold(pc[w], my[w])'
    BY <2>1, <2>4 DEF OnlyTold
  <2>6. ~Quiet'
    BY <2>1 DEF Quiet
  <2> QED  BY <2>1, <2>5, <2>6
<1> QED  BY <1>11, <1>12, <1>13 DEF TokensInv

LEMMA IssueTold ==
  ASSUME TokensInv, NEW w \in Workers, Issue(w)
  PROVE  TokensInv' /\ Len(tokens) + 1 \in DOMAIN tokens' /\ DOMAIN tokens \subseteq DOMAIN tokens'
<1> DEFINE n == Len(tokens) + 1
           s0 == my[w].session
<1>0. SessionInv /\ Moving /\ SessionShapes
  BY DEF TokensInv, SessionInv
<1>1. /\ pc[w] = "issue" /\ UNCHANGED <<overlapped, irregular, sessions>>
      /\ tokens' = Append(tokens, [session |-> s0, revoked |-> FALSE, late |-> FALSE])
      /\ held' = [held EXCEPT ![s0] = n]
  BY DEF Issue, At
<1>2. Moved(w, "idle", NoWork) /\ Moving'
  BY <1>0, WebAnswers DEF Issue
<1>3. InTurn' /\ overlapped' \in BOOLEAN /\ irregular' \in BOOLEAN
      /\ (~overlapped => \A v \in Workers \ {w} : pc[v] = "idle")
  BY <1>0, <1>1, <1>2, WebServed DEF Moved, SessionInv
<1>4. s0 \in DOMAIN sessions
  BY <1>0, <1>1 DEF SessionInv, TokenHolds
<1>5. /\ tokens' \in Seq(TokenRow) /\ DOMAIN tokens = 1 .. Len(tokens) /\ Len(tokens) \in Nat
      /\ DOMAIN tokens' = 1 .. n
      /\ \A t \in DOMAIN tokens : tokens'[t] = tokens[t]
      /\ tokens'[n] = [session |-> s0, revoked |-> FALSE, late |-> FALSE]
  <2>1. tokens \in Seq(TokenRow) /\ [session |-> s0, revoked |-> FALSE, late |-> FALSE] \in TokenRow
    BY <1>0, <1>4 DEF SessionShapes, TokenRow
  <2> QED  BY <1>1, <2>1, InsertedRow
<1>6. n \in DOMAIN tokens' /\ n \notin DOMAIN tokens /\ DOMAIN tokens' = DOMAIN tokens \cup {n} /\ n \in Nat
  BY <1>5
<1> HIDE DEF n, s0
<1>7. /\ held' \in Seq(Nat) /\ held' = [s \in DOMAIN sessions' |-> held'[s]]
      /\ \A s \in DOMAIN sessions : held'[s] = IF s = s0 THEN n ELSE held[s]
  <2>1. held \in Seq(Nat) /\ DOMAIN held = DOMAIN sessions /\ n \in Nat
    BY <1>0, <1>6 DEF SessionShapes
  <2>2. /\ [held EXCEPT ![s0] = n] \in Seq(Nat)
        /\ DOMAIN [held EXCEPT ![s0] = n] = DOMAIN held
        /\ \A s \in DOMAIN held : [held EXCEPT ![s0] = n][s] = IF s = s0 THEN n ELSE held[s]
    BY <2>1, SavedRow
  <2> QED  BY <1>0, <1>1, <2>1, <2>2 DEF SessionShapes
<1>8. \A s : Good(s)' = IF s = s0 THEN Good(s) \cup {n} ELSE Good(s)
  BY <1>5, <1>6 DEF Good
<1>9. SessionInv'
  <2>1. SessionShapes'
    BY <1>0, <1>1, <1>5, <1>7 DEF SessionShapes, TokenRow
  <2>2. ASSUME NEW v \in Workers PROVE TokenHolds(pc[v], my[v])'
    BY <1>0, <1>1, <1>2, <1>6 DEF SessionInv, TokenHolds, Moved, Alone
  <2> QED  BY <1>2, <1>3, <2>1, <2>2 DEF SessionInv
<1>10. GoodToCome'
  <2> SUFFICES ASSUME ~irregular', NEW s \in DOMAIN sessions
               PROVE  HoldsGood(s)' \/ \E v \in Workers : Issuing(v, s)'
    BY <1>1 DEF GoodToCome
  <2>1. CASE s = s0
    BY <1>7, <1>8, <2>1 DEF HoldsGood
  <2>2. CASE s # s0
    <3>1. HoldsGood(s) \/ \E v \in Workers : Issuing(v, s)
      BY <1>1 DEF TokensInv, GoodToCome
    <3>2. HoldsGood(s) => HoldsGood(s)'
      BY <1>7, <1>8, <2>2 DEF HoldsGood
    <3>3. ASSUME NEW v \in Workers, Issuing(v, s) PROVE Issuing(v, s)'
      BY <1>2, <2>2, <3>3 DEF Issuing, Moved, Alone, s0
    <3> QED  BY <3>1, <3>2, <3>3
  <2> QED  BY <2>1, <2>2
<1>11. ASSUME Orderly' PROVE (Quiet => OnlyTold("idle", NoWork))'
                             /\ \A v \in Workers : (pc[v] # "idle" => OnlyTold(pc[v], my[v]))'
  <2>1. pc'[w] = "idle" /\ \A v \in Workers : pc'[v] = "idle"
    BY <1>1, <1>2, <1>3, <1>11 DEF Moved, Alone, Orderly
  <2>2. Orderly
    BY <1>1, <1>11 DEF Orderly
  <2>3. \A s \in DOMAIN sessions : Good(s) = IF s = s0 THEN {} ELSE {held[s]}
    BY <1>1, <2>2 DEF TokensInv, OnlyTold, s0
  <2>4. \A s \in DOMAIN sessions' : Good(s)' = {held'[s]}
    BY <1>1, <1>7, <1>8, <2>3
  <2> QED  BY <2>1, <2>4 DEF OnlyTold
<1>12. TokensInv'
  BY <1>9, <1>10, <1>11 DEF TokensInv
<1> QED  BY <1>6, <1>12 DEF n

LEMMA RevokeTold ==
  ASSUME TokensInv, NEW w \in Workers, Revoke(w)
  PROVE  TokensInv' /\ DOMAIN tokens' = DOMAIN tokens
<1> DEFINE t0 == my[w].token
           s0 == tokens[t0].session
<1>0. SessionInv /\ Moving /\ SessionShapes
  BY DEF TokensInv, SessionInv
<1>1. /\ pc[w] = "revoke" /\ UNCHANGED <<overlapped, irregular, sessions, held>>
      /\ tokens' = [tokens EXCEPT ![t0].revoked = TRUE]
  BY DEF Revoke, At, Rotated
<1>2. Moved(w, "issue", [session |-> s0]) /\ Moving'
  BY <1>0, WebAwaits DEF Revoke
<1>3. InTurn' /\ overlapped' \in BOOLEAN /\ irregular' \in BOOLEAN
      /\ (~overlapped => \A v \in Workers \ {w} : pc[v] = "idle")
  BY <1>0, <1>1, <1>2, WebServed DEF Moved, SessionInv
<1>4. t0 \in DOMAIN tokens
  BY <1>0, <1>1 DEF SessionInv, TokenHolds
<1>5. tokens \in Seq(TokenRow) /\ tokens[t0] \in TokenRow
  BY <1>0, <1>4 DEF SessionShapes
<1>6. s0 \in DOMAIN sessions
  BY <1>5 DEF TokenRow
<1> HIDE DEF t0
<1>7. /\ tokens' \in Seq(TokenRow) /\ DOMAIN tokens' = DOMAIN tokens
      /\ \A t \in DOMAIN tokens : tokens'[t] = IF t = t0 THEN [tokens[t0] EXCEPT !.revoked = TRUE] ELSE tokens[t]
  <2>1. [tokens[t0] EXCEPT !.revoked = TRUE] \in TokenRow
    BY <1>5 DEF TokenRow
  <2>2. [tokens EXCEPT ![t0].revoked = TRUE] = [tokens EXCEPT ![t0] = [tokens[t0] EXCEPT !.revoked = TRUE]]
    OBVIOUS
  <2> QED  BY <1>1, <1>5, <2>1, <2>2, SavedRow
<1>8. \A t \in DOMAIN tokens : /\ tokens'[t].session = tokens[t].session
                               /\ tokens'[t].revoked <=> (t = t0 \/ tokens[t].revoked)
  <2>1. /\ [tokens[t0] EXCEPT !.revoked = TRUE].session = tokens[t0].session
        /\ [tokens[t0] EXCEPT !.revoked = TRUE].revoked = TRUE
    BY <1>5 DEF TokenRow
  <2> QED  BY <1>7, <2>1
<1>9. \A s : Good(s)' = Good(s) \ {t0}
  BY <1>7, <1>8 DEF Good
<1>10. \A s : s # s0 => Good(s)' = Good(s)
  BY <1>9 DEF Good
<1> HIDE DEF s0
<1>11. SessionInv'
  <2>1. SessionShapes'
    BY <1>0, <1>1, <1>7 DEF SessionShapes, TokenRow
  <2>2. ASSUME NEW v \in Workers PROVE TokenHolds(pc[v], my[v])'
    BY <1>0, <1>1, <1>2, <1>6, <1>7 DEF SessionInv, TokenHolds, Moved, Alone
  <2> QED  BY <1>2, <1>3, <2>1, <2>2 DEF SessionInv
<1>12. GoodToCome'
  <2> SUFFICES ASSUME ~irregular', NEW s \in DOMAIN sessions
               PROVE  HoldsGood(s)' \/ \E v \in Workers : Issuing(v, s)'
    BY <1>1 DEF GoodToCome
  <2>1. CASE s = s0
    <3>1. pc'[w] = "issue" /\ my'[w].session = s
      BY <1>2, <2>1 DEF Moved
    <3> QED  BY <3>1 DEF Issuing
  <2>2. CASE s # s0
    <3>1. HoldsGood(s) \/ \E v \in Workers : Issuing(v, s)
      BY <1>1 DEF TokensInv, GoodToCome
    <3>2. HoldsGood(s) => HoldsGood(s)'
      BY <1>1, <1>10, <2>2 DEF HoldsGood
    <3>3. ASSUME NEW v \in Workers, Issuing(v, s) PROVE Issuing(v, s)'
      BY <1>1, <1>2, <3>3 DEF Issuing, Moved, Alone
    <3> QED  BY <3>1, <3>2, <3>3
  <2> QED  BY <2>1, <2>2
<1>13. ASSUME Orderly' PROVE (Quiet => OnlyTold("idle", NoWork))'
                             /\ \A v \in Workers : (pc[v] # "idle" => OnlyTold(pc[v], my[v]))'
  <2>1. pc'[w] = "issue" /\ my'[w] = [session |-> s0] /\ \A v \in Workers : pc'[v] # "idle" => v = w
    BY <1>1, <1>2, <1>3, <1>13 DEF Moved, InTurn, Orderly
  <2>2. Orderly
    BY <1>1, <1>13 DEF Orderly
  <2>3. OnlyTold(pc[w], my[w])
    BY <1>1, <2>2 DEF TokensInv
  <2>4. ~tokens[t0].revoked /\ \A s \in DOMAIN sessions : Good(s) = {held[s]}
    BY <1>1, <2>3 DEF OnlyTold, t0
  <2>5. t0 \in Good(s0)
    BY <1>4, <2>4 DEF Good, s0
  <2>6. \A s : s = s0 => Good(s)' = {}
    BY <1>6, <1>9, <2>4, <2>5
  <2>7. \A s \in DOMAIN sessions' : Good(s)' = IF s = s0 THEN {} ELSE {held'[s]}
    BY <1>1, <1>10, <2>4, <2>6
  <2>8. OnlyTold(pc[w], my[w])'
    BY <2>1, <2>7 DEF OnlyTold
  <2>9. ~Quiet'
    BY <2>1 DEF Quiet
  <2> QED  BY <2>1, <2>8, <2>9
<1> QED  BY <1>7, <1>11, <1>12, <1>13 DEF TokensInv

\* A sign-out marks sessions, an expiry a token: neither says anything of which are good.
LEMMA MarkedTold ==
  ASSUME TokensInv, UNCHANGED <<pc, my, overlapped, irregular, held>>,
         SessionShapes', DOMAIN sessions' = DOMAIN sessions, DOMAIN tokens' = DOMAIN tokens,
         \A t \in DOMAIN tokens : tokens'[t].session = tokens[t].session /\ tokens'[t].revoked = tokens[t].revoked
  PROVE  TokensInv'
<1>1. \A s : Good(s)' = Good(s)
  BY DEF Good
<1>2. SessionInv'
  BY DEF TokensInv, SessionInv, Moving, InTurn, TokenHolds
<1>3. GoodToCome'
  BY <1>1 DEF TokensInv, GoodToCome, Issuing, HoldsGood
<1>4. Orderly' => Orderly
  BY DEF Orderly
<1>5. Quiet' <=> Quiet
  BY DEF Quiet
<1>6. \A s \in DOMAIN sessions : Good(s)' = Good(s) /\ held'[s] = held[s]
  BY <1>1
<1>7. OnlyTold("idle", NoWork) => OnlyTold("idle", NoWork)'
  BY <1>6 DEF OnlyTold
<1>8. ASSUME NEW w \in Workers, OnlyTold(pc[w], my[w]) PROVE OnlyTold(pc[w], my[w])'
  <2>1. pc[w] = "revoke" => my[w].token \in DOMAIN tokens
    BY DEF TokensInv, SessionInv, TokenHolds
  <2> QED  BY <1>6, <1>8, <2>1 DEF OnlyTold
<1> QED  BY <1>2, <1>3, <1>4, <1>5, <1>7, <1>8 DEF TokensInv

LEMMA SignOutsTold ==
  ASSUME TokensInv, NEW w \in Workers,
         (\E s \in DOMAIN sessions : Logout(w, s)) \/ (\E e \in Emails : LogoutAll(w, e))
  PROVE  TokensInv'
<1>1. sessions \in Seq(DeviceRow) /\ tokens \in Seq(TokenRow) /\ SessionShapes
      /\ overlapped \in BOOLEAN /\ InTurn /\ (\A s \in DOMAIN sessions : sessions[s] \in DeviceRow)
  BY DEF TokensInv, SessionInv, SessionShapes
<1>2. Len(sessions) \in Nat /\ DOMAIN sessions = 1 .. Len(sessions)
  BY <1>1
<1>3. sessions' \in Seq(DeviceRow) /\ DOMAIN sessions' = DOMAIN sessions
  <2>1. ASSUME NEW s \in DOMAIN sessions, Logout(w, s) PROVE sessions' \in Seq(DeviceRow) /\ DOMAIN sessions' = DOMAIN sessions
    <3>1. [sessions[s] EXCEPT !.revoked = TRUE] \in DeviceRow
      BY <1>1 DEF DeviceRow
    <3>2. sessions' = [sessions EXCEPT ![s] = [sessions[s] EXCEPT !.revoked = TRUE]]
      BY <2>1 DEF Logout
    <3> QED  BY <1>1, <3>1, <3>2, SavedRow
  <2>2. ASSUME NEW e \in Emails, LogoutAll(w, e) PROVE sessions' \in Seq(DeviceRow) /\ DOMAIN sessions' = DOMAIN sessions
    <3>1. sessions' = [s \in DOMAIN sessions |->
                         IF sessions[s].user = e THEN [sessions[s] EXCEPT !.revoked = TRUE] ELSE sessions[s]]
      BY <2>2 DEF LogoutAll
    <3>2. \A s \in DOMAIN sessions : [sessions[s] EXCEPT !.revoked = TRUE] \in DeviceRow
      BY <1>1 DEF DeviceRow
    <3>3. sessions' \in [1 .. Len(sessions) -> DeviceRow]
      BY <1>1, <1>2, <3>1, <3>2
    <3> QED  BY <1>2, <3>3
  <2> QED  BY <2>1, <2>2
\* A sign-out is answered at once: it is counted as overlapping what is under way.
<1>4. /\ UNCHANGED <<pc, my, tokens, held, irregular>> /\ overlapped' \in BOOLEAN
      /\ ~overlapped' => ~overlapped
  BY <1>1 DEF Logout, LogoutAll, AccountCall, Arrive, Regular, Quiet
<1>5. SessionShapes'
  BY <1>1, <1>3, <1>4 DEF SessionShapes, TokenRow, DeviceRow
<1>6. \A s : Good(s)' = Good(s)
  BY <1>4 DEF Good
<1>7. SessionInv'
  BY <1>3, <1>4, <1>5 DEF TokensInv, SessionInv, Moving, InTurn, TokenHolds
<1>8. GoodToCome'
  BY <1>3, <1>4, <1>6 DEF TokensInv, GoodToCome, Issuing, HoldsGood
<1>9. Orderly' => Orderly
  BY <1>4 DEF Orderly
<1>10. OnlyTold("idle", NoWork) => OnlyTold("idle", NoWork)'
  BY <1>3, <1>4, <1>6 DEF OnlyTold
<1>11. ASSUME NEW v \in Workers, OnlyTold(pc[v], my[v]) PROVE OnlyTold(pc[v], my[v])'
  BY <1>3, <1>4, <1>6, <1>11 DEF OnlyTold
<1>12. Quiet' <=> Quiet
  BY <1>4 DEF Quiet
<1> QED  BY <1>4, <1>7, <1>8, <1>9, <1>10, <1>11, <1>12 DEF TokensInv

LEMMA TokenEndsTold ==
  ASSUME TokensInv, NEW t0 \in DOMAIN tokens, TokenEnds(t0)
  PROVE  TokensInv' /\ DOMAIN tokens' = DOMAIN tokens
<1>1. SessionShapes /\ tokens \in Seq(TokenRow) /\ tokens[t0] \in TokenRow
  BY DEF TokensInv, SessionInv, SessionShapes
<1>2. UNCHANGED <<pc, my, overlapped, irregular, held, sessions>> /\ tokens' = [tokens EXCEPT ![t0].late = TRUE]
  BY DEF TokenEnds, requestVars
<1>3. [tokens[t0] EXCEPT !.late = TRUE] \in TokenRow
      /\ [tokens[t0] EXCEPT !.late = TRUE].session = tokens[t0].session
      /\ [tokens[t0] EXCEPT !.late = TRUE].revoked = tokens[t0].revoked
  BY <1>1 DEF TokenRow
<1>4. [tokens EXCEPT ![t0].late = TRUE] = [tokens EXCEPT ![t0] = [tokens[t0] EXCEPT !.late = TRUE]]
  OBVIOUS
<1>5. /\ tokens' \in Seq(TokenRow) /\ DOMAIN tokens' = DOMAIN tokens
      /\ \A t \in DOMAIN tokens : tokens'[t] = IF t = t0 THEN [tokens[t0] EXCEPT !.late = TRUE] ELSE tokens[t]
  BY <1>1, <1>2, <1>3, <1>4, SavedRow
<1>6. SessionShapes'
  BY <1>1, <1>2, <1>5 DEF SessionShapes, TokenRow, DeviceRow
<1> QED  BY <1>2, <1>3, <1>5, <1>6, MarkedTold

-----------------------------------------------------------------------------
(* Other clients, and the browser *)

\* What a step of the server's does to the tokens.
TokenSteps(w) ==
  \/ \E e \in Emails : Signup(w, e) \/ Login(w, e)
  \/ \E t \in DOMAIN tokens : Refresh(w, t)
  \/ CreateUser(w) \/ CreateSession(w) \/ Revoke(w) \/ Issue(w)

LEMMA ServerTold ==
  ASSUME TokensInv, NEW w \in Workers, TokenSteps(w)
  PROVE  TokensInv'
BY SignupTold, RefreshTold, WorksTold, CreateSessionTold, RevokeTold, IssueTold DEF TokenSteps

LEMMA DevicesTold ==
  ASSUME TokensInv, [AccountNext]_allAccountVars
  PROVE  TokensInv'
<1>1. CASE UNCHANGED allAccountVars
  BY <1>1, RestTold DEF allAccountVars, requestVars, accountVars, TokensStand, TokensInv, SessionInv
<1>2. ASSUME NEW w \in Workers, AccountServe(w) PROVE TokensInv'
  BY <1>2, ServerTold, WorksTold DEF AccountServe, TokenSteps
<1>3. ASSUME NEW w \in Workers, Abort(w), UNCHANGED accountVars PROVE TokensInv'
  BY <1>3, CutShortTold DEF accountVars, TokensStand
<1>4. ASSUME NEW n \in DOMAIN links, LinkEnds(n) PROVE TokensInv'
  BY <1>4, RestTold DEF LinkEnds, requestVars, SessionRest, TokensStand, TokensInv, SessionInv
<1> QED  BY <1>1, <1>2, <1>3, <1>4, ServerTold, LinkArrivalsTold, SignOutsTold, TokenEndsTold DEF AccountNext, TokenSteps

LEMMA TokensBegin == ASSUME AccountInit PROVE TokensInv
<1>1. /\ pc = [w \in Workers |-> "idle"] /\ my = [w \in Workers |-> NoWork]
      /\ overlapped = FALSE /\ irregular = FALSE /\ sessions = <<>> /\ tokens = <<>> /\ held = <<>>
  BY DEF AccountInit, NoAccounts, ServeNothing
<1>2. SessionShapes /\ DOMAIN sessions = {}
  BY <1>1 DEF SessionShapes
<1>3. SessionInv
  BY <1>1, <1>2 DEF SessionInv, Moving, InTurn, TokenHolds
<1> QED  BY <1>1, <1>2, <1>3 DEF TokensInv, GoodToCome, OnlyTold

\* What the invariant says once all requests are answered.
LEMMA OneTokenEach == ASSUME TokensInv PROVE OneTokenPerSession
<1> SUFFICES ASSUME Quiet, ~irregular, NEW s \in DOMAIN sessions
             PROVE  held[s] \in Good(s) /\ (Orderly => Good(s) = {held[s]})
  BY DEF OneTokenPerSession, Quiet, Orderly, Good
<1>1. held[s] \in Good(s)
  BY DEF TokensInv, GoodToCome, HoldsGood, Issuing, Quiet
<1>2. Orderly => Good(s) = {held[s]}
  BY DEF TokensInv, OnlyTold
<1> QED  BY <1>1, <1>2

\* Whatever clients there are and however their refreshes overlap, the client of
\* every session holds a token that was not used, and served in turn it is the
\* session's only one (Accounts.OneTokenPerSession).
THEOREM SessionsKeepOneToken == AccountSpec => []OneTokenPerSession
<1>1. TokensInv => OneTokenPerSession
  BY OneTokenEach
<1>2. AccountInit => TokensInv
  BY TokensBegin
<1>3. TokensInv /\ [AccountNext]_allAccountVars => TokensInv'
  BY DevicesTold
<1> QED  BY <1>1, <1>2, <1>3, PTL DEF AccountSpec

\* The refresh tokens that a browser stores, presents or is answered were all handed out.
HandedOut == {0} \cup DOMAIN tokens
FlightKnows(r) ==
  /\ DOMAIN r = {"step", "token", "new", "access"} /\ r.new \in HandedOut
  /\ r.step = "asked" => r.token \in DOMAIN tokens
SignInKnows(r) == DOMAIN r = {"step", "user", "fresh", "new", "access"} /\ r.new \in HandedOut

BrowserInv ==
  /\ TokensInv
  /\ DOMAIN storage = {"access", "refresh", "user"} /\ storage.refresh \in HandedOut
  /\ flight = [f \in Fetches |-> flight[f]] /\ \A f \in Fetches : FlightKnows(flight[f])
  /\ signing = [t \in Tabs |-> signing[t]] /\ \A t \in Tabs : SignInKnows(signing[t])

TokensStay == DOMAIN tokens \subseteq DOMAIN tokens'

LEMMA StillKnown ==
  ASSUME TokensStay
  PROVE  HandedOut \subseteq HandedOut' /\ \A r : (FlightKnows(r) => FlightKnows(r)') /\ (SignInKnows(r) => SignInKnows(r)')
BY DEF TokensStay, HandedOut, FlightKnows, SignInKnows

LEMMA BrowserRests ==
  ASSUME BrowserInv, TokensInv', TokensStay, UNCHANGED <<storage, flight, signing>>
  PROVE  BrowserInv'
BY StillKnown DEF BrowserInv, TokensStay, HandedOut, FlightKnows, SignInKnows

\* A flight or a sign-in that goes on.
LEMMA FlightGoesOn ==
  ASSUME NEW r, FlightKnows(r), NEW step, step # "asked"
  PROVE  FlightKnows([r EXCEPT !.step = step])
BY DEF FlightKnows

LEMMA FlightAnswered ==
  ASSUME NEW r, FlightKnows(r), NEW step, step # "asked", NEW new \in HandedOut, NEW access
  PROVE  FlightKnows([r EXCEPT !.step = step, !.new = new, !.access = access])
BY DEF FlightKnows

LEMMA SignInAnswered ==
  ASSUME NEW r, SignInKnows(r), NEW step, NEW new \in HandedOut, NEW access
  PROVE  SignInKnows([r EXCEPT !.step = step, !.new = new, !.access = access])
BY DEF SignInKnows

LEMMA NothingKnown == FlightKnows(NoFlight) /\ SignInKnows(NoSignIn)
BY DEF FlightKnows, SignInKnows, NoFlight, NoSignIn, HandedOut

\* The steps of the browser that change no token.
LEMMA SignInKept ==
  ASSUME BrowserInv, NEW t \in Tabs, NEW w \in Workers, NEW e \in Emails, SignIn(t, w, e)
  PROVE  BrowserInv'
<1>1. TokensInv' /\ UNCHANGED <<tokens, storage, flight>>
  BY SignupTold DEF SignIn, Signup, Login, accountVars, BrowserInv
<1>2. PICK r : r = [NoSignIn EXCEPT !.step = "asked", !.user = e, !.fresh = e \notin users]
  OBVIOUS
<1>3. SignInKnows(r)
  BY <1>2 DEF SignInKnows, NoSignIn, HandedOut
<1>4. signing' = [signing EXCEPT ![t] = r]
  BY <1>2 DEF SignIn
<1>5. signing' = [u \in Tabs |-> signing'[u]] /\ \A u \in Tabs : SignInKnows(signing'[u])
  BY <1>3, <1>4 DEF BrowserInv
<1> QED  BY <1>1, <1>5 DEF BrowserInv, HandedOut, FlightKnows, SignInKnows

LEMMA SignInEnds ==
  ASSUME BrowserInv, NEW t \in Tabs, SignInLands(t) \/ Fallback(t)
  PROVE  BrowserInv'
<1>1. UNCHANGED <<pc, my, overlapped, irregular, sessions, tokens, held, flight>>
  BY DEF SignInLands, Fallback, requestVars, accountVars
<1>2. TokensInv'
  BY <1>1, RestTold DEF BrowserInv, TokensInv, SessionInv, TokensStand
<1>3. signing' = [signing EXCEPT ![t] = NoSignIn]
  BY DEF SignInLands, Fallback
<1>4. signing' = [u \in Tabs |-> signing'[u]] /\ \A u \in Tabs : SignInKnows(signing'[u])
  BY <1>3, NothingKnown DEF BrowserInv
<1>5. SignInKnows(signing[t])
  BY DEF BrowserInv
<1>6. DOMAIN storage' = {"access", "refresh", "user"} /\ storage'.refresh \in HandedOut
  <2>1. CASE SignInLands(t)
    BY <1>5, <2>1 DEF SignInLands, SignInKnows
  <2>2. CASE Fallback(t)
    BY <2>2 DEF Fallback, BrowserInv
  <2> QED  BY <2>1, <2>2
<1> QED  BY <1>1, <1>2, <1>4, <1>6 DEF BrowserInv, HandedOut, FlightKnows, SignInKnows

\* A fetch, a sign-out, or the end of an access token.
Fetching ==
  \/ SignOut \/ \E n \in DOMAIN accessOf : AccessEnds(n)
  \/ \E f \in Fetches : (\E me \in BOOLEAN : SendFetch(f, me)) \/ Looked(f) \/ Arrives(f) \/ Unauthorized(f)

LEMMA FetchesKept ==
  ASSUME BrowserInv, Fetching
  PROVE  BrowserInv'
<1>1. UNCHANGED <<pc, my, overlapped, irregular, sessions, tokens, held, signing>>
  BY DEF Fetching, SignOut, AccessEnds, SendFetch, Looked, Arrives, Unauthorized,
         requestVars, accountVars
<1>2. TokensInv'
  BY <1>1, RestTold DEF BrowserInv, TokensInv, SessionInv, TokensStand
<1>3. DOMAIN storage' = {"access", "refresh", "user"} /\ storage'.refresh \in HandedOut
  <2>1. storage' = storage \/ storage' = SignedOut \/ \E user : storage' = [storage EXCEPT !.user = user]
    BY DEF Fetching, SignOut, AccessEnds, SendFetch, Looked, Arrives, Unauthorized, Throw
  <2> QED  BY <2>1 DEF SignedOut, BrowserInv, HandedOut
<1>4. flight' = [f \in Fetches |-> flight'[f]] /\ \A f \in Fetches : FlightKnows(flight'[f])
  <2>1. CASE UNCHANGED flight
    BY <2>1 DEF BrowserInv
  <2>2. ASSUME NEW f \in Fetches, Unauthorized(f), flight' # flight
        PROVE  flight' = [g \in Fetches |-> flight'[g]] /\ \A g \in Fetches : FlightKnows(flight'[g])
    <3>1. PICK r : r = [NoFlight EXCEPT !.step = "asked", !.token = storage.refresh]
      OBVIOUS
    <3>2. flight' = [flight EXCEPT ![f] = r] /\ storage.refresh # 0
      BY <2>2, <3>1 DEF Unauthorized
    <3>3. FlightKnows(r)
      BY <3>1, <3>2 DEF FlightKnows, NoFlight, HandedOut, BrowserInv
    <3> QED  BY <3>2, <3>3 DEF BrowserInv
  <2> QED  BY <2>1, <2>2 DEF Fetching, SignOut, AccessEnds, SendFetch, Looked, Arrives
<1> QED  BY <1>1, <1>2, <1>3, <1>4 DEF BrowserInv, HandedOut, FlightKnows, SignInKnows

LEMMA FlightsKept ==
  ASSUME BrowserInv, NEW f \in Fetches,
         (\E w \in Workers : RefreshArrives(f, w)) \/ FlightLands(f) \/ AnswerLost(f)
  PROVE  BrowserInv'
<1>0. FlightKnows(flight[f]) /\ TokensInv
  BY DEF BrowserInv
<1>1. UNCHANGED <<tokens, signing>>
  BY DEF RefreshArrives, FlightLands, AnswerLost, Refresh, accountVars
<1>2. TokensInv'
  <2>1. ASSUME NEW w \in Workers, RefreshArrives(f, w) PROVE TokensInv'
    <3>1. CASE UNCHANGED <<pc, my, overlapped, irregular, sessions, tokens, held>>
      BY <1>0, <3>1, RestTold DEF TokensInv, SessionInv, TokensStand
    <3>2. CASE Refresh(w, flight[f].token)
      <4>1. flight[f].token \in DOMAIN tokens
        BY <1>0, <2>1 DEF RefreshArrives, FlightKnows
      <4>2. PICK n \in DOMAIN tokens : n = flight[f].token
        BY <4>1
      <4> QED  BY <1>0, <3>2, <4>2, RefreshTold
    <3> QED  BY <2>1, <3>1, <3>2 DEF RefreshArrives, requestVars, accountVars
  <2>2. CASE FlightLands(f)
    BY <1>0, <2>2, RestTold DEF FlightLands, requestVars, accountVars, TokensInv, SessionInv, TokensStand
  <2>3. CASE AnswerLost(f)
    BY <1>0, <2>3, RestTold DEF AnswerLost, Irregular, accountVars, TokensInv, SessionInv, TokensStand
  <2> QED  BY <2>1, <2>2, <2>3
<1>3. DOMAIN storage' = {"access", "refresh", "user"} /\ storage'.refresh \in HandedOut
  <2>1. CASE UNCHANGED storage
    BY <2>1 DEF BrowserInv
  <2>2. CASE FlightLands(f)
    <3>1. \/ storage' = SignedOut
          \/ storage' = [storage EXCEPT !.access = flight[f].access, !.refresh = flight[f].new]
      BY <2>2 DEF FlightLands, Throw
    <3>2. flight[f].new \in HandedOut /\ DOMAIN storage = {"access", "refresh", "user"}
      BY <1>0 DEF FlightKnows, BrowserInv
    <3>3. PICK new : new = flight[f].new
      OBVIOUS
    <3>4. PICK access : access = flight[f].access
      OBVIOUS
    <3>5. CASE storage' = SignedOut
      BY <3>5 DEF SignedOut, HandedOut
    <3>6. CASE storage' = [storage EXCEPT !.access = access, !.refresh = new]
      BY <3>2, <3>3, <3>6
    <3> QED  BY <3>1, <3>3, <3>4, <3>5, <3>6
  <2> QED  BY <2>1, <2>2 DEF RefreshArrives, AnswerLost
<1>4. \E r : flight' = [flight EXCEPT ![f] = r] /\ FlightKnows(r)
  <2>1. CASE FlightLands(f)
    BY <2>1, NothingKnown DEF FlightLands
  <2>2. ASSUME NEW step \in {"failed", "served"}, flight' = [flight EXCEPT ![f].step = step]
        PROVE  \E r : flight' = [flight EXCEPT ![f] = r] /\ FlightKnows(r)
    <3>1. FlightKnows([flight[f] EXCEPT !.step = step])
      BY <1>0, FlightGoesOn
    <3>2. flight' = [flight EXCEPT ![f] = [flight[f] EXCEPT !.step = step]]
      BY <2>2
    <3> QED  BY <3>1, <3>2
  <2> QED  BY <2>1, <2>2 DEF RefreshArrives, AnswerLost
<1>5. flight' = [g \in Fetches |-> flight'[g]] /\ \A g \in Fetches : FlightKnows(flight'[g])
  BY <1>4 DEF BrowserInv
<1> QED  BY <1>1, <1>2, <1>3, <1>5 DEF BrowserInv, HandedOut, FlightKnows, SignInKnows

\* An answer of the server's.
LEMMA ReplyKept ==
  ASSUME BrowserInv, TokensInv', TokensStay, UNCHANGED storage,
         NEW w \in Workers, NEW step \in {"done", "failed"}, NEW new, NEW access,
         new \in HandedOut', Reply(w, step, new, access)
  PROVE  BrowserInv'
<1>1. ASSUME NEW f \in Fetches PROVE FlightKnows(flight[f])'
  <2>1. FlightKnows(flight[f])
    BY DEF BrowserInv
  <2>2. flight'[f] = flight[f] \/ flight'[f] = [flight[f] EXCEPT !.step = step, !.new = new, !.access = access]
    BY DEF Reply
  <2> QED  BY <2>1, <2>2 DEF FlightKnows, HandedOut, TokensStay
<1>2. ASSUME NEW t \in Tabs PROVE SignInKnows(signing[t])'
  <2>1. SignInKnows(signing[t])
    BY DEF BrowserInv
  <2>2. signing'[t] = signing[t] \/ signing'[t] = [signing[t] EXCEPT !.step = step, !.new = new, !.access = access]
    BY DEF Reply
  <2> QED  BY <2>1, <2>2 DEF SignInKnows, HandedOut, TokensStay
<1>3. flight' = [f \in Fetches |-> flight'[f]] /\ signing' = [t \in Tabs |-> signing'[t]]
  BY DEF Reply
<1> QED  BY <1>1, <1>2, <1>3, StillKnown DEF BrowserInv

LEMMA AnswersKept ==
  ASSUME BrowserInv, NEW w \in Workers, Issued(w) \/ Worked(w) \/ CutShort(w)
  PROVE  BrowserInv'
<1>0. TokensInv
  BY DEF BrowserInv
<1>1. CASE Issued(w)
  <2>1. TokensInv' /\ Len(tokens) + 1 \in DOMAIN tokens' /\ TokensStay
    BY <1>0, <1>1, IssueTold DEF Issued, TokensStay
  <2>2. PICK new : new = Len(tokens) + 1
    OBVIOUS
  <2>3. PICK access : access = Len(accessOf) + 1
    OBVIOUS
  <2>4. Reply(w, "done", new, access) /\ UNCHANGED storage
    BY <1>1, <2>2, <2>3 DEF Issued
  <2>5. new \in HandedOut'
    BY <2>1, <2>2 DEF HandedOut
  <2> QED  BY <2>1, <2>4, <2>5, ReplyKept
<1>2. CASE Worked(w)
  <2>1. TokensInv'
    BY <1>0, <1>2, ServerTold DEF Worked, TokenSteps
  <2>2. TokensStay
    BY <1>0, <1>2, RevokeTold DEF Worked, CreateUser, CreateSession, TokensStay
  <2>3. CASE Reply(w, "failed", 0, 0)
    <3>1. 0 \in HandedOut' /\ UNCHANGED storage
      BY <1>2 DEF HandedOut, Worked
    <3> QED  BY <2>1, <2>2, <2>3, <3>1, ReplyKept
  <2>4. CASE UNCHANGED <<serves, flight, signing>>
    BY <1>2, <2>1, <2>2, <2>4, BrowserRests DEF Worked
  <2> QED  BY <1>2, <2>3, <2>4 DEF Worked
<1>3. CASE CutShort(w)
  <2>1. Abort(w) /\ UNCHANGED <<sessions, tokens, held, storage>> /\ Reply(w, "failed", 0, 0)
    BY <1>3 DEF CutShort, accountVars
  <2>2. TokensInv'
    BY <1>0, <2>1, CutShortTold DEF TokensStand
  <2>3. TokensStay /\ 0 \in HandedOut'
    BY <2>1 DEF TokensStay, HandedOut
  <2> QED  BY <2>1, <2>2, <2>3, ReplyKept
<1> QED  BY <1>1, <1>2, <1>3

LEMMA TokensNeverGo ==
  ASSUME TokensInv, [AccountNext]_allAccountVars
  PROVE  TokensStay
<1>1. CASE UNCHANGED tokens
  BY <1>1 DEF TokensStay
<1>2. ASSUME NEW w \in Workers, Issue(w) \/ Revoke(w) PROVE TokensStay
  BY <1>2, IssueTold, RevokeTold DEF TokensStay
<1>3. ASSUME NEW t \in DOMAIN tokens, TokenEnds(t) PROVE TokensStay
  BY <1>3, TokenEndsTold DEF TokensStay
<1> QED  BY <1>1, <1>2, <1>3 DEF AccountNext, AccountServe, allAccountVars, accountVars, LinkRest, SessionRest,
               Signup, Login, LogoutAll, AskLink, Refresh, Logout, FollowLink,
               CreateUser, CreateSession, SaveLink, UseLink, Apply, LinkEnds

LEMMA BrowserKept ==
  ASSUME BrowserInv, [WebNext]_allVars
  PROVE  BrowserInv'
<1>0. TokensInv
  BY DEF BrowserInv
<1>1. ASSUME [AccountNext]_allAccountVars, UNCHANGED clientVars PROVE BrowserInv'
  <2>1. TokensInv' /\ TokensStay
    BY <1>0, <1>1, DevicesTold, TokensNeverGo
  <2>2. UNCHANGED <<storage, flight, signing>>
    BY <1>1 DEF clientVars
  <2> QED  BY <2>1, <2>2, BrowserRests
<1>2. CASE UNCHANGED allVars
  BY <1>1, <1>2 DEF allVars
<1>3. CASE Devices
  BY <1>1, <1>3 DEF Devices
<1>4. ASSUME NEW n \in DOMAIN tokens, RefreshEnds(n) PROVE BrowserInv'
  <2>1. TokensInv' /\ TokensStay
    BY <1>0, <1>4, TokenEndsTold DEF RefreshEnds, TokensStay
  <2>2. UNCHANGED <<storage, flight, signing>>
    BY <1>4 DEF RefreshEnds, clientVars
  <2> QED  BY <2>1, <2>2, BrowserRests
<1>5. ASSUME NEW t \in Tabs, SignInLands(t) \/ Fallback(t) \/ \E w \in Workers, e \in Emails : SignIn(t, w, e)
      PROVE BrowserInv'
  BY <1>5, SignInKept, SignInEnds
<1> QED  BY <1>2, <1>3, <1>4, <1>5, FetchesKept, FlightsKept, AnswersKept DEF WebNext, Fetching

LEMMA BrowserBegins == ASSUME WebInit PROVE BrowserInv
<1>1. TokensInv
  BY TokensBegin DEF WebInit
<1>2. /\ storage = SignedOut /\ flight = [f \in Fetches |-> NoFlight]
      /\ signing = [t \in Tabs |-> NoSignIn]
  BY DEF WebInit
<1>3. DOMAIN storage = {"access", "refresh", "user"} /\ storage.refresh \in HandedOut
  BY <1>2 DEF SignedOut, HandedOut
<1>4. flight = [f \in Fetches |-> flight[f]] /\ \A f \in Fetches : FlightKnows(flight[f])
  BY <1>2, NothingKnown
<1>5. signing = [t \in Tabs |-> signing[t]] /\ \A t \in Tabs : SignInKnows(signing[t])
  BY <1>2, NothingKnown
<1> QED  BY <1>1, <1>3, <1>4, <1>5 DEF BrowserInv

\* The same of a browser with any number of tabs, whose fetches refresh for each
\* other and whose answers arrive late (WebSession.WebSpec).
THEOREM BrowsersKeepOneToken == WebSpec => []OneTokenPerSession
<1>1. BrowserInv => OneTokenPerSession
  BY OneTokenEach DEF BrowserInv
<1>2. WebInit => BrowserInv
  BY BrowserBegins
<1>3. BrowserInv /\ [WebNext]_allVars => BrowserInv'
  BY BrowserKept
<1> QED  BY <1>1, <1>2, <1>3, PTL DEF WebSpec

-----------------------------------------------------------------------------
(* A browser with one tab: whose the tokens are that it stores, and that they are good *)

\* Whose a refresh token is.
UserOf(n) == sessions[tokens[n].session].user

\* The two tokens of an answer are one user's.
Twins(r) == r.new \in DOMAIN tokens /\ r.access \in DOMAIN accessOf /\ UserOf(r.new) = accessOf[r.access]
FlightHas(r) ==
  /\ r.step # "none" => r.token \in DOMAIN tokens
  /\ r.step = "done" => Twins(r) /\ UserOf(r.new) = UserOf(r.token)
SignInHas(r) ==
  /\ r.step # "none" => r.user \in Emails
  /\ r.step = "done" => Twins(r) /\ UserOf(r.new) = r.user
FetchHas(r) ==
  /\ DOMAIN r = {"step", "access", "start", "me", "leader"}
  /\ r.step # "none" => r.access \in DOMAIN accessOf /\ r.start \in DOMAIN accessOf

Stored ==
  /\ accessOf \in Seq(Emails)
  /\ storage.access \in {0} \cup DOMAIN accessOf
  /\ fetch = [f \in Fetches |-> fetch[f]]
  /\ \A f \in Fetches :
       /\ FetchHas(fetch[f]) /\ FlightHas(flight[f])
       /\ f[1] \in accountScene.tabs \/ (fetch[f].step = "none" /\ flight[f].step = "none")
  /\ \A t \in Tabs : SignInHas(signing[t]) /\ (t \in accountScene.tabs \/ signing[t].step = "none")

\* What a request knows of the flight or the sign-in that it serves.
OnFlight(step, work, r) ==
  /\ r.step = "served"
  /\ \/ step = "revoke" /\ work.token = r.token
     \/ step = "issue" /\ sessions[work.session].user = UserOf(r.token)
OnSignIn(step, work, r) ==
  /\ r.step = "asked"
  /\ \/ step \in {"createUser", "createSession"} /\ work.user = r.user
     \/ step = "issue" /\ sessions[work.session].user = r.user
Serving ==
  /\ serves = [w \in Workers |-> serves[w]]
  /\ \A w \in Workers : /\ serves[w] \subseteq Fetches \cup Tabs
                        /\ \A f \in Fetches \cap serves[w] : OnFlight(pc[w], my[w], flight[f])
                        /\ \A t \in Tabs \cap serves[w] : OnSignIn(pc[w], my[w], signing[t])
  /\ \A v, w \in Workers : \A x \in serves[v] : x \in serves[w] => v = w

\* An access token that no tab has stored yet.
OnTheWay(a) == \/ \E f \in Fetches : flight[f].step = "done" /\ flight[f].access = a
               \/ \E t \in Tabs : signing[t].step = "done" /\ signing[t].access = a

\* What is stored is one user's, and the one flight is for the token that is stored.
Own ==
  /\ storage.user = NoUser => storage = SignedOut
  /\ storage.user # NoUser => /\ storage.access # 0 /\ accessOf[storage.access] = storage.user
                              /\ storage.refresh # 0 => UserOf(storage.refresh) = storage.user
  /\ \A f, g \in Flying : f = g
  /\ \A f \in Flying : storage.refresh = flight[f].token
  /\ \A t \in Tabs : signing[t].step # "none" => storage = SignedOut /\ Flying = {}
  /\ ~OnTheWay(storage.access)
  /\ \A f \in Fetches : fetch[f].step # "none" =>
       /\ ~OnTheWay(fetch[f].start)
       /\ fetch[f].access = fetch[f].start \/ fetch[f].start # storage.access

\* The token that is stored was not used, unless the answer is under way.
UsableFlight(r) ==
  /\ r.step = "failed" => tokens[r.token].revoked \/ tokens[r.token].late
  /\ r.step = "done" => ~tokens[r.new].revoked
Usable ==
  /\ ~thrown
  /\ storage.refresh # 0 /\ tokens[storage.refresh].revoked => Flying # {}
  /\ \A f \in Fetches : UsableFlight(flight[f])
  /\ \A t \in Tabs : signing[t].step = "done" => ~tokens[signing[t].new].revoked

TabInv == Stored /\ Serving /\ (~crossed => Own) /\ (~crossed /\ ~irregular => Usable)

\* Tables grow; a row keeps its user or its session, and what is revoked or late stays so.
Grows ==
  /\ \A s \in DOMAIN sessions : s \in DOMAIN sessions' /\ sessions'[s].user = sessions[s].user
  /\ \A n \in DOMAIN tokens : /\ n \in DOMAIN tokens' /\ tokens'[n].session = tokens[n].session
                              /\ tokens[n].revoked => tokens'[n].revoked
                              /\ tokens[n].late => tokens'[n].late
  /\ \A a \in DOMAIN accessOf : a \in DOMAIN accessOf' /\ accessOf'[a] = accessOf[a]

LEMMA Tables ==
  ASSUME BrowserInv
  PROVE  /\ Moving /\ TokensInv /\ sessions \in Seq(DeviceRow) /\ tokens \in Seq(TokenRow)
         /\ DOMAIN sessions = 1 .. Len(sessions) /\ DOMAIN tokens = 1 .. Len(tokens)
         /\ Len(sessions) \in Nat /\ Len(tokens) \in Nat
         /\ \A n \in DOMAIN tokens : tokens[n].session \in DOMAIN sessions
         /\ \A s \in DOMAIN sessions : sessions[s].user \in Emails
         /\ \A w \in Workers : TokenHolds(pc[w], my[w])
<1>1. TokensInv /\ SessionInv /\ Moving /\ sessions \in Seq(DeviceRow) /\ tokens \in Seq(TokenRow)
  BY DEF BrowserInv, TokensInv, SessionInv, SessionShapes
<1>2. \A n \in DOMAIN tokens : tokens[n] \in TokenRow
  BY <1>1
<1>3. \A s \in DOMAIN sessions : sessions[s] \in DeviceRow
  BY <1>1
<1> QED  BY <1>1, <1>2, <1>3 DEF TokenRow, DeviceRow, SessionInv

LEMMA UsersStay ==
  ASSUME BrowserInv, Grows
  PROVE  \A n \in DOMAIN tokens : n \in DOMAIN tokens' /\ UserOf(n)' = UserOf(n)
BY Tables DEF Grows, UserOf

\* What is known of a fetch, a flight or a sign-in stays known.
LEMMA StillHas ==
  ASSUME BrowserInv, Grows
  PROVE  \A r : /\ Twins(r) => Twins(r)'
                /\ FlightHas(r) => FlightHas(r)'
                /\ SignInHas(r) => SignInHas(r)'
                /\ FetchHas(r) => FetchHas(r)'
<1> TAKE r
<1>1. Twins(r) => Twins(r)' /\ UserOf(r.new)' = UserOf(r.new)
  BY UsersStay DEF Twins, Grows
<1>2. FlightHas(r) => FlightHas(r)'
  BY <1>1, UsersStay DEF FlightHas
<1>3. SignInHas(r) => SignInHas(r)'
  BY <1>1 DEF SignInHas
<1>4. FetchHas(r) => FetchHas(r)'
  BY DEF FetchHas, Grows
<1> QED  BY <1>1, <1>2, <1>3, <1>4

LEMMA StillServes ==
  ASSUME BrowserInv, Grows, NEW step, NEW work, TokenHolds(step, work), NEW r
  PROVE  /\ FlightHas(r) /\ OnFlight(step, work, r) => OnFlight(step, work, r)'
         /\ OnSignIn(step, work, r) => OnSignIn(step, work, r)'
BY UsersStay DEF TokenHolds, Grows, FlightHas, OnFlight, OnSignIn

LEMMA RestGrows ==
  ASSUME UNCHANGED <<sessions, tokens, accessOf>>
  PROVE  Grows
BY DEF Grows

LEMMA RevokeGrows ==
  ASSUME BrowserInv, NEW w \in Workers, Revoke(w), UNCHANGED accessOf
  PROVE  /\ Grows /\ UNCHANGED sessions /\ my[w].token \in DOMAIN tokens
         /\ \A n \in DOMAIN tokens : /\ n # my[w].token => tokens'[n] = tokens[n]
                                     /\ n = my[w].token => tokens'[n].revoked = TRUE
         /\ Moved(w, "issue", [session |-> tokens[my[w].token].session]) /\ pc[w] = "revoke"
<1>1. tokens' = [tokens EXCEPT ![my[w].token].revoked = TRUE] /\ UNCHANGED sessions /\ pc[w] = "revoke"
  BY DEF Revoke, Rotated, At
<1>2. my[w].token \in DOMAIN tokens
  BY <1>1, Tables DEF TokenHolds
<1>3. PICK t0 : t0 = my[w].token
  OBVIOUS
<1>4. tokens[t0] \in TokenRow /\ t0 \in DOMAIN tokens
  BY <1>2, <1>3, Tables
<1>5. /\ [tokens[t0] EXCEPT !.revoked = TRUE].session = tokens[t0].session
      /\ [tokens[t0] EXCEPT !.revoked = TRUE].revoked = TRUE
      /\ [tokens[t0] EXCEPT !.revoked = TRUE].late = tokens[t0].late
  BY <1>4 DEF TokenRow
<1>6. /\ DOMAIN tokens' = DOMAIN tokens /\ tokens'[t0] = [tokens[t0] EXCEPT !.revoked = TRUE]
      /\ \A n \in DOMAIN tokens : n # t0 => tokens'[n] = tokens[n]
  BY <1>1, <1>3, <1>4
<1>7. Moved(w, "issue", [session |-> tokens[my[w].token].session])
  BY Tables, WebAwaits DEF Revoke
<1> HIDE <1>1
<1>8. Grows
  BY <1>1, <1>5, <1>6 DEF Grows
<1> QED  BY <1>1, <1>2, <1>3, <1>5, <1>6, <1>7, <1>8

LEMMA TokenEndsGrows ==
  ASSUME BrowserInv, NEW t0 \in DOMAIN tokens, TokenEnds(t0), UNCHANGED accessOf
  PROVE  /\ Grows
         /\ \A n \in DOMAIN tokens : tokens'[n].revoked = tokens[n].revoked
<1>1. tokens' = [tokens EXCEPT ![t0].late = TRUE] /\ UNCHANGED sessions
  BY DEF TokenEnds
<1>2. tokens[t0] \in TokenRow
  BY Tables
<1>3. /\ [tokens[t0] EXCEPT !.late = TRUE].session = tokens[t0].session
      /\ [tokens[t0] EXCEPT !.late = TRUE].revoked = tokens[t0].revoked
      /\ [tokens[t0] EXCEPT !.late = TRUE].late = TRUE
  BY <1>2 DEF TokenRow
<1>4. /\ DOMAIN tokens' = DOMAIN tokens /\ tokens'[t0] = [tokens[t0] EXCEPT !.late = TRUE]
      /\ \A n \in DOMAIN tokens : n # t0 => tokens'[n] = tokens[n]
  BY <1>1
<1>5. UNCHANGED sessions
  BY <1>1
<1> HIDE <1>1
<1> QED  BY <1>3, <1>4, <1>5 DEF Grows

LEMMA CreateSessionGrows ==
  ASSUME BrowserInv, NEW w \in Workers, CreateSession(w), UNCHANGED accessOf
  PROVE  /\ Grows /\ UNCHANGED tokens /\ pc[w] = "createSession"
         /\ \E n \in DOMAIN sessions' : /\ sessions'[n].user = my[w].user
                                        /\ Moved(w, "issue", [session |-> n])
<1>1. /\ pc[w] = "createSession" /\ UNCHANGED tokens
      /\ sessions' = Append(sessions, [user |-> my[w].user, revoked |-> FALSE])
      /\ Await(w, "issue", [session |-> Len(sessions) + 1])
  BY DEF CreateSession, At
<1>2. PICK n : n = Len(sessions) + 1
  OBVIOUS
<1>3. [user |-> my[w].user, revoked |-> FALSE] \in DeviceRow
  BY <1>1, Tables DEF TokenHolds, DeviceRow
<1>4. PICK row \in DeviceRow : row = [user |-> my[w].user, revoked |-> FALSE]
  BY <1>3
<1>5. /\ DOMAIN sessions' = 1 .. n /\ n \in DOMAIN sessions' /\ sessions'[n] = row
      /\ \A s \in DOMAIN sessions : s \in DOMAIN sessions' /\ sessions'[s] = sessions[s]
  <2>1. Append(sessions, row) = sessions' /\ sessions \in Seq(DeviceRow)
    BY <1>1, <1>4, Tables
  <2> QED  BY <1>2, <2>1, InsertedRow
<1>6. Moved(w, "issue", [session |-> n])
  BY <1>1, <1>2, Tables, WebAwaits
<1>7. Grows
  BY <1>1, <1>5 DEF Grows
<1> QED  BY <1>1, <1>4, <1>5, <1>6, <1>7

\* A token is handed out, and with it an access token of the same user.
LEMMA IssueGrows ==
  ASSUME BrowserInv, accessOf \in Seq(Emails), NEW w \in Workers, Issue(w),
         accessOf' = Append(accessOf, sessions[my[w].session].user),
         NEW n, n = Len(tokens) + 1, NEW a, a = Len(accessOf) + 1
  PROVE  /\ Grows /\ UNCHANGED sessions /\ accessOf' \in Seq(Emails) /\ pc[w] = "issue"
         /\ n \in DOMAIN tokens' /\ n \notin DOMAIN tokens /\ tokens'[n].revoked = FALSE
         /\ \A m \in DOMAIN tokens : tokens'[m] = tokens[m]
         /\ a \in DOMAIN accessOf' /\ a \notin DOMAIN accessOf /\ a # 0
         /\ accessOf'[a] = sessions[my[w].session].user /\ UserOf(n)' = sessions[my[w].session].user
         /\ Moved(w, "idle", NoWork)
<1>1. /\ pc[w] = "issue" /\ UNCHANGED sessions
      /\ tokens' = Append(tokens, [session |-> my[w].session, revoked |-> FALSE, late |-> FALSE])
      /\ Moved(w, "idle", NoWork)
  BY Tables, WebAnswers DEF Issue, At
<1>2. my[w].session \in DOMAIN sessions
  BY <1>1, Tables DEF TokenHolds
<1>3. PICK u \in Emails : u = sessions[my[w].session].user
  BY <1>2, Tables
<1>4. PICK row \in TokenRow : row = [session |-> my[w].session, revoked |-> FALSE, late |-> FALSE]
  BY <1>2 DEF TokenRow
<1>5. /\ DOMAIN tokens = 1 .. Len(tokens) /\ DOMAIN tokens' = 1 .. n /\ tokens'[n] = row /\ n \in Nat /\ n > Len(tokens)
      /\ Len(tokens) \in Nat /\ \A m \in DOMAIN tokens : tokens'[m] = tokens[m]
  <2>1. Append(tokens, row) = tokens' /\ tokens \in Seq(TokenRow)
    BY <1>1, <1>4, Tables
  <2> QED  BY <2>1, InsertedRow
<1>6. /\ DOMAIN accessOf = 1 .. Len(accessOf) /\ DOMAIN accessOf' = 1 .. a /\ accessOf'[a] = u /\ a \in Nat /\ a > Len(accessOf)
      /\ Len(accessOf) \in Nat /\ \A m \in DOMAIN accessOf : accessOf'[m] = accessOf[m]
      /\ accessOf' \in Seq(Emails)
  <2>1. Append(accessOf, u) = accessOf'
    BY <1>3
  <2> QED  BY <2>1, InsertedRow
<1>7. /\ n \in DOMAIN tokens' /\ n \notin DOMAIN tokens /\ DOMAIN tokens \subseteq DOMAIN tokens'
      /\ a \in DOMAIN accessOf' /\ a \notin DOMAIN accessOf /\ DOMAIN accessOf \subseteq DOMAIN accessOf' /\ a # 0
  BY <1>5, <1>6
<1>8. Grows
  BY <1>1, <1>5, <1>6, <1>7 DEF Grows
<1>9. tokens'[n].revoked = FALSE /\ UserOf(n)' = sessions[my[w].session].user
  BY <1>1, <1>4, <1>5 DEF UserOf
<1> QED  BY <1>1, <1>3, <1>5, <1>6, <1>7, <1>8, <1>9

-----------------------------------------------------------------------------
(* The browser's steps *)

LEMMA StillStored ==
  ASSUME BrowserInv, Stored, Grows, UNCHANGED accountScene, accessOf' \in Seq(Emails),
         storage'.access \in {0} \cup DOMAIN accessOf', fetch' = [f \in Fetches |-> fetch'[f]],
         \A f \in Fetches :
           /\ \/ fetch'[f] = fetch[f]
              \/ FetchHas(fetch[f])' /\ (fetch'[f].step = "none" \/ f[1] \in accountScene.tabs)
           /\ \/ flight'[f] = flight[f]
              \/ FlightHas(flight[f])' /\ (flight'[f].step = "none" \/ f[1] \in accountScene.tabs),
         \A t \in Tabs :
           \/ signing'[t] = signing[t]
           \/ SignInHas(signing[t])' /\ (signing'[t].step = "none" \/ t \in accountScene.tabs)
  PROVE  Stored'
<1>1. ASSUME NEW f \in Fetches
      PROVE  /\ FetchHas(fetch[f])' /\ FlightHas(flight[f])'
             /\ f[1] \in accountScene.tabs \/ (fetch'[f].step = "none" /\ flight'[f].step = "none")
  <2>1. /\ FetchHas(fetch[f]) /\ FlightHas(flight[f])
        /\ f[1] \in accountScene.tabs \/ (fetch[f].step = "none" /\ flight[f].step = "none")
    BY DEF Stored
  <2>2. PICK r : r = fetch[f]
    OBVIOUS
  <2>3. PICK q : q = flight[f]
    OBVIOUS
  <2>4. FetchHas(r)' /\ FlightHas(q)'
    BY <2>1, <2>2, <2>3, StillHas
  <2>5. fetch'[f] = fetch[f] => FetchHas(fetch[f])'
    BY <2>2, <2>4 DEF FetchHas
  <2>6. flight'[f] = flight[f] => FlightHas(flight[f])'
    BY <2>3, <2>4 DEF FlightHas, Twins, UserOf
  <2> QED  BY <2>1, <2>5, <2>6
<1>2. ASSUME NEW t \in Tabs
      PROVE  SignInHas(signing[t])' /\ (t \in accountScene.tabs \/ signing'[t].step = "none")
  <2>1. SignInHas(signing[t]) /\ (t \in accountScene.tabs \/ signing[t].step = "none")
    BY DEF Stored
  <2>2. PICK r : r = signing[t]
    OBVIOUS
  <2>3. SignInHas(r)'
    BY <2>1, <2>2, StillHas
  <2>4. signing'[t] = signing[t] => SignInHas(signing[t])'
    BY <2>2, <2>3 DEF SignInHas, Twins, UserOf
  <2> QED  BY <2>1, <2>4
<1> QED  BY <1>1, <1>2 DEF Stored

\* Requests that are where they were serve what they served.
LEMMA StillServing ==
  ASSUME BrowserInv, Stored, Serving, Grows, NEW w \in Workers, NEW x \in serves[w],
         pc'[w] = pc[w], my'[w] = my[w],
         x \in Fetches => flight'[x] = flight[x], x \in Tabs => signing'[x] = signing[x]
  PROVE  /\ x \in Fetches => OnFlight(pc[w], my[w], flight[x])'
         /\ x \in Tabs => OnSignIn(pc[w], my[w], signing[x])'
<1>1. TokenHolds(pc[w], my[w])
  BY Tables
<1>2. PICK step : step = pc[w]
  OBVIOUS
<1>3. PICK work : work = my[w]
  OBVIOUS
<1>4. ASSUME x \in Fetches PROVE OnFlight(pc[w], my[w], flight[x])'
  <2>1. FlightHas(flight[x]) /\ OnFlight(step, work, flight[x])
    BY <1>2, <1>3, <1>4 DEF Stored, Serving
  <2>2. PICK r : r = flight[x]
    OBVIOUS
  <2>3. OnFlight(step, work, r)'
    BY <1>1, <1>2, <1>3, <2>1, <2>2, StillServes
  <2> QED  BY <1>2, <1>3, <1>4, <2>2, <2>3 DEF OnFlight, UserOf
<1>5. ASSUME x \in Tabs PROVE OnSignIn(pc[w], my[w], signing[x])'
  <2>1. OnSignIn(step, work, signing[x])
    BY <1>2, <1>3, <1>5 DEF Serving
  <2>2. PICK r : r = signing[x]
    OBVIOUS
  <2>3. OnSignIn(step, work, r)'
    BY <1>1, <1>2, <1>3, <2>1, <2>2, StillServes
  <2> QED  BY <1>2, <1>3, <1>5, <2>2, <2>3 DEF OnSignIn
<1> QED  BY <1>4, <1>5

\* No flight and no sign-in that is being served has changed.
LEMMA ServesOn ==
  ASSUME BrowserInv, Stored, Serving, Grows, UNCHANGED <<pc, my, serves>>,
         \A f \in Fetches : flight[f].step = "served" => flight'[f] = flight[f],
         \A t \in Tabs : signing[t].step = "asked" => signing'[t] = signing[t]
  PROVE  Serving'
<1>1. ASSUME NEW w \in Workers, NEW x \in serves[w]
      PROVE  /\ x \in Fetches => OnFlight(pc[w], my[w], flight[x])'
             /\ x \in Tabs => OnSignIn(pc[w], my[w], signing[x])'
  <2>1. x \in Fetches => flight'[x] = flight[x]
    BY DEF Serving, OnFlight
  <2>2. x \in Tabs => signing'[x] = signing[x]
    BY DEF Serving, OnSignIn
  <2> QED  BY <2>1, <2>2, StillServing
<1> QED  BY <1>1 DEF Serving

\* A request that arrives serves one flight or one sign-in.
LEMMA ServesNew ==
  ASSUME BrowserInv, Stored, Serving, Grows, NEW w \in Workers, NEW x \in Fetches \cup Tabs,
         Alone(w), serves' = [serves EXCEPT ![w] = {x}],
         \A y \in Fetches : y # x => flight'[y] = flight[y], \A y \in Tabs : y # x => signing'[y] = signing[y],
         x \in Fetches => OnFlight(pc[w], my[w], flight[x])' /\ flight[x].step # "served",
         x \in Tabs => OnSignIn(pc[w], my[w], signing[x])' /\ signing[x].step # "asked"
  PROVE  Serving'
<1>1. \A v \in Workers : x \notin serves[v]
  BY DEF Serving, OnFlight, OnSignIn
<1>2. /\ serves' = [v \in Workers |-> serves'[v]] /\ serves'[w] = {x}
      /\ \A v \in Workers : v # w => serves'[v] = serves[v]
  BY DEF Serving
<1>3. ASSUME NEW v \in Workers, v # w, NEW y \in serves[v]
      PROVE  /\ y \in Fetches => OnFlight(pc[v], my[v], flight[y])'
             /\ y \in Tabs => OnSignIn(pc[v], my[v], signing[y])'
  <2>1. y # x /\ pc'[v] = pc[v] /\ my'[v] = my[v]
    BY <1>1, <1>3 DEF Alone
  <2> QED  BY <2>1, StillServing
<1>4. \A v \in Workers : serves'[v] \subseteq Fetches \cup Tabs
  BY <1>2 DEF Serving
<1>5. \A u, v \in Workers : \A y \in serves'[u] : y \in serves'[v] => u = v
  BY <1>1, <1>2 DEF Serving
<1> QED  BY <1>2, <1>3, <1>4, <1>5 DEF Serving

LEMMA SignInTabs ==
  ASSUME OneTab, BrowserInv, TabInv, NEW t \in Tabs, NEW w \in Workers, NEW e \in Emails, SignIn(t, w, e)
  PROVE  TabInv'
<1>1. Stored /\ Serving
  BY DEF TabInv
<1>2. /\ UNCHANGED <<accountScene, sessions, tokens, storage, accessOf, fetch, flight, thrown, irregular>>
      /\ t \in accountScene.tabs /\ signing[t].step = "none" /\ storage.user = NoUser
      /\ crossed' = (crossed \/ Flying # {})
  BY DEF SignIn, Signup, Login, accountVars, AccountCall, Regular
<1>3. Grows
  BY <1>2, RestGrows
<1>4. PICK r : r = [NoSignIn EXCEPT !.step = "asked", !.user = e, !.fresh = e \notin users]
  OBVIOUS
<1>5. r.step = "asked" /\ r.user = e /\ signing' = [signing EXCEPT ![t] = r]
  BY <1>4 DEF SignIn, NoSignIn
<1>6. signing'[t] = r /\ \A u \in Tabs : u # t => signing'[u] = signing[u]
  BY <1>5 DEF BrowserInv
<1>7. SignInHas(signing[t])'
  BY <1>5, <1>6 DEF SignInHas
<1>8. Stored'
  BY <1>1, <1>2, <1>3, <1>6, <1>7, StillStored DEF Stored
<1>9. Serving'
  <2>1. PICK step \in {"createUser", "createSession"} : Await(w, step, [user |-> e])
    BY DEF SignIn, Signup, Login
  <2>2. Moved(w, step, [user |-> e])
    BY <2>1, Tables, WebAwaits
  <2>3. OnSignIn(pc[w], my[w], signing[t])'
    BY <1>5, <1>6, <2>2 DEF OnSignIn, Moved
  <2>4. t \notin Fetches /\ serves' = [serves EXCEPT ![w] = {t}]
    BY NamesDiffer DEF SignIn
  <2> QED  BY <1>1, <1>2, <1>3, <1>6, <2>2, <2>3, <2>4, ServesNew DEF Moved
<1>10. \A a : OnTheWay(a)' <=> OnTheWay(a)
  BY <1>2, <1>5, <1>6 DEF OnTheWay
<1>11. ~crossed' => ~crossed /\ Flying = {} /\ Flying' = {}
  BY <1>2 DEF Flying
<1>12. ~crossed' => Own'
  <2> SUFFICES ASSUME ~crossed' PROVE Own'
    OBVIOUS
  <2>1. Own /\ Flying = {} /\ Flying' = {}
    BY <1>11 DEF TabInv
  <2>2. storage = SignedOut
    BY <1>2, <2>1 DEF Own
  <2> QED  BY <1>2, <1>10, <2>1, <2>2 DEF Own, SignedOut
<1>13. ~crossed' /\ ~irregular' => Usable'
  BY <1>2, <1>5, <1>6, <1>11 DEF TabInv, Usable, UsableFlight
<1> QED  BY <1>8, <1>9, <1>12, <1>13 DEF TabInv

\* With one tab nothing else is under way while somebody signs in.
LEMMA SignInAlone ==
  ASSUME OneTab, Stored, Own, NEW t \in Tabs, signing[t].step # "none"
  PROVE  /\ storage = SignedOut /\ Flying = {}
         /\ \A u \in Tabs : u # t => signing[u].step = "none"
BY DEF OneTab, Stored, Own

LEMMA SignInLandsTabs ==
  ASSUME OneTab, BrowserInv, TabInv, NEW t \in Tabs, SignInLands(t)
  PROVE  TabInv'
<1>1. Stored /\ Serving
  BY DEF TabInv
<1>2. /\ UNCHANGED <<pc, my, serves, accountScene, sessions, tokens, accessOf, fetch, flight, thrown, irregular, crossed>>
      /\ signing[t].step = "done"
  BY DEF SignInLands, accountVars, requestVars
<1>3. Grows
  BY <1>2, RestGrows
<1>4. /\ signing' = [signing EXCEPT ![t] = NoSignIn] /\ NoSignIn.step = "none"
      /\ storage' = [access |-> signing[t].access, refresh |-> signing[t].new, user |-> signing[t].user]
  BY DEF SignInLands, NoSignIn
<1>5. /\ signing'[t] = NoSignIn /\ signing'[t].step = "none"
      /\ \A u \in Tabs : u # t => signing'[u] = signing[u]
  BY <1>4 DEF BrowserInv
<1>6. SignInHas(signing[t])'
  BY <1>5 DEF SignInHas
<1>7. SignInHas(signing[t])
  BY <1>1 DEF Stored
<1>8. /\ storage'.access \in DOMAIN accessOf /\ storage'.refresh \in DOMAIN tokens
      /\ UserOf(storage'.refresh) = storage'.user /\ accessOf[storage'.access] = storage'.user
      /\ storage'.user \in Emails
  BY <1>2, <1>4, <1>7 DEF SignInHas, Twins
<1>9. Stored'
  BY <1>1, <1>2, <1>3, <1>5, <1>6, <1>8, StillStored DEF Stored
<1>10. Serving'
  BY <1>1, <1>2, <1>3, <1>5, ServesOn
<1>11. ASSUME ~crossed PROVE Own'
  <2>1. Own
    BY <1>11 DEF TabInv
  <2>2. Flying = {} /\ \A u \in Tabs : u # t => signing[u].step = "none"
    BY <1>1, <1>2, <2>1, SignInAlone
  <2>3. Flying' = {} /\ \A u \in Tabs : signing'[u].step = "none"
    BY <1>2, <1>5, <2>2 DEF Flying
  <2>4. \A a : ~OnTheWay(a)'
    BY <2>3 DEF OnTheWay, Flying
  <2>5. storage'.user # NoUser /\ storage'.access # 0
    <3>1. DOMAIN accessOf = 1 .. Len(accessOf) /\ Len(accessOf) \in Nat
      BY <1>1 DEF Stored
    <3> QED  BY <1>8, <3>1, NamesDiffer
  <2>6. \A f \in Fetches : fetch[f].step # "none" => fetch[f].start # storage'.access
    BY <1>2, <1>4, <2>1 DEF Own, OnTheWay
  <2>7. UserOf(storage.refresh)' = storage'.user
    BY <1>2, <1>8 DEF UserOf
  <2> QED  BY <1>2, <1>8, <2>3, <2>4, <2>5, <2>6, <2>7 DEF Own
<1>12. ASSUME ~crossed, ~irregular PROVE Usable'
  <2>1. Own /\ Usable
    BY <1>12 DEF TabInv
  <2>2. ~tokens[storage'.refresh].revoked
    BY <1>2, <1>4, <2>1 DEF Usable
  <2> QED  BY <1>2, <1>5, <2>1, <2>2 DEF Usable, UsableFlight
<1> QED  BY <1>2, <1>9, <1>10, <1>11, <1>12 DEF TabInv

LEMMA FallbackTabs ==
  ASSUME OneTab, BrowserInv, TabInv, NEW t \in Tabs, Fallback(t)
  PROVE  TabInv'
<1> DEFINE a == Len(accessOf) + 1
<1>1. Stored /\ Serving /\ accessOf \in Seq(Emails)
  BY DEF TabInv, Stored
<1>2. /\ UNCHANGED <<pc, my, serves, accountScene, sessions, tokens, fetch, flight, thrown, irregular, crossed>>
      /\ signing[t].step = "failed" /\ signing' = [signing EXCEPT ![t] = NoSignIn] /\ NoSignIn.step = "none"
      /\ \/ UNCHANGED <<storage, accessOf>>
         \/ /\ accessOf' = Append(accessOf, signing[t].user)
            /\ storage' = [storage EXCEPT !.access = a, !.user = signing[t].user]
  BY DEF Fallback, requestVars, NoSignIn
<1>3. /\ signing'[t] = NoSignIn /\ signing'[t].step = "none"
      /\ \A u \in Tabs : u # t => signing'[u] = signing[u]
  BY <1>2 DEF BrowserInv
<1>4. signing[t].user \in Emails
  BY <1>1, <1>2 DEF Stored, SignInHas
<1>5. DOMAIN accessOf = 1 .. Len(accessOf) /\ Len(accessOf) \in Nat /\ a \in Nat /\ a \notin DOMAIN accessOf /\ a # 0
  BY <1>1
<1>6. CASE UNCHANGED <<storage, accessOf>>
  <2>1. Grows
    BY <1>2, <1>6, RestGrows
  <2>2. SignInHas(signing[t])'
    BY <1>3 DEF SignInHas
  <2>3. Stored'
    BY <1>1, <1>2, <1>3, <1>6, <2>1, <2>2, StillStored DEF Stored
  <2>4. Serving'
    BY <1>1, <1>2, <1>3, <2>1, ServesOn
  <2>5. Flying' = Flying /\ \A b : OnTheWay(b)' => OnTheWay(b)
    BY <1>2, <1>3 DEF Flying, OnTheWay
  <2>6. ~crossed => Own'
    BY <1>2, <1>3, <1>6, <2>5 DEF TabInv, Own, UserOf
  <2>7. ~crossed /\ ~irregular => Usable'
    BY <1>2, <1>3, <1>6, <2>5 DEF TabInv, Usable, UsableFlight
  <2> QED  BY <1>2, <2>3, <2>4, <2>6, <2>7 DEF TabInv
<1>7. CASE accessOf' = Append(accessOf, signing[t].user)
           /\ storage' = [storage EXCEPT !.access = a, !.user = signing[t].user]
  <2>1. /\ accessOf' \in Seq(Emails) /\ a \in DOMAIN accessOf' /\ accessOf'[a] = signing[t].user
        /\ \A b \in DOMAIN accessOf : b \in DOMAIN accessOf' /\ accessOf'[b] = accessOf[b]
    <3>1. /\ Append(accessOf, signing[t].user) \in Seq(Emails)
          /\ DOMAIN Append(accessOf, signing[t].user) = 1 .. (Len(accessOf) + 1)
          /\ \A b \in DOMAIN accessOf : Append(accessOf, signing[t].user)[b] = accessOf[b]
          /\ Append(accessOf, signing[t].user)[Len(accessOf) + 1] = signing[t].user
      BY <1>1, <1>4, InsertedRow
    <3> QED  BY <1>5, <1>7, <3>1
  <2>2. /\ storage'.access = a /\ storage'.user = signing[t].user /\ storage'.refresh = storage.refresh
    BY <1>7 DEF BrowserInv
  <2> HIDE DEF a
  <2>3. Grows
    BY <1>2, <2>1 DEF Grows
  <2>4. SignInHas(signing[t])'
    BY <1>3 DEF SignInHas
  <2>5. Stored'
    BY <1>1, <1>2, <1>3, <2>1, <2>2, <2>3, <2>4, StillStored DEF Stored
  <2>6. Serving'
    BY <1>1, <1>2, <1>3, <2>3, ServesOn
  <2>7. ASSUME ~crossed PROVE Own' /\ storage'.refresh = 0
    <3>1. Own
      BY <1>2, <2>7 DEF TabInv
    <3>2. storage = SignedOut /\ Flying = {} /\ \A u \in Tabs : u # t => signing[u].step = "none"
      BY <1>1, <1>2, <3>1, SignInAlone
    <3>3. Flying' = {} /\ \A u \in Tabs : signing'[u].step = "none"
      BY <1>2, <1>3, <3>2 DEF Flying
    <3>4. \A b : ~OnTheWay(b)'
      BY <3>3 DEF OnTheWay, Flying
    <3>5. storage'.refresh = 0
      BY <2>2, <3>2 DEF SignedOut
    <3>6. storage'.user # NoUser
      BY <1>4, <2>2, NamesDiffer
    <3>7. \A f \in Fetches : fetch[f].step # "none" => fetch[f].start # a
      BY <1>1, <1>5 DEF Stored, FetchHas
    <3> QED  BY <1>2, <1>5, <2>1, <2>2, <3>3, <3>4, <3>5, <3>6, <3>7 DEF Own
  <2>8. ASSUME ~crossed, ~irregular PROVE Usable'
    BY <1>2, <1>3, <2>7, <2>8 DEF TabInv, Usable, UsableFlight
  <2> QED  BY <1>2, <2>5, <2>6, <2>7, <2>8 DEF TabInv
<1> QED  BY <1>2, <1>6, <1>7

\* What is on the way was handed out: it is not 0.
LEMMA SomethingOnTheWay ==
  ASSUME Stored, NEW a, OnTheWay(a)
  PROVE  a \in DOMAIN accessOf /\ a # 0
<1>1. DOMAIN accessOf = 1 .. Len(accessOf) /\ Len(accessOf) \in Nat
  BY DEF Stored
<1>2. a \in DOMAIN accessOf
  BY DEF OnTheWay, Stored, FlightHas, SignInHas, Twins
<1> QED  BY <1>1, <1>2

\* The storage is cleared, by a sign-out or by a fetch without a flight.
LEMMA Cleared ==
  ASSUME Stored, Own, Flying' = {}, storage' = SignedOut, UNCHANGED signing,
         \A f \in Fetches : fetch'[f].step # "none" => fetch'[f] = fetch[f],
         \A a : OnTheWay(a)' => OnTheWay(a)
  PROVE  Own'
<1>1. storage'.user = NoUser /\ storage'.access = 0 /\ storage'.refresh = 0
  BY DEF SignedOut
<1>2. ~OnTheWay(0)'
  BY SomethingOnTheWay
<1>3. ASSUME NEW f \in Fetches, fetch'[f].step # "none"
      PROVE  ~OnTheWay(fetch[f].start)' /\ fetch'[f].start # 0
  <2>1. ~OnTheWay(fetch[f].start) /\ fetch[f].start \in DOMAIN accessOf /\ fetch'[f] = fetch[f]
    BY <1>3 DEF Own, Stored, FetchHas
  <2>2. DOMAIN accessOf = 1 .. Len(accessOf) /\ Len(accessOf) \in Nat
    BY DEF Stored
  <2>3. PICK a : a = fetch[f].start
    OBVIOUS
  <2>4. ~OnTheWay(a)'
    BY <2>1, <2>3
  <2> QED  BY <2>1, <2>2, <2>3, <2>4 DEF OnTheWay
<1> QED  BY <1>1, <1>2, <1>3 DEF Own, OnTheWay

LEMMA SignOutTabs ==
  ASSUME OneTab, BrowserInv, TabInv, SignOut
  PROVE  TabInv'
<1>1. Stored /\ Serving
  BY DEF TabInv
<1>2. /\ UNCHANGED <<pc, my, serves, accountScene, sessions, tokens, accessOf, fetch, flight, signing, thrown, irregular>>
      /\ storage' = SignedOut /\ crossed' = (crossed \/ Flying # {})
  BY DEF SignOut, requestVars, accountVars
<1>3. Grows
  BY <1>2, RestGrows
<1>4. storage'.access = 0 /\ storage'.refresh = 0
  BY <1>2 DEF SignedOut
<1>5. Stored'
  BY <1>1, <1>2, <1>3, <1>4, StillStored DEF Stored
<1>6. Serving'
  BY <1>1, <1>2, <1>3, ServesOn
<1>7. \A a : OnTheWay(a)' => OnTheWay(a)
  BY <1>2 DEF OnTheWay
<1>8. ASSUME ~crossed' PROVE Own' /\ ~crossed /\ Flying' = {}
  <2>1. ~crossed /\ Flying = {} /\ Flying' = {}
    BY <1>2, <1>8 DEF Flying
  <2> QED  BY <1>1, <1>2, <1>7, <2>1, Cleared DEF TabInv
<1>9. ASSUME ~crossed', ~irregular' PROVE Usable'
  BY <1>2, <1>4, <1>8, <1>9 DEF TabInv, Usable, UsableFlight
<1> QED  BY <1>5, <1>6, <1>8, <1>9 DEF TabInv

\* A fetch moves on, and what is stored stays.
LEMMA FetchGoesOn ==
  ASSUME OneTab, BrowserInv, TabInv, NEW f \in Fetches, NEW r, fetch' = [fetch EXCEPT ![f] = r],
         FetchHas(r), r.step = "none" \/ f[1] \in accountScene.tabs,
         UNCHANGED <<pc, my, serves, accountScene, sessions, tokens, accessOf, flight, signing, thrown, irregular, crossed>>,
         storage'.access = storage.access, storage'.refresh = storage.refresh,
         ~crossed => /\ storage' = storage \/ (storage # SignedOut /\ storage'.user # NoUser /\ storage'.user = storage.user)
                     /\ r.step # "none" => /\ ~OnTheWay(r.start)
                                           /\ r.access = r.start \/ r.start # storage.access
  PROVE  TabInv'
<1>1. Stored /\ Serving
  BY DEF TabInv
<1>2. Grows
  BY RestGrows
<1>3. /\ fetch' = [g \in Fetches |-> fetch'[g]] /\ fetch'[f] = r
      /\ \A g \in Fetches : g # f => fetch'[g] = fetch[g]
  BY <1>1 DEF Stored
<1>4. FetchHas(fetch[f])'
  BY <1>3 DEF FetchHas
<1>5. Stored'
  BY <1>1, <1>2, <1>3, <1>4, StillStored DEF Stored
<1>6. Serving'
  BY <1>1, <1>2, ServesOn
<1>7. ASSUME ~crossed PROVE Own'
  <2>1. Own
    BY <1>7 DEF TabInv
  <2>2. Flying' = Flying /\ \A a : OnTheWay(a)' <=> OnTheWay(a)
    BY DEF Flying, OnTheWay
  <2>3. storage'.user = storage.user
    BY <1>7
  <2>4. UserOf(storage.refresh)' = UserOf(storage.refresh)
    BY DEF UserOf
  <2>5. \A t \in Tabs : signing'[t].step # "none" => storage' = SignedOut /\ Flying' = {}
    BY <1>7, <2>1, <2>2 DEF Own
  <2>6. storage'.user = NoUser => storage' = SignedOut
    BY <1>7, <2>1 DEF Own
  <2>7. \A g \in Fetches : fetch'[g].step # "none" =>
          ~OnTheWay(fetch'[g].start) /\ (fetch'[g].access = fetch'[g].start \/ fetch'[g].start # storage.access)
    BY <1>3, <1>7, <2>1 DEF Own
  <2>8. \A g \in Fetches : fetch'[g].step # "none" => ~OnTheWay(fetch[g].start)'
    BY <2>7 DEF OnTheWay
  <2>9. ~OnTheWay(storage.access)'
    BY <2>1 DEF Own, OnTheWay
  <2> QED  BY <2>1, <2>2, <2>3, <2>4, <2>5, <2>6, <2>7, <2>8, <2>9 DEF Own
<1>8. ASSUME ~crossed, ~irregular PROVE Usable'
  BY <1>8 DEF TabInv, Usable, UsableFlight, Flying
<1> QED  BY <1>5, <1>6, <1>7, <1>8 DEF TabInv

LEMMA FetchesTabs ==
  ASSUME OneTab, BrowserInv, TabInv, NEW f \in Fetches,
         (\E me \in BOOLEAN : SendFetch(f, me)) \/ Looked(f) \/ Arrives(f)
  PROVE  TabInv'
<1>1. Stored /\ FetchHas(fetch[f]) /\ (~crossed => Own)
  BY DEF TabInv, Stored
<1>2. UNCHANGED <<pc, my, serves, accountScene, sessions, tokens, accessOf, flight, signing, thrown, irregular, crossed>>
  BY DEF SendFetch, Looked, Arrives, requestVars, accountVars
<1>3. ASSUME NEW me \in BOOLEAN, SendFetch(f, me) PROVE TabInv'
  <2>1. PICK r : r = [NoFetch EXCEPT !.step = "sent", !.access = storage.access, !.start = storage.access, !.me = me]
    OBVIOUS
  <2>2. /\ fetch' = [fetch EXCEPT ![f] = r] /\ UNCHANGED storage /\ storage.access # 0
        /\ f[1] \in accountScene.tabs
    BY <1>3, <2>1 DEF SendFetch
  <2>3. r.access = storage.access /\ r.start = storage.access /\ DOMAIN r = {"step", "access", "start", "me", "leader"}
    BY <2>1 DEF NoFetch
  <2>4. FetchHas(r)
    BY <1>1, <2>2, <2>3 DEF FetchHas, Stored
  <2>5. ~crossed => ~OnTheWay(r.start) /\ r.access = r.start
    BY <1>1, <2>3 DEF Own
  <2> QED  BY <1>2, <2>2, <2>4, <2>5, FetchGoesOn
<1>4. CASE Looked(f)
  <2>1. PICK step : /\ fetch' = [fetch EXCEPT ![f].step = step] /\ step # "none"
                    /\ UNCHANGED storage /\ fetch[f].step # "none"
    <3>1. PICK step : step = IF fetch[f].step = "again" /\ fetch[f].access \in expired THEN "gone"
                             ELSE IF fetch[f].access \in expired THEN "refused" ELSE "ok"
      OBVIOUS
    <3>2. fetch' = [fetch EXCEPT ![f].step = step] /\ UNCHANGED storage /\ fetch[f].step \in {"sent", "again"}
      BY <1>4, <3>1 DEF Looked
    <3> QED  BY <3>1, <3>2
  <2>2. PICK r : r = [fetch[f] EXCEPT !.step = step]
    OBVIOUS
  <2>3. DOMAIN r = {"step", "access", "start", "me", "leader"} /\ r.access = fetch[f].access /\ r.start = fetch[f].start
    BY <1>1, <2>2 DEF FetchHas
  <2>4. FetchHas(r)
    BY <1>1, <2>1, <2>3 DEF FetchHas
  <2>5. ~crossed => ~OnTheWay(r.start) /\ (r.access = r.start \/ r.start # storage.access)
    BY <1>1, <2>1, <2>3 DEF Own
  <2>6. f[1] \in accountScene.tabs
    BY <1>1, <2>1 DEF Stored
  <2>7. fetch' = [fetch EXCEPT ![f] = r]
    BY <2>1, <2>2
  <2> QED  BY <1>2, <2>1, <2>4, <2>5, <2>6, <2>7, FetchGoesOn
<1>5. CASE Arrives(f)
  <2>1. /\ fetch' = [fetch EXCEPT ![f] = NoFetch] /\ fetch[f].step # "none"
        /\ \/ UNCHANGED storage
           \/ storage.access = fetch[f].start /\ storage' = [storage EXCEPT !.user = accessOf[fetch[f].access]]
    BY <1>5 DEF Arrives, Still
  <2>2. FetchHas(NoFetch) /\ NoFetch.step = "none"
    BY DEF FetchHas, NoFetch
  <2>3. storage'.access = storage.access /\ storage'.refresh = storage.refresh
    BY <2>1 DEF BrowserInv
  <2>4. ASSUME ~crossed, storage' # storage
        PROVE  storage # SignedOut /\ storage'.user # NoUser /\ storage'.user = storage.user
    <3>1. Own /\ storage.access = fetch[f].start /\ storage'.user = accessOf[fetch[f].access]
      BY <1>1, <2>1, <2>4 DEF BrowserInv
    <3>2. fetch[f].access = fetch[f].start /\ fetch[f].start \in DOMAIN accessOf
      BY <1>1, <2>1, <3>1 DEF Own, FetchHas
    <3>3. storage.access # 0
      BY <1>1, <3>1, <3>2 DEF Stored
    <3>4. storage # SignedOut
      BY <3>3 DEF SignedOut
    <3> QED  BY <3>1, <3>2, <3>4 DEF Own
  <2> QED  BY <1>2, <2>1, <2>2, <2>3, <2>4, FetchGoesOn
<1> QED  BY <1>3, <1>4, <1>5

LEMMA UnauthorizedTabs ==
  ASSUME OneTab, BrowserInv, TabInv, NEW f \in Fetches, Unauthorized(f)
  PROVE  TabInv'
<1>1. Stored /\ Serving /\ FetchHas(fetch[f]) /\ (~crossed => Own)
  BY DEF TabInv, Stored
<1>2. /\ UNCHANGED <<pc, my, serves, accountScene, sessions, tokens, accessOf, signing, irregular, crossed>>
      /\ fetch[f].step = "refused" /\ f[1] \in accountScene.tabs
  BY <1>1 DEF Unauthorized, requestVars, accountVars, Stored
<1>3. Grows
  BY <1>2, RestGrows
<1>4. CASE storage.refresh = 0
  <2>1. fetch' = [fetch EXCEPT ![f] = NoFetch] /\ storage' = SignedOut /\ UNCHANGED flight
    BY <1>4 DEF Unauthorized, Throw
  <2>2. NoFetch.step = "none" /\ FetchHas(NoFetch)' /\ storage'.access = 0 /\ storage'.refresh = 0
    BY <2>1 DEF NoFetch, FetchHas, SignedOut
  <2>3. /\ fetch' = [g \in Fetches |-> fetch'[g]] /\ fetch'[f] = NoFetch
        /\ \A g \in Fetches : g # f => fetch'[g] = fetch[g]
    BY <1>1, <2>1 DEF Stored
  <2>4. Stored'
    <3>1. FetchHas(fetch[f])'
      BY <2>2, <2>3 DEF FetchHas
    <3> QED  BY <1>1, <1>2, <1>3, <2>1, <2>2, <2>3, <3>1, StillStored DEF Stored
  <2>5. Serving'
    BY <1>1, <1>2, <1>3, <2>1, ServesOn
  <2>6. 0 \notin DOMAIN tokens
    BY Tables
  <2>7. thrown' = thrown \/ (thrown' <=> thrown)
    BY <1>4, <2>6 DEF Unauthorized, Throw
  <2>8. ASSUME ~crossed PROVE Own' /\ Flying' = {}
    <3>1. Own
      BY <1>1, <2>8
    <3>2. Flying = {} /\ Flying' = {}
      BY <1>1, <1>4, <2>1, <2>6, <3>1 DEF Own, Stored, FlightHas, Flying
    <3>3. \A a : OnTheWay(a)' => OnTheWay(a)
      BY <1>2, <2>1 DEF OnTheWay
    <3> QED  BY <1>1, <1>2, <2>1, <2>2, <2>3, <3>1, <3>2, <3>3, Cleared
  <2>9. ASSUME ~crossed, ~irregular PROVE Usable'
    BY <1>2, <2>1, <2>2, <2>7, <2>8, <2>9 DEF TabInv, Usable, UsableFlight
  <2> QED  BY <1>2, <2>4, <2>5, <2>8, <2>9 DEF TabInv
<1>5. ASSUME storage.refresh # 0, NEW g, UNCHANGED <<storage, thrown, flight>>,
             fetch' = [fetch EXCEPT ![f].step = "waits", ![f].leader = g]
      PROVE  TabInv'
  <2>1. PICK r : r = [fetch[f] EXCEPT !.step = "waits", !.leader = g]
    OBVIOUS
  <2>2. fetch' = [fetch EXCEPT ![f] = r]
    BY <1>5, <2>1
  <2>3. DOMAIN r = {"step", "access", "start", "me", "leader"} /\ r.access = fetch[f].access /\ r.start = fetch[f].start
    BY <1>1, <2>1 DEF FetchHas
  <2>4. FetchHas(r)
    BY <1>1, <1>2, <2>3 DEF FetchHas
  <2>5. ~crossed => ~OnTheWay(r.start) /\ (r.access = r.start \/ r.start # storage.access)
    BY <1>1, <1>2, <2>3 DEF Own
  <2> QED  BY <1>2, <1>5, <2>2, <2>4, <2>5, FetchGoesOn
<1>6. ASSUME storage.refresh # 0, Leaders(f) = {}, UNCHANGED <<storage, thrown>>,
             fetch' = [fetch EXCEPT ![f].step = "waits", ![f].leader = f],
             flight' = [flight EXCEPT ![f] = [NoFlight EXCEPT !.step = "asked", !.token = storage.refresh]]
      PROVE  TabInv'
  <2>1. PICK r : r = [fetch[f] EXCEPT !.step = "waits", !.leader = f]
    OBVIOUS
  <2>2. PICK q : q = [NoFlight EXCEPT !.step = "asked", !.token = storage.refresh]
    OBVIOUS
  <2>3. /\ fetch' = [g \in Fetches |-> fetch'[g]] /\ fetch'[f] = r
        /\ \A g \in Fetches : g # f => fetch'[g] = fetch[g]
    BY <1>1, <1>6, <2>1 DEF Stored
  <2>4. flight'[f] = q /\ \A g \in Fetches : g # f => flight'[g] = flight[g]
    BY <1>6, <2>2 DEF BrowserInv
  <2>5. /\ DOMAIN r = {"step", "access", "start", "me", "leader"}
        /\ r.access = fetch[f].access /\ r.start = fetch[f].start
        /\ q.step = "asked" /\ q.token = storage.refresh /\ storage.refresh \in DOMAIN tokens
    BY <1>1, <1>6, <2>1, <2>2 DEF FetchHas, NoFlight, BrowserInv, HandedOut
  <2>6. Flying = {} /\ \A g \in Fetches : flight[g].step = "none"
    <3>1. \A g \in Flying : g[1] = f[1]
      BY <1>1, <1>2 DEF OneTab, Stored, Flying
    <3> QED  BY <1>6, <3>1 DEF Leaders, Flying
  <2>7. Flying' = {f}
    BY <2>4, <2>5, <2>6 DEF Flying
  <2>8. FetchHas(fetch[f])' /\ FlightHas(flight[f])'
    BY <1>1, <1>2, <2>3, <2>4, <2>5 DEF FetchHas, FlightHas
  <2>9. Stored'
    BY <1>1, <1>2, <1>3, <1>6, <2>3, <2>4, <2>8, StillStored DEF Stored
  <2>10. Serving'
    BY <1>1, <1>2, <1>3, <2>4, <2>6, ServesOn
  <2>11. \A a : OnTheWay(a)' <=> OnTheWay(a)
    BY <1>2, <2>4, <2>5, <2>6 DEF OnTheWay
  <2>12. ASSUME ~crossed PROVE Own'
    <3>1. Own
      BY <1>1, <2>12
    <3>2. \A t \in Tabs : signing'[t].step = "none"
      BY <1>2, <1>6, <3>1 DEF Own, SignedOut
    <3>3. \A g \in Fetches : fetch'[g].step # "none" =>
            ~OnTheWay(fetch'[g].start) /\ (fetch'[g].access = fetch'[g].start \/ fetch'[g].start # storage.access)
      BY <1>2, <2>3, <2>5, <3>1 DEF Own
    <3>4. \A g \in Fetches : fetch'[g].step # "none" => ~OnTheWay(fetch[g].start)'
      <4> TAKE g \in Fetches
      <4>1. PICK a : a = fetch'[g].start
        OBVIOUS
      <4>2. OnTheWay(a)' <=> OnTheWay(a)
        BY <2>11
      <4> QED  BY <3>3, <4>1, <4>2 DEF OnTheWay
    <3>5. ~OnTheWay(storage.access)'
      <4>1. PICK a : a = storage.access
        OBVIOUS
      <4>2. OnTheWay(a)' <=> OnTheWay(a)
        BY <2>11
      <4> QED  BY <1>6, <3>1, <4>1, <4>2 DEF OnTheWay, Own
    <3>6. UserOf(storage.refresh)' = UserOf(storage.refresh)
      BY <1>2, <1>6 DEF UserOf
    <3>7. storage.user # NoUser => /\ storage.access # 0 /\ accessOf[storage.access] = storage.user
                                   /\ storage.refresh # 0 => UserOf(storage.refresh) = storage.user
      BY <3>1 DEF Own
    <3>8. \A g \in Flying' : storage.refresh = flight'[g].token
      BY <2>4, <2>5, <2>7
    <3>9. (storage.user = NoUser => storage = SignedOut) /\ UNCHANGED <<storage, accessOf>>
      BY <1>2, <1>6, <3>1 DEF Own
    <3> QED  BY <2>7, <3>2, <3>3, <3>4, <3>5, <3>6, <3>7, <3>8, <3>9 DEF Own
  <2>13. ASSUME ~crossed, ~irregular PROVE Usable'
    BY <1>2, <1>6, <2>4, <2>5, <2>7, <2>13 DEF TabInv, Usable, UsableFlight
  <2> QED  BY <1>2, <2>9, <2>10, <2>12, <2>13 DEF TabInv
<1> QED  BY <1>4, <1>5, <1>6 DEF Unauthorized

\* What is stored stays one user's while flights and sign-ins go on.
LEMMA StillOwn ==
  ASSUME BrowserInv, Stored, Own, Grows, UNCHANGED <<storage, fetch>>,
         \A f \in Fetches : flight'[f].token = flight[f].token /\ (flight'[f].step = "none" <=> flight[f].step = "none"),
         \A t \in Tabs : signing[t].step = "none" => signing'[t].step = "none",
         \A a \in {0} \cup DOMAIN accessOf : OnTheWay(a)' => OnTheWay(a)
  PROVE  Own'
<1>1. Flying' = Flying
  BY DEF Flying
<1>2. storage.user # NoUser => /\ storage.access # 0 /\ accessOf'[storage.access] = storage.user
                               /\ storage.refresh # 0 => UserOf(storage.refresh)' = storage.user
  <2>1. storage.refresh # 0 => storage.refresh \in DOMAIN tokens
    BY DEF BrowserInv, HandedOut
  <2>2. PICK n : n = storage.refresh
    OBVIOUS
  <2>3. storage.user # NoUser /\ n # 0 => UserOf(n) = storage.user /\ UserOf(n)' = UserOf(n)
    BY <2>1, <2>2, UsersStay DEF Own
  <2>4. storage.user # NoUser => storage.access # 0 /\ accessOf'[storage.access] = storage.user
    BY DEF Own, Stored, Grows
  <2> QED  BY <2>2, <2>3, <2>4 DEF UserOf
<1>3. ~OnTheWay(storage.access)'
  <2>1. PICK a \in {0} \cup DOMAIN accessOf : a = storage.access
    BY DEF Stored
  <2>2. ~OnTheWay(a)'
    BY <2>1 DEF Own
  <2> QED  BY <2>1, <2>2 DEF OnTheWay
<1>4. ASSUME NEW f \in Fetches, fetch[f].step # "none" PROVE ~OnTheWay(fetch[f].start)'
  <2>1. PICK a \in {0} \cup DOMAIN accessOf : a = fetch[f].start
    BY <1>4 DEF Stored, FetchHas
  <2>2. ~OnTheWay(a)'
    BY <1>4, <2>1 DEF Own
  <2> QED  BY <2>1, <2>2 DEF OnTheWay
<1>5. \A t \in Tabs : signing'[t].step # "none" => storage = SignedOut /\ Flying = {}
  BY DEF Own
<1>6. /\ storage.user = NoUser => storage = SignedOut
      /\ \A f, g \in Flying : f = g
      /\ \A f \in Flying : storage.refresh = flight'[f].token
      /\ \A f \in Fetches : fetch[f].step # "none" => fetch[f].access = fetch[f].start \/ fetch[f].start # storage.access
  BY DEF Own, Flying
<1> QED  BY <1>1, <1>2, <1>3, <1>4, <1>5, <1>6 DEF Own

\* A flight that is refused, or whose answer is lost.
LEMMA FlightFailsTabs ==
  ASSUME OneTab, BrowserInv, TabInv, NEW f \in Fetches, flight[f].step \in {"asked", "done"},
         flight' = [flight EXCEPT ![f].step = "failed"],
         UNCHANGED <<pc, my, serves, accountScene, sessions, tokens, accessOf, storage, fetch, signing, thrown, crossed>>,
         irregular => irregular',
         irregular' \/ tokens[flight[f].token].revoked \/ tokens[flight[f].token].late
  PROVE  TabInv'
<1>1. Stored /\ Serving /\ FlightHas(flight[f]) /\ FlightKnows(flight[f])
  BY DEF TabInv, Stored, BrowserInv
<1>2. Grows
  BY RestGrows
<1>3. PICK q : q = [flight[f] EXCEPT !.step = "failed"]
  OBVIOUS
<1>4. q.step = "failed" /\ q.token = flight[f].token
  BY <1>1, <1>3 DEF FlightKnows
<1>5. flight'[f] = q /\ \A g \in Fetches : g # f => flight'[g] = flight[g]
  BY <1>3 DEF BrowserInv
<1>6. FlightHas(flight[f])' /\ f[1] \in accountScene.tabs
  BY <1>1, <1>4, <1>5 DEF FlightHas, Stored
<1>7. Stored'
  BY <1>1, <1>2, <1>5, <1>6, StillStored DEF Stored
<1>8. Serving'
  BY <1>1, <1>2, <1>5, ServesOn
<1>9. \A a : OnTheWay(a)' => OnTheWay(a)
  BY <1>4, <1>5 DEF OnTheWay
<1>10. ~crossed => Own'
  BY <1>1, <1>2, <1>4, <1>5, <1>9, StillOwn DEF TabInv
<1>11. ASSUME ~crossed, ~irregular' PROVE Usable'
  <2>1. Usable /\ Flying' = Flying
    BY <1>4, <1>5, <1>11 DEF TabInv, Flying
  <2>2. ASSUME NEW g \in Fetches PROVE UsableFlight(flight[g])'
    BY <1>4, <1>5, <1>11, <2>1 DEF Usable, UsableFlight
  <2> QED  BY <2>1, <2>2 DEF Usable
<1> QED  BY <1>7, <1>8, <1>10, <1>11 DEF TabInv

LEMMA RefreshArrivesTabs ==
  ASSUME OneTab, BrowserInv, TabInv, NEW f \in Fetches, NEW w \in Workers, RefreshArrives(f, w)
  PROVE  TabInv'
<1>1. Stored /\ Serving /\ FlightHas(flight[f]) /\ FlightKnows(flight[f])
  BY DEF TabInv, Stored, BrowserInv
<1>2. flight[f].step = "asked" /\ UNCHANGED <<storage, accessOf, fetch, signing, crossed, thrown>>
  BY DEF RefreshArrives
<1>3. CASE tokens[flight[f].token].revoked \/ tokens[flight[f].token].late
  <2>1. /\ flight' = [flight EXCEPT ![f].step = "failed"]
        /\ UNCHANGED <<pc, my, serves, accountScene, sessions, tokens, irregular>>
    BY <1>3 DEF RefreshArrives, requestVars, accountVars
  <2> QED  BY <1>2, <1>3, <2>1, FlightFailsTabs
<1>4. CASE ~(tokens[flight[f].token].revoked \/ tokens[flight[f].token].late)
  <2>1. /\ Refresh(w, flight[f].token) /\ flight' = [flight EXCEPT ![f].step = "served"]
        /\ serves' = [serves EXCEPT ![w] = {f}]
    BY <1>4 DEF RefreshArrives
  <2>2. /\ UNCHANGED <<accountScene, sessions, tokens, irregular>>
        /\ Await(w, "revoke", [token |-> flight[f].token])
    BY <2>1 DEF Refresh, accountVars, AccountCall, Regular
  <2>3. Moved(w, "revoke", [token |-> flight[f].token])
    BY <2>2, Tables, WebAwaits
  <2>4. Grows
    BY <1>2, <2>2, RestGrows
  <2>5. PICK q : q = [flight[f] EXCEPT !.step = "served"]
    OBVIOUS
  <2>6. q.step = "served" /\ q.token = flight[f].token
    BY <1>1, <2>5 DEF FlightKnows
  <2>7. flight'[f] = q /\ \A g \in Fetches : g # f => flight'[g] = flight[g]
    BY <2>1, <2>5 DEF BrowserInv
  <2>8. FlightHas(flight[f])' /\ f[1] \in accountScene.tabs
    BY <1>1, <1>2, <2>2, <2>6, <2>7 DEF FlightHas, Stored
  <2>9. Stored'
    BY <1>1, <1>2, <2>2, <2>4, <2>7, <2>8, StillStored DEF Stored
  <2>10. Serving'
    <3>1. OnFlight(pc[w], my[w], flight[f])'
      BY <2>3, <2>6, <2>7 DEF OnFlight, Moved
    <3>2. f \notin Tabs
      BY NamesDiffer
    <3> QED  BY <1>1, <1>2, <2>1, <2>3, <2>4, <2>7, <3>1, <3>2, ServesNew DEF Moved
  <2>11. \A a : OnTheWay(a)' => OnTheWay(a)
    BY <1>2, <2>6, <2>7 DEF OnTheWay
  <2>12. ~crossed => Own'
    BY <1>1, <1>2, <2>4, <2>6, <2>7, <2>11, StillOwn DEF TabInv
  <2>13. ASSUME ~crossed, ~irregular PROVE Usable'
    <3>1. Usable /\ Flying' = Flying
      BY <1>2, <2>6, <2>7, <2>13 DEF TabInv, Flying
    <3>2. ASSUME NEW g \in Fetches PROVE UsableFlight(flight[g])'
      BY <2>2, <2>6, <2>7, <3>1 DEF Usable, UsableFlight
    <3> QED  BY <1>2, <2>2, <3>1, <3>2 DEF Usable
  <2> QED  BY <1>2, <2>2, <2>9, <2>10, <2>12, <2>13 DEF TabInv
<1> QED  BY <1>3, <1>4

LEMMA FlightLandsTabs ==
  ASSUME OneTab, BrowserInv, TabInv, NEW f \in Fetches, FlightLands(f)
  PROVE  TabInv'
<1> DEFINE waiting == {g \in Fetches : fetch[g].step = "waits" /\ fetch[g].leader = f}
           q == flight[f]
           again(g) == [fetch[g] EXCEPT !.step = "again", !.access = q.access, !.leader = NoUser]
<1>1. Stored /\ Serving /\ FlightHas(q) /\ (~crossed => Own)
  BY DEF TabInv, Stored
<1>2. /\ UNCHANGED <<pc, my, serves, accountScene, sessions, tokens, accessOf, signing, crossed, irregular>>
      /\ q.step \in {"done", "failed"} /\ flight' = [flight EXCEPT ![f] = NoFlight] /\ NoFlight.step = "none"
  BY DEF FlightLands, requestVars, accountVars, NoFlight
<1>3. Grows
  BY <1>2, RestGrows
<1>4. flight'[f] = NoFlight /\ \A g \in Fetches : g # f => flight'[g] = flight[g]
  BY <1>2 DEF BrowserInv
<1>5. FlightHas(flight[f])'
  BY <1>2, <1>4 DEF FlightHas
<1>6. f \in Flying
  BY <1>2 DEF Flying
<1>7. Serving'
  BY <1>1, <1>2, <1>3, <1>4, ServesOn
\* The one flight is over, and nobody signs in.
<1>8. ASSUME ~crossed
      PROVE  /\ Own /\ Flying' = {} /\ storage.refresh = q.token /\ storage.refresh \in DOMAIN tokens /\ storage.refresh # 0
             /\ storage.user # NoUser /\ \A t \in Tabs : signing[t].step = "none"
             /\ \A a : ~OnTheWay(a)'
  <2>1. Own /\ storage.refresh = q.token /\ \A g \in Flying : g = f
    BY <1>1, <1>6, <1>8 DEF Own
  <2>2. storage.refresh \in DOMAIN tokens /\ storage.refresh # 0
    BY <1>1, <1>2, <2>1, Tables DEF FlightHas
  <2>3. storage.user # NoUser
    BY <2>1, <2>2 DEF Own, SignedOut
  <2>4. Flying' = {}
    BY <1>2, <1>4, <2>1 DEF Flying
  <2>5. \A t \in Tabs : signing[t].step = "none"
    BY <1>6, <2>1 DEF Own
  <2>6. \A a : ~OnTheWay(a)'
    BY <1>2, <2>4, <2>5 DEF OnTheWay, Flying
  <2> QED  BY <2>1, <2>2, <2>3, <2>4, <2>5, <2>6
<1>9. CASE q.step = "done"
  <2>1. /\ storage' = [storage EXCEPT !.access = q.access, !.refresh = q.new] /\ UNCHANGED thrown
        /\ fetch' = [g \in Fetches |-> IF g \in waiting THEN again(g) ELSE fetch[g]]
    BY <1>9 DEF FlightLands
  <2>2. storage'.access = q.access /\ storage'.refresh = q.new /\ storage'.user = storage.user
    BY <2>1 DEF BrowserInv
  <2>3. Twins(q) /\ UserOf(q.new) = UserOf(q.token)
    BY <1>1, <1>9 DEF FlightHas
  <2>4. ASSUME NEW g \in Fetches, g \in waiting
        PROVE  /\ DOMAIN again(g) = {"step", "access", "start", "me", "leader"}
               /\ again(g).step = "again" /\ again(g).access = q.access /\ again(g).start = fetch[g].start
               /\ FetchHas(fetch[g]) /\ fetch[g].step # "none"
    <3>1. FetchHas(fetch[g]) /\ fetch[g].step = "waits"
      BY <1>1, <2>4 DEF Stored
    <3> QED  BY <3>1 DEF FetchHas
  <2> HIDE DEF again, waiting, q
  <2>5. Stored'
    <3>1. ASSUME NEW g \in Fetches
          PROVE  fetch'[g] = fetch[g] \/ (FetchHas(fetch[g])' /\ g[1] \in accountScene.tabs)
      <4>1. CASE g \in waiting
        <5>1. fetch'[g] = again(g)
          BY <2>1, <4>1
        <5>2. g[1] \in accountScene.tabs /\ q.access \in DOMAIN accessOf
          BY <1>1, <2>3, <2>4, <4>1 DEF Stored, Twins
        <5>3. FetchHas(fetch[g])'
          BY <1>2, <2>4, <4>1, <5>1, <5>2 DEF FetchHas
        <5> QED  BY <5>2, <5>3
      <4>2. CASE g \notin waiting
        BY <2>1, <4>2
      <4> QED  BY <4>1, <4>2
    <3>2. storage'.access \in DOMAIN accessOf
      BY <2>2, <2>3 DEF Twins
    <3>3. fetch' = [g \in Fetches |-> fetch'[g]]
      BY <2>1
    <3>4. NoFlight.step = "none"
      BY <1>2
    <3> QED  BY <1>1, <1>2, <1>3, <1>4, <1>5, <3>1, <3>2, <3>3, <3>4, StillStored DEF Stored
  <2>6. ASSUME ~crossed PROVE Own'
    <3>1. /\ Own /\ Flying' = {} /\ storage.refresh = q.token /\ storage.user # NoUser
          /\ storage.refresh # 0 /\ \A a : ~OnTheWay(a)'
      BY <1>8, <2>6
    <3>2. \A t \in Tabs : signing'[t].step = "none"
      BY <1>2, <1>8, <2>6
    <3>3. storage'.access # 0
      <4>1. DOMAIN accessOf = 1 .. Len(accessOf) /\ Len(accessOf) \in Nat
        BY <1>1 DEF Stored
      <4> QED  BY <2>2, <2>3, <4>1 DEF Twins
    <3>4. accessOf[storage'.access] = storage.user /\ UserOf(storage.refresh)' = storage.user
      <4>1. UserOf(q.token) = storage.user
        BY <3>1 DEF Own
      <4>2. accessOf[q.access] = storage.user /\ UserOf(q.new) = storage.user
        BY <2>3, <4>1 DEF Twins
      <4> QED  BY <1>2, <2>2, <4>2 DEF UserOf
    <3>5. OnTheWay(q.access)
      BY <1>9 DEF OnTheWay, q
    <3>6. ASSUME NEW g \in Fetches, fetch'[g].step # "none" PROVE fetch'[g].start # storage'.access
      <4>1. fetch[g].step # "none" /\ fetch'[g].start = fetch[g].start
        BY <2>1, <2>4, <3>6
      <4> QED  BY <2>2, <3>1, <3>5, <4>1 DEF Own
    <3>7. \A g \in Fetches : ~OnTheWay(fetch[g].start)'
      BY <3>1 DEF OnTheWay
    <3>8. ~OnTheWay(storage.access)'
      BY <3>1 DEF OnTheWay
    <3> QED  BY <1>2, <2>2, <3>1, <3>2, <3>3, <3>4, <3>6, <3>7, <3>8 DEF Own
  <2>7. ASSUME ~crossed, ~irregular PROVE Usable'
    <3>1. Usable /\ Flying' = {} /\ \A t \in Tabs : signing'[t].step = "none"
      BY <1>2, <1>8, <2>7 DEF TabInv
    <3>2. ~tokens[q.new].revoked
      BY <1>9, <3>1 DEF Usable, UsableFlight, q
    <3>3. \A g \in Fetches : flight'[g].step = "none"
      BY <3>1 DEF Flying
    <3> QED  BY <1>2, <2>1, <2>2, <3>1, <3>2, <3>3 DEF Usable, UsableFlight
  <2> QED  BY <1>2, <1>7, <2>5, <2>6, <2>7 DEF TabInv
<1>10. CASE q.step = "failed"
  <2>1. /\ storage' = SignedOut
        /\ thrown' = (thrown \/ storage.refresh \in {n \in DOMAIN tokens : ~tokens[n].revoked /\ ~tokens[n].late})
        /\ fetch' = [g \in Fetches |-> IF g \in waiting THEN NoFetch ELSE fetch[g]]
    BY <1>10 DEF FlightLands, Throw
  <2>2. storage'.access = 0 /\ storage'.refresh = 0
    BY <2>1 DEF SignedOut
  <2>3. NoFetch.step = "none" /\ FetchHas(NoFetch)'
    BY DEF NoFetch, FetchHas
  <2> HIDE DEF waiting, q
  <2>4. Stored'
    <3>1. ASSUME NEW g \in Fetches
          PROVE  fetch'[g] = fetch[g] \/ (FetchHas(fetch[g])' /\ fetch'[g].step = "none")
      BY <2>1, <2>3 DEF FetchHas
    <3>2. fetch' = [g \in Fetches |-> fetch'[g]]
      BY <2>1
    <3>3. NoFlight.step = "none"
      BY <1>2
    <3> QED  BY <1>1, <1>2, <1>3, <1>4, <1>5, <2>2, <3>1, <3>2, <3>3, StillStored DEF Stored
  <2>5. ASSUME ~crossed PROVE Own'
    <3>1. \A g \in Fetches : fetch'[g].step # "none" => fetch'[g] = fetch[g]
      BY <2>1, <2>3
    <3>2. \A a : OnTheWay(a)' => OnTheWay(a)
      BY <1>8, <2>5
    <3> QED  BY <1>1, <1>2, <1>8, <2>1, <2>5, <3>1, <3>2, Cleared
  <2>6. ASSUME ~crossed, ~irregular PROVE Usable'
    <3>1. Usable /\ Flying' = {} /\ \A t \in Tabs : signing'[t].step = "none"
      BY <1>2, <1>8, <2>6 DEF TabInv
    <3>2. tokens[storage.refresh].revoked \/ tokens[storage.refresh].late
      BY <1>8, <1>10, <2>6, <3>1 DEF Usable, UsableFlight, q
    <3>3. ~thrown'
      BY <2>1, <3>1, <3>2 DEF Usable
    <3>4. \A g \in Fetches : flight'[g].step = "none"
      BY <3>1 DEF Flying
    <3> QED  BY <2>2, <3>1, <3>3, <3>4 DEF Usable, UsableFlight
  <2> QED  BY <1>2, <1>7, <2>4, <2>5, <2>6 DEF TabInv
<1> QED  BY <1>2, <1>9, <1>10

-----------------------------------------------------------------------------
(* The server's answers *)

\* What an answer does to the flight or the sign-in it is for.
LEMMA Replied ==
  ASSUME BrowserInv, Stored, Serving, Grows, NEW w \in Workers, Alone(w), NEW step, step # "none",
         NEW new, NEW access, Reply(w, step, new, access)
  PROVE  /\ Serving'
         /\ \A f \in Fetches :
              IF f \notin serves[w] THEN flight'[f] = flight[f]
              ELSE /\ flight'[f].step = step /\ flight'[f].new = new /\ flight'[f].access = access
                   /\ flight'[f].token = flight[f].token /\ flight[f].step = "served"
         /\ \A t \in Tabs :
              IF t \notin serves[w] THEN signing'[t] = signing[t]
              ELSE /\ signing'[t].step = step /\ signing'[t].new = new /\ signing'[t].access = access
                   /\ signing'[t].user = signing[t].user /\ signing[t].step = "asked"
<1>1. ASSUME NEW f \in Fetches
      PROVE  IF f \notin serves[w] THEN flight'[f] = flight[f]
             ELSE /\ flight'[f].step = step /\ flight'[f].new = new /\ flight'[f].access = access
                  /\ flight'[f].token = flight[f].token /\ flight[f].step = "served"
  <2>1. FlightKnows(flight[f]) /\ (f \in serves[w] => flight[f].step = "served")
    BY DEF BrowserInv, Serving, OnFlight
  <2>2. flight'[f] = IF f \notin serves[w] THEN flight[f]
                     ELSE [flight[f] EXCEPT !.step = step, !.new = new, !.access = access]
    BY DEF Reply
  <2> QED  BY <2>1, <2>2 DEF FlightKnows
<1>2. ASSUME NEW t \in Tabs
      PROVE  IF t \notin serves[w] THEN signing'[t] = signing[t]
             ELSE /\ signing'[t].step = step /\ signing'[t].new = new /\ signing'[t].access = access
                  /\ signing'[t].user = signing[t].user /\ signing[t].step = "asked"
  <2>1. SignInKnows(signing[t]) /\ (t \in serves[w] => signing[t].step = "asked")
    BY DEF BrowserInv, Serving, OnSignIn
  <2>2. signing'[t] = IF t \notin serves[w] THEN signing[t]
                      ELSE [signing[t] EXCEPT !.step = step, !.new = new, !.access = access]
    BY DEF Reply
  <2> QED  BY <2>1, <2>2 DEF SignInKnows
<1>3. /\ serves' = [v \in Workers |-> serves'[v]] /\ serves'[w] = {}
      /\ \A v \in Workers : v # w => serves'[v] = serves[v]
  BY DEF Serving, Reply
<1>4. ASSUME NEW v \in Workers, v # w, NEW x \in serves[v]
      PROVE  /\ x \in Fetches => OnFlight(pc[v], my[v], flight[x])'
             /\ x \in Tabs => OnSignIn(pc[v], my[v], signing[x])'
  <2>1. x \notin serves[w]
    BY <1>4 DEF Serving
  <2>2. pc'[v] = pc[v] /\ my'[v] = my[v]
    BY <1>4 DEF Alone
  <2>3. (x \in Fetches => flight'[x] = flight[x]) /\ (x \in Tabs => signing'[x] = signing[x])
    BY <1>1, <1>2, <2>1
  <2> QED  BY <2>2, <2>3, StillServing
<1>5. /\ \A v \in Workers : serves'[v] \subseteq Fetches \cup Tabs
      /\ \A u, v \in Workers : \A x \in serves'[u] : x \in serves'[v] => u = v
  BY <1>3 DEF Serving
<1>6. \A v \in Workers : /\ \A f \in Fetches \cap serves'[v] : OnFlight(pc[v], my[v], flight[f])'
                         /\ \A t \in Tabs \cap serves'[v] : OnSignIn(pc[v], my[v], signing[t])'
  BY <1>3, <1>4
<1>7. Serving'
  BY <1>3, <1>5, <1>6 DEF Serving
<1> QED  BY <1>1, <1>2, <1>7

\* New tokens are on their way; what they were asked for says whose they are.
LEMMA IssuedTabs ==
  ASSUME OneTab, BrowserInv, TabInv, NEW w \in Workers, Issued(w)
  PROVE  TabInv'
<1>1. Stored /\ Serving /\ accessOf \in Seq(Emails) /\ DOMAIN accessOf = 1 .. Len(accessOf)
  BY DEF TabInv, Stored
<1>2. PICK n : n = Len(tokens) + 1
  OBVIOUS
<1>3. PICK a : a = Len(accessOf) + 1
  OBVIOUS
<1>4. PICK u : u = sessions[my[w].session].user
  OBVIOUS
<1>5. /\ Issue(w) /\ accessOf' = Append(accessOf, sessions[my[w].session].user)
      /\ Reply(w, "done", n, a) /\ UNCHANGED <<storage, fetch, crossed, thrown, accountScene, irregular>>
  BY <1>2, <1>3 DEF Issued, Issue, At
<1>6. /\ Grows /\ UNCHANGED sessions /\ accessOf' \in Seq(Emails) /\ pc[w] = "issue"
      /\ n \in DOMAIN tokens' /\ n \notin DOMAIN tokens /\ tokens'[n].revoked = FALSE
      /\ \A m \in DOMAIN tokens : tokens'[m] = tokens[m]
      /\ a \in DOMAIN accessOf' /\ a \notin DOMAIN accessOf /\ a # 0
      /\ accessOf'[a] = u /\ UserOf(n)' = u
      /\ Moved(w, "idle", NoWork)
  BY <1>1, <1>2, <1>3, <1>4, <1>5, IssueGrows
<1>7. /\ Serving'
      /\ \A f \in Fetches :
           IF f \notin serves[w] THEN flight'[f] = flight[f]
           ELSE /\ flight'[f].step = "done" /\ flight'[f].new = n /\ flight'[f].access = a
                /\ flight'[f].token = flight[f].token /\ flight[f].step = "served"
      /\ \A t \in Tabs :
           IF t \notin serves[w] THEN signing'[t] = signing[t]
           ELSE /\ signing'[t].step = "done" /\ signing'[t].new = n /\ signing'[t].access = a
                /\ signing'[t].user = signing[t].user /\ signing[t].step = "asked"
  <2>1. PICK step : step = "done"
    OBVIOUS
  <2>2. step # "none" /\ Reply(w, step, n, a) /\ Alone(w)
    BY <1>5, <1>6, <2>1 DEF Moved
  <2>3. Grows
    BY <1>6
  <2>4. /\ Serving'
        /\ \A f \in Fetches :
             IF f \notin serves[w] THEN flight'[f] = flight[f]
             ELSE /\ flight'[f].step = step /\ flight'[f].new = n /\ flight'[f].access = a
                  /\ flight'[f].token = flight[f].token /\ flight[f].step = "served"
        /\ \A t \in Tabs :
             IF t \notin serves[w] THEN signing'[t] = signing[t]
             ELSE /\ signing'[t].step = step /\ signing'[t].new = n /\ signing'[t].access = a
                  /\ signing'[t].user = signing[t].user /\ signing[t].step = "asked"
    <3>1. Stored /\ Serving
      BY <1>1
    <3> QED  BY <2>2, <2>3, <3>1, Replied
  <2> QED  BY <2>1, <2>4
<1>8. ASSUME NEW f \in Fetches, f \in serves[w]
      PROVE  FlightHas(flight[f])' /\ f[1] \in accountScene.tabs
  <2>1. /\ FlightHas(flight[f]) /\ flight[f].step = "served" /\ UserOf(flight[f].token) = u
        /\ f[1] \in accountScene.tabs
    BY <1>1, <1>4, <1>6, <1>8 DEF Stored, Serving, OnFlight
  <2>2. PICK m : m = flight[f].token
    OBVIOUS
  <2>3. m \in DOMAIN tokens' /\ UserOf(m)' = u
    BY <1>6, <2>1, <2>2, UsersStay DEF FlightHas
  <2>4. flight'[f].step = "done" /\ flight'[f].new = n /\ flight'[f].access = a /\ flight'[f].token = m
    BY <1>7, <1>8, <2>2
  <2>5. UserOf(flight[f].new)' = u /\ UserOf(flight[f].token)' = u
    BY <1>6, <2>3, <2>4 DEF UserOf
  <2> QED  BY <1>6, <2>1, <2>3, <2>4, <2>5 DEF FlightHas, Twins
<1>9. ASSUME NEW t \in Tabs, t \in serves[w]
      PROVE  SignInHas(signing[t])' /\ t \in accountScene.tabs
  <2>1. /\ SignInHas(signing[t]) /\ signing[t].step = "asked" /\ signing[t].user = u
        /\ t \in accountScene.tabs
    BY <1>1, <1>4, <1>6, <1>9 DEF Stored, Serving, OnSignIn
  <2>2. signing'[t].step = "done" /\ signing'[t].new = n /\ signing'[t].access = a /\ signing'[t].user = u
    BY <1>7, <1>9, <2>1
  <2>3. UserOf(signing[t].new)' = u
    BY <1>6, <2>2 DEF UserOf
  <2> QED  BY <1>6, <2>1, <2>2, <2>3 DEF SignInHas, Twins
<1>10. Stored'
  <2>1. storage'.access \in {0} \cup DOMAIN accessOf'
    BY <1>1, <1>5, <1>6 DEF Stored, Grows
  <2> QED  BY <1>1, <1>5, <1>6, <1>7, <1>8, <1>9, <2>1, StillStored DEF Stored
<1>11. ASSUME ~crossed PROVE Own'
  <2>1. \A b \in {0} \cup DOMAIN accessOf : OnTheWay(b)' => OnTheWay(b)
    BY <1>6, <1>7 DEF OnTheWay
  <2>2. /\ \A f \in Fetches : flight'[f].token = flight[f].token /\ (flight'[f].step = "none" <=> flight[f].step = "none")
        /\ \A t \in Tabs : signing[t].step = "none" => signing'[t].step = "none"
    BY <1>7
  <2> QED  BY <1>1, <1>5, <1>6, <1>11, <2>1, <2>2, StillOwn DEF TabInv
<1>12. ASSUME ~crossed, ~irregular PROVE Usable'
  <2>1. Usable
    BY <1>12 DEF TabInv
  <2>2. Flying' = Flying
    BY <1>7 DEF Flying
  <2>3. ASSUME NEW f \in Fetches PROVE UsableFlight(flight[f])'
    <3>1. FlightHas(flight[f]) /\ UsableFlight(flight[f])
      BY <1>1, <2>1 DEF Stored, Usable
    <3> QED  BY <1>6, <1>7, <3>1 DEF FlightHas, Twins, UsableFlight
  <2>4. ASSUME NEW t \in Tabs, signing'[t].step = "done" PROVE ~tokens'[signing'[t].new].revoked
    <3>1. SignInHas(signing[t]) /\ (signing[t].step = "done" => ~tokens[signing[t].new].revoked)
      BY <1>1, <2>1 DEF Stored, Usable
    <3> QED  BY <1>6, <1>7, <2>4, <3>1 DEF SignInHas, Twins
  <2>5. storage.refresh # 0 => tokens'[storage.refresh] = tokens[storage.refresh]
    BY <1>6 DEF BrowserInv, HandedOut
  <2> QED  BY <1>5, <2>1, <2>2, <2>3, <2>4, <2>5 DEF Usable
<1> QED  BY <1>5, <1>7, <1>10, <1>11, <1>12 DEF TabInv

\* A request that ends without tokens, or is cut short: a flight only in the latter case.
LEMMA FailedTabs ==
  ASSUME OneTab, BrowserInv, TabInv, NEW w \in Workers, Alone(w), Reply(w, "failed", 0, 0),
         UNCHANGED <<accountScene, sessions, tokens, accessOf, storage, fetch, crossed, thrown>>,
         irregular => irregular', irregular' \/ Fetches \cap serves[w] = {}
  PROVE  TabInv'
<1>1. Stored /\ Serving
  BY DEF TabInv
<1>2. Grows
  BY RestGrows
<1>3. /\ Serving'
      /\ \A f \in Fetches :
           IF f \notin serves[w] THEN flight'[f] = flight[f]
           ELSE flight'[f].step = "failed" /\ flight'[f].token = flight[f].token /\ flight[f].step = "served"
      /\ \A t \in Tabs :
           IF t \notin serves[w] THEN signing'[t] = signing[t]
           ELSE signing'[t].step = "failed" /\ signing'[t].user = signing[t].user /\ signing[t].step = "asked"
  <2>1. PICK step : step = "failed"
    OBVIOUS
  <2>2. step # "none" /\ Reply(w, step, 0, 0)
    BY <2>1
  <2> QED  BY <1>1, <1>2, <2>1, <2>2, Replied
<1>4. ASSUME NEW f \in Fetches, f \in serves[w] PROVE FlightHas(flight[f])' /\ f[1] \in accountScene.tabs
  BY <1>1, <1>3, <1>4 DEF Stored, FlightHas
<1>5. ASSUME NEW t \in Tabs, t \in serves[w] PROVE SignInHas(signing[t])' /\ t \in accountScene.tabs
  BY <1>1, <1>3, <1>5 DEF Stored, SignInHas
<1>6. Stored'
  BY <1>1, <1>2, <1>3, <1>4, <1>5, StillStored DEF Stored
<1>7. ASSUME ~crossed PROVE Own'
  <2>1. \A b : OnTheWay(b)' => OnTheWay(b)
    BY <1>3 DEF OnTheWay
  <2>2. /\ \A f \in Fetches : flight'[f].token = flight[f].token /\ (flight'[f].step = "none" <=> flight[f].step = "none")
        /\ \A t \in Tabs : signing[t].step = "none" => signing'[t].step = "none"
    BY <1>3
  <2> QED  BY <1>1, <1>2, <1>7, <2>1, <2>2, StillOwn DEF TabInv
<1>8. ASSUME ~crossed, ~irregular' PROVE Usable'
  <2>1. Usable /\ \A f \in Fetches : flight'[f] = flight[f]
    BY <1>3, <1>8 DEF TabInv
  <2>2. Flying' = Flying
    BY <2>1 DEF Flying
  <2>3. \A f \in Fetches : UsableFlight(flight[f])'
    BY <2>1 DEF Usable, UsableFlight
  <2>4. \A t \in Tabs : signing'[t].step = "done" => ~tokens[signing'[t].new].revoked
    BY <1>3, <2>1 DEF Usable
  <2> QED  BY <2>1, <2>2, <2>3, <2>4 DEF Usable
<1> QED  BY <1>3, <1>6, <1>7, <1>8 DEF TabInv

\* A request goes on, and nothing is answered yet.
LEMMA ServesFurther ==
  ASSUME BrowserInv, Stored, Serving, Grows, NEW w \in Workers, Alone(w), UNCHANGED <<serves, flight, signing>>,
         \A f \in Fetches \cap serves[w] : OnFlight(pc[w], my[w], flight[f])',
         \A t \in Tabs \cap serves[w] : OnSignIn(pc[w], my[w], signing[t])'
  PROVE  Serving'
<1>1. ASSUME NEW v \in Workers, v # w, NEW x \in serves[v]
      PROVE  /\ x \in Fetches => OnFlight(pc[v], my[v], flight[x])'
             /\ x \in Tabs => OnSignIn(pc[v], my[v], signing[x])'
  <2>1. pc'[v] = pc[v] /\ my'[v] = my[v]
    BY <1>1 DEF Alone
  <2> QED  BY <2>1, StillServing
<1>2. \A v \in Workers : /\ \A f \in Fetches \cap serves'[v] : OnFlight(pc[v], my[v], flight[f])'
                         /\ \A t \in Tabs \cap serves'[v] : OnSignIn(pc[v], my[v], signing[t])'
  BY <1>1
<1> QED  BY <1>2 DEF Serving

\* The tokens that are under way, and the one that is stored, are as good as they were.
LEMMA WorksOn ==
  ASSUME BrowserInv, TabInv, Grows, Serving', accessOf' \in Seq(Emails),
         UNCHANGED <<accountScene, storage, fetch, flight, signing, crossed, thrown, irregular>>,
         ~crossed /\ ~irregular =>
           /\ storage.refresh # 0 => Flying # {} \/ (tokens'[storage.refresh].revoked => tokens[storage.refresh].revoked)
           /\ \A f \in Fetches : flight[f].step = "done" =>
                (tokens'[flight[f].new].revoked => tokens[flight[f].new].revoked)
           /\ \A t \in Tabs : signing[t].step = "done" =>
                (tokens'[signing[t].new].revoked => tokens[signing[t].new].revoked)
  PROVE  TabInv'
<1>1. Stored
  BY DEF TabInv
<1>2. Stored'
  <2>1. storage'.access \in {0} \cup DOMAIN accessOf'
    BY <1>1 DEF Stored, Grows
  <2>2. fetch' = [f \in Fetches |-> fetch'[f]]
    BY <1>1 DEF Stored
  <2> QED  BY <1>1, <2>1, <2>2, StillStored
<1>3. ASSUME ~crossed PROVE Own'
  <2>1. \A b : OnTheWay(b)' => OnTheWay(b)
    BY DEF OnTheWay
  <2> QED  BY <1>1, <1>3, <2>1, StillOwn DEF TabInv
<1>4. ASSUME ~crossed, ~irregular PROVE Usable'
  <2>1. Usable /\ Flying' = Flying
    BY <1>4 DEF TabInv, Flying
  <2>2. ASSUME NEW f \in Fetches PROVE UsableFlight(flight[f])'
    <3>1. FlightHas(flight[f]) /\ UsableFlight(flight[f])
      BY <1>1, <2>1 DEF Stored, Usable
    <3> QED  BY <1>4, <3>1 DEF FlightHas, UsableFlight, Grows
  <2>3. \A t \in Tabs : signing'[t].step = "done" => ~tokens'[signing'[t].new].revoked
    BY <1>4, <2>1 DEF Usable
  <2>4. storage.refresh # 0 /\ tokens'[storage.refresh].revoked => Flying # {}
    BY <1>4, <2>1 DEF Usable
  <2> QED  BY <2>1, <2>2, <2>3, <2>4 DEF Usable
<1> QED  BY <1>2, <1>3, <1>4 DEF TabInv

LEMMA WorkedTabs ==
  ASSUME OneTab, BrowserInv, TabInv, NEW w \in Workers, Worked(w)
  PROVE  TabInv'
<1>1. Stored /\ Serving /\ accessOf \in Seq(Emails)
  BY DEF TabInv, Stored
<1>2. /\ UNCHANGED <<storage, accessOf, fetch, crossed, thrown, accountScene, irregular>> /\ serves[w] # {}
      /\ IF pc'[w] = "idle" THEN Reply(w, "failed", 0, 0) ELSE UNCHANGED <<serves, flight, signing>>
  BY DEF Worked, CreateUser, CreateSession, Revoke, At
<1>3. CASE CreateUser(w)
  <2>1. pc[w] = "createUser" /\ UNCHANGED <<sessions, tokens>> /\ (Answer(w) \/ Then(w, "createSession"))
    BY <1>3 DEF CreateUser, At
  <2>2. Fetches \cap serves[w] = {}
    BY <1>1, <2>1 DEF Serving, OnFlight
  <2>3. Grows
    BY <1>2, <2>1, RestGrows
  <2>4. CASE Answer(w)
    <3>1. Moved(w, "idle", NoWork)
      BY <2>4, Tables, WebAnswers
    <3>2. Alone(w) /\ Reply(w, "failed", 0, 0)
      BY <1>2, <3>1 DEF Moved
    <3> QED  BY <1>2, <2>1, <2>2, <3>2, FailedTabs
  <2>5. CASE Then(w, "createSession")
    <3>1. Moved(w, "createSession", my[w])
      BY <2>5, Tables, WebGoesOn
    <3>2. UNCHANGED <<serves, flight, signing>>
      BY <1>2, <3>1 DEF Moved
    <3>3. \A t \in Tabs \cap serves[w] : OnSignIn(pc[w], my[w], signing[t])'
      BY <1>1, <2>1, <3>1, <3>2 DEF Serving, OnSignIn, Moved
    <3>4. Serving'
      BY <1>1, <2>2, <2>3, <3>1, <3>2, <3>3, ServesFurther DEF Moved
    <3> QED  BY <1>1, <1>2, <2>1, <2>3, <3>2, <3>4, WorksOn
  <2> QED  BY <2>1, <2>4, <2>5
<1>4. CASE CreateSession(w)
  <2>1. Grows /\ UNCHANGED tokens /\ pc[w] = "createSession"
    BY <1>2, <1>4, CreateSessionGrows
  <2>2. PICK n \in DOMAIN sessions' : sessions'[n].user = my[w].user /\ Moved(w, "issue", [session |-> n])
    BY <1>2, <1>4, CreateSessionGrows
  <2>3. UNCHANGED <<serves, flight, signing>>
    BY <1>2, <2>2 DEF Moved
  <2>4. Fetches \cap serves[w] = {}
    BY <1>1, <2>1 DEF Serving, OnFlight
  <2>5. \A t \in Tabs \cap serves[w] : OnSignIn(pc[w], my[w], signing[t])'
    BY <1>1, <2>1, <2>2, <2>3 DEF Serving, OnSignIn, Moved
  <2>6. Serving'
    BY <1>1, <2>1, <2>2, <2>3, <2>4, <2>5, ServesFurther DEF Moved
  <2> QED  BY <1>1, <1>2, <2>1, <2>3, <2>6, WorksOn
<1>5. CASE Revoke(w)
  <2>1. /\ Grows /\ UNCHANGED sessions /\ my[w].token \in DOMAIN tokens /\ pc[w] = "revoke"
        /\ Moved(w, "issue", [session |-> tokens[my[w].token].session])
    BY <1>2, <1>5, RevokeGrows
  <2>2. UNCHANGED <<serves, flight, signing>>
    BY <1>2, <2>1 DEF Moved
  <2>3. Tabs \cap serves[w] = {}
    BY <1>1, <2>1 DEF Serving, OnSignIn
  <2>4. ASSUME NEW f \in Fetches \cap serves[w] PROVE OnFlight(pc[w], my[w], flight[f])'
    <3>1. flight[f].step = "served" /\ flight[f].token = my[w].token
      BY <1>1, <2>1 DEF Serving, OnFlight
    <3>2. PICK n : n = my[w].token
      OBVIOUS
    <3>3. UserOf(n)' = UserOf(n) /\ UserOf(n) = sessions[tokens[n].session].user
      BY <2>1, <3>2, UsersStay DEF UserOf
    <3>4. UserOf(flight[f].token)' = UserOf(n)
      BY <2>2, <3>1, <3>2, <3>3 DEF UserOf
    <3> QED  BY <2>1, <2>2, <3>1, <3>2, <3>3, <3>4 DEF OnFlight, Moved
  <2>5. Serving'
    BY <1>1, <2>1, <2>2, <2>3, <2>4, ServesFurther DEF Moved
  <2>6. \E f \in Fetches : flight[f].step = "served"
    BY <1>1, <1>2, <2>3 DEF Serving, OnFlight
  <2>7. PICK f \in Flying : flight[f].step = "served"
    BY <2>6 DEF Flying
  <2>8. ASSUME ~crossed, ~irregular
        PROVE  /\ \A g \in Fetches : flight[g].step # "done"
               /\ \A t \in Tabs : signing[t].step # "done"
    BY <2>7, <2>8 DEF TabInv, Own, Flying
  <2> QED  BY <1>1, <1>2, <2>1, <2>2, <2>5, <2>7, <2>8, WorksOn
<1> QED  BY <1>3, <1>4, <1>5 DEF Worked

LEMMA ServerTabs ==
  ASSUME OneTab, BrowserInv, TabInv,
         \/ \E w \in Workers : CutShort(w)
         \/ \E n \in DOMAIN accessOf : AccessEnds(n)
         \/ \E n \in DOMAIN tokens : RefreshEnds(n)
         \/ \E f \in Fetches : AnswerLost(f)
         \/ UNCHANGED allVars
  PROVE  TabInv'
<1>1. Stored /\ Serving /\ accessOf \in Seq(Emails)
  BY DEF TabInv, Stored
<1>2. ASSUME NEW w \in Workers, CutShort(w) PROVE TabInv'
  <2>1. /\ Alone(w) /\ irregular' = TRUE /\ Reply(w, "failed", 0, 0)
        /\ UNCHANGED <<accountScene, sessions, tokens, accessOf, storage, fetch, crossed, thrown>>
    BY <1>2, Tables, WebAnswers DEF CutShort, Abort, Irregular, accountVars, Moved
  <2> QED  BY <2>1, FailedTabs
<1>3. ASSUME NEW n \in DOMAIN tokens, RefreshEnds(n) PROVE TabInv'
  <2>1. /\ UNCHANGED <<pc, my, serves, accountScene, storage, accessOf, fetch, flight, signing, crossed, thrown, irregular>>
        /\ TokenEnds(n)
    BY <1>3 DEF RefreshEnds, TokenEnds, requestVars, clientVars
  <2>2. Grows /\ \A m \in DOMAIN tokens : tokens'[m].revoked = tokens[m].revoked
    BY <2>1, TokenEndsGrows
  <2>3. Serving'
    BY <1>1, <2>1, <2>2, ServesOn
  <2>4. storage.refresh # 0 => storage.refresh \in DOMAIN tokens
    BY DEF BrowserInv, HandedOut
  <2>5. /\ \A f \in Fetches : flight[f].step = "done" => flight[f].new \in DOMAIN tokens
        /\ \A t \in Tabs : signing[t].step = "done" => signing[t].new \in DOMAIN tokens
    BY <1>1 DEF Stored, FlightHas, SignInHas, Twins
  <2> QED  BY <1>1, <2>1, <2>2, <2>3, <2>4, <2>5, WorksOn
<1>4. ASSUME NEW f \in Fetches, AnswerLost(f) PROVE TabInv'
  BY <1>4, FlightFailsTabs DEF AnswerLost, Irregular, accountVars
<1>5. CASE (\E n \in DOMAIN accessOf : AccessEnds(n)) \/ UNCHANGED allVars
  <2>1. UNCHANGED <<pc, my, serves, accountScene, sessions, tokens, storage, accessOf, fetch, flight, signing, crossed,
                    thrown, irregular>>
    BY <1>5 DEF AccessEnds, requestVars, accountVars, allVars, allAccountVars, clientVars
  <2>2. Grows
    BY <2>1, RestGrows
  <2>3. Serving'
    BY <1>1, <2>1, <2>2, ServesOn
  <2> QED  BY <1>1, <2>1, <2>2, <2>3, WorksOn
<1> QED  BY <1>2, <1>3, <1>4, <1>5

\* With one tab the clients that have none are not there.
LEMMA TabsKept ==
  ASSUME OneTab, BrowserInv, TabInv, [WebNext]_allVars
  PROVE  TabInv'
<1>1. ~Devices
  BY DEF OneTab, Devices
<1>2. ASSUME NEW t \in Tabs, SignInLands(t) \/ Fallback(t) \/ \E w \in Workers, e \in Emails : SignIn(t, w, e)
      PROVE  TabInv'
  BY <1>2, SignInTabs, SignInLandsTabs, FallbackTabs
<1>3. ASSUME NEW f \in Fetches,
             \/ \E me \in BOOLEAN : SendFetch(f, me)
             \/ Looked(f) \/ Arrives(f) \/ Unauthorized(f)
             \/ \E w \in Workers : RefreshArrives(f, w)
             \/ FlightLands(f)
      PROVE  TabInv'
  BY <1>3, FetchesTabs, UnauthorizedTabs, RefreshArrivesTabs, FlightLandsTabs
<1>4. ASSUME NEW w \in Workers, Issued(w) \/ Worked(w) PROVE TabInv'
  BY <1>4, IssuedTabs, WorkedTabs
<1> QED  BY <1>1, <1>2, <1>3, <1>4, SignOutTabs, ServerTabs DEF WebNext

LEMMA SceneStays == ASSUME [WebNext]_allVars PROVE UNCHANGED accountScene
<1>1. CASE Devices
  BY <1>1 DEF Devices, AccountNext, AccountServe, Signup, Login, LogoutAll, AskLink, Refresh, Logout, FollowLink,
     CreateUser, CreateSession, Issue, Revoke, SaveLink, UseLink, Apply, TokenEnds, LinkEnds, accountVars
<1>2. CASE ~Devices
  BY <1>2 DEF WebNext, allVars, allAccountVars, accountVars, SignIn, Signup, Login, SignInLands, Fallback, SignOut,
     SendFetch, Looked, Arrives, Unauthorized, RefreshArrives, Refresh, FlightLands, AnswerLost,
     Issued, Issue, Worked, CreateUser, CreateSession, Revoke, CutShort, AccessEnds, RefreshEnds, TokenEnds
<1> QED  BY <1>1, <1>2

OneTabInv == BrowserInv /\ (OneTab => TabInv)

LEMMA TabsBegin == ASSUME WebInit PROVE TabInv
<1>1. /\ storage = SignedOut /\ accessOf = <<>> /\ fetch = [f \in Fetches |-> NoFetch]
      /\ flight = [f \in Fetches |-> NoFlight] /\ signing = [t \in Tabs |-> NoSignIn]
      /\ serves = [w \in Workers |-> {}] /\ thrown = FALSE
  BY DEF WebInit
<1>2. /\ \A f \in Fetches : fetch[f] = NoFetch /\ flight[f] = NoFlight
      /\ \A t \in Tabs : signing[t] = NoSignIn
      /\ storage.access = 0 /\ storage.refresh = 0 /\ storage.user = NoUser
  BY <1>1 DEF SignedOut
<1>3. /\ NoFetch.step = "none" /\ FetchHas(NoFetch) /\ NoFlight.step = "none" /\ FlightHas(NoFlight)
      /\ NoSignIn.step = "none" /\ SignInHas(NoSignIn)
  BY DEF NoFetch, FetchHas, NoFlight, FlightHas, NoSignIn, SignInHas
<1>4. Stored
  BY <1>1, <1>2, <1>3 DEF Stored
<1>5. Serving
  BY <1>1 DEF Serving
<1>6. Flying = {} /\ \A a : ~OnTheWay(a)
  BY <1>2, <1>3 DEF Flying, OnTheWay
<1>7. Own
  BY <1>1, <1>2, <1>3, <1>6 DEF Own
<1>8. Usable
  BY <1>1, <1>2, <1>3 DEF Usable, UsableFlight
<1> QED  BY <1>4, <1>5, <1>7, <1>8 DEF TabInv

LEMMA OneTabBegins == WebInit => OneTabInv
BY BrowserBegins, TabsBegin DEF OneTabInv

LEMMA OneTabKept == OneTabInv /\ [WebNext]_allVars => OneTabInv'
<1> SUFFICES ASSUME OneTabInv, [WebNext]_allVars PROVE OneTabInv'
  OBVIOUS
<1>1. OneTab' <=> OneTab
  BY SceneStays DEF OneTab
<1> QED  BY <1>1, BrowserKept, TabsKept DEF OneTabInv

\* However the fetches of a tab are refused and refresh, nobody is signed out by
\* them, and whoever is signed in holds a token that was not used
\* (WebSession.SignedInStays).
THEOREM SignedInStaysOn == WebSpec => []SignedInStays
<1>1. OneTabInv => SignedInStays
  BY DEF OneTabInv, TabInv, Usable, SignedInStays, Landed
<1> QED  BY <1>1, OneTabBegins, OneTabKept, PTL DEF WebSpec

\* Whatever answers are still under way, the profile that is stored is that of the
\* user to whom the stored token was issued (WebSession.ProfileIsTheTokens).
THEOREM ProfilesAreTheTokens == WebSpec => []ProfileIsTheTokens
<1>1. OneTabInv => ProfileIsTheTokens
  BY DEF OneTabInv, TabInv, Own, ProfileIsTheTokens, ProfileFits
<1> QED  BY <1>1, OneTabBegins, OneTabKept, PTL DEF WebSpec
=============================================================================
