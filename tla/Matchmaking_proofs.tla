------------------------- MODULE Matchmaking_proofs -------------------------
(***************************************************************************)
(* Matchmaking for any users, kinds and requests at a time: its types,     *)
(* that whoever waits is in the list, that matches are agreed, and that a  *)
(* session uses up one request of each of its players.                     *)
(*                                                                         *)
(* And Tournament for any field of players: that no chip is made or lost,  *)
(* that rounds are fair, and that a chip race ends with its last player.   *)
(***************************************************************************)
EXTENDS Matchmaking, Tournament, Requests_proofs, FiniteSetTheorems

SessionRow == [a : Users, b : Users, okA : BOOLEAN, okB : BOOLEAN,
            status : SessionStatus, late : BOOLEAN, game : Nat]
GameRow == [players : SUBSET Users, session : Nat]
PostRow(n) == [user : Users, made : 1 .. n]

-----------------------------------------------------------------------------
(* Type correctness *)

\* What a request that first looks for stale sessions goes on with.
Errand ==
  [then : {"pop", "answer"}] \cup [then : {"confirm"}, user : Users, session : DOMAIN sessions]

\* What a request holds at each of its steps.
Holds(step, work) ==
  /\ step = "enter" => work \in [ask : Ask] /\ work.ask.status = "PENDING"
  /\ step = "push" => work \in [id : DOMAIN asks]
  /\ step = "sweep" => work \in Errand
  /\ step = "expire" =>
       /\ work = [for |-> work.for, stale |-> work.stale] /\ work.for \in Errand
       /\ DOMAIN work.stale \subseteq DOMAIN sessions
       /\ work.stale \in [DOMAIN work.stale -> SessionRow]
  /\ step = "readFirst" => work \in [first : DOMAIN asks]
  /\ step \in {"choose", "putBack"} => work \in [first : DOMAIN asks, ask : Ask]
  /\ step \in {"unqueue", "pair", "saveAsks"} =>
       /\ work \in [first : DOMAIN asks, ask : Ask, best : DOMAIN asks, other : Ask]
       /\ work.first # work.best /\ work.ask.user # work.other.user
  /\ step = "confirm" => work \in [then : {"confirm"}, user : Users, session : DOMAIN sessions]
  /\ step \in {"createGame", "saveSession"} => work \in [session : DOMAIN sessions, copy : SessionRow]
  /\ step \in {"saveRow", "findNewest", "deleteOthers"} => work \in [row : PostRow(posts)]
  /\ step = "cancelAsks" => work \in [user : Users]
  /\ step = "createAuto" => work \in [players : SUBSET Users]

Equipped(w) == Holds(pc[w], my[w])

TablesOK ==
  /\ asks \in Seq(Ask)
  /\ queue \in Seq(DOMAIN asks)
  /\ sessions \in Seq(SessionRow)
  /\ games \in Seq(GameRow)
  /\ agreed \in Seq(SUBSET Users) /\ Len(agreed) = Len(sessions)

BoardOK ==
  /\ posts \in Nat
  /\ board \subseteq PostRow(posts)
  /\ posting \subseteq Users

TypeInv == Served /\ scene \in Scenes /\ TablesOK /\ BoardOK /\ \A w \in Workers : Equipped(w)
LEMMA TypeInit == Init => TypeInv
<1> SUFFICES ASSUME Init PROVE TypeInv
  OBVIOUS
<1>1. Served /\ \A w \in Workers : pc[w] = "idle"
  BY NothingServed DEF Init
<1>2. TablesOK /\ BoardOK /\ scene \in Scenes
  BY DEF Init, TablesOK, BoardOK, PostRow
<1> QED  BY <1>1, <1>2 DEF TypeInv, Equipped, Holds

\* A row of the board is numbered, and stays so when there are more of them.
MorePosts == BoardRest \/ UNCHANGED posts \/ posts' = posts + 1

\* Requests and sessions only become more, so what is held of them stays good.
LEMMA HoldsStill ==
  ASSUME NEW step, NEW work, Holds(step, work), posts \in Nat, MorePosts,
         DOMAIN asks \subseteq DOMAIN asks', DOMAIN sessions \subseteq DOMAIN sessions'
  PROVE  Holds(step, work)'
<1> USE DEF Holds
<1>1. step = "push" => work \in [id : DOMAIN asks']
  OBVIOUS
<1>2. step = "readFirst" => work \in [first : DOMAIN asks']
  OBVIOUS
<1>3. step \in {"choose", "putBack"} => work \in [first : DOMAIN asks', ask : Ask]
  OBVIOUS
<1>4. step \in {"unqueue", "pair", "saveAsks"} =>
        /\ work \in [first : DOMAIN asks', ask : Ask, best : DOMAIN asks', other : Ask]
        /\ work.first # work.best /\ work.ask.user # work.other.user
  OBVIOUS
<1>5. step \in {"createGame", "saveSession"} => work \in [session : DOMAIN sessions', copy : SessionRow]
  OBVIOUS
<1>6. step = "confirm" => work \in [then : {"confirm"}, user : Users, session : DOMAIN sessions']
  OBVIOUS
<1>7. Errand \subseteq Errand'
  BY DEF Errand
<1>8. step = "sweep" => work \in Errand'
  BY <1>7
<1>9. step = "expire" =>
        /\ work = [for |-> work.for, stale |-> work.stale] /\ work.for \in Errand'
        /\ DOMAIN work.stale \subseteq DOMAIN sessions'
        /\ work.stale \in [DOMAIN work.stale -> SessionRow]
  BY <1>7
<1>10. PostRow(posts) \subseteq PostRow(posts')
  BY DEF PostRow, MorePosts, BoardRest
<1>11. step \in {"saveRow", "findNewest", "deleteOthers"} => work \in [row : PostRow(posts')]
  BY <1>10
<1> HIDE DEF Holds
<1> QED  BY <1>1, <1>2, <1>3, <1>4, <1>5, <1>6, <1>8, <1>9, <1>11 DEF Holds

\* The frame of every step of a request: it is enough to look at the step's own
\* request and at what it changes.
LEMMA StepType ==
  ASSUME TypeInv, NEW w \in Workers, NEW step, NEW work,
         Await(w, step, work), Holds(step, work)',
         Arrive(w) \/ UNCHANGED overlapped, irregular' \in BOOLEAN, UNCHANGED scene,
         DOMAIN asks \subseteq DOMAIN asks', DOMAIN sessions \subseteq DOMAIN sessions',
         TablesOK', BoardOK', MorePosts
  PROVE  TypeInv'
<1>1. Moved(w, step, work) /\ pc' = [v \in Workers |-> pc'[v]] /\ my' = [v \in Workers |-> my'[v]]
  BY Awaiting DEF TypeInv
<1>2. Equipped(w)'
  BY <1>1 DEF Moved, Equipped
<1>3. ASSUME NEW v \in Workers \ {w} PROVE Equipped(v)'
  <2>1. pc'[v] = pc[v] /\ my'[v] = my[v] /\ Holds(pc[v], my[v])
    BY <1>1 DEF Moved, Alone, TypeInv, Equipped
  <2>2. PICK step0, work0 : step0 = pc[v] /\ work0 = my[v]
    OBVIOUS
  <2>3. Holds(step0, work0)'
    BY <2>1, <2>2, HoldsStill DEF TypeInv, BoardOK
  <2> QED  BY <2>1, <2>2, <2>3 DEF Equipped
<1>4. overlapped' \in BOOLEAN
  BY DEF Arrive, TypeInv, Served
<1>5. Served'
  BY <1>1, <1>4 DEF Served
<1> QED  BY <1>2, <1>3, <1>5 DEF TypeInv

\* What each change of a table leaves: the others are as they were.
LEMMA AsksType ==
  ASSUME TypeInv, asks' \in Seq(Ask), DOMAIN asks \subseteq DOMAIN asks',
         UNCHANGED <<queue, sessions, games, agreed>>
  PROVE  TablesOK'
<1>1. PICK old, new : old = DOMAIN asks /\ new = DOMAIN asks'
  OBVIOUS
<1>2. queue \in Seq(old)
  BY <1>1 DEF TypeInv, TablesOK
<1>3. \A n \in DOMAIN queue : queue[n] \in new
  BY <1>1, <1>2
<1>4. queue \in Seq(new)
  BY <1>2, <1>3, TableOf
<1> QED  BY <1>1, <1>4 DEF TypeInv, TablesOK

LEMMA QueueType ==
  ASSUME TypeInv, queue' \in Seq(DOMAIN asks), UNCHANGED <<asks, sessions, games, agreed>>
  PROVE  TablesOK'
BY DEF TypeInv, TablesOK

LEMMA SessionsType ==
  ASSUME TypeInv, NEW s, NEW saved \in SessionRow, sessions' = [sessions EXCEPT ![s] = saved],
         UNCHANGED <<asks, queue, games, agreed>>
  PROVE  TablesOK' /\ DOMAIN sessions' = DOMAIN sessions
<1>1. sessions \in Seq(SessionRow)
  BY DEF TypeInv, TablesOK
<1>2. sessions' \in Seq(SessionRow) /\ DOMAIN sessions' = DOMAIN sessions /\ Len(sessions') = Len(sessions)
  BY <1>1, SavedRow
<1> QED  BY <1>2 DEF TypeInv, TablesOK

LEMMA GamesType ==
  ASSUME TypeInv, NEW game \in GameRow, games' = Append(games, game),
         UNCHANGED <<asks, queue, sessions, agreed>>
  PROVE  TablesOK'
BY InsertedRow DEF TypeInv, TablesOK

\* Every sweep and every cancellation changes nothing but the status of some requests.
LEMMA AskRows ==
  ASSUME TypeInv
  PROVE  /\ \A i \in DOMAIN asks : asks[i] \in Ask
         /\ \A i \in DOMAIN asks, s \in Status : [asks[i] EXCEPT !.status = s] \in Ask
         /\ Swept \in Seq(Ask) /\ DOMAIN Swept = DOMAIN asks
         /\ \A u : /\ [i \in DOMAIN asks |-> IF asks[i].user = u /\ asks[i].status = "PENDING"
                                            THEN [asks[i] EXCEPT !.status = "CANCELLED"] ELSE asks[i]] \in Seq(Ask)
<1>1. asks \in Seq(Ask) /\ \A i \in DOMAIN asks : asks[i] \in Ask
  BY DEF TypeInv, TablesOK
<1>2. \A i \in DOMAIN asks, s \in Status : [asks[i] EXCEPT !.status = s] \in Ask
  BY <1>1 DEF Ask
<1>3. DOMAIN asks = 1 .. Len(asks) /\ Len(asks) \in Nat /\ "EXPIRED" \in Status /\ "CANCELLED" \in Status
  BY <1>1 DEF Status
<1>4. \A f \in [1 .. Len(asks) -> Ask] : f \in Seq(Ask)
  BY <1>3
<1>5. Swept \in [1 .. Len(asks) -> Ask]
  BY <1>1, <1>2, <1>3 DEF Swept
<1>6. ASSUME NEW u
      PROVE  [i \in DOMAIN asks |-> IF asks[i].user = u /\ asks[i].status = "PENDING"
                                    THEN [asks[i] EXCEPT !.status = "CANCELLED"] ELSE asks[i]]
               \in [1 .. Len(asks) -> Ask]
  BY <1>1, <1>2, <1>3
<1> QED  BY <1>1, <1>2, <1>3, <1>4, <1>5, <1>6 DEF Swept

\* Steps that change no table, or only one.
LEMMA CopyType ==
  ASSUME TypeInv, NEW w \in Workers, NEW step, NEW work,
         Await(w, step, work), Holds(step, work),
         Arrive(w) \/ UNCHANGED overlapped, irregular' \in BOOLEAN, UNCHANGED matchmakingVars
  PROVE  TypeInv'
<1>1. UNCHANGED <<asks, sessions, scene>> /\ TablesOK' /\ BoardOK'
  BY DEF matchmakingVars, TypeInv, TablesOK, BoardOK
<1>2. Holds(step, work)'
  BY <1>1, HoldsStill DEF TypeInv, BoardOK, MorePosts, matchmakingVars
<1> QED  BY <1>1, <1>2, StepType DEF MorePosts, matchmakingVars

LEMMA IdleHolds == Holds("idle", NoWork) /\ Holds("idle", NoWork)' /\ Holds("pop", NoWork)'
BY DEF Holds

LEMMA SearchType ==
  ASSUME TypeInv, NEW w \in Workers,
         (\E u \in Users, k \in Kinds : Search(w, u, k)) \/ Enter(w) \/ Push(w)
  PROVE  TypeInv'
<1>t. asks \in Seq(Ask) /\ BoardOK /\ irregular \in BOOLEAN
  BY DEF TypeInv, TablesOK, Served
<1>b. BoardRest => BoardOK'
  BY <1>t DEF BoardRest, BoardOK
<1>1. ASSUME NEW u \in Users, NEW k \in Kinds, Search(w, u, k) PROVE TypeInv'
  <2>1. PICK work : work = [ask |-> NewAsk(u, k)]
    OBVIOUS
  <2>2. Holds("enter", work)'
    BY <2>1 DEF Holds, NewAsk, Ask, Status
  <2>3. asks' \in Seq(Ask) /\ DOMAIN asks' = DOMAIN asks
    BY <1>1, AskRows DEF Search
  <2>4. TablesOK'
    BY <1>1, <2>3, AsksType DEF Search
  <2> QED  BY <1>b, <1>t, <1>1, <2>1, <2>2, <2>3, <2>4, StepType DEF MorePosts, Search, Call, Regular
<1>2. CASE Enter(w)
  <2>1. my[w].ask \in Ask
    BY <1>2 DEF Enter, At, TypeInv, Equipped, Holds
  <2>2. /\ asks' \in Seq(Ask) /\ DOMAIN asks \subseteq DOMAIN asks' /\ Len(asks) + 1 \in DOMAIN asks'
    BY <1>t, <1>2, <2>1, InsertedRow DEF Enter
  <2>3. PICK work : work = [id |-> Len(asks) + 1]
    OBVIOUS
  <2>4. Holds("push", work)'
    BY <2>2, <2>3 DEF Holds
  <2>5. TablesOK'
    BY <1>2, <2>2, AsksType DEF Enter
  <2> QED  BY <1>b, <1>t, <1>2, <2>2, <2>3, <2>4, <2>5, StepType DEF MorePosts, Enter, At
<1>3. CASE Push(w)
  <2>1. PICK i \in DOMAIN asks : i = my[w].id
    BY <1>3 DEF Push, At, TypeInv, Equipped, Holds
  <2>2. queue' = <<i>> \o queue /\ queue \in Seq(DOMAIN asks)
    BY <1>3, <2>1 DEF Push, TypeInv, TablesOK
  <2>3. TablesOK'
    BY <1>3, <2>1, <2>2, QueueType DEF Push
  <2>4. PICK work : work = [then |-> "pop"]
    OBVIOUS
  <2>5. Holds("sweep", work)'
    BY <2>4 DEF Holds, Errand
  <2> QED  BY <1>b, <1>t, <1>3, <2>3, <2>4, <2>5, StepType DEF MorePosts, Push, At
<1> QED  BY <1>1, <1>2, <1>3

LEMMA SweepType ==
  ASSUME TypeInv, NEW w \in Workers, Sweep(w)
  PROVE  TypeInv'
<1>t. asks \in Seq(Ask) /\ BoardOK' /\ irregular \in BOOLEAN /\ sessions \in Seq(SessionRow)
  BY DEF TypeInv, TablesOK, Served, Sweep, BoardRest, BoardOK
<1>1. asks' \in Seq(Ask) /\ DOMAIN asks' = DOMAIN asks
  BY <1>t, AskRows DEF Sweep
<1>2. TablesOK'
  BY <1>1, AsksType DEF Sweep
<1>3. PICK for, stale : for = my[w] /\ stale = [s \in StaleSessions |-> sessions[s]]
  OBVIOUS
<1>4. StaleSessions \subseteq DOMAIN sessions /\ \A s \in DOMAIN sessions : sessions[s] \in SessionRow
  BY <1>t DEF StaleSessions
<1>5. DOMAIN stale \subseteq DOMAIN sessions /\ stale \in [DOMAIN stale -> SessionRow]
  BY <1>3, <1>4
<1>6. for \in Errand
  BY <1>3 DEF Sweep, At, TypeInv, Equipped, Holds
<1>7. PICK work : work = [for |-> for, stale |-> stale]
  OBVIOUS
<1>8. Holds("expire", work)
  BY <1>5, <1>6, <1>7 DEF Holds
<1>9. Holds("expire", work)'
  BY <1>1, <1>8, HoldsStill DEF MorePosts, TypeInv, BoardOK, Sweep
<1> QED  BY <1>t, <1>1, <1>2, <1>3, <1>7, <1>9, StepType DEF MorePosts, Sweep, At

LEMMA ExpireType ==
  ASSUME TypeInv, NEW w \in Workers, ExpireSession(w)
  PROVE  TypeInv'
<1>t. BoardOK' /\ irregular \in BOOLEAN
  BY DEF TypeInv, TablesOK, Served, ExpireSession, BoardRest, BoardOK
<1>1. PICK for, stale : for = my[w].for /\ stale = my[w].stale
  OBVIOUS
<1>2. /\ my[w] = [for |-> for, stale |-> stale] /\ for \in Errand
      /\ DOMAIN stale \subseteq DOMAIN sessions /\ stale \in [DOMAIN stale -> SessionRow]
  BY <1>1 DEF ExpireSession, At, TypeInv, Equipped, Holds
<1>3. CASE DOMAIN stale = {}
  <2>1. Await(w, for.then, for) /\ UNCHANGED sessions
    BY <1>1, <1>3 DEF ExpireSession
  <2>2. Holds(for.then, for)
    BY <1>2 DEF Errand, Holds
  <2>3. UNCHANGED matchmakingVars
    BY <2>1 DEF ExpireSession, BoardRest, matchmakingVars
  <2> QED  BY <1>t, <2>1, <2>2, <2>3, CopyType DEF ExpireSession, At
<1>4. CASE DOMAIN stale # {}
  <2>1. PICK s \in DOMAIN stale :
          /\ sessions' = [sessions EXCEPT ![s] = [stale[s] EXCEPT !.status = "EXPIRED"]]
          /\ Await(w, "expire", [my[w] EXCEPT !.stale = [t \in DOMAIN @ \ {s} |-> @[t]]])
    <3>1. (CHOOSE s \in DOMAIN stale : TRUE) \in DOMAIN stale
      BY <1>4
    <3> QED  BY <1>1, <1>4, <3>1 DEF ExpireSession
  <2>2. stale[s] \in SessionRow /\ "EXPIRED" \in SessionStatus
    BY <1>2 DEF SessionStatus
  <2>3. [stale[s] EXCEPT !.status = "EXPIRED"] \in SessionRow
    BY <2>2 DEF SessionRow
  <2>4. TablesOK' /\ DOMAIN sessions' = DOMAIN sessions
    BY <2>1, <2>3, SessionsType DEF ExpireSession
  <2>5. PICK rest : rest = [t \in DOMAIN stale \ {s} |-> stale[t]]
    OBVIOUS
  <2>6. [my[w] EXCEPT !.stale = [t \in DOMAIN @ \ {s} |-> @[t]]] = [for |-> for, stale |-> rest]
    BY <1>2, <2>5
  <2>7. PICK work : work = [for |-> for, stale |-> rest]
    OBVIOUS
  <2>8. DOMAIN rest \subseteq DOMAIN sessions /\ rest \in [DOMAIN rest -> SessionRow]
    BY <1>2, <2>5
  <2>9. Holds("expire", work)
    BY <1>2, <2>7, <2>8 DEF Holds
  <2>10. Holds("expire", work)' /\ UNCHANGED <<asks, scene>>
    BY <2>4, <2>9, HoldsStill DEF MorePosts, TypeInv, BoardOK, ExpireSession
  <2> QED  BY <1>t, <2>1, <2>4, <2>6, <2>7, <2>10, StepType DEF MorePosts, ExpireSession, At
<1> QED  BY <1>3, <1>4

LEMMA PopType ==
  ASSUME TypeInv, NEW w \in Workers, Pop(w)
  PROVE  TypeInv'
<1>t. BoardOK' /\ irregular \in BOOLEAN /\ queue \in Seq(DOMAIN asks)
  BY DEF TypeInv, TablesOK, Served, Pop, BoardRest, BoardOK
<1>1. CASE queue = <<>>
  <2>1. UNCHANGED matchmakingVars /\ Await(w, "idle", NoWork)
    BY <1>1 DEF Pop, Answer, BoardRest, matchmakingVars
  <2> QED  BY <1>t, <2>1, IdleHolds, CopyType DEF Pop, At
<1>2. CASE queue # <<>>
  <2>1. PICK work : work = [first |-> Last(queue)]
    OBVIOUS
  <2>2. Front(queue) \in Seq(DOMAIN asks) /\ Last(queue) \in DOMAIN asks
    BY <1>t, <1>2, FrontAndLast
  <2>3. Holds("readFirst", work)
    BY <2>1, <2>2 DEF Holds
  <2>4. TablesOK'
    BY <1>2, <2>2, QueueType DEF Pop
  <2>5. Holds("readFirst", work)'
    BY <2>3, HoldsStill DEF MorePosts, TypeInv, BoardOK, Pop
  <2> QED  BY <1>t, <1>2, <2>1, <2>4, <2>5, StepType DEF MorePosts, Pop, At
<1> QED  BY <1>1, <1>2

LEMMA ReadFirstType ==
  ASSUME TypeInv, NEW w \in Workers, ReadFirst(w)
  PROVE  TypeInv'
<1>t. BoardOK' /\ irregular \in BOOLEAN /\ asks \in Seq(Ask)
  BY DEF TypeInv, TablesOK, Served, ReadFirst, BoardRest, BoardOK
<1>1. PICK i \in DOMAIN asks : i = my[w].first
  BY DEF ReadFirst, At, TypeInv, Equipped, Holds
<1>2. PICK work : work = [first |-> i, ask |-> asks[i]]
  OBVIOUS
<1>3. asks[i] \in Ask
  BY <1>t
<1>4. CASE Await(w, "choose", work) /\ UNCHANGED asks
  <2>1. UNCHANGED matchmakingVars
    BY <1>4 DEF ReadFirst, BoardRest, matchmakingVars
  <2>2. Holds("choose", work)
    BY <1>2, <1>3 DEF Holds
  <2> QED  BY <1>t, <1>4, <2>1, <2>2, CopyType DEF ReadFirst, At
<1>5. CASE Await(w, "pop", NoWork) /\ asks' \in {asks, [asks EXCEPT ![i].status = "EXPIRED"]}
  <2>1. "EXPIRED" \in Status
    BY DEF Status
  <2>2. [asks[i] EXCEPT !.status = "EXPIRED"] \in Ask
    BY <1>3, <2>1 DEF Ask
  <2>3. [asks EXCEPT ![i].status = "EXPIRED"] = [asks EXCEPT ![i] = [asks[i] EXCEPT !.status = "EXPIRED"]]
    OBVIOUS
  <2>4. asks' \in Seq(Ask) /\ DOMAIN asks' = DOMAIN asks
    BY <1>t, <1>5, <2>2, <2>3, SavedRow
  <2>5. TablesOK'
    BY <2>4, AsksType DEF ReadFirst
  <2> QED  BY <1>t, <1>5, <2>4, <2>5, IdleHolds, StepType DEF MorePosts, ReadFirst, At
<1> QED  BY <1>1, <1>2, <1>4, <1>5 DEF ReadFirst

LEMMA ChooseType ==
  ASSUME TypeInv, NEW w \in Workers, Choose(w)
  PROVE  TypeInv'
<1>t. irregular \in BOOLEAN /\ asks \in Seq(Ask) /\ UNCHANGED matchmakingVars
  BY DEF TypeInv, TablesOK, Served, Choose, BoardRest, matchmakingVars
<1>1. PICK i, ask : i = my[w].first /\ ask = my[w].ask
  OBVIOUS
<1>2. i \in DOMAIN asks /\ ask \in Ask /\ Holds("putBack", my[w])
  BY <1>1 DEF Choose, At, TypeInv, Equipped, Holds
<1>3. CASE Then(w, "putBack")
  <2>1. Await(w, "putBack", my[w])
    BY <1>3 DEF Then, Await, Hold, TypeInv, Served
  <2> QED  BY <1>t, <1>2, <2>1, CopyType DEF Choose, At
<1>4. ASSUME NEW best \in Opponents(i, ask),
             Await(w, "unqueue", [first |-> i, ask |-> ask, best |-> best, other |-> asks[best]])
      PROVE  TypeInv'
  <2>1. best \in DOMAIN asks /\ best # i /\ ask.user # asks[best].user /\ asks[best] \in Ask
    BY <1>t DEF Opponents, Suited
  <2>2. PICK work : work = [first |-> i, ask |-> ask, best |-> best, other |-> asks[best]]
    OBVIOUS
  <2>3. Holds("unqueue", work)
    BY <1>2, <2>1, <2>2 DEF Holds
  <2> QED  BY <1>t, <1>4, <2>2, <2>3, CopyType DEF Choose, At
<1> QED  BY <1>1, <1>3, <1>4 DEF Choose

LEMMA QueueStepType ==
  ASSUME TypeInv, NEW w \in Workers, PutBack(w) \/ Unqueue(w)
  PROVE  TypeInv'
<1>t. BoardOK' /\ irregular \in BOOLEAN /\ queue \in Seq(DOMAIN asks)
  BY DEF TypeInv, TablesOK, Served, PutBack, Unqueue, BoardRest, BoardOK
<1>1. CASE PutBack(w)
  <2>1. PICK i \in DOMAIN asks : i = my[w].first
    BY <1>1 DEF PutBack, At, TypeInv, Equipped, Holds
  <2>2. <<i>> \o queue \in Seq(DOMAIN asks)
    BY <1>t
  <2>3. TablesOK'
    BY <1>1, <2>1, <2>2, QueueType DEF PutBack, Back
  <2> QED  BY <1>t, <1>1, <2>3, IdleHolds, StepType DEF MorePosts, PutBack, At, Answer
<1>2. CASE Unqueue(w)
  <2>1. queue' \in Seq(DOMAIN asks)
    BY <1>t, <1>2, RemovedAt DEF Unqueue
  <2>2. TablesOK'
    BY <1>2, <2>1, QueueType DEF Unqueue
  <2>3. PICK work : work = my[w]
    OBVIOUS
  <2>4. Holds("pair", work)
    BY <1>2, <2>3 DEF Unqueue, At, TypeInv, Equipped, Holds
  <2>5. Holds("pair", work)'
    BY <1>2, <2>4, HoldsStill DEF MorePosts, TypeInv, BoardOK, Unqueue
  <2>6. Await(w, "pair", work)
    BY <1>2, <2>3 DEF Unqueue, Then, Await, Hold, TypeInv, Served
  <2> QED  BY <1>t, <1>2, <2>2, <2>5, <2>6, StepType DEF MorePosts, Unqueue, At
<1> QED  BY <1>1, <1>2

LEMMA PairType ==
  ASSUME TypeInv, NEW w \in Workers, Pair(w)
  PROVE  TypeInv'
<1>t. /\ BoardOK' /\ irregular \in BOOLEAN
      /\ sessions \in Seq(SessionRow) /\ agreed \in Seq(SUBSET Users) /\ Len(agreed) = Len(sessions)
  BY DEF TypeInv, TablesOK, Served, Pair, BoardRest, BoardOK
<1>1. PICK work : work = my[w]
  OBVIOUS
<1>2. work.ask \in Ask /\ work.other \in Ask /\ Holds("saveAsks", work)
  BY <1>1 DEF Pair, At, TypeInv, Equipped, Holds
<1>3. PICK new : new = NewSession(work.ask, work.other)
  OBVIOUS
<1>4. new \in SessionRow
  BY <1>2, <1>3 DEF NewSession, SessionRow, Ask, SessionStatus
<1>5. sessions' = Append(sessions, new) /\ agreed' = Append(agreed, {})
  BY <1>1, <1>3 DEF Pair
<1>6. sessions' \in Seq(SessionRow) /\ Len(sessions') = Len(sessions) + 1 /\ DOMAIN sessions \subseteq DOMAIN sessions'
  BY <1>t, <1>4, <1>5, InsertedRow
<1>7. agreed' \in Seq(SUBSET Users) /\ Len(agreed') = Len(agreed) + 1
  BY <1>t, <1>5
<1>8. TablesOK'
  BY <1>t, <1>6, <1>7 DEF Pair, TypeInv, TablesOK
<1>9. Holds("saveAsks", work)'
  BY <1>2, <1>6, HoldsStill DEF MorePosts, TypeInv, BoardOK, Pair
<1>10. Await(w, "saveAsks", work)
  BY <1>1 DEF Pair, Then, Await, Hold, TypeInv, Served
<1> QED  BY <1>t, <1>6, <1>8, <1>9, <1>10, StepType DEF MorePosts, Pair, At

\* Both requests are saved MATCHED, as late as they have become.
LEMMA SavesAsks ==
  ASSUME TypeInv, NEW w \in Workers, SaveAsks(w)
  PROVE  \E i, j \in DOMAIN asks, a, b \in Ask :
           /\ i = my[w].first /\ j = my[w].best /\ i # j
           /\ a.status = "MATCHED" /\ a.user = my[w].ask.user
           /\ b.status = "MATCHED" /\ b.user = my[w].other.user
           /\ asks' = [[asks EXCEPT ![i] = a] EXCEPT ![j] = b]
<1>1. PICK i, j, ask, other : i = my[w].first /\ j = my[w].best /\ ask = my[w].ask /\ other = my[w].other
  OBVIOUS
<1>2. i \in DOMAIN asks /\ j \in DOMAIN asks /\ i # j /\ ask \in Ask /\ other \in Ask
  BY <1>1 DEF SaveAsks, At, TypeInv, Equipped, Holds
<1>3. asks[i].late \in BOOLEAN /\ asks[j].late \in BOOLEAN
  BY <1>2, AskRows DEF Ask
<1>4. PICK a, b : /\ a = [ask EXCEPT !.status = "MATCHED", !.late = @ \/ asks[i].late]
                  /\ b = [other EXCEPT !.status = "MATCHED", !.late = @ \/ asks[j].late]
  OBVIOUS
<1>5. asks' = [[asks EXCEPT ![i] = a] EXCEPT ![j] = b]
  BY <1>1, <1>4 DEF SaveAsks
<1>6. a \in Ask /\ a.status = "MATCHED" /\ a.user = ask.user
  BY <1>2, <1>3, <1>4 DEF Ask, Status
<1>7. b \in Ask /\ b.status = "MATCHED" /\ b.user = other.user
  BY <1>2, <1>3, <1>4 DEF Ask, Status
<1> QED  BY <1>1, <1>2, <1>5, <1>6, <1>7

LEMMA SaveAsksType ==
  ASSUME TypeInv, NEW w \in Workers, SaveAsks(w)
  PROVE  TypeInv'
<1>t. BoardOK' /\ irregular \in BOOLEAN /\ asks \in Seq(Ask)
  BY DEF TypeInv, TablesOK, Served, SaveAsks, BoardRest, BoardOK
<1>1. PICK i, j \in DOMAIN asks, a, b \in Ask : asks' = [[asks EXCEPT ![i] = a] EXCEPT ![j] = b]
  BY SavesAsks
<1>2. PICK half : half = [asks EXCEPT ![i] = a]
  OBVIOUS
<1>3. half \in Seq(Ask) /\ DOMAIN half = DOMAIN asks
  BY <1>t, <1>2, SavedRow
<1>4. asks' \in Seq(Ask) /\ DOMAIN asks' = DOMAIN asks
  BY <1>1, <1>2, <1>3, SavedRow
<1>5. TablesOK'
  BY <1>4, AsksType DEF SaveAsks
<1> QED  BY <1>t, <1>4, <1>5, IdleHolds, StepType DEF MorePosts, SaveAsks, At, Answer

\* The calls about sessions.
LEMMA SessionCallType ==
  ASSUME TypeInv, NEW w \in Workers,
         \/ \E u \in Users, s \in DOMAIN sessions : Confirm(w, u, s)
         \/ \E s \in DOMAIN sessions : Cancel(w, s)
         \/ GetStatus(w) \/ AnswerStatus(w)
  PROVE  TypeInv'
<1>t. irregular \in BOOLEAN /\ \A s \in DOMAIN sessions : sessions[s] \in SessionRow
  BY DEF TypeInv, TablesOK, Served
<1>1. ASSUME NEW u \in Users, NEW s \in DOMAIN sessions, Confirm(w, u, s) PROVE TypeInv'
  <2>1. PICK work : work = [then |-> "confirm", user |-> u, session |-> s]
    OBVIOUS
  <2>2. Holds("sweep", work)
    BY <2>1 DEF Holds, Errand
  <2> QED  BY <1>t, <1>1, <2>1, <2>2, CopyType DEF Confirm, Call, Regular
<1>2. ASSUME NEW s \in DOMAIN sessions, Cancel(w, s) PROVE TypeInv'
  <2>1. PICK copy : copy = [sessions[s] EXCEPT !.status = "CANCELLED"]
    OBVIOUS
  <2>2. copy \in SessionRow
    BY <1>t, <2>1 DEF SessionRow, SessionStatus
  <2>3. PICK work : work = [session |-> s, copy |-> copy]
    OBVIOUS
  <2>4. Holds("saveSession", work)
    BY <2>2, <2>3 DEF Holds
  <2> QED  BY <1>t, <1>2, <2>1, <2>3, <2>4, CopyType DEF Cancel, Call, Regular
<1>3. CASE GetStatus(w)
  <2>1. PICK work : work = [then |-> "answer"]
    OBVIOUS
  <2>2. Holds("sweep", work)
    BY <2>1 DEF Holds, Errand
  <2> QED  BY <1>t, <1>3, <2>1, <2>2, CopyType DEF GetStatus, Call, Regular
<1>4. CASE AnswerStatus(w)
  BY <1>t, <1>4, IdleHolds, CopyType DEF AnswerStatus, At, Answer
<1> QED  BY <1>1, <1>2, <1>3, <1>4

\* What a confirmation makes of the session it has read.
LEMMA ReadsSession ==
  ASSUME TypeInv, NEW w \in Workers, ReadSession(w)
  PROVE  \E s \in DOMAIN sessions, u \in Users, copy, flagged \in SessionRow :
           /\ s = my[w].session /\ u = my[w].user /\ copy = sessions[s] /\ flagged = Flagged(copy, u)
           /\ \/ /\ Await(w, "saveSession", [session |-> s, copy |-> [copy EXCEPT !.status = "EXPIRED"]])
                 /\ UNCHANGED agreed
              \/ Answer(w) /\ UNCHANGED agreed
              \/ /\ ~copy.late /\ copy.status = "PENDING_CONFIRMATION"
                 /\ Await(w, IF flagged.okA /\ flagged.okB THEN "createGame" ELSE "saveSession",
                          [session |-> s, copy |-> flagged])
                 /\ agreed' = [agreed EXCEPT ![s] = @ \cup {u}]
<1>1. PICK s \in DOMAIN sessions, u \in Users : s = my[w].session /\ u = my[w].user
  BY DEF ReadSession, At, TypeInv, Equipped, Holds
<1>2. PICK copy \in SessionRow : copy = sessions[s]
  BY DEF TypeInv, TablesOK
<1>3. PICK flagged : flagged = Flagged(copy, u)
  OBVIOUS
<1>4. flagged \in SessionRow
  BY <1>2, <1>3 DEF Flagged, SessionRow
<1> QED  BY <1>1, <1>2, <1>3, <1>4 DEF ReadSession

LEMMA ReadSessionType ==
  ASSUME TypeInv, NEW w \in Workers, ReadSession(w)
  PROVE  TypeInv'
<1>t. /\ BoardOK' /\ irregular \in BOOLEAN
      /\ agreed \in Seq(SUBSET Users) /\ Len(agreed) = Len(sessions) /\ sessions \in Seq(SessionRow)
  BY DEF TypeInv, TablesOK, Served, ReadSession, BoardRest, BoardOK
<1>1. PICK s \in DOMAIN sessions, u \in Users, copy, flagged \in SessionRow :
           /\ s = my[w].session /\ u = my[w].user /\ copy = sessions[s] /\ flagged = Flagged(copy, u)
           /\ \/ /\ Await(w, "saveSession", [session |-> s, copy |-> [copy EXCEPT !.status = "EXPIRED"]])
                 /\ UNCHANGED agreed
              \/ Answer(w) /\ UNCHANGED agreed
              \/ /\ ~copy.late /\ copy.status = "PENDING_CONFIRMATION"
                 /\ Await(w, IF flagged.okA /\ flagged.okB THEN "createGame" ELSE "saveSession",
                          [session |-> s, copy |-> flagged])
                 /\ agreed' = [agreed EXCEPT ![s] = @ \cup {u}]
  BY ReadsSession
<1>2. \A saved \in SessionRow, step \in {"createGame", "saveSession"} : Holds(step, [session |-> s, copy |-> saved])
  BY DEF Holds
<1>3. CASE Answer(w) /\ UNCHANGED agreed
  <2>1. UNCHANGED matchmakingVars
    BY <1>3 DEF ReadSession, BoardRest, matchmakingVars
  <2> QED  BY <1>t, <1>3, <2>1, IdleHolds, CopyType DEF ReadSession, At, Answer
<1>4. CASE /\ Await(w, "saveSession", [session |-> s, copy |-> [copy EXCEPT !.status = "EXPIRED"]])
           /\ UNCHANGED agreed
  <2>1. UNCHANGED matchmakingVars
    BY <1>4 DEF ReadSession, BoardRest, matchmakingVars
  <2>2. [copy EXCEPT !.status = "EXPIRED"] \in SessionRow
    BY DEF SessionRow, SessionStatus
  <2> QED  BY <1>t, <1>2, <1>4, <2>1, <2>2, CopyType DEF ReadSession, At
<1>5. CASE /\ Await(w, IF flagged.okA /\ flagged.okB THEN "createGame" ELSE "saveSession",
                    [session |-> s, copy |-> flagged])
           /\ agreed' = [agreed EXCEPT ![s] = @ \cup {u}]
  <2>1. PICK step, work, who : /\ step = (IF flagged.okA /\ flagged.okB THEN "createGame" ELSE "saveSession")
                               /\ work = [session |-> s, copy |-> flagged]
                               /\ who = agreed[s] \cup {u}
    OBVIOUS
  <2>2. who \in SUBSET Users
    BY <1>t, <2>1
  <2>3. agreed' = [agreed EXCEPT ![s] = who]
    BY <1>5, <2>1
  <2>4. agreed' \in Seq(SUBSET Users) /\ Len(agreed') = Len(agreed)
    BY <1>t, <2>2, <2>3
  <2>5. TablesOK'
    BY <1>t, <2>4 DEF ReadSession, TypeInv, TablesOK
  <2>6. Holds(step, work)
    BY <1>1, <1>2, <2>1
  <2>7. Holds(step, work)'
    BY <2>6, HoldsStill DEF MorePosts, TypeInv, BoardOK, ReadSession
  <2> QED  BY <1>t, <1>5, <2>1, <2>5, <2>7, StepType DEF MorePosts, ReadSession, At
<1> QED  BY <1>1, <1>3, <1>4, <1>5

LEMMA CreateGameType ==
  ASSUME TypeInv, NEW w \in Workers, CreateGame(w) \/ CreateAuto(w)
  PROVE  TypeInv'
<1>t. BoardOK' /\ irregular \in BOOLEAN /\ games \in Seq(GameRow)
  BY DEF TypeInv, TablesOK, Served, CreateGame, CreateAuto, BoardRest, BoardOK
<1>1. CASE CreateGame(w)
  <2>1. PICK s \in DOMAIN sessions, copy \in SessionRow : my[w] = [session |-> s, copy |-> copy]
    BY <1>1 DEF CreateGame, At, TypeInv, Equipped, Holds
  <2>2. PICK game, paid : /\ game = [players |-> {copy.a, copy.b}, session |-> s]
                          /\ paid = [copy EXCEPT !.game = Len(games) + 1, !.status = "CONFIRMED"]
    OBVIOUS
  <2>3. s \in Nat /\ Len(games) + 1 \in Nat /\ copy.a \in Users /\ copy.b \in Users
    BY <1>t, <2>1 DEF SessionRow, TypeInv, TablesOK
  <2>4. game \in GameRow
    BY <2>2, <2>3 DEF GameRow
  <2>5. paid \in SessionRow
    BY <2>2, <2>3 DEF SessionRow, SessionStatus
  <2>6. games' = Append(games, game)
    BY <1>1, <2>1, <2>2 DEF CreateGame
  <2>7. [my[w] EXCEPT !.copy = [@ EXCEPT !.game = Len(games) + 1, !.status = "CONFIRMED"]]
          = [session |-> s, copy |-> paid]
    BY <2>1, <2>2
  <2>8. TablesOK'
    BY <1>1, <2>4, <2>6, GamesType DEF CreateGame
  <2>9. PICK work : work = [session |-> s, copy |-> paid]
    OBVIOUS
  <2>10. Holds("saveSession", work)
    BY <2>5, <2>9 DEF Holds
  <2>11. Holds("saveSession", work)'
    BY <1>1, <2>10, HoldsStill DEF MorePosts, TypeInv, BoardOK, CreateGame
  <2> QED  BY <1>t, <1>1, <2>7, <2>8, <2>9, <2>11, StepType DEF MorePosts, CreateGame, At
<1>2. CASE CreateAuto(w)
  <2>1. my[w] \in [players : SUBSET Users]
    BY <1>2 DEF CreateAuto, At, TypeInv, Equipped, Holds
  <2>2. [players |-> my[w].players, session |-> 0] \in GameRow
    BY <2>1 DEF GameRow
  <2>3. TablesOK'
    BY <1>2, <2>2, GamesType DEF CreateAuto
  <2> QED  BY <1>t, <1>2, <2>3, IdleHolds, StepType DEF MorePosts, CreateAuto, At, Answer
<1> QED  BY <1>1, <1>2

\* A save writes the copy, as late as the row has become.
LEMMA SavesSession ==
  ASSUME TypeInv, NEW w \in Workers, SaveSession(w)
  PROVE  \E s \in DOMAIN sessions, copy, saved \in SessionRow :
           /\ my[w] = [session |-> s, copy |-> copy]
           /\ saved = [copy EXCEPT !.late = @ \/ sessions[s].late]
           /\ sessions' = [sessions EXCEPT ![s] = saved]
<1>1. PICK s \in DOMAIN sessions, copy \in SessionRow : my[w] = [session |-> s, copy |-> copy]
  BY DEF SaveSession, At, TypeInv, Equipped, Holds
<1>2. sessions[s].late \in BOOLEAN
  <2>1. sessions[s] \in SessionRow
    BY DEF TypeInv, TablesOK
  <2> QED  BY <2>1 DEF SessionRow
<1>3. PICK saved : saved = [copy EXCEPT !.late = @ \/ sessions[s].late]
  OBVIOUS
<1>4. saved \in SessionRow
  BY <1>2, <1>3 DEF SessionRow
<1>5. sessions' = [sessions EXCEPT ![s] = saved]
  BY <1>1, <1>3 DEF SaveSession
<1> QED  BY <1>1, <1>3, <1>4, <1>5

LEMMA SaveSessionType ==
  ASSUME TypeInv, NEW w \in Workers, SaveSession(w)
  PROVE  TypeInv'
<1>t. BoardOK' /\ irregular \in BOOLEAN
  BY DEF TypeInv, TablesOK, Served, SaveSession, BoardRest, BoardOK
<1>1. PICK s \in DOMAIN sessions, saved \in SessionRow : sessions' = [sessions EXCEPT ![s] = saved]
  BY SavesSession
<1>2. TablesOK' /\ DOMAIN sessions' = DOMAIN sessions
  BY <1>1, SessionsType DEF SaveSession
<1> QED  BY <1>t, <1>2, IdleHolds, StepType DEF MorePosts, SaveSession, At, Answer

-----------------------------------------------------------------------------
(* The board *)

LEMMA BoardFrame ==
  ASSUME TypeInv, UNCHANGED <<asks, queue, sessions, games, agreed>>
  PROVE  TablesOK'
BY DEF TypeInv, TablesOK

LEMMA LastNumber ==
  ASSUME NEW n \in Nat, NEW S \in SUBSET (1 .. n), S # {}
  PROVE  \E m \in S : \A k \in S : k <= m
<1> DEFINE T == {m .. n : m \in S}
<1>a. IsFiniteSet(1 .. n)
  <2>1. 1 \in Int /\ n \in Int
    OBVIOUS
  <2> QED  BY <2>1, FS_Interval
<1>b. \A m \in S : (m .. n) \in SUBSET (1 .. n)
  OBVIOUS
<1>1. IsFiniteSet(1 .. n) /\ T \subseteq SUBSET (1 .. n) /\ T # {}
  BY <1>a, <1>b
<1>2. IsWellFoundedOn(StrictSubsetOrdering(1 .. n), SUBSET (1 .. n))
  BY <1>1, FS_FiniteSubsetsOfFinite, FS_StrictSubsetOrderingWellFounded, Zenon
<1> DEFINE R == StrictSubsetOrdering(1 .. n)
           Subs == SUBSET (1 .. n)
<1> HIDE DEF T, R, Subs
<1>c. IsWellFoundedOn(R, Subs) /\ T \subseteq Subs
  BY <1>1, <1>2 DEF R, Subs
<1>d. PICK x \in T : \A y \in T : <<y, x>> \notin R
  BY <1>1, <1>c, WFMin, SMT
<1>3. \A y \in T : <<y, x>> \notin StrictSubsetOrdering(1 .. n)
  BY <1>d DEF R
<1>4. PICK m \in S : x = m .. n
  BY DEF T
<1>5. ASSUME NEW k \in S, k > m PROVE FALSE
  <2>1. (k .. n) \subseteq (m .. n) /\ m \in (m .. n) /\ m \notin (k .. n)
    BY <1>5
  <2>2. (k .. n) \in SUBSET (1 .. n) /\ (m .. n) \in SUBSET (1 .. n) /\ (k .. n) # (m .. n)
    BY <2>1
  <2>3. <<k .. n, m .. n>> \in StrictSubsetOrdering(1 .. n)
    BY <2>1, <2>2 DEF StrictSubsetOrdering
  <2> QED  BY <1>3, <1>4, <2>3 DEF T
<1> QED
  <2>1. m \in Int /\ \A k \in S : k \in Int
    OBVIOUS
  <2> QED  BY <1>5, <2>1

LEMMA NewestRow ==
  ASSUME TypeInv, NEW u, RowsOf(u) # {}
  PROVE  Newest(u) \in board /\ Newest(u).user = u
<1>1. board \subseteq PostRow(posts) /\ posts \in Nat
  BY DEF TypeInv, BoardOK
<1>2. PICK S : S = {r.made : r \in RowsOf(u)}
  OBVIOUS
<1>3. S \in SUBSET (1 .. posts) /\ S # {}
  BY <1>1, <1>2 DEF PostRow, RowsOf
<1>4. PICK m \in S : \A k \in S : k <= m
  BY <1>1, <1>3, LastNumber
<1>5. \E r \in RowsOf(u) : \A q \in RowsOf(u) : q.made <= r.made
  BY <1>2, <1>4
<1> QED  BY <1>5 DEF Newest, RowsOf

LEMMA PostType ==
  ASSUME TypeInv, NEW w \in Workers, \E u \in Users : Post(w, u)
  PROVE  TypeInv'
<1>1. PICK u \in Users : Post(w, u)
  OBVIOUS
<1>2. PICK saved : saved = IF RowsOf(u) # {} THEN Newest(u) ELSE [user |-> u, made |-> posts + 1]
  OBVIOUS
<1>3. posts \in Nat /\ board \subseteq PostRow(posts) /\ posting \subseteq Users /\ irregular \in BOOLEAN
  BY DEF TypeInv, BoardOK, Served
<1>4. posts' = posts + 1 /\ posts + 1 \in Nat /\ UNCHANGED board /\ posting' = posting \cup {u}
  BY <1>1, <1>3 DEF Post
<1>5. PostRow(posts) \subseteq PostRow(posts + 1) /\ [user |-> u, made |-> posts + 1] \in PostRow(posts + 1)
  BY <1>3 DEF PostRow
<1>6. saved \in PostRow(posts')
  BY <1>2, <1>3, <1>4, <1>5, NewestRow
<1>7. BoardOK'
  BY <1>3, <1>4, <1>5 DEF BoardOK
<1>8. TablesOK' /\ UNCHANGED <<asks, sessions>>
  BY <1>1, BoardFrame DEF Post
<1>9. PICK work : work = [row |-> saved]
  OBVIOUS
<1>10. Holds("saveRow", work)'
  BY <1>6, <1>9 DEF Holds
<1> QED  BY <1>1, <1>2, <1>3, <1>4, <1>7, <1>8, <1>9, <1>10, StepType DEF MorePosts, Post, Call, Regular

LEMMA BoardStepType ==
  ASSUME TypeInv, NEW w \in Workers, SaveRow(w) \/ FindNewest(w) \/ DeleteOthers(w)
  PROVE  TypeInv'
<1>1. PICK work : work = my[w]
  OBVIOUS
<1>2. work \in [row : PostRow(posts)] /\ Holds("findNewest", work)
  BY <1>1 DEF SaveRow, FindNewest, DeleteOthers, At, TypeInv, Equipped, Holds
<1>3. posts \in Nat /\ board \subseteq PostRow(posts) /\ posting \subseteq Users /\ irregular \in BOOLEAN
  BY DEF TypeInv, BoardOK, Served
<1>4. CASE SaveRow(w)
  <2>1. TablesOK' /\ UNCHANGED <<asks, sessions, posts, scene, overlapped, irregular>>
    BY <1>4, BoardFrame DEF SaveRow, At
  <2>2. BoardOK'
    BY <1>1, <1>2, <1>3, <1>4 DEF SaveRow, BoardOK
  <2>3. Holds("findNewest", work)'
    BY <1>2, <1>3, <2>1, HoldsStill DEF MorePosts
  <2>4. Await(w, "findNewest", work)
    BY <1>1, <1>4 DEF SaveRow, Then, Await, Hold, TypeInv, Served
  <2> QED  BY <1>3, <2>1, <2>2, <2>3, <2>4, StepType DEF MorePosts
<1>5. CASE FindNewest(w)
  <2>1. UNCHANGED matchmakingVars /\ UNCHANGED <<overlapped, irregular>>
    BY <1>5 DEF FindNewest, At
  <2>2. CASE Answer(w)
    BY <1>3, <2>1, <2>2, IdleHolds, CopyType DEF Answer
  <2>3. CASE RowsOf(work.row.user) # {} /\ Await(w, "deleteOthers", [row |-> Newest(work.row.user)])
    <3>1. PICK next : next = [row |-> Newest(work.row.user)]
      OBVIOUS
    <3>2. Newest(work.row.user) \in PostRow(posts)
      BY <1>3, <2>3, NewestRow
    <3>3. Holds("deleteOthers", next)
      BY <3>1, <3>2 DEF Holds
    <3> QED  BY <1>3, <2>1, <2>3, <3>1, <3>3, CopyType
  <2> QED  BY <1>1, <1>5, <2>2, <2>3 DEF FindNewest
<1>6. CASE DeleteOthers(w)
  <2>1. TablesOK' /\ UNCHANGED <<asks, sessions, posts, scene, overlapped, irregular>>
    BY <1>6, BoardFrame DEF DeleteOthers, At
  <2>2. BoardOK'
    BY <1>3, <1>6 DEF DeleteOthers, BoardOK
  <2> QED  BY <1>3, <1>6, <2>1, <2>2, IdleHolds, StepType DEF MorePosts, DeleteOthers, Answer
<1> QED  BY <1>4, <1>5, <1>6

LEMMA LeaveType ==
  ASSUME TypeInv, NEW w \in Workers, \E u \in Users : LeaveQueue(w, u) \/ CancelRequest(w, u)
  PROVE  TypeInv'
<1>1. PICK u \in Users : LeaveQueue(w, u) \/ CancelRequest(w, u)
  OBVIOUS
<1>2. posts \in Nat /\ board \subseteq PostRow(posts) /\ posting \subseteq Users /\ irregular \in BOOLEAN
  BY DEF TypeInv, BoardOK, Served
<1>3. UNCHANGED <<asks, queue, sessions, games, agreed, posts, scene>> /\ Arrive(w) /\ irregular' \in BOOLEAN
  BY <1>1, <1>2 DEF LeaveQueue, CancelRequest, Call, Regular
<1>4. TablesOK'
  BY <1>3, BoardFrame
<1>5. BoardOK'
  BY <1>1, <1>2 DEF LeaveQueue, CancelRequest, BoardOK
<1>6. CASE LeaveQueue(w, u)
  <2>1. PICK work : work = [user |-> u]
    OBVIOUS
  <2>2. Holds("cancelAsks", work)'
    BY <2>1 DEF Holds
  <2> QED  BY <1>3, <1>4, <1>5, <1>6, <2>1, <2>2, StepType DEF LeaveQueue, MorePosts
<1>7. CASE CancelRequest(w, u)
  <2>1. UNCHANGED <<pc, my>>
    BY <1>7 DEF CancelRequest
  <2>2. Await(w, pc[w], my[w])
    BY <2>1 DEF Await, Goto, Hold, TypeInv, Served
  <2>3. PICK step, work : step = pc[w] /\ work = my[w]
    OBVIOUS
  <2>4. Holds(step, work)
    BY <2>3 DEF TypeInv, Equipped
  <2>5. Holds(step, work)'
    BY <1>2, <1>3, <2>4, HoldsStill DEF MorePosts
  <2> QED  BY <1>3, <1>4, <1>5, <2>2, <2>3, <2>5, StepType DEF MorePosts
<1> QED  BY <1>1, <1>6, <1>7

LEMMA CancelAsksType ==
  ASSUME TypeInv, NEW w \in Workers, CancelAsks(w)
  PROVE  TypeInv'
<1>t. BoardOK' /\ irregular \in BOOLEAN
  BY DEF TypeInv, Served, CancelAsks, BoardRest, BoardOK
<1>1. PICK u : u = my[w].user
  OBVIOUS
<1>2. asks' = [i \in DOMAIN asks |-> IF asks[i].user = u /\ asks[i].status = "PENDING"
                                     THEN [asks[i] EXCEPT !.status = "CANCELLED"] ELSE asks[i]]
  BY <1>1 DEF CancelAsks
<1>3. asks' \in Seq(Ask) /\ DOMAIN asks' = DOMAIN asks
  BY <1>2, AskRows
<1>4. TablesOK'
  BY <1>3, AsksType DEF CancelAsks
<1> QED  BY <1>t, <1>3, <1>4, IdleHolds, StepType DEF CancelAsks, At, Answer, MorePosts

LEMMA AutoMatchType ==
  ASSUME TypeInv, NEW w \in Workers, \E u \in Users : AutoMatch(w, u)
  PROVE  TypeInv'
<1>t. board \subseteq PostRow(posts) /\ irregular \in BOOLEAN /\ \A i \in DOMAIN asks : asks[i] \in Ask
  BY DEF TypeInv, TablesOK, BoardOK, Served
<1>1. Visible \subseteq Users
  BY <1>t DEF Visible, Waiting, PostRow, Ask
<1>2. PICK u \in Users, other \in Visible : AutoMatch(w, u) /\ Await(w, "createAuto", [players |-> {u, other}])
  BY DEF AutoMatch
<1>3. PICK work : work = [players |-> {u, other}]
  OBVIOUS
<1>4. Holds("createAuto", work)
  BY <1>1, <1>3 DEF Holds
<1> QED  BY <1>t, <1>2, <1>3, <1>4, CopyType DEF AutoMatch, Call, Regular

\* A request that is cut short changes nothing else.
LEMMA AbortType ==
  ASSUME TypeInv, NEW w \in Workers, Abort(w), UNCHANGED matchmakingVars
  PROVE  TypeInv'
BY IdleHolds, CopyType DEF Abort, Answer, Irregular

LEMMA LateType ==
  ASSUME TypeInv,
         (\E i \in DOMAIN asks : AskGetsLate(i)) \/ (\E s \in DOMAIN sessions : SessionGetsLate(s))
  PROVE  TypeInv'
<1>t. /\ BoardOK' /\ posts \in Nat /\ BoardRest /\ UNCHANGED <<pc, my, overlapped, irregular, scene>>
      /\ asks \in Seq(Ask) /\ sessions \in Seq(SessionRow)
  BY DEF TypeInv, TablesOK, AskGetsLate, SessionGetsLate, BoardRest, BoardOK, requestVars
<1>1. TablesOK' /\ DOMAIN asks \subseteq DOMAIN asks' /\ DOMAIN sessions \subseteq DOMAIN sessions'
  <2>1. ASSUME NEW i \in DOMAIN asks, AskGetsLate(i) PROVE <1>1!:
    <3>1. PICK saved : saved = [asks[i] EXCEPT !.late = TRUE]
      OBVIOUS
    <3>a. asks[i] \in Ask
      BY <1>t
    <3>2. saved \in Ask
      BY <3>a, <3>1 DEF Ask
    <3>3. asks' = [asks EXCEPT ![i] = saved]
      BY <2>1, <3>1 DEF AskGetsLate
    <3>4. asks' \in Seq(Ask) /\ DOMAIN asks' = DOMAIN asks
      BY <1>t, <3>2, <3>3, SavedRow
    <3> QED  BY <2>1, <3>4, AsksType DEF AskGetsLate
  <2>2. ASSUME NEW s \in DOMAIN sessions, SessionGetsLate(s) PROVE <1>1!:
    <3>1. PICK saved : saved = [sessions[s] EXCEPT !.late = TRUE]
      OBVIOUS
    <3>a. sessions[s] \in SessionRow
      BY <1>t
    <3>2. saved \in SessionRow
      BY <3>a, <3>1 DEF SessionRow
    <3>3. sessions' = [sessions EXCEPT ![s] = saved]
      BY <2>2, <3>1 DEF SessionGetsLate
    <3> QED  BY <2>2, <3>2, <3>3, SessionsType DEF SessionGetsLate
  <2> QED  BY <2>1, <2>2
<1>2. ASSUME NEW v \in Workers PROVE Equipped(v)'
  <2>1. PICK step, work : step = pc[v] /\ work = my[v]
    OBVIOUS
  <2>2. Holds(step, work)
    BY <2>1 DEF TypeInv, Equipped
  <2>3. Holds(step, work)'
    BY <1>t, <1>1, <2>2, HoldsStill DEF MorePosts
  <2> QED  BY <1>t, <2>1, <2>3 DEF Equipped
<1>3. Served'
  BY <1>t DEF TypeInv, Served
<1> QED  BY <1>t, <1>1, <1>2, <1>3 DEF TypeInv

-----------------------------------------------------------------------------
\* What a step of Next is: a call by one of the users, a step of its handler, one
\* that is cut short, or time that passes.
CallBy(w) ==
  \/ \E u \in Users :
       \/ \E k \in Kinds : Search(w, u, k)
       \/ \E s \in DOMAIN sessions : Confirm(w, u, s)
       \/ Post(w, u) \/ CancelRequest(w, u) \/ LeaveQueue(w, u) \/ AutoMatch(w, u)
  \/ \E s \in DOMAIN sessions : Cancel(w, s)
  \/ GetStatus(w)

LateStep == (\E i \in DOMAIN asks : AskGetsLate(i)) \/ (\E s \in DOMAIN sessions : SessionGetsLate(s))

LEMMA Steps ==
  ASSUME TypeInv, Next
  PROVE  LateStep \/ \E w \in Workers : CallBy(w) \/ Serve(w) \/ (Abort(w) /\ UNCHANGED matchmakingVars)
<1>1. scene.users \subseteq Users
  BY MatchmakingAssumption DEF TypeInv
<1> QED  BY <1>1, Zenon DEF Next, CallBy, LateStep

LEMMA TypeStep ==
  ASSUME TypeInv, [Next]_vars
  PROVE  TypeInv'
<1>1. CASE UNCHANGED vars
  <2>1. UNCHANGED <<pc, my, overlapped, irregular, scene, asks, queue, sessions, games, agreed, board, posts, posting>>
    BY <1>1 DEF vars, requestVars, matchmakingVars
  <2>2. TablesOK' /\ BoardOK' /\ Served' /\ MorePosts
    BY <2>1, BoardFrame DEF TypeInv, BoardOK, Served, MorePosts
  <2>3. ASSUME NEW v \in Workers PROVE Equipped(v)'
    <3>1. PICK step, work : step = pc[v] /\ work = my[v]
      OBVIOUS
    <3>2. Holds(step, work)
      BY <3>1 DEF TypeInv, Equipped
    <3>3. Holds(step, work)'
      BY <2>1, <2>2, <3>2, HoldsStill DEF TypeInv, BoardOK
    <3> QED  BY <2>1, <3>1, <3>3 DEF Equipped
  <2> QED  BY <2>1, <2>2, <2>3 DEF TypeInv
<1>2. CASE LateStep
  BY <1>2, LateType DEF LateStep
<1>3. ASSUME NEW w \in Workers, CallBy(w) PROVE TypeInv'
  BY <1>3, SearchType, SessionCallType, PostType, LeaveType, AutoMatchType, Zenon DEF CallBy
<1>4. ASSUME NEW w \in Workers, Serve(w) PROVE TypeInv'
  <2>1. Enter(w) \/ Push(w) \/ Sweep(w) \/ ExpireSession(w) \/ Pop(w) \/ ReadFirst(w) \/ Choose(w)
        \/ PutBack(w) \/ Unqueue(w) \/ Pair(w) => TypeInv'
    BY SearchType, SweepType, ExpireType, PopType, ReadFirstType, ChooseType, QueueStepType, PairType, Zenon
  <2>2. SaveAsks(w) \/ ReadSession(w) \/ CreateGame(w) \/ SaveSession(w) \/ AnswerStatus(w) \/ SaveRow(w)
        \/ FindNewest(w) \/ DeleteOthers(w) \/ CancelAsks(w) \/ CreateAuto(w) => TypeInv'
    BY SaveAsksType, ReadSessionType, CreateGameType, SaveSessionType, SessionCallType, BoardStepType,
       CancelAsksType, Zenon
  <2> QED  BY <1>4, <2>1, <2>2, Zenon DEF Serve
<1>5. ASSUME NEW w \in Workers, Abort(w), UNCHANGED matchmakingVars PROVE TypeInv'
  BY <1>5, AbortType
<1>6. CASE Next
  BY <1>2, <1>3, <1>4, <1>5, <1>6, Steps
<1> QED  BY <1>1, <1>6

LEMMA TypeAlways == Spec => []TypeInv
<1>1. TypeInv /\ [Next]_vars => TypeInv'
  BY TypeStep
<1> QED  BY TypeInit, <1>1, PTL DEF Spec

-----------------------------------------------------------------------------
(* Whoever waits is in the list *)

\* A request at this step has entry i of the list in its hands ...
Has(step, work, i) ==
  \/ step = "push" /\ work.id = i
  \/ step \in {"readFirst", "choose", "putBack", "unqueue", "pair", "saveAsks"} /\ work.first = i

\* ... or has taken i off the list to match it.
Matches(step, work, i) == step \in {"pair", "saveAsks"} /\ work.best = i

\* An entry is in the list once, or in one pair of hands; a request that waits is
\* in either, or about to be matched.
ListInv ==
  /\ TypeInv
  /\ \A m, n \in DOMAIN queue : queue[m] = queue[n] => m = n
  /\ \A w \in Workers, n \in DOMAIN queue : ~Has(pc[w], my[w], queue[n])
  /\ \A w \in Workers, v \in Workers, i \in DOMAIN asks :
       Has(pc[w], my[w], i) /\ Has(pc[v], my[v], i) => v = w
  /\ ~irregular =>
       \A i \in DOMAIN asks : asks[i].status = "PENDING" =>
         \/ \E n \in DOMAIN queue : queue[n] = i
         \/ \E w \in Workers : Has(pc[w], my[w], i) \/ Matches(pc[w], my[w], i)

LEMMA ListInit == Init => ListInv
<1> SUFFICES ASSUME Init PROVE ListInv
  OBVIOUS
<1>1. TypeInv /\ \A w \in Workers : pc[w] = "idle"
  BY TypeInit, NothingServed DEF Init
<1>2. DOMAIN asks = {} /\ DOMAIN queue = {}
  BY DEF Init
<1> QED  BY <1>1, <1>2 DEF ListInv

\* What is in somebody's hands is a request that exists.
LEMMA InHand ==
  ASSUME TypeInv, NEW w \in Workers, NEW i, Has(pc[w], my[w], i)
  PROVE  i \in DOMAIN asks
BY DEF TypeInv, Equipped, Holds, Has

\* A step of a request that changes the list, or what is in its own hands.
LEMMA ListStep ==
  ASSUME ListInv, TypeInv', NEW w \in Workers, NEW step, NEW work, Await(w, step, work),
         \A m, n \in DOMAIN queue' : queue'[m] = queue'[n] => m = n,
         \A n \in DOMAIN queue' : ~Has(step, work, queue'[n]),
         \A n \in DOMAIN queue', v \in Workers \ {w} : ~Has(pc[v], my[v], queue'[n]),
         \A i \in DOMAIN asks', v \in Workers \ {w} : Has(step, work, i) => ~Has(pc[v], my[v], i),
         DOMAIN asks \subseteq DOMAIN asks',
         ~irregular' => \A i \in DOMAIN asks' : asks'[i].status = "PENDING" =>
           \/ \E n \in DOMAIN queue' : queue'[n] = i
           \/ Has(step, work, i) \/ Matches(step, work, i)
           \/ \E v \in Workers \ {w} : Has(pc[v], my[v], i) \/ Matches(pc[v], my[v], i)
  PROVE  ListInv'
<1>1. pc'[w] = step /\ my'[w] = work /\ \A v \in Workers \ {w} : pc'[v] = pc[v] /\ my'[v] = my[v]
  BY Awaiting DEF ListInv, TypeInv, Moved, Alone
<1>2. \A v \in Workers, n \in DOMAIN queue' : ~Has(pc'[v], my'[v], queue'[n])
  BY <1>1
<1>3. ASSUME NEW u \in Workers, NEW v \in Workers, NEW i \in DOMAIN asks',
             Has(pc'[u], my'[u], i), Has(pc'[v], my'[v], i)
      PROVE  u = v
  <2>1. CASE u = w \/ v = w
    BY <1>1, <1>3, <2>1
  <2>2. CASE u # w /\ v # w
    <3>1. Has(pc[u], my[u], i) /\ Has(pc[v], my[v], i)
      BY <1>1, <1>3, <2>2
    <3>2. i \in DOMAIN asks
      BY <3>1, InHand DEF ListInv
    <3> QED  BY <3>1, <3>2 DEF ListInv
  <2> QED  BY <2>1, <2>2
<1>4. ~irregular' => \A i \in DOMAIN asks' : asks'[i].status = "PENDING" =>
           \/ \E n \in DOMAIN queue' : queue'[n] = i
           \/ \E v \in Workers : Has(pc'[v], my'[v], i) \/ Matches(pc'[v], my'[v], i)
  BY <1>1
<1> QED  BY <1>2, <1>3, <1>4 DEF ListInv

\* A step that leaves the list alone, and whose request keeps what it has in its
\* hands, or whose request has become something else than waiting.
LEMMA ListRest ==
  ASSUME ListInv, TypeInv', NEW w \in Workers, NEW step, NEW work, Await(w, step, work),
         UNCHANGED queue, ~irregular' => ~irregular,
         DOMAIN asks' = DOMAIN asks,
         \A i \in DOMAIN asks : asks'[i].status = "PENDING" => asks[i].status = "PENDING",
         \A i : Has(step, work, i) => Has(pc[w], my[w], i),
         ~irregular' => \A i \in DOMAIN asks :
           Has(pc[w], my[w], i) \/ Matches(pc[w], my[w], i) =>
             asks'[i].status # "PENDING" \/ Has(step, work, i) \/ Matches(step, work, i)
  PROVE  ListInv'
<1>1. \A m, n \in DOMAIN queue : queue[m] = queue[n] => m = n
  BY DEF ListInv
<1>2. \A n \in DOMAIN queue, v \in Workers : ~Has(pc[v], my[v], queue[n])
  BY DEF ListInv
<1>3. \A n \in DOMAIN queue : ~Has(step, work, queue[n])
  BY <1>2
<1>4. \A i \in DOMAIN asks, v \in Workers \ {w} : Has(step, work, i) => ~Has(pc[v], my[v], i)
  BY DEF ListInv
<1>5. ~irregular' => \A i \in DOMAIN asks : asks'[i].status = "PENDING" =>
           \/ \E n \in DOMAIN queue : queue[n] = i
           \/ Has(step, work, i) \/ Matches(step, work, i)
           \/ \E v \in Workers \ {w} : Has(pc[v], my[v], i) \/ Matches(pc[v], my[v], i)
  BY DEF ListInv
<1> QED  BY <1>1, <1>2, <1>3, <1>4, <1>5, ListStep

Hands == {"push", "readFirst", "choose", "putBack", "unqueue", "pair", "saveAsks"}

\* A step of a request that has nothing in its hands, or is cut short.
LEMMA ListIdle ==
  ASSUME ListInv, TypeInv', NEW w \in Workers, NEW step, NEW work, Await(w, step, work),
         UNCHANGED queue, step \notin Hands, ~irregular' => ~irregular /\ pc[w] \notin Hands,
         DOMAIN asks' = DOMAIN asks,
         \A i \in DOMAIN asks : asks'[i].status = "PENDING" => asks[i].status = "PENDING"
  PROVE  ListInv'
<1>1. \A i : ~Has(step, work, i) /\ (~irregular' => ~Has(pc[w], my[w], i) /\ ~Matches(pc[w], my[w], i))
  BY DEF Has, Matches, Hands
<1> QED  BY <1>1, ListRest

\* Where no request moves.
LEMMA ListStill ==
  ASSUME ListInv, TypeInv', UNCHANGED <<pc, my, queue, irregular>>, DOMAIN asks' = DOMAIN asks,
         \A i \in DOMAIN asks : asks'[i].status = "PENDING" => asks[i].status = "PENDING"
  PROVE  ListInv'
BY DEF ListInv

\* Sweeps and cancellations make nobody wait.
LEMMA SweptWaits ==
  ASSUME TypeInv
  PROVE  /\ DOMAIN Swept = DOMAIN asks
         /\ \A i \in DOMAIN asks : Swept[i].status = "PENDING" => asks[i].status = "PENDING"
<1>1. \A i \in DOMAIN asks : Swept[i] = asks[i] \/ Swept[i] = [asks[i] EXCEPT !.status = "EXPIRED"]
  BY DEF Swept
<1>2. \A i \in DOMAIN asks : [asks[i] EXCEPT !.status = "EXPIRED"].status # "PENDING"
  BY AskRows DEF Ask
<1>3. \A i \in DOMAIN asks : Swept[i].status = "PENDING" => asks[i].status = "PENDING"
  BY <1>1, <1>2
<1> QED  BY <1>3, AskRows

LEMMA ListCalls ==
  ASSUME ListInv, TypeInv', NEW w \in Workers, CallBy(w)
  PROVE  ListInv'
<1>t. TypeInv /\ irregular \in BOOLEAN
  BY DEF ListInv, TypeInv, Served
<1>h. \A step \in {"enter", "sweep", "saveSession", "saveRow", "cancelAsks", "createAuto", "idle"} : step \notin Hands
  BY DEF Hands
<1>0. ASSUME NEW call, Call(w, call) PROVE UNCHANGED irregular /\ pc[w] \notin Hands
  BY <1>0 DEF Call, Regular, Arrive, Hands
<1>1. ASSUME NEW u, NEW k, Search(w, u, k) PROVE ListInv'
  <2>1. Await(w, "enter", [ask |-> NewAsk(u, k)]) /\ UNCHANGED queue /\ asks' = Swept /\ Call(w, "search")
    BY <1>1 DEF Search
  <2> QED  BY <1>t, <1>h, <1>0, <2>1, SweptWaits, ListIdle
<1>2. ASSUME NEW u, \/ \E s \in DOMAIN sessions : Confirm(w, u, s) \/ Cancel(w, s)
                    \/ GetStatus(w) \/ Post(w, u) \/ LeaveQueue(w, u) \/ AutoMatch(w, u)
      PROVE  ListInv'
  <2>1. \E step \in {"sweep", "saveSession", "saveRow", "cancelAsks", "createAuto"} : \E work : Await(w, step, work)
    BY <1>2 DEF Confirm, Cancel, GetStatus, Post, LeaveQueue, AutoMatch
  <2>2. UNCHANGED <<asks, queue>> /\ \E call : Call(w, call)
    BY <1>2 DEF Confirm, Cancel, GetStatus, Post, LeaveQueue, AutoMatch, matchmakingVars
  <2> QED  BY <1>h, <1>0, <2>1, <2>2, ListIdle
<1>3. ASSUME NEW u, CancelRequest(w, u) PROVE ListInv'
  BY <1>0, <1>3, ListStill DEF CancelRequest
<1> QED  BY <1>1, <1>2, <1>3 DEF CallBy

LEMMA ListAside ==
  ASSUME ListInv, TypeInv', NEW w \in Workers,
         \/ Sweep(w) \/ ExpireSession(w) \/ ReadSession(w) \/ CreateGame(w) \/ SaveSession(w) \/ AnswerStatus(w)
         \/ SaveRow(w) \/ FindNewest(w) \/ DeleteOthers(w) \/ CancelAsks(w) \/ CreateAuto(w)
         \/ Abort(w) /\ UNCHANGED matchmakingVars
  PROVE  ListInv'
<1>t. TypeInv /\ irregular \in BOOLEAN
  BY DEF ListInv, TypeInv, Served
<1>h. \A step \in {"sweep", "expire", "pop", "confirm", "answer", "saveSession", "createGame", "saveRow",
                   "findNewest", "deleteOthers", "cancelAsks", "createAuto", "idle"} : step \notin Hands
  BY DEF Hands
<1>1. CASE Sweep(w)
  <2>1. /\ Await(w, "expire", [for |-> my[w], stale |-> [s \in StaleSessions |-> sessions[s]]])
        /\ UNCHANGED <<queue, irregular>> /\ (asks' = Swept \/ asks' = asks) /\ pc[w] = "sweep"
    BY <1>1 DEF Sweep, At
  <2> QED  BY <1>t, <1>h, <2>1, SweptWaits, ListIdle
<1>2. CASE CancelAsks(w)
  <2>1. Await(w, "idle", NoWork) /\ UNCHANGED <<queue, irregular>> /\ pc[w] = "cancelAsks" /\ DOMAIN asks' = DOMAIN asks
    BY <1>2 DEF CancelAsks, At, Answer
  <2>2. \A i \in DOMAIN asks : asks'[i] = asks[i] \/ asks'[i] = [asks[i] EXCEPT !.status = "CANCELLED"]
    BY <1>2 DEF CancelAsks
  <2>3. \A i \in DOMAIN asks : [asks[i] EXCEPT !.status = "CANCELLED"].status # "PENDING"
    BY <1>t, AskRows DEF Ask
  <2> QED  BY <1>t, <1>h, <2>1, <2>2, <2>3, ListIdle
<1>3. CASE Abort(w) /\ UNCHANGED matchmakingVars
  <2>1. Await(w, "idle", NoWork) /\ UNCHANGED <<queue, asks>> /\ irregular' = TRUE
    BY <1>3 DEF Abort, Answer, Irregular, matchmakingVars
  <2> QED  BY <1>h, <2>1, ListIdle
<1>4. CASE ExpireSession(w)
  <2>1. my[w].for.then \in {"pop", "confirm", "answer"}
    BY <1>4, <1>t DEF ExpireSession, At, TypeInv, Equipped, Holds, Errand
  <2>2. \E step \in {"pop", "confirm", "answer", "expire"} : \E work : Await(w, step, work)
    BY <1>4, <2>1 DEF ExpireSession
  <2>3. UNCHANGED <<queue, asks, irregular>> /\ pc[w] = "expire"
    BY <1>4 DEF ExpireSession, At
  <2> QED  BY <1>h, <1>t, <2>2, <2>3, ListIdle
<1>5. CASE \/ ReadSession(w) \/ CreateGame(w) \/ SaveSession(w) \/ AnswerStatus(w)
           \/ SaveRow(w) \/ FindNewest(w) \/ DeleteOthers(w) \/ CreateAuto(w)
  <2>1. \E step \in {"saveSession", "createGame", "findNewest", "deleteOthers", "idle"} : \E work : Await(w, step, work)
    <3>1. CASE SaveRow(w)
      <4>1. Await(w, "findNewest", my[w])
        BY <3>1, <1>t DEF SaveRow, Then, Await, Hold, TypeInv, Served
      <4> QED  BY <4>1
    <3>2. CASE ReadSession(w) \/ CreateGame(w) \/ SaveSession(w) \/ AnswerStatus(w)
      BY <3>2 DEF ReadSession, CreateGame, SaveSession, AnswerStatus, Answer
    <3>3. CASE FindNewest(w) \/ DeleteOthers(w) \/ CreateAuto(w)
      BY <3>3 DEF FindNewest, DeleteOthers, CreateAuto, Answer
    <3> QED  BY <1>5, <3>1, <3>2, <3>3
  <2>2. pc[w] \notin Hands /\ UNCHANGED irregular
    BY <1>5, <1>h DEF ReadSession, CreateGame, SaveSession, AnswerStatus, SaveRow, FindNewest, DeleteOthers, CreateAuto, At
  <2>3. UNCHANGED <<asks, queue>>
    BY <1>5 DEF ReadSession, CreateGame, SaveSession, AnswerStatus, SaveRow, FindNewest, DeleteOthers, CreateAuto, matchmakingVars
  <2> QED  BY <1>h, <2>1, <2>2, <2>3, ListIdle
<1> QED  BY <1>1, <1>2, <1>3, <1>4, <1>5

\* A request comes into the hands of the one that entered it, and from there to
\* the left end of the list.
LEMMA ListEnter ==
  ASSUME ListInv, TypeInv', NEW w \in Workers, Enter(w)
  PROVE  ListInv'
<1>1. /\ asks \in Seq(Ask) /\ queue \in Seq(DOMAIN asks) /\ my[w].ask \in Ask /\ pc[w] = "enter"
  BY DEF ListInv, TypeInv, TablesOK, Enter, At, Equipped, Holds
<1>2. PICK new : new = Len(asks) + 1
  OBVIOUS
<1>3. PICK work : work = [id |-> new]
  OBVIOUS
<1>4. Await(w, "push", work) /\ asks' = Append(asks, my[w].ask) /\ UNCHANGED <<queue, irregular>>
  BY <1>2, <1>3 DEF Enter, At
<1>5. /\ DOMAIN asks' = DOMAIN asks \cup {new} /\ new \notin DOMAIN asks
      /\ \A i \in DOMAIN asks : asks'[i] = asks[i]
  BY <1>1, <1>2, <1>4, InsertedRow
<1>6. \A i : Has("push", work, i) <=> i = new
  BY <1>3 DEF Has
<1>7. \A n \in DOMAIN queue : queue[n] # new
  BY <1>1, <1>5
<1>8. \A v \in Workers : ~Has(pc[v], my[v], new) /\ \A n \in DOMAIN queue : ~Has(pc[v], my[v], queue[n])
  BY <1>5, InHand DEF ListInv
<1>9. \A i : ~Has(pc[w], my[w], i) /\ ~Matches(pc[w], my[w], i)
  BY <1>1 DEF Has, Matches
<1>10. ~irregular => \A i \in DOMAIN asks' : asks'[i].status = "PENDING" =>
           \/ \E n \in DOMAIN queue : queue[n] = i
           \/ Has("push", work, i)
           \/ \E v \in Workers \ {w} : Has(pc[v], my[v], i) \/ Matches(pc[v], my[v], i)
  BY <1>5, <1>6, <1>9 DEF ListInv
<1>11. \A m, n \in DOMAIN queue : queue[m] = queue[n] => m = n
  BY DEF ListInv
<1> QED  BY <1>4, <1>5, <1>6, <1>7, <1>8, <1>10, <1>11, ListStep

\* What is put at the left end.
LEMMA PutLeft ==
  ASSUME TypeInv, NEW i \in DOMAIN asks, queue' = <<i>> \o queue,
         \A m, n \in DOMAIN queue : queue[m] = queue[n] => m = n, \A n \in DOMAIN queue : queue[n] # i
  PROVE  /\ \A m, n \in DOMAIN queue' : queue'[m] = queue'[n] => m = n
         /\ \A n \in DOMAIN queue' : queue'[n] = i \/ \E m \in DOMAIN queue : queue'[n] = queue[m]
         /\ \A m \in DOMAIN queue : \E n \in DOMAIN queue' : queue'[n] = queue[m]
         /\ \E n \in DOMAIN queue' : queue'[n] = i
<1>1. queue \in Seq(DOMAIN asks) /\ Len(queue) \in Nat /\ DOMAIN queue = 1 .. Len(queue)
  BY DEF TypeInv, TablesOK
<1>2. DOMAIN queue' = 1 .. (Len(queue) + 1) /\ queue'[1] = i /\ \A n \in 1 .. Len(queue) : queue'[n + 1] = queue[n]
  BY <1>1
<1>3. \A n \in DOMAIN queue' : n = 1 \/ (n - 1 \in DOMAIN queue /\ queue'[n] = queue[n - 1])
  BY <1>1, <1>2
<1>4. \A m \in DOMAIN queue : m + 1 \in DOMAIN queue'
  BY <1>1, <1>2
<1>5. 1 \in DOMAIN queue'
  BY <1>1, <1>2
<1>6. ASSUME NEW m \in DOMAIN queue', NEW n \in DOMAIN queue', queue'[m] = queue'[n] PROVE m = n
  BY <1>1, <1>2, <1>3, <1>6
<1> QED  BY <1>1, <1>2, <1>3, <1>4, <1>5, <1>6

LEMMA ListPut ==
  ASSUME ListInv, TypeInv', NEW w \in Workers, Push(w) \/ PutBack(w)
  PROVE  ListInv'
<1>1. PICK i : i = IF pc[w] = "push" THEN my[w].id ELSE my[w].first
  OBVIOUS
<1>2. pc[w] \in {"push", "putBack"} /\ Has(pc[w], my[w], i) /\ i \in DOMAIN asks
  BY <1>1, InHand DEF Push, PutBack, At, Has, ListInv
<1>3. PICK step, work : /\ step \in {"sweep", "idle"} /\ Await(w, step, work)
                        /\ queue' = <<i>> \o queue /\ UNCHANGED <<asks, irregular>>
  BY <1>1 DEF Push, PutBack, At, Back, Answer
<1>4. /\ \A m, n \in DOMAIN queue : queue[m] = queue[n] => m = n
      /\ \A n \in DOMAIN queue : queue[n] # i
      /\ \A n \in DOMAIN queue, v \in Workers : ~Has(pc[v], my[v], queue[n])
      /\ \A v \in Workers \ {w} : ~Has(pc[v], my[v], i)
  BY <1>2 DEF ListInv
<1>5. /\ \A m, n \in DOMAIN queue' : queue'[m] = queue'[n] => m = n
      /\ \A n \in DOMAIN queue' : queue'[n] = i \/ \E m \in DOMAIN queue : queue'[n] = queue[m]
      /\ \A m \in DOMAIN queue : \E n \in DOMAIN queue' : queue'[n] = queue[m]
      /\ \E n \in DOMAIN queue' : queue'[n] = i
  BY <1>2, <1>3, <1>4, PutLeft DEF ListInv
<1>6. \A j : ~Has(step, work, j) /\ ~Matches(step, work, j)
  BY <1>3 DEF Has, Matches
<1>7. \A j : (Has(pc[w], my[w], j) => j = i) /\ ~Matches(pc[w], my[w], j)
  BY <1>1, <1>2 DEF Has, Matches
<1>8. ~irregular => \A j \in DOMAIN asks : asks[j].status = "PENDING" =>
           \/ \E n \in DOMAIN queue' : queue'[n] = j
           \/ \E v \in Workers \ {w} : Has(pc[v], my[v], j) \/ Matches(pc[v], my[v], j)
  BY <1>5, <1>7 DEF ListInv
<1>9. \A n \in DOMAIN queue', v \in Workers \ {w} : ~Has(pc[v], my[v], queue'[n])
  BY <1>4, <1>5
<1>10. Await(w, step, work) /\ UNCHANGED <<asks, irregular>> /\ \A m, n \in DOMAIN queue' : queue'[m] = queue'[n] => m = n
  BY <1>3, <1>5
<1> QED  BY <1>6, <1>8, <1>9, <1>10, ListStep

\* The last entry of the list comes into the hands of the one that pops it.
LEMMA ListPop ==
  ASSUME ListInv, TypeInv', NEW w \in Workers, Pop(w)
  PROVE  ListInv'
<1>t. TypeInv /\ pc[w] = "pop" /\ UNCHANGED <<asks, irregular>> /\ queue \in Seq(DOMAIN asks)
  BY DEF ListInv, TypeInv, TablesOK, Pop, At
<1>h. "idle" \notin Hands /\ "pop" \notin Hands
  BY DEF Hands
<1>1. CASE queue = <<>>
  <2>1. Await(w, "idle", NoWork) /\ UNCHANGED queue
    BY <1>1 DEF Pop, Answer
  <2> QED  BY <1>t, <1>h, <2>1, ListIdle
<1>2. CASE queue # <<>>
  <2>1. PICK work : work = [first |-> Last(queue)]
    OBVIOUS
  <2>2. queue' = Front(queue) /\ Await(w, "readFirst", work)
    BY <1>2, <2>1 DEF Pop
  <2>3. PICK last : last = Len(queue)
    OBVIOUS
  <2>4. /\ last \in DOMAIN queue /\ Last(queue) = queue[last] /\ DOMAIN queue' = DOMAIN queue \ {last}
        /\ \A n \in DOMAIN queue' : queue'[n] = queue[n]
    BY <1>t, <1>2, <2>2, <2>3, FrontAndLast
  <2>5. \A i : Has("readFirst", work, i) <=> i = queue[last]
    BY <2>1, <2>4 DEF Has
  <2>6. \A i : ~Has(pc[w], my[w], i) /\ ~Matches(pc[w], my[w], i)
    BY <1>t DEF Has, Matches
  <2>7. \A m, n \in DOMAIN queue : queue[m] = queue[n] => m = n
    BY DEF ListInv
  <2>8. \A n \in DOMAIN queue, v \in Workers : ~Has(pc[v], my[v], queue[n])
    BY DEF ListInv
  <2>9. \A m, n \in DOMAIN queue' : queue'[m] = queue'[n] => m = n
    BY <2>4, <2>7
  <2>10. \A n \in DOMAIN queue' : ~Has("readFirst", work, queue'[n])
    BY <2>4, <2>5, <2>7
  <2>11. \A n \in DOMAIN queue', v \in Workers \ {w} : ~Has(pc[v], my[v], queue'[n])
    BY <2>4, <2>8
  <2>12. \A i \in DOMAIN asks, v \in Workers \ {w} : Has("readFirst", work, i) => ~Has(pc[v], my[v], i)
    BY <2>4, <2>5, <2>8
  <2>13. ~irregular => \A i \in DOMAIN asks : asks[i].status = "PENDING" =>
           \/ \E n \in DOMAIN queue' : queue'[n] = i
           \/ Has("readFirst", work, i) \/ Matches("readFirst", work, i)
           \/ \E v \in Workers \ {w} : Has(pc[v], my[v], i) \/ Matches(pc[v], my[v], i)
    <3>1. ~irregular => \A i \in DOMAIN asks : asks[i].status = "PENDING" =>
           \/ \E n \in DOMAIN queue : queue[n] = i
           \/ \E v \in Workers \ {w} : Has(pc[v], my[v], i) \/ Matches(pc[v], my[v], i)
      BY <2>6 DEF ListInv
    <3>2. \A n \in DOMAIN queue : Has("readFirst", work, queue[n]) \/ (n \in DOMAIN queue' /\ queue'[n] = queue[n])
      BY <2>4, <2>5
    <3> QED  BY <3>1, <3>2
  <2> QED  BY <1>t, <2>2, <2>9, <2>10, <2>11, <2>12, <2>13, ListStep
<1> QED  BY <1>1, <1>2

\* It stays there until it is paired or put back, or has turned out not to wait.
LEMMA ListHand ==
  ASSUME ListInv, TypeInv', NEW w \in Workers, ReadFirst(w) \/ Choose(w) \/ Pair(w) \/ SaveAsks(w)
  PROVE  ListInv'
<1>t. TypeInv /\ UNCHANGED <<queue, irregular>> /\ asks \in Seq(Ask)
  BY DEF ListInv, TypeInv, TablesOK, ReadFirst, Choose, Pair, SaveAsks, At
<1>1. CASE ReadFirst(w)
  <2>1. PICK i \in DOMAIN asks : i = my[w].first
    BY <1>1, <1>t DEF ReadFirst, At, TypeInv, Equipped, Holds
  <2>2. \A j : (Has(pc[w], my[w], j) <=> j = i) /\ ~Matches(pc[w], my[w], j)
    BY <1>1, <2>1 DEF ReadFirst, At, Has, Matches
  <2>3. CASE asks[i].status = "PENDING" /\ ~asks[i].late
    <3>1. PICK work : work = [first |-> i, ask |-> asks[i]]
      OBVIOUS
    <3>2. Await(w, "choose", work) /\ UNCHANGED asks
      BY <1>1, <2>1, <2>3, <3>1 DEF ReadFirst
    <3>3. \A j : Has("choose", work, j) <=> j = i
      BY <3>1 DEF Has
    <3> QED  BY <1>t, <2>2, <3>2, <3>3, ListRest
  <2>4. CASE ~(asks[i].status = "PENDING" /\ ~asks[i].late)
    <3>1. Await(w, "pop", NoWork)
      BY <1>1, <2>1, <2>4 DEF ReadFirst
    <3>2. asks' = IF asks[i].status = "PENDING" THEN [asks EXCEPT ![i].status = "EXPIRED"] ELSE asks
      BY <1>1, <2>1, <2>4 DEF ReadFirst
    <3>3. asks[i] \in Ask
      BY <1>t
    <3>4. [asks[i] EXCEPT !.status = "EXPIRED"].status = "EXPIRED"
      BY <3>3 DEF Ask
    <3>5. DOMAIN asks' = DOMAIN asks /\ asks'[i].status # "PENDING" /\ \A j \in DOMAIN asks : j # i => asks'[j] = asks[j]
      BY <3>2, <3>4
    <3>6. \A j : ~Has("pop", NoWork, j)
      BY DEF Has
    <3>7. \A j \in DOMAIN asks : asks'[j].status = "PENDING" => asks[j].status = "PENDING"
      BY <3>5
    <3>8. \A j \in DOMAIN asks : Has(pc[w], my[w], j) \/ Matches(pc[w], my[w], j) => asks'[j].status # "PENDING"
      BY <2>2, <3>5
    <3> QED  BY <1>t, <3>1, <3>5, <3>6, <3>7, <3>8, ListRest
  <2> QED  BY <2>3, <2>4
<1>2. CASE Choose(w)
  <2>1. \A j : (Has(pc[w], my[w], j) <=> j = my[w].first) /\ ~Matches(pc[w], my[w], j)
    BY <1>2 DEF Choose, At, Has, Matches
  <2>2. \E step \in {"putBack", "unqueue"} : \E work : work.first = my[w].first /\ Await(w, step, work)
    <3>1. CASE Then(w, "putBack")
      <4>1. Await(w, "putBack", my[w])
        BY <3>1, <1>t DEF Then, Await, Hold, TypeInv, Served
      <4> QED  BY <4>1
    <3>2. ASSUME NEW best, Await(w, "unqueue", [first |-> my[w].first, ask |-> my[w].ask, best |-> best, other |-> asks[best]])
          PROVE  <2>2!:
      BY <3>2
    <3> QED  BY <1>2, <3>1, <3>2 DEF Choose
  <2>3. PICK step \in {"putBack", "unqueue"} : \E work : work.first = my[w].first /\ Await(w, step, work)
    BY <2>2
  <2>4. PICK work : work.first = my[w].first /\ Await(w, step, work)
    BY <2>3
  <2>5. \A j : Has(step, work, j) <=> j = my[w].first
    BY <2>4 DEF Has
  <2>6. UNCHANGED asks
    BY <1>2 DEF Choose
  <2> QED  BY <1>t, <2>1, <2>4, <2>5, <2>6, ListRest
<1>3. CASE Pair(w)
  <2>1. PICK work : work = my[w]
    OBVIOUS
  <2>2. Await(w, "saveAsks", work) /\ UNCHANGED asks /\ pc[w] = "pair"
    BY <1>3, <1>t, <2>1 DEF Pair, At, Then, Await, Hold, TypeInv, Served
  <2>3. \A j : /\ Has("saveAsks", work, j) <=> Has(pc[w], my[w], j)
               /\ Matches("saveAsks", work, j) <=> Matches(pc[w], my[w], j)
    BY <2>1, <2>2 DEF Has, Matches
  <2> QED  BY <1>t, <2>2, <2>3, ListRest
<1>4. CASE SaveAsks(w)
  <2>1. Await(w, "idle", NoWork) /\ pc[w] = "saveAsks"
    BY <1>4 DEF SaveAsks, At, Answer
  <2>2. PICK i, j \in DOMAIN asks, a, b \in Ask :
           /\ i = my[w].first /\ j = my[w].best /\ i # j
           /\ a.status = "MATCHED" /\ b.status = "MATCHED"
           /\ asks' = [[asks EXCEPT ![i] = a] EXCEPT ![j] = b]
    BY <1>4, <1>t, SavesAsks
  <2>3. /\ DOMAIN asks' = DOMAIN asks /\ asks'[i] = a /\ asks'[j] = b
        /\ \A n \in DOMAIN asks : n # i /\ n # j => asks'[n] = asks[n]
    BY <2>2
  <2>4. \A n : (Has(pc[w], my[w], n) <=> n = i) /\ (Matches(pc[w], my[w], n) <=> n = j) /\ ~Has("idle", NoWork, n)
    BY <2>1, <2>2 DEF Has, Matches
  <2>5. \A n \in DOMAIN asks : asks'[n].status = "PENDING" => asks[n].status = "PENDING"
    BY <2>2, <2>3
  <2>6. \A n \in DOMAIN asks : Has(pc[w], my[w], n) \/ Matches(pc[w], my[w], n) => asks'[n].status # "PENDING"
    BY <2>2, <2>3, <2>4
  <2> QED  BY <1>t, <2>1, <2>3, <2>4, <2>5, <2>6, ListRest
<1> QED  BY <1>1, <1>2, <1>3, <1>4

\* The opponent is taken off the list, if it is there.
LEMMA ListUnqueue ==
  ASSUME ListInv, TypeInv', NEW w \in Workers, Unqueue(w)
  PROVE  ListInv'
<1>1. PICK work, best : work = my[w] /\ best = my[w].best
  OBVIOUS
<1>2. /\ TypeInv /\ UNCHANGED <<asks, irregular>> /\ queue \in Seq(DOMAIN asks) /\ pc[w] = "unqueue"
      /\ Await(w, "pair", work)
  BY <1>1 DEF ListInv, TypeInv, TablesOK, Unqueue, At, Then, Await, Hold, Served
<1>3. \A i : /\ Has("pair", work, i) <=> Has(pc[w], my[w], i)
             /\ Matches("pair", work, i) <=> i = best
             /\ ~Matches(pc[w], my[w], i)
  BY <1>1, <1>2 DEF Has, Matches
<1>4. CASE UNCHANGED queue
  BY <1>2, <1>3, <1>4, ListRest
<1>5. ASSUME NEW k \in DOMAIN queue, queue[k] = best, queue' = RemoveAt(queue, k) PROVE ListInv'
  <2>1. /\ DOMAIN queue' = 1 .. (Len(queue) - 1) /\ DOMAIN queue = 1 .. Len(queue) /\ Len(queue) \in Nat
        /\ \A n \in 1 .. (Len(queue) - 1) : queue'[n] = IF n < k THEN queue[n] ELSE queue[n + 1]
    <3>1. DOMAIN queue = 1 .. Len(queue) /\ Len(queue) \in Nat
      BY <1>2
    <3>2. PICK S : S = DOMAIN asks
      OBVIOUS
    <3>3. queue \in Seq(S)
      BY <1>2, <3>2
    <3>4. /\ DOMAIN RemoveAt(queue, k) = 1 .. (Len(queue) - 1)
          /\ \A n \in 1 .. (Len(queue) - 1) : RemoveAt(queue, k)[n] = IF n < k THEN queue[n] ELSE queue[n + 1]
      BY <3>3, RemovedAt
    <3> QED  BY <1>5, <3>1, <3>4
  <2>2. \A m, n \in DOMAIN queue : queue[m] = queue[n] => m = n
    BY DEF ListInv
  <2>3. \A n \in DOMAIN queue, v \in Workers : ~Has(pc[v], my[v], queue[n])
    BY DEF ListInv
  <2>4. \A n \in DOMAIN queue' : \E m \in DOMAIN queue : queue'[n] = queue[m]
    <3>1. \A n \in DOMAIN queue' : n \in DOMAIN queue /\ n + 1 \in DOMAIN queue
      BY <2>1
    <3> QED  BY <2>1, <3>1
  <2>5. \A m, n \in DOMAIN queue' : queue'[m] = queue'[n] => m = n
    BY <2>1, <2>2
  <2>6. \A m \in DOMAIN queue : m = k \/ \E n \in DOMAIN queue' : queue'[n] = queue[m]
    <3>1. ASSUME NEW m \in DOMAIN queue, m < k PROVE m \in DOMAIN queue' /\ queue'[m] = queue[m]
      BY <2>1, <3>1
    <3>2. ASSUME NEW m \in DOMAIN queue, m > k PROVE m - 1 \in DOMAIN queue' /\ queue'[m - 1] = queue[m]
      BY <2>1, <3>2
    <3>3. \A m \in DOMAIN queue : m = k \/ m < k \/ m > k
      BY <2>1
    <3> QED  BY <3>1, <3>2, <3>3
  <2>7. \A n \in DOMAIN queue', v \in Workers : ~Has(pc[v], my[v], queue'[n])
    BY <2>3, <2>4
  <2>8. \A n \in DOMAIN queue' : ~Has("pair", work, queue'[n])
    BY <1>3, <2>7
  <2>9. \A i \in DOMAIN asks, v \in Workers \ {w} : Has("pair", work, i) => ~Has(pc[v], my[v], i)
    BY <1>3 DEF ListInv
  <2>10. ~irregular => \A i \in DOMAIN asks : asks[i].status = "PENDING" =>
           \/ \E n \in DOMAIN queue' : queue'[n] = i
           \/ Has("pair", work, i) \/ Matches("pair", work, i)
           \/ \E v \in Workers \ {w} : Has(pc[v], my[v], i) \/ Matches(pc[v], my[v], i)
    <3>1. \A n \in DOMAIN queue : Matches("pair", work, queue[n]) \/ \E m \in DOMAIN queue' : queue'[m] = queue[n]
      BY <1>3, <1>5, <2>6
    <3>2. ~irregular => \A i \in DOMAIN asks : asks[i].status = "PENDING" =>
           \/ \E n \in DOMAIN queue : queue[n] = i
           \/ Has("pair", work, i)
           \/ \E v \in Workers \ {w} : Has(pc[v], my[v], i) \/ Matches(pc[v], my[v], i)
      BY <1>3 DEF ListInv
    <3> QED  BY <3>1, <3>2
  <2> QED  BY <1>2, <2>5, <2>7, <2>8, <2>9, <2>10, ListStep
<1> QED  BY <1>1, <1>4, <1>5 DEF Unqueue

LEMMA ListNext ==
  ASSUME ListInv, [Next]_vars
  PROVE  ListInv'
<1>t. TypeInv /\ TypeInv'
  BY TypeStep DEF ListInv
<1>1. CASE UNCHANGED vars
  BY <1>t, <1>1, ListStill DEF vars, requestVars, matchmakingVars
<1>2. CASE LateStep
  <2>1. UNCHANGED <<pc, my, queue, irregular>>
    BY <1>2 DEF LateStep, AskGetsLate, SessionGetsLate, requestVars
  <2>2. DOMAIN asks' = DOMAIN asks /\ \A i \in DOMAIN asks : asks'[i].status = asks[i].status
    <3>1. ASSUME NEW i \in DOMAIN asks, AskGetsLate(i) PROVE <2>2!:
      <4>1. asks[i] \in Ask
        BY <1>t, AskRows
      <4>2. [asks[i] EXCEPT !.late = TRUE].status = asks[i].status
        BY <4>1 DEF Ask
      <4> QED  BY <3>1, <4>2 DEF AskGetsLate
    <3> QED  BY <1>2, <3>1 DEF LateStep, SessionGetsLate
  <2> QED  BY <1>t, <2>1, <2>2, ListStill
<1>3. ASSUME NEW w \in Workers, CallBy(w) PROVE ListInv'
  BY <1>t, <1>3, ListCalls
<1>4. ASSUME NEW w \in Workers, Serve(w) \/ (Abort(w) /\ UNCHANGED matchmakingVars) PROVE ListInv'
  BY <1>t, <1>4, ListAside, ListEnter, ListPut, ListPop, ListHand, ListUnqueue, Zenon DEF Serve
<1> QED  BY <1>t, <1>1, <1>2, <1>3, <1>4, Steps

\* Whoever waits is in the list once.
LEMMA ListSays == ListInv => WaitingIsQueued
<1> SUFFICES ASSUME ListInv, ~irregular, Quiet, NEW i \in Waiting
             PROVE  Cardinality({n \in DOMAIN queue : queue[n] = i}) = 1
  BY DEF WaitingIsQueued
<1>1. \A w \in Workers : ~Has(pc[w], my[w], i) /\ ~Matches(pc[w], my[w], i)
  BY DEF Quiet, Has, Matches
<1>2. PICK n \in DOMAIN queue : queue[n] = i
  BY <1>1 DEF ListInv, Waiting
<1>3. {m \in DOMAIN queue : queue[m] = i} = {n}
  BY <1>2 DEF ListInv
<1> QED  BY <1>3, FS_Singleton

\* However searches, cancellations and expiries interleave, a request that still
\* waits is in the Redis list exactly once, for any number of users and requests.
THEOREM WhoeverWaitsIsQueued == Spec => []WaitingIsQueued
<1>1. ListInv /\ [Next]_vars => ListInv'
  BY ListNext
<1> QED  BY ListInit, ListSays, <1>1, PTL DEF Spec

-----------------------------------------------------------------------------
(* Matches are agreed *)

\* What a session says was confirmed, its players have confirmed; a match it
\* names was created.
Sound(session, who) ==
  /\ session.okA => session.a \in who
  /\ session.okB => session.b \in who
  /\ session.game <= Len(games)

\* A copy is of the row: the players of a session never change.
CopyOf(copy, s) == copy.a = sessions[s].a /\ copy.b = sessions[s].b

\* Who confirms is one of them.
MayConfirm(work) == work.then = "confirm" => work.user \in {sessions[work.session].a, sessions[work.session].b}

\* What a request holds about sessions.
Agrees(step, work) ==
  /\ step \in {"sweep", "confirm"} => MayConfirm(work)
  /\ step = "expire" =>
       /\ MayConfirm(work.for)
       /\ \A s \in DOMAIN work.stale : CopyOf(work.stale[s], s) /\ Sound(work.stale[s], agreed[s])
  /\ step \in {"saveSession", "createGame"} =>
       CopyOf(work.copy, work.session) /\ Sound(work.copy, agreed[work.session])
  /\ step = "createGame" => work.copy.okA /\ work.copy.okB

SessionsAgreed ==
  \A s \in DOMAIN sessions :
    /\ Sound(sessions[s], agreed[s])
    /\ agreed[s] \subseteq {sessions[s].a, sessions[s].b}
    /\ sessions[s].a # sessions[s].b

GamesAgreed ==
  \A g \in DOMAIN games : games[g].session # 0 =>
    /\ games[g].session \in DOMAIN sessions
    /\ games[g].players = agreed[games[g].session]
    /\ games[g].players = {sessions[games[g].session].a, sessions[games[g].session].b}

AgreedInv == TypeInv /\ SessionsAgreed /\ GamesAgreed /\ \A w \in Workers : Agrees(pc[w], my[w])

LEMMA AgreedInit == Init => AgreedInv
<1> SUFFICES ASSUME Init PROVE AgreedInv
  OBVIOUS
<1>1. TypeInv /\ \A w \in Workers : pc[w] = "idle"
  BY TypeInit, NothingServed DEF Init
<1>2. DOMAIN sessions = {} /\ DOMAIN games = {}
  BY DEF Init
<1> QED  BY <1>1, <1>2 DEF AgreedInv, SessionsAgreed, GamesAgreed, Agrees

\* The players of a session stay, and more of them confirm.
Grows ==
  /\ DOMAIN sessions \subseteq DOMAIN sessions'
  /\ \A s \in DOMAIN sessions : sessions'[s].a = sessions[s].a /\ sessions'[s].b = sessions[s].b
  /\ \A s \in DOMAIN sessions : agreed[s] \subseteq agreed'[s]
  /\ Len(games) \in Nat /\ Len(games') \in Nat /\ Len(games) <= Len(games')

\* A row with another status, or that has become late, is otherwise what it was.
LEMMA RowEdits ==
  ASSUME NEW saved \in SessionRow
  PROVE  /\ \A x \in SessionStatus :
              LET new == [saved EXCEPT !.status = x]
              IN  /\ new \in SessionRow /\ new.status = x
                  /\ new.a = saved.a /\ new.b = saved.b /\ new.okA = saved.okA /\ new.okB = saved.okB
                  /\ new.game = saved.game /\ new.late = saved.late
         /\ \A x \in BOOLEAN :
              LET new == [saved EXCEPT !.late = x]
              IN  /\ new \in SessionRow /\ new.status = saved.status
                  /\ new.a = saved.a /\ new.b = saved.b /\ new.okA = saved.okA /\ new.okB = saved.okB
                  /\ new.game = saved.game /\ new.late = x
BY DEF SessionRow

LEMMA AgreesStill ==
  ASSUME NEW step, NEW work, Holds(step, work), Agrees(step, work), Grows
  PROVE  Agrees(step, work)'
<1>1. step \in {"sweep", "confirm"} => MayConfirm(work)'
  BY DEF Agrees, MayConfirm, Holds, Errand, Grows
<1>2. step = "expire" => MayConfirm(work.for)'
  BY DEF Agrees, MayConfirm, Holds, Errand, Grows
<1>3. ASSUME step = "expire", NEW s \in DOMAIN work.stale
      PROVE  CopyOf(work.stale[s], s)' /\ Sound(work.stale[s], agreed[s])'
  <2>1. PICK saved : saved = work.stale[s]
    OBVIOUS
  <2>2. saved \in SessionRow /\ s \in DOMAIN sessions /\ CopyOf(saved, s) /\ Sound(saved, agreed[s])
    BY <1>3, <2>1 DEF Agrees, Holds
  <2>3. saved.game \in Nat
    BY <2>2 DEF SessionRow
  <2> QED  BY <2>1, <2>2, <2>3 DEF CopyOf, Sound, Grows
<1>4. ASSUME step \in {"saveSession", "createGame"}
      PROVE  CopyOf(work.copy, work.session)' /\ Sound(work.copy, agreed[work.session])'
  <2>1. PICK saved, s : saved = work.copy /\ s = work.session
    OBVIOUS
  <2>2. saved \in SessionRow /\ s \in DOMAIN sessions /\ CopyOf(saved, s) /\ Sound(saved, agreed[s])
    BY <1>4, <2>1 DEF Agrees, Holds
  <2>3. saved.game \in Nat
    BY <2>2 DEF SessionRow
  <2> QED  BY <2>1, <2>2, <2>3 DEF CopyOf, Sound, Grows
<1> QED  BY <1>1, <1>2, <1>3, <1>4 DEF Agrees

LEMMA AgreedStep ==
  ASSUME AgreedInv, TypeInv', NEW w \in Workers, NEW step, NEW work, Await(w, step, work),
         Agrees(step, work)', Grows, SessionsAgreed', GamesAgreed'
  PROVE  AgreedInv'
<1>1. pc'[w] = step /\ my'[w] = work /\ \A v \in Workers \ {w} : pc'[v] = pc[v] /\ my'[v] = my[v]
  BY Awaiting DEF AgreedInv, TypeInv, Moved, Alone
<1>2. ASSUME NEW v \in Workers PROVE Agrees(pc[v], my[v])'
  <2>1. CASE v = w
    BY <1>1, <2>1
  <2>2. CASE v # w
    <3>1. PICK step0, work0 : step0 = pc[v] /\ work0 = my[v]
      OBVIOUS
    <3>2. Agrees(step0, work0)'
      BY <3>1, AgreesStill DEF AgreedInv, TypeInv, Equipped
    <3> QED  BY <1>1, <2>2, <3>1, <3>2
  <2> QED  BY <2>1, <2>2
<1> QED  BY <1>2 DEF AgreedInv

\* A step that changes no session and no match.
LEMMA AgreedRest ==
  ASSUME AgreedInv, TypeInv', NEW w \in Workers, NEW step, NEW work, Await(w, step, work),
         Agrees(step, work), UNCHANGED <<sessions, agreed, games>>
  PROVE  AgreedInv'
<1>1. games \in Seq(GameRow)
  BY DEF AgreedInv, TypeInv, TablesOK
<1>2. Grows
  BY <1>1 DEF Grows
<1>3. SessionsAgreed' /\ GamesAgreed'
  BY DEF AgreedInv, SessionsAgreed, GamesAgreed, Sound
<1>4. Agrees(step, work)'
  BY DEF Agrees, CopyOf, Sound, MayConfirm
<1> QED  BY <1>2, <1>3, <1>4, AgreedStep

\* Where no session is held.
Unheld == {"enter", "push", "pop", "readFirst", "choose", "putBack", "unqueue", "pair", "saveAsks", "answer",
           "saveRow", "findNewest", "deleteOthers", "cancelAsks", "createAuto", "idle"}

LEMMA UnheldAgrees ==
  ASSUME NEW step \in Unheld, NEW work
  PROVE  Agrees(step, work) /\ Agrees(step, work)'
BY DEF Unheld, Agrees

LEMMA AgreedStill ==
  ASSUME AgreedInv, TypeInv', UNCHANGED <<pc, my, sessions, agreed, games>>
  PROVE  AgreedInv'
<1>1. SessionsAgreed' /\ GamesAgreed'
  BY DEF AgreedInv, SessionsAgreed, GamesAgreed, Sound
<1>2. ASSUME NEW v \in Workers PROVE Agrees(pc[v], my[v])'
  BY DEF AgreedInv, Agrees, CopyOf, Sound, MayConfirm
<1> QED  BY <1>1, <1>2 DEF AgreedInv

LEMMA AgreedCalls ==
  ASSUME AgreedInv, TypeInv', NEW w \in Workers, CallBy(w)
  PROVE  AgreedInv'
<1>0. UNCHANGED <<sessions, agreed, games>>
  BY DEF CallBy, Search, Confirm, Post, CancelRequest, LeaveQueue, AutoMatch, Cancel, GetStatus, matchmakingVars
<1>1. ASSUME NEW u, (\E k : Search(w, u, k)) \/ Post(w, u) \/ LeaveQueue(w, u) \/ AutoMatch(w, u) PROVE AgreedInv'
  <2>1. \E step \in {"enter", "saveRow", "cancelAsks", "createAuto"} : \E work : Await(w, step, work)
    BY <1>1 DEF Search, Post, LeaveQueue, AutoMatch
  <2>2. PICK step \in Unheld : \E work : Await(w, step, work)
    BY <2>1 DEF Unheld
  <2> QED  BY <1>0, <2>2, UnheldAgrees, AgreedRest
<1>2. ASSUME NEW u, NEW s, Confirm(w, u, s) PROVE AgreedInv'
  <2>1. PICK work : work = [then |-> "confirm", user |-> u, session |-> s]
    OBVIOUS
  <2>2. Agrees("sweep", work)
    BY <1>2, <2>1 DEF Confirm, Agrees, MayConfirm
  <2> QED  BY <1>0, <1>2, <2>1, <2>2, AgreedRest DEF Confirm
<1>3. CASE GetStatus(w)
  <2>1. PICK work : work = [then |-> "answer"]
    OBVIOUS
  <2>2. Agrees("sweep", work)
    BY <2>1 DEF Agrees, MayConfirm
  <2> QED  BY <1>0, <1>3, <2>1, <2>2, AgreedRest DEF GetStatus
<1>4. ASSUME NEW s \in DOMAIN sessions, Cancel(w, s) PROVE AgreedInv'
  <2>1. PICK saved : saved = sessions[s]
    OBVIOUS
  <2>2. saved \in SessionRow /\ Sound(saved, agreed[s])
    BY <2>1 DEF AgreedInv, TypeInv, TablesOK, SessionsAgreed
  <2>3. PICK copy : copy = [saved EXCEPT !.status = "CANCELLED"]
    OBVIOUS
  <2>4. copy.a = saved.a /\ copy.b = saved.b /\ copy.okA = saved.okA /\ copy.okB = saved.okB /\ copy.game = saved.game
    BY <2>2, <2>3, RowEdits DEF SessionStatus
  <2>5. PICK work : work = [session |-> s, copy |-> copy]
    OBVIOUS
  <2>6. Agrees("saveSession", work)
    BY <2>1, <2>2, <2>4, <2>5 DEF Agrees, CopyOf, Sound
  <2> QED  BY <1>0, <1>4, <2>1, <2>3, <2>5, <2>6, AgreedRest DEF Cancel
<1>5. ASSUME NEW u, CancelRequest(w, u) PROVE AgreedInv'
  BY <1>0, <1>5, AgreedStill DEF CancelRequest
<1> QED  BY <1>1, <1>2, <1>3, <1>4, <1>5 DEF CallBy

LEMMA AgreedAside ==
  ASSUME AgreedInv, TypeInv', NEW w \in Workers,
         \/ Enter(w) \/ Push(w) \/ Pop(w) \/ ReadFirst(w) \/ Choose(w) \/ PutBack(w) \/ Unqueue(w) \/ SaveAsks(w)
         \/ AnswerStatus(w) \/ SaveRow(w) \/ FindNewest(w) \/ DeleteOthers(w) \/ CancelAsks(w)
         \/ Abort(w) /\ UNCHANGED matchmakingVars
  PROVE  AgreedInv'
<1>t. Served
  BY DEF AgreedInv, TypeInv
<1>0. UNCHANGED <<sessions, agreed, games>>
  <2>1. CASE Enter(w) \/ Push(w) \/ Pop(w) \/ ReadFirst(w) \/ Choose(w) \/ PutBack(w) \/ Unqueue(w) \/ SaveAsks(w)
    BY <2>1 DEF Enter, Push, Pop, ReadFirst, Choose, PutBack, Unqueue, SaveAsks
  <2>2. CASE \/ AnswerStatus(w) \/ SaveRow(w) \/ FindNewest(w) \/ DeleteOthers(w) \/ CancelAsks(w)
             \/ Abort(w) /\ UNCHANGED matchmakingVars
    BY <2>2 DEF AnswerStatus, SaveRow, FindNewest, DeleteOthers, CancelAsks, matchmakingVars
  <2> QED  BY <2>1, <2>2
<1>n. ASSUME NEW step \in Unheld, NEW work, Await(w, step, work) PROVE AgreedInv'
  BY <1>0, <1>n, UnheldAgrees, AgreedRest
<1>m. ASSUME NEW step \in Unheld, Then(w, step) PROVE AgreedInv'
  <2>1. Await(w, step, my[w])
    BY <1>t, <1>m DEF Then, Await, Hold, Served
  <2> QED  BY <1>n, <2>1
<1>u. \A step \in {"push", "pop", "readFirst", "choose", "putBack", "unqueue", "pair", "findNewest",
                   "deleteOthers", "idle"} : step \in Unheld
  BY DEF Unheld
<1>1. CASE Push(w)
  <2>1. PICK work : work = [then |-> "pop"]
    OBVIOUS
  <2>2. Agrees("sweep", work)
    BY <2>1 DEF Agrees, MayConfirm
  <2> QED  BY <1>0, <1>1, <2>1, <2>2, AgreedRest DEF Push
<1>2. CASE Enter(w) \/ Pop(w) \/ ReadFirst(w) \/ PutBack(w) \/ SaveAsks(w)
  BY <1>2, <1>n, <1>u DEF Enter, Pop, ReadFirst, PutBack, SaveAsks, Answer
<1>3. CASE Choose(w) \/ Unqueue(w)
  BY <1>3, <1>n, <1>m, <1>u DEF Choose, Unqueue
<1>4. CASE \/ AnswerStatus(w) \/ SaveRow(w) \/ FindNewest(w) \/ DeleteOthers(w) \/ CancelAsks(w)
           \/ Abort(w) /\ UNCHANGED matchmakingVars
  BY <1>4, <1>n, <1>m, <1>u DEF AnswerStatus, SaveRow, FindNewest, DeleteOthers, CancelAsks, Abort, Answer
<1> QED  BY <1>1, <1>2, <1>3, <1>4

LEMMA AgreedSweep ==
  ASSUME AgreedInv, TypeInv', NEW w \in Workers, Sweep(w)
  PROVE  AgreedInv'
<1>1. PICK for, stale : for = my[w] /\ stale = [s \in StaleSessions |-> sessions[s]]
  OBVIOUS
<1>2. MayConfirm(for)
  BY <1>1 DEF Sweep, At, AgreedInv, Agrees
<1>3. \A s \in DOMAIN stale : CopyOf(stale[s], s) /\ Sound(stale[s], agreed[s])
  BY <1>1 DEF StaleSessions, AgreedInv, SessionsAgreed, CopyOf
<1>4. PICK work : work = [for |-> for, stale |-> stale]
  OBVIOUS
<1>5. Agrees("expire", work)
  BY <1>2, <1>3, <1>4 DEF Agrees
<1> QED  BY <1>1, <1>4, <1>5, AgreedRest DEF Sweep

\* A row is saved: its players stay, and what it says was confirmed is.
LEMMA SavedAgrees ==
  ASSUME AgreedInv, NEW s \in DOMAIN sessions, NEW saved \in SessionRow, sessions' = [sessions EXCEPT ![s] = saved],
         CopyOf(saved, s), Sound(saved, agreed[s]), UNCHANGED <<agreed, games>>
  PROVE  Grows /\ SessionsAgreed' /\ GamesAgreed'
<1>1. games \in Seq(GameRow) /\ sessions \in Seq(SessionRow)
  BY DEF AgreedInv, TypeInv, TablesOK
<1>2. /\ DOMAIN sessions' = DOMAIN sessions /\ sessions'[s] = saved
      /\ \A t \in DOMAIN sessions : t # s => sessions'[t] = sessions[t]
  BY <1>1
<1>3. \A t \in DOMAIN sessions : sessions'[t].a = sessions[t].a /\ sessions'[t].b = sessions[t].b
  BY <1>2 DEF CopyOf
<1>4. Grows
  BY <1>1, <1>2, <1>3 DEF Grows
<1>5. SessionsAgreed'
  BY <1>2, <1>3 DEF AgreedInv, SessionsAgreed, Sound
<1>6. GamesAgreed'
  BY <1>2, <1>3 DEF AgreedInv, GamesAgreed
<1> QED  BY <1>4, <1>5, <1>6

LEMMA AgreedExpire ==
  ASSUME AgreedInv, TypeInv', NEW w \in Workers, ExpireSession(w)
  PROVE  AgreedInv'
<1>1. PICK for, stale : for = my[w].for /\ stale = my[w].stale
  OBVIOUS
<1>2. /\ my[w] = [for |-> for, stale |-> stale] /\ for \in Errand
      /\ DOMAIN stale \subseteq DOMAIN sessions /\ stale \in [DOMAIN stale -> SessionRow]
  BY <1>1 DEF ExpireSession, At, AgreedInv, TypeInv, Equipped, Holds
<1>3. MayConfirm(for) /\ \A s \in DOMAIN stale : CopyOf(stale[s], s) /\ Sound(stale[s], agreed[s])
  BY <1>1 DEF ExpireSession, At, AgreedInv, Agrees
<1>4. CASE DOMAIN stale = {}
  <2>1. Await(w, for.then, for) /\ UNCHANGED <<sessions, agreed, games>>
    BY <1>1, <1>4 DEF ExpireSession
  <2>2. Agrees(for.then, for)
    BY <1>2, <1>3 DEF Errand, Agrees
  <2> QED  BY <2>1, <2>2, AgreedRest
<1>5. CASE DOMAIN stale # {}
  <2>1. PICK s \in DOMAIN stale :
          /\ sessions' = [sessions EXCEPT ![s] = [stale[s] EXCEPT !.status = "EXPIRED"]]
          /\ Await(w, "expire", [my[w] EXCEPT !.stale = [t \in DOMAIN @ \ {s} |-> @[t]]])
    <3>1. (CHOOSE s \in DOMAIN stale : TRUE) \in DOMAIN stale
      BY <1>5
    <3> QED  BY <1>1, <1>5, <3>1 DEF ExpireSession
  <2>2. PICK saved, copy : copy = stale[s] /\ saved = [copy EXCEPT !.status = "EXPIRED"]
    OBVIOUS
  <2>3. copy \in SessionRow /\ CopyOf(copy, s) /\ Sound(copy, agreed[s]) /\ s \in DOMAIN sessions
    BY <1>2, <1>3, <2>2
  <2>4. /\ saved \in SessionRow /\ saved.a = copy.a /\ saved.b = copy.b
        /\ saved.okA = copy.okA /\ saved.okB = copy.okB /\ saved.game = copy.game
    BY <2>2, <2>3, RowEdits DEF SessionStatus
  <2>5. CopyOf(saved, s) /\ Sound(saved, agreed[s])
    BY <2>3, <2>4 DEF CopyOf, Sound
  <2>6. UNCHANGED <<agreed, games>>
    BY DEF ExpireSession
  <2>7. Grows /\ SessionsAgreed' /\ GamesAgreed'
    BY <2>1, <2>2, <2>3, <2>4, <2>5, <2>6, SavedAgrees
  <2>8. PICK rest : rest = [t \in DOMAIN stale \ {s} |-> stale[t]]
    OBVIOUS
  <2>9. [my[w] EXCEPT !.stale = [t \in DOMAIN @ \ {s} |-> @[t]]] = [for |-> for, stale |-> rest]
    BY <1>2, <2>8
  <2>10. PICK work : work = [for |-> for, stale |-> rest]
    OBVIOUS
  <2>11. Agrees("expire", work)
    BY <1>3, <2>8, <2>10 DEF Agrees
  <2>12. Holds("expire", work)
    <3>1. DOMAIN rest \subseteq DOMAIN sessions /\ rest \in [DOMAIN rest -> SessionRow]
      BY <1>2, <2>8
    <3> QED  BY <1>2, <2>10, <3>1 DEF Holds
  <2>13. Agrees("expire", work)'
    BY <2>7, <2>11, <2>12, AgreesStill
  <2> QED  BY <2>1, <2>7, <2>9, <2>10, <2>13, AgreedStep
<1> QED  BY <1>4, <1>5

LEMMA AgreedPair ==
  ASSUME AgreedInv, TypeInv', NEW w \in Workers, Pair(w)
  PROVE  AgreedInv'
<1>t. /\ sessions \in Seq(SessionRow) /\ agreed \in Seq(SUBSET Users) /\ Len(agreed) = Len(sessions)
      /\ games \in Seq(GameRow) /\ UNCHANGED games /\ Served
  BY DEF AgreedInv, TypeInv, TablesOK, Pair
<1>1. PICK work : work = my[w]
  OBVIOUS
<1>2. work.ask \in Ask /\ work.other \in Ask /\ work.ask.user # work.other.user
  BY <1>1 DEF Pair, At, AgreedInv, TypeInv, Equipped, Holds
<1>3. PICK new : new = NewSession(work.ask, work.other)
  OBVIOUS
<1>4. new \in SessionRow /\ ~new.okA /\ ~new.okB /\ new.game = 0 /\ new.a # new.b
  BY <1>2, <1>3 DEF NewSession, SessionRow, Ask, SessionStatus
<1>5. sessions' = Append(sessions, new) /\ agreed' = Append(agreed, {})
  BY <1>1, <1>3 DEF Pair
<1>6. PICK n : n = Len(sessions) + 1
  OBVIOUS
<1>7. /\ DOMAIN sessions' = DOMAIN sessions \cup {n} /\ n \notin DOMAIN sessions /\ sessions'[n] = new
      /\ \A s \in DOMAIN sessions : sessions'[s] = sessions[s]
  BY <1>t, <1>4, <1>5, <1>6, InsertedRow
<1>8. agreed'[n] = {} /\ \A s \in DOMAIN sessions : agreed'[s] = agreed[s]
  <2>1. DOMAIN agreed = DOMAIN sessions
    BY <1>t
  <2> QED  BY <1>t, <1>5, <1>6, <2>1, InsertedRow
<1>9. Grows
  BY <1>t, <1>7, <1>8 DEF Grows
<1>10. Len(games) \in Nat
  BY <1>t
<1>11. SessionsAgreed'
  <2>1. Sound(new, {})
    BY <1>4, <1>10 DEF Sound
  <2>2. ASSUME NEW s \in DOMAIN sessions'
        PROVE  /\ Sound(sessions'[s], agreed'[s])
               /\ agreed'[s] \subseteq {sessions'[s].a, sessions'[s].b}
               /\ sessions'[s].a # sessions'[s].b
    <3>1. CASE s = n
      <4>1. sessions'[s] = new /\ agreed'[s] = {}
        BY <1>7, <1>8, <3>1
      <4> QED  BY <1>4, <2>1, <4>1
    <3>2. CASE s # n
      <4>1. s \in DOMAIN sessions /\ sessions'[s] = sessions[s] /\ agreed'[s] = agreed[s]
        BY <1>7, <1>8, <3>2
      <4> QED  BY <4>1 DEF AgreedInv, SessionsAgreed
    <3> QED  BY <3>1, <3>2
  <2> QED  BY <1>t, <2>2 DEF SessionsAgreed, Sound
<1>12. GamesAgreed'
  BY <1>t, <1>7, <1>8 DEF AgreedInv, GamesAgreed
<1>13. "saveAsks" \in Unheld
  BY DEF Unheld
<1>14. Await(w, "saveAsks", work)
  BY <1>t, <1>1 DEF Pair, Then, Await, Hold, Served
<1> QED  BY <1>9, <1>11, <1>12, <1>13, <1>14, UnheldAgrees, AgreedStep

LEMMA AgreedRead ==
  ASSUME AgreedInv, TypeInv', NEW w \in Workers, ReadSession(w)
  PROVE  AgreedInv'
<1>1. PICK s \in DOMAIN sessions, u \in Users, copy, flagged \in SessionRow :
           /\ s = my[w].session /\ u = my[w].user /\ copy = sessions[s] /\ flagged = Flagged(copy, u)
           /\ \/ /\ Await(w, "saveSession", [session |-> s, copy |-> [copy EXCEPT !.status = "EXPIRED"]])
                 /\ UNCHANGED agreed
              \/ Answer(w) /\ UNCHANGED agreed
              \/ /\ ~copy.late /\ copy.status = "PENDING_CONFIRMATION"
                 /\ Await(w, IF flagged.okA /\ flagged.okB THEN "createGame" ELSE "saveSession",
                          [session |-> s, copy |-> flagged])
                 /\ agreed' = [agreed EXCEPT ![s] = @ \cup {u}]
  BY ReadsSession DEF AgreedInv
<1>2. u \in {copy.a, copy.b} /\ Sound(copy, agreed[s]) /\ CopyOf(copy, s)
  BY <1>1 DEF ReadSession, At, AgreedInv, TypeInv, Equipped, Holds, Agrees, MayConfirm, SessionsAgreed, CopyOf
<1>3. UNCHANGED <<sessions, games>>
  BY DEF ReadSession
<1>4. CASE Answer(w) /\ UNCHANGED agreed
  <2>1. "idle" \in Unheld
    BY DEF Unheld
  <2> QED  BY <1>3, <1>4, <2>1, UnheldAgrees, AgreedRest DEF Answer
<1>5. CASE /\ Await(w, "saveSession", [session |-> s, copy |-> [copy EXCEPT !.status = "EXPIRED"]])
           /\ UNCHANGED agreed
  <2>1. PICK saved, work : saved = [copy EXCEPT !.status = "EXPIRED"] /\ work = [session |-> s, copy |-> saved]
    OBVIOUS
  <2>2. saved.a = copy.a /\ saved.b = copy.b /\ saved.okA = copy.okA /\ saved.okB = copy.okB /\ saved.game = copy.game
    BY <2>1, RowEdits DEF SessionStatus
  <2>3. Agrees("saveSession", work)
    BY <1>2, <2>1, <2>2 DEF Agrees, CopyOf, Sound
  <2> QED  BY <1>3, <1>5, <2>1, <2>3, AgreedRest
<1>6. CASE /\ Await(w, IF flagged.okA /\ flagged.okB THEN "createGame" ELSE "saveSession",
                    [session |-> s, copy |-> flagged])
           /\ agreed' = [agreed EXCEPT ![s] = @ \cup {u}]
  <2>1. PICK step, work : /\ step = (IF flagged.okA /\ flagged.okB THEN "createGame" ELSE "saveSession")
                          /\ work = [session |-> s, copy |-> flagged]
    OBVIOUS
  <2>2. /\ flagged.a = copy.a /\ flagged.b = copy.b /\ flagged.game = copy.game
        /\ flagged.okA => copy.okA \/ u = copy.a
        /\ flagged.okB => copy.okB \/ u = copy.b
    BY <1>1, <1>2 DEF Flagged, SessionRow
  <2>3. games \in Seq(GameRow) /\ agreed \in Seq(SUBSET Users) /\ Len(agreed) = Len(sessions)
        /\ sessions \in Seq(SessionRow)
    BY DEF AgreedInv, TypeInv, TablesOK
  <2>4. s \in DOMAIN agreed
    BY <2>3
  <2>5. agreed'[s] = agreed[s] \cup {u} /\ \A t \in DOMAIN sessions : t # s => agreed'[t] = agreed[t]
    BY <1>6, <2>3, <2>4
  <2>6. Grows
    BY <1>3, <2>3, <2>5 DEF Grows
  <2>7. CopyOf(flagged, s) /\ Sound(flagged, agreed'[s])
    BY <1>2, <2>2, <2>5 DEF CopyOf, Sound
  <2>8. Agrees(step, work)'
    BY <1>3, <2>1, <2>7 DEF Agrees, CopyOf, Sound
  <2>9. SessionsAgreed'
    BY <1>1, <1>2, <1>3, <2>5 DEF AgreedInv, SessionsAgreed, Sound
  <2>10. agreed[s] = {copy.a, copy.b} => agreed'[s] = agreed[s]
    BY <1>2, <2>5
  <2>11. \A g \in DOMAIN games : games[g].session # 0 => agreed'[games[g].session] = agreed[games[g].session]
    <3>1. ASSUME NEW g \in DOMAIN games, games[g].session = s PROVE agreed'[s] = agreed[s]
      <4>1. games[g].session # 0
        BY <2>3, <3>1
      <4>2. agreed[s] = {copy.a, copy.b}
        BY <1>1, <3>1, <4>1 DEF AgreedInv, GamesAgreed
      <4> QED  BY <2>10, <4>2
    <3> QED  BY <2>5, <3>1 DEF AgreedInv, GamesAgreed
  <2>12. GamesAgreed'
    BY <1>3, <2>11 DEF AgreedInv, GamesAgreed
  <2> QED  BY <1>6, <2>1, <2>6, <2>8, <2>9, <2>12, AgreedStep
<1> QED  BY <1>1, <1>4, <1>5, <1>6

LEMMA AgreedGame ==
  ASSUME AgreedInv, TypeInv', NEW w \in Workers, CreateGame(w) \/ CreateAuto(w)
  PROVE  AgreedInv'
<1>t. games \in Seq(GameRow) /\ Len(games) \in Nat
  BY DEF AgreedInv, TypeInv, TablesOK
<1>1. PICK game : /\ games' = Append(games, game)
                  /\ \/ CreateGame(w) /\ game = [players |-> {my[w].copy.a, my[w].copy.b}, session |-> my[w].session]
                     \/ CreateAuto(w) /\ game = [players |-> my[w].players, session |-> 0]
  BY DEF CreateGame, CreateAuto
<1>2. UNCHANGED <<sessions, agreed>>
  BY DEF CreateGame, CreateAuto
<1>3. /\ Len(games') = Len(games) + 1 /\ DOMAIN games' = 1 .. (Len(games) + 1) /\ DOMAIN games = 1 .. Len(games)
      /\ games'[Len(games) + 1] = game /\ \A g \in DOMAIN games : games'[g] = games[g]
  BY <1>t, <1>1
<1>4. Grows
  BY <1>t, <1>2, <1>3 DEF Grows
<1>5. SessionsAgreed'
  <2>a. \A s \in DOMAIN sessions : sessions[s] \in SessionRow
    BY DEF AgreedInv, TypeInv, TablesOK
  <2>1. \A s \in DOMAIN sessions : sessions[s].game \in Nat
    BY <2>a DEF SessionRow
  <2> QED  BY <1>t, <1>2, <1>3, <2>1 DEF AgreedInv, SessionsAgreed, Sound
<1>6. game.session # 0 => /\ game.session \in DOMAIN sessions
                          /\ game.players = agreed[game.session]
                          /\ game.players = {sessions[game.session].a, sessions[game.session].b}
  <2>1. CASE CreateGame(w) /\ game = [players |-> {my[w].copy.a, my[w].copy.b}, session |-> my[w].session]
    <3>1. PICK s \in DOMAIN sessions, copy \in SessionRow : my[w] = [session |-> s, copy |-> copy]
      BY <2>1 DEF CreateGame, At, AgreedInv, TypeInv, Equipped, Holds
    <3>2. Agrees("createGame", my[w])
      BY <2>1 DEF CreateGame, At, AgreedInv
    <3>3. CopyOf(copy, s) /\ copy.a \in agreed[s] /\ copy.b \in agreed[s]
      BY <3>1, <3>2 DEF Agrees, Sound
    <3> QED  BY <2>1, <3>1, <3>3 DEF AgreedInv, SessionsAgreed, CopyOf
  <2>2. CASE game = [players |-> my[w].players, session |-> 0]
    BY <2>2
  <2> QED  BY <1>1, <2>1, <2>2
<1>7. GamesAgreed'
  <2>1. ASSUME NEW g \in DOMAIN games'
        PROVE  games'[g].session # 0 =>
                 /\ games'[g].session \in DOMAIN sessions
                 /\ games'[g].players = agreed[games'[g].session]
                 /\ games'[g].players = {sessions[games'[g].session].a, sessions[games'[g].session].b}
    <3>1. CASE g = Len(games) + 1
      BY <1>3, <1>6, <3>1
    <3>2. CASE g # Len(games) + 1
      <4>1. g \in DOMAIN games
        BY <1>t, <1>3, <3>2
      <4> QED  BY <1>3, <4>1 DEF AgreedInv, GamesAgreed
    <3> QED  BY <3>1, <3>2
  <2> QED  BY <1>2, <2>1 DEF GamesAgreed
<1>8. CASE CreateAuto(w)
  <2>1. "idle" \in Unheld
    BY DEF Unheld
  <2> QED  BY <1>4, <1>5, <1>7, <1>8, <2>1, UnheldAgrees, AgreedStep DEF CreateAuto, Answer
<1>9. CASE CreateGame(w)
  <2>1. PICK s \in DOMAIN sessions, copy \in SessionRow : my[w] = [session |-> s, copy |-> copy]
    BY <1>9 DEF CreateGame, At, AgreedInv, TypeInv, Equipped, Holds
  <2>2. CopyOf(copy, s) /\ Sound(copy, agreed[s])
    BY <1>9, <2>1 DEF CreateGame, At, AgreedInv, Agrees
  <2>3. PICK paid, work : /\ paid = [copy EXCEPT !.game = Len(games) + 1, !.status = "CONFIRMED"]
                          /\ work = [session |-> s, copy |-> paid]
    OBVIOUS
  <2>4. /\ paid.a = copy.a /\ paid.b = copy.b /\ paid.okA = copy.okA /\ paid.okB = copy.okB
        /\ paid.game = Len(games) + 1
    BY <2>3 DEF SessionRow
  <2>5. [my[w] EXCEPT !.copy = [@ EXCEPT !.game = Len(games) + 1, !.status = "CONFIRMED"]] = work
    BY <2>1, <2>3
  <2>6. paid.game <= Len(games')
    BY <1>t, <1>3, <2>4
  <2>7. Agrees("saveSession", work)'
    BY <1>2, <2>2, <2>3, <2>4, <2>6 DEF Agrees, CopyOf, Sound
  <2> QED  BY <1>4, <1>5, <1>7, <1>9, <2>5, <2>7, AgreedStep DEF CreateGame
<1> QED  BY <1>8, <1>9

LEMMA AgreedSave ==
  ASSUME AgreedInv, TypeInv', NEW w \in Workers, SaveSession(w)
  PROVE  AgreedInv'
<1>1. PICK s \in DOMAIN sessions, copy, saved \in SessionRow :
           /\ my[w] = [session |-> s, copy |-> copy]
           /\ saved = [copy EXCEPT !.late = @ \/ sessions[s].late]
           /\ sessions' = [sessions EXCEPT ![s] = saved]
  BY SavesSession DEF AgreedInv
<1>2. CopyOf(copy, s) /\ Sound(copy, agreed[s])
  BY <1>1 DEF SaveSession, At, AgreedInv, Agrees
<1>3. saved.a = copy.a /\ saved.b = copy.b /\ saved.okA = copy.okA /\ saved.okB = copy.okB /\ saved.game = copy.game
  BY <1>1 DEF SessionRow
<1>4. CopyOf(saved, s) /\ Sound(saved, agreed[s])
  BY <1>2, <1>3 DEF CopyOf, Sound
<1>5. Grows /\ SessionsAgreed' /\ GamesAgreed'
  BY <1>1, <1>4, SavedAgrees DEF SaveSession
<1>6. "idle" \in Unheld
  BY DEF Unheld
<1> QED  BY <1>5, <1>6, UnheldAgrees, AgreedStep DEF SaveSession, Answer

LEMMA AgreedLate ==
  ASSUME AgreedInv, TypeInv', LateStep
  PROVE  AgreedInv'
<1>1. ASSUME NEW i \in DOMAIN asks, AskGetsLate(i) PROVE AgreedInv'
  BY <1>1, AgreedStill DEF AskGetsLate, requestVars
<1>2. ASSUME NEW s \in DOMAIN sessions, SessionGetsLate(s) PROVE AgreedInv'
  <2>1. PICK old, saved : old = sessions[s] /\ saved = [old EXCEPT !.late = TRUE]
    OBVIOUS
  <2>2. old \in SessionRow /\ Sound(old, agreed[s])
    BY <2>1 DEF AgreedInv, TypeInv, TablesOK, SessionsAgreed
  <2>3. /\ saved \in SessionRow /\ saved.a = old.a /\ saved.b = old.b
        /\ saved.okA = old.okA /\ saved.okB = old.okB /\ saved.game = old.game
    BY <2>1, <2>2, RowEdits
  <2>4. CopyOf(saved, s) /\ Sound(saved, agreed[s])
    BY <2>1, <2>2, <2>3 DEF CopyOf, Sound
  <2>5. sessions' = [sessions EXCEPT ![s] = saved] /\ UNCHANGED <<agreed, games, pc, my>>
    BY <1>2, <2>1 DEF SessionGetsLate, requestVars
  <2>6. Grows /\ SessionsAgreed' /\ GamesAgreed'
    BY <2>3, <2>4, <2>5, SavedAgrees
  <2>7. ASSUME NEW v \in Workers PROVE Agrees(pc[v], my[v])'
    <3>1. PICK step0, work0 : step0 = pc[v] /\ work0 = my[v]
      OBVIOUS
    <3>2. Agrees(step0, work0)'
      BY <2>6, <3>1, AgreesStill DEF AgreedInv, TypeInv, Equipped
    <3> QED  BY <2>5, <3>1, <3>2
  <2> QED  BY <2>6, <2>7 DEF AgreedInv
<1> QED  BY <1>1, <1>2 DEF LateStep

LEMMA AgreedNext ==
  ASSUME AgreedInv, [Next]_vars
  PROVE  AgreedInv'
<1>t. TypeInv /\ TypeInv'
  BY TypeStep DEF AgreedInv
<1>1. CASE UNCHANGED vars
  BY <1>t, <1>1, AgreedStill DEF vars, requestVars, matchmakingVars
<1>2. CASE LateStep
  BY <1>t, <1>2, AgreedLate
<1>3. ASSUME NEW w \in Workers, CallBy(w) PROVE AgreedInv'
  BY <1>t, <1>3, AgreedCalls
<1>4. ASSUME NEW w \in Workers, Serve(w) \/ (Abort(w) /\ UNCHANGED matchmakingVars) PROVE AgreedInv'
  BY <1>t, <1>4, AgreedAside, AgreedSweep, AgreedExpire, AgreedPair, AgreedRead, AgreedGame, AgreedSave, Zenon
     DEF Serve
<1> QED  BY <1>t, <1>1, <1>2, <1>3, <1>4, Steps

\* Every variable keeps its shape.
THEOREM TypeCorrect == Spec => []TypeOK
<1>1. AgreedInv => TypeOK
  <2> SUFFICES ASSUME AgreedInv PROVE TypeOK
    OBVIOUS
  <2>1. /\ asks \in Seq(Ask) /\ queue \in Seq(DOMAIN asks) /\ sessions \in Seq(SessionRow)
        /\ games \in Seq(GameRow) /\ agreed \in Seq(SUBSET Users) /\ Len(agreed) = Len(sessions)
        /\ board \subseteq [user : Users, made : 1 .. posts] /\ posting \subseteq Users
    BY DEF AgreedInv, TypeInv, TablesOK, BoardOK, PostRow
  <2>2. PICK Row : Row = [a : Users, b : Users, okA : BOOLEAN, okB : BOOLEAN,
                          status : SessionStatus, late : BOOLEAN, game : 0 .. Len(games)]
    OBVIOUS
  <2>3. ASSUME NEW s \in DOMAIN sessions PROVE sessions[s] \in Row
    <3>1. sessions[s] \in SessionRow /\ sessions[s].game <= Len(games) /\ Len(games) \in Nat
      BY <2>1 DEF AgreedInv, SessionsAgreed, Sound
    <3>2. sessions[s].game \in 0 .. Len(games)
      BY <3>1 DEF SessionRow
    <3> QED  BY <2>2, <3>1, <3>2 DEF SessionRow
  <2>4. sessions \in Seq(Row)
    BY <2>1, <2>3, TableOf
  <2>5. PICK Game : Game = [players : SUBSET Users, session : 0 .. Len(sessions)]
    OBVIOUS
  <2>6. ASSUME NEW g \in DOMAIN games PROVE games[g] \in Game
    <3>1. games[g] \in GameRow /\ DOMAIN sessions = 1 .. Len(sessions) /\ Len(sessions) \in Nat
      BY <2>1
    <3>2. games[g].session = 0 \/ games[g].session \in DOMAIN sessions
      BY DEF AgreedInv, GamesAgreed
    <3>3. games[g].session \in 0 .. Len(sessions)
      BY <3>1, <3>2
    <3> QED  BY <2>5, <3>1, <3>3 DEF GameRow
  <2>7. games \in Seq(Game)
    BY <2>1, <2>6, TableOf
  <2>8. agreed \in [DOMAIN sessions -> SUBSET Users]
    BY <2>1
  <2> QED  BY <2>1, <2>2, <2>4, <2>5, <2>7, <2>8 DEF TypeOK
<1>2. AgreedInv /\ [Next]_vars => AgreedInv'
  BY AgreedNext
<1> QED  BY AgreedInit, <1>1, <1>2, PTL DEF Spec

-----------------------------------------------------------------------------
(* Served in turn: one match for a session, one session for a request *)

HasGame(s) == \E g \in DOMAIN games : games[g].session = s

UniqueGames == \A g, h \in DOMAIN games : games[g].session = games[h].session /\ games[g].session # 0 => g = h

\* A session that can still be confirmed has no match, unless what is being saved
\* of it is that it has.
PlayedRight(step, work) ==
  /\ \A s \in DOMAIN sessions : sessions[s].status = "PENDING_CONFIRMATION" /\ HasGame(s) =>
       step = "saveSession" /\ work.session = s
  /\ step = "saveSession" /\ HasGame(work.session) => work.copy.status # "PENDING_CONFIRMATION"
  /\ step = "createGame" => ~HasGame(work.session)

SessionsOf(u) == {s \in DOMAIN sessions : u \in {sessions[s].a, sessions[s].b}}
MatchedOf(u) == {i \in DOMAIN asks : asks[i].user = u /\ asks[i].status = "MATCHED"}

\* A session has been made of the two requests that are about to be saved.
Owed(step, work, u) == IF step = "saveAsks" /\ u \in {work.ask.user, work.other.user} THEN 1 ELSE 0

\* What a search has chosen still waits, and every session has used up requests.
CountedRight(step, work) ==
  /\ step \in {"choose", "unqueue", "pair", "saveAsks"} =>
       asks[work.first].status = "PENDING" /\ asks[work.first].user = work.ask.user
  /\ step \in {"unqueue", "pair", "saveAsks"} =>
       asks[work.best].status = "PENDING" /\ asks[work.best].user = work.other.user
  /\ \A u \in Users : Cardinality(SessionsOf(u)) = Cardinality(MatchedOf(u)) + Owed(step, work, u)

Right(step, work) == PlayedRight(step, work) /\ CountedRight(step, work)

\* The only request that is being served, or all of them together, are right.
InSequence ==
  /\ UniqueGames
  /\ \A w \in Workers : pc[w] # "idle" => Right(pc[w], my[w])
  /\ Quiet => Right("idle", NoWork)

TurnInv == AgreedInv /\ InTurn /\ (Orderly => InSequence)

LEMMA TurnInit == Init => TurnInv
<1> SUFFICES ASSUME Init PROVE TurnInv
  OBVIOUS
<1>1. AgreedInv /\ InTurn /\ \A w \in Workers : pc[w] = "idle"
  BY AgreedInit, NothingServed DEF Init
<1>2. DOMAIN games = {} /\ DOMAIN sessions = {} /\ DOMAIN asks = {}
  BY DEF Init
<1>3. UniqueGames /\ PlayedRight("idle", NoWork)
  BY <1>2 DEF UniqueGames, PlayedRight
<1>4. CountedRight("idle", NoWork)
  <2>1. \A u : SessionsOf(u) = {} /\ MatchedOf(u) = {} /\ Owed("idle", NoWork, u) = 0
    BY <1>2 DEF SessionsOf, MatchedOf, Owed
  <2>2. Cardinality({}) = 0
    BY FS_EmptySet
  <2> QED  BY <2>1, <2>2 DEF CountedRight
<1> QED  BY <1>1, <1>3, <1>4 DEF TurnInv, InSequence, Right

\* A step of a request that has arrived or is being served.
Turned(w, step, work) ==
  /\ Await(w, step, work)
  /\ Arrive(w) \/ (pc[w] # "idle" /\ UNCHANGED overlapped)
  /\ ~irregular' => ~irregular

LEMMA TurnStep ==
  ASSUME TurnInv, AgreedInv', NEW w \in Workers, NEW step, NEW work, Turned(w, step, work),
         Orderly' /\ UniqueGames /\ Right(pc[w], my[w]) => UniqueGames' /\ Right(step, work)'
  PROVE  TurnInv'
<1>1. pc'[w] = step /\ my'[w] = work /\ Alone(w)
  BY Awaiting DEF Turned, TurnInv, AgreedInv, TypeInv, Moved
<1>2. InTurn' /\ (~overlapped' => ~overlapped /\ \A v \in Workers \ {w} : pc[v] = "idle")
  <2>1. Served
    BY DEF TurnInv, AgreedInv, TypeInv
  <2>2. CASE Arrive(w)
    BY <1>1, <2>1, <2>2, ArrivesInTurn DEF TurnInv, Quiet
  <2>3. CASE pc[w] # "idle" /\ UNCHANGED overlapped
    BY <1>1, <2>1, <2>3, ServedInTurn DEF TurnInv
  <2> QED  BY <2>2, <2>3 DEF Turned
<1>3. ASSUME Orderly' PROVE InSequence'
  <2>1. Orderly /\ \A v \in Workers \ {w} : pc[v] = "idle" /\ pc'[v] = "idle"
    BY <1>1, <1>2, <1>3 DEF Orderly, Turned, Alone
  <2>2. InSequence
    BY <2>1 DEF TurnInv
  <2>3. Right(pc[w], my[w])
    <3>1. CASE pc[w] # "idle"
      BY <2>2, <3>1 DEF InSequence
    <3>2. CASE pc[w] = "idle"
      <4>1. Right("idle", NoWork)
        BY <2>1, <2>2, <3>2 DEF InSequence, Quiet
      <4>2. \A u : Owed("idle", NoWork, u) = Owed("idle", my[w], u)
        BY DEF Owed
      <4> QED  BY <3>2, <4>1, <4>2 DEF Right, PlayedRight, CountedRight
    <3> QED  BY <3>1, <3>2
  <2>4. UniqueGames' /\ Right(step, work)'
    BY <1>3, <2>2, <2>3 DEF InSequence
  <2>5. \A v \in Workers : pc'[v] # "idle" => Right(pc[v], my[v])'
    BY <1>1, <2>1, <2>4
  <2>6. Quiet' => Right("idle", NoWork)'
    <3>1. Quiet' => step = "idle"
      BY <1>1 DEF Quiet
    <3>2. (\A u : Owed("idle", NoWork, u) = Owed("idle", work, u))'
      BY DEF Owed
    <3> QED  BY <2>4, <3>1, <3>2 DEF Right, PlayedRight, CountedRight
  <2> QED  BY <2>4, <2>5, <2>6 DEF InSequence
<1> QED  BY <1>2, <1>3 DEF TurnInv

\* Where no session and no match changes ...
LEMMA PlayedStill ==
  ASSUME UNCHANGED <<sessions, games>>, NEW old, NEW held, NEW step, NEW work,
         UniqueGames, PlayedRight(old, held), old # "saveSession", step \notin {"saveSession", "createGame"}
  PROVE  UniqueGames' /\ PlayedRight(step, work)'
BY DEF UniqueGames, PlayedRight, HasGame

\* ... and no session is made, no request matched.
Kept ==
  /\ DOMAIN sessions' = DOMAIN sessions
  /\ \A s \in DOMAIN sessions : sessions'[s].a = sessions[s].a /\ sessions'[s].b = sessions[s].b
  /\ DOMAIN asks \subseteq DOMAIN asks'
  /\ \A i \in DOMAIN asks : asks'[i].user = asks[i].user /\ (asks'[i].status = "MATCHED" <=> asks[i].status = "MATCHED")
  /\ \A i \in DOMAIN asks' \ DOMAIN asks : asks'[i].status # "MATCHED"

LEMMA KeptCounts ==
  ASSUME Kept, NEW u
  PROVE  UNCHANGED <<SessionsOf(u), MatchedOf(u)>>
<1>1. SessionsOf(u)' = SessionsOf(u)
  BY DEF Kept, SessionsOf
<1>2. MatchedOf(u)' = MatchedOf(u)
  BY DEF Kept, MatchedOf
<1> QED  BY <1>1, <1>2

LEMMA CountedStill ==
  ASSUME Kept, NEW old, NEW held, NEW step, NEW work, CountedRight(old, held),
         \A u : Owed(step, work, u) = Owed(old, held, u),
         step \in {"choose", "unqueue", "pair", "saveAsks"} =>
           asks'[work.first].status = "PENDING" /\ asks'[work.first].user = work.ask.user,
         step \in {"unqueue", "pair", "saveAsks"} =>
           asks'[work.best].status = "PENDING" /\ asks'[work.best].user = work.other.user
  PROVE  CountedRight(step, work)'
<1>1. \A u : SessionsOf(u)' = SessionsOf(u) /\ MatchedOf(u)' = MatchedOf(u)
  BY KeptCounts
<1>2. \A u : Owed(step, work, u)' = Owed(step, work, u)
  BY DEF Owed
<1> QED  BY <1>1, <1>2 DEF CountedRight

\* A step that is about neither.
Apart == {"enter", "push", "sweep", "expire", "pop", "readFirst", "putBack", "confirm", "answer", "saveRow", "findNewest",
          "deleteOthers", "cancelAsks", "createAuto", "idle"}

LEMMA TurnRest ==
  ASSUME TurnInv, AgreedInv', NEW w \in Workers, NEW step, NEW work, Turned(w, step, work),
         pc[w] \in Apart \cup {"choose"}, step \in Apart, UNCHANGED <<sessions, games>>, Kept
  PROVE  TurnInv'
<1>1. pc[w] # "saveSession" /\ step \notin {"saveSession", "createGame"}
  BY DEF Apart
<1>2. pc[w] # "saveAsks" /\ step \notin {"choose", "unqueue", "pair", "saveAsks"}
  BY DEF Apart
<1>3. \A u : Owed(step, work, u) = Owed(pc[w], my[w], u)
  BY <1>2 DEF Owed
<1>4. PICK old, held : old = pc[w] /\ held = my[w]
  OBVIOUS
<1>5. UniqueGames /\ PlayedRight(old, held) => UniqueGames' /\ PlayedRight(step, work)'
  BY <1>1, <1>4, PlayedStill
<1>6. CountedRight(old, held) => CountedRight(step, work)'
  BY <1>2, <1>3, <1>4, CountedStill
<1> QED  BY <1>4, <1>5, <1>6, TurnStep DEF Right

\* What is swept or cancelled was not matched, and is not.
LEMMA SweptKept ==
  ASSUME TypeInv
  PROVE  \A i \in DOMAIN asks :
           /\ Swept[i].user = asks[i].user /\ (Swept[i].status = "MATCHED" <=> asks[i].status = "MATCHED")
           /\ \A x \in Status : /\ [asks[i] EXCEPT !.status = x].user = asks[i].user
                                /\ [asks[i] EXCEPT !.status = x].status = x
<1>1. \A i \in DOMAIN asks, x \in Status : /\ [asks[i] EXCEPT !.status = x].user = asks[i].user
                                           /\ [asks[i] EXCEPT !.status = x].status = x
  BY AskRows DEF Ask
<1>2. "EXPIRED" \in Status
  BY DEF Status
<1> QED  BY <1>1, <1>2 DEF Swept

LEMMA TurnCalls ==
  ASSUME TurnInv, AgreedInv', NEW w \in Workers, CallBy(w)
  PROVE  TurnInv'
<1>t. TypeInv /\ AgreedInv /\ Served
  BY DEF TurnInv, AgreedInv, TypeInv
<1>0. UNCHANGED <<sessions, agreed, games>>
  BY DEF CallBy, Search, Confirm, Post, CancelRequest, LeaveQueue, AutoMatch, Cancel, GetStatus, matchmakingVars
<1>1. ASSUME NEW call, Call(w, call), NEW step, NEW work, Await(w, step, work) PROVE Turned(w, step, work) /\ pc[w] \in Apart
  BY <1>1 DEF Call, Arrive, Regular, Turned, Apart
<1>2. \A step \in {"enter", "saveRow", "cancelAsks", "createAuto", "sweep", "idle"} : step \in Apart
  BY DEF Apart
<1>3. UNCHANGED asks => Kept
  BY <1>0 DEF Kept
<1>4. ASSUME NEW u, NEW k, Search(w, u, k) PROVE TurnInv'
  <2>1. asks' = Swept /\ Await(w, "enter", [ask |-> NewAsk(u, k)]) /\ Call(w, "search")
    BY <1>4 DEF Search
  <2>2. Kept
    BY <1>t, <1>0, <2>1, SweptKept, AskRows DEF Kept
  <2> QED  BY <1>0, <1>1, <1>2, <2>1, <2>2, TurnRest
<1>5. ASSUME NEW u, (\E s : Confirm(w, u, s)) \/ Post(w, u) \/ LeaveQueue(w, u) \/ AutoMatch(w, u) \/ GetStatus(w)
      PROVE  TurnInv'
  <2>1. \E step \in {"saveRow", "cancelAsks", "createAuto", "sweep"} : \E work : Await(w, step, work)
    BY <1>5 DEF Confirm, Post, LeaveQueue, AutoMatch, GetStatus
  <2>2. PICK step \in Apart : \E work : Await(w, step, work)
    BY <1>2, <2>1
  <2>3. UNCHANGED asks /\ \E call : Call(w, call)
    BY <1>5 DEF Confirm, Post, LeaveQueue, AutoMatch, GetStatus, matchmakingVars
  <2> QED  BY <1>0, <1>1, <1>3, <2>2, <2>3, TurnRest
<1>6. ASSUME NEW u, CancelRequest(w, u) PROVE TurnInv'
  <2>1. Call(w, "leave") /\ UNCHANGED <<asks, pc, my>> /\ pc[w] = "idle"
    BY <1>6 DEF CancelRequest, Call, Arrive
  <2>2. Await(w, "idle", my[w])
    BY <1>t, <2>1 DEF Await, Goto, Hold, Served
  <2> QED  BY <1>0, <1>1, <1>2, <1>3, <2>1, <2>2, TurnRest
<1>7. ASSUME NEW s \in DOMAIN sessions, Cancel(w, s) PROVE TurnInv'
  <2>1. PICK saved : saved = sessions[s]
    OBVIOUS
  <2>2. saved \in SessionRow
    BY <1>t, <2>1 DEF TypeInv, TablesOK
  <2>3. PICK copy, work : copy = [saved EXCEPT !.status = "CANCELLED"] /\ work = [session |-> s, copy |-> copy]
    OBVIOUS
  <2>4. copy.status = "CANCELLED"
    BY <2>2, <2>3, RowEdits DEF SessionStatus
  <2>5. Await(w, "saveSession", work) /\ Call(w, "cancel") /\ UNCHANGED asks /\ pc[w] = "idle"
    BY <1>7, <2>1, <2>3 DEF Cancel, matchmakingVars, Call, Arrive
  <2>6. PICK old, held : old = pc[w] /\ held = my[w]
    OBVIOUS
  <2>7. UniqueGames /\ PlayedRight(old, held) => UniqueGames' /\ PlayedRight("saveSession", work)'
    BY <1>0, <2>3, <2>4, <2>5, <2>6 DEF UniqueGames, PlayedRight, HasGame
  <2>8. \A u : Owed("saveSession", work, u) = Owed(old, held, u)
    BY <2>5, <2>6 DEF Owed
  <2>9. CountedRight(old, held) => CountedRight("saveSession", work)'
    BY <1>3, <2>5, <2>8, CountedStill
  <2> QED  BY <1>1, <2>5, <2>6, <2>7, <2>9, TurnStep DEF Right
<1> QED  BY <1>4, <1>5, <1>6, <1>7 DEF CallBy

LEMMA TurnAside ==
  ASSUME TurnInv, AgreedInv', NEW w \in Workers,
         \/ Enter(w) \/ Push(w) \/ Sweep(w) \/ Pop(w) \/ PutBack(w) \/ AnswerStatus(w)
         \/ SaveRow(w) \/ FindNewest(w) \/ DeleteOthers(w) \/ CancelAsks(w)
         \/ Abort(w) /\ UNCHANGED matchmakingVars
  PROVE  TurnInv'
<1>t. TypeInv /\ AgreedInv /\ Served /\ asks \in Seq(Ask)
  BY DEF TurnInv, AgreedInv, TypeInv, TablesOK
<1>0. UNCHANGED <<sessions, games>>
  BY DEF Enter, Push, Sweep, Pop, PutBack, AnswerStatus, SaveRow, FindNewest, DeleteOthers, CancelAsks, matchmakingVars
<1>1. ASSUME NEW old \in Apart, old # "idle", At(w, old), NEW step \in Apart, NEW work, Await(w, step, work), Kept PROVE TurnInv'
  <2>1. Turned(w, step, work) /\ pc[w] \in Apart
    BY <1>1 DEF At, Turned
  <2> QED  BY <1>0, <1>1, <2>1, TurnRest
<1>2. \A step \in {"enter", "push", "sweep", "expire", "pop", "readFirst", "putBack", "answer", "saveRow", "findNewest",
                   "deleteOthers", "cancelAsks", "idle"} : step \in Apart
  BY DEF Apart
<1>3. UNCHANGED asks => Kept
  BY <1>0 DEF Kept
<1>4. CASE Enter(w)
  <2>1. my[w].ask \in Ask /\ At(w, "enter") /\ Await(w, "push", [id |-> Len(asks) + 1]) /\ asks' = Append(asks, my[w].ask)
    BY <1>4, <1>t DEF Enter, At, TypeInv, Equipped, Holds
  <2>2. my[w].ask.status # "MATCHED"
    BY <1>4, <1>t DEF Enter, At, TypeInv, Equipped, Holds
  <2>3. Kept
    BY <1>0, <1>t, <2>1, <2>2, InsertedRow DEF Kept
  <2> QED  BY <1>1, <1>2, <2>1, <2>3
<1>5. CASE Sweep(w)
  <2>1. At(w, "sweep") /\ (asks' = Swept \/ asks' = asks)
        /\ Await(w, "expire", [for |-> my[w], stale |-> [s \in StaleSessions |-> sessions[s]]])
    BY <1>5 DEF Sweep
  <2>2. Kept
    BY <1>t, <1>0, <1>3, <2>1, SweptKept, AskRows DEF Kept
  <2> QED  BY <1>1, <1>2, <2>1, <2>2
<1>6. CASE CancelAsks(w)
  <2>1. At(w, "cancelAsks") /\ Await(w, "idle", NoWork) /\ DOMAIN asks' = DOMAIN asks
    BY <1>6 DEF CancelAsks, Answer
  <2>2. \A i \in DOMAIN asks : \/ asks'[i] = asks[i]
                               \/ asks[i].status = "PENDING" /\ asks'[i] = [asks[i] EXCEPT !.status = "CANCELLED"]
    BY <1>6 DEF CancelAsks
  <2>3. \A i \in DOMAIN asks : asks'[i].user = asks[i].user /\ (asks'[i].status = "MATCHED" <=> asks[i].status = "MATCHED")
    <3>1. \A i \in DOMAIN asks : /\ [asks[i] EXCEPT !.status = "CANCELLED"].user = asks[i].user
                                 /\ [asks[i] EXCEPT !.status = "CANCELLED"].status = "CANCELLED"
      BY <1>t, SweptKept DEF Status
    <3> QED  BY <2>2, <3>1
  <2>4. Kept
    BY <1>0, <2>1, <2>3 DEF Kept
  <2> QED  BY <1>1, <1>2, <2>1, <2>4
<1>7. CASE Push(w) \/ Pop(w) \/ PutBack(w)
  <2>1. UNCHANGED asks
    BY <1>7 DEF Push, Pop, PutBack
  <2>2. \E old \in {"push", "pop", "putBack"} : At(w, old)
    BY <1>7 DEF Push, Pop, PutBack
  <2>3. \E step \in {"sweep", "idle", "readFirst"} : \E work : Await(w, step, work)
    BY <1>7 DEF Push, Pop, PutBack, Answer
  <2> QED  BY <1>1, <1>2, <1>3, <2>1, <2>2, <2>3
<1>8. CASE AnswerStatus(w) \/ SaveRow(w) \/ FindNewest(w) \/ DeleteOthers(w)
  <2>1. UNCHANGED asks
    BY <1>8 DEF AnswerStatus, SaveRow, FindNewest, DeleteOthers, matchmakingVars
  <2>2. \E old \in {"answer", "saveRow", "findNewest", "deleteOthers"} : At(w, old)
    BY <1>8 DEF AnswerStatus, SaveRow, FindNewest, DeleteOthers
  <2>3. \E step \in {"idle", "findNewest", "deleteOthers"} : \E work : Await(w, step, work)
    <3>1. ASSUME Then(w, "findNewest") PROVE Await(w, "findNewest", my[w])
      BY <1>t, <3>1 DEF Then, Await, Hold, Served
    <3> QED  BY <1>8, <3>1 DEF AnswerStatus, SaveRow, FindNewest, DeleteOthers, Answer
  <2> QED  BY <1>1, <1>2, <1>3, <2>1, <2>2, <2>3
<1>9. CASE Abort(w)
  <2>1. Turned(w, "idle", NoWork) /\ ~Orderly'
    BY <1>9 DEF Abort, Irregular, Answer, Turned, Orderly
  <2> QED  BY <2>1, TurnStep
<1> QED  BY <1>4, <1>5, <1>6, <1>7, <1>8, <1>9

\* What a search chooses waits, and goes on waiting: nobody else is served.
LEMMA TurnSearch ==
  ASSUME TurnInv, AgreedInv', NEW w \in Workers, ReadFirst(w) \/ Choose(w) \/ Unqueue(w)
  PROVE  TurnInv'
<1>t. TypeInv /\ AgreedInv /\ Served /\ asks \in Seq(Ask)
  BY DEF TurnInv, AgreedInv, TypeInv, TablesOK
<1>0. UNCHANGED <<sessions, games>>
  BY DEF ReadFirst, Choose, Unqueue
<1>1. PICK old, held : old = pc[w] /\ held = my[w]
  OBVIOUS
<1>2. old \in {"readFirst", "choose", "unqueue"} /\ UNCHANGED <<overlapped, irregular>>
  BY <1>1 DEF ReadFirst, Choose, Unqueue, At
<1>3. ASSUME NEW step, NEW work, Await(w, step, work) PROVE Turned(w, step, work)
  BY <1>1, <1>2, <1>3 DEF Turned
<1>4. ASSUME NEW step \in {"choose", "unqueue", "pair"}, NEW work, Await(w, step, work), UNCHANGED asks,
             CountedRight(old, held) =>
               /\ asks[work.first].status = "PENDING" /\ asks[work.first].user = work.ask.user
               /\ step # "choose" => asks[work.best].status = "PENDING" /\ asks[work.best].user = work.other.user
      PROVE  TurnInv'
  <2>1. UniqueGames /\ PlayedRight(old, held) => UniqueGames' /\ PlayedRight(step, work)'
    BY <1>0, <1>2, PlayedStill
  <2>2. \A u : Owed(step, work, u) = Owed(old, held, u)
    BY <1>2 DEF Owed
  <2>3. Kept
    BY <1>0, <1>4 DEF Kept
  <2>4. CountedRight(old, held) => CountedRight(step, work)'
    BY <1>4, <2>2, <2>3, CountedStill
  <2> QED  BY <1>1, <1>3, <1>4, <2>1, <2>4, TurnStep DEF Right
<1>a. "pop" \in Apart /\ "putBack" \in Apart /\ "readFirst" \in Apart
  BY DEF Apart
<1>5. CASE ReadFirst(w)
  <2>1. PICK i \in DOMAIN asks : i = my[w].first
    BY <1>5, <1>t DEF ReadFirst, At, TypeInv, Equipped, Holds
  <2>2. CASE asks[i].status = "PENDING" /\ ~asks[i].late
    <3>1. PICK work : work = [first |-> i, ask |-> asks[i]]
      OBVIOUS
    <3>2. Await(w, "choose", work) /\ UNCHANGED asks
      BY <1>5, <2>1, <2>2, <3>1 DEF ReadFirst
    <3> QED  BY <1>4, <2>2, <3>1, <3>2
  <2>3. CASE ~(asks[i].status = "PENDING" /\ ~asks[i].late)
    <3>1. /\ Await(w, "pop", NoWork) /\ pc[w] = "readFirst"
          /\ asks' = IF asks[i].status = "PENDING" THEN [asks EXCEPT ![i] = [asks[i] EXCEPT !.status = "EXPIRED"]] ELSE asks
      BY <1>5, <2>1, <2>3 DEF ReadFirst, At
    <3>2. /\ [asks[i] EXCEPT !.status = "EXPIRED"].status = "EXPIRED"
          /\ [asks[i] EXCEPT !.status = "EXPIRED"].user = asks[i].user
      BY <1>t, SweptKept DEF Status
    <3>3. Kept
      BY <1>0, <3>1, <3>2 DEF Kept
    <3> QED  BY <1>0, <1>3, <1>a, <3>1, <3>3, TurnRest
  <2> QED  BY <2>2, <2>3
<1>6. CASE Choose(w)
  <2>1. UNCHANGED asks /\ pc[w] = "choose"
    BY <1>6 DEF Choose, At
  <2>2. CASE Then(w, "putBack")
    <3>1. Await(w, "putBack", my[w])
      BY <1>t, <2>2 DEF Then, Await, Hold, Served
    <3>2. Kept
      BY <1>0, <2>1 DEF Kept
    <3> QED  BY <1>0, <1>3, <1>a, <2>1, <3>1, <3>2, TurnRest
  <2>3. ASSUME NEW best \in Opponents(my[w].first, my[w].ask),
               Await(w, "unqueue", [first |-> my[w].first, ask |-> my[w].ask, best |-> best, other |-> asks[best]])
        PROVE  TurnInv'
    <3>1. PICK work : work = [first |-> my[w].first, ask |-> my[w].ask, best |-> best, other |-> asks[best]]
      OBVIOUS
    <3>2. asks[best].status = "PENDING"
      BY DEF Opponents
    <3>3. CountedRight(old, held) => asks[work.first].status = "PENDING" /\ asks[work.first].user = work.ask.user
      BY <1>1, <2>1, <3>1 DEF CountedRight
    <3>4. asks[work.best].status = "PENDING" /\ asks[work.best].user = work.other.user
      BY <3>1, <3>2
    <3> QED  BY <1>4, <2>1, <2>3, <3>1, <3>3, <3>4
  <2> QED  BY <1>6, <2>2, <2>3 DEF Choose
<1>7. CASE Unqueue(w)
  <2>1. PICK work : work = my[w]
    OBVIOUS
  <2>2. UNCHANGED asks /\ pc[w] = "unqueue" /\ Await(w, "pair", work)
    BY <1>7, <1>t, <2>1 DEF Unqueue, At, Then, Await, Hold, Served
  <2>3. CountedRight(old, held) =>
               /\ asks[work.first].status = "PENDING" /\ asks[work.first].user = work.ask.user
               /\ asks[work.best].status = "PENDING" /\ asks[work.best].user = work.other.user
    BY <1>1, <2>1, <2>2 DEF CountedRight
  <2> QED  BY <1>4, <2>2, <2>3
<1> QED  BY <1>5, <1>6, <1>7

\* A session is made of two requests that wait, and both are saved as matched.
LEMMA OneMore ==
  ASSUME NEW S, NEW x, IsFiniteSet(S), x \notin S
  PROVE  Cardinality(S \cup {x}) = Cardinality(S) + 1
BY FS_AddElement

LEMMA FiniteTables ==
  ASSUME TypeInv, NEW u
  PROVE  /\ IsFiniteSet(SessionsOf(u)) /\ IsFiniteSet(MatchedOf(u))
         /\ Cardinality(SessionsOf(u)) \in Nat /\ Cardinality(MatchedOf(u)) \in Nat
<1>1. DOMAIN asks = 1 .. Len(asks) /\ DOMAIN sessions = 1 .. Len(sessions) /\ Len(asks) \in Nat /\ Len(sessions) \in Nat
  BY DEF TypeInv, TablesOK
<1>2. IsFiniteSet(DOMAIN asks) /\ IsFiniteSet(DOMAIN sessions)
  <2>1. 1 \in Int /\ Len(asks) \in Int /\ Len(sessions) \in Int
    BY <1>1
  <2> QED  BY <1>1, <2>1, FS_Interval
<1>3. SessionsOf(u) \in SUBSET DOMAIN sessions /\ MatchedOf(u) \in SUBSET DOMAIN asks
  BY DEF SessionsOf, MatchedOf
<1>4. IsFiniteSet(SessionsOf(u)) /\ IsFiniteSet(MatchedOf(u))
  BY <1>2, <1>3, FS_Subset
<1> QED  BY <1>4, FS_CardinalityType

LEMMA TurnPair ==
  ASSUME TurnInv, AgreedInv', NEW w \in Workers, Pair(w)
  PROVE  TurnInv'
<1>t. TypeInv /\ AgreedInv /\ Served /\ sessions \in Seq(SessionRow)
  BY DEF TurnInv, AgreedInv, TypeInv, TablesOK
<1>1. PICK work : work = my[w]
  OBVIOUS
<1>2. /\ pc[w] = "pair" /\ UNCHANGED <<overlapped, irregular, asks, games>> /\ Await(w, "saveAsks", work)
      /\ sessions' = Append(sessions, NewSession(work.ask, work.other))
  BY <1>1, <1>t DEF Pair, At, Then, Await, Hold, Served
<1>3. work.ask \in Ask /\ work.other \in Ask
  BY <1>1, <1>2, <1>t DEF TypeInv, Equipped, Holds
<1>4. PICK new, n : new = NewSession(work.ask, work.other) /\ n = Len(sessions) + 1
  OBVIOUS
<1>5. new \in SessionRow /\ new.a = work.ask.user /\ new.b = work.other.user
  BY <1>3, <1>4 DEF NewSession, SessionRow, Ask, SessionStatus
<1>6. /\ DOMAIN sessions' = DOMAIN sessions \cup {n} /\ n \notin DOMAIN sessions /\ sessions'[n] = new
      /\ \A s \in DOMAIN sessions : sessions'[s] = sessions[s]
  BY <1>t, <1>2, <1>4, <1>5, InsertedRow
<1>7. Turned(w, "saveAsks", work)
  BY <1>2 DEF Turned
<1>8. PICK old, held : old = pc[w] /\ held = my[w]
  OBVIOUS
<1>9. ~HasGame(n) /\ n # 0
  <2>1. DOMAIN sessions = 1 .. Len(sessions) /\ Len(sessions) \in Nat
    BY <1>t
  <2> QED  BY <1>t, <1>4, <1>6, <2>1 DEF HasGame, AgreedInv, GamesAgreed
<1>10. UniqueGames /\ PlayedRight(old, held) => UniqueGames' /\ PlayedRight("saveAsks", work)'
  <2>1. \A s : HasGame(s)' <=> HasGame(s)
    BY <1>2 DEF HasGame
  <2>2. old # "saveSession"
    BY <1>2, <1>8
  <2>3. PlayedRight(old, held) => \A s \in DOMAIN sessions' : sessions'[s].status = "PENDING_CONFIRMATION" => ~HasGame(s)
    BY <1>6, <1>9, <2>2 DEF PlayedRight
  <2> QED  BY <1>2, <2>1, <2>3 DEF UniqueGames, PlayedRight
<1>11. ASSUME CountedRight(old, held), NEW u \in Users
       PROVE  Cardinality(SessionsOf(u))' = (Cardinality(MatchedOf(u)) + Owed("saveAsks", work, u))'
  <2>1. MatchedOf(u)' = MatchedOf(u) /\ Owed("saveAsks", work, u)' = Owed("saveAsks", work, u)
    BY <1>2 DEF MatchedOf, Owed
  <2>2. Cardinality(SessionsOf(u)) = Cardinality(MatchedOf(u)) + Owed(old, held, u) /\ Owed(old, held, u) = 0
    BY <1>2, <1>8, <1>11 DEF CountedRight, Owed
  <2>3. IsFiniteSet(SessionsOf(u)) /\ n \notin SessionsOf(u) /\ Cardinality(MatchedOf(u)) \in Nat
    BY <1>t, <1>6, FiniteTables DEF SessionsOf
  <2>4. CASE u \in {work.ask.user, work.other.user}
    <3>1. SessionsOf(u)' = SessionsOf(u) \cup {n}
      BY <1>5, <1>6, <2>4 DEF SessionsOf
    <3>2. Cardinality(SessionsOf(u) \cup {n}) = Cardinality(SessionsOf(u)) + 1
      BY <2>3, OneMore
    <3>3. Owed("saveAsks", work, u) = 1
      BY <2>4 DEF Owed
    <3> QED  BY <2>1, <2>2, <2>3, <3>1, <3>2, <3>3
  <2>5. CASE u \notin {work.ask.user, work.other.user}
    <3>1. SessionsOf(u)' = SessionsOf(u)
      BY <1>5, <1>6, <2>5 DEF SessionsOf
    <3>2. Owed("saveAsks", work, u) = 0
      BY <2>5 DEF Owed
    <3> QED  BY <2>1, <2>2, <2>3, <3>1, <3>2
  <2> QED  BY <2>4, <2>5
<1>12. CountedRight(old, held) => CountedRight("saveAsks", work)'
  <2>1. CountedRight(old, held) => /\ asks[work.first].status = "PENDING" /\ asks[work.first].user = work.ask.user
                                   /\ asks[work.best].status = "PENDING" /\ asks[work.best].user = work.other.user
    BY <1>1, <1>2, <1>8 DEF CountedRight
  <2> QED  BY <1>2, <1>11, <2>1 DEF CountedRight
<1> QED  BY <1>7, <1>8, <1>10, <1>12, TurnStep DEF Right

LEMMA TurnSaveAsks ==
  ASSUME TurnInv, AgreedInv', NEW w \in Workers, SaveAsks(w)
  PROVE  TurnInv'
<1>t. TypeInv /\ AgreedInv /\ Served /\ asks \in Seq(Ask)
  BY DEF TurnInv, AgreedInv, TypeInv, TablesOK
<1>1. /\ pc[w] = "saveAsks" /\ UNCHANGED <<overlapped, irregular, sessions, games>> /\ Await(w, "idle", NoWork)
  BY DEF SaveAsks, At, Answer
<1>2. PICK i, j \in DOMAIN asks, a, b \in Ask :
           /\ i = my[w].first /\ j = my[w].best /\ i # j
           /\ a.status = "MATCHED" /\ a.user = my[w].ask.user
           /\ b.status = "MATCHED" /\ b.user = my[w].other.user
           /\ asks' = [[asks EXCEPT ![i] = a] EXCEPT ![j] = b]
  BY <1>t, SavesAsks
<1>3. /\ DOMAIN asks' = DOMAIN asks /\ asks'[i] = a /\ asks'[j] = b
      /\ \A n \in DOMAIN asks : n # i /\ n # j => asks'[n] = asks[n]
  BY <1>2
<1>4. a.user # b.user
  BY <1>1, <1>2, <1>t DEF TypeInv, Equipped, Holds
<1>5. Turned(w, "idle", NoWork)
  BY <1>1 DEF Turned
<1>6. PICK old, held : old = pc[w] /\ held = my[w]
  OBVIOUS
<1>7. UniqueGames /\ PlayedRight(old, held) => UniqueGames' /\ PlayedRight("idle", NoWork)'
  BY <1>1, <1>6, PlayedStill
<1>8. ASSUME CountedRight(old, held), NEW u \in Users
      PROVE  Cardinality(SessionsOf(u))' = (Cardinality(MatchedOf(u)) + Owed("idle", NoWork, u))'
  <2>1. SessionsOf(u)' = SessionsOf(u) /\ Owed("idle", NoWork, u)' = 0
    BY <1>1 DEF SessionsOf, Owed
  <2>2. /\ Cardinality(SessionsOf(u)) = Cardinality(MatchedOf(u)) + Owed(old, held, u)
        /\ asks[i].status = "PENDING" /\ asks[i].user = a.user /\ asks[j].status = "PENDING" /\ asks[j].user = b.user
    BY <1>1, <1>2, <1>6, <1>8 DEF CountedRight
  <2>3. IsFiniteSet(MatchedOf(u)) /\ i \notin MatchedOf(u) /\ j \notin MatchedOf(u) /\ Cardinality(MatchedOf(u)) \in Nat
    BY <1>t, <2>2, FiniteTables DEF MatchedOf
  <2>4. Owed(old, held, u) = IF u = a.user \/ u = b.user THEN 1 ELSE 0
    BY <1>1, <1>2, <1>6 DEF Owed
  <2>5. CASE u = a.user
    <3>1. MatchedOf(u)' = MatchedOf(u) \cup {i}
      BY <1>2, <1>3, <1>4, <2>2, <2>5 DEF MatchedOf
    <3>2. Cardinality(MatchedOf(u) \cup {i}) = Cardinality(MatchedOf(u)) + 1
      BY <2>3, OneMore
    <3> QED  BY <2>1, <2>2, <2>3, <2>4, <2>5, <3>1, <3>2
  <2>6. CASE u = b.user
    <3>1. MatchedOf(u)' = MatchedOf(u) \cup {j}
      BY <1>2, <1>3, <1>4, <2>2, <2>6 DEF MatchedOf
    <3>2. Cardinality(MatchedOf(u) \cup {j}) = Cardinality(MatchedOf(u)) + 1
      BY <2>3, OneMore
    <3> QED  BY <2>1, <2>2, <2>3, <2>4, <2>6, <3>1, <3>2
  <2>7. CASE u # a.user /\ u # b.user
    <3>1. MatchedOf(u)' = MatchedOf(u)
      BY <1>2, <1>3, <2>2, <2>7 DEF MatchedOf
    <3> QED  BY <2>1, <2>2, <2>3, <2>4, <2>7, <3>1
  <2> QED  BY <2>5, <2>6, <2>7
<1>9. CountedRight(old, held) => CountedRight("idle", NoWork)'
  BY <1>8 DEF CountedRight
<1> QED  BY <1>5, <1>6, <1>7, <1>9, TurnStep DEF Right

\* Where requests are as they were, and the players of the sessions.
LEMMA SessionsKept ==
  ASSUME AgreedInv, AgreedInv', Grows, DOMAIN sessions' = DOMAIN sessions, UNCHANGED asks
  PROVE  Kept
BY DEF Kept, Grows

LEMMA CountedAside ==
  ASSUME Kept, NEW old, NEW held, NEW step, NEW work, CountedRight(old, held), old # "saveAsks",
         step \in Apart \cup {"saveSession", "createGame"}
  PROVE  CountedRight(step, work)'
<1>1. step \notin {"choose", "unqueue", "pair", "saveAsks"}
  BY DEF Apart
<1>2. \A u : Owed(step, work, u) = Owed(old, held, u)
  BY <1>1 DEF Owed
<1> QED  BY <1>1, <1>2, CountedStill

LEMMA TurnExpire ==
  ASSUME TurnInv, AgreedInv', NEW w \in Workers, ExpireSession(w)
  PROVE  TurnInv'
<1>t. TypeInv /\ AgreedInv /\ pc[w] = "expire" /\ UNCHANGED <<overlapped, irregular, asks, games, agreed>>
  BY DEF TurnInv, AgreedInv, ExpireSession, At
<1>1. PICK for, stale : for = my[w].for /\ stale = my[w].stale
  OBVIOUS
<1>2. /\ my[w] = [for |-> for, stale |-> stale] /\ for \in Errand
      /\ DOMAIN stale \subseteq DOMAIN sessions /\ stale \in [DOMAIN stale -> SessionRow]
  BY <1>1, <1>t DEF TypeInv, Equipped, Holds
<1>3. "expire" \in Apart /\ for.then \in Apart
  BY <1>2 DEF Errand, Apart
<1>4. CASE DOMAIN stale = {}
  <2>1. Await(w, for.then, for) /\ UNCHANGED sessions
    BY <1>1, <1>4 DEF ExpireSession
  <2>2. Turned(w, for.then, for)
    BY <1>t, <2>1 DEF Turned
  <2>3. Kept
    BY <1>t, <2>1 DEF Kept
  <2> QED  BY <1>t, <1>3, <2>1, <2>2, <2>3, TurnRest
<1>5. CASE DOMAIN stale # {}
  <2>1. PICK s \in DOMAIN stale :
          /\ sessions' = [sessions EXCEPT ![s] = [stale[s] EXCEPT !.status = "EXPIRED"]]
          /\ Await(w, "expire", [my[w] EXCEPT !.stale = [t \in DOMAIN @ \ {s} |-> @[t]]])
    <3>1. (CHOOSE s \in DOMAIN stale : TRUE) \in DOMAIN stale
      BY <1>5
    <3> QED  BY <1>1, <1>5, <3>1 DEF ExpireSession
  <2>2. PICK saved, copy : copy = stale[s] /\ saved = [copy EXCEPT !.status = "EXPIRED"]
    OBVIOUS
  <2>3. copy \in SessionRow /\ CopyOf(copy, s) /\ s \in DOMAIN sessions
    BY <1>t, <1>1, <1>2, <2>2 DEF AgreedInv, Agrees
  <2>4. saved.a = copy.a /\ saved.b = copy.b /\ saved.status = "EXPIRED"
    BY <2>2, <2>3, RowEdits DEF SessionStatus
  <2>5. /\ DOMAIN sessions' = DOMAIN sessions /\ sessions'[s] = saved
        /\ \A t \in DOMAIN sessions : t # s => sessions'[t] = sessions[t]
    BY <2>1, <2>2, <2>3
  <2>6. Kept
    BY <1>t, <2>3, <2>4, <2>5 DEF Kept, CopyOf
  <2>7. PICK old, held, work : /\ old = pc[w] /\ held = my[w]
                               /\ work = [my[w] EXCEPT !.stale = [t \in DOMAIN @ \ {s} |-> @[t]]]
    OBVIOUS
  <2>8. UniqueGames /\ PlayedRight(old, held) => UniqueGames' /\ PlayedRight("expire", work)'
    BY <1>t, <2>4, <2>5, <2>7 DEF UniqueGames, PlayedRight, HasGame
  <2>9. CountedRight(old, held) => CountedRight("expire", work)'
    BY <1>t, <1>3, <2>6, <2>7, CountedAside
  <2>10. Turned(w, "expire", work)
    BY <1>t, <2>1, <2>7 DEF Turned
  <2> QED  BY <2>7, <2>8, <2>9, <2>10, TurnStep DEF Right
<1> QED  BY <1>4, <1>5

LEMMA TurnRead ==
  ASSUME TurnInv, AgreedInv', NEW w \in Workers, ReadSession(w)
  PROVE  TurnInv'
<1>t. TypeInv /\ AgreedInv /\ pc[w] = "confirm" /\ UNCHANGED <<overlapped, irregular, asks, games, sessions>>
  BY DEF TurnInv, AgreedInv, ReadSession, At
<1>1. PICK s \in DOMAIN sessions, u \in Users, copy, flagged \in SessionRow :
           /\ s = my[w].session /\ u = my[w].user /\ copy = sessions[s] /\ flagged = Flagged(copy, u)
           /\ \/ /\ Await(w, "saveSession", [session |-> s, copy |-> [copy EXCEPT !.status = "EXPIRED"]])
                 /\ UNCHANGED agreed
              \/ Answer(w) /\ UNCHANGED agreed
              \/ /\ ~copy.late /\ copy.status = "PENDING_CONFIRMATION"
                 /\ Await(w, IF flagged.okA /\ flagged.okB THEN "createGame" ELSE "saveSession",
                          [session |-> s, copy |-> flagged])
                 /\ agreed' = [agreed EXCEPT ![s] = @ \cup {u}]
  BY <1>t, ReadsSession
<1>2. Kept
  BY <1>t DEF Kept
<1>3. PICK old, held : old = pc[w] /\ held = my[w]
  OBVIOUS
<1>4. ASSUME NEW step, NEW work, Await(w, step, work) PROVE Turned(w, step, work)
  BY <1>t, <1>4 DEF Turned
<1>5. CASE Answer(w)
  <2>1. Await(w, "idle", NoWork) /\ "idle" \in Apart /\ "confirm" \in Apart
    BY <1>5 DEF Answer, Apart
  <2> QED  BY <1>t, <1>2, <1>4, <2>1, TurnRest
<1>6. ASSUME NEW step \in {"saveSession", "createGame"}, NEW saved, Await(w, step, [session |-> s, copy |-> saved]),
             PlayedRight(old, held) => ~HasGame(s) \/ (step = "saveSession" /\ saved.status # "PENDING_CONFIRMATION")
      PROVE  TurnInv'
  <2>1. PICK work : work = [session |-> s, copy |-> saved]
    OBVIOUS
  <2>2. PlayedRight(old, held) => PlayedRight(step, work)'
    BY <1>t, <1>3, <1>6, <2>1 DEF PlayedRight, HasGame
  <2>3. UniqueGames => UniqueGames'
    BY <1>t DEF UniqueGames
  <2>4. CountedRight(old, held) => CountedRight(step, work)'
    BY <1>t, <1>2, <1>3, CountedAside
  <2>5. Turned(w, step, work)
    BY <1>4, <1>6, <2>1
  <2> QED  BY <1>3, <2>2, <2>3, <2>4, <2>5, TurnStep DEF Right
<1>7. CASE Await(w, "saveSession", [session |-> s, copy |-> [copy EXCEPT !.status = "EXPIRED"]])
  <2>1. [copy EXCEPT !.status = "EXPIRED"].status # "PENDING_CONFIRMATION"
    BY RowEdits DEF SessionStatus
  <2> QED  BY <1>6, <1>7, <2>1
<1>8. CASE /\ copy.status = "PENDING_CONFIRMATION"
           /\ Await(w, IF flagged.okA /\ flagged.okB THEN "createGame" ELSE "saveSession",
                          [session |-> s, copy |-> flagged])
  <2>1. PICK step \in {"saveSession", "createGame"} : Await(w, step, [session |-> s, copy |-> flagged])
    BY <1>8
  <2>2. PlayedRight(old, held) => ~HasGame(s)
    BY <1>t, <1>1, <1>3, <1>8 DEF PlayedRight
  <2> QED  BY <1>6, <2>1, <2>2
<1> QED  BY <1>1, <1>5, <1>7, <1>8

LEMMA TurnGame ==
  ASSUME TurnInv, AgreedInv', NEW w \in Workers, CreateGame(w) \/ CreateAuto(w)
  PROVE  TurnInv'
<1>t. /\ TypeInv /\ AgreedInv /\ UNCHANGED <<overlapped, irregular, asks, sessions>>
      /\ games \in Seq(GameRow) /\ sessions \in Seq(SessionRow)
  BY DEF TurnInv, AgreedInv, TypeInv, TablesOK, CreateGame, CreateAuto, At
<1>1. PICK game : /\ games' = Append(games, game)
                  /\ \/ CreateGame(w) /\ game = [players |-> {my[w].copy.a, my[w].copy.b}, session |-> my[w].session]
                     \/ CreateAuto(w) /\ game = [players |-> my[w].players, session |-> 0]
  BY DEF CreateGame, CreateAuto
<1>2. PICK n : n = Len(games) + 1
  OBVIOUS
<1>3. DOMAIN games' = DOMAIN games \cup {n} /\ n \notin DOMAIN games /\ games'[n] = game
      /\ \A g \in DOMAIN games : games'[g] = games[g]
  <2>1. Len(games) \in Nat /\ DOMAIN games = 1 .. Len(games)
    BY <1>t
  <2>2. DOMAIN games' = 1 .. (Len(games) + 1) /\ games'[Len(games) + 1] = game
        /\ \A g \in 1 .. Len(games) : games'[g] = games[g]
    BY <1>t, <1>1
  <2> QED  BY <1>2, <2>1, <2>2
<1>4. \A s : HasGame(s)' <=> HasGame(s) \/ s = game.session
  BY <1>3 DEF HasGame
<1>5. Kept
  BY <1>t DEF Kept
<1>6. PICK old, held : old = pc[w] /\ held = my[w]
  OBVIOUS
<1>7. ~HasGame(game.session) \/ game.session = 0 => (UniqueGames => UniqueGames')
  BY <1>3 DEF HasGame, UniqueGames
<1>8. CASE CreateAuto(w) /\ game.session = 0
  <2>1. Await(w, "idle", NoWork) /\ old = "createAuto" /\ "idle" \in Apart
    BY <1>6, <1>8 DEF CreateAuto, At, Answer, Apart
  <2>2. 0 \notin DOMAIN sessions
    BY <1>t
  <2>3. PlayedRight(old, held) => PlayedRight("idle", NoWork)'
    BY <1>t, <1>4, <1>8, <2>1, <2>2 DEF PlayedRight
  <2>4. CountedRight(old, held) => CountedRight("idle", NoWork)'
    BY <1>5, <2>1, CountedAside
  <2>5. Turned(w, "idle", NoWork)
    BY <1>t, <1>6, <2>1 DEF Turned
  <2> QED  BY <1>6, <1>7, <1>8, <2>3, <2>4, <2>5, TurnStep DEF Right
<1>9. CASE CreateGame(w) /\ game.session = my[w].session
  <2>1. PICK s \in DOMAIN sessions, copy \in SessionRow : my[w] = [session |-> s, copy |-> copy]
    BY <1>t, <1>9 DEF CreateGame, At, TypeInv, Equipped, Holds
  <2>2. PICK paid, work : /\ paid = [copy EXCEPT !.game = Len(games) + 1, !.status = "CONFIRMED"]
                          /\ work = [session |-> s, copy |-> paid]
    OBVIOUS
  <2>3. paid.status = "CONFIRMED"
    BY <2>2 DEF SessionRow
  <2>4. [my[w] EXCEPT !.copy = [@ EXCEPT !.game = Len(games) + 1, !.status = "CONFIRMED"]] = work
    BY <2>1, <2>2
  <2>5. Await(w, "saveSession", work) /\ old = "createGame"
    BY <1>6, <1>9, <2>4 DEF CreateGame, At
  <2>6. PlayedRight(old, held) => ~HasGame(game.session)
    BY <1>6, <1>9, <2>5 DEF PlayedRight
  <2>7. PlayedRight(old, held) => PlayedRight("saveSession", work)'
    <3>1. game.session = s /\ work.session = s /\ work.copy.status = "CONFIRMED"
      <4>1. my[w].session = s
        BY <2>1
      <4>2. work.session = s /\ work.copy = paid
        BY <2>2
      <4> QED  BY <1>9, <2>3, <4>1, <4>2
    <3>2. PlayedRight(old, held) => \A t \in DOMAIN sessions : sessions[t].status = "PENDING_CONFIRMATION" => ~HasGame(t)
      BY <2>5 DEF PlayedRight
    <3>3. UNCHANGED sessions
      BY <1>t
    <3> QED  BY <1>4, <3>1, <3>2, <3>3 DEF PlayedRight
  <2>8. CountedRight(old, held) => CountedRight("saveSession", work)'
    BY <1>5, <2>5, CountedAside
  <2>9. Turned(w, "saveSession", work)
    BY <1>t, <1>6, <2>5 DEF Turned
  <2> QED  BY <1>6, <1>7, <2>6, <2>7, <2>8, <2>9, TurnStep DEF Right
<1> QED  BY <1>1, <1>8, <1>9

LEMMA TurnSave ==
  ASSUME TurnInv, AgreedInv', NEW w \in Workers, SaveSession(w)
  PROVE  TurnInv'
<1>t. TypeInv /\ AgreedInv /\ pc[w] = "saveSession" /\ UNCHANGED <<overlapped, irregular, asks, games>>
      /\ Await(w, "idle", NoWork)
  BY DEF TurnInv, AgreedInv, SaveSession, At, Answer
<1>1. PICK s \in DOMAIN sessions, copy, saved \in SessionRow :
           /\ my[w] = [session |-> s, copy |-> copy]
           /\ saved = [copy EXCEPT !.late = @ \/ sessions[s].late]
           /\ sessions' = [sessions EXCEPT ![s] = saved]
  BY <1>t, SavesSession
<1>2. CopyOf(copy, s)
  BY <1>1, <1>t DEF AgreedInv, Agrees
<1>3. saved.a = copy.a /\ saved.b = copy.b /\ saved.status = copy.status
  BY <1>1 DEF SessionRow
<1>4. /\ DOMAIN sessions' = DOMAIN sessions /\ sessions'[s] = saved
      /\ \A t \in DOMAIN sessions : t # s => sessions'[t] = sessions[t]
  BY <1>1
<1>5. Kept
  BY <1>t, <1>2, <1>3, <1>4 DEF Kept, CopyOf
<1>6. PICK old, held : old = pc[w] /\ held = my[w]
  OBVIOUS
<1>7. UniqueGames /\ PlayedRight(old, held) => UniqueGames' /\ PlayedRight("idle", NoWork)'
  BY <1>t, <1>1, <1>3, <1>4, <1>6 DEF UniqueGames, PlayedRight, HasGame
<1>8. CountedRight(old, held) => CountedRight("idle", NoWork)'
  <2>1. "idle" \in Apart /\ old # "saveAsks"
    BY <1>t, <1>6 DEF Apart
  <2> QED  BY <1>5, <2>1, CountedAside
<1>9. Turned(w, "idle", NoWork)
  BY <1>t DEF Turned
<1> QED  BY <1>6, <1>7, <1>8, <1>9, TurnStep DEF Right

\* Time changes nothing of it.
LEMMA TurnLate ==
  ASSUME TurnInv, AgreedInv', LateStep \/ UNCHANGED vars
  PROVE  TurnInv'
<1>t. TypeInv /\ asks \in Seq(Ask) /\ sessions \in Seq(SessionRow)
  BY DEF TurnInv, AgreedInv, TypeInv, TablesOK
<1>1. UNCHANGED <<pc, my, overlapped, irregular, games>>
  BY DEF LateStep, AskGetsLate, SessionGetsLate, requestVars, vars, matchmakingVars
<1>2. /\ DOMAIN asks' = DOMAIN asks
      /\ \A i \in DOMAIN asks : asks'[i].user = asks[i].user /\ asks'[i].status = asks[i].status
      /\ DOMAIN sessions' = DOMAIN sessions
      /\ \A s \in DOMAIN sessions : /\ sessions'[s].a = sessions[s].a /\ sessions'[s].b = sessions[s].b
                                    /\ sessions'[s].status = sessions[s].status
  <2>1. ASSUME NEW i \in DOMAIN asks, AskGetsLate(i) PROVE <1>2!:
    <3>1. asks[i] \in Ask
      BY <1>t
    <3>2. [asks[i] EXCEPT !.late = TRUE].status = asks[i].status /\ [asks[i] EXCEPT !.late = TRUE].user = asks[i].user
      BY <3>1 DEF Ask
    <3> QED  BY <2>1, <3>2 DEF AskGetsLate
  <2>2. ASSUME NEW s \in DOMAIN sessions, SessionGetsLate(s) PROVE <1>2!:
    <3>1. sessions[s] \in SessionRow
      BY <1>t
    <3>2. PICK saved : saved = [sessions[s] EXCEPT !.late = TRUE]
      OBVIOUS
    <3>3. saved.status = sessions[s].status /\ saved.a = sessions[s].a /\ saved.b = sessions[s].b
      BY <3>1, <3>2, RowEdits
    <3> QED  BY <2>2, <3>2, <3>3 DEF SessionGetsLate
  <2>3. CASE UNCHANGED vars
    BY <2>3 DEF vars, matchmakingVars
  <2> QED  BY <2>1, <2>2, <2>3 DEF LateStep
<1>3. Kept
  BY <1>2 DEF Kept
<1>4. UniqueGames => UniqueGames'
  BY <1>1 DEF UniqueGames
<1>5. ASSUME NEW step, NEW work, Holds(step, work), Right(step, work) PROVE Right(step, work)'
  <2>1. PlayedRight(step, work)'
    BY <1>1, <1>2, <1>5 DEF Right, PlayedRight, HasGame
  <2>2. step \in {"choose", "unqueue", "pair", "saveAsks"} => work.first \in DOMAIN asks
    BY <1>5 DEF Holds
  <2>3. step \in {"unqueue", "pair", "saveAsks"} => work.best \in DOMAIN asks
    BY <1>5 DEF Holds
  <2>4. CountedRight(step, work)
    BY <1>5 DEF Right
  <2>5. step \in {"choose", "unqueue", "pair", "saveAsks"} =>
          asks'[work.first].status = "PENDING" /\ asks'[work.first].user = work.ask.user
    BY <1>2, <2>2, <2>4 DEF CountedRight
  <2>6. step \in {"unqueue", "pair", "saveAsks"} =>
          asks'[work.best].status = "PENDING" /\ asks'[work.best].user = work.other.user
    BY <1>2, <2>3, <2>4 DEF CountedRight
  <2>7. CountedRight(step, work)'
    BY <1>3, <2>4, <2>5, <2>6, CountedStill
  <2> QED  BY <2>1, <2>7 DEF Right
<1>6. ASSUME NEW v \in Workers, Right(pc[v], my[v]) PROVE Right(pc[v], my[v])'
  <2>1. PICK step, work : step = pc[v] /\ work = my[v]
    OBVIOUS
  <2>2. Right(step, work)'
    BY <1>t, <1>5, <1>6, <2>1 DEF TypeInv, Equipped
  <2> QED  BY <1>1, <2>1, <2>2
<1>7. Right("idle", NoWork) => Right("idle", NoWork)'
  BY <1>5, IdleHolds
<1>8. InTurn' /\ (Orderly' => Orderly) /\ (Quiet' => Quiet)
  BY <1>1 DEF TurnInv, InTurn, Orderly, Quiet
<1>9. InSequence => InSequence'
  BY <1>1, <1>4, <1>6, <1>7, <1>8 DEF InSequence
<1> QED  BY <1>8, <1>9 DEF TurnInv

LEMMA TurnNext ==
  ASSUME TurnInv, [Next]_vars
  PROVE  TurnInv'
<1>t. TypeInv /\ AgreedInv'
  BY AgreedNext DEF TurnInv, AgreedInv
<1>1. CASE LateStep \/ UNCHANGED vars
  BY <1>t, <1>1, TurnLate
<1>2. ASSUME NEW w \in Workers, CallBy(w) PROVE TurnInv'
  BY <1>t, <1>2, TurnCalls
<1>3. ASSUME NEW w \in Workers, Serve(w) \/ (Abort(w) /\ UNCHANGED matchmakingVars) PROVE TurnInv'
  BY <1>t, <1>3, TurnAside, TurnSearch, TurnPair, TurnSaveAsks, TurnExpire, TurnRead, TurnGame, TurnSave, Zenon
     DEF Serve
<1> QED  BY <1>t, <1>1, <1>2, <1>3, Steps

LEMMA TurnAlways == Spec => []TurnInv
<1>1. TurnInv /\ [Next]_vars => TurnInv'
  BY TurnNext
<1> QED  BY TurnInit, <1>1, PTL DEF Spec

\* However stale the copies that were saved, a session's match exists only because
\* both of its players confirmed; served in turn, there is one at most.
THEOREM MatchesAreAgreed == Spec => []GamesAreAgreed
<1>1. TurnInv => GamesAreAgreed
  BY DEF TurnInv, AgreedInv, GamesAgreed, InSequence, UniqueGames, GamesAreAgreed
<1> QED  BY <1>1, TurnAlways, PTL

\* Served in turn, every session has used up one request of each of its players.
THEOREM SessionsUseRequests == Spec => []OneSessionPerRequest
<1>1. TurnInv => OneSessionPerRequest
  <2> SUFFICES ASSUME TurnInv, Orderly, Quiet PROVE OneSessionPerRequest
    BY DEF OneSessionPerRequest
  <2>1. \A s \in DOMAIN sessions : sessions[s].a # sessions[s].b
    BY DEF TurnInv, AgreedInv, SessionsAgreed
  <2>2. ASSUME NEW u \in Users PROVE Cardinality(SessionsOf(u)) = Cardinality(MatchedOf(u))
    <3>1. Cardinality(SessionsOf(u)) = Cardinality(MatchedOf(u)) + Owed("idle", NoWork, u)
      BY DEF TurnInv, InSequence, Right, CountedRight
    <3>2. Cardinality(MatchedOf(u)) \in Nat
      BY FiniteTables DEF TurnInv, AgreedInv
    <3> QED  BY <3>1, <3>2 DEF Owed
  <2> QED  BY <2>1, <2>2 DEF OneSessionPerRequest, SessionsOf, MatchedOf
<1> QED  BY <1>1, TurnAlways, PTL

-----------------------------------------------------------------------------
(* Tournaments: sums over the chip ledger *)

Money == INSTANCE RocMoney_proofs

LEMMA FiniteIsFinite == \A S : IsFiniteSet(S) <=> Money!IsFiniteSet(S)
BY DEF IsFiniteSet, Money!IsFiniteSet

\* The amounts of a ledger, and its lines with somebody on one side.
AmountsOf(ledger) == [i \in DOMAIN ledger |-> ledger[i].amount]
WinsIn(ledger, p) == {i \in DOMAIN ledger : ledger[i].winner = p}
LossesIn(ledger, p) == {i \in DOMAIN ledger : ledger[i].loser = p}

IsAmountFunction(ledger, S, g) ==
  g = [s \in SUBSET S |-> IF s = {} THEN 0
                          ELSE ledger[Money!FirstOf(s)].amount + g[s \ {Money!FirstOf(s)}]]
AmountIn(ledger, S) == (CHOOSE g : IsAmountFunction(ledger, S, g))[S]

LEMMA WonIsFunction == ASSUME NEW copy, NEW p PROVE Won(copy, p) = AmountIn(copy.ledger, WinsIn(copy.ledger, p))
BY DEF Won, MapThenSumSet, MapThenFoldSet, AmountIn, IsAmountFunction, Money!FirstOf, WinsIn

LEMMA GoneIsFunction == ASSUME NEW copy, NEW p PROVE Gone(copy, p) = AmountIn(copy.ledger, LossesIn(copy.ledger, p))
BY DEF Gone, MapThenSumSet, MapThenFoldSet, AmountIn, IsAmountFunction, Money!FirstOf, LossesIn

\* What some lines of a ledger come to is a sum over them.
LEMMA AmountIsSum ==
  ASSUME NEW ledger, NEW S \in SUBSET DOMAIN ledger, IsFiniteSet(S)
  PROVE  AmountIn(ledger, S) = Money!SumOver(AmountsOf(ledger), S)
<1>1. ASSUME NEW g PROVE IsAmountFunction(ledger, S, g) <=> Money!IsSumFunction(AmountsOf(ledger), S, g)
  <2>1. \A s \in SUBSET S : s # {} => AmountsOf(ledger)[Money!FirstOf(s)] = ledger[Money!FirstOf(s)].amount
    BY Money!FirstOfIn DEF AmountsOf
  <2> QED  BY <2>1 DEF IsAmountFunction, Money!IsSumFunction
<1> DEFINE F == [s \in SUBSET S |-> Money!SumOver(AmountsOf(ledger), s)]
<1>2. Money!IsSumFunction(AmountsOf(ledger), S, F)
  <2>1. \A s \in SUBSET S : Money!SumAsRead(AmountsOf(ledger), s)
    BY Money!SumStep, FS_Subset, FiniteIsFinite
  <2>2. \A s \in SUBSET S : s # {} =>
          F[s \ {Money!FirstOf(s)}] = Money!SumOver(AmountsOf(ledger), s \ {Money!FirstOf(s)})
    OBVIOUS
  <2> QED  BY <2>1, <2>2 DEF Money!IsSumFunction, Money!SumAsRead
<1>3. F[S] = Money!SumOver(AmountsOf(ledger), S)
  OBVIOUS
<1> HIDE DEF F
<1>4. IsAmountFunction(ledger, S, CHOOSE g : IsAmountFunction(ledger, S, g))
  BY <1>1, <1>2
<1> DEFINE G == CHOOSE g : IsAmountFunction(ledger, S, g)
<1>5. IsAmountFunction(ledger, S, G) /\ AmountIn(ledger, S) = G[S]
  BY <1>4 DEF AmountIn
<1> HIDE DEF G
<1>6. Money!IsSumFunction(AmountsOf(ledger), S, G)
  BY <1>1, <1>5
<1> QED  BY <1>2, <1>3, <1>5, <1>6, Money!SumFunctionUnique, FiniteIsFinite

\* A ledger of some players.
Line(S) == [winner : S, loser : S, amount : Nat]

LEMMA LinesAreFinite ==
  ASSUME NEW S, NEW ledger \in Seq(Line(S)), NEW T \in SUBSET DOMAIN ledger
  PROVE  IsFiniteSet(T) /\ AmountsOf(ledger) \in [DOMAIN ledger -> Nat]
<1>1. DOMAIN ledger = 1 .. Len(ledger) /\ Len(ledger) \in Nat
  OBVIOUS
<1>2. IsFiniteSet(1 .. Len(ledger))
  BY <1>1, FS_Interval
<1>3. IsFiniteSet(T)
  BY <1>1, <1>2, FS_Subset
<1>4. \A i \in DOMAIN ledger : ledger[i] \in Line(S)
  OBVIOUS
<1> QED  BY <1>3, <1>4 DEF AmountsOf, Line

LEMMA AmountNat ==
  ASSUME NEW S, NEW ledger \in Seq(Line(S)), NEW T \in SUBSET DOMAIN ledger
  PROVE  AmountIn(ledger, T) \in Nat
<1>1. IsFiniteSet(T) /\ AmountsOf(ledger) \in [DOMAIN ledger -> Nat]
  BY LinesAreFinite
<1>2. Money!SumOver(AmountsOf(ledger), T) \in Nat
  BY <1>1, Money!SumNat, FiniteIsFinite
<1> QED  BY <1>1, <1>2, AmountIsSum

\* A line that is added counts on its own side only.
LEMMA AmountGrows ==
  ASSUME NEW S, NEW ledger \in Seq(Line(S)), NEW line \in Line(S),
         NEW T \in SUBSET DOMAIN ledger, NEW counts \in BOOLEAN
  PROVE  AmountIn(Append(ledger, line), T \cup (IF counts THEN {Len(ledger) + 1} ELSE {}))
           = AmountIn(ledger, T) + (IF counts THEN line.amount ELSE 0)
<1> DEFINE n == Len(ledger) + 1
           l == Append(ledger, line)
           U == T \cup (IF counts THEN {n} ELSE {})
<1>1. /\ l \in Seq(Line(S)) /\ DOMAIN l = 1 .. n /\ DOMAIN ledger = 1 .. (n - 1)
      /\ \A j \in DOMAIN ledger : l[j] = ledger[j]
      /\ l[n] = line /\ n \in Nat \ {0}
  BY InsertedRow
<1> HIDE DEF l, n
<1>2. T \in SUBSET DOMAIN l /\ U \in SUBSET DOMAIN l /\ n \notin T
  BY <1>1
<1>3. /\ IsFiniteSet(T) /\ IsFiniteSet(U)
      /\ AmountsOf(l) \in [DOMAIN l -> Nat]
  BY <1>1, <1>2, LinesAreFinite
<1>4. Money!SumOver(AmountsOf(l), T) = Money!SumOver(AmountsOf(ledger), T)
  <2>1. \A j \in T : AmountsOf(l)[j] = AmountsOf(ledger)[j]
    BY <1>1, <1>2 DEF AmountsOf
  <2> HIDE DEF U
  <2> QED  BY <1>3, <2>1, Money!SumSame, FiniteIsFinite
<1>5. AmountIn(l, T) = AmountIn(ledger, T) /\ AmountIn(ledger, T) \in Nat
  BY <1>2, <1>3, <1>4, AmountIsSum, AmountNat
<1>6. CASE ~counts
  BY <1>5, <1>6 DEF l, n
<1>7. CASE counts
  <2>1. n \in U /\ U \ {n} = T
    BY <1>2, <1>7
  <2>2. AmountsOf(l) \in [DOMAIN l -> Int]
    BY <1>3
  <2>3. AmountsOf(l)[n] = line.amount /\ line.amount \in Nat
    BY <1>1 DEF AmountsOf, Line
  <2> HIDE DEF U
  <2>4. Money!SumOver(AmountsOf(l), U) = AmountsOf(l)[n] + Money!SumOver(AmountsOf(l), U \ {n})
    BY <1>2, <1>3, <2>1, <2>2, Money!SumOut, FiniteIsFinite
  <2>5. AmountIn(l, U) = line.amount + AmountIn(l, T)
    BY <1>2, <1>3, <2>1, <2>3, <2>4, AmountIsSum
  <2> QED  BY <1>5, <1>7, <2>3, <2>5 DEF l, n, U
<1> QED  BY <1>6, <1>7

-----------------------------------------------------------------------------
(* Tournaments: chips are neither made nor lost *)

RowFields == {"status", "entrants", "stacks", "meta", "ledger", "champion"}

\* A row, or a copy of it, whose stacks follow its ledger; every line of the ledger
\* names players who have a stack, and whoever was dealt one has it.
SoundRow(copy) ==
  /\ copy = [f \in RowFields |-> copy[f]]
  /\ copy.entrants \in Seq(Players)
  /\ copy.stacks \in [DOMAIN copy.stacks -> Nat]
  /\ copy.meta \subseteq Players \cap DOMAIN copy.stacks
  /\ copy.ledger \in Seq(Line(DOMAIN copy.stacks))
  /\ FollowsLedger(copy)

\* Another row of the same chips is as sound.
LEMMA SameChips ==
  ASSUME NEW copy, NEW new, SoundRow(copy),
         new = [f \in RowFields |-> new[f]], new.entrants \in Seq(Players),
         new.stacks = copy.stacks, new.meta = copy.meta, new.ledger = copy.ledger
  PROVE  SoundRow(new)
<1>1. \A p : Won(new, p) = Won(copy, p) /\ Gone(new, p) = Gone(copy, p)
  BY WonIsFunction, GoneIsFunction
<1>2. FollowsLedger(new)
  BY <1>1 DEF SoundRow, FollowsLedger
<1> QED  BY <1>2 DEF SoundRow

LEMMA EmptyRowIsSound == SoundRow(EmptyRow)
<1> DEFINE e == EmptyRow
<1>1. e = [f \in RowFields |-> e[f]]
  BY DEF EmptyRow, RowFields
<1>2. /\ e.entrants = <<>> /\ e.stacks = [p \in {} |-> 0] /\ e.meta = {} /\ e.ledger = <<>>
  BY DEF EmptyRow
<1>3. DOMAIN e.stacks = {}
  BY <1>2
<1> HIDE DEF e
<1>4. FollowsLedger(e)
  BY <1>3 DEF FollowsLedger
<1>5. e.stacks \in [DOMAIN e.stacks -> Nat] /\ e.entrants \in Seq(Players)
  BY <1>2, <1>3
<1>6. e.ledger \in Seq(Line(DOMAIN e.stacks))
  BY <1>2
<1>7. SoundRow(e)
  BY <1>1, <1>2, <1>4, <1>5, <1>6 DEF SoundRow
<1> QED  BY <1>7 DEF e

\* Who has no stack is in no line.
LEMMA StrangersMoveNothing ==
  ASSUME NEW copy, SoundRow(copy), NEW p, p \notin DOMAIN copy.stacks
  PROVE  Won(copy, p) = 0 /\ Gone(copy, p) = 0
<1>1. \A i \in DOMAIN copy.ledger : copy.ledger[i] \in Line(DOMAIN copy.stacks)
  BY DEF SoundRow
<1>2. \A i \in DOMAIN copy.ledger : copy.ledger[i].winner # p /\ copy.ledger[i].loser # p
  BY <1>1 DEF Line
<1>3. WinsIn(copy.ledger, p) = {} /\ LossesIn(copy.ledger, p) = {}
  BY <1>2 DEF WinsIn, LossesIn
<1>4. AmountIn(copy.ledger, {}) = 0
  BY AmountIsSum, Money!SumEmpty, FS_EmptySet
<1> QED  BY <1>3, <1>4, WonIsFunction, GoneIsFunction

\* Stacks that are dealt are noted, and nothing was won with them yet.
LEMMA DealingIsSound ==
  ASSUME NEW copy, SoundRow(copy), NEW players \in SUBSET Players
  PROVE  SoundRow(WithChips(copy, players))
<1> DEFINE new == NewStacks(copy, players)
           dealt == Dealt(copy, players)
<1>1. CASE ~event.chips
  BY <1>1 DEF WithChips
<1>2. CASE event.chips
  <2>1. /\ dealt = [f \in RowFields |-> dealt[f]]
        /\ dealt.entrants = copy.entrants /\ dealt.ledger = copy.ledger
        /\ dealt.meta = copy.meta \cup new
        /\ dealt.stacks = [p \in DOMAIN copy.stacks \cup players |->
                             IF p \in new THEN StackOf[p] ELSE copy.stacks[p]]
    BY DEF SoundRow, Dealt, RowFields
  <2>2. new \subseteq Players /\ new \cap DOMAIN copy.stacks = {} /\ new \subseteq players
        /\ \A p \in players : p \in new \/ p \in DOMAIN copy.stacks
    BY DEF NewStacks
  <2> HIDE DEF new, dealt
  <2>3. DOMAIN dealt.stacks = DOMAIN copy.stacks \cup players
    BY <2>1
  <2>4. dealt.stacks \in [DOMAIN dealt.stacks -> Nat]
    <3>1. ASSUME NEW p \in DOMAIN copy.stacks \cup players
          PROVE  (IF p \in new THEN StackOf[p] ELSE copy.stacks[p]) \in Nat
      <4>1. p \in new => StackOf[p] \in Nat
        BY <2>2, TournamentAssumption
      <4>2. p \in DOMAIN copy.stacks => copy.stacks[p] \in Nat
        BY DEF SoundRow
      <4> QED  BY <2>2, <4>1, <4>2
    <3> QED  BY <2>1, <2>3, <3>1
  <2>5. dealt.ledger \in Seq(Line(DOMAIN dealt.stacks))
    <3>1. Line(DOMAIN copy.stacks) \subseteq Line(DOMAIN dealt.stacks)
      BY <2>3 DEF Line
    <3>2. \A i \in DOMAIN copy.ledger : copy.ledger[i] \in Line(DOMAIN copy.stacks)
      BY DEF SoundRow
    <3>3. copy.ledger \in Seq(Line(DOMAIN copy.stacks))
      BY DEF SoundRow
    <3>4. copy.ledger \in Seq(Line(DOMAIN dealt.stacks))
      BY <3>1, <3>2, <3>3, TableOf
    <3> QED  BY <2>1, <3>4
  <2>6. \A p : Won(dealt, p) = Won(copy, p) /\ Gone(dealt, p) = Gone(copy, p)
    BY <2>1, WonIsFunction, GoneIsFunction
  <2>7. ASSUME NEW p \in new PROVE Won(copy, p) = 0 /\ Gone(copy, p) = 0
    BY <2>2, StrangersMoveNothing
  <2>8. FollowsLedger(dealt)
    <3> SUFFICES ASSUME NEW p \in DOMAIN dealt.stacks
                 PROVE  dealt.stacks[p] + Gone(dealt, p)
                          = (IF p \in dealt.meta THEN StackOf[p] ELSE 0) + Won(dealt, p)
      BY DEF FollowsLedger
    <3>1. CASE p \in new
      <4>1. StackOf[p] \in Nat
        BY <2>2, <3>1, TournamentAssumption
      <4> QED  BY <2>1, <2>6, <2>7, <3>1, <4>1, <2>3
    <3>2. CASE p \notin new
      <4>1. p \in DOMAIN copy.stacks
        BY <2>2, <2>3, <3>2
      <4>2. dealt.stacks[p] = copy.stacks[p] /\ (p \in dealt.meta <=> p \in copy.meta)
        BY <2>1, <2>3, <3>2
      <4> QED  BY <2>6, <4>1, <4>2 DEF SoundRow, FollowsLedger
    <3> QED  BY <3>1, <3>2
  <2>9. dealt.meta \subseteq Players \cap DOMAIN dealt.stacks
    BY <2>1, <2>2, <2>3 DEF SoundRow
  <2>10. SoundRow(dealt)
    BY <2>1, <2>4, <2>5, <2>8, <2>9 DEF SoundRow
  <2> QED  BY <1>2, <2>10 DEF WithChips, dealt
<1> QED  BY <1>1, <1>2

HadIn(stacks, q) == IF q \in DOMAIN stacks THEN stacks[q] ELSE 0

\* What a match moves from the loser to the winner: no more than the loser has.
LEMMA MovedAmount ==
  ASSUME NEW copy, SoundRow(copy), NEW loser
  PROVE  LET n == ChipTransferAmount(Stack(copy, loser))
         IN  n \in Nat /\ n <= HadIn(copy.stacks, loser)
<1>1. Stack(copy, loser) = IF loser \in DOMAIN copy.stacks THEN copy.stacks[loser] ELSE 0
  BY DEF Stack
<1>2. Stack(copy, loser) \in Nat
  BY <1>1 DEF SoundRow
<1> QED  BY <1>1, <1>2, TournamentAssumption DEF ChipTransferAmount, HadIn

MovedIn(stacks, winner, loser, n) == Minus(Plus(stacks, winner, n), loser, n)

\* n chips change hands and nothing else changes.
Moves(stacks, winner, loser, n) ==
  LET s == MovedIn(stacks, winner, loser, n)
  IN  /\ DOMAIN s = DOMAIN stacks \cup {winner, loser}
      /\ s \in [DOMAIN s -> Nat]
      /\ \A q \in DOMAIN s :
           s[q] + (IF q = loser THEN n ELSE 0) = HadIn(stacks, q) + (IF q = winner THEN n ELSE 0)

\* The stacks of a transfer, which may name the same player on both sides.
LEMMA MovedStacks ==
  ASSUME NEW S, NEW stacks \in [S -> Nat], NEW winner, NEW loser, NEW n \in Nat,
         n <= HadIn(stacks, loser)
  PROVE  Moves(stacks, winner, loser, n)
<1> DEFINE had(q) == IF q \in DOMAIN stacks THEN stacks[q] ELSE 0
           more == Plus(stacks, winner, n)
           s == Minus(more, loser, n)
<1>1. /\ DOMAIN more = DOMAIN stacks \cup {winner}
      /\ \A q \in DOMAIN more : more[q] = IF q # winner THEN stacks[q] ELSE n + had(winner)
  BY DEF Plus
<1>2. \A q \in DOMAIN stacks : stacks[q] \in Nat
  OBVIOUS
<1>3. \A q : had(q) \in Nat
  BY <1>2
<1>4. had(loser) >= n
  BY <1>3 DEF HadIn
<1>5. \A q \in DOMAIN more : more[q] = had(q) + (IF q = winner THEN n ELSE 0)
  BY <1>1, <1>3
<1> HIDE DEF had, more
<1>6. /\ DOMAIN s = DOMAIN more \cup {loser}
      /\ \A q \in DOMAIN s : s[q] = IF q # loser THEN more[q]
                                    ELSE IF loser \in DOMAIN more /\ more[loser] > n THEN more[loser] - n ELSE 0
  BY DEF Minus
<1> HIDE DEF s
<1>7. ASSUME NEW q \in DOMAIN s
      PROVE  s[q] \in Nat /\ s[q] + (IF q = loser THEN n ELSE 0) = had(q) + (IF q = winner THEN n ELSE 0)
  <2>1. CASE q # loser
    BY <1>3, <1>5, <1>6, <2>1
  <2>2. CASE q = loser /\ loser \in DOMAIN more
    <3>1. more[loser] = had(loser) + (IF loser = winner THEN n ELSE 0)
      BY <1>5, <2>2
    <3>2. s[q] = IF more[loser] > n THEN more[loser] - n ELSE 0
      BY <1>6, <2>2
    <3> QED  BY <1>3, <1>4, <2>2, <3>1, <3>2
  <2>3. CASE q = loser /\ loser \notin DOMAIN more
    <3>1. had(loser) = 0 /\ loser # winner
      BY <1>1, <2>3 DEF had
    <3> QED  BY <1>3, <1>4, <1>6, <2>3, <3>1
  <2> QED  BY <2>1, <2>2, <2>3
<1>8. s \in [DOMAIN s -> Nat]
  <2>1. s = [q \in DOMAIN s |-> s[q]]
    BY DEF s, Minus
  <2> QED  BY <1>7, <2>1
<1>9. DOMAIN s = DOMAIN stacks \cup {winner, loser}
  BY <1>1, <1>6
<1> QED  BY <1>7, <1>8, <1>9 DEF had, more, s, HadIn, MovedIn, Moves

\* A transfer is a line of the ledger and moves what the line says.
LEMMA TransferIsSound ==
  ASSUME NEW copy, SoundRow(copy), NEW match
  PROVE  SoundRow(Transferred(copy, match))
<1> DEFINE winner == match.winner
           loser == IF match.winner = match.a THEN match.b ELSE match.a
           n == ChipTransferAmount(Stack(copy, loser))
           line == [winner |-> winner, loser |-> loser, amount |-> n]
           s == MovedIn(copy.stacks, winner, loser, n)
           new == [copy EXCEPT !.stacks = s, !.ledger = Append(@, line)]
           had(q) == HadIn(copy.stacks, q)
<1>1. Transferred(copy, match) = IF winner = Nobody \/ loser = Nobody THEN copy ELSE new
  BY DEF Transferred, MovedIn
<1>2. n \in Nat /\ n <= HadIn(copy.stacks, loser)
  BY MovedAmount
<1>3. /\ new = [f \in RowFields |-> new[f]]
      /\ new.entrants = copy.entrants /\ new.meta = copy.meta
      /\ new.stacks = s /\ new.ledger = Append(copy.ledger, line)
  BY DEF SoundRow, RowFields
<1>4. line.winner = winner /\ line.loser = loser /\ line.amount = n
  OBVIOUS
<1>5. line \in [winner : {winner}, loser : {loser}, amount : {n}]
  OBVIOUS
<1> HIDE DEF n, new, line
<1>6. /\ DOMAIN s = DOMAIN copy.stacks \cup {winner, loser}
      /\ s \in [DOMAIN s -> Nat]
      /\ \A q \in DOMAIN s : s[q] + (IF q = loser THEN n ELSE 0) = had(q) + (IF q = winner THEN n ELSE 0)
  <2>1. copy.stacks \in [DOMAIN copy.stacks -> Nat]
    BY DEF SoundRow
  <2> HIDE DEF winner, loser, s, had
  <2>2. Moves(copy.stacks, winner, loser, n)
    BY <1>2, <2>1, MovedStacks
  <2> QED  BY <2>2 DEF s, had, Moves
<1> HIDE DEF s, loser, winner
<1>7. line \in Line(DOMAIN s) /\ copy.ledger \in Seq(Line(DOMAIN s))
  <2>1. line \in Line(DOMAIN s)
    BY <1>2, <1>5, <1>6 DEF Line
  <2>2. Line(DOMAIN copy.stacks) \subseteq Line(DOMAIN s)
    BY <1>6 DEF Line
  <2>3. copy.ledger \in Seq(Line(DOMAIN copy.stacks))
    BY DEF SoundRow
  <2>4. \A i \in DOMAIN copy.ledger : copy.ledger[i] \in Line(DOMAIN s)
    BY <2>2, <2>3
  <2> QED  BY <2>1, <2>3, <2>4, TableOf
<1>8. /\ new.ledger \in Seq(Line(DOMAIN s)) /\ Len(copy.ledger) \in Nat
      /\ DOMAIN copy.ledger = 1 .. Len(copy.ledger) /\ DOMAIN new.ledger = 1 .. (Len(copy.ledger) + 1)
      /\ \A j \in DOMAIN copy.ledger : new.ledger[j] = copy.ledger[j]
      /\ new.ledger[Len(copy.ledger) + 1] = line
  <2> DEFINE S == Line(DOMAIN s)
  <2>1. line \in S /\ copy.ledger \in Seq(S)
    BY <1>7
  <2> HIDE DEF S
  <2>2. /\ Append(copy.ledger, line) \in Seq(S) /\ Len(copy.ledger) \in Nat
        /\ DOMAIN copy.ledger = 1 .. Len(copy.ledger)
        /\ DOMAIN Append(copy.ledger, line) = 1 .. (Len(copy.ledger) + 1)
        /\ \A j \in DOMAIN copy.ledger : Append(copy.ledger, line)[j] = copy.ledger[j]
        /\ Append(copy.ledger, line)[Len(copy.ledger) + 1] = line
    BY <2>1, InsertedRow
  <2> QED  BY <1>3, <2>2 DEF S
<1>9. ASSUME NEW p
      PROVE  /\ Won(new, p) = Won(copy, p) + (IF p = winner THEN n ELSE 0)
             /\ Gone(new, p) = Gone(copy, p) + (IF p = loser THEN n ELSE 0)
             /\ Won(copy, p) \in Nat /\ Gone(copy, p) \in Nat
  <2>1. /\ WinsIn(new.ledger, p) = WinsIn(copy.ledger, p)
                                     \cup (IF p = winner THEN {Len(copy.ledger) + 1} ELSE {})
        /\ LossesIn(new.ledger, p) = LossesIn(copy.ledger, p)
                                     \cup (IF p = loser THEN {Len(copy.ledger) + 1} ELSE {})
    BY <1>4, <1>8 DEF WinsIn, LossesIn
  <2>2. WinsIn(copy.ledger, p) \in SUBSET DOMAIN copy.ledger /\ LossesIn(copy.ledger, p) \in SUBSET DOMAIN copy.ledger
    BY DEF WinsIn, LossesIn
  <2>3. (p = winner) \in BOOLEAN /\ (p = loser) \in BOOLEAN
    OBVIOUS
  <2>4. AmountIn(new.ledger, WinsIn(new.ledger, p))
          = AmountIn(copy.ledger, WinsIn(copy.ledger, p)) + (IF p = winner THEN n ELSE 0)
    <3> DEFINE T == WinsIn(copy.ledger, p)
               counts == p = winner
    <3>1. line \in Line(DOMAIN s) /\ copy.ledger \in Seq(Line(DOMAIN s)) /\ T \in SUBSET DOMAIN copy.ledger /\ counts \in BOOLEAN
      BY <1>7, <2>2
    <3> HIDE DEF T, counts
    <3>2. AmountIn(Append(copy.ledger, line), T \cup (IF counts THEN {Len(copy.ledger) + 1} ELSE {}))
            = AmountIn(copy.ledger, T) + (IF counts THEN line.amount ELSE 0)
      BY <3>1, AmountGrows
    <3> QED  BY <1>3, <1>4, <2>1, <3>2 DEF T, counts
  <2>5. AmountIn(new.ledger, LossesIn(new.ledger, p))
          = AmountIn(copy.ledger, LossesIn(copy.ledger, p)) + (IF p = loser THEN n ELSE 0)
    <3> DEFINE T == LossesIn(copy.ledger, p)
               counts == p = loser
    <3>1. line \in Line(DOMAIN s) /\ copy.ledger \in Seq(Line(DOMAIN s)) /\ T \in SUBSET DOMAIN copy.ledger /\ counts \in BOOLEAN
      BY <1>7, <2>2
    <3> HIDE DEF T, counts
    <3>2. AmountIn(Append(copy.ledger, line), T \cup (IF counts THEN {Len(copy.ledger) + 1} ELSE {}))
            = AmountIn(copy.ledger, T) + (IF counts THEN line.amount ELSE 0)
      BY <3>1, AmountGrows
    <3> QED  BY <1>3, <1>4, <2>1, <3>2 DEF T, counts
  <2>6. AmountIn(copy.ledger, WinsIn(copy.ledger, p)) \in Nat /\ AmountIn(copy.ledger, LossesIn(copy.ledger, p)) \in Nat
    BY <1>7, <2>2, AmountNat
  <2> QED  BY <2>4, <2>5, <2>6, WonIsFunction, GoneIsFunction
<1>10. ASSUME NEW p, p \notin DOMAIN copy.stacks
       PROVE  Won(copy, p) = 0 /\ Gone(copy, p) = 0
  BY <1>10, StrangersMoveNothing
<1>11. FollowsLedger(new)
  <2> SUFFICES ASSUME NEW p \in DOMAIN s
               PROVE  s[p] + Gone(new, p)
                        = (IF p \in copy.meta THEN StackOf[p] ELSE 0) + Won(new, p)
    BY <1>3 DEF FollowsLedger
  <2> DEFINE dealt == IF p \in copy.meta THEN StackOf[p] ELSE 0
  <2>1. dealt \in Nat
    BY TournamentAssumption DEF SoundRow
  <2>2. had(p) \in Nat /\ s[p] \in Nat
    BY <1>6 DEF SoundRow, HadIn
  <2>3. had(p) + Gone(copy, p) = dealt + Won(copy, p)
    <3>1. CASE p \in DOMAIN copy.stacks
      BY <3>1 DEF SoundRow, FollowsLedger, HadIn
    <3>2. CASE p \notin DOMAIN copy.stacks
      <4>1. p \notin copy.meta
        BY <3>2 DEF SoundRow
      <4> QED  BY <1>10, <3>2, <4>1 DEF HadIn
    <3> QED  BY <3>1, <3>2
  <2>4. s[p] + (IF p = loser THEN n ELSE 0) = had(p) + (IF p = winner THEN n ELSE 0)
    BY <1>6
  <2> HIDE DEF dealt, had
  <2>5. s[p] + Gone(new, p) = dealt + Won(new, p)
    BY <1>2, <1>9, <2>1, <2>2, <2>3, <2>4
  <2> QED  BY <2>5 DEF dealt
<1>12. new.stacks \in [DOMAIN new.stacks -> Nat] /\ new.meta \subseteq Players \cap DOMAIN new.stacks
  BY <1>3, <1>6 DEF SoundRow
<1>13. new.entrants \in Seq(Players)
  BY <1>3 DEF SoundRow
<1>14. SoundRow(new)
  BY <1>3, <1>8, <1>11, <1>12, <1>13 DEF SoundRow
<1> QED  BY <1>1, <1>14

\* Requests that hold a copy of the row to save.
Carries(step, work) ==
  /\ step \in {"saveEntrant", "clear", "saveOrder", "generate", "activate", "saveResult", "readFinal",
               "saveFinal", "transfer", "saveChampion"} => SoundRow(work.copy)
  /\ step = "saveFinal" => SoundRow(work.final)

Serving == pc = [w \in Workers |-> pc[w]] /\ my = [w \in Workers |-> my[w]]

ChipsInv == Serving /\ SoundRow(row) /\ \A w \in Workers : Carries(pc[w], my[w])

LEMMA TourAwaits ==
  ASSUME Serving, NEW w \in Workers, NEW step, NEW work, Await(w, step, work)
  PROVE  Moved(w, step, work) /\ Serving'
BY DEF Serving, Await, Goto, Hold, Moved, Alone

LEMMA TourGoesOn ==
  ASSUME Serving, NEW w \in Workers, NEW step, Then(w, step)
  PROVE  Moved(w, step, my[w]) /\ Serving'
BY DEF Serving, Then, Goto, Moved, Alone

LEMMA TourAnswers ==
  ASSUME Serving, NEW w \in Workers, Answer(w)
  PROVE  Moved(w, "idle", my'[w]) /\ Serving'
BY TourAwaits DEF Answer, Moved

\* A step that saves a sound row and holds a sound copy leaves everything sound.
LEMMA ChipsStep ==
  ASSUME ChipsInv, NEW w \in Workers, NEW step, NEW work, Moved(w, step, work), Serving',
         SoundRow(row'), Carries(step, work)
  PROVE  ChipsInv'
<1>1. \A v \in Workers : Carries(pc'[v], my'[v])
  BY DEF ChipsInv, Moved, Alone
<1> QED  BY <1>1 DEF ChipsInv

LEMMA EntrantIsSound ==
  ASSUME NEW copy, SoundRow(copy), NEW p \in Players
  PROVE  SoundRow(WithChips([copy EXCEPT !.entrants = Append(@, p)], {p}))
<1> DEFINE new == [copy EXCEPT !.entrants = Append(@, p)]
<1>1. /\ new = [f \in RowFields |-> new[f]] /\ new.entrants = Append(copy.entrants, p)
      /\ new.stacks = copy.stacks /\ new.meta = copy.meta /\ new.ledger = copy.ledger
  BY DEF SoundRow, RowFields
<1>2. Append(copy.entrants, p) \in Seq(Players)
  BY DEF SoundRow
<1> HIDE DEF new
<1>3. SoundRow(new)
  BY <1>1, <1>2, SameChips
<1>4. SoundRow(WithChips(new, {p}))
  BY <1>3, DealingIsSound
<1> QED  BY <1>4 DEF new

LEMMA StatusIsSound ==
  ASSUME NEW copy, SoundRow(copy), NEW x, NEW champion
  PROVE  /\ SoundRow([copy EXCEPT !.status = x])
         /\ SoundRow(Completed(copy, champion))
<1> DEFINE a == [copy EXCEPT !.status = x]
           b == Completed(copy, champion)
<1>1. /\ a = [f \in RowFields |-> a[f]] /\ a.entrants = copy.entrants
      /\ a.stacks = copy.stacks /\ a.meta = copy.meta /\ a.ledger = copy.ledger
  BY DEF SoundRow, RowFields
<1>2. /\ b = [f \in RowFields |-> b[f]] /\ b.entrants = copy.entrants
      /\ b.stacks = copy.stacks /\ b.meta = copy.meta /\ b.ledger = copy.ledger
  BY DEF SoundRow, RowFields, Completed
<1>3. copy.entrants \in Seq(Players)
  BY DEF SoundRow
<1> HIDE DEF a, b
<1>4. SoundRow(a)
  BY <1>1, <1>3, SameChips
<1>5. SoundRow(b)
  BY <1>2, <1>3, SameChips
<1> QED  BY <1>4, <1>5 DEF a, b

\* Registration and the start.
LEMMA ChipsOfEntrants ==
  ASSUME ChipsInv, NEW w \in Workers,
         \/ \E p \in Players : Register(w, p)
         \/ SaveEntrant(w) \/ Start(w) \/ Reseed(w) \/ Clear(w)
         \/ SaveOrder(w) \/ Generate(w) \/ Activate(w)
  PROVE  ChipsInv'
<1>0. Serving /\ SoundRow(row) /\ Carries(pc[w], my[w])
  BY DEF ChipsInv
<1>1. ASSUME NEW p \in Players, Register(w, p) PROVE ChipsInv'
  <2> DEFINE work == [copy |-> WithChips([row EXCEPT !.entrants = Append(@, p)], {p}), player |-> p]
  <2>1. Await(w, "saveEntrant", work) /\ row' = row
    BY <1>1 DEF Register
  <2>2. SoundRow(work.copy)
    BY <1>0, EntrantIsSound
  <2> HIDE DEF work
  <2>3. Carries("saveEntrant", work)
    BY <2>2 DEF Carries
  <2> QED  BY <1>0, <2>1, <2>3, TourAwaits, ChipsStep
<1>2. CASE SaveEntrant(w)
  <2>1. pc[w] = "saveEntrant" /\ row' = my[w].copy /\ Answer(w)
    BY <1>2 DEF SaveEntrant, At
  <2>2. SoundRow(row')
    BY <1>0, <2>1 DEF Carries
  <2> QED  BY <1>0, <2>1, <2>2, TourAnswers, ChipsStep DEF Carries
<1>3. CASE Start(w)
  <2> DEFINE work == [copy |-> WithChips(row, Entrants(row)), started |-> TRUE]
  <2>1. Await(w, "clear", work) /\ row' = row
    BY <1>3 DEF Start
  <2>2. Entrants(row) \in SUBSET Players
    BY <1>0 DEF SoundRow, Entrants, ToSet
  <2>3. SoundRow(work.copy)
    BY <1>0, <2>2, DealingIsSound
  <2> HIDE DEF work
  <2>4. Carries("clear", work)
    BY <2>3 DEF Carries
  <2> QED  BY <1>0, <2>1, <2>4, TourAwaits, ChipsStep
<1>4. CASE Reseed(w)
  <2> DEFINE work == [copy |-> row, started |-> FALSE]
  <2>1. Await(w, "clear", work) /\ row' = row
    BY <1>4 DEF Reseed
  <2>2. Carries("clear", work)
    BY <1>0 DEF Carries
  <2> HIDE DEF work
  <2> QED  BY <1>0, <2>1, <2>2, TourAwaits, ChipsStep
<1>5. CASE Clear(w)
  <2>1. pc[w] = "clear" /\ row' = row /\ Then(w, "saveOrder")
    BY <1>5 DEF Clear, At
  <2>2. Carries("saveOrder", my[w])
    BY <1>0, <2>1 DEF Carries
  <2> QED  BY <1>0, <2>1, <2>2, TourGoesOn, ChipsStep
<1>6. CASE SaveOrder(w)
  <2>1. pc[w] = "saveOrder" /\ row' = my[w].copy /\ Then(w, "generate")
    BY <1>6 DEF SaveOrder, At
  <2>2. Carries("generate", my[w]) /\ SoundRow(row')
    BY <1>0, <2>1 DEF Carries
  <2> QED  BY <1>0, <2>1, <2>2, TourGoesOn, ChipsStep
<1>7. CASE Generate(w)
  <2>1. pc[w] = "generate" /\ row' = row /\ Then(w, "activate")
    BY <1>7 DEF Generate, At
  <2>2. Carries("activate", my[w])
    BY <1>0, <2>1 DEF Carries
  <2> QED  BY <1>0, <2>1, <2>2, TourGoesOn, ChipsStep
<1>8. CASE Activate(w)
  <2>1. pc[w] = "activate" /\ Answer(w)
        /\ (row' = my[w].copy \/ row' = [my[w].copy EXCEPT !.status = "ACTIVE"])
    BY <1>8 DEF Activate, At
  <2>2. SoundRow(my[w].copy)
    BY <1>0, <2>1 DEF Carries
  <2>3. SoundRow(row')
    BY <2>1, <2>2, StatusIsSound
  <2> QED  BY <1>0, <2>1, <2>3, TourAnswers, ChipsStep DEF Carries
<1> QED  BY <1>1, <1>2, <1>3, <1>4, <1>5, <1>6, <1>7, <1>8

\* Results, the final and the chips.
LEMMA ChipsOfResults ==
  ASSUME ChipsInv, NEW w \in Workers,
         \/ \E match \in matches, result \in {"A", "B", "tie"} :
              Report(w, match, result) \/ Correct(w, match, result)
         \/ SaveResult(w) \/ ReadFinal(w) \/ SaveFinal(w) \/ SaveTransfer(w)
         \/ SaveChampion(w)
  PROVE  ChipsInv'
<1>0. Serving /\ SoundRow(row) /\ Carries(pc[w], my[w])
  BY DEF ChipsInv
<1>1. ASSUME NEW match \in matches, NEW result \in {"A", "B", "tie"},
             Report(w, match, result) \/ Correct(w, match, result)
      PROVE  ChipsInv'
  <2> DEFINE work == [copy |-> row, match |-> match,
                      saved |-> [match EXCEPT !.done = TRUE, !.winner = Winner(match, result)]]
  <2>1. Await(w, "saveResult", work) /\ row' = row
    BY <1>1 DEF Report, Correct, TakeResult
  <2>2. Carries("saveResult", work)
    BY <1>0 DEF Carries
  <2> HIDE DEF work
  <2> QED  BY <1>0, <2>1, <2>2, TourAwaits, ChipsStep
<1>2. CASE SaveResult(w)
  <2>1. /\ pc[w] = "saveResult" /\ row' = row
        /\ Then(w, "readFinal") \/ Then(w, "transfer") \/ Answer(w)
    BY <1>2 DEF SaveResult, At
  <2>2. Carries("readFinal", my[w]) /\ Carries("transfer", my[w]) /\ Carries("idle", my'[w])
    BY <1>0, <2>1 DEF Carries
  <2> QED  BY <1>0, <2>1, <2>2, TourGoesOn, TourAnswers, ChipsStep
<1>3. CASE ReadFinal(w)
  <2> DEFINE work == [copy |-> my[w].copy, saved |-> my[w].saved, final |-> row]
  <2>1. pc[w] = "readFinal" /\ Await(w, "saveFinal", work) /\ row' = row
    BY <1>3 DEF ReadFinal, At
  <2>2. Carries("saveFinal", work)
    BY <1>0, <2>1 DEF Carries
  <2> HIDE DEF work
  <2> QED  BY <1>0, <2>1, <2>2, TourAwaits, ChipsStep
<1>4. CASE SaveFinal(w)
  <2>1. /\ pc[w] = "saveFinal" /\ row' = Completed(my[w].final, my[w].saved.winner)
        /\ Then(w, "transfer") \/ Answer(w)
    BY <1>4 DEF SaveFinal, At
  <2>2. SoundRow(my[w].final) /\ Carries("transfer", my[w]) /\ Carries("idle", my'[w])
    BY <1>0, <2>1 DEF Carries
  <2>3. SoundRow(row')
    BY <2>1, <2>2, StatusIsSound
  <2> QED  BY <1>0, <2>1, <2>2, <2>3, TourGoesOn, TourAnswers, ChipsStep
<1>5. CASE SaveTransfer(w)
  <2> DEFINE copy == Transferred(my[w].copy, my[w].saved)
             work == [copy |-> copy]
  <2>1. /\ pc[w] = "transfer" /\ row' = copy
        /\ Await(w, "saveChampion", work) \/ Answer(w)
    BY <1>5 DEF SaveTransfer, At
  <2>2. SoundRow(copy)
    BY <1>0, <2>1, TransferIsSound DEF Carries
  <2>3. work.copy = copy
    OBVIOUS
  <2> HIDE DEF copy, work
  <2>4. Carries("saveChampion", work) /\ Carries("idle", my'[w])
    BY <2>2, <2>3 DEF Carries
  <2> QED  BY <1>0, <2>1, <2>2, <2>4, TourAwaits, TourAnswers, ChipsStep
<1>6. CASE SaveChampion(w)
  <2>1. PICK champion : /\ pc[w] = "saveChampion" /\ Answer(w)
                        /\ row' = Completed(my[w].copy, champion)
    BY <1>6 DEF SaveChampion, At
  <2>2. SoundRow(row')
    BY <1>0, <2>1, StatusIsSound DEF Carries
  <2> QED  BY <1>0, <2>1, <2>2, TourAnswers, ChipsStep DEF Carries
<1> QED  BY <1>1, <1>2, <1>3, <1>4, <1>5, <1>6

\* Rounds and swaps save matches only, and a request that is cut short nothing.
LEMMA ChipsOfMatches ==
  ASSUME ChipsInv, NEW w \in Workers,
         \/ AdvanceSwissRound(w)
         \/ \E match \in matches : \E changed \in Changed(match) : Swap(w, match, changed)
         \/ SaveSwap(w) \/ SaveRound(w)
         \/ Abort(w) /\ UNCHANGED <<row, matches>> /\ Rest
  PROVE  ChipsInv'
<1>0. Serving /\ SoundRow(row)
  BY DEF ChipsInv
<1>1. row' = row
  BY DEF AdvanceSwissRound, Swap, SaveSwap, SaveRound
<1>2. \/ \E work : Await(w, "saveRound", work)
      \/ \E work : Await(w, "saveSwap", work)
      \/ Answer(w)
  BY DEF AdvanceSwissRound, Swap, SaveSwap, SaveRound, Abort
<1>3. \A work : Carries("saveRound", work) /\ Carries("saveSwap", work) /\ Carries("idle", work)
  BY DEF Carries
<1> QED  BY <1>0, <1>1, <1>2, <1>3, TourAwaits, TourAnswers, ChipsStep

LEMMA ChipsInductive ==
  /\ TournamentInit => ChipsInv
  /\ ChipsInv /\ [TournamentNext]_tournamentVars => ChipsInv'
<1>1. ASSUME TournamentInit PROVE ChipsInv
  <2>1. SoundRow(row)
    BY <1>1, EmptyRowIsSound DEF TournamentInit
  <2>2. pc = [w \in Workers |-> "idle"] /\ my = [w \in Workers |-> NoWork]
    BY <1>1 DEF TournamentInit, ServeNothing
  <2>3. Serving /\ \A w \in Workers : pc[w] = "idle"
    BY <2>2 DEF Serving
  <2> QED  BY <2>1, <2>3 DEF ChipsInv, Carries
<1>2. ASSUME ChipsInv, TournamentNext PROVE ChipsInv'
  <2>1. PICK w \in Workers :
          \/ \E p \in Players : Register(w, p)
          \/ Start(w) \/ Reseed(w) \/ AdvanceSwissRound(w)
          \/ \E match \in matches :
               \/ \E result \in {"A", "B", "tie"} : Report(w, match, result) \/ Correct(w, match, result)
               \/ \E changed \in Changed(match) : Swap(w, match, changed)
          \/ TournamentServe(w)
          \/ Abort(w) /\ UNCHANGED <<row, matches>> /\ Rest
    BY <1>2 DEF TournamentNext
  <2>2. \/ \/ \E p \in Players : Register(w, p)
           \/ SaveEntrant(w) \/ Start(w) \/ Reseed(w) \/ Clear(w)
           \/ SaveOrder(w) \/ Generate(w) \/ Activate(w)
        \/ \/ \E match \in matches, result \in {"A", "B", "tie"} :
                Report(w, match, result) \/ Correct(w, match, result)
           \/ SaveResult(w) \/ ReadFinal(w) \/ SaveFinal(w) \/ SaveTransfer(w)
           \/ SaveChampion(w)
        \/ \/ AdvanceSwissRound(w)
           \/ \E match \in matches : \E changed \in Changed(match) : Swap(w, match, changed)
           \/ SaveSwap(w) \/ SaveRound(w)
           \/ Abort(w) /\ UNCHANGED <<row, matches>> /\ Rest
    BY <2>1 DEF TournamentServe
  <2> QED  BY <1>2, <2>2, ChipsOfEntrants, ChipsOfResults, ChipsOfMatches
<1>3. ASSUME ChipsInv, UNCHANGED tournamentVars PROVE ChipsInv'
  <2>1. pc' = pc /\ my' = my /\ row' = row
    BY <1>3 DEF tournamentVars, requestVars
  <2> QED  BY <1>3, <2>1 DEF ChipsInv, Serving
<1> QED  BY <1>1, <1>2, <1>3

\* Chips are neither made nor lost: in every tournament, however reports,
\* corrections, registrations and reseeds interleave, a player's stack is what they
\* were dealt, plus what the ledger says they won, minus what it says they lost.
THEOREM ChipsAreKept == TournamentSpec => []StacksFollowLedger
<1>1. ChipsInv => StacksFollowLedger
  BY DEF ChipsInv, SoundRow, StacksFollowLedger
<1> QED  BY <1>1, ChipsInductive, PTL DEF TournamentSpec

-----------------------------------------------------------------------------
(* Tournaments: who meets whom *)

\* A sequence has finitely many members.
LEMMA MembersFinite ==
  ASSUME NEW S, NEW s \in Seq(S)
  PROVE  /\ IsFiniteSet(ToSet(s)) /\ ToSet(s) \subseteq S
         /\ IsInjective(s) => Cardinality(ToSet(s)) = Len(s)
<1>1. DOMAIN s = 1 .. Len(s) /\ Len(s) \in Nat /\ s \in [1 .. Len(s) -> S]
  OBVIOUS
<1>2. IsFiniteSet(1 .. Len(s)) /\ Cardinality(1 .. Len(s)) = Len(s)
  BY <1>1, FS_Interval
<1>3. s \in [1 .. Len(s) -> ToSet(s)] /\ \A x \in ToSet(s) : \E i \in 1 .. Len(s) : s[i] = x
  BY <1>1 DEF ToSet
<1>4. s \in Surjection(1 .. Len(s), ToSet(s))
  BY <1>3 DEF Surjection
<1>5. /\ IsFiniteSet(ToSet(s))
      /\ Cardinality(ToSet(s)) = Cardinality(1 .. Len(s)) <=> s \in Injection(1 .. Len(s), ToSet(s))
  BY <1>2, <1>4, FS_Surjection
<1>6. IsInjective(s) => s \in Injection(1 .. Len(s), ToSet(s))
  BY <1>3 DEF Injection
<1>7. ToSet(s) \subseteq S
  BY <1>1 DEF ToSet
<1> QED  BY <1>2, <1>5, <1>6, <1>7

\* The entrants of a row, in a type of its own.
FieldOK(copy) ==
  /\ copy.entrants \in Seq(Players) /\ IsInjective(copy.entrants)
  /\ copy.stacks \in [DOMAIN copy.stacks -> Nat]
  /\ copy.status \in {"DRAFT", "ACTIVE", "COMPLETED"}

LEMMA FieldFinite ==
  ASSUME NEW copy, FieldOK(copy)
  PROVE  /\ IsFiniteSet(Entrants(copy)) /\ Entrants(copy) \subseteq Players
         /\ IsFiniteSet(Alive(copy)) /\ Alive(copy) \subseteq Entrants(copy)
         /\ \A p : Stack(copy, p) \in Nat
<1>1. IsFiniteSet(Entrants(copy)) /\ Entrants(copy) \subseteq Players
  BY MembersFinite DEF FieldOK, Entrants
<1>2. Alive(copy) \in SUBSET Entrants(copy)
  BY DEF Alive
<1>3. \A p : Stack(copy, p) \in Nat
  BY DEF FieldOK, Stack
<1> QED  BY <1>1, <1>2, <1>3, FS_Subset

\* Standings put the entrants in one order.
LEMMA WinsNat ==
  ASSUME IsFiniteSet(matches), NEW p
  PROVE  Wins(p) \in Nat
<1>1. {m \in matches : m.done /\ m.winner = p} \in SUBSET matches
  OBVIOUS
<1> QED  BY <1>1, FS_Subset, FS_CardinalityType DEF Wins

LEMMA Positions ==
  ASSUME NEW copy, FieldOK(copy), NEW p \in Entrants(copy)
  PROVE  Position(p, copy.entrants) \in Nat /\ copy.entrants[Position(p, copy.entrants)] = p
<1>1. DOMAIN copy.entrants \subseteq Nat
  BY DEF FieldOK
<1>2. \E i \in DOMAIN copy.entrants : copy.entrants[i] = p
  BY DEF Entrants, ToSet
<1> QED  BY <1>1, <1>2 DEF Position

ChipsOf(p) == IF event.chips THEN Stack(row, p) ELSE 0

LEMMA RanksIsOrder ==
  ASSUME FieldOK(row), IsFiniteSet(matches)
  PROVE  /\ \A p \in Entrants(row) : ~Ranks(p, p)
         /\ \A p, q \in Entrants(row) : p # q => Ranks(p, q) \/ Ranks(q, p)
         /\ \A p, q, r \in Entrants(row) : Ranks(p, q) /\ Ranks(q, r) => Ranks(p, r)
<1> DEFINE at(p) == Position(p, row.entrants)
<1>1. \A p : ChipsOf(p) \in Nat
  BY FieldFinite DEF ChipsOf
<1>2. \A p : Wins(p) \in Nat
  BY WinsNat
<1>3. \A p \in Entrants(row) : at(p) \in Nat /\ row.entrants[at(p)] = p
  BY Positions
<1>4. \A p, q : Ranks(p, q) <=>
        \/ ChipsOf(p) > ChipsOf(q)
        \/ ChipsOf(p) = ChipsOf(q) /\ Wins(p) > Wins(q)
        \/ ChipsOf(p) = ChipsOf(q) /\ Wins(p) = Wins(q) /\ at(p) < at(q)
  BY DEF Ranks, ChipsOf
<1> HIDE DEF at
<1>5. \A p, q \in Entrants(row) : at(p) = at(q) => p = q
  BY <1>3
<1>6. \A p \in Entrants(row) : ~Ranks(p, p)
  BY <1>1, <1>2, <1>3, <1>4
<1>7. \A p, q \in Entrants(row) : p # q => Ranks(p, q) \/ Ranks(q, p)
  BY <1>1, <1>2, <1>3, <1>4, <1>5
<1>8. \A p, q, r \in Entrants(row) : Ranks(p, q) /\ Ranks(q, r) => Ranks(p, r)
  <2> TAKE p, q, r \in Entrants(row)
  <2>1. ChipsOf(p) \in Nat /\ ChipsOf(q) \in Nat /\ ChipsOf(r) \in Nat
    BY <1>1
  <2>2. Wins(p) \in Nat /\ Wins(q) \in Nat /\ Wins(r) \in Nat /\ at(p) \in Nat /\ at(q) \in Nat /\ at(r) \in Nat
    BY <1>2, <1>3
  <2> QED  BY <1>4, <2>1, <2>2
<1> QED  BY <1>6, <1>7, <1>8

\* InOrder lists everybody once.
Order(S) == InOrder(S, Ranks)

LEMMA OrderLists ==
  ASSUME FieldOK(row), IsFiniteSet(matches), NEW S \in SUBSET Entrants(row)
  PROVE  Order(S) \in Seq(S) /\ IsInjective(Order(S)) /\ ToSet(Order(S)) = S
<1> DEFINE below(p) == {q \in S : Ranks(q, p)}
           n == Cardinality(S)
           rank == [p \in S |-> Cardinality(below(p))]
           order == [i \in 1 .. n |-> CHOOSE p \in S : Cardinality(below(p)) = i - 1]
<1>1. Order(S) = order
  BY DEF Order, InOrder
<1>2. IsFiniteSet(S) /\ n \in Nat
  BY FieldFinite, FS_Subset, FS_CardinalityType
<1>3. \A p \in S : /\ IsFiniteSet(below(p)) /\ Cardinality(below(p)) \in Nat
                   /\ Cardinality(below(p)) < n
  <2> TAKE p \in S
  <2>1. below(p) \in SUBSET S /\ p \notin below(p)
    BY RanksIsOrder
  <2>2. below(p) # S
    BY <2>1
  <2> HIDE DEF below
  <2>3. /\ IsFiniteSet(below(p)) /\ Cardinality(below(p)) <= n /\ Cardinality(below(p)) # n
        /\ Cardinality(below(p)) \in Nat
    BY <1>2, <2>1, <2>2, FS_Subset, FS_CardinalityType
  <2> HIDE DEF n
  <2> QED  BY <1>2, <2>3
<1>4. \A p, q \in S : Ranks(p, q) => Cardinality(below(p)) < Cardinality(below(q))
  <2> SUFFICES ASSUME NEW p \in S, NEW q \in S, Ranks(p, q)
               PROVE  Cardinality(below(p)) < Cardinality(below(q))
    OBVIOUS
  <2>1. below(p) \in SUBSET below(q)
    BY RanksIsOrder
  <2>2. p \in below(q) /\ p \notin below(p)
    BY RanksIsOrder
  <2> HIDE DEF below
  <2>3. Cardinality(below(p)) <= Cardinality(below(q)) /\ Cardinality(below(p)) # Cardinality(below(q))
    BY <1>3, <2>1, <2>2, FS_Subset
  <2> HIDE DEF n
  <2> QED  BY <1>3, <2>3
<1>5. \A p, q \in S : rank[p] = rank[q] => p = q
  <2> SUFFICES ASSUME NEW p \in S, NEW q \in S, p # q PROVE rank[p] # rank[q]
    OBVIOUS
  <2>1. rank[p] = Cardinality(below(p)) /\ rank[q] = Cardinality(below(q))
    OBVIOUS
  <2>2. Ranks(p, q) \/ Ranks(q, p)
    BY RanksIsOrder
  <2> HIDE DEF below, rank, n
  <2> QED  BY <1>3, <1>4, <2>1, <2>2
<1>6. rank \in [S -> 0 .. (n - 1)]
  <2> SUFFICES ASSUME NEW p \in S PROVE Cardinality(below(p)) \in 0 .. (n - 1)
    OBVIOUS
  <2> HIDE DEF below, n
  <2> QED  BY <1>2, <1>3
<1>7. rank \in Injection(S, 0 .. (n - 1))
  <2> HIDE DEF rank, n
  <2>1. DOMAIN rank = S
    BY <1>6
  <2> QED  BY <1>5, <1>6, <2>1 DEF Injection, IsInjective
<1>8. IsFiniteSet(0 .. (n - 1)) /\ Cardinality(0 .. (n - 1)) = n
  <2> HIDE DEF n
  <2>1. 0 \in Int /\ n - 1 \in Int
    BY <1>2
  <2> QED  BY <1>2, <2>1, FS_Interval
<1>9. rank \in Surjection(S, 0 .. (n - 1))
  <2> HIDE DEF rank
  <2> QED  BY <1>7, <1>8, FS_Injection
<1>10. \A i \in 1 .. n : \E p \in S : Cardinality(below(p)) = i - 1
  <2> TAKE i \in 1 .. n
  <2>1. i - 1 \in 0 .. (n - 1)
    <3> HIDE DEF n
    <3> QED  BY <1>2
  <2>2. \E p \in S : rank[p] = i - 1
    <3> HIDE DEF rank, n
    <3> QED  BY <1>9, <2>1 DEF Surjection
  <2> HIDE DEF below
  <2> QED  BY <2>2
<1>11. \A i \in 1 .. n : order[i] \in S /\ Cardinality(below(order[i])) = i - 1
  <2> HIDE DEF below, n
  <2> QED  BY <1>10
<1>12. order \in [1 .. n -> S] /\ DOMAIN order = 1 .. n
  <2> HIDE DEF below, n
  <2> QED  BY <1>10
<1>13. order \in Seq(S)
  <2> HIDE DEF order, n
  <2> QED  BY <1>2, <1>12
<1>14. \A i, j \in 1 .. n : order[i] = order[j] => i = j
  <2> HIDE DEF order, below, n
  <2> QED  BY <1>2, <1>11
<1>15. \A p \in S : \E i \in 1 .. n : order[i] = p
  <2> TAKE p \in S
  <2> DEFINE i == Cardinality(below(p)) + 1
  <2>1. i \in 1 .. n /\ i - 1 = Cardinality(below(p))
    <3> HIDE DEF below, n
    <3> QED  BY <1>2, <1>3
  <2>2. order[i] \in S /\ Cardinality(below(order[i])) = Cardinality(below(p))
    <3> HIDE DEF order, below, i, n
    <3> QED  BY <1>11, <2>1
  <2>3. rank[order[i]] = rank[p]
    <3> HIDE DEF order, below, i, n
    <3> QED  BY <2>2
  <2>4. order[i] = p
    <3> HIDE DEF order, below, rank, i, n
    <3> QED  BY <1>5, <2>2, <2>3
  <2> HIDE DEF order, i, n
  <2> QED  BY <2>1, <2>4
<1> HIDE DEF order, n
<1>16. IsInjective(order) /\ ToSet(order) = S
  BY <1>11, <1>12, <1>14, <1>15 DEF IsInjective, ToSet
<1> QED  BY <1>1, <1>13, <1>16

\* The two of a match, and the matches of the last round.
Two(m) == {m.a, m.b}
IsLatest(ms, m) == \A n \in ms : n.round <= m.round

\* A round of a list: whoever is in it has one match, and nobody a second.
RoundOf(R, order, round) ==
  /\ IsFiniteSet(R) /\ R \subseteq Match
  /\ \A m \in R : m.round = round /\ ~m.done /\ Two(m) \subseteq ToSet(order) \cup {Nobody}
                  /\ m.a \in ToSet(order) /\ m.a # m.b
  /\ \A m, n \in R : Two(m) \cap Two(n) \cap Players # {} => m = n
  /\ \A p \in ToSet(order) : \E m \in R : p \in Two(m)

LEMMA SwissIsRound ==
  ASSUME NEW order \in Seq(Players), IsInjective(order), NEW round \in Nat \ {0}, made \in Nat
  PROVE  RoundOf(SwissRound(order, round), order, round)
<1> DEFINE k == (Len(order) + 1) \div 2
           b(i) == IF 2 * i <= Len(order) THEN order[2 * i] ELSE Nobody
           f == [i \in 1 .. k |-> NewMatch(round, i, order[2 * i - 1], b(i))]
           R == SwissRound(order, round)
<1>1. R = {f[i] : i \in 1 .. k}
  BY DEF SwissRound
<1>2. Len(order) \in Nat /\ DOMAIN order = 1 .. Len(order) /\ k \in Nat
  OBVIOUS
<1>3. ASSUME NEW i \in 1 .. k
      PROVE  i \in Nat \ {0} /\ 2 * i - 1 \in DOMAIN order /\ (2 * i <= Len(order) => 2 * i \in DOMAIN order)
  BY <1>2
<1>4. \A i \in 1 .. k : order[2 * i - 1] \in ToSet(order) /\ b(i) \in ToSet(order) \cup {Nobody}
  <2> HIDE DEF k
  <2> QED  BY <1>3 DEF ToSet
<1>5. ToSet(order) \subseteq Players
  BY MembersFinite
<1>6. Nobody \notin Players
  BY TournamentAssumption
<1>7. \A i, j \in DOMAIN order : order[i] = order[j] => i = j
  BY DEF IsInjective
<1>8. \A i \in 1 .. k : order[2 * i - 1] # b(i)
  <2> SUFFICES ASSUME NEW i \in 1 .. k PROVE order[2 * i - 1] # b(i)
    OBVIOUS
  <2>1. i \in Nat \ {0} /\ 2 * i - 1 \in DOMAIN order /\ (2 * i <= Len(order) => 2 * i \in DOMAIN order)
    BY <1>3
  <2> HIDE DEF k
  <2>2. CASE 2 * i <= Len(order)
    <3>1. 2 * i - 1 # 2 * i
      BY <2>1
    <3> QED  BY <1>7, <2>1, <2>2, <3>1
  <2>3. CASE ~(2 * i <= Len(order))
    <3>1. order[2 * i - 1] \in Players
      BY <1>4, <1>5
    <3> QED  BY <1>6, <2>3, <3>1
  <2> QED  BY <2>2, <2>3
<1>9. \A i \in 1 .. k : /\ f[i].a = order[2 * i - 1] /\ f[i].b = b(i) /\ f[i].round = round /\ f[i].done = FALSE
                        /\ f[i] \in Match
  <2> SUFFICES ASSUME NEW i \in 1 .. k
               PROVE  /\ f[i].a = order[2 * i - 1] /\ f[i].b = b(i) /\ f[i].round = round /\ f[i].done = FALSE
                      /\ f[i] \in Match
    OBVIOUS
  <2>1. i \in Nat \ {0} /\ order[2 * i - 1] \in Seated /\ b(i) \in Seated /\ Nobody \in Seated
    BY <1>3, <1>4, <1>5 DEF Seated
  <2>2. f[i] = NewMatch(round, i, order[2 * i - 1], b(i))
    OBVIOUS
  <2> HIDE DEF b, f, k
  <2> QED  BY <2>1, <2>2 DEF NewMatch, Match
<1>10. IsFiniteSet(R)
  <2>1. IsFiniteSet(1 .. k)
    <3>1. 1 \in Int /\ k \in Int
      BY <1>2
    <3> HIDE DEF k
    <3> QED  BY <3>1, FS_Interval
  <2>2. f \in Surjection(1 .. k, R)
    <3>1. DOMAIN f = 1 .. k
      OBVIOUS
    <3> HIDE DEF f, k
    <3>2. f \in [1 .. k -> R]
      <4>1. f = [i \in 1 .. k |-> f[i]]
        BY <3>1 DEF f
      <4> QED  BY <1>1, <4>1
    <3> QED  BY <1>1, <3>2 DEF Surjection
  <2> HIDE DEF f, k, R
  <2> QED  BY <2>1, <2>2, FS_Surjection
<1> HIDE DEF f, R
<1>11. \A i \in 1 .. k : Two(f[i]) = {order[2 * i - 1], b(i)}
  <2> HIDE DEF b, k
  <2> QED  BY <1>9 DEF Two
<1>12. \A i, j \in 1 .. k : Two(f[i]) \cap Two(f[j]) \cap Players # {} => i = j
  <2> SUFFICES ASSUME NEW i \in 1 .. k, NEW j \in 1 .. k, NEW p \in Players, p \in Two(f[i]), p \in Two(f[j])
               PROVE  i = j
    OBVIOUS
  <2>1. ASSUME NEW n \in 1 .. k, p \in Two(f[n])
        PROVE  \E x \in DOMAIN order : order[x] = p /\ x \in {2 * n - 1, 2 * n}
    <3>1. p = order[2 * n - 1] \/ p = b(n)
      <4> HIDE DEF b, k
      <4> QED  BY <1>11, <2>1
    <3>2. p # Nobody
      BY <1>6
    <3> HIDE DEF k
    <3> QED  BY <1>3, <3>1, <3>2
  <2>2. PICK x \in DOMAIN order : order[x] = p /\ x \in {2 * i - 1, 2 * i}
    BY <2>1
  <2>3. PICK y \in DOMAIN order : order[y] = p /\ y \in {2 * j - 1, 2 * j}
    BY <2>1
  <2>4. x = y /\ i \in Nat /\ j \in Nat
    BY <1>3, <1>7, <2>2, <2>3
  <2> HIDE DEF b, k
  <2> QED  BY <2>2, <2>3, <2>4
<1>13. \A p \in ToSet(order) : \E i \in 1 .. k : p \in Two(f[i])
  <2> TAKE p \in ToSet(order)
  <2>1. PICK x \in 1 .. Len(order) : order[x] = p
    BY <1>2 DEF ToSet
  <2> DEFINE i == (x + 1) \div 2
  <2>2. i \in 1 .. k /\ (x = 2 * i - 1 \/ (x = 2 * i /\ 2 * i <= Len(order)))
    BY <1>2
  <2> HIDE DEF i, k
  <2>3. p = order[2 * i - 1] \/ p = b(i)
    BY <2>1, <2>2
  <2> HIDE DEF b
  <2>4. p \in Two(f[i])
    BY <1>11, <2>2, <2>3
  <2> QED  BY <2>2, <2>4
<1>14. R \subseteq Match /\ \A m \in R : m.round = round /\ ~m.done
  <2> HIDE DEF b, k
  <2> QED  BY <1>1, <1>9
<1>15. \A m \in R : /\ Two(m) \subseteq ToSet(order) \cup {Nobody} /\ m.a \in ToSet(order) /\ m.a # m.b
  <2> SUFFICES ASSUME NEW i \in 1 .. k
               PROVE  /\ Two(f[i]) \subseteq ToSet(order) \cup {Nobody} /\ f[i].a \in ToSet(order)
                      /\ f[i].a # f[i].b
    BY <1>1
  <2> HIDE DEF b, k
  <2> QED  BY <1>4, <1>8, <1>9, <1>11
<1>16. \A m, n \in R : Two(m) \cap Two(n) \cap Players # {} => m = n
  <2> HIDE DEF b, k
  <2> QED  BY <1>1, <1>12
<1>17. \A p \in ToSet(order) : \E m \in R : p \in Two(m)
  <2> HIDE DEF b, k
  <2> QED  BY <1>1, <1>13
<1> QED  BY <1>10, <1>14, <1>15, <1>16, <1>17 DEF RoundOf, R

\* Every seeding of a field lists the whole field.
LEMMA SeedsList ==
  ASSUME NEW entrants \in Seq(Players), IsInjective(entrants), NEW strategy \in Strategies,
         NEW order \in Seeds(strategy, entrants)
  PROVE  /\ order \in Seq(Players) /\ IsInjective(order) /\ ToSet(order) = ToSet(entrants)
         /\ Len(order) = Len(entrants)
<1> DEFINE n == Len(entrants)
<1>1. DOMAIN entrants = 1 .. n /\ n \in Nat /\ entrants \in [1 .. n -> Players]
  OBVIOUS
<1>2. IsFiniteSet(1 .. n) /\ Cardinality(1 .. n) = n
  <2> HIDE DEF n
  <2>1. 1 \in Int /\ n \in Int
    BY <1>1
  <2> QED  BY <1>1, <2>1, FS_Interval
<1>3. IsFiniteSet(ToSet(entrants)) /\ ToSet(entrants) \subseteq Players /\ Cardinality(ToSet(entrants)) = n
  BY MembersFinite
<1>4. CASE strategy = "manual"
  BY <1>1, <1>4 DEF Seeds
<1>5. CASE strategy = "random"
  <2>1. PICK f \in [1 .. n -> 1 .. n] : IsInjective(f) /\ order = [i \in 1 .. n |-> entrants[f[i]]]
    BY <1>1, <1>5 DEF Seeds
  <2> HIDE DEF n
  <2>2. f \in Injection(1 .. n, 1 .. n)
    BY <2>1 DEF Injection
  <2>3. f \in Surjection(1 .. n, 1 .. n)
    BY <1>2, <2>2, FS_Injection
  <2>4. \A j \in 1 .. n : \E i \in 1 .. n : f[i] = j
    BY <2>3 DEF Surjection
  <2>5. order \in [1 .. n -> Players] /\ DOMAIN order = 1 .. n
    BY <1>1, <2>1
  <2>6. order \in Seq(Players) /\ Len(order) = n
    BY <1>1, <2>5
  <2>7. \A i \in 1 .. n : order[i] = entrants[f[i]] /\ f[i] \in 1 .. n
    BY <2>1
  <2>8. IsInjective(order)
    BY <1>1, <2>1, <2>5, <2>7 DEF IsInjective
  <2>9. ToSet(order) = ToSet(entrants)
    BY <1>1, <2>4, <2>5, <2>7 DEF ToSet
  <2> QED  BY <2>6, <2>8, <2>9 DEF n
<1>6. CASE strategy = "elo"
  <2>1. order \in [1 .. n -> ToSet(entrants)] /\ IsInjective(order)
    BY <1>1, <1>6 DEF Seeds
  <2> HIDE DEF n
  <2>2. order \in Injection(1 .. n, ToSet(entrants))
    BY <2>1 DEF Injection
  <2>3. order \in Surjection(1 .. n, ToSet(entrants))
    BY <1>2, <1>3, <2>2, FS_Injection
  <2>4. order \in Seq(Players) /\ Len(order) = n /\ DOMAIN order = 1 .. n
    BY <1>1, <1>3, <2>1
  <2>5. ToSet(order) = ToSet(entrants)
    BY <2>1, <2>3, <2>4 DEF Surjection, ToSet
  <2> QED  BY <2>1, <2>4, <2>5 DEF n
<1> QED  BY <1>4, <1>5, <1>6 DEF Strategies

-----------------------------------------------------------------------------
(* Tournaments: who goes on *)

\* A transfer between two who race leaves everybody else's chips alone, and the
\* winner some.
LEMMA TransferKeepsAlive ==
  ASSUME NEW copy, SoundRow(copy), FieldOK(copy), event.chips, NEW match,
         match.winner \in Two(match) \cap Alive(copy), match.a # match.b
  PROVE  /\ Transferred(copy, match).entrants = copy.entrants
         /\ Transferred(copy, match).status = copy.status
         /\ Transferred(copy, match).champion = copy.champion
         /\ FieldOK(Transferred(copy, match))
         /\ match.winner \in Alive(Transferred(copy, match))
         /\ Alive(copy) \ Two(match) \subseteq Alive(Transferred(copy, match))
         /\ Alive(Transferred(copy, match)) \subseteq Alive(copy) \cup Two(match)
<1> DEFINE winner == match.winner
           loser == IF match.winner = match.a THEN match.b ELSE match.a
           n == ChipTransferAmount(Stack(copy, loser))
           line == [winner |-> winner, loser |-> loser, amount |-> n]
           s == MovedIn(copy.stacks, winner, loser, n)
           new == [copy EXCEPT !.stacks = s, !.ledger = Append(@, line)]
           t == Transferred(copy, match)
<1>1. t = IF winner = Nobody \/ loser = Nobody THEN copy ELSE new
  BY DEF Transferred, MovedIn
<1>2. /\ new.entrants = copy.entrants /\ new.status = copy.status /\ new.champion = copy.champion
      /\ new.stacks = s
  BY DEF SoundRow, RowFields
<1>3. SoundRow(t)
  BY TransferIsSound
<1>4. winner # loser /\ winner \in Alive(copy) /\ Two(match) = {winner, loser}
  BY DEF Two
<1> HIDE DEF t, new
<1>5. CASE t = copy
  BY <1>4, <1>5 DEF Two, t
<1>6. CASE t = new
  <2>1. /\ s \in [DOMAIN s -> Nat] /\ DOMAIN s = DOMAIN copy.stacks \cup {winner, loser}
        /\ \A q \in DOMAIN s : s[q] + (IF q = loser THEN n ELSE 0)
                                 = HadIn(copy.stacks, q) + (IF q = winner THEN n ELSE 0)
    <3>1. n \in Nat /\ n <= HadIn(copy.stacks, loser)
      BY MovedAmount
    <3>2. copy.stacks \in [DOMAIN copy.stacks -> Nat]
      BY DEF SoundRow
    <3> HIDE DEF winner, loser, n, s
    <3>3. Moves(copy.stacks, winner, loser, n)
      BY <3>1, <3>2, MovedStacks
    <3> QED  BY <3>3 DEF s, Moves
  <2>2. n \in Nat
    BY MovedAmount
  <2>3. t.entrants = copy.entrants /\ t.stacks = s /\ t.status = copy.status /\ t.champion = copy.champion
    BY <1>2, <1>6
  <2> HIDE DEF s, n, loser, winner
  <2>4. FieldOK(t)
    BY <1>3, <2>3 DEF FieldOK, SoundRow
  <2>5. \A q : HadIn(copy.stacks, q) = Stack(copy, q) /\ Stack(copy, q) \in Nat
    BY FieldFinite DEF HadIn, Stack
  <2>6. \A q : q \notin {winner, loser} => Stack(t, q) = Stack(copy, q)
    <3> TAKE q
    <3>1. CASE q \in DOMAIN s /\ q \notin {winner, loser}
      <4>1. s[q] \in Nat /\ s[q] + 0 = HadIn(copy.stacks, q) + 0
        BY <2>1, <3>1
      <4>2. Stack(t, q) = s[q]
        BY <2>3, <3>1 DEF Stack
      <4> QED  BY <2>5, <4>1, <4>2
    <3>2. CASE q \notin DOMAIN s
      BY <2>1, <2>3, <3>2 DEF Stack
    <3> QED  BY <3>1, <3>2
  <2>7. Stack(t, winner) = Stack(copy, winner) + n
    <3>1. winner \in DOMAIN s /\ s[winner] \in Nat
      BY <2>1
    <3>2. s[winner] + 0 = HadIn(copy.stacks, winner) + n
      BY <1>4, <2>1, <3>1
    <3>3. Stack(t, winner) = s[winner]
      BY <2>3, <3>1 DEF Stack
    <3> QED  BY <2>5, <3>1, <3>2, <3>3
  <2>8. winner \in Alive(t)
    <3>1. winner \in Entrants(copy) /\ Stack(copy, winner) > 0
      BY <1>4 DEF Alive
    <3>2. Stack(t, winner) > 0
      BY <2>2, <2>5, <2>7, <3>1
    <3> QED  BY <2>3, <3>1, <3>2 DEF Alive, Entrants
  <2>9. /\ Alive(copy) \ {winner, loser} \subseteq Alive(t)
        /\ Alive(t) \subseteq Alive(copy) \cup {winner, loser}
    BY <2>3, <2>6 DEF Alive, Entrants
  <2> QED  BY <1>4, <2>3, <2>4, <2>8, <2>9 DEF winner, t
<1> QED  BY <1>1, <1>5, <1>6

\* Before the start everybody has the stack they were dealt.
Draft(copy) == FieldOK(copy) /\ copy.status = "DRAFT" /\ \A p \in DOMAIN copy.stacks : copy.stacks[p] > 0
Ready(copy) == Draft(copy) /\ Alive(copy) = Entrants(copy) /\ Len(copy.entrants) >= 2

\* The last round has one match for whoever goes on, and no second one for anybody;
\* what is open is in the last round and between players who go on.
FairAmong(entrants, alive, ms) ==
  /\ IsFiniteSet(ms) /\ ms \subseteq Match
  /\ \A m \in ms : m.a \in entrants /\ m.b \in entrants \cup {Nobody} /\ m.a # m.b
  /\ \A m, n \in ms : IsLatest(ms, m) /\ IsLatest(ms, n) /\ Two(m) \cap Two(n) \cap Players # {} => m = n
  /\ ms # {} => \E m \in ms : IsLatest(ms, m)
  /\ ms # {} => \A p \in alive : \E m \in ms : IsLatest(ms, m) /\ p \in Two(m)
  /\ \A m \in ms : ~m.done => IsLatest(ms, m) /\ Two(m) \subseteq alive \cup {Nobody}
FairIn(copy, ms) == FairAmong(Entrants(copy), Alive(copy), ms)

\* A chip race that has started is over when one player is left.
Settled(copy) ==
  event.mode = "CHIP_RACE" =>
    IF copy.status = "COMPLETED" THEN Alive(copy) = {copy.champion}
    ELSE \E p, q \in Alive(copy) : p # q

Started(copy, ms) == FieldOK(copy) /\ copy.status # "DRAFT" /\ FairIn(copy, ms)
Racing(copy, ms) == Started(copy, ms) /\ Settled(copy)

\* At rest.
Rested(copy, ms) == (Draft(copy) /\ ms = {}) \/ Racing(copy, ms)

\* A match that was decided between two who go on.
Decided(match, ms, copy) ==
  /\ match \in ms /\ match.done /\ IsLatest(ms, match)
  /\ match.winner \in Two(match) \cap Alive(copy)
  /\ Two(match) \subseteq Alive(copy) \cup {Nobody}

\* What holds at each step of the one request that is served, of the row (copy)
\* and the matches there are (ms).
RaceAt(step, work, copy, ms) ==
  /\ step \in {"saveEntrant", "clear", "saveOrder", "generate", "activate", "saveResult", "transfer",
               "saveChampion", "saveRound"}
  /\ step = "saveEntrant" => ms = {} /\ Draft(work.copy)
  /\ step \in {"clear", "saveOrder", "generate"} => ms = {} /\ Ready(work.copy) /\ work.started
  /\ step = "activate" => ms # {} /\ Ready(work.copy) /\ work.started /\ FairIn(work.copy, ms)
  /\ step = "saveResult" =>
       /\ Racing(copy, ms) /\ work.copy = copy
       /\ work.match \in ms /\ ~work.match.done
       /\ \E p \in Two(work.match) \ {Nobody} :
            work.saved = [work.match EXCEPT !.done = TRUE, !.winner = p]
  /\ step = "transfer" =>
       Racing(copy, ms) /\ work.copy = copy /\ event.chips /\ Decided(work.saved, ms, copy)
  /\ step = "saveChampion" =>
       /\ Started(copy, ms) /\ work.copy = copy /\ event.mode = "CHIP_RACE"
       /\ \E p \in Players : Alive(copy) = {p}
  /\ step = "saveRound" =>
       /\ Racing(copy, ms) /\ ms # {} /\ work.round \in Nat
       /\ \A m \in ms : m.done /\ m.round < work.round
       /\ work.order \in Seq(Alive(copy)) /\ IsInjective(work.order) /\ ToSet(work.order) = Alive(copy)

RaceOrRest(step, work, copy, ms) == IF step = "idle" THEN Rested(copy, ms) ELSE RaceAt(step, work, copy, ms)

\* Races and Swiss rounds, as long as requests are served in turn and nothing irregular
\* happens.
Raced == event.mode \in Rounds /\ Orderly

RaceNow ==
  /\ Quiet => Rested(row, matches)
  /\ \A w \in Workers : pc[w] # "idle" => RaceAt(pc[w], my[w], row, matches)
RaceFrame ==
  /\ ChipsInv /\ InTurn /\ event \in Events /\ made \in Nat
  /\ overlapped \in BOOLEAN /\ irregular \in BOOLEAN
RaceInv == RaceFrame /\ (Raced => RaceNow)

\* What is said of a row does not change with the other variables.
LEMMA RaceSame ==
  ASSUME event' = event, NEW step, NEW work, NEW copy, NEW ms
  PROVE  RaceOrRest(step, work, copy, ms) => RaceOrRest(step, work, copy, ms)'
<1>1. \A c : Alive(c)' = Alive(c) /\ Entrants(c)' = Entrants(c)
  BY DEF Alive, Entrants, Stack
<1>2. \A c : Settled(c)' <=> Settled(c)
  BY <1>1 DEF Settled
<1>3. \A c : (Draft(c)' <=> Draft(c)) /\ (FieldOK(c)' <=> FieldOK(c))
  BY DEF Draft, FieldOK
<1>4. \A c : (Ready(c)' <=> Ready(c))
  BY <1>1, <1>3 DEF Ready
<1>5. \A c, m : FairIn(c, m)' <=> FairIn(c, m)
  BY <1>1 DEF FairIn
<1>6. \A c, m : (Started(c, m)' <=> Started(c, m)) /\ (Racing(c, m)' <=> Racing(c, m)) /\ (Rested(c, m)' <=> Rested(c, m))
  BY <1>2, <1>3, <1>5 DEF Started, Racing, Rested
<1>7. \A x, m, c : Decided(x, m, c)' <=> Decided(x, m, c)
  BY <1>1 DEF Decided
<1>8. RaceAt(step, work, copy, ms) => RaceAt(step, work, copy, ms)'
  BY <1>1, <1>2, <1>3, <1>4, <1>5, <1>6, <1>7 DEF RaceAt
<1> QED  BY <1>6, <1>8 DEF RaceOrRest

\* One step of the one request that is served.
LEMMA RaceStep ==
  ASSUME RaceInv, ChipsInv', NEW w \in Workers, NEW step, NEW work, Moved(w, step, work),
         NEW copy, NEW ms, row' = copy, matches' = ms, event' = event, made' \in Nat,
         \/ Arrive(w) \/ (pc[w] # "idle" /\ overlapped' = overlapped),
         irregular' \in BOOLEAN, irregular => irregular',
         Raced /\ ~irregular' /\ (Quiet \/ pc[w] # "idle") => RaceOrRest(step, work, copy, ms)
  PROVE  RaceInv'
<1>1. Serving /\ Serving'
  BY DEF RaceInv, RaceFrame, ChipsInv
<1>2. Served
  BY <1>1 DEF RaceInv, RaceFrame, Serving, Served
<1>3. Alone(w)
  BY DEF Moved
<1>4. InTurn' /\ overlapped' \in BOOLEAN /\ (~overlapped' => ~overlapped /\ \A v \in Workers \ {w} : pc[v] = "idle")
  BY <1>2, <1>3, ArrivesInTurn, ServedInTurn DEF RaceInv, RaceFrame, Quiet
<1>0. ~overlapped' => Quiet \/ pc[w] # "idle"
  BY DEF Arrive
<1>5. Raced' => Raced /\ ~irregular' /\ (Quiet \/ pc[w] # "idle") /\ \A v \in Workers \ {w} : pc'[v] = "idle"
  BY <1>0, <1>3, <1>4 DEF Raced, Orderly, Alone
<1>6. ASSUME Raced' PROVE RaceOrRest(step, work, copy, ms)'
  BY <1>5, <1>6, RaceSame
<1>7. pc'[w] = step /\ my'[w] = work
  BY DEF Moved
<1>8. ASSUME Raced', Quiet' PROVE Rested(row, matches)'
  <2>1. step = "idle"
    BY <1>7, <1>8 DEF Quiet
  <2>2. Rested(copy, ms)'
    BY <1>6, <1>8, <2>1 DEF RaceOrRest
  <2> QED  BY <2>2
<1>9. ASSUME Raced', NEW v \in Workers, pc'[v] # "idle" PROVE RaceAt(pc[v], my[v], row, matches)'
  <2>1. v = w /\ step # "idle"
    BY <1>5, <1>7, <1>9
  <2>2. RaceAt(step, work, copy, ms)'
    BY <1>6, <1>9, <2>1 DEF RaceOrRest
  <2> QED  BY <1>7, <2>1, <2>2
<1>10. event' \in Events
  BY DEF RaceInv, RaceFrame
<1>11. ASSUME Raced' PROVE RaceNow'
  BY <1>8, <1>9, <1>11 DEF RaceNow
<1>12. RaceFrame'
  BY <1>4, <1>10 DEF RaceInv, RaceFrame
<1> QED  BY <1>11, <1>12 DEF RaceInv

-----------------------------------------------------------------------------
(* Tournaments: matches that are made, decided and outlived *)

\* A round of those who go on, upon rounds that are over, is as fair.
LEMMA NewRoundIsFair ==
  ASSUME NEW entrants, NEW alive, NEW ms, FairAmong(entrants, alive, ms), alive \subseteq entrants,
         NEW round \in Nat \ {0}, \A m \in ms : m.done /\ m.round < round,
         NEW order, ToSet(order) = alive, NEW R, RoundOf(R, order, round)
  PROVE  FairAmong(entrants, alive, ms \cup R)
<1> DEFINE all == ms \cup R
<1>1. IsFiniteSet(all) /\ all \subseteq Match
  BY FS_Union DEF FairAmong, RoundOf
<1>2. \A m \in all : m.a \in entrants /\ m.b \in entrants \cup {Nobody} /\ m.a # m.b
  BY DEF FairAmong, RoundOf, Two
<1>3. CASE R = {}
  BY <1>3
<1>4. CASE R # {}
  <2>1. \A m \in all : m.round \in Nat
    BY <1>1 DEF Match
  <2>2. \A m \in all : IsLatest(all, m) <=> m \in R
    <3>1. \A m \in R : IsLatest(all, m)
      <4> SUFFICES ASSUME NEW m \in R, NEW n \in all PROVE n.round <= m.round
        BY DEF IsLatest
      <4>1. m.round = round
        BY DEF RoundOf
      <4>2. n.round = round \/ n.round < round
        BY DEF RoundOf
      <4> QED  BY <2>1, <4>1, <4>2
    <3>2. \A m \in ms : ~IsLatest(all, m)
      <4> SUFFICES ASSUME NEW m \in ms PROVE \E n \in all : ~(n.round <= m.round)
        BY DEF IsLatest
      <4>1. PICK n \in R : n.round = round
        BY <1>4 DEF RoundOf
      <4>2. m.round < round /\ m.round \in Nat
        BY <2>1
      <4> QED  BY <4>1, <4>2
    <3> QED  BY <3>1, <3>2
  <2>3. \A m, n \in all : IsLatest(all, m) /\ IsLatest(all, n) /\ Two(m) \cap Two(n) \cap Players # {} => m = n
    BY <2>2 DEF RoundOf
  <2>4. \A p \in alive : \E m \in all : IsLatest(all, m) /\ p \in Two(m)
    BY <2>2 DEF RoundOf
  <2>5. \A m \in all : ~m.done => IsLatest(all, m) /\ Two(m) \subseteq alive \cup {Nobody}
    BY <2>2 DEF RoundOf
  <2>6. \E m \in all : IsLatest(all, m)
    BY <1>4, <2>2
  <2> HIDE DEF all
  <2>7. FairAmong(entrants, alive, all)
    BY <1>1, <1>2, <2>3, <2>4, <2>5, <2>6 DEF FairAmong
  <2> QED  BY <2>7 DEF all
<1> QED  BY <1>3, <1>4

\* So is a match that is saved as decided.
Decides(match, saved, p) ==
  /\ saved \in Match /\ saved.done /\ saved.winner = p
  /\ saved.a = match.a /\ saved.b = match.b /\ saved.round = match.round

LEMMA SavedDecides ==
  ASSUME NEW match \in Match, NEW p \in Seated
  PROVE  Decides(match, [match EXCEPT !.done = TRUE, !.winner = p], p)
BY DEF Decides, Match

LEMMA DecidedIsFair ==
  ASSUME NEW entrants, NEW alive, NEW ms, FairAmong(entrants, alive, ms), entrants \subseteq Players,
         NEW match \in ms, ~match.done, NEW p, NEW saved, Decides(match, saved, p)
  PROVE  /\ FairAmong(entrants, alive, (ms \ {match}) \cup {saved})
         /\ IsLatest((ms \ {match}) \cup {saved}, saved)
         /\ Two(saved) = Two(match)
<1> DEFINE new == (ms \ {match}) \cup {saved}
           old(m) == IF m = saved THEN match ELSE m
<1>1. match \in Match /\ ms \subseteq Match /\ IsFiniteSet(ms)
  BY DEF FairAmong
<1>2. /\ saved \in Match /\ saved.done /\ saved.winner = p /\ saved.a = match.a /\ saved.b = match.b
      /\ saved.round = match.round
  BY DEF Decides
<1>3. Two(saved) = Two(match) /\ saved # match
  BY <1>2 DEF Two
<1>0. saved \notin ms
  <2> SUFFICES ASSUME saved \in ms PROVE FALSE
    OBVIOUS
  <2>1. IsLatest(ms, match)
    BY DEF FairAmong
  <2>2. IsLatest(ms, saved)
    BY <1>2, <2>1 DEF IsLatest
  <2>3. match.a \in Two(match) \cap Players
    BY DEF FairAmong, Two
  <2> QED  BY <1>3, <2>1, <2>2, <2>3 DEF FairAmong
<1>4. IsFiniteSet(new) /\ new \subseteq Match
  BY <1>1, <1>2, FS_RemoveElement, FS_AddElement
<1>5. \A m \in new : /\ old(m) \in ms /\ old(m).a = m.a /\ old(m).b = m.b /\ old(m).round = m.round
                     /\ Two(old(m)) = Two(m)
  BY <1>2, <1>3
<1>6. \A m \in ms : \E n \in new : old(n) = m
  BY <1>0, <1>3
<1>7. \A m, n \in new : old(m) = old(n) => m = n
  BY <1>3
<1> HIDE DEF new, old
<1>8. \A m \in new : IsLatest(new, m) <=> IsLatest(ms, old(m))
  BY <1>5, <1>6 DEF IsLatest
<1>9. \A m \in new : m.a \in entrants /\ m.b \in entrants \cup {Nobody} /\ m.a # m.b
  BY <1>5 DEF FairAmong
<1>10. \A m, n \in new : IsLatest(new, m) /\ IsLatest(new, n) /\ Two(m) \cap Two(n) \cap Players # {} => m = n
  BY <1>5, <1>7, <1>8 DEF FairAmong
<1>11. \A q \in alive : \E m \in new : IsLatest(new, m) /\ q \in Two(m)
  <2> TAKE q \in alive
  <2>1. PICK m \in ms : IsLatest(ms, m) /\ q \in Two(m)
    BY DEF FairAmong
  <2>2. PICK n \in new : old(n) = m
    BY <1>6
  <2> QED  BY <1>5, <1>8, <2>1, <2>2
<1>12. \A m \in new : ~m.done => IsLatest(new, m) /\ Two(m) \subseteq alive \cup {Nobody}
  <2> TAKE m \in new
  <2>1. ~m.done => old(m) = m
    BY <1>2 DEF old
  <2> QED  BY <1>5, <1>8, <2>1 DEF FairAmong
<1>13. saved \in new /\ old(saved) = match
  BY DEF new, old
<1>14. IsLatest(new, saved)
  BY <1>8, <1>13 DEF FairAmong
<1>15. FairAmong(entrants, alive, new)
  BY <1>4, <1>9, <1>10, <1>11, <1>12, <1>13, <1>14 DEF FairAmong
<1> QED  BY <1>3, <1>14, <1>15 DEF new

\* A player who goes out in the match that was just decided has no open one.
LEMMA OutlivedIsFair ==
  ASSUME NEW entrants, NEW alive, NEW ms, FairAmong(entrants, alive, ms), alive \subseteq Players,
         NEW match \in ms, match.done, IsLatest(ms, match),
         NEW left, left \subseteq alive, alive \ Two(match) \subseteq left
  PROVE  FairAmong(entrants, left, ms)
<1>1. \A m \in ms : ~m.done => IsLatest(ms, m) /\ Two(m) \subseteq left \cup {Nobody}
  <2> SUFFICES ASSUME NEW m \in ms, ~m.done PROVE IsLatest(ms, m) /\ Two(m) \subseteq left \cup {Nobody}
    OBVIOUS
  <2>1. IsLatest(ms, m) /\ Two(m) \subseteq alive \cup {Nobody}
    BY DEF FairAmong
  <2>2. Two(m) \cap Two(match) \cap Players = {}
    BY <2>1 DEF FairAmong
  <2> QED  BY <2>1, <2>2
<1>2. ms # {} => \A p \in left : \E m \in ms : IsLatest(ms, m) /\ p \in Two(m)
  BY DEF FairAmong
<1> QED  BY <1>1, <1>2 DEF FairAmong

\* Chips that are dealt are some, and whoever had some keeps them.
LEMMA DealtDraft ==
  ASSUME NEW copy, SoundRow(copy), Draft(copy), NEW players \in SUBSET Players
  PROVE  /\ Draft(WithChips(copy, players))
         /\ WithChips(copy, players).entrants = copy.entrants
         /\ event.chips => \A p \in players : Stack(WithChips(copy, players), p) > 0
<1> DEFINE new == WithChips(copy, players)
           stacks == [p \in DOMAIN copy.stacks \cup players |->
                        IF p \in NewStacks(copy, players) THEN StackOf[p] ELSE copy.stacks[p]]
<1>1. CASE ~event.chips
  BY <1>1 DEF WithChips
<1>2. CASE event.chips
  <2>1. /\ new.entrants = copy.entrants /\ new.status = copy.status /\ new.stacks = stacks
    BY <1>2 DEF WithChips, Dealt, SoundRow, RowFields
  <2>2. copy.stacks \in [DOMAIN copy.stacks -> Nat] /\ \A p \in DOMAIN copy.stacks : copy.stacks[p] > 0
    BY DEF Draft, FieldOK
  <2>3. \A p \in DOMAIN stacks : stacks[p] \in Nat /\ stacks[p] > 0
    <3> SUFFICES ASSUME NEW p \in DOMAIN copy.stacks \cup players PROVE stacks[p] \in Nat /\ stacks[p] > 0
      OBVIOUS
    <3>1. CASE p \in DOMAIN copy.stacks
      BY <2>2, <3>1 DEF NewStacks
    <3>2. CASE p \notin DOMAIN copy.stacks
      <4>1. stacks[p] = StackOf[p]
        BY <3>2 DEF NewStacks
      <4>2. StackOf[p] \in Nat \ {0}
        BY <3>2, TournamentAssumption
      <4> HIDE DEF stacks
      <4> QED  BY <4>1, <4>2
    <3> QED  BY <3>1, <3>2
  <2>4. stacks \in [DOMAIN stacks -> Nat] /\ DOMAIN stacks = DOMAIN copy.stacks \cup players
    BY <2>3
  <2> HIDE DEF new, stacks
  <2>5. Draft(new)
    BY <2>1, <2>3, <2>4 DEF Draft, FieldOK
  <2>6. \A p \in players : Stack(new, p) > 0
    BY <2>1, <2>3, <2>4 DEF Stack
  <2> QED  BY <2>1, <2>5, <2>6 DEF new
<1> QED  BY <1>1, <1>2

\* Registration is for a draft, and before the start all are still in it.
LEMMA RaceOfEntrants ==
  ASSUME RaceInv, ChipsInv', NEW w \in Workers, Raced, Quiet \/ pc[w] # "idle"
  PROVE  /\ \A p \in Players : Register(w, p) =>
              RaceOrRest("saveEntrant",
                         [copy |-> WithChips([row EXCEPT !.entrants = Append(@, p)], {p}), player |-> p],
                         row, matches)
         /\ Start(w) => RaceOrRest("clear", [copy |-> WithChips(row, Entrants(row)), started |-> TRUE],
                                   row, matches)
<1>1. SoundRow(row) /\ (Quiet => Rested(row, matches))
  BY DEF RaceInv, RaceFrame, RaceNow, ChipsInv
<1>2. ASSUME NEW p \in Players, Register(w, p)
      PROVE  RaceOrRest("saveEntrant",
                        [copy |-> WithChips([row EXCEPT !.entrants = Append(@, p)], {p}), player |-> p],
                        row, matches)
  <2> DEFINE added == [row EXCEPT !.entrants = Append(@, p)]
             work == [copy |-> WithChips(added, {p}), player |-> p]
  <2>1. Draft(row) /\ matches = {} /\ p \notin Entrants(row)
    BY <1>1, <1>2 DEF Register, Arrive, Rested, Racing, Started
  <2>2. /\ added = [f \in RowFields |-> added[f]] /\ added.entrants = Append(row.entrants, p)
        /\ added.stacks = row.stacks /\ added.meta = row.meta /\ added.ledger = row.ledger
        /\ added.status = row.status
    BY <1>1 DEF SoundRow, RowFields
  <2> HIDE DEF added
  <2>3. row.entrants \in Seq(Players) /\ IsInjective(row.entrants) /\ \A i \in DOMAIN row.entrants : row.entrants[i] # p
    BY <2>1 DEF Draft, FieldOK, Entrants, ToSet
  <2>4. added.entrants \in Seq(Players) /\ IsInjective(added.entrants)
    <3> DEFINE s == row.entrants
    <3>1. /\ Append(s, p) \in Seq(Players) /\ Len(s) \in Nat
          /\ DOMAIN s = 1 .. Len(s) /\ DOMAIN Append(s, p) = 1 .. (Len(s) + 1)
          /\ \A j \in DOMAIN s : Append(s, p)[j] = s[j]
          /\ Append(s, p)[Len(s) + 1] = p
      BY <2>3, InsertedRow
    <3> HIDE DEF s
    <3>2. IsInjective(Append(s, p))
      <4> SUFFICES ASSUME NEW i \in 1 .. (Len(s) + 1), NEW j \in 1 .. (Len(s) + 1),
                          Append(s, p)[i] = Append(s, p)[j]
                   PROVE  i = j
        BY <3>1 DEF IsInjective
      <4>1. (i \in DOMAIN s \/ i = Len(s) + 1) /\ (j \in DOMAIN s \/ j = Len(s) + 1)
        BY <3>1
      <4> QED  BY <2>3, <3>1, <4>1 DEF IsInjective, s
    <3> QED  BY <2>2, <3>1, <3>2 DEF s
  <2>5. SoundRow(added)
    BY <1>1, <2>2, <2>4, SameChips
  <2>6. Draft(added)
    BY <2>1, <2>2, <2>4 DEF Draft, FieldOK
  <2>7. Draft(WithChips(added, {p}))
    BY <2>5, <2>6, DealtDraft
  <2>8. work.copy = WithChips(added, {p})
    OBVIOUS
  <2> HIDE DEF work
  <2>9. RaceOrRest("saveEntrant", work, row, matches)
    BY <2>1, <2>7, <2>8 DEF RaceOrRest, RaceAt
  <2> QED  BY <2>9 DEF work, added
<1>3. ASSUME Start(w)
      PROVE  RaceOrRest("clear", [copy |-> WithChips(row, Entrants(row)), started |-> TRUE], row, matches)
  <2> DEFINE new == WithChips(row, Entrants(row))
             work == [copy |-> new, started |-> TRUE]
  <2>1. Draft(row) /\ matches = {} /\ Len(row.entrants) >= 2
    BY <1>1, <1>3 DEF Start, Arrive, Rested, Racing, Started
  <2>2. Entrants(row) \in SUBSET Players
    BY <2>1, FieldFinite DEF Draft
  <2>3. Draft(new) /\ new.entrants = row.entrants /\ (event.chips => \A p \in Entrants(row) : Stack(new, p) > 0)
    BY <1>1, <2>1, <2>2, DealtDraft
  <2>4. work.copy = new /\ work.started
    OBVIOUS
  <2> HIDE DEF new, work
  <2>5. Ready(new)
    BY <2>1, <2>3 DEF Ready, Alive, Entrants
  <2>6. RaceOrRest("clear", work, row, matches)
    BY <2>1, <2>4, <2>5 DEF RaceOrRest, RaceAt
  <2> QED  BY <2>6 DEF work, new
<1> QED  BY <1>2, <1>3

\* The steps of a start: the first round is made of the whole field.
LEMMA RaceOfStart ==
  ASSUME RaceInv, ChipsInv', NEW w \in Workers, Raced, Quiet \/ pc[w] # "idle",
         NEW copy, NEW ms, row' = copy, matches' = ms
  PROVE  /\ SaveEntrant(w) => Rested(copy, ms)
         /\ Clear(w) => RaceOrRest("saveOrder", my[w], copy, ms)
         /\ SaveOrder(w) => RaceOrRest("generate", my[w], copy, ms)
         /\ Generate(w) => RaceOrRest("activate", my[w], copy, ms)
         /\ Activate(w) => Rested(copy, ms)
<1>1. /\ pc[w] # "idle" => RaceAt(pc[w], my[w], row, matches)
      /\ event \in Events /\ event.mode \in Rounds /\ made \in Nat
  BY DEF RaceInv, RaceFrame, RaceNow, ChipsInv, Raced
<1>2. ASSUME SaveEntrant(w) PROVE Rested(copy, ms)
  BY <1>1, <1>2 DEF SaveEntrant, At, RaceAt, Rested
<1>3. ASSUME Clear(w) PROVE RaceOrRest("saveOrder", my[w], copy, ms)
  BY <1>1, <1>3 DEF Clear, At, RaceAt, RaceOrRest
<1>4. ASSUME SaveOrder(w) PROVE RaceOrRest("generate", my[w], copy, ms)
  BY <1>1, <1>4 DEF SaveOrder, At, RaceAt, RaceOrRest
<1>5. ASSUME Generate(w) PROVE RaceOrRest("activate", my[w], copy, ms)
  <2> DEFINE c == my[w].copy
  <2>1. pc[w] = "generate" /\ \E order \in Seeds(event.seeds, c.entrants) : ms = matches \cup Generated(order)
    BY <1>5 DEF Generate, At
  <2>2. matches = {} /\ Ready(c) /\ my[w].started
    BY <1>1, <2>1 DEF RaceAt
  <2> HIDE DEF c
  <2>3. PICK order \in Seeds(event.seeds, c.entrants) : ms = Generated(order)
    BY <2>1, <2>2
  <2>4. FieldOK(c) /\ Len(c.entrants) >= 2 /\ Alive(c) = Entrants(c)
    BY <2>2 DEF Ready, Draft
  <2>5. event.seeds \in Strategies
    BY <1>1, TournamentAssumption
  <2>6. /\ order \in Seq(Players) /\ IsInjective(order) /\ ToSet(order) = ToSet(c.entrants)
        /\ Len(order) = Len(c.entrants)
    BY <2>3, <2>4, <2>5, SeedsList DEF FieldOK
  <2>7. ms = SwissRound(order, 1)
    BY <1>1, <2>3 DEF Generated, Rounds
  <2>8. 1 \in Nat \ {0}
    OBVIOUS
  <2>9. RoundOf(ms, order, 1)
    BY <1>1, <2>6, <2>7, <2>8, SwissIsRound
  <2>10. ToSet(order) = Alive(c) /\ Alive(c) \subseteq Entrants(c)
    BY <2>4, <2>6 DEF Entrants
  <2>11. FairAmong(Entrants(c), Alive(c), {})
    BY FS_EmptySet DEF FairAmong
  <2>12. FairAmong(Entrants(c), Alive(c), {} \cup ms)
    BY <2>8, <2>9, <2>10, <2>11, NewRoundIsFair
  <2>13. ms # {}
    <3>1. 1 \in DOMAIN order
      BY <2>4, <2>6
    <3>2. order[1] \in ToSet(order)
      BY <3>1 DEF ToSet
    <3> QED  BY <2>9, <3>2 DEF RoundOf
  <2>14. {} \cup ms = ms
    OBVIOUS
  <2>15. FairIn(c, ms)
    BY <2>12, <2>14 DEF FairIn
  <2> QED  BY <2>2, <2>13, <2>15 DEF RaceAt, RaceOrRest, c
<1>6. ASSUME Activate(w) PROVE Rested(copy, ms)
  <2> DEFINE c == my[w].copy
  <2>1. /\ pc[w] = "activate" /\ ms = matches
        /\ copy = IF my[w].started \/ c.status # "DRAFT" THEN [c EXCEPT !.status = "ACTIVE"] ELSE c
    BY <1>6 DEF Activate, At
  <2>2. ms # {} /\ Ready(c) /\ my[w].started /\ FairIn(c, ms)
    BY <1>1, <2>1 DEF RaceAt
  <2>3. SoundRow(c)
    BY <2>1 DEF RaceInv, RaceFrame, ChipsInv, Carries
  <2>4. copy = [c EXCEPT !.status = "ACTIVE"]
    BY <2>1, <2>2
  <2>5. copy.entrants = c.entrants /\ copy.stacks = c.stacks /\ copy.status = "ACTIVE"
    BY <2>3, <2>4 DEF SoundRow, RowFields
  <2> HIDE DEF c
  <2>6. FieldOK(c) /\ Alive(c) = Entrants(c) /\ Len(c.entrants) >= 2
    BY <2>2 DEF Ready, Draft
  <2>7. FieldOK(copy) /\ Alive(copy) = Alive(c) /\ Entrants(copy) = Entrants(c)
    BY <2>5, <2>6 DEF FieldOK, Alive, Entrants, Stack
  <2>8. Settled(copy)
    <3>1. 1 \in DOMAIN c.entrants /\ 2 \in DOMAIN c.entrants /\ 1 # 2
      BY <2>6 DEF FieldOK
    <3>2. c.entrants[1] # c.entrants[2]
      BY <2>6, <3>1 DEF FieldOK, IsInjective
    <3>3. c.entrants[1] \in Alive(copy) /\ c.entrants[2] \in Alive(copy)
      BY <2>6, <2>7, <3>1 DEF Entrants, ToSet
    <3> QED  BY <2>5, <3>2, <3>3 DEF Settled
  <2> QED  BY <2>2, <2>5, <2>7, <2>8 DEF Rested, Racing, Started, FairIn
<1> QED  BY <1>2, <1>3, <1>4, <1>5, <1>6

\* A result that is reported, and its save.
LEMMA RaceOfReport ==
  ASSUME RaceInv, ChipsInv', NEW w \in Workers, Raced, Quiet \/ pc[w] # "idle",
         NEW match \in matches, NEW result \in {"A", "B", "tie"}, Report(w, match, result), ~irregular',
         NEW work, work = [copy |-> row, match |-> match,
                           saved |-> [match EXCEPT !.done = TRUE, !.winner = Winner(match, result)]]
  PROVE  RaceOrRest("saveResult", work, row, matches)
<1>1. Racing(row, matches)
  BY DEF Report, Arrive, RaceInv, RaceNow, Rested
<1>2. ~match.done /\ Winner(match, result) # Nobody
  BY DEF Report, Irregular
<1>3. Winner(match, result) \in Two(match)
  BY <1>2 DEF Winner, Two
<1>4. work.copy = row /\ work.match = match /\ work.saved = [match EXCEPT !.done = TRUE, !.winner = Winner(match, result)]
  OBVIOUS
<1> QED  BY <1>1, <1>2, <1>3, <1>4 DEF RaceOrRest, RaceAt

LEMMA RaceOfSave ==
  ASSUME RaceInv, ChipsInv', NEW w \in Workers, Raced, Quiet \/ pc[w] # "idle",
         NEW ms, matches' = ms, SaveResult(w)
  PROVE  /\ event.chips => RaceOrRest("transfer", my[w], row, ms)
         /\ ~event.chips => Rested(row, ms)
         /\ event.chips => Then(w, "transfer")
         /\ ~event.chips => Answer(w)
<1> DEFINE match == my[w].match
           saved == my[w].saved
<1>1. pc[w] = "saveResult" /\ ms = (matches \ {match}) \cup {saved}
  BY DEF SaveResult, At, SaveMatch
<1>2. RaceAt(pc[w], my[w], row, matches) /\ event.mode \in Rounds /\ event \in Events
  BY <1>1 DEF RaceInv, RaceFrame, RaceNow, Raced
<1>3. Racing(row, matches) /\ my[w].copy = row /\ match \in matches /\ ~match.done
  BY <1>1, <1>2 DEF RaceAt
<1>4. PICK p \in Two(match) \ {Nobody} : saved = [match EXCEPT !.done = TRUE, !.winner = p]
  BY <1>1, <1>2 DEF RaceAt
<1>5. FairAmong(Entrants(row), Alive(row), matches) /\ FieldOK(row) /\ Settled(row) /\ row.status # "DRAFT"
  BY <1>3 DEF Racing, Started, FairIn
<1>6. Entrants(row) \subseteq Players
  BY <1>5, FieldFinite
<1>7. p \in Seated
  BY <1>3, <1>4, <1>5, <1>6 DEF FairAmong, Two, Seated
<1> HIDE DEF match, saved
<1>8. /\ FairAmong(Entrants(row), Alive(row), ms) /\ IsLatest(ms, saved)
      /\ saved.done /\ saved.winner = p /\ Two(saved) = Two(match)
  <2>1. PICK e : e = Entrants(row)
    OBVIOUS
  <2>2. PICK a : a = Alive(row)
    OBVIOUS
  <2>3. PICK old : old = matches
    OBVIOUS
  <2>4. PICK x : x = match
    OBVIOUS
  <2>5. PICK y : y = saved
    OBVIOUS
  <2>6. FairAmong(e, a, old) /\ e \subseteq Players /\ x \in old /\ ~x.done /\ p \in Seated
    BY <1>3, <1>5, <1>6, <1>7, <2>1, <2>2, <2>3, <2>4
  <2>7. Decides(x, y, p)
    <3>1. x \in Match
      BY <2>6 DEF FairAmong
    <3>2. y = [x EXCEPT !.done = TRUE, !.winner = p]
      BY <1>4, <2>4, <2>5
    <3> QED  BY <2>6, <3>1, <3>2, SavedDecides
  <2>8. /\ FairAmong(e, a, (old \ {x}) \cup {y}) /\ IsLatest((old \ {x}) \cup {y}, y)
        /\ Two(y) = Two(x)
    BY <2>6, <2>7, DecidedIsFair
  <2>10. y.done /\ y.winner = p
    BY <2>7 DEF Decides
  <2>9. ms = (old \ {x}) \cup {y}
    BY <1>1, <2>3, <2>4, <2>5
  <2> QED  BY <2>1, <2>2, <2>4, <2>5, <2>8, <2>9, <2>10
<1>9. Two(match) \subseteq Alive(row) \cup {Nobody}
  BY <1>3, <1>5 DEF FairAmong
<1>10. Decided(saved, ms, row)
  BY <1>1, <1>4, <1>8, <1>9 DEF Decided
<1>11. Racing(row, ms)
  BY <1>5, <1>8 DEF Racing, Started, FairIn
<1>12. event.chips => RaceOrRest("transfer", my[w], row, ms)
  BY <1>3, <1>10, <1>11 DEF RaceOrRest, RaceAt, saved
<1>13. saved.winner # Nobody /\ event.mode # "SINGLE_ELIMINATION"
  BY <1>2, <1>4, <1>8 DEF Rounds
<1>14. (event.chips => Then(w, "transfer")) /\ (~event.chips => Answer(w))
  BY <1>13 DEF SaveResult, saved
<1> QED  BY <1>11, <1>12, <1>14 DEF Rested

\* Chips change hands: if that leaves one player, the race is over.
LEMMA RaceOfTransfer ==
  ASSUME RaceInv, ChipsInv', NEW w \in Workers, Raced, Quiet \/ pc[w] # "idle",
         NEW copy, row' = copy, SaveTransfer(w)
  PROVE  \/ Await(w, "saveChampion", [copy |-> copy])
              /\ RaceOrRest("saveChampion", [copy |-> copy], copy, matches)
         \/ Answer(w) /\ Rested(copy, matches)
<1> DEFINE match == my[w].saved
<1>1. pc[w] = "transfer" /\ copy = Transferred(my[w].copy, match)
  BY DEF SaveTransfer, At
<1>2. RaceAt(pc[w], my[w], row, matches) /\ event.mode \in Rounds /\ event \in Events
  BY <1>1 DEF RaceInv, RaceFrame, RaceNow, Raced
<1>3. Racing(row, matches) /\ my[w].copy = row /\ event.chips /\ Decided(match, matches, row)
  BY <1>1, <1>2 DEF RaceAt
<1>4. /\ FairAmong(Entrants(row), Alive(row), matches) /\ FieldOK(row) /\ Settled(row) /\ row.status # "DRAFT"
      /\ SoundRow(row)
  BY <1>3 DEF Racing, Started, FairIn, RaceInv, RaceFrame, ChipsInv
<1>5. /\ match \in matches /\ match.done /\ IsLatest(matches, match)
      /\ match.winner \in Two(match) \cap Alive(row) /\ match.a # match.b
      /\ Two(match) \subseteq Alive(row) \cup {Nobody}
  BY <1>3, <1>4 DEF Decided, FairAmong
<1> HIDE DEF match
<1>6. /\ copy.entrants = row.entrants /\ copy.status = row.status /\ copy.champion = row.champion
      /\ FieldOK(copy) /\ match.winner \in Alive(copy)
      /\ Alive(row) \ Two(match) \subseteq Alive(copy)
      /\ Alive(copy) \subseteq Alive(row) \cup Two(match)
  BY <1>1, <1>3, <1>4, <1>5, TransferKeepsAlive
<1>7. /\ IsFiniteSet(Alive(copy)) /\ Alive(copy) \subseteq Entrants(copy) /\ Entrants(copy) \subseteq Players
      /\ Alive(row) \subseteq Players /\ Entrants(copy) = Entrants(row)
  BY <1>4, <1>6, FieldFinite DEF Entrants
<1>8. Alive(copy) \subseteq Alive(row)
  BY <1>5, <1>6, <1>7, TournamentAssumption
<1>9. FairAmong(Entrants(copy), Alive(copy), matches)
  BY <1>4, <1>5, <1>6, <1>7, <1>8, OutlivedIsFair
<1>10. Started(copy, matches)
  BY <1>4, <1>6, <1>9 DEF Started, FairIn
<1>11. CASE event.mode = "CHIP_RACE" /\ Cardinality(Alive(copy)) <= 1
  <2>1. Await(w, "saveChampion", [copy |-> copy])
    BY <1>1, <1>11 DEF SaveTransfer
  <2>2. Alive(copy) = {match.winner}
    <3>1. {match.winner} \in SUBSET Alive(copy) /\ Cardinality({match.winner}) = 1
      BY <1>6, FS_Singleton
    <3>2. Cardinality(Alive(copy)) \in Nat /\ 1 <= Cardinality(Alive(copy))
      BY <1>7, <3>1, FS_Subset, FS_CardinalityType
    <3>3. Cardinality(Alive(copy)) = 1
      BY <1>11, <3>2
    <3> QED  BY <1>7, <3>1, <3>3, FS_Subset
  <2>3. match.winner \in Players
    BY <1>6, <1>7
  <2> DEFINE work == [copy |-> copy]
  <2>4. work.copy = copy
    OBVIOUS
  <2> HIDE DEF work
  <2>5. RaceOrRest("saveChampion", work, copy, matches)
    BY <1>10, <1>11, <2>2, <2>3, <2>4 DEF RaceOrRest, RaceAt
  <2> QED  BY <2>1, <2>5 DEF work
<1>12. CASE ~(event.mode = "CHIP_RACE" /\ Cardinality(Alive(copy)) <= 1)
  <2>1. Answer(w)
    BY <1>1, <1>12 DEF SaveTransfer
  <2>2. Settled(copy)
    <3> SUFFICES ASSUME event.mode = "CHIP_RACE"
                 PROVE  copy.status # "COMPLETED" /\ \E p, q \in Alive(copy) : p # q
      BY DEF Settled
    <3>1. ~(Cardinality(Alive(copy)) <= 1)
      BY <1>12
    <3>2. ASSUME NEW p, Alive(copy) \subseteq {p} PROVE FALSE
      <4>1. Alive(copy) = {p}
        BY <1>6, <3>2
      <4>2. Cardinality(Alive(copy)) = 1
        BY <4>1, FS_Singleton
      <4> QED  BY <3>1, <4>2
    <3>3. copy.status # "COMPLETED"
      BY <1>4, <1>6, <1>8, <3>2 DEF Settled
    <3>4. \E q \in Alive(copy) : match.winner # q
      BY <3>2
    <3> QED  BY <1>6, <3>3, <3>4
  <2> QED  BY <1>10, <2>1, <2>2 DEF Racing, Rested
<1> QED  BY <1>11, <1>12

LEMMA RaceOfChampion ==
  ASSUME RaceInv, ChipsInv', NEW w \in Workers, Raced, Quiet \/ pc[w] # "idle",
         NEW copy, row' = copy, SaveChampion(w)
  PROVE  Rested(copy, matches)
<1> DEFINE c == my[w].copy
           champion == IF Alive(c) = {} THEN Head(c.entrants) ELSE CHOOSE p \in Alive(c) : TRUE
<1>1. pc[w] = "saveChampion" /\ copy = Completed(c, champion)
  BY DEF SaveChampion, At
<1>2. RaceAt(pc[w], my[w], row, matches)
  BY <1>1 DEF RaceInv, RaceNow
<1>3. Started(row, matches) /\ c = row
  BY <1>1, <1>2 DEF RaceAt
<1>4. PICK p \in Players : Alive(row) = {p}
  BY <1>1, <1>2 DEF RaceAt
<1>5. champion = p
  BY <1>3, <1>4
<1>6. SoundRow(row)
  BY DEF RaceInv, RaceFrame, ChipsInv
<1>7. /\ copy.entrants = row.entrants /\ copy.stacks = row.stacks
      /\ copy.status = "COMPLETED" /\ copy.champion = p
  BY <1>1, <1>3, <1>5, <1>6 DEF Completed, SoundRow, RowFields
<1>8. Alive(copy) = Alive(row) /\ Entrants(copy) = Entrants(row)
  BY <1>7 DEF Alive, Entrants, Stack
<1>9. FieldOK(copy)
  BY <1>3, <1>7 DEF Started, FieldOK
<1>10. Settled(copy)
  BY <1>4, <1>7, <1>8 DEF Settled
<1>11. FairIn(copy, matches) /\ copy.status # "DRAFT"
  BY <1>3, <1>7, <1>8 DEF Started, FairIn
<1> QED  BY <1>9, <1>10, <1>11 DEF Rested, Racing, Started

-----------------------------------------------------------------------------
(* Tournaments: the next round *)

\* LastRound is the round of the latest matches.
LEMMA LastIsLatest ==
  ASSUME matches \subseteq Match, NEW m \in matches, IsLatest(matches, m)
  PROVE  /\ LastRound = m.round /\ LastRound \in Nat \ {0}
         /\ \A n \in matches : n.round = LastRound <=> IsLatest(matches, n)
<1> DEFINE rounds == {n.round : n \in matches}
<1>1. \A n \in matches : n.round \in Nat \ {0}
  BY DEF Match
<1>2. m.round \in rounds /\ \A x \in rounds : x \in Nat /\ m.round >= x
  BY <1>1 DEF IsLatest
<1>3. LastRound = CHOOSE x \in rounds : \A y \in rounds : x >= y
  BY DEF LastRound, Max
<1> HIDE DEF rounds
<1>4. LastRound \in rounds /\ \A y \in rounds : LastRound >= y
  BY <1>2, <1>3
<1>5. LastRound = m.round
  BY <1>2, <1>4
<1>6. \A n \in matches : n.round = LastRound <=> IsLatest(matches, n)
  BY <1>1, <1>5 DEF IsLatest
<1> QED  BY <1>1, <1>5, <1>6

LEMMA RaceOfAdvance ==
  ASSUME RaceInv, ChipsInv', NEW w \in Workers, Raced, Quiet \/ pc[w] # "idle", AdvanceSwissRound(w)
  PROVE  RaceOrRest("saveRound", [order |-> InOrder(Alive(row), Ranks), round |-> LastRound + 1], row, matches)
<1> DEFINE work == [order |-> InOrder(Alive(row), Ranks), round |-> LastRound + 1]
<1>1. matches # {} /\ \A m \in matches : m.round = LastRound => m.done
  BY DEF AdvanceSwissRound, RoundOver
<1>2. Racing(row, matches)
  BY <1>1 DEF AdvanceSwissRound, Arrive, RaceInv, RaceNow, Rested
<1>3. FairAmong(Entrants(row), Alive(row), matches) /\ FieldOK(row)
  BY <1>2 DEF Racing, Started, FairIn
<1>4. PICK m \in matches : IsLatest(matches, m)
  BY <1>1, <1>3 DEF FairAmong
<1>5. matches \subseteq Match /\ IsFiniteSet(matches)
  BY <1>3 DEF FairAmong
<1>6. /\ LastRound = m.round /\ LastRound \in Nat \ {0}
      /\ \A n \in matches : n.round = LastRound <=> IsLatest(matches, n)
  BY <1>4, <1>5, LastIsLatest
<1>7. \A n \in matches : n.done /\ n.round < LastRound + 1
  <2> TAKE n \in matches
  <2>1. n.done
    BY <1>1, <1>3, <1>6 DEF FairAmong
  <2>2. n.round \in Nat /\ n.round <= m.round
    BY <1>4, <1>5 DEF IsLatest, Match
  <2> QED  BY <1>6, <2>1, <2>2
<1>8. /\ Order(Alive(row)) \in Seq(Alive(row)) /\ IsInjective(Order(Alive(row)))
      /\ ToSet(Order(Alive(row))) = Alive(row)
  <2>1. Alive(row) \in SUBSET Entrants(row)
    BY <1>3, FieldFinite
  <2> QED  BY <1>3, <1>5, <2>1, OrderLists
<1>9. work.order = Order(Alive(row)) /\ work.round = LastRound + 1
  BY DEF Order
<1> HIDE DEF work
<1>10. RaceOrRest("saveRound", work, row, matches)
  BY <1>1, <1>2, <1>6, <1>7, <1>8, <1>9 DEF RaceOrRest, RaceAt
<1> QED  BY <1>10 DEF work

LEMMA RaceOfRound ==
  ASSUME RaceInv, ChipsInv', NEW w \in Workers, Raced, Quiet \/ pc[w] # "idle",
         NEW ms, matches' = ms, SaveRound(w)
  PROVE  Rested(row, ms)
<1>1. pc[w] = "saveRound" /\ ms = matches \cup SwissRound(my[w].order, my[w].round)
  BY DEF SaveRound, At
<1>2. RaceAt(pc[w], my[w], row, matches) /\ made \in Nat
  BY <1>1 DEF RaceInv, RaceFrame, RaceNow
<1>3. PICK order : order = my[w].order
  OBVIOUS
<1>4. PICK round : round = my[w].round
  OBVIOUS
<1>5. /\ Racing(row, matches) /\ matches # {} /\ round \in Nat
      /\ \A m \in matches : m.done /\ m.round < round
      /\ order \in Seq(Alive(row)) /\ IsInjective(order) /\ ToSet(order) = Alive(row)
  BY <1>1, <1>2, <1>3, <1>4 DEF RaceAt
<1>6. FairAmong(Entrants(row), Alive(row), matches) /\ FieldOK(row)
  BY <1>5 DEF Racing, Started, FairIn
<1>7. /\ Alive(row) \subseteq Entrants(row) /\ Alive(row) \subseteq Players
  BY <1>6, FieldFinite
<1>8. round \in Nat \ {0}
  <2>1. PICK m \in matches : m \in Match /\ m.round < round
    BY <1>5, <1>6 DEF FairAmong
  <2> QED  BY <1>5, <2>1 DEF Match
<1>9. order \in Seq(Players)
  <2>1. \A i \in DOMAIN order : order[i] \in Players
    BY <1>5, <1>7
  <2> QED  BY <1>5, <2>1, TableOf
<1>10. RoundOf(SwissRound(order, round), order, round)
  BY <1>2, <1>5, <1>8, <1>9, SwissIsRound
<1>11. FairAmong(Entrants(row), Alive(row), matches \cup SwissRound(order, round))
  BY <1>5, <1>6, <1>7, <1>8, <1>10, NewRoundIsFair
<1>12. FairAmong(Entrants(row), Alive(row), ms)
  BY <1>1, <1>3, <1>4, <1>11
<1> QED  BY <1>5, <1>12 DEF Rested, Racing, Started, FairIn

-----------------------------------------------------------------------------
(* Tournaments: every step keeps races in order *)

\* Requests that arrive, for which something is looked up and nothing saved.
LEMMA RaceArrivals ==
  ASSUME RaceInv, ChipsInv', NEW w \in Workers,
         \/ \E p \in Players : Register(w, p)
         \/ Start(w) \/ Reseed(w) \/ AdvanceSwissRound(w)
         \/ \E match \in matches, result \in {"A", "B", "tie"} :
              Report(w, match, result) \/ Correct(w, match, result)
         \/ \E match \in matches : \E changed \in Changed(match) : Swap(w, match, changed)
  PROVE  RaceInv'
<1>1. Serving /\ irregular \in BOOLEAN /\ made \in Nat
  BY DEF RaceInv, RaceFrame, ChipsInv
<1>2. PICK copy, ms : copy = row /\ ms = matches
  OBVIOUS
<1>3. Arrive(w) /\ row' = copy /\ matches' = ms /\ event' = event /\ made' \in Nat
  BY <1>1, <1>2 DEF Register, Start, Reseed, AdvanceSwissRound, Report, Correct, TakeResult, Swap, Rest
<1>4. /\ Regular => irregular' = irregular
      /\ Irregular => irregular' = TRUE
  BY DEF Regular, Irregular
<1>5. ASSUME NEW step, NEW work, Await(w, step, work), irregular' \in BOOLEAN, irregular => irregular',
             Raced /\ ~irregular' /\ (Quiet \/ pc[w] # "idle") => RaceOrRest(step, work, row, matches)
      PROVE  RaceInv'
  <2>1. Moved(w, step, work)
    BY <1>1, <1>5, TourAwaits
  <2>2. Raced /\ ~irregular' /\ (Quiet \/ pc[w] # "idle") => RaceOrRest(step, work, copy, ms)
    BY <1>2, <1>5
  <2> QED  BY <1>3, <1>5, <2>1, <2>2, RaceStep
<1>6. ASSUME NEW p \in Players, Register(w, p) PROVE RaceInv'
  <2>1. PICK work : work = [copy |-> WithChips([row EXCEPT !.entrants = Append(@, p)], {p}), player |-> p]
    OBVIOUS
  <2>2. Await(w, "saveEntrant", work) /\ irregular' = irregular
    BY <1>4, <1>6, <2>1 DEF Register
  <2>3. Raced /\ (Quiet \/ pc[w] # "idle") => RaceOrRest("saveEntrant", work, row, matches)
    BY <1>6, <2>1, RaceOfEntrants
  <2> QED  BY <1>1, <1>5, <2>2, <2>3
<1>7. CASE Start(w)
  <2>1. PICK work : work = [copy |-> WithChips(row, Entrants(row)), started |-> TRUE]
    OBVIOUS
  <2>2. Await(w, "clear", work) /\ irregular' = irregular
    BY <1>4, <1>7, <2>1 DEF Start
  <2>3. Raced /\ (Quiet \/ pc[w] # "idle") => RaceOrRest("clear", work, row, matches)
    BY <1>7, <2>1, RaceOfEntrants
  <2> QED  BY <1>1, <1>5, <2>2, <2>3
<1>8. CASE AdvanceSwissRound(w)
  <2>1. PICK work : work = [order |-> InOrder(Alive(row), Ranks), round |-> LastRound + 1]
    OBVIOUS
  <2>2. Await(w, "saveRound", work) /\ irregular' = irregular
    BY <1>4, <1>8, <2>1 DEF AdvanceSwissRound
  <2>3. Raced /\ (Quiet \/ pc[w] # "idle") => RaceOrRest("saveRound", work, row, matches)
    BY <1>8, <2>1, RaceOfAdvance
  <2> QED  BY <1>1, <1>5, <2>2, <2>3
<1>9. ASSUME NEW match \in matches, NEW result \in {"A", "B", "tie"}, Report(w, match, result) PROVE RaceInv'
  <2>1. PICK work : work = [copy |-> row, match |-> match,
                            saved |-> [match EXCEPT !.done = TRUE, !.winner = Winner(match, result)]]
    OBVIOUS
  <2>2. Await(w, "saveResult", work) /\ (irregular' = irregular \/ irregular' = TRUE)
    BY <1>4, <1>9, <2>1 DEF Report, TakeResult
  <2>3. Raced /\ ~irregular' /\ (Quiet \/ pc[w] # "idle") => RaceOrRest("saveResult", work, row, matches)
    <3>1. ASSUME Raced, ~irregular', Quiet \/ pc[w] # "idle"
          PROVE  RaceOrRest("saveResult", work, row, matches)
      BY <1>9, <2>1, <3>1, RaceOfReport
    <3> QED  BY <3>1
  <2>4. CASE irregular' = irregular
    BY <1>1, <1>5, <2>2, <2>3, <2>4
  <2>5. CASE irregular' = TRUE
    <3>1. irregular' \in BOOLEAN /\ irregular'
      BY <2>5
    <3> QED  BY <1>5, <2>2, <2>3, <3>1
  <2> QED  BY <2>2, <2>4, <2>5
<1>10. ASSUME \/ Reseed(w)
              \/ \E match \in matches, result \in {"A", "B", "tie"} : Correct(w, match, result)
              \/ \E match \in matches : \E changed \in Changed(match) : Swap(w, match, changed)
       PROVE  RaceInv'
  <2>1. irregular' = TRUE
    BY <1>4, <1>10 DEF Reseed, Correct, Swap
  <2>2. PICK step, work : Await(w, step, work)
    BY <1>10 DEF Reseed, Correct, TakeResult, Swap
  <2> QED  BY <1>5, <2>1, <2>2
<1> QED  BY <1>6, <1>7, <1>8, <1>9, <1>10

\* Requests that are being served.
LEMMA RaceServes ==
  ASSUME RaceInv, ChipsInv', NEW w \in Workers, TournamentServe(w)
  PROVE  RaceInv'
<1>1. Serving /\ irregular \in BOOLEAN /\ made \in Nat
  BY DEF RaceInv, RaceFrame, ChipsInv
<1>2. PICK copy, ms : row' = copy /\ matches' = ms
  OBVIOUS
<1>3. /\ pc[w] # "idle" /\ overlapped' = overlapped /\ irregular' = irregular /\ event' = event /\ made' \in Nat
  BY <1>1 DEF TournamentServe, SaveEntrant, Clear, SaveOrder, Generate, Activate, SaveResult, ReadFinal,
       SaveFinal, SaveTransfer, SaveChampion, SaveSwap, SaveRound, At, Rest
<1>4. ASSUME NEW step, NEW work, Moved(w, step, work), Raced => RaceOrRest(step, work, copy, ms)
      PROVE  RaceInv'
  BY <1>1, <1>2, <1>3, <1>4, RaceStep
<1>5. ASSUME Answer(w), Raced => Rested(copy, ms)
      PROVE  RaceInv'
  <2>1. PICK work : work = my'[w]
    OBVIOUS
  <2>2. Moved(w, "idle", work)
    BY <1>1, <1>5, <2>1, TourAnswers
  <2> QED  BY <1>4, <1>5, <2>2 DEF RaceOrRest
<1>6. ASSUME NEW step, Then(w, step), Raced => RaceOrRest(step, my[w], copy, ms)
      PROVE  RaceInv'
  <2>1. PICK work : work = my[w]
    OBVIOUS
  <2>2. Moved(w, step, work)
    BY <1>1, <1>6, <2>1, TourGoesOn
  <2> QED  BY <1>4, <1>6, <2>1, <2>2
<1>7. Raced => RaceAt(pc[w], my[w], row, matches)
  BY <1>3 DEF RaceInv, RaceNow
<1>8. CASE SaveEntrant(w)
  BY <1>2, <1>3, <1>5, <1>8, RaceOfStart DEF SaveEntrant
<1>9. CASE Clear(w)
  BY <1>2, <1>3, <1>6, <1>9, RaceOfStart DEF Clear
<1>10. CASE SaveOrder(w)
  BY <1>2, <1>3, <1>6, <1>10, RaceOfStart DEF SaveOrder
<1>11. CASE Generate(w)
  BY <1>2, <1>3, <1>6, <1>11, RaceOfStart DEF Generate
<1>12. CASE Activate(w)
  BY <1>2, <1>3, <1>5, <1>12, RaceOfStart DEF Activate
<1>13. CASE SaveResult(w)
  <2>1. copy = row
    BY <1>2, <1>13 DEF SaveResult
  <2>2. Raced => /\ event.chips => RaceOrRest("transfer", my[w], copy, ms) /\ Then(w, "transfer")
                 /\ ~event.chips => Rested(copy, ms) /\ Answer(w)
    BY <1>2, <1>3, <1>13, <2>1, RaceOfSave
  <2>3. CASE Raced
    BY <1>5, <1>6, <2>2, <2>3
  <2>4. CASE ~Raced
    <3>1. \/ Then(w, "readFinal") \/ Then(w, "transfer") \/ Answer(w)
      BY <1>13 DEF SaveResult
    <3> QED  BY <1>5, <1>6, <2>4, <3>1
  <2> QED  BY <2>3, <2>4
<1>14. CASE SaveTransfer(w)
  <2>1. ms = matches
    BY <1>2, <1>14 DEF SaveTransfer
  <2>2. Raced => \/ Await(w, "saveChampion", [copy |-> copy])
                      /\ RaceOrRest("saveChampion", [copy |-> copy], copy, ms)
                 \/ Answer(w) /\ Rested(copy, ms)
    BY <1>2, <1>3, <1>14, <2>1, RaceOfTransfer
  <2>3. PICK work : work = [copy |-> copy]
    OBVIOUS
  <2>4. Await(w, "saveChampion", work) \/ Answer(w)
    BY <1>2, <1>14, <2>3 DEF SaveTransfer
  <2>5. CASE Await(w, "saveChampion", work) /\ (Raced => RaceOrRest("saveChampion", work, copy, ms))
    <3>1. Moved(w, "saveChampion", work)
      BY <1>1, <2>5, TourAwaits
    <3> QED  BY <1>4, <2>5, <3>1
  <2>6. CASE Answer(w) /\ (Raced => Rested(copy, ms))
    BY <1>5, <2>6
  <2> QED  BY <2>2, <2>3, <2>4, <2>5, <2>6
<1>15. CASE SaveChampion(w)
  <2>1. ms = matches
    BY <1>2, <1>15 DEF SaveChampion
  <2>2. Raced => Rested(copy, ms)
    BY <1>2, <1>3, <1>15, <2>1, RaceOfChampion
  <2> QED  BY <1>5, <1>15, <2>2 DEF SaveChampion
<1>16. CASE SaveRound(w)
  <2>1. copy = row
    BY <1>2, <1>16 DEF SaveRound
  <2>2. Raced => Rested(copy, ms)
    BY <1>2, <1>3, <1>16, <2>1, RaceOfRound
  <2> QED  BY <1>5, <1>16, <2>2 DEF SaveRound
<1>17. ASSUME ReadFinal(w) \/ SaveFinal(w) \/ SaveSwap(w)
       PROVE  RaceInv'
  <2>1. pc[w] \in {"readFinal", "saveFinal", "saveSwap"}
    BY <1>17 DEF ReadFinal, SaveFinal, SaveSwap, At
  <2>2. ~Raced
    BY <1>7, <2>1 DEF RaceAt
  <2>3. Answer(w) \/ (\E step : Then(w, step)) \/ (\E step, work : Await(w, step, work))
    BY <1>17 DEF ReadFinal, SaveFinal, SaveSwap
  <2>4. \E step, work : Moved(w, step, work)
    BY <1>1, <2>3, TourAwaits, TourAnswers, TourGoesOn
  <2> QED  BY <1>4, <2>2, <2>4
<1> QED  BY <1>8, <1>9, <1>10, <1>11, <1>12, <1>13, <1>14, <1>15, <1>16, <1>17 DEF TournamentServe

LEMMA RaceInductive ==
  /\ TournamentInit => RaceInv
  /\ RaceInv /\ ChipsInv' /\ [TournamentNext]_tournamentVars => RaceInv'
<1>1. ASSUME TournamentInit PROVE RaceInv
  <2>1. ServeNothing(event.irregular, event.atOnce)
    BY <1>1 DEF TournamentInit
  <2>2. pc = [w \in Workers |-> "idle"] /\ overlapped = FALSE /\ irregular = FALSE
    BY <2>1 DEF ServeNothing
  <2>3. InTurn
    BY <2>2 DEF InTurn
  <2>4. FieldOK(EmptyRow) /\ EmptyRow.status = "DRAFT" /\ DOMAIN EmptyRow.stacks = {}
    BY DEF EmptyRow, FieldOK, IsInjective
  <2>5. Rested(row, matches)
    BY <1>1, <2>4 DEF TournamentInit, Rested, Draft
  <2>6. RaceNow
    BY <2>2, <2>5 DEF RaceNow
  <2> QED  BY <1>1, <2>2, <2>3, <2>6, ChipsInductive DEF RaceInv, RaceFrame, TournamentInit
<1>2. ASSUME RaceInv, ChipsInv', TournamentNext PROVE RaceInv'
  <2>1. PICK w \in Workers :
          \/ \E p \in Players : Register(w, p)
          \/ Start(w) \/ Reseed(w) \/ AdvanceSwissRound(w)
          \/ \E match \in matches :
               \/ \E result \in {"A", "B", "tie"} : Report(w, match, result) \/ Correct(w, match, result)
               \/ \E changed \in Changed(match) : Swap(w, match, changed)
          \/ TournamentServe(w)
          \/ Abort(w) /\ UNCHANGED <<row, matches>> /\ Rest
    BY <1>2 DEF TournamentNext
  <2>2. CASE TournamentServe(w)
    BY <1>2, <2>2, RaceServes
  <2>3. CASE Abort(w) /\ UNCHANGED <<row, matches>> /\ Rest
    <3>1. Serving /\ made \in Nat
      BY <1>2 DEF RaceInv, RaceFrame, ChipsInv
    <3>2. PICK copy, ms, work : row' = copy /\ matches' = ms /\ work = my'[w]
      OBVIOUS
    <3>3. Moved(w, "idle", work)
      BY <2>3, <3>1, <3>2, TourAnswers DEF Abort
    <3>4. pc[w] # "idle" /\ overlapped' = overlapped /\ irregular' = TRUE /\ event' = event /\ made' \in Nat
      BY <2>3, <3>1 DEF Abort, Irregular, Rest
    <3> QED  BY <1>2, <3>2, <3>3, <3>4, RaceStep
  <2>4. CASE \/ \E p \in Players : Register(w, p)
             \/ Start(w) \/ Reseed(w) \/ AdvanceSwissRound(w)
             \/ \E match \in matches, result \in {"A", "B", "tie"} :
                  Report(w, match, result) \/ Correct(w, match, result)
             \/ \E match \in matches : \E changed \in Changed(match) : Swap(w, match, changed)
    BY <1>2, <2>4, RaceArrivals
  <2> QED  BY <2>1, <2>2, <2>3, <2>4
<1>3. ASSUME RaceInv, ChipsInv', UNCHANGED tournamentVars PROVE RaceInv'
  <2>1. /\ pc' = pc /\ my' = my /\ row' = row /\ matches' = matches /\ event' = event /\ made' = made
        /\ overlapped' = overlapped /\ irregular' = irregular
    BY <1>3 DEF tournamentVars, requestVars
  <2>2. RaceFrame'
    BY <1>3, <2>1 DEF RaceInv, RaceFrame, InTurn
  <2>3. (Raced' <=> Raced) /\ (Quiet' <=> Quiet)
    BY <2>1 DEF Raced, Orderly, Quiet
  <2>4. ASSUME RaceNow PROVE RaceNow'
    <3>1. ASSUME NEW step, NEW work, RaceOrRest(step, work, row, matches)
          PROVE  RaceOrRest(step, work, row, matches)'
      <4>1. PICK copy, ms : copy = row /\ ms = matches
        OBVIOUS
      <4>2. RaceOrRest(step, work, copy, ms)'
        BY <2>1, <3>1, <4>1, RaceSame
      <4> QED  BY <2>1, <4>1, <4>2
    <3>2. Quiet => Rested(row, matches)'
      <4>1. Rested(row, matches) => RaceOrRest("idle", NoWork, row, matches)
        BY DEF RaceOrRest
      <4>2. RaceOrRest("idle", NoWork, row, matches)' => Rested(row, matches)'
        BY DEF RaceOrRest
      <4> QED  BY <2>4, <3>1, <4>1, <4>2 DEF RaceNow
    <3>3. ASSUME NEW w \in Workers, pc[w] # "idle" PROVE RaceAt(pc[w], my[w], row, matches)'
      <4>1. PICK step, work : step = pc[w] /\ work = my[w]
        OBVIOUS
      <4>2. RaceAt(step, work, row, matches)
        BY <2>4, <3>3, <4>1 DEF RaceNow
      <4>3. RaceOrRest(step, work, row, matches)
        BY <3>3, <4>1, <4>2 DEF RaceOrRest
      <4>4. RaceOrRest(step, work, row, matches)'
        BY <3>1, <4>3
      <4>5. RaceAt(step, work, row, matches)'
        BY <3>3, <4>1, <4>4 DEF RaceOrRest
      <4> QED  BY <2>1, <4>1, <4>5
    <3> QED  BY <2>1, <2>3, <3>2, <3>3 DEF RaceNow
  <2> QED  BY <1>3, <2>2, <2>3, <2>4 DEF RaceInv
<1> QED  BY <1>1, <1>2, <1>3

LEMMA RaceAlways == TournamentSpec => []RaceInv
<1>1. TournamentInit => ChipsInv /\ RaceInv
  BY ChipsInductive, RaceInductive
<1>2. (ChipsInv /\ RaceInv) /\ [TournamentNext]_tournamentVars => (ChipsInv /\ RaceInv)'
  BY ChipsInductive, RaceInductive
<1> QED  BY <1>1, <1>2, PTL DEF TournamentSpec

\* A chip race that has started is over when one player is left with chips, and only
\* then, in any field: a transfer never leaves the winner without chips, and the one
\* that leaves nobody else is followed by the save of the champion.
THEOREM ChipRacesAreSettled == TournamentSpec => []ChipRaceSettled
<1>1. RaceInv => ChipRaceSettled
  <2> SUFFICES ASSUME RaceInv, Orderly, Quiet, event.mode = "CHIP_RACE", row.status # "DRAFT"
               PROVE  LET racing == {p \in Entrants(row) : Stack(row, p) > 0}
                      IN  IF row.status = "COMPLETED" THEN racing = {row.champion} ELSE Cardinality(racing) > 1
    BY DEF ChipRaceSettled
  <2>1. Racing(row, matches) /\ event \in Events
    BY DEF RaceInv, RaceFrame, RaceNow, Raced, Rounds, Rested, Draft
  <2>2. event.chips
    BY <2>1, TournamentAssumption
  <2>3. {p \in Entrants(row) : Stack(row, p) > 0} = Alive(row)
    BY <2>2 DEF Alive
  <2>4. IF row.status = "COMPLETED" THEN Alive(row) = {row.champion} ELSE \E p, q \in Alive(row) : p # q
    BY <2>1 DEF Racing, Settled
  <2>5. IsFiniteSet(Alive(row)) /\ Cardinality(Alive(row)) \in Nat
    BY <2>1, FieldFinite, FS_CardinalityType DEF Racing, Started
  <2>6. ASSUME NEW p \in Alive(row), NEW q \in Alive(row), p # q PROVE Cardinality(Alive(row)) > 1
    <3>1. {p} \in SUBSET Alive(row) /\ {p} # Alive(row) /\ Cardinality({p}) = 1
      BY <2>6, FS_Singleton
    <3> QED  BY <2>5, <3>1, FS_Subset
  <2> QED  BY <2>3, <2>4, <2>6
<1> QED  BY <1>1, RaceAlways, PTL

\* Swiss rounds and chip races are fair in any field: whoever goes on has one match in
\* the last round, nobody has two, and an open match has no player without chips.
THEOREM EveryRoundIsFair == TournamentSpec => []RoundsAreFair
<1>1. RaceInv => RoundsAreFair
  <2> SUFFICES ASSUME RaceInv, Orderly, Quiet, event.mode \in Rounds, matches # {}
               PROVE  LET of(p) == {m \in matches : m.round = LastRound /\ p \in {m.a, m.b}}
                      IN  /\ \A p \in Entrants(row) : Cardinality(of(p)) <= 1
                          /\ \A p \in Alive(row) : of(p) # {}
                          /\ \A p \in Entrants(row) \ Alive(row) : \A m \in of(p) : m.done
    BY DEF RoundsAreFair
  <2> DEFINE of(p) == {m \in matches : m.round = LastRound /\ p \in {m.a, m.b}}
  <2>1. FairAmong(Entrants(row), Alive(row), matches) /\ FieldOK(row)
    BY DEF RaceInv, RaceNow, Raced, Rested, Racing, Started, FairIn
  <2>2. Entrants(row) \subseteq Players /\ Alive(row) \subseteq Entrants(row)
    BY <2>1, FieldFinite
  <2>3. PICK last \in matches : IsLatest(matches, last)
    BY <2>1 DEF FairAmong
  <2>4. \A n \in matches : n.round = LastRound <=> IsLatest(matches, n)
    BY <2>1, <2>3, LastIsLatest DEF FairAmong
  <2>5. \A p : of(p) = {m \in matches : IsLatest(matches, m) /\ p \in Two(m)}
    BY <2>4 DEF Two
  <2> HIDE DEF of
  <2>6. ASSUME NEW p \in Entrants(row) PROVE Cardinality(of(p)) <= 1
    <3>1. CASE of(p) = {}
      BY <3>1, FS_EmptySet
    <3>2. ASSUME NEW m \in of(p) PROVE Cardinality(of(p)) <= 1
      <4>1. \A n \in of(p) : n = m
        BY <2>1, <2>2, <2>5, <3>2 DEF FairAmong
      <4>2. of(p) = {m}
        BY <3>2, <4>1
      <4>3. Cardinality(of(p)) = 1
        BY <4>2, FS_Singleton
      <4> QED  BY <4>3
    <3> QED  BY <3>1, <3>2
  <2>7. \A p \in Alive(row) : of(p) # {}
    BY <2>1, <2>5 DEF FairAmong
  <2>8. \A p \in Entrants(row) \ Alive(row) : \A m \in of(p) : m.done
    <3>1. \A p \in Entrants(row) : p # Nobody
      BY <2>2, TournamentAssumption
    <3> QED  BY <2>1, <2>5, <3>1 DEF FairAmong
  <2> QED  BY <2>6, <2>7, <2>8 DEF of
<1> QED  BY <1>1, RaceAlways, PTL
=============================================================================
