---------------------------- MODULE Matchmaking ----------------------------
(***************************************************************************)
(* Finding an opponent: the queue of MatchmakingV2Service (requests in     *)
(* PostgreSQL, their ids in a Redis list), the sessions in which a pair    *)
(* confirms its match, and the "looking" board of MatchmakingService with  *)
(* its one row per user.                                                   *)
(*                                                                         *)
(* The list holds a request from its lPush to the rPop of some tryMatch,   *)
(* which has it in its hands until it is paired or pushed back.  Requests  *)
(* and sessions are read, changed in memory and saved as a whole.          *)
(***************************************************************************)
EXTENDS Requests, Sequences, SequencesExt

CONSTANTS
  Users,
  Kinds,         \* what a request asks for: game, stakes, place, radius and rating range
  Suit,          \* pairs of kinds that suit each other, as sets: same game and stakes, each
                 \* in the other's rating range, no farther apart than the smaller radius
  Scenes         \* what is followed: the calls made, the users, requests and posts in all,
                 \* whether anything expires, requests served at a time and irregular
                 \* steps (requests cut short)

Calls == {"search", "confirm", "cancel", "status", "leave", "post", "auto"}

ASSUME MatchmakingAssumption ==
  /\ \A pair \in Suit : pair \subseteq Kinds
  /\ Scenes \subseteq [calls : SUBSET Calls, users : SUBSET Users, asks : Nat, posts : Nat,
                       expires : BOOLEAN, atOnce : Nat, irregular : Nat]

VARIABLES
  scene,         \* fixed from the start
  asks,          \* rows of matchmaking_request_v2, in the order of insertion
  queue,         \* the Redis list, from its left end to its right: indexes of asks
  sessions,      \* rows of matchmaking_session_v2
  games,         \* pool matches created: between whom, and by which session (0: by none)
  agreed,        \* per session, the users whose confirmation was accepted
  board,         \* rows of matchmaking_requests that exist, numbered as they were created
  posts,         \* rows of matchmaking_requests created so far
  posting        \* users who asked to be on the board and have not left it since

matchmakingVars == <<scene, asks, queue, sessions, games, agreed, board, posts, posting>>
vars == <<requestVars, matchmakingVars>>

Status == {"PENDING", "MATCHED", "CANCELLED", "EXPIRED"}
SessionStatus == {"PENDING_CONFIRMATION", "CONFIRMED", "CANCELLED", "EXPIRED"}

NewAsk(u, k) == [user |-> u, kind |-> k, status |-> "PENDING", late |-> FALSE]
NewSession(first, best) ==
  [a |-> first.user, b |-> best.user, okA |-> FALSE, okB |-> FALSE,
   status |-> "PENDING_CONFIRMATION", late |-> FALSE, game |-> 0]

Init ==
  /\ scene \in Scenes
  /\ asks = <<>> /\ queue = <<>> /\ sessions = <<>> /\ games = <<>> /\ agreed = <<>>
  /\ board = {} /\ posts = 0 /\ posting = {}
  /\ ServeNothing(scene.irregular, scene.atOnce)

Call(w, call) == call \in scene.calls /\ Arrive(w) /\ Regular
BoardRest == UNCHANGED <<board, posts, posting>>

-----------------------------------------------------------------------------
(* Time: expiresAt passes.  Lateness is the clock's: a copy that is saved does not undo it. *)

AskGetsLate(i) ==
  /\ scene.expires /\ asks[i].status = "PENDING" /\ ~asks[i].late
  /\ asks' = [asks EXCEPT ![i].late = TRUE]
  /\ UNCHANGED <<requestVars, scene, queue, sessions, games, agreed>> /\ BoardRest

SessionGetsLate(s) ==
  /\ scene.expires /\ ~sessions[s].late
  /\ sessions' = [sessions EXCEPT ![s].late = TRUE]
  /\ UNCHANGED <<requestVars, scene, asks, queue, games, agreed>> /\ BoardRest

\* expireStaleRequests: one UPDATE.
Swept == [i \in DOMAIN asks |->
            IF asks[i].status = "PENDING" /\ asks[i].late THEN [asks[i] EXCEPT !.status = "EXPIRED"]
            ELSE asks[i]]

-----------------------------------------------------------------------------
(* searchAndEnqueue *)

Search(w, u, k) ==
  /\ Call(w, "search")
  /\ Len(asks) + Cardinality({v \in Workers : pc[v] = "enter"}) < scene.asks
  /\ asks' = Swept
  /\ Await(w, "enter", [ask |-> NewAsk(u, k)])
  /\ UNCHANGED <<scene, queue, sessions, games, agreed>> /\ BoardRest

Enter(w) ==
  /\ At(w, "enter")
  /\ asks' = Append(asks, my[w].ask)
  /\ Await(w, "push", [id |-> Len(asks) + 1])
  /\ UNCHANGED <<scene, queue, sessions, games, agreed>> /\ BoardRest

Push(w) ==
  /\ At(w, "push")
  /\ queue' = <<my[w].id>> \o queue
  /\ Await(w, "sweep", [then |-> "pop"])
  /\ UNCHANGED <<scene, asks, sessions, games, agreed>> /\ BoardRest

\* tryMatch begins with expireStaleRequests and expireStaleSessions; confirm and
\* status begin with the latter, which reads the sessions, then saves the late ones.
StaleSessions == {s \in DOMAIN sessions : sessions[s].status = "PENDING_CONFIRMATION" /\ sessions[s].late}

Sweep(w) ==
  /\ At(w, "sweep")
  /\ asks' = IF my[w].then = "pop" THEN Swept ELSE asks
  /\ Await(w, "expire", [for |-> my[w], stale |-> [s \in StaleSessions |-> sessions[s]]])
  /\ UNCHANGED <<scene, queue, sessions, games, agreed>> /\ BoardRest

ExpireSession(w) ==
  /\ At(w, "expire")
  /\ IF DOMAIN my[w].stale = {}
     THEN Await(w, my[w].for.then, my[w].for) /\ UNCHANGED sessions
     ELSE LET s == CHOOSE s \in DOMAIN my[w].stale : TRUE
          IN  /\ sessions' = [sessions EXCEPT ![s] = [my[w].stale[s] EXCEPT !.status = "EXPIRED"]]
              /\ Await(w, "expire", [my[w] EXCEPT !.stale = [t \in DOMAIN @ \ {s} |-> @[t]]])
  /\ UNCHANGED <<scene, asks, queue, games, agreed>> /\ BoardRest

-----------------------------------------------------------------------------
(* tryMatch *)

Pop(w) ==
  /\ At(w, "pop")
  /\ IF queue = <<>> THEN Answer(w) /\ UNCHANGED queue
     ELSE queue' = Front(queue) /\ Await(w, "readFirst", [first |-> Last(queue)])
  /\ UNCHANGED <<scene, asks, sessions, games, agreed>> /\ BoardRest

\* A request that is not waiting any more is dropped and the next one popped (20
\* at most; the queues here are shorter).
ReadFirst(w) ==
  LET ask == asks[my[w].first]
  IN  /\ At(w, "readFirst")
      /\ IF ask.status = "PENDING" /\ ~ask.late
         THEN Await(w, "choose", [first |-> my[w].first, ask |-> ask]) /\ UNCHANGED asks
         ELSE /\ asks' = IF ask.status = "PENDING" THEN [asks EXCEPT ![my[w].first].status = "EXPIRED"]
                         ELSE asks
              /\ Await(w, "pop", NoWork)
      /\ UNCHANGED <<scene, queue, sessions, games, agreed>> /\ BoardRest

\* (mutant) A request may be answered by another one of the same user.
SuitedSelf(ask, other) == {ask.kind, other.kind} \in Suit
Suited(ask, other) == {ask.kind, other.kind} \in Suit /\ ask.user # other.user

Opponents(first, ask) ==
  {i \in DOMAIN asks \ {first} : asks[i].status = "PENDING" /\ ~asks[i].late /\ Suited(ask, asks[i])}

\* The nearest of them: any, as far as this model knows.
Choose(w) ==
  LET others == Opponents(my[w].first, my[w].ask)
  IN  /\ At(w, "choose")
      /\ IF others = {} THEN Then(w, "putBack")
         ELSE \E best \in others :
                Await(w, "unqueue", [first |-> my[w].first, ask |-> my[w].ask, best |-> best, other |-> asks[best]])
      /\ UNCHANGED <<scene, asks, queue, sessions, games, agreed>> /\ BoardRest

\* (mutant) A request that finds nobody is not put back.
NotBack(w) == queue
Back(w) == <<my[w].first>> \o queue

PutBack(w) ==
  /\ At(w, "putBack")
  /\ queue' = Back(w)
  /\ Answer(w)
  /\ UNCHANGED <<scene, asks, sessions, games, agreed>> /\ BoardRest

\* removeRequestFromQueue turns the list once around, without the opponent, who is
\* in it once or not at all; taken as one step.
Unqueue(w) ==
  /\ At(w, "unqueue")
  /\ \/ \E n \in DOMAIN queue : queue[n] = my[w].best /\ queue' = RemoveAt(queue, n)
     \/ my[w].best \notin Range(queue) /\ UNCHANGED queue
  /\ Then(w, "pair")
  /\ UNCHANGED <<scene, asks, sessions, games, agreed>> /\ BoardRest

Pair(w) ==
  /\ At(w, "pair")
  /\ sessions' = Append(sessions, NewSession(my[w].ask, my[w].other))
  /\ agreed' = Append(agreed, {})
  /\ Then(w, "saveAsks")
  /\ UNCHANGED <<scene, asks, queue, games>> /\ BoardRest

SaveAsks(w) ==
  /\ At(w, "saveAsks")
  /\ asks' = [asks EXCEPT ![my[w].first] = [my[w].ask EXCEPT !.status = "MATCHED", !.late = @ \/ asks[my[w].first].late],
                          ![my[w].best] = [my[w].other EXCEPT !.status = "MATCHED", !.late = @ \/ asks[my[w].best].late]]
  /\ Answer(w)
  /\ UNCHANGED <<scene, queue, sessions, games, agreed>> /\ BoardRest

-----------------------------------------------------------------------------
(* confirm, cancel, status of a session *)

\* (Followed until as many matches exist as requests may be made.)
Confirm(w, u, s) ==
  /\ Call(w, "confirm")
  /\ Len(games) < scene.asks
  /\ u \in {sessions[s].a, sessions[s].b}
  /\ Await(w, "sweep", [then |-> "confirm", user |-> u, session |-> s])
  /\ UNCHANGED matchmakingVars

\* (mutant) Whoever confirms does so for both.
FlaggedBoth(copy, u) == [copy EXCEPT !.okA = TRUE, !.okB = TRUE]
Flagged(copy, u) == IF copy.a = u THEN [copy EXCEPT !.okA = TRUE] ELSE [copy EXCEPT !.okB = TRUE]

\* A late session is saved as EXPIRED whatever it has become; one that is not
\* pending is answered with its status.
ReadSession(w) ==
  LET s == my[w].session
      copy == sessions[s]
      flagged == Flagged(copy, my[w].user)
  IN  /\ At(w, "confirm")
      /\ IF copy.late
         THEN /\ Await(w, "saveSession", [session |-> s, copy |-> [copy EXCEPT !.status = "EXPIRED"]])
              /\ UNCHANGED agreed
         ELSE IF copy.status # "PENDING_CONFIRMATION" THEN Answer(w) /\ UNCHANGED agreed
         ELSE /\ Await(w, IF flagged.okA /\ flagged.okB THEN "createGame" ELSE "saveSession",
                       [session |-> s, copy |-> flagged])
              /\ agreed' = [agreed EXCEPT ![s] = @ \cup {my[w].user}]
      /\ UNCHANGED <<scene, asks, queue, sessions, games>> /\ BoardRest

CreateGame(w) ==
  /\ At(w, "createGame")
  /\ games' = Append(games, [players |-> {my[w].copy.a, my[w].copy.b}, session |-> my[w].session])
  /\ Await(w, "saveSession",
           [my[w] EXCEPT !.copy = [@ EXCEPT !.game = Len(games) + 1, !.status = "CONFIRMED"]])
  /\ UNCHANGED <<scene, asks, queue, sessions, agreed>> /\ BoardRest

SaveSession(w) ==
  /\ At(w, "saveSession")
  /\ sessions' = [sessions EXCEPT ![my[w].session] =
                    [my[w].copy EXCEPT !.late = @ \/ sessions[my[w].session].late]]
  /\ Answer(w)
  /\ UNCHANGED <<scene, asks, queue, games, agreed>> /\ BoardRest

\* cancel asks for no status.
Cancel(w, s) ==
  /\ Call(w, "cancel")
  /\ Await(w, "saveSession", [session |-> s, copy |-> [sessions[s] EXCEPT !.status = "CANCELLED"]])
  /\ UNCHANGED matchmakingVars

\* status, of which only the sweep is left to see.
GetStatus(w) ==
  /\ Call(w, "status")
  /\ Await(w, "sweep", [then |-> "answer"])
  /\ UNCHANGED matchmakingVars

AnswerStatus(w) ==
  /\ At(w, "answer")
  /\ Answer(w)
  /\ UNCHANGED matchmakingVars

-----------------------------------------------------------------------------
(* The looking board: createRequest, cancelRequest, leaveQueue, auto-match *)

RowsOf(u) == {r \in board : r.user = u}
Newest(u) == CHOOSE r \in RowsOf(u) : \A q \in RowsOf(u) : q.made <= r.made

\* createRequest refreshes the newest row of the user (inserting it again if it
\* is deleted meanwhile) or inserts one ...
Post(w, u) ==
  /\ Call(w, "post")
  /\ posts < scene.posts
  /\ posts' = posts + 1
  /\ Await(w, "saveRow", [row |-> IF RowsOf(u) # {} THEN Newest(u) ELSE [user |-> u, made |-> posts + 1]])
  /\ posting' = posting \cup {u}
  /\ UNCHANGED <<scene, asks, queue, sessions, games, agreed, board>>

SaveRow(w) ==
  /\ At(w, "saveRow")
  /\ board' = board \cup {my[w].row}
  /\ Then(w, "findNewest")
  /\ UNCHANGED <<scene, asks, queue, sessions, games, agreed, posts, posting>>

\* ... and keepNewestLookingRow finds the newest row, then deletes the others.
FindNewest(w) ==
  LET u == my[w].row.user
  IN  /\ At(w, "findNewest")
      /\ IF RowsOf(u) = {} THEN Answer(w) ELSE Await(w, "deleteOthers", [row |-> Newest(u)])
      /\ UNCHANGED matchmakingVars

Others(row) == {r \in board : r.user = row.user /\ r.made # row.made}

DeleteOthers(w) ==
  /\ At(w, "deleteOthers")
  /\ board' = board \ Others(my[w].row)
  /\ Answer(w)
  /\ UNCHANGED <<scene, asks, queue, sessions, games, agreed, posts, posting>>

\* leaveQueue: one DELETE on the board, one UPDATE of the waiting requests.
LeaveQueue(w, u) ==
  /\ Call(w, "leave")
  /\ board' = board \ RowsOf(u)
  /\ posting' = posting \ {u}
  /\ Await(w, "cancelAsks", [user |-> u])
  /\ UNCHANGED <<scene, asks, queue, sessions, games, agreed, posts>>

CancelAsks(w) ==
  /\ At(w, "cancelAsks")
  /\ asks' = [i \in DOMAIN asks |->
                IF asks[i].user = my[w].user /\ asks[i].status = "PENDING"
                THEN [asks[i] EXCEPT !.status = "CANCELLED"] ELSE asks[i]]
  /\ Answer(w)
  /\ UNCHANGED <<scene, queue, sessions, games, agreed>> /\ BoardRest

\* cancelRequest: one DELETE.
CancelRequest(w, u) ==
  /\ Call(w, "leave")
  /\ \E row \in RowsOf(u) : board' = board \ {row}
  /\ posting' = posting \ {u}
  /\ UNCHANGED <<pc, my, scene, asks, queue, sessions, games, agreed, posts>>

\* search: who waits in the queue, and who is on the board unless just matched (of
\* a user who is both only the newer row counts: it may be either, here).
Waiting == {i \in DOMAIN asks : asks[i].status = "PENDING" /\ ~asks[i].late}
Visible == {asks[i].user : i \in Waiting}
             \cup ({r.user : r \in board} \ {asks[i].user : i \in {j \in DOMAIN asks : asks[j].status = "MATCHED"}})

\* autoCreateMatch: the best of them, and a match with them.
AutoMatch(w, u) ==
  /\ Call(w, "auto")
  /\ \E other \in Visible \ {u} : Await(w, "createAuto", [players |-> {u, other}])
  /\ Len(games) < scene.asks
  /\ UNCHANGED matchmakingVars

CreateAuto(w) ==
  /\ At(w, "createAuto")
  /\ games' = Append(games, [players |-> my[w].players, session |-> 0])
  /\ Answer(w)
  /\ UNCHANGED <<scene, asks, queue, sessions, agreed>> /\ BoardRest

-----------------------------------------------------------------------------
Serve(w) ==
  \/ Enter(w) \/ Push(w) \/ Sweep(w) \/ ExpireSession(w) \/ Pop(w) \/ ReadFirst(w) \/ Choose(w)
  \/ PutBack(w) \/ Unqueue(w) \/ Pair(w) \/ SaveAsks(w) \/ ReadSession(w) \/ CreateGame(w)
  \/ SaveSession(w) \/ AnswerStatus(w) \/ SaveRow(w) \/ FindNewest(w) \/ DeleteOthers(w)
  \/ CancelAsks(w) \/ CreateAuto(w)

Next ==
  \/ \E w \in Workers :
       \/ \E u \in scene.users :
            \/ \E k \in Kinds : Search(w, u, k)
            \/ \E s \in DOMAIN sessions : Confirm(w, u, s)
            \/ Post(w, u) \/ CancelRequest(w, u) \/ LeaveQueue(w, u) \/ AutoMatch(w, u)
       \/ \E s \in DOMAIN sessions : Cancel(w, s)
       \/ GetStatus(w)
       \/ Serve(w)
       \/ Abort(w) /\ UNCHANGED matchmakingVars
  \/ \E i \in DOMAIN asks : AskGetsLate(i)
  \/ \E s \in DOMAIN sessions : SessionGetsLate(s)

Spec == Init /\ [][Next]_vars

-----------------------------------------------------------------------------
(* What the matchmaking promises *)

\* Every variable keeps its shape, and the list names requests that exist.
Ask == [user : Users, kind : Kinds, status : Status, late : BOOLEAN]
TypeOK ==
  /\ asks \in Seq(Ask)
  /\ queue \in Seq(DOMAIN asks)
  /\ sessions \in Seq([a : Users, b : Users, okA : BOOLEAN, okB : BOOLEAN,
                       status : SessionStatus, late : BOOLEAN, game : 0 .. Len(games)])
  /\ games \in Seq([players : SUBSET Users, session : 0 .. Len(sessions)])
  /\ agreed \in [DOMAIN sessions -> SUBSET Users]
  /\ board \subseteq [user : Users, made : 1 .. posts]
  /\ posting \subseteq Users

\* However searches, cancellations and expiries interleave, a request that still
\* waits is in the list exactly once, so that a later search can pop it.  (A
\* process that dies between rPop and lPush takes it along.)
WaitingIsQueued ==
  ~irregular /\ Quiet =>
    \A i \in Waiting :
      Cardinality({n \in DOMAIN queue : queue[n] = i}) = 1

\* Served in turn, every session has used up one request of each of its two
\* players, who are not the same: nobody is promised to two opponents by one
\* request.  (Two searches at a time choose the same opponent and break it.)
OneSessionPerRequest ==
  Orderly /\ Quiet =>
    /\ \A s \in DOMAIN sessions : sessions[s].a # sessions[s].b
    /\ \A u \in Users :
         Cardinality({s \in DOMAIN sessions : u \in {sessions[s].a, sessions[s].b}})
           = Cardinality({i \in DOMAIN asks : asks[i].user = u /\ asks[i].status = "MATCHED"})

\* A session's match exists only because both of its players confirmed, however
\* stale the copies that were saved; served in turn there is one at most.  (Two
\* confirmations at a time can create two, or none.)
GamesAreAgreed ==
  /\ \A g \in DOMAIN games : games[g].session # 0 => games[g].players = agreed[games[g].session]
  /\ Orderly => \A g, h \in DOMAIN games :
                  games[g].session = games[h].session /\ games[g].session # 0 => g = h

\* After a search nobody waits who suits somebody else that waits: "Drain up to N
\* queue entries looking for a valid pair" (matchmaking-v2.service.ts:199).  (The
\* first entry without a partner ends the search, and breaks it.)
NoPairLeftWaiting ==
  Orderly /\ Quiet /\ scene.calls = {"search"} =>
    \A i, j \in Waiting : i # j => ~Suited(asks[i], asks[j])

\* Whoever asked to be on the board is on it: "Always keep the newest row by
\* created_at so two cleanups cannot delete each other and leave the user
\* invisible" (matchmaking.service.ts:86).  (Each of two posts at a time can
\* find its own row the newest and delete the other's.)
PosterStaysVisible ==
  ~irregular /\ Quiet => \A u \in posting : RowsOf(u) # {}

\* A confirmed session, whose match exists, stays confirmed unless it is
\* cancelled.  (A confirmation repeated after its expiry saves it as EXPIRED.)
ConfirmedStays ==
  [][\A s \in DOMAIN sessions : sessions[s].status = "CONFIRMED" => sessions'[s].status # "EXPIRED"]_vars

\* Whoever leaves the queue is not matched by a request they had left.  (A search
\* that has read the request before saves it as MATCHED.)
LeftStaysLeft ==
  [][\A i \in DOMAIN asks : asks[i].status = "CANCELLED" => asks'[i].status = "CANCELLED"]_vars
=============================================================================
