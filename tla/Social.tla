------------------------------- MODULE Social -------------------------------
(***************************************************************************)
(* Players among themselves: friendships and blocks (FriendsService),      *)
(* direct and group threads (ChatService), and who is online               *)
(* (ChatGateway, whose sockets are kept in Redis by SocialRealtimeService).*)
(*                                                                         *)
(* A friendship is one row per pair, whoever asked; no index makes it so.  *)
(* It is found, changed in memory and saved as a whole.                    *)
(***************************************************************************)
EXTENDS Requests, Sequences, SequencesExt

CONSTANTS
  Users, Nobody,
  Sockets,       \* ids of connections; each is used once
  Scenes         \* what is followed: the calls made, the friendship rows, threads and
                 \* messages in all, requests served at a time and irregular steps
                 \* (the process dies)

Calls == {"friend", "block", "settings", "dm", "challenge", "group", "send", "connect"}

ASSUME SocialAssumption ==
  /\ Nobody \notin Users
  /\ Scenes \subseteq [calls : SUBSET Calls, rows : Nat, threads : Nat, messages : Nat,
                       atOnce : Nat, irregular : Nat]

VARIABLES
  scene,         \* fixed from the start
  pairs,         \* rows of friendships
  asked, agreed, \* <<u, v>>: u has asked v; u has accepted a request of v
  openTo,        \* users who let strangers write to them
  threads,       \* rows of chat_threads, each with its members and newest message
  messages,      \* rows of chat_messages
  sockets,       \* per socket: its user, whether it is open, whether its handler knows the user
  online,        \* per user: the Redis set of their sockets
  told           \* per user: whether their friends last heard that they are online

socialVars == <<scene, pairs, asked, agreed, openTo, threads, messages, sockets, online, told>>
vars == <<requestVars, socialVars>>

Status == {"PENDING", "ACCEPTED", "DECLINED", "BLOCKED", "CANCELLED"}

Init ==
  /\ scene \in Scenes
  /\ pairs = <<>> /\ asked = {} /\ agreed = {} /\ openTo = {}
  /\ threads = <<>> /\ messages = <<>>
  /\ sockets = [s \in Sockets |-> [user |-> Nobody, open |-> FALSE, known |-> FALSE]]
  /\ online = [u \in Users |-> {}]
  /\ told = [u \in Users |-> FALSE]
  /\ ServeNothing(scene.irregular, scene.atOnce)

Call(w, call) == call \in scene.calls /\ Arrive(w) /\ Regular
ChatRest == UNCHANGED <<openTo, threads, messages>>
PresenceRest == UNCHANGED <<sockets, online, told>>
FriendRest == UNCHANGED <<pairs, asked, agreed>>

-----------------------------------------------------------------------------
(* Friendships *)

RowsOf(u, v) == {i \in DOMAIN pairs : {pairs[i].from, pairs[i].to} = {u, v}}

\* findPair: any of the pair's rows; 0 when there is none.
Found(u, v) == IF RowsOf(u, v) = {} THEN {0} ELSE RowsOf(u, v)
StatusOf(i) == IF i = 0 THEN "NONE" ELSE pairs[i].status

Change(w, i, copy) == Await(w, "savePair", [row |-> i, copy |-> copy])
SetTo(row, status) == [row EXCEPT !.status = status]

Inserting == Cardinality({v \in Workers : pc[v] = "savePair" /\ my[v].row = 0})
MayInsert(i) == i = 0 => Len(pairs) + Inserting < scene.rows

\* request: isBlocked, findPair; a request that was turned down or withdrawn is renewed.
Request(w, u, v) ==
  /\ Call(w, "friend") /\ u # v
  /\ \E seen, row \in Found(u, v) :
       /\ StatusOf(seen) # "BLOCKED"
       /\ StatusOf(row) \in {"NONE", "DECLINED", "CANCELLED"}
       /\ MayInsert(row)
       /\ Change(w, row, [from |-> u, to |-> v, status |-> "PENDING", by |-> Nobody])
  /\ asked' = asked \cup {<<u, v>>}
  /\ UNCHANGED <<scene, pairs, agreed>> /\ ChatRest /\ PresenceRest

\* (mutant) Either of the two may accept.
MayAnswerEither(u, row) == u \in {row.from, row.to} /\ row.status = "PENDING"
MayAnswer(u, row) == row.to = u /\ row.status = "PENDING"

Accept(w, u, i) ==
  /\ Call(w, "friend")
  /\ MayAnswer(u, pairs[i])
  /\ Change(w, i, SetTo(pairs[i], "ACCEPTED"))
  /\ agreed' = agreed \cup {<<u, v>> : v \in {pairs[i].from, pairs[i].to} \ {u}}
  /\ UNCHANGED <<scene, pairs, asked>> /\ ChatRest /\ PresenceRest

Decline(w, u, i) ==
  /\ Call(w, "friend")
  /\ MayAnswer(u, pairs[i])
  /\ Change(w, i, SetTo(pairs[i], "DECLINED"))
  /\ UNCHANGED socialVars

CancelRequest(w, u, i) ==
  /\ Call(w, "friend")
  /\ pairs[i].from = u /\ pairs[i].status = "PENDING"
  /\ Change(w, i, SetTo(pairs[i], "CANCELLED"))
  /\ UNCHANGED socialVars

Unfriend(w, u, i) ==
  /\ Call(w, "friend")
  /\ u \in {pairs[i].from, pairs[i].to} /\ pairs[i].status = "ACCEPTED"
  /\ Change(w, i, SetTo(pairs[i], "CANCELLED"))
  /\ UNCHANGED socialVars

\* block: whatever the row was; the last to block is the one who may unblock.
Block(w, u, v) ==
  /\ Call(w, "block") /\ u # v
  /\ \E row \in Found(u, v) :
       /\ MayInsert(row)
       /\ Change(w, row, IF row = 0 THEN [from |-> u, to |-> v, status |-> "BLOCKED", by |-> u]
                         ELSE [pairs[row] EXCEPT !.status = "BLOCKED", !.by = u])
  /\ UNCHANGED socialVars

Unblock(w, u, v) ==
  /\ Call(w, "block") /\ u # v
  /\ \E row \in RowsOf(u, v) :
       /\ pairs[row].status = "BLOCKED" /\ pairs[row].by \in {Nobody, u}
       /\ Change(w, row, [pairs[row] EXCEPT !.status = "CANCELLED", !.by = Nobody])
  /\ UNCHANGED socialVars

SavePair(w) ==
  /\ At(w, "savePair")
  /\ pairs' = IF my[w].row = 0 THEN Append(pairs, my[w].copy)
              ELSE [pairs EXCEPT ![my[w].row] = my[w].copy]
  /\ Answer(w)
  /\ UNCHANGED <<scene, asked, agreed>> /\ ChatRest /\ PresenceRest

-----------------------------------------------------------------------------
(* Threads *)

\* update of the settings, of which allowDmFromNonFriends is followed.
ChangeSettings(w, u) ==
  /\ Call(w, "settings")
  /\ openTo' = IF u \in openTo THEN openTo \ {u} ELSE openTo \cup {u}
  /\ UNCHANGED <<pc, my, scene, threads, messages>> /\ FriendRest /\ PresenceRest

Thread(kind, who, owner) == [kind |-> kind, key |-> who, owner |-> owner, in |-> {}, last |-> 0]
Dms(who) == {t \in DOMAIN threads : threads[t].kind = "DM" /\ threads[t].key = who}
MayOpen == Len(threads) < scene.threads

\* getOrCreateDm for u and v; a thread there is, is the answer.
OpenDm(w, u, v) ==
  /\ Call(w, "dm") /\ u # v
  /\ \E seen, row \in Found(u, v) :
       /\ StatusOf(seen) # "BLOCKED"
       /\ StatusOf(row) = "ACCEPTED" \/ v \in openTo
  /\ Dms({u, v}) = {} /\ MayOpen
  /\ Await(w, "saveThread", [thread |-> Thread("DM", {u, v}, u), then |-> "idle"])
  /\ UNCHANGED socialVars

\* challenge: getOrCreateDm with a stranger too, then an invitation is sent in it; the
\* pool match created in between is a row of Matches, which nothing here reads.
Challenge(w, u, v) ==
  /\ Call(w, "challenge") /\ u # v
  /\ \E seen \in Found(u, v) : StatusOf(seen) # "BLOCKED"
  /\ Len(messages) < scene.messages
  /\ IF Dms({u, v}) # {}
     THEN \E t \in Dms({u, v}) : Await(w, "send", [in |-> t, from |-> u])
     ELSE MayOpen /\ Await(w, "saveThread", [thread |-> Thread("DM", {u, v}, u), then |-> "send"])
  /\ UNCHANGED socialVars

\* createGroup: of friends only.
CreateGroup(w, u, others) ==
  /\ Call(w, "group") /\ u \notin others /\ MayOpen
  /\ \A v \in others : \E seen, row \in Found(u, v) : StatusOf(seen) # "BLOCKED" /\ StatusOf(row) = "ACCEPTED"
  /\ Await(w, "saveThread", [thread |-> Thread("GROUP", others \cup {u}, u), then |-> "idle"])
  /\ UNCHANGED socialVars

\* A second DM of a pair violates a unique index, and the request fails.
SaveThread(w) ==
  LET thread == my[w].thread
  IN  /\ At(w, "saveThread")
      /\ IF thread.kind = "DM" /\ Dms(thread.key) # {} THEN Answer(w) /\ UNCHANGED threads
         ELSE /\ threads' = Append(threads, thread)
              /\ Await(w, "saveMembers", [in |-> Len(threads) + 1, who |-> thread.key,
                                          from |-> thread.owner, then |-> my[w].then])
      /\ UNCHANGED <<scene, openTo, messages>> /\ FriendRest /\ PresenceRest

\* addMembers, one at a time: the owner (no one is made ADMIN) adds a friend.
AddMember(w, u, t, v) ==
  /\ Call(w, "group")
  /\ threads[t].kind = "GROUP" /\ u = threads[t].owner /\ {u, v} \cap threads[t].in = {u}
  /\ \E row \in Found(u, v) : StatusOf(row) = "ACCEPTED"
  /\ Await(w, "saveMembers", [in |-> t, who |-> {v}, from |-> u, then |-> "idle"])
  /\ UNCHANGED socialVars

\* (mutant) Only the one who opens a thread is put into it.
JoiningOne(w) == {my[w].from}
Joining(w) == my[w].who

SaveMembers(w) ==
  /\ At(w, "saveMembers")
  /\ threads' = [threads EXCEPT ![my[w].in].in = @ \cup Joining(w)]
  /\ IF my[w].then = "idle" THEN Answer(w) ELSE Await(w, "send", [in |-> my[w].in, from |-> my[w].from])
  /\ UNCHANGED <<scene, openTo, messages>> /\ FriendRest /\ PresenceRest

Write(w, u, t) ==
  /\ Call(w, "send")
  /\ Len(messages) < scene.messages
  /\ Await(w, "send", [in |-> t, from |-> u])
  /\ UNCHANGED socialVars

\* send: assertMember (and RealAI's moderation, which may refuse: nothing is done then).
Send(w) ==
  /\ At(w, "send")
  /\ IF my[w].from \in threads[my[w].in].in THEN Then(w, "saveMessage") ELSE Answer(w)
  /\ UNCHANGED socialVars

SaveMessage(w) ==
  /\ At(w, "saveMessage")
  /\ messages' = Append(messages, my[w])
  /\ Await(w, "preview", [in |-> my[w].in, message |-> Len(messages) + 1])
  /\ UNCHANGED <<scene, openTo, threads>> /\ FriendRest /\ PresenceRest

Preview(w) ==
  /\ At(w, "preview")
  /\ threads' = [threads EXCEPT ![my[w].in].last = my[w].message]
  /\ Answer(w)
  /\ UNCHANGED <<scene, openTo, messages>> /\ FriendRest /\ PresenceRest

-----------------------------------------------------------------------------
(* Presence *)

SocketsRest == UNCHANGED <<scene, online, told>> /\ FriendRest /\ ChatRest

Connect(w, s, u) ==
  /\ Call(w, "connect")
  /\ sockets[s].user = Nobody
  /\ sockets' = [sockets EXCEPT ![s] = [user |-> u, open |-> TRUE, known |-> FALSE]]
  /\ Await(w, "authenticate", [socket |-> s, user |-> u])
  /\ SocketsRest

\* The token is verified and the user found: only now does the socket carry its user.
Authenticate(w) ==
  /\ At(w, "authenticate")
  /\ sockets' = [sockets EXCEPT ![my[w].socket].known = TRUE]
  /\ Then(w, "goOnline")
  /\ SocketsRest

GoOnline(w) ==
  /\ At(w, "goOnline")
  /\ online' = [online EXCEPT ![my[w].user] = @ \cup {my[w].socket}]
  /\ Await(w, "tell", [user |-> my[w].user, online |-> TRUE])
  /\ UNCHANGED <<scene, sockets, told>> /\ FriendRest /\ ChatRest

Tell(w) ==
  /\ At(w, "tell")
  /\ told' = [told EXCEPT ![my[w].user] = my[w].online]
  /\ Answer(w)
  /\ UNCHANGED <<scene, sockets, online>> /\ FriendRest /\ ChatRest

\* A socket may close while its connection is still being handled.
Disconnect(w, s) ==
  /\ Call(w, "connect")
  /\ sockets[s].open
  /\ sockets' = [sockets EXCEPT ![s].open = FALSE]
  /\ IF sockets[s].known THEN Await(w, "goOffline", [socket |-> s, user |-> sockets[s].user])
     ELSE Answer(w)
  /\ SocketsRest

GoOffline(w) ==
  /\ At(w, "goOffline")
  /\ online' = [online EXCEPT ![my[w].user] = @ \ {my[w].socket}]
  /\ Then(w, "stillOn")
  /\ UNCHANGED <<scene, sockets, told>> /\ FriendRest /\ ChatRest

\* (mutant) The friends are told whenever a socket closes.
EachGone(w) == TRUE
NoneLeft(w) == online[my[w].user] = {}

StillOn(w) ==
  /\ At(w, "stillOn")
  /\ IF NoneLeft(w) THEN Await(w, "tell", [user |-> my[w].user, online |-> FALSE]) ELSE Answer(w)
  /\ UNCHANGED socialVars

\* Every request being served is cut short and every socket closes, unhandled.
ProcessDies ==
  /\ Irregular
  /\ pc' = [w \in Workers |-> "idle"] /\ my' = [w \in Workers |-> NoWork]
  /\ sockets' = [s \in Sockets |-> [sockets[s] EXCEPT !.open = FALSE]]
  /\ UNCHANGED <<overlapped, atOnce>> /\ SocketsRest

-----------------------------------------------------------------------------
Serve(w) ==
  \/ SavePair(w) \/ SaveThread(w) \/ SaveMembers(w) \/ Send(w) \/ SaveMessage(w) \/ Preview(w)
  \/ Authenticate(w) \/ GoOnline(w) \/ Tell(w) \/ GoOffline(w) \/ StillOn(w)

Next ==
  \/ \E w \in Workers :
       \/ \E u \in Users :
            \/ \E v \in Users : \/ Request(w, u, v) \/ Block(w, u, v) \/ Unblock(w, u, v)
                                \/ OpenDm(w, u, v) \/ Challenge(w, u, v)
            \/ \E i \in DOMAIN pairs : \/ Accept(w, u, i) \/ Decline(w, u, i)
                                       \/ CancelRequest(w, u, i) \/ Unfriend(w, u, i)
            \/ ChangeSettings(w, u)
            \/ \E others \in SUBSET Users : CreateGroup(w, u, others)
            \/ \E t \in DOMAIN threads : \/ Write(w, u, t)
                                         \/ \E v \in Users : AddMember(w, u, t, v)
            \/ \E s \in Sockets : Connect(w, s, u)
       \/ \E s \in Sockets : Disconnect(w, s)
       \/ Serve(w)
  \/ ProcessDies

Spec == Init /\ [][Next]_vars

-----------------------------------------------------------------------------
(* What the players may rely on *)

\* Every variable keeps its shape.
TypeOK ==
  /\ pairs \in Seq([from : Users, to : Users, status : Status, by : Users \cup {Nobody}])
  /\ asked \subseteq Users \X Users /\ agreed \subseteq Users \X Users
  /\ openTo \subseteq Users
  /\ threads \in Seq([kind : {"DM", "GROUP"}, key : SUBSET Users, owner : Users,
                      in : SUBSET Users, last : 0 .. Len(messages)])
  /\ messages \in Seq([in : DOMAIN threads, from : Users])
  /\ sockets \in [Sockets -> [user : Users \cup {Nobody}, open : BOOLEAN, known : BOOLEAN]]
  /\ online \in [Users -> SUBSET Sockets]
  /\ told \in [Users -> BOOLEAN]

\* Nobody becomes a friend without wanting it: of two friends one has asked and
\* the other has accepted, whatever stale rows were saved in between.
FriendsAgreed ==
  \A i \in DOMAIN pairs :
    pairs[i].status = "ACCEPTED" =>
      /\ <<pairs[i].from, pairs[i].to>> \in asked
      /\ <<pairs[i].to, pairs[i].from>> \in agreed

\* Served in turn, a pair has one row, so that all its calls see the same
\* friendship or block.  (Two players who ask each other at a time get two rows.)
OneRowPerPair ==
  Orderly =>
    \A i, j \in DOMAIN pairs : {pairs[i].from, pairs[i].to} = {pairs[j].from, pairs[j].to} => i = j

\* A direct thread has both of its players in it and a group its founder, and
\* there is one direct thread per pair, also when both open it at the same time;
\* served in turn, a thread shows its newest message.  (If the process dies
\* between the two saves, the thread is found ever after and admits nobody.)
ThreadsAreWhole ==
  Quiet /\ ~irregular =>
    \A t \in DOMAIN threads :
      /\ threads[t].kind = "DM" => threads[t].in = threads[t].key /\ Dms(threads[t].key) = {t}
      /\ threads[t].owner \in threads[t].in
      /\ Orderly => \A n \in DOMAIN messages : messages[n].in = t => n <= threads[t].last

\* Served in turn, a user's set holds exactly the sockets that are open, and the
\* friends were last told whether there is one.  (A socket that closes while it
\* is being admitted, or with the process, stays in the set for ever.)
PresenceIsTrue ==
  Orderly /\ Quiet =>
    \A u \in Users :
      /\ online[u] = {s \in Sockets : sockets[s].user = u /\ sockets[s].open}
      /\ told[u] = (online[u] # {})

\* Nobody is online whose sockets have all closed.
NoGhosts ==
  Quiet => \A u \in Users : online[u] # {} => \E s \in online[u] : sockets[s].open

\* A block is lifted by whoever imposed it, "Only the blocker can unblock"
\* (friends.service.ts:204): a row that was blocked by one user is not blocked by
\* another in the next state.  (If both have blocked, one of them lifts both.)
BlockIsItsBlockers ==
  [][\A i \in DOMAIN pairs :
       pairs[i].status = "BLOCKED" /\ pairs'[i].status = "BLOCKED" => pairs[i].by = pairs'[i].by]_vars

\* Who has a thread with another and is still in it can be answered: nobody is
\* left with a direct thread that holds neither.
NoThreadLocksOut == Quiet => \A t \in DOMAIN threads : threads[t].in # {}
=============================================================================
