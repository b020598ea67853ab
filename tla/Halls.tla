------------------------------- MODULE Halls -------------------------------
(***************************************************************************)
(* Who is where: check-ins of HallsV2Service, the V1 rows of HallsService  *)
(* that the live board counts, and the caches in Redis of the board and of *)
(* every hall's feed.                                                      *)
(*                                                                         *)
(* A V2 check-in writes to five places, one after the other: the V2 rows,  *)
(* the feed, the V1 rows, the board and the player's activity.  What of it *)
(* is still to be done when a handler awaits is its "todo".                *)
(***************************************************************************)
EXTENDS Requests, Sequences, SequencesExt

CONSTANTS
  Visitors, Places,
  HallScenes     \* what is followed: the calls made, the halls at the start (by place) and
                 \* in all, V2 and V1 rows and posts in all, whether rows and caches expire,
                 \* requests served at a time and irregular steps (requests cut short)

HallCalls == {"in", "out", "inV1", "live", "feed", "post", "hint", "create"}

ASSUME HallsAssumption ==
  HallScenes \subseteq [calls : SUBSET HallCalls, seeded : Seq(Places), halls : Nat, stays : Nat, rows : Nat,
                    posts : Nat, expires : BOOLEAN, atOnce : Nat, irregular : Nat]

VARIABLES
  hallScene,     \* fixed from the start
  halls,         \* rows of halls: their places
  stays,         \* rows of hall_checkins_v2
  checkins,      \* rows of hall_checkins (V1) that exist, numbered as they were made
  made,          \* V1 rows made so far
  live,          \* the cached board: per hall the users counted; empty: none is cached
  activity,      \* per user: the hall their friends see them at, 0: none
  posts,         \* per hall: events and photos published
  feed           \* per hall: the cached number of posts, "none", or "list": a list of hints

hallsVars == <<hallScene, halls, stays, checkins, made, live, activity, posts, feed>>
allHallsVars == <<requestVars, hallsVars>>

NoBoard == <<>>
Ids == 1 .. hallScene.halls

HallInit ==
  /\ hallScene \in HallScenes
  /\ halls = hallScene.seeded
  /\ stays = <<>> /\ checkins = {} /\ made = 0 /\ live = NoBoard
  /\ activity = [u \in Visitors |-> 0]
  /\ posts = [h \in Ids |-> 0]
  /\ feed = [h \in Ids |-> "none"]
  /\ ServeNothing(hallScene.irregular, hallScene.atOnce)

HallCall(w, call) == call \in hallScene.calls /\ Arrive(w) /\ Regular

\* The handler goes on with the first step of todo, or is done.
Do(w, todo, work) ==
  IF todo = <<>> THEN Answer(w) ELSE Await(w, Head(todo), [work EXCEPT !.todo = Tail(todo)])
Work(u, h, previous) == [user |-> u, hall |-> h, previous |-> previous, n |-> 0, todo |-> <<>>]
Continue(w) == Do(w, my[w].todo, my[w])

-----------------------------------------------------------------------------
(* Check-in and check-out *)

\* setExclusiveCheckIn
Exclusive == <<"deleteRows", "insertRow", "dropBoard">>
\* A check-in where the player is not yet; setExclusiveCheckIn is part of it.
Arrival == <<"openStay", "dropFeed", "deleteRows", "insertRow", "dropBoard", "showActivity">>

MayStay == Len(stays) + Cardinality({v \in Workers : pc[v] # "idle" /\ my[v].todo # <<>>}) < hallScene.stays
MayCount == made < hallScene.rows

OpenStays(u) == {i \in DOMAIN stays : stays[i].user = u /\ ~stays[i].out}

\* (mutant) What is open elsewhere is left open.
NothingElsewhere(u, h) == {}
Elsewhere(u, h) == {i \in OpenStays(u) : stays[i].hall # h}

\* checkIn: what is open elsewhere is closed first; whoever is here already is only
\* counted again.
CheckIn(w, u, h) ==
  /\ HallCall(w, "in") /\ MayStay /\ MayCount
  /\ LET arriving == IF OpenStays(u) \ Elsewhere(u, h) # {} THEN Exclusive ELSE Arrival
     IN  Do(w, IF Elsewhere(u, h) = {} THEN arriving ELSE <<"closeStays", "leave">> \o arriving,
            Work(u, h, Elsewhere(u, h)))
  /\ UNCHANGED hallsVars

\* checkOut: one open row of the user at this hall.
CheckOut(w, u, h) ==
  /\ HallCall(w, "out")
  /\ \E i \in OpenStays(u) : /\ stays[i].hall = h
                             /\ Do(w, <<"closeStays", "dropFeed", "deleteRows", "dropBoard", "hideActivity">>,
                                      Work(u, h, {i}))
  /\ UNCHANGED hallsVars

\* The V1 endpoint knows nothing of the V2 rows.
CheckInV1(w, u, h) ==
  /\ HallCall(w, "inV1") /\ MayCount
  /\ Do(w, Exclusive, Work(u, h, {}))
  /\ UNCHANGED hallsVars

CloseStays(w) ==
  /\ At(w, "closeStays")
  /\ stays' = [i \in DOMAIN stays |->
                 IF i \in my[w].previous THEN [stays[i] EXCEPT !.out = TRUE] ELSE stays[i]]
  /\ Continue(w)
  /\ UNCHANGED <<hallScene, halls, checkins, made, live, activity, posts, feed>>

\* fanOutCheckIn(false) and the feed, for each hall that was left; taken as one step.
Leave(w) ==
  /\ At(w, "leave")
  /\ activity' = [activity EXCEPT ![my[w].user] = 0]
  /\ feed' = [h \in Ids |-> IF h \in {stays[i].hall : i \in my[w].previous} THEN "none" ELSE feed[h]]
  /\ Continue(w)
  /\ UNCHANGED <<hallScene, halls, stays, checkins, made, live, posts>>

NewStay(u, h) == [user |-> u, hall |-> h, out |-> FALSE]

OpenStay(w) ==
  /\ At(w, "openStay")
  /\ stays' = Append(stays, NewStay(my[w].user, my[w].hall))
  /\ Continue(w)
  /\ UNCHANGED <<hallScene, halls, checkins, made, live, activity, posts, feed>>

DropFeed(w) ==
  /\ At(w, "dropFeed")
  /\ feed' = [feed EXCEPT ![my[w].hall] = "none"]
  /\ Continue(w)
  /\ UNCHANGED <<hallScene, halls, stays, checkins, made, live, activity, posts>>

DeleteRows(w) ==
  /\ At(w, "deleteRows")
  /\ checkins' = {c \in checkins : c.user # my[w].user}
  /\ Continue(w)
  /\ UNCHANGED <<hallScene, halls, stays, made, live, activity, posts, feed>>

InsertRow(w) ==
  /\ At(w, "insertRow")
  /\ made' = made + 1
  /\ checkins' = checkins \cup {[user |-> my[w].user, hall |-> my[w].hall, made |-> made + 1, late |-> FALSE]}
  /\ Continue(w)
  /\ UNCHANGED <<hallScene, halls, stays, live, activity, posts, feed>>

\* (mutant) The board is not invalidated.
KeptBoard == live
DroppedBoard == NoBoard

\* invalidateLiveCache
DropBoard(w) ==
  /\ At(w, "dropBoard")
  /\ live' = DroppedBoard
  /\ Continue(w)
  /\ UNCHANGED <<hallScene, halls, stays, checkins, made, activity, posts, feed>>

ShowActivity(w) ==
  /\ At(w, "showActivity")
  /\ activity' = [activity EXCEPT ![my[w].user] = my[w].hall]
  /\ Continue(w)
  /\ UNCHANGED <<hallScene, halls, stays, checkins, made, live, posts, feed>>

HideActivity(w) ==
  /\ At(w, "hideActivity")
  /\ activity' = [activity EXCEPT ![my[w].user] = 0]
  /\ Continue(w)
  /\ UNCHANGED <<hallScene, halls, stays, checkins, made, live, posts, feed>>

-----------------------------------------------------------------------------
(* New halls *)

Unknown(p) == \A h \in DOMAIN halls : halls[h] # p
MayFound == Len(halls) + Cardinality({v \in Workers : pc[v] = "insertHall"}) < hallScene.halls

\* createHall (the name counts as the place); a hall there is, is the answer.
CreateHall(w, u, p) ==
  /\ HallCall(w, "create") /\ MayFound /\ Unknown(p)
  /\ Await(w, "insertHall", [place |-> p, todo |-> <<>>, user |-> u])
  /\ UNCHANGED hallsVars

\* V1 checkIn at a place: the hall there, or a new one.
CheckInAt(w, u, p) ==
  /\ "inV1" \in hallScene.calls /\ HallCall(w, "create") /\ MayCount
  /\ IF Unknown(p) THEN MayFound /\ Await(w, "insertHall", [place |-> p, todo |-> Exclusive, user |-> u])
     ELSE \E h \in DOMAIN halls : halls[h] = p /\ Do(w, Exclusive, Work(u, h, {}))
  /\ UNCHANGED hallsVars

InsertHall(w) ==
  /\ At(w, "insertHall")
  /\ halls' = Append(halls, my[w].place)
  /\ Do(w, my[w].todo, Work(my[w].user, Len(halls) + 1, {}))
  /\ UNCHANGED <<hallScene, stays, checkins, made, live, activity, posts, feed>>

-----------------------------------------------------------------------------
(* The board *)

\* (mutant) Every row counts.
AllRows(rows) == rows
\* latestCheckinPerUser
NewestRows(rows) == {c \in rows : \A d \in rows : d.user = c.user => d.made <= c.made}

Counted == NewestRows({c \in checkins : ~c.late})
Board == [h \in {c.hall : c \in Counted} |-> {c.user : c \in {d \in Counted : d.hall = h}}]

\* getLiveActivity, when nothing is cached; a board that counts nobody is not cached.
ReadBoard(w) ==
  /\ HallCall(w, "live")
  /\ live = NoBoard /\ Counted # {}
  /\ Await(w, "cacheBoard", [board |-> Board, todo |-> <<>>])
  /\ UNCHANGED hallsVars

CacheBoard(w) ==
  /\ At(w, "cacheBoard")
  /\ live' = my[w].board
  /\ Answer(w)
  /\ UNCHANGED <<hallScene, halls, stays, checkins, made, activity, posts, feed>>

-----------------------------------------------------------------------------
(* The feed *)

\* createEvent, uploadPhoto (of a hall's admin).
Post(w, u, h) ==
  /\ HallCall(w, "post")
  /\ posts[h] < hallScene.posts
  /\ posts' = [posts EXCEPT ![h] = @ + 1]
  /\ Await(w, "dropFeed", Work(u, h, {}))
  /\ UNCHANGED <<hallScene, halls, stays, checkins, made, live, activity, feed>>

\* feed, when nothing is cached.  (GET of a list fails.)
ReadFeed(w, h) ==
  /\ HallCall(w, "feed")
  /\ feed[h] = "none"
  /\ Await(w, "cacheFeed", [hall |-> h, n |-> posts[h], todo |-> <<>>])
  /\ UNCHANGED hallsVars

CacheFeed(w) ==
  /\ At(w, "cacheFeed")
  /\ feed' = [feed EXCEPT ![my[w].hall] = ToString(my[w].n)]
  /\ Answer(w)
  /\ UNCHANGED <<hallScene, halls, stays, checkins, made, live, activity, posts>>

\* pushHallFeedHint of a timeline: lPush on the same key; it fails on a cached feed.
Hint(w, h) ==
  /\ HallCall(w, "hint")
  /\ feed[h] = "none"
  /\ feed' = [feed EXCEPT ![h] = "list"]
  /\ UNCHANGED <<pc, my, hallScene, halls, stays, checkins, made, live, activity, posts>>

-----------------------------------------------------------------------------
(* Time: a V1 row ends after four hours, a cached board after 20 s, a feed after 60 s. *)

RowEnds(c) ==
  /\ hallScene.expires /\ ~c.late
  /\ checkins' = (checkins \ {c}) \cup {[c EXCEPT !.late = TRUE]}
  /\ UNCHANGED <<requestVars, hallScene, halls, stays, made, live, activity, posts, feed>>

BoardEnds ==
  /\ hallScene.expires /\ live' = NoBoard
  /\ UNCHANGED <<requestVars, hallScene, halls, stays, checkins, made, activity, posts, feed>>

FeedEnds(h) ==
  /\ hallScene.expires /\ feed[h] # "list"
  /\ feed' = [feed EXCEPT ![h] = "none"]
  /\ UNCHANGED <<requestVars, hallScene, halls, stays, checkins, made, live, activity, posts>>

-----------------------------------------------------------------------------
HallServe(w) ==
  \/ CloseStays(w) \/ Leave(w) \/ OpenStay(w) \/ DropFeed(w) \/ DeleteRows(w) \/ InsertRow(w)
  \/ DropBoard(w) \/ ShowActivity(w) \/ HideActivity(w) \/ InsertHall(w) \/ CacheBoard(w) \/ CacheFeed(w)

HallNext ==
  \/ \E w \in Workers :
       \/ \E u \in Visitors :
            \/ \E h \in DOMAIN halls : \/ CheckIn(w, u, h) \/ CheckOut(w, u, h)
                                       \/ CheckInV1(w, u, h) \/ Post(w, u, h)
            \/ \E p \in Places : CreateHall(w, u, p) \/ CheckInAt(w, u, p)
       \/ \E h \in DOMAIN halls : ReadFeed(w, h) \/ Hint(w, h)
       \/ ReadBoard(w)
       \/ HallServe(w)
       \/ Abort(w) /\ UNCHANGED hallsVars
  \/ \E c \in checkins : RowEnds(c)
  \/ BoardEnds
  \/ \E h \in DOMAIN halls : FeedEnds(h)

HallSpec == HallInit /\ [][HallNext]_allHallsVars

-----------------------------------------------------------------------------
(* What the halls promise *)

\* Every variable keeps its shape, and every row names a hall that exists.
HallTypeOK ==
  LET Known == DOMAIN halls
  IN  /\ halls \in Seq(Places)
      /\ stays \in Seq([user : Visitors, hall : Known, out : BOOLEAN])
      /\ checkins \subseteq [user : Visitors, hall : Known, made : 1 .. made, late : BOOLEAN]
      /\ live = NoBoard \/ (DOMAIN live \subseteq Known /\ \A h \in DOMAIN live : live[h] \subseteq Visitors)
      /\ activity \in [Visitors -> {0} \cup Known]
      /\ posts \in [Ids -> Nat]
      /\ \A h \in Ids : feed[h] \in {"none", "list"} \cup {ToString(n) : n \in 0 .. posts[h]}

\* Served in turn through V2, a player is in one hall at most, and the V2 rows, the
\* V1 rows and what the friends see agree which.  (Two check-ins at a time leave
\* two open rows; a V1 check-in leaves the V2 row of another hall open.)
OnePlace ==
  Orderly /\ Quiet /\ "inV1" \notin hallScene.calls =>
    \A u \in Visitors :
      LET there == {stays[i].hall : i \in OpenStays(u)}
      IN  /\ \A i, j \in OpenStays(u) : i = j
          /\ {c.hall : c \in {d \in checkins : d.user = u}} = there
          /\ activity[u] \in there \/ (activity[u] = 0 /\ there = {})

\* "one player counts in at most one hall" (occupancy.ts:2) on every board that is
\* shown, also while check-ins overlap or fail and V1 rows double.
CountedOnce == \A g, h \in DOMAIN live : g # h => live[g] \cap live[h] = {}

\* Served in turn, what is cached is what would be read: the board until a row
\* ends, the feed always.  (A read that overlaps a write caches what was before.)
CachesAreFresh ==
  Orderly /\ Quiet =>
    /\ live # NoBoard /\ (\A c \in checkins : ~c.late) => live = Board
    /\ \A h \in Ids : feed[h] \in {"none", "list", ToString(posts[h])}

\* Served in turn, no two halls are made for one place.
OneHallPerPlace == Orderly => \A g, h \in DOMAIN halls : halls[g] = halls[h] => g = h

\* A hall's feed can be read.  (A timeline's hint makes its key a list, which GET
\* refuses until a check-in or a post deletes it.)
FeedAnswers == \A h \in Ids : feed[h] # "list"

\* "One active V1 check-in per user — moving halls replaces the previous row"
\* (halls.service.ts:111).  (Two check-ins at a time delete first and insert then.)
OneRowPerUser == \A c, d \in checkins : c.user = d.user => c = d
=============================================================================
