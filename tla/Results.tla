------------------------------ MODULE Results ------------------------------
(***************************************************************************)
(* From the table to the record: pool matches (MatchesService), their      *)
(* timelines (MatchTimelineService) and what processReport of Scorekeeping *)
(* V2 makes of a completed match, in its order: the timeline is finalized, *)
(* both players are rated, each gets a memory, the result is published.    *)
(* Every part but the saving of the match is in a try block of its own: it *)
(* may fail, and the next part follows.                                    *)
(*                                                                         *)
(* Money matches and tournaments have rows of their own; of them only the  *)
(* call of processReport is seen here, on one match Elsewhere.  The        *)
(* leagues are in Seasons, which EXTENDS this module.                      *)
(***************************************************************************)
EXTENDS Requests, Sequences, SequencesExt, Pyramid

CONSTANTS
  Users,
  Racks,         \* pyramid presets: [balls |-> .., target |-> ..]
  RaceTo,        \* of a standard race
  Scores,        \* final scores that are reported
  Fallback,      \* REALAI_FALLBACK_LOCAL_ELO
  Scenes         \* what is followed: the calls made, how many matches, reports and events
                 \* of a timeline at most, requests at a time, irregular steps

Calls == {"create", "report", "pocket", "elsewhere", "start", "append", "seed", "season", "cards"}
Domains == {"money", "tournament_v2", "league_v2"}
EventTypes == {"match_start", "score_tick", "match_end", "note"}

ASSUME ResultsAssumption ==
  /\ Racks \subseteq [balls : Nat \ {0}, target : Nat \ {0}]
  /\ RaceTo \in Nat \ {0} /\ Scores \subseteq Nat /\ Fallback \in BOOLEAN
  /\ Scenes \subseteq [calls : SUBSET Calls, domain : Domains, games : Nat, reports : Nat,
                       events : Nat, atOnce : Nat, irregular : Nat]

VARIABLES
  scene,         \* fixed from the start
  games,         \* rows of pool_matches
  timelines,     \* rows of match_timelines, by match
  mirror,        \* their copies in Redis, which getTimeline prefers
  played,        \* users.matches, saved with the rating of the user
  updates,       \* how often users.ratingUpdatedAt was set, a saved rating being one
  memories,      \* rows of match_memories
  published,     \* the list of results in Redis
  processed      \* results handed to processReport, in order

resultVars == <<scene, games, timelines, mirror, played, updates, memories, published, processed>>
vars == <<requestVars, resultVars>>

Elsewhere == 0
Matches == DOMAIN games \cup {Elsewhere}

Open == {"PENDING", "ACTIVE"}
Standard(a, b) == [A |-> a, B |-> b, rack |-> 0, raceTo |-> RaceTo, status |-> "PENDING",
                   pocketed |-> <<>>, score |-> [A |-> 0, B |-> 0], complete |-> FALSE]
PyramidMatch(a, b, rack) ==
  [Standard(a, b) EXCEPT !.rack = rack.balls, !.raceTo = rack.target]

Result(g, game) ==
  LET aWins == game.score.A > game.score.B
  IN  [match |-> g, winner |-> IF aWins THEN game.A ELSE game.B, loser |-> IF aWins THEN game.B ELSE game.A,
       rated |-> TRUE]

Init ==
  /\ scene \in Scenes
  /\ games = <<>> /\ timelines = <<>> /\ mirror = <<>>
  /\ played = [u \in Users |-> 0] /\ updates = [u \in Users |-> 0]
  /\ memories = {} /\ published = <<>> /\ processed = <<>>
  /\ ServeNothing(scene.irregular, scene.atOnce)

Call(w, call) == call \in scene.calls /\ Arrive(w) /\ Regular
MayReport == Len(processed) + Cardinality({w \in Workers : pc[w] = "saveMatch"}) < scene.reports

-----------------------------------------------------------------------------
(* MatchesService: create, pyramidPocket, reportResult *)

Create(w, a, b) ==
  /\ Call(w, "create")
  /\ Len(games) < scene.games
  /\ a # b
  /\ \E game \in {Standard(a, b)} \cup {PyramidMatch(a, b, rack) : rack \in Racks} :
       games' = Append(games, game)
  /\ UNCHANGED <<pc, my, scene, timelines, mirror, played, updates, memories, published, processed>>

\* (mutant) A completed match may be reported again.
ReportableAlways(game) == game.status # "CANCELLED"
Reportable(game) == game.status \in Open

ReportResult(w, g, a, b) ==
  LET game == games[g]
  IN  /\ Call(w, "report")
      /\ MayReport
      /\ Reportable(game)
      /\ a # b
      /\ IF game.rack # 0 THEN a >= game.raceTo \/ b >= game.raceTo
         ELSE a <= game.raceTo /\ b <= game.raceTo
      /\ Await(w, "saveMatch",
               [match |-> g, copy |-> [game EXCEPT !.status = "COMPLETED", !.score = [A |-> a, B |-> b],
                                                   !.complete = (game.rack # 0)]])
      /\ UNCHANGED resultVars

\* A player pockets balls in one shot.  The state of play is refused once complete.
PyramidPocket(w, g, side, balls) ==
  LET game == games[g]
      pocketed == PocketBalls(game.pocketed, side, balls)
      winner == WinnerSide(pocketed, game.raceTo, side)
  IN  /\ Call(w, "pocket")
      /\ MayReport
      /\ game.rack # 0 /\ game.status \in Open /\ ~game.complete
      /\ MayPocket(game.rack, game.pocketed, balls)
      /\ Await(w, "saveMatch",
               [match |-> g,
                copy |-> [game EXCEPT !.status = IF winner = "none" THEN "ACTIVE" ELSE "COMPLETED",
                                      !.pocketed = pocketed,
                                      !.score = [s \in Sides |-> Points(pocketed, s)],
                                      !.complete = (winner # "none")]])
      /\ UNCHANGED resultVars

Process(w, result, domain) ==
  /\ processed' = Append(processed, result)
  /\ Await(w, "readTimeline", [match |-> result.match, result |-> result, domain |-> domain])

SaveMatch(w) ==
  LET g == my[w].match
  IN  /\ At(w, "saveMatch")
      /\ games' = [games EXCEPT ![g] = my[w].copy]
      /\ IF my[w].copy.status = "COMPLETED" THEN Process(w, Result(g, my[w].copy), "standard")
         ELSE Answer(w) /\ UNCHANGED processed
      /\ UNCHANGED <<scene, timelines, mirror, played, updates, memories, published>>

\* A match that another service has completed (and may report again, corrected).
ReportElsewhere(w, winner, loser) ==
  /\ Call(w, "elsewhere")
  /\ MayReport
  /\ winner # loser
  /\ \A n \in DOMAIN processed : processed[n].match = Elsewhere =>
       {processed[n].winner, processed[n].loser} = {winner, loser}
  /\ Process(w, [match |-> Elsewhere, winner |-> winner, loser |-> loser, rated |-> TRUE], scene.domain)
  /\ UNCHANGED <<scene, games, timelines, mirror, played, updates, memories, published>>

-----------------------------------------------------------------------------
(* MatchTimelineService: the events of a match are read, extended and saved as a whole. *)

Has(row, type) == \E n \in DOMAIN row.events : row.events[n] = type
Extended(row, type) == [row EXCEPT !.events = Append(@, type)]
Unless(row, type) == IF Has(row, type) THEN row ELSE Extended(row, type)
NewTimeline == [events |-> <<>>, finalized |-> FALSE]
TimelineOf(g) == IF g \in DOMAIN timelines THEN timelines[g] ELSE NewTimeline

AwaitTimeline(w, g, row) ==
  Await(w, "saveTimeline", [match |-> g, fresh |-> g \notin DOMAIN timelines, row |-> row])

StartTimeline(w, g) ==
  /\ Call(w, "start")
  /\ Len(TimelineOf(g).events) < scene.events
  /\ AwaitTimeline(w, g, Unless(TimelineOf(g), "match_start"))
  /\ UNCHANGED resultVars

AppendEvent(w, g, type) ==
  /\ Call(w, "append")
  /\ Len(TimelineOf(g).events) < scene.events
  /\ TimelineOf(g).finalized => type = "note"
  /\ AwaitTimeline(w, g, Extended(TimelineOf(g), type))
  /\ UNCHANGED resultVars

\* finalizeOnReport
Finalized(row) == [Unless(row, "match_end") EXCEPT !.finalized = TRUE]

ReadTimeline(w) ==
  LET g == my[w].match
      row == IF g \in DOMAIN timelines THEN timelines[g] ELSE Extended(NewTimeline, "match_start")
  IN  /\ At(w, "readTimeline")
      /\ Await(w, "saveTimeline",
               [match |-> g, fresh |-> g \notin DOMAIN timelines, row |-> Finalized(row),
                result |-> my[w].result, domain |-> my[w].domain])
      /\ UNCHANGED resultVars

Reporting(w) == "result" \in DOMAIN my[w]
Report(w) == [result |-> my[w].result, domain |-> my[w].domain]

\* There is one row per match: the second of two insertions throws.
SaveTimeline(w) ==
  LET g == my[w].match
  IN  /\ At(w, "saveTimeline")
      /\ IF my[w].fresh /\ g \in DOMAIN timelines
         THEN /\ IF Reporting(w) THEN Await(w, "readUsers", Report(w)) ELSE Answer(w)
              /\ UNCHANGED timelines
         ELSE /\ timelines' = [m \in (DOMAIN timelines) \cup {g} |->
                                IF m = g THEN my[w].row ELSE timelines[m]]
              /\ Then(w, "mirrorTimeline")
      /\ UNCHANGED <<scene, games, mirror, played, updates, memories, published, processed>>

MirrorTimeline(w) ==
  LET g == my[w].match
  IN  /\ At(w, "mirrorTimeline")
      /\ mirror' = [m \in (DOMAIN mirror) \cup {g} |-> IF m = g THEN my[w].row ELSE mirror[m]]
      /\ IF Reporting(w) THEN Await(w, "readUsers", Report(w)) ELSE Answer(w)
      /\ UNCHANGED <<scene, games, timelines, played, updates, memories, published, processed>>

-----------------------------------------------------------------------------
(* RatingService: applyMatchResult and seedFromExternal *)

\* A draw is not rated (skipElo).
ReadUsers(w) ==
  /\ At(w, "readUsers")
  /\ IF my[w].result.rated THEN Await(w, "askRealAi", [result |-> my[w].result, domain |-> my[w].domain, copy |-> played])
     ELSE Then(w, "findMemories")
  /\ UNCHANGED resultVars

\* RealAI computes the ratings (in one call or two) or fails; then only the local
\* fallback, where it is allowed, rates the match.
AskRealAi(w) ==
  /\ pc[w] = "askRealAi"
  /\ \/ At(w, "askRealAi") /\ Then(w, "saveUsers")
     \/ /\ Irregular
        /\ IF Fallback THEN Then(w, "saveUsers") ELSE Await(w, "findMemories", Report(w))
        /\ UNCHANGED <<overlapped, atOnce>>
  /\ UNCHANGED resultVars

SaveUsers(w) ==
  LET result == my[w].result
      copy == my[w].copy
  IN  /\ At(w, "saveUsers")
      /\ played' = [played EXCEPT ![result.winner] = copy[result.winner] + 1,
                                  ![result.loser] = copy[result.loser] + 1]
      /\ updates' = [updates EXCEPT ![result.winner] = @ + 1, ![result.loser] = @ + 1]
      /\ Await(w, "findMemories", Report(w))
      /\ UNCHANGED <<scene, games, timelines, mirror, memories, published, processed>>

\* A rating from another system is converted for who has played nothing here; the
\* row that was read before is saved, unchanged when RealAI cannot be asked.  Then
\* seedRating records the seed on the player's card (PlayerCards), where cards are
\* followed.  As many seeds as reports are enough.
SeedFromExternal(w, u) ==
  /\ Call(w, "seed")
  /\ played[u] = 0
  /\ updates[u] < scene.reports
  /\ Await(w, "saveSeed", [user |-> u])
  /\ UNCHANGED resultVars

SaveSeed(w) ==
  /\ At(w, "saveSeed")
  /\ played' = [played EXCEPT ![my[w].user] = 0]
  /\ \E stamped \in {0, 1} : updates' = [updates EXCEPT ![my[w].user] = @ + stamped]
  /\ IF "cards" \in scene.calls THEN Await(w, "readUser", [ask |-> "seed", of |-> my[w].user])
     ELSE Answer(w)
  /\ UNCHANGED <<scene, games, timelines, mirror, memories, published, processed>>

-----------------------------------------------------------------------------
(* MemoriesService, and the publication of the result *)

Players(result) == {result.winner, result.loser}
MemoriesOf(g) == {m \in memories : m.match = g}

Missing(result) == Players(result) \ {m.user : m \in MemoriesOf(result.match)}

FindMemories(w) ==
  /\ At(w, "findMemories")
  /\ Await(w, "createMemories",
           [result |-> my[w].result, domain |-> my[w].domain,
            missing |-> IF my[w].domain \in {"standard", "money"} THEN Missing(my[w].result) ELSE {}])
  /\ UNCHANGED resultVars

\* (mutant) Both players remember a win.
WonAlways(result, u) == u \in Players(result)
Won(result, u) == u = result.winner

CreateMemory(w) ==
  /\ At(w, "createMemories")
  /\ IF my[w].missing = {} THEN Await(w, "publish", Report(w)) /\ UNCHANGED memories
     ELSE \E u \in my[w].missing :
              /\ memories' = memories \cup
                   {[match |-> my[w].result.match, user |-> u, isWinner |-> Won(my[w].result, u),
                     nth |-> Cardinality({m \in MemoriesOf(my[w].result.match) : m.user = u})]}
              /\ Hold(w, [my[w] EXCEPT !.missing = @ \ {u}]) /\ UNCHANGED pc
  /\ UNCHANGED <<scene, games, timelines, mirror, played, updates, published, processed>>

\* The list and the caches in Redis, the summary job, the socket.
Publish(w) ==
  /\ At(w, "publish")
  /\ published' = Append(published, my[w].result)
  /\ Answer(w)
  /\ UNCHANGED <<scene, games, timelines, mirror, played, updates, memories, processed>>

\* A part of processReport throws and the next one follows.
PartFails(w) ==
  /\ pc[w] \in {"readTimeline", "saveTimeline", "mirrorTimeline", "readUsers", "saveUsers",
                "findMemories", "createMemories", "publish"}
  /\ Reporting(w)
  /\ Irregular
  /\ IF pc[w] = "publish" THEN Answer(w)
     ELSE Await(w, CASE pc[w] \in {"readTimeline", "saveTimeline", "mirrorTimeline"} -> "readUsers"
                     [] pc[w] \in {"readUsers", "saveUsers"} -> "findMemories"
                     [] OTHER -> "publish", Report(w))
  /\ UNCHANGED <<overlapped, atOnce, resultVars>>

-----------------------------------------------------------------------------
Serve(w) ==
  \/ SaveMatch(w) \/ ReadTimeline(w) \/ SaveTimeline(w) \/ MirrorTimeline(w) \/ ReadUsers(w)
  \/ AskRealAi(w) \/ SaveUsers(w) \/ SaveSeed(w) \/ FindMemories(w) \/ CreateMemory(w) \/ Publish(w)

Next ==
  \E w \in Workers :
    \/ \E a, b \in Users : Create(w, a, b) \/ ReportElsewhere(w, a, b)
    \/ \E g \in DOMAIN games :
         \/ \E a, b \in Scores : ReportResult(w, g, a, b)
         \/ \E side \in Sides, balls \in SUBSET (1 .. games[g].rack) : PyramidPocket(w, g, side, balls)
    \/ \E g \in Matches : StartTimeline(w, g) \/ \E type \in EventTypes : AppendEvent(w, g, type)
    \/ \E u \in Users : SeedFromExternal(w, u)
    \/ Serve(w)
    \/ PartFails(w)
    \/ Abort(w) /\ UNCHANGED resultVars

Spec == Init /\ [][Next]_vars

-----------------------------------------------------------------------------
(* What is promised of a result *)

\* Every variable keeps its shape, and balls are pocketed from their own rack only.
Timeline == [events : Seq(EventTypes), finalized : BOOLEAN]
Known == Matches \cup {processed[n].match : n \in DOMAIN processed}
TypeOK ==
  /\ \A g \in DOMAIN games :
       /\ games[g].status \in Open \cup {"COMPLETED"} /\ games[g].score \in [Sides -> Nat]
       /\ games[g].A \in Users /\ games[g].B \in Users \ {games[g].A}
       /\ DOMAIN games[g].pocketed \subseteq InitialObjectBalls(games[g].rack)
       /\ \A ball \in DOMAIN games[g].pocketed : games[g].pocketed[ball] \in Sides
  /\ DOMAIN timelines \subseteq Known /\ DOMAIN mirror \subseteq DOMAIN timelines
  /\ \A g \in DOMAIN timelines : timelines[g] \in Timeline
  /\ played \in [Users -> Nat] /\ updates \in [Users -> Nat]
  /\ memories \subseteq [match : Known, user : Users, isWinner : BOOLEAN, nth : Nat]

Of(u) == {n \in DOMAIN processed : processed[n].rated /\ u \in Players(processed[n])}

\* Served in turn and without a failure, a result takes effect exactly once: each
\* completed pool match is processed once, a player's count is that of the player's
\* results, each player has one memory of a match, which tells the first result
\* reported of it, and the timeline is closed, in the table as in Redis.  (Two
\* reports, or two pockets, at a time break it; and an append that read the row
\* before the report opens the timeline again.)
ResultCountedOnce ==
  Orderly /\ Quiet =>
    /\ \A g \in DOMAIN games :
         Cardinality({n \in DOMAIN processed : processed[n].match = g})
           = IF games[g].status = "COMPLETED" THEN 1 ELSE 0
    /\ \A u \in Users : played[u] = Cardinality(Of(u))
    /\ published = processed
    /\ \A n \in DOMAIN processed :
         processed[n].match \in DOMAIN games \/ (processed[n].match = Elsewhere /\ scene.domain = "money") =>
           \A u \in Players(processed[n]) :
             Cardinality({m \in MemoriesOf(processed[n].match) : m.user = u}) = 1
    /\ mirror = timelines
    /\ \A n \in DOMAIN processed :
         /\ processed[n].match \in DOMAIN timelines
         /\ timelines[processed[n].match].finalized /\ Has(timelines[processed[n].match], "match_end")

\* Whatever fails or overlaps, nobody is rated for more results than were
\* processed of the player, a timeline is closed only for a result, and who
\* remembers a win has won a processed result of that match.
EffectsNeedAResult ==
  /\ \A u \in Users : played[u] <= Cardinality(Of(u))
  /\ \A g \in DOMAIN timelines : timelines[g].finalized => \E n \in DOMAIN processed : processed[n].match = g
  /\ \A m \in memories : \E n \in DOMAIN processed :
       processed[n].match = m.match /\ m.user = (IF m.isWinner THEN processed[n].winner ELSE processed[n].loser)

\* However pockets and reports overlap, a pyramid match is complete exactly when a
\* side has its points to win, and the points come from balls unless reported.
PyramidEndsAtTarget ==
  \A g \in DOMAIN games : games[g].rack # 0 =>
    /\ games[g].status = "COMPLETED" <=> \E s \in Sides : games[g].score[s] >= games[g].raceTo
    /\ games[g].status # "COMPLETED" => \A s \in Sides : games[g].score[s] = Points(games[g].pocketed, s)

\* "Timeline is finalized; only notes may be appended" (match-timeline.service.ts:112).
\* (Starting a timeline that was reported without a start appends to it.)
OnlyNotesAfterEnd ==
  [][Orderly => \A g \in DOMAIN timelines : timelines[g].finalized =>
       /\ timelines'[g].finalized
       /\ \A n \in DOMAIN timelines'[g].events :
            n <= Len(timelines[g].events) \/ timelines'[g].events[n] = "note"]_vars

\* "Ensure we create exactly one memory per player per match"
\* (memories.service.ts:60).  (Two reports of one match at a time create two.)
OneMemoryEach ==
  \A m, n \in memories : m.match = n.match /\ m.user = n.user => m = n

\* A completed match stays as it is.  (A pocket that read it before saves it open.)
CompletedStays ==
  [][\A g \in DOMAIN games : games[g].status = "COMPLETED" => games'[g].status = "COMPLETED"]_vars
=============================================================================
