------------------------------ MODULE Seasons ------------------------------
(***************************************************************************)
(* Leagues V2 (LeaguesV2Service) upon the results they hand over: a season *)
(* is created, started with a snapshot of its players, has matches         *)
(* scheduled, and each report of one saves the match, then the points of   *)
(* both players, then calls processReport.  One season is followed; the    *)
(* result of its n-th match is that of the match Fixture(n) in Results.    *)
(***************************************************************************)
EXTENDS Results, Integers

VARIABLES
  season,        \* status of the season, "none" before it is created
  standings,     \* points by player, of the players in the snapshot
  fixtures       \* rows of league_scheduled_matches, in order

seasonVars == <<season, standings, fixtures>>
allVars == <<vars, seasonVars>>

Fixture(n) == -n
SeasonInit ==
  /\ Init
  /\ season = "none" /\ standings = <<>> /\ fixtures = <<>>

NewFixture(a, b) == [A |-> a, B |-> b, status |-> "SCHEDULED", score |-> [A |-> 0, B |-> 0]]

CreateSeason(w) ==
  /\ Call(w, "season")
  /\ season = "none"
  /\ season' = "DRAFT"
  /\ UNCHANGED <<pc, my, resultVars, standings, fixtures>>

StartSeason(w, players) ==
  /\ Call(w, "season")
  /\ season = "DRAFT"
  /\ Await(w, "saveSeason", [players |-> players])
  /\ UNCHANGED <<resultVars, seasonVars>>

SaveSeason(w) ==
  /\ At(w, "saveSeason")
  /\ season' = "ACTIVE"
  /\ Then(w, "saveSnapshot")
  /\ UNCHANGED <<resultVars, standings, fixtures>>

\* A player has one row per season: of two snapshots that share a player, the
\* second is refused.
SaveSnapshot(w) ==
  LET fresh == my[w].players
  IN  /\ At(w, "saveSnapshot")
      /\ standings' = IF fresh \cap DOMAIN standings # {} THEN standings
                      ELSE [u \in (DOMAIN standings) \cup fresh |-> IF u \in fresh THEN 0 ELSE standings[u]]
      /\ Answer(w)
      /\ UNCHANGED <<resultVars, season, fixtures>>

ScheduleMatch(w, a, b) ==
  /\ Call(w, "season")
  /\ Len(fixtures) < scene.games
  /\ season = "ACTIVE"
  /\ a # b
  /\ fixtures' = Append(fixtures, NewFixture(a, b))
  /\ UNCHANGED <<pc, my, resultVars, season, standings>>

\* (mutant) A match that was reported may be reported again.
PlayableAlways(fixture) == fixture.status \in {"SCHEDULED", "COMPLETED"}
Playable(fixture) == fixture.status = "SCHEDULED"

ReportMatch(w, n, a, b) ==
  /\ Call(w, "season")
  /\ Len(processed) + Cardinality({v \in Workers : "fixture" \in DOMAIN my[v]}) < scene.reports
  /\ Playable(fixtures[n])
  /\ Await(w, "validate",
           [fixture |-> n,
            copy |-> [fixtures[n] EXCEPT !.status = "COMPLETED", !.score = [A |-> a, B |-> b]]])
  /\ UNCHANGED <<resultVars, seasonVars>>

\* RealAI finds the result valid, or cannot be asked; or it refuses the result.
Validate(w) ==
  /\ At(w, "validate")
  /\ Then(w, "saveFixture") \/ Answer(w)
  /\ UNCHANGED <<resultVars, seasonVars>>

SaveFixture(w) ==
  /\ At(w, "saveFixture")
  /\ fixtures' = [fixtures EXCEPT ![my[w].fixture] = my[w].copy]
  /\ Then(w, "readStandings")
  /\ UNCHANGED <<resultVars, season, standings>>

\* "Standings snapshot missing players"
ReadStandings(w) ==
  LET both == {my[w].copy.A, my[w].copy.B}
  IN  /\ At(w, "readStandings")
      /\ IF both \subseteq DOMAIN standings
         THEN Await(w, "saveStandings", [fixture |-> my[w].fixture, copy |-> my[w].copy,
                                         points |-> [u \in both |-> standings[u]]])
         ELSE Answer(w)
      /\ UNCHANGED <<resultVars, seasonVars>>

Draw(fixture) == fixture.score.A = fixture.score.B
PlayersOf(fixture) == {fixture.A, fixture.B}
WinnerOf(fixture) == IF fixture.score.A > fixture.score.B THEN fixture.A ELSE fixture.B

PointsFor(fixture, u) ==
  IF Draw(fixture) THEN 1 ELSE IF u = WinnerOf(fixture) THEN 3 ELSE 0

SaveStandings(w) ==
  LET fixture == my[w].copy
      winner == WinnerOf(fixture)
  IN  /\ At(w, "saveStandings")
      /\ standings' = [u \in DOMAIN standings |->
           IF u \in PlayersOf(fixture) THEN my[w].points[u] + PointsFor(fixture, u) ELSE standings[u]]
      /\ Process(w, [match |-> Fixture(my[w].fixture), winner |-> winner,
                     loser |-> CHOOSE u \in PlayersOf(fixture) : u # winner, rated |-> ~Draw(fixture)],
                 "league_v2")
      /\ UNCHANGED <<scene, games, timelines, mirror, played, updates, memories, published, season, fixtures>>

-----------------------------------------------------------------------------
\* What does not concern the season.
Elsewise == Next /\ UNCHANGED seasonVars

SeasonNext ==
  \/ \E w \in Workers :
       \/ CreateSeason(w) \/ \E players \in SUBSET Users : StartSeason(w, players)
       \/ SaveSeason(w) \/ SaveSnapshot(w)
       \/ \E a, b \in Users : ScheduleMatch(w, a, b)
       \/ \E n \in DOMAIN fixtures, a, b \in Scores : ReportMatch(w, n, a, b)
       \/ Validate(w) \/ SaveFixture(w) \/ ReadStandings(w) \/ SaveStandings(w)
  \/ Elsewise

SeasonSpec == SeasonInit /\ [][SeasonNext]_allVars

-----------------------------------------------------------------------------
(* What a league promises *)

\* Every variable keeps its shape.
SeasonTypeOK ==
  /\ season \in {"none", "DRAFT", "ACTIVE"}
  /\ DOMAIN standings \subseteq Users /\ \A u \in DOMAIN standings : standings[u] \in Nat
  /\ fixtures \in Seq([A : Users, B : Users, status : {"SCHEDULED", "COMPLETED"},
                       score : [Sides -> Scores \cup {0}]])

Completed == {n \in DOMAIN fixtures : fixtures[n].status = "COMPLETED"}
Counted == {n \in Completed : PlayersOf(fixtures[n]) \subseteq DOMAIN standings}
Earned(u) ==
  3 * Cardinality({n \in Counted : ~Draw(fixtures[n]) /\ u = WinnerOf(fixtures[n])})
  + Cardinality({n \in Counted : Draw(fixtures[n]) /\ u \in PlayersOf(fixtures[n])})

\* Served in turn and without a failure, the standings are what the completed
\* matches of the season say, three points for a win and one for a draw, and each
\* of those matches has been handed over exactly once, as the rating that says who
\* won is read off the same row.  (A match one of whose players is missing in the
\* snapshot counts for nobody, see ReportedIsCounted.)
PointsFollowResults ==
  Orderly /\ Quiet =>
    /\ \A u \in DOMAIN standings : standings[u] = Earned(u)
    /\ \A n \in DOMAIN fixtures :
         Cardinality({k \in DOMAIN processed : processed[k].match = Fixture(n)}) = IF n \in Counted THEN 1 ELSE 0
    /\ \A k \in DOMAIN processed : -processed[k].match \in DOMAIN fixtures /\ processed[k].rated =>
         processed[k].winner = WinnerOf(fixtures[-processed[k].match])

\* "standings update: win=3, draw=1" (leagues-v2.service.ts:173).  (A player who is
\* missing in the snapshot is found out after the match was saved as completed.)
ReportedIsCounted == Orderly /\ Quiet => Completed = Counted
=============================================================================
