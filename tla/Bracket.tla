------------------------------ MODULE Bracket ------------------------------
(***************************************************************************)
(* The elimination bracket of one tournament (TournamentsV2Service): the   *)
(* rows of tournament_matches_v2 from the moment start has saved the       *)
(* tournament as ACTIVE until it is COMPLETED.                             *)
(*                                                                         *)
(* A report saves its match, places the winner (and, in double             *)
(* elimination, the loser) in the next one, schedules the grand final and  *)
(* then resolves byes in passes over all the open matches.  Nothing is     *)
(* locked and no index makes the place of a match unique: an action runs   *)
(* from one await to the next, except that the reads one decision takes    *)
(* (ByePass, SeekGrand, a bye's two feeders) are taken at one moment.      *)
(***************************************************************************)
EXTENDS Naturals, Sequences, FiniteSets

CONSTANTS
  Fields,        \* the tournaments under study: mode, number of entrants, how many
                 \* irregular steps they may see (ties, reports of half-filled
                 \* matches, results the organizer overwrites, swaps of players,
                 \* requests cut short), how many requests are served at a time,
                 \* and the passes of a bye resolution (32 in the code)
  Workers        \* ids of concurrent requests

ASSUME BracketAssumption ==
  /\ Fields \subseteq [mode : {"SINGLE_ELIMINATION", "DOUBLE_ELIMINATION"},
                       size : Nat \ {0, 1}, irregular : Nat, atOnce : Nat,
                       passes : Nat]

VARIABLES
  field,         \* the tournament: fixed when it starts
  matches,       \* the rows of tournament_matches_v2, in the order they were inserted
  champion,      \* the champion, once the tournament is COMPLETED
  pc, my,        \* per request: where it is and what it holds
  lost,          \* how often each entrant lost a match that was reported
  overlapped,    \* whether two requests were ever served at the same time
  irregular      \* irregular steps so far

vars == <<field, matches, champion, pc, my, lost, overlapped, irregular>>
fixed == <<field, overlapped>>

Nobody == 0
Entrants == 1 .. field.size
Double == field.mode = "DOUBLE_ELIMINATION"

-----------------------------------------------------------------------------
(* bracket-advance.ts, bracket-generation.service.ts *)

\* The binary logarithm of the entrants' number, rounded up.
WinnersRoundsNeeded == CHOOSE r \in Entrants : 2 ^ (r - 1) < field.size /\ field.size <= 2 ^ r

NewRow(side, round, index) ==
  [side |-> side, round |-> round, index |-> index, a |-> Nobody, b |-> Nobody,
   done |-> FALSE, winner |-> Nobody]

Half(index) == (index + 1) \div 2
IsOdd(index) == index % 2 = 1

\* Seeds are paired in order; a last one without opponent has a bye, and pairs
\* of two empty seeds get no match.
FirstRound(n) ==
  [i \in 1 .. Half(n) |-> [NewRow("WINNERS", 1, i) EXCEPT !.a = 2 * i - 1,
                                                         !.b = IF 2 * i <= n THEN 2 * i ELSE Nobody]]
Generated(m, n) ==
  IF m = "DOUBLE_ELIMINATION"
  THEN FirstRound(n) \o [i \in 1 .. Half(Half(n)) |-> NewRow("LOSERS", 1, i)]
  ELSE FirstRound(n)

SingleElimFinal(row) == ~Double /\ row.side = "WINNERS" /\ row.round >= WinnersRoundsNeeded

-----------------------------------------------------------------------------
\* What a request holds: the match it advances from, the row it is about to
\* save (with id 0 when it is to be inserted), whether it is resolving byes,
\* the copies of open matches this pass has left, whether the pass got on, and
\* the passes it has begun.
NoWork == [from |-> NewRow("WINNERS", 1, 1), next |-> NewRow("WINNERS", 1, 1), id |-> 0,
           byes |-> FALSE, list |-> {}, progressed |-> TRUE, passes |-> 0]

Init ==
  /\ field \in Fields
  /\ matches = Generated(field.mode, field.size)
  /\ champion = Nobody
  /\ \E w \in Workers : pc = [v \in Workers |-> IF v = w THEN "pass" ELSE "idle"]
  /\ my = [w \in Workers |-> NoWork]
  /\ lost = [p \in Entrants |-> 0]
  /\ overlapped = FALSE
  /\ irregular = 0

Goto(w, step) == pc' = [pc EXCEPT ![w] = step]
Answer(w) == Goto(w, "idle") /\ my' = [my EXCEPT ![w] = NoWork]
Begin(w) ==
  /\ pc[w] = "idle"
  /\ Cardinality({v \in Workers : pc[v] # "idle"}) < field.atOnce
  /\ overlapped' = (overlapped \/ \E v \in Workers : pc[v] # "idle")
  /\ UNCHANGED field

Irregular == irregular < field.irregular /\ irregular' = irregular + 1

SaveRow(id, row) ==
  matches' = IF id = 0 THEN Append(matches, row) ELSE [matches EXCEPT ![id] = row]

-----------------------------------------------------------------------------
(* reportMatch, adminUpdateMatchScore, adminSwapPlayers *)

\* The winner follows from the scores or is named: one of the match's players.
Winner(row, result) == IF result = "A" THEN row.a ELSE IF result = "B" THEN row.b ELSE Nobody
Played(row) == row.a # Nobody /\ row.b # Nobody
Reported(row, result) == [row EXCEPT !.done = TRUE, !.winner = Winner(row, result)]

TakeResult(w, id, result) ==
  /\ my' = [my EXCEPT ![w].id = id, ![w].from = Reported(matches[id], result)]
  /\ Goto(w, "saveResult")
  /\ UNCHANGED <<matches, champion, lost>>

Report(w, id, result) ==
  /\ Begin(w)
  /\ ~matches[id].done
  /\ IF result = "tie" \/ ~Played(matches[id]) THEN Irregular ELSE UNCHANGED irregular
  /\ TakeResult(w, id, result)

\* The organizer's way: the same, for a match that may be completed already.
Correct(w, id, result) ==
  /\ Begin(w)
  /\ Irregular
  /\ TakeResult(w, id, result)

Loser(row) == IF row.winner = row.a THEN row.b ELSE row.a

\* A result without a winner (a tie, or an empty slot that won) goes nowhere.
SaveResult(w) ==
  LET row == my[w].from
  IN  /\ pc[w] = "saveResult"
      /\ SaveRow(my[w].id, row)
      /\ lost' = IF row.winner # Nobody /\ Played(row) THEN [lost EXCEPT ![Loser(row)] = @ + 1]
                 ELSE lost
      /\ IF row.winner = Nobody THEN Answer(w) ELSE Goto(w, "advance") /\ UNCHANGED my
      /\ UNCHANGED <<fixed, champion, irregular>>

\* Players may be swapped until the match is completed.  (Giving a slot to
\* somebody else is not modelled.)
Swap(w, id) ==
  /\ Begin(w)
  /\ Irregular
  /\ ~matches[id].done
  /\ my' = [my EXCEPT ![w].id = id,
                      ![w].next = [matches[id] EXCEPT !.a = matches[id].b, !.b = matches[id].a]]
  /\ Goto(w, "saveSwap")
  /\ UNCHANGED <<matches, champion, lost>>

SaveSwap(w) ==
  /\ pc[w] = "saveSwap"
  /\ SaveRow(my[w].id, my[w].next)
  /\ Answer(w)
  /\ UNCHANGED <<fixed, champion, lost, irregular>>

-----------------------------------------------------------------------------
(* advanceWinner *)

Open(row) == [row EXCEPT !.done = IF Played(row) THEN FALSE ELSE @]
Placed(row, index, player) == Open(IF IsOdd(index) THEN [row EXCEPT !.a = player]
                                                   ELSE [row EXCEPT !.b = player])

At(side, round, index) ==
  {i \in DOMAIN matches : matches[i].side = side /\ matches[i].round = round /\ matches[i].index = index}
\* findOne answers with any of the rows of that place, if there is one.
FindOne(side, round, index) ==
  LET ids == At(side, round, index) IN IF ids = {} THEN {0} ELSE ids

Find(w, side, round, index, player, step) ==
  /\ \E id \in FindOne(side, round, Half(index)) :
       LET row == IF id = 0 THEN NewRow(side, round, Half(index)) ELSE matches[id]
       IN  my' = [my EXCEPT ![w].id = id, ![w].next = Placed(row, index, player)]
  /\ Goto(w, step)

\* (mutant) The second game is played whoever wins the first.
NeedsResetAlways(row) == row.index = 1 /\ At("GRAND_FINAL", 100, 2) = {}

\* handleGrandFinalResult: the first win of the losers' champion means a
\* second game, unless that exists already.  (An organizer may configure that
\* there is none; the default is modelled.)
NeedsReset(row) == /\ row.index = 1
                   /\ row.winner # row.a
                   /\ row.b # Nobody
                   /\ At("GRAND_FINAL", 100, 2) = {}

Reset(row) == [NewRow("GRAND_FINAL", 100, 2) EXCEPT !.a = row.a, !.b = row.b]

\* Reading the tournament, and what to look for: nothing after a final.
Advance(w) ==
  LET row == my[w].from
  IN  /\ pc[w] = "advance"
      /\ CASE row.side = "GRAND_FINAL" /\ NeedsReset(row) ->
                /\ my' = [my EXCEPT ![w].id = 0, ![w].next = Reset(row)]
                /\ Goto(w, "saveReset")
           [] row.side = "GRAND_FINAL" /\ ~NeedsReset(row) -> Goto(w, "complete") /\ UNCHANGED my
           [] SingleElimFinal(row) -> Goto(w, "complete") /\ UNCHANGED my
           [] OTHER -> Find(w, row.side, row.round + 1, row.index, row.winner, "saveNext")
      /\ UNCHANGED <<fixed, matches, champion, lost, irregular>>

SaveReset(w) ==
  /\ pc[w] = "saveReset"
  /\ SaveRow(my[w].id, my[w].next)
  /\ Answer(w)
  /\ UNCHANGED <<fixed, champion, lost, irregular>>

\* completeTournament.  A request that resolves byes reads the tournament once
\* more before it stops.
Complete(w) ==
  /\ pc[w] = "complete"
  /\ champion' = my[w].from.winner
  /\ IF my[w].byes THEN Goto(w, "byes") /\ UNCHANGED my ELSE Answer(w)
  /\ UNCHANGED <<fixed, matches, lost, irregular>>

\* After the winner, the loser of the winners' side is placed; a bye has none.
DropsLoser(w) ==
  /\ Double /\ ~my[w].byes
  /\ my[w].from.side = "WINNERS"
  /\ Loser(my[w].from) # Nobody

\* (mutant) A report is answered as soon as the winner is placed.
AfterPlacingNoByes(w) == IF Double THEN "seekGrand" ELSE IF my[w].byes THEN "byes" ELSE "idle"
AfterPlacing(w) == IF Double THEN "seekGrand" ELSE IF my[w].byes THEN "byes" ELSE "pass"

SaveNext(w) ==
  /\ pc[w] = "saveNext"
  /\ SaveRow(my[w].id, my[w].next)
  /\ Goto(w, IF DropsLoser(w) THEN "seekLosers" ELSE AfterPlacing(w))
  /\ UNCHANGED <<fixed, champion, my, lost, irregular>>

\* placeLoserIntoLosers: the losers' round with the number of the winners' one.
SeekLosers(w) ==
  LET row == my[w].from
  IN  /\ pc[w] = "seekLosers"
      /\ Find(w, "LOSERS", row.round, row.index, Loser(row), "saveLoser")
      /\ UNCHANGED <<fixed, matches, champion, lost, irregular>>

SaveLoser(w) ==
  /\ pc[w] = "saveLoser"
  /\ SaveRow(my[w].id, my[w].next)
  /\ Goto(w, "seekGrand")
  /\ UNCHANGED <<fixed, champion, my, lost, irregular>>

-----------------------------------------------------------------------------
(* maybeScheduleGrandFinal *)

\* The winner of the only completed match of the highest completed round.
BracketChampion(side) ==
  LET completed == {i \in DOMAIN matches : matches[i].side = side /\ matches[i].done}
      last == {i \in completed : \A j \in completed : matches[j].round <= matches[i].round}
  IN  IF Cardinality(last) = 1 THEN matches[CHOOSE i \in last : TRUE].winner ELSE Nobody

NothingOpen == \A i \in DOMAIN matches :
                 Played(matches[i]) /\ matches[i].side # "GRAND_FINAL" => matches[i].done

GrandFinalDue ==
  /\ \A i \in DOMAIN matches : matches[i].side # "GRAND_FINAL"
  /\ BracketChampion("WINNERS") # Nobody /\ BracketChampion("LOSERS") # Nobody
  /\ BracketChampion("WINNERS") # BracketChampion("LOSERS")
  /\ NothingOpen

GrandFinal == [NewRow("GRAND_FINAL", 100, 1) EXCEPT !.a = BracketChampion("WINNERS"),
                                                    !.b = BracketChampion("LOSERS")]
AfterGrand(w) == IF my[w].byes THEN "byes" ELSE "pass"

SeekGrand(w) ==
  /\ pc[w] = "seekGrand"
  /\ IF GrandFinalDue
     THEN my' = [my EXCEPT ![w].id = 0, ![w].next = GrandFinal] /\ Goto(w, "saveGrand")
     ELSE Goto(w, AfterGrand(w)) /\ UNCHANGED my
  /\ UNCHANGED <<fixed, matches, champion, lost, irregular>>

SaveGrand(w) ==
  /\ pc[w] = "saveGrand"
  /\ SaveRow(my[w].id, my[w].next)
  /\ Goto(w, AfterGrand(w))
  /\ UNCHANGED <<fixed, champion, my, lost, irregular>>

-----------------------------------------------------------------------------
(* resolveOpeningByes *)

IsBye(row) == (row.a = Nobody) # (row.b = Nobody)

\* The loop reads the tournament and the open matches again as long as the last
\* pass got on, up to field.passes times.
ByePass(w) ==
  /\ pc[w] = "pass"
  /\ IF champion # Nobody \/ ~my[w].progressed \/ my[w].passes = field.passes
     THEN Answer(w)
     ELSE /\ my' = [my EXCEPT ![w].byes = TRUE, ![w].progressed = FALSE, ![w].passes = @ + 1,
                              ![w].list = {[id |-> i, row |-> matches[i]] :
                                             i \in {j \in DOMAIN matches : ~matches[j].done
                                                                         /\ IsBye(matches[j])}}]
          /\ Goto(w, "byes")
  /\ UNCHANGED <<fixed, matches, champion, lost, irregular>>

StillFills(row, index, id) ==
  /\ id # 0 /\ ~matches[id].done
  /\ IF IsOdd(index) THEN row.a = Nobody ELSE row.b = Nobody

\* (mutant) A slot is never waited for.
PendingNever(row, first, second) == FALSE

\* hasPendingFeeder: an open match of the round before can still fill the hole.
\* first and second are the rows it finds for the two feeding places.
Pending(row, first, second) ==
  /\ row.round > 1
  /\ StillFills(row, 2 * row.index - 1, first) \/ StillFills(row, 2 * row.index, second)

ByeWon(row) == [row EXCEPT !.done = TRUE, !.winner = IF row.a # Nobody THEN row.a ELSE row.b]

\* tryResolveBye on the copies of the pass, in any order; when none is left the
\* next pass begins.
Bye(w) ==
  /\ pc[w] = "byes"
  /\ \/ \E open \in my[w].list :
        \E first \in FindOne(open.row.side, open.row.round - 1, 2 * open.row.index - 1),
           second \in FindOne(open.row.side, open.row.round - 1, 2 * open.row.index) :
          LET rest == my[w].list \ {open}
          IN  IF Pending(open.row, first, second)
              THEN my' = [my EXCEPT ![w].list = rest] /\ UNCHANGED pc
              ELSE /\ my' = [my EXCEPT ![w].list = rest, ![w].progressed = TRUE,
                                       ![w].id = open.id, ![w].from = ByeWon(open.row)]
                   /\ Goto(w, "saveBye")
     \/ my[w].list = {} /\ Goto(w, "pass") /\ UNCHANGED my
  /\ UNCHANGED <<fixed, matches, champion, lost, irregular>>

SaveBye(w) ==
  /\ pc[w] = "saveBye"
  /\ SaveRow(my[w].id, my[w].from)
  /\ Goto(w, IF SingleElimFinal(my[w].from) THEN "complete" ELSE "findNext")
  /\ UNCHANGED <<fixed, champion, my, lost, irregular>>

FindNext(w) ==
  LET row == my[w].from
  IN  /\ pc[w] = "findNext"
      /\ Find(w, row.side, row.round + 1, row.index, row.winner, "saveNext")
      /\ UNCHANGED <<fixed, matches, champion, lost, irregular>>

\* A call throws, or the process dies with the request.
Abort(w) ==
  /\ pc[w] # "idle"
  /\ Irregular
  /\ Answer(w)
  /\ UNCHANGED <<fixed, matches, champion, lost>>

-----------------------------------------------------------------------------
Serve(w) ==
  \/ SaveResult(w) \/ SaveSwap(w) \/ Advance(w) \/ SaveReset(w) \/ Complete(w)
  \/ SaveNext(w) \/ SeekLosers(w) \/ SaveLoser(w) \/ SeekGrand(w) \/ SaveGrand(w)
  \/ ByePass(w) \/ Bye(w) \/ SaveBye(w) \/ FindNext(w)

Next == \E w \in Workers :
          \/ \E id \in DOMAIN matches :
               \/ \E result \in {"A", "B", "tie"} : Report(w, id, result) \/ Correct(w, id, result)
               \/ Swap(w, id)
          \/ Serve(w) \/ Abort(w)

Spec == Init /\ [][Next]_vars

-----------------------------------------------------------------------------
(* What a bracket promises *)

\* Every variable keeps its shape; rounds and matches are counted from one.
Row == [side : {"WINNERS", "LOSERS", "GRAND_FINAL"}, round : Nat \ {0}, index : Nat \ {0},
        a : Entrants \cup {Nobody}, b : Entrants \cup {Nobody},
        done : BOOLEAN, winner : Entrants \cup {Nobody}]
Steps == {"idle", "saveResult", "saveSwap", "advance", "saveReset", "complete", "saveNext",
          "seekLosers", "saveLoser", "seekGrand", "saveGrand", "pass", "byes", "saveBye", "findNext"}
TypeOK ==
  /\ matches \in Seq(Row)
  /\ champion \in Entrants \cup {Nobody}
  /\ pc \in [Workers -> Steps]
  /\ \A w \in Workers :
       /\ my[w].from \in Row /\ my[w].next \in Row /\ my[w].id \in 0 .. Len(matches)
       /\ my[w].list \subseteq [id : DOMAIN matches, row : Row]
       /\ my[w].byes \in BOOLEAN /\ my[w].progressed \in BOOLEAN /\ my[w].passes \in 0 .. field.passes
  /\ lost \in [Entrants -> Nat]
  /\ overlapped \in BOOLEAN /\ irregular \in 0 .. field.irregular

Quiet == \A w \in Workers : pc[w] = "idle"
Orderly == ~overlapped /\ irregular = 0

\* The champion of a single elimination has beaten the field: they never lost,
\* and everybody else lost once ("Auto-advance player-vs-empty slots when no
\* feeder can still fill the hole", tournaments-v2.service.ts:955).
ChampionBeatAll ==
  Orderly /\ ~Double /\ champion # Nobody =>
    \A p \in Entrants : lost[p] = IF p = champion THEN 0 ELSE 1

\* However reports, duplicate reports and byes interleave, when the server is
\* idle there is a champion, or a match that can be played.
NeverStalls ==
  irregular = 0 /\ Quiet /\ champion = Nobody =>
    \E i \in DOMAIN matches : Played(matches[i]) /\ ~matches[i].done

\* Player A of a grand final is "the undefeated winners champ"
\* (tournaments-v2.service.ts:398); a second game is only played when A lost
\* the first, and once there is a grand final no other match is left to be played.
UnbeatenInGrandFinal ==
  Orderly =>
    \A i \in DOMAIN matches : matches[i].side = "GRAND_FINAL" =>
      /\ ~matches[i].done => lost[matches[i].a] = matches[i].index - 1
      /\ Quiet => \A j \in DOMAIN matches :
                    Played(matches[j]) /\ matches[j].side # "GRAND_FINAL" => matches[j].done

\* Nobody but the champion of a single elimination is without a loss, even when
\* requests overlap.  (Two results that meet in one place break it.)
FieldPlayedOut ==
  irregular = 0 /\ ~Double /\ champion # Nobody => \A p \in Entrants \ {champion} : lost[p] > 0

\* A double elimination is not won by a player who lost twice, and nobody is out
\* after one loss.  (Three entrants break both.)
TwoLossesOut ==
  Orderly /\ Double /\ champion # Nobody =>
    \A p \in Entrants : IF p = champion THEN lost[p] <= 1 ELSE lost[p] = 2
=============================================================================
