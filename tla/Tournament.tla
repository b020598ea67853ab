----------------------------- MODULE Tournament -----------------------------
(***************************************************************************)
(* One tournament of TournamentsV2Service from its creation: registration, *)
(* start, rounds of matches, chip stacks, and the organizer's tools.       *)
(*                                                                         *)
(* Entrants, chip stacks, chip ledger, status and champion live in one row *)
(* of tournaments_v2, which every handler reads, changes in memory and     *)
(* saves as a whole.  The elimination of more than two entrants is module  *)
(* Bracket's; here it is the final alone, which is where advanceWinner and *)
(* the chip transfer both save the row.                                    *)
(***************************************************************************)
EXTENDS Requests, Sequences, FiniteSetsExt, SequencesExt

CONSTANTS
  Players,       \* who may register
  Events,        \* the tournaments under study: mode, chips by skill, seed strategy,
                 \* entrants, how often matches are generated, requests served at a time,
                 \* and irregular steps it may see (a tie, a named winner that is the
                 \* empty slot, corrections, reseeds, slots given away, requests cut short)
  RatingOf,      \* users.rating, read when an "elo" field is seeded
  StackOf,       \* the starting stack of a player's rating band (5000 .. 16000 in the code)
  Pot            \* chips a match is played for (1000 in the code)

Rounds == {"SWISS", "CHIP_RACE"}
Modes == Rounds \cup {"ROUND_ROBIN", "SINGLE_ELIMINATION"}
Strategies == {"manual", "random", "elo"}
Nobody == "nobody"

ASSUME TournamentAssumption ==
  /\ Events \subseteq [mode : Modes, chips : BOOLEAN, seeds : Strategies,
                       size : Nat, pairings : Nat \ {0}, atOnce : Nat, irregular : Nat]
  /\ \A e \in Events : e.mode = "CHIP_RACE" => e.chips
  /\ RatingOf \in [Players -> Nat] /\ StackOf \in [Players -> Nat \ {0}]
  /\ Pot \in Nat \ {0}
  /\ Nobody \notin Players

VARIABLES
  event,         \* the tournament: fixed when it is created
  row,           \* its row of tournaments_v2
  matches,       \* the rows of tournament_matches_v2
  made,          \* how often matches were generated: tells rows of one place apart
  registered     \* the players whose registration was answered with success

tournamentVars == <<requestVars, event, row, matches, made, registered>>

Seated == Players \cup {Nobody}

-----------------------------------------------------------------------------
(* seed-strategy.ts, bracket-generation.service.ts *)

\* The sequence of a finite set in the order of a strict total order.
InOrder(S, Before(_, _)) ==
  [i \in 1 .. Cardinality(S) |->
     CHOOSE p \in S : Cardinality({q \in S : Before(q, p)}) = i - 1]

Position(p, entrants) == CHOOSE i \in DOMAIN entrants : entrants[i] = p

\* The orders a strategy may bring the entrants into.  Equal ratings are ordered
\* by user id, which is as good as any order.
Seeds(strategy, entrants) ==
  LET field == ToSet(entrants)
  IN  CASE strategy = "manual" -> {entrants}
        [] strategy = "random" -> {[i \in DOMAIN entrants |-> entrants[f[i]]] :
                                     f \in {g \in [DOMAIN entrants -> DOMAIN entrants] : IsInjective(g)}}
        [] strategy = "elo" ->
             {s \in [DOMAIN entrants -> field] :
                /\ IsInjective(s)
                /\ \A i, j \in DOMAIN s : i < j => RatingOf[s[i]] >= RatingOf[s[j]]}

NewMatch(round, index, a, b) ==
  [made |-> made, round |-> round, index |-> index, a |-> a, b |-> b, done |-> FALSE, winner |-> Nobody]

\* Adjacent players of the order meet; an odd one out has an empty slot opposite.
SwissRound(order, round) ==
  {NewMatch(round, i, order[2 * i - 1], IF 2 * i <= Len(order) THEN order[2 * i] ELSE Nobody) :
     i \in 1 .. (Len(order) + 1) \div 2}

\* Every pair once, ten matches to a round.
RoundRobin(order) ==
  LET pairs == {p \in (DOMAIN order) \X (DOMAIN order) : p[1] < p[2]}
      Before(p, q) == p[1] < q[1] \/ (p[1] = q[1] /\ p[2] < q[2])
      listed == InOrder(pairs, Before)
  IN  {NewMatch((i - 1) \div 10 + 1, i, order[listed[i][1]], order[listed[i][2]]) : i \in DOMAIN listed}

Generated(order) ==
  IF event.mode = "ROUND_ROBIN" THEN RoundRobin(order) ELSE SwissRound(order, 1)

-----------------------------------------------------------------------------
(* chip-by-skill.ts: stacks and their transfer in a copy of the row *)

\* assignChipsForPlayers keeps the stacks there are; chipMeta notes who was dealt one.
NewStacks(copy, players) == players \ DOMAIN copy.stacks
Dealt(copy, players) ==
  [copy EXCEPT !.stacks = [p \in DOMAIN copy.stacks \cup players |->
                             IF p \in NewStacks(copy, players) THEN StackOf[p] ELSE copy.stacks[p]],
               !.meta = @ \cup NewStacks(copy, players)]
WithChips(copy, players) == IF event.chips THEN Dealt(copy, players) ELSE copy

Stack(copy, p) == IF p \in DOMAIN copy.stacks THEN copy.stacks[p] ELSE 0

\* (mutant) The pot is paid whatever the loser has left.
WholePot(stack) == Pot
\* chipTransferAmount
ChipTransferAmount(stack) == IF stack < Pot THEN stack ELSE Pot

\* applyChipTransfer: nothing moves when there is no winner or nobody opposite.
\* The winner's stack is written first, so one who meets themselves loses nothing.
Plus(stacks, p, n) == [q \in DOMAIN stacks \cup {p} |->
                         IF q # p THEN stacks[q] ELSE n + (IF p \in DOMAIN stacks THEN stacks[p] ELSE 0)]
Minus(stacks, p, n) == [q \in DOMAIN stacks \cup {p} |->
                          IF q # p THEN stacks[q]
                          ELSE IF p \in DOMAIN stacks /\ stacks[p] > n THEN stacks[p] - n ELSE 0]
Transferred(copy, match) ==
  LET loser == IF match.winner = match.a THEN match.b ELSE match.a
      amount == ChipTransferAmount(Stack(copy, loser))
  IN  IF match.winner = Nobody \/ loser = Nobody THEN copy
      ELSE [copy EXCEPT !.stacks = Minus(Plus(@, match.winner, amount), loser, amount),
                        !.ledger = Append(@, [winner |-> match.winner, loser |-> loser, amount |-> amount])]

Entrants(copy) == ToSet(copy.entrants)

\* (mutant) A player without chips still races.
AliveAlways(copy) == Entrants(copy)
\* The entrants that can go on: in a chip event, those who have chips.
Alive(copy) == {p \in Entrants(copy) : event.chips => Stack(copy, p) > 0}

-----------------------------------------------------------------------------
EmptyRow == [status |-> "DRAFT", entrants |-> <<>>, stacks |-> [p \in {} |-> 0], meta |-> {},
             ledger |-> <<>>, champion |-> Nobody]

\* create
TournamentInit ==
  /\ event \in Events
  /\ row = EmptyRow
  /\ matches = {}
  /\ made = 0
  /\ registered = {}
  /\ ServeNothing(event.irregular, event.atOnce)

Rest == UNCHANGED <<event, made, registered>>

\* register reads the row and saves it with the player entered.  (Registering
\* again would change nothing but the moment the row is saved: left out.)
Register(w, p) ==
  /\ Arrive(w)
  /\ row.status = "DRAFT"
  /\ p \notin Entrants(row) /\ Len(row.entrants) < event.size
  /\ Await(w, "saveEntrant",
           [copy |-> WithChips([row EXCEPT !.entrants = Append(@, p)], {p}), player |-> p])
  /\ Regular
  /\ UNCHANGED <<row, matches>> /\ Rest

SaveEntrant(w) ==
  /\ At(w, "saveEntrant")
  /\ row' = my[w].copy
  /\ registered' = registered \cup {my[w].player}
  /\ Answer(w)
  /\ UNCHANGED <<event, matches, made>>

\* start.  An elimination of more than two is not followed here.
Start(w) ==
  /\ Arrive(w)
  /\ row.status = "DRAFT"
  /\ Len(row.entrants) >= 2
  /\ made < event.pairings
  /\ event.mode = "SINGLE_ELIMINATION" => Len(row.entrants) = 2
  /\ Await(w, "clear", [copy |-> WithChips(row, Entrants(row)), started |-> TRUE])
  /\ Regular
  /\ UNCHANGED <<row, matches>> /\ Rest

\* adminReseed, which must be forced once the tournament is ACTIVE.
Reseed(w) ==
  /\ Arrive(w)
  /\ Len(row.entrants) >= 2
  /\ made < event.pairings
  /\ event.mode = "SINGLE_ELIMINATION" => Len(row.entrants) = 2
  /\ Await(w, "clear", [copy |-> row, started |-> FALSE])
  /\ Irregular
  /\ UNCHANGED <<row, matches>> /\ Rest

\* regenerateBracket: the old matches go, the row is saved, new ones are made.
Clear(w) ==
  /\ At(w, "clear")
  /\ matches' = {}
  /\ Then(w, "saveOrder")
  /\ UNCHANGED row /\ Rest

SaveOrder(w) ==
  /\ At(w, "saveOrder")
  /\ row' = my[w].copy
  /\ Then(w, "generate")
  /\ UNCHANGED matches /\ Rest

Generate(w) ==
  /\ At(w, "generate")
  /\ \E order \in Seeds(event.seeds, my[w].copy.entrants) : matches' = matches \cup Generated(order)
  /\ made' = made + 1
  /\ Then(w, "activate")
  /\ UNCHANGED <<event, row, registered>>

\* A reseeded draft stays a draft; anything else becomes ACTIVE.
Activate(w) ==
  /\ At(w, "activate")
  /\ row' = IF my[w].started \/ my[w].copy.status # "DRAFT"
            THEN [my[w].copy EXCEPT !.status = "ACTIVE"] ELSE my[w].copy
  /\ Answer(w)
  /\ UNCHANGED matches /\ Rest

-----------------------------------------------------------------------------
(* reportMatch, adminUpdateMatchScore, adminSwapPlayers *)

Winner(match, result) ==
  IF result = "A" THEN match.a ELSE IF result = "B" THEN match.b ELSE Nobody

TakeResult(w, match, result) ==
  /\ Await(w, "saveResult", [copy |-> row, match |-> match,
                             saved |-> [match EXCEPT !.done = TRUE, !.winner = Winner(match, result)]])
  /\ UNCHANGED <<row, matches>> /\ Rest

Report(w, match, result) ==
  /\ Arrive(w)
  /\ ~match.done
  /\ IF Winner(match, result) = Nobody THEN Irregular ELSE Regular
  /\ TakeResult(w, match, result)

\* The organizer's correction asks neither whether the match is completed nor
\* whether the tournament is.
Correct(w, match, result) ==
  /\ Arrive(w)
  /\ Irregular
  /\ TakeResult(w, match, result)

\* Saving a match that has been deleted inserts it again.
SaveMatch(old, new) == matches' = (matches \ {old}) \cup {new}

SaveResult(w) ==
  LET won == my[w].saved.winner # Nobody
  IN  /\ At(w, "saveResult")
      /\ SaveMatch(my[w].match, my[w].saved)
      /\ IF event.mode = "SINGLE_ELIMINATION" /\ won THEN Then(w, "readFinal")
         ELSE IF event.chips /\ won THEN Then(w, "transfer")
         ELSE Answer(w)
      /\ UNCHANGED row /\ Rest

\* advanceWinner reads the tournament again and completes what it has read ...
ReadFinal(w) ==
  /\ At(w, "readFinal")
  /\ Await(w, "saveFinal", [copy |-> my[w].copy, saved |-> my[w].saved, final |-> row])
  /\ UNCHANGED <<row, matches>> /\ Rest

Completed(copy, winner) == [copy EXCEPT !.status = "COMPLETED", !.champion = winner]

SaveFinal(w) ==
  /\ At(w, "saveFinal")
  /\ row' = Completed(my[w].final, my[w].saved.winner)
  /\ IF event.chips THEN Then(w, "transfer") ELSE Answer(w)
  /\ UNCHANGED matches /\ Rest

\* ... and then the chips are transferred in the copy from before.
SaveTransfer(w) ==
  LET copy == Transferred(my[w].copy, my[w].saved)
  IN  /\ At(w, "transfer")
      /\ row' = copy
      /\ IF event.mode = "CHIP_RACE" /\ Cardinality(Alive(copy)) <= 1
         THEN Await(w, "saveChampion", [copy |-> copy]) ELSE Answer(w)
      /\ UNCHANGED matches /\ Rest

\* maybeCompleteChipRace: the last one with chips, or else the first entrant.
SaveChampion(w) ==
  LET copy == my[w].copy
  IN  /\ At(w, "saveChampion")
      /\ row' = Completed(copy, IF Alive(copy) = {} THEN Head(copy.entrants)
                                ELSE CHOOSE p \in Alive(copy) : TRUE)
      /\ Answer(w)
      /\ UNCHANGED matches /\ Rest

\* A slot is given to somebody, or the two players are swapped.
Swap(w, match, changed) ==
  /\ Arrive(w)
  /\ Irregular
  /\ ~match.done
  /\ Await(w, "saveSwap", [match |-> match, saved |-> changed])
  /\ UNCHANGED <<row, matches>> /\ Rest

Changed(match) ==
  {[match EXCEPT !.a = match.b, !.b = match.a]} \cup {[match EXCEPT !.a = p] : p \in Players}
    \cup {[match EXCEPT !.b = p] : p \in Players}

SaveSwap(w) ==
  /\ At(w, "saveSwap")
  /\ SaveMatch(my[w].match, my[w].saved)
  /\ Answer(w)
  /\ UNCHANGED row /\ Rest

-----------------------------------------------------------------------------
(* getStandings, advanceSwissRound *)

Wins(p) == Cardinality({m \in matches : m.done /\ m.winner = p})

\* Most chips first in a chip event, then most wins, then the order of entry.
Ranks(p, q) ==
  LET chips(x) == IF event.chips THEN Stack(row, x) ELSE 0
  IN  \/ chips(p) > chips(q)
      \/ chips(p) = chips(q) /\ Wins(p) > Wins(q)
      \/ chips(p) = chips(q) /\ Wins(p) = Wins(q)
           /\ Position(p, row.entrants) < Position(q, row.entrants)

LastRound == Max({m.round : m \in matches})

\* (mutant) The next round is paired whatever is still being played.
RoundOverEarly == matches # {} /\ \E m \in matches : m.done
RoundOver == matches # {} /\ \A m \in matches : m.round = LastRound => m.done

\* The round is paired from what is read now and saved after an await.
AdvanceSwissRound(w) ==
  /\ Arrive(w)
  /\ event.mode \in Rounds
  /\ RoundOver
  /\ made < event.pairings
  /\ Await(w, "saveRound", [order |-> InOrder(Alive(row), Ranks), round |-> LastRound + 1])
  /\ Regular
  /\ UNCHANGED <<row, matches>> /\ Rest

SaveRound(w) ==
  /\ At(w, "saveRound")
  /\ matches' = matches \cup SwissRound(my[w].order, my[w].round)
  /\ made' = made + 1
  /\ Answer(w)
  /\ UNCHANGED <<event, row, registered>>

-----------------------------------------------------------------------------
TournamentServe(w) ==
  \/ SaveEntrant(w) \/ Clear(w) \/ SaveOrder(w) \/ Generate(w) \/ Activate(w)
  \/ SaveResult(w) \/ ReadFinal(w) \/ SaveFinal(w) \/ SaveTransfer(w) \/ SaveChampion(w)
  \/ SaveSwap(w) \/ SaveRound(w)

TournamentNext == \E w \in Workers :
  \/ \E p \in Players : Register(w, p)
  \/ Start(w) \/ Reseed(w) \/ AdvanceSwissRound(w)
  \/ \E match \in matches :
       \/ \E result \in {"A", "B", "tie"} : Report(w, match, result) \/ Correct(w, match, result)
       \/ \E changed \in Changed(match) : Swap(w, match, changed)
  \/ TournamentServe(w)
  \/ Abort(w) /\ UNCHANGED <<row, matches>> /\ Rest

TournamentSpec == TournamentInit /\ [][TournamentNext]_tournamentVars

-----------------------------------------------------------------------------
(* What a tournament promises *)

\* Every variable keeps its shape, and so does the copy of the row a request holds.
RowOK(copy) ==
  /\ copy.status \in {"DRAFT", "ACTIVE", "COMPLETED"}
  /\ copy.entrants \in Seq(Players)
  /\ copy.stacks \in [DOMAIN copy.stacks -> Nat] /\ DOMAIN copy.stacks \subseteq Players
  /\ copy.meta \subseteq DOMAIN copy.stacks
  /\ copy.ledger \in Seq([winner : Players, loser : Players, amount : 0 .. Pot])
  /\ copy.champion \in Seated
Match == [made : Nat, round : Nat \ {0}, index : Nat \ {0}, a : Seated, b : Seated,
          done : BOOLEAN, winner : Seated]
TournamentTypeOK ==
  /\ RowOK(row)
  /\ matches \subseteq Match /\ made \in Nat
  /\ registered \subseteq Players
  /\ \A w \in Workers : "copy" \in DOMAIN my[w] => RowOK(my[w].copy)

\* What the ledger of a row says a player won and lost.
Won(copy, p) ==
  MapThenSumSet(LAMBDA i : copy.ledger[i].amount, {i \in DOMAIN copy.ledger : copy.ledger[i].winner = p})
Gone(copy, p) ==
  MapThenSumSet(LAMBDA i : copy.ledger[i].amount, {i \in DOMAIN copy.ledger : copy.ledger[i].loser = p})
FollowsLedger(copy) ==
  \A p \in DOMAIN copy.stacks :
    copy.stacks[p] + Gone(copy, p) = (IF p \in copy.meta THEN StackOf[p] ELSE 0) + Won(copy, p)

\* Every stack is what the player was dealt (nothing, if the organizer gave a slot
\* to somebody who had not registered), plus what the ledger says they won, minus
\* what it says they lost: chips are neither made nor lost, however reports,
\* corrections, registrations and reseeds interleave ("Move in-event stacks only",
\* tournaments-v2.service.ts:904).
StacksFollowLedger == FollowsLedger(row)

\* A chip race is over when one player is left with chips, and only then.
ChipRaceSettled ==
  Orderly /\ Quiet /\ event.mode = "CHIP_RACE" /\ row.status # "DRAFT" =>
    LET racing == {p \in Entrants(row) : Stack(row, p) > 0}
    IN  IF row.status = "COMPLETED" THEN racing = {row.champion} ELSE Cardinality(racing) > 1

\* Whoever is still in the event has exactly one match in the last round, and
\* nobody has two; "Bust (0 chips) sits out further CHIP_RACE rounds"
\* (chip-by-skill.ts:19), so an open match has no player without chips.
RoundsAreFair ==
  Orderly /\ Quiet /\ event.mode \in Rounds /\ matches # {} =>
    LET of(p) == {m \in matches : m.round = LastRound /\ p \in {m.a, m.b}}
    IN  /\ \A p \in Entrants(row) : Cardinality(of(p)) <= 1
        /\ \A p \in Alive(row) : of(p) # {}
        /\ \A p \in Entrants(row) \ Alive(row) : \A m \in of(p) : m.done

\* A tournament that has started does not go back to the draft, whose start
\* would delete its matches ("Tournament already started",
\* tournaments-v2.service.ts:167).  (A registration that is saved late breaks it.)
StartedStaysStarted == [][row.status # "DRAFT" => row'.status # "DRAFT"]_tournamentVars

\* A registration that was answered with success is one of the entrants.  (Two
\* registrations at a time break it, and one while the tournament starts.)
RegisteredStays == registered \subseteq Entrants(row)

\* A completed tournament keeps its champion as long as nobody corrects or
\* reseeds it.  (An elimination with chips breaks it: the chip transfer saves
\* the row from before the final was won.)
ChampionStays == [][row.status = "COMPLETED" /\ ~irregular' =>
                      row'.status = "COMPLETED" /\ row'.champion = row.champion]_tournamentVars

\* No round is paired twice.  (Two requests to advance at a time break it.)
PairedOnce == \A m, n \in matches : m.round = n.round => m.made = n.made
=============================================================================
