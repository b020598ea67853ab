--------------------------- MODULE Results_proofs ---------------------------
(***************************************************************************)
(* From the table to the record for any players, racks, scores and         *)
(* requests at a time, a season and the player cards included: the types,  *)
(* that effects need a result, that a rack ends at its target, whose       *)
(* person a card is of, and that in turn a result takes effect once.       *)
(***************************************************************************)
EXTENDS PlayerCards, Requests_proofs, FiniteSetTheorems

-----------------------------------------------------------------------------
(* Types *)

Balls == UNION {[S -> Sides] : S \in SUBSET Nat}
Game == [A : Users, B : Users, rack : Nat, raceTo : Nat, status : Open \cup {"COMPLETED"},
         pocketed : Balls, score : [Sides -> Nat], complete : BOOLEAN]
ResultRow == [match : Int, winner : Users, loser : Users, rated : BOOLEAN]
FixtureRow == [A : Users, B : Users, status : {"SCHEDULED", "COMPLETED"}, score : [Sides -> Scores \cup {0}]]
People == Users \cup {Nobody}
Names == {UnknownPlayer} \cup Range(DisplayName) \cup Range(LeagueName)
Shadow == [user : People, version : Nat, at : [Users -> Nat]]
CardRow == [user : People, league : People, name : Names, shadow : Shadow]

\* A result that has been handed to processReport, and a match that has one.
Handed(result) == \E n \in DOMAIN processed : processed[n] = result
HasResult(g) == \E n \in DOMAIN processed : processed[n].match = g

\* A pool match, in the table or in a copy, and what a rack of it adds up to.
Sound(game) ==
  /\ game \in Game /\ game.A # game.B
  /\ DOMAIN game.pocketed \subseteq InitialObjectBalls(game.rack)
  /\ game.rack # 0 =>
       /\ game.status = "COMPLETED" <=> \E s \in Sides : game.score[s] >= game.raceTo
       /\ game.status # "COMPLETED" => \A s \in Sides : game.score[s] = Points(game.pocketed, s)
ClosedForAResult(g, row) == row \in Timeline /\ (row.finalized => HasResult(g))
Paired(fixture) == fixture \in FixtureRow /\ fixture.A # fixture.B

\* A shadow shows a rating there has been.
Past(user, version) == user \in People /\ version \in Nat /\ \A u \in Users : user = u => version <= updates[u]
RowSound(row) ==
  /\ row \in CardRow
  /\ \A u \in Users : /\ row.shadow.at[u] <= updates[u]
                      /\ row.shadow.user = u => row.shadow.version <= row.shadow.at[u]
HintsOK(hints) == hints.user \in People /\ hints.league \in People /\ hints.name \in Names \cup {NoName}

\* What a request holds at each of its steps.
HoldsResult(step, work) ==
  /\ step = "saveMatch" => work.match \in DOMAIN games /\ Sound(work.copy)
  /\ step = "readTimeline" => Handed(work.result) /\ work.match = work.result.match
  /\ step \in {"saveTimeline", "mirrorTimeline"} =>
       ClosedForAResult(work.match, work.row) /\ ("result" \in DOMAIN work => Handed(work.result))
  /\ step = "saveTimeline" => work.match \in Known
  /\ step = "mirrorTimeline" => work.match \in DOMAIN timelines
  /\ step \in {"readUsers", "findMemories", "publish"} => Handed(work.result)
  /\ step \in {"askRealAi", "saveUsers"} =>
       Handed(work.result) /\ work.result.rated /\ work.copy \in [Users -> Nat]
  /\ step = "createMemories" =>
       /\ work = [result |-> work.result, domain |-> work.domain, missing |-> work.missing]
       /\ Handed(work.result) /\ work.missing \subseteq Players(work.result)
  /\ step = "saveSeed" => work.user \in Users

HoldsSeason(step, work) ==
  /\ step \in {"saveSeason", "saveSnapshot"} => work.players \subseteq Users
  /\ step \in {"validate", "saveFixture", "readStandings", "saveStandings"} =>
       work.fixture \in DOMAIN fixtures /\ Paired(work.copy)
  /\ step = "saveStandings" => work.points \in [PlayersOf(work.copy) -> Nat]

HoldsCard(step, work) ==
  /\ step = "readUser" => work.ask \in {"card", "recompute", "seed"} /\ work.of \in Users
  /\ step = "resolve" => HintsOK(work.hints) /\ Past(work.of, work.version)
  /\ step = "saveIdentity" =>
       /\ work = [ask |-> work.ask, of |-> work.of, version |-> work.version, n |-> work.n, row |-> work.row]
       /\ work.n \in {0} \cup DOMAIN identities
  /\ step \in {"saveImport", "readIdentity", "readLinked", "shade"} => work.n \in DOMAIN identities
  /\ step \in {"saveIdentity", "saveImport", "readLinked", "shade"} => RowSound(work.row)
  /\ step \in {"saveIdentity", "shade"} => Past(work.of, work.version)

Holds(step, work) == HoldsResult(step, work) /\ HoldsSeason(step, work) /\ HoldsCard(step, work)
Equipped(w) == Holds(pc[w], my[w])

GamesOK == games \in Seq(Game) /\ \A g \in DOMAIN games : Sound(games[g])
ProcessedOK ==
  processed \in Seq(ResultRow) /\ \A n \in DOMAIN processed : processed[n].winner # processed[n].loser
TimelinesOK ==
  /\ DOMAIN timelines \subseteq Known /\ DOMAIN mirror \subseteq DOMAIN timelines
  /\ \A g \in DOMAIN timelines : ClosedForAResult(g, timelines[g])
UsersOK == played \in [Users -> Nat] /\ updates \in [Users -> Nat]
MemoriesOK ==
  /\ IsFiniteSet(memories) /\ memories \subseteq [match : Known, user : Users, isWinner : BOOLEAN, nth : Nat]
  /\ \A m \in memories : \E n \in DOMAIN processed :
       processed[n].match = m.match /\ m.user = (IF m.isWinner THEN processed[n].winner ELSE processed[n].loser)
SeasonOK ==
  /\ season \in {"none", "DRAFT", "ACTIVE"}
  /\ DOMAIN standings \subseteq Users /\ \A u \in DOMAIN standings : standings[u] \in Nat
  /\ fixtures \in Seq(FixtureRow) /\ \A n \in DOMAIN fixtures : Paired(fixtures[n])
CardsOK == identities \in Seq(CardRow) /\ \A n \in DOMAIN identities : RowSound(identities[n])

TypeInv ==
  /\ Served /\ scene \in Scenes
  /\ GamesOK /\ ProcessedOK /\ TimelinesOK /\ UsersOK /\ MemoriesOK /\ SeasonOK /\ CardsOK
  /\ \A w \in Workers : Equipped(w)

LEMMA TypeInit == CardInit => TypeInv
<1> SUFFICES ASSUME CardInit PROVE TypeInv
  OBVIOUS
<1>1. Served /\ \A w \in Workers : pc[w] = "idle"
  BY NothingServed DEF CardInit, SeasonInit, Init
<1>2. GamesOK /\ ProcessedOK /\ scene \in Scenes
  BY DEF CardInit, SeasonInit, Init, GamesOK, ProcessedOK
<1>3. TimelinesOK /\ UsersOK
  BY DEF CardInit, SeasonInit, Init, TimelinesOK, UsersOK
<1>4. MemoriesOK
  BY FS_EmptySet DEF CardInit, SeasonInit, Init, MemoriesOK
<1>5. SeasonOK /\ CardsOK
  BY DEF CardInit, SeasonInit, Init, SeasonOK, CardsOK
<1>6. \A w \in Workers : Equipped(w)
  BY <1>1 DEF Equipped, Holds, HoldsResult, HoldsSeason, HoldsCard
<1> QED  BY <1>1, <1>2, <1>3, <1>4, <1>5, <1>6 DEF TypeInv

-----------------------------------------------------------------------------
(* The frame of a step *)

\* Rows only become more, users only have more updates, and no result is withdrawn.
Grown ==
  /\ DOMAIN games \subseteq DOMAIN games' /\ DOMAIN timelines \subseteq DOMAIN timelines'
  /\ DOMAIN fixtures \subseteq DOMAIN fixtures' /\ DOMAIN identities \subseteq DOMAIN identities'
  /\ \A n \in DOMAIN processed : n \in DOMAIN processed' /\ processed'[n] = processed[n]
  /\ updates' \in [Users -> Nat] /\ \A u \in Users : updates[u] <= updates'[u]

LEMMA GrownKnown ==
  ASSUME Grown
  PROVE  /\ Known \subseteq Known'
         /\ \A result : Handed(result) => Handed(result)'
         /\ \A g : HasResult(g) => HasResult(g)'
BY DEF Grown, Known, Matches, Handed, HasResult

LEMMA GrownRow ==
  ASSUME UsersOK, Grown, NEW row, RowSound(row)
  PROVE  RowSound(row)'
<1>1. row \in CardRow /\ \A u \in Users : row.shadow.at[u] \in Nat
  BY DEF RowSound, CardRow, Shadow
<1>2. \A u \in Users : row.shadow.at[u] <= updates'[u]
  BY <1>1 DEF RowSound, Grown, UsersOK
<1> QED  BY <1>1, <1>2 DEF RowSound

LEMMA GrownPast ==
  ASSUME UsersOK, Grown, NEW user, NEW version, Past(user, version)
  PROVE  Past(user, version)'
BY DEF Past, Grown, UsersOK

LEMMA HoldsStill ==
  ASSUME NEW step, NEW work, Holds(step, work), UsersOK, Grown
  PROVE  Holds(step, work)'
<1>1. HoldsResult(step, work)'
  <2>1. \A g, row : ClosedForAResult(g, row) => ClosedForAResult(g, row)'
    BY GrownKnown DEF ClosedForAResult
  <2>2. Known \subseteq Known' /\ \A result : Handed(result) => Handed(result)'
    BY GrownKnown
  <2>3. DOMAIN games \subseteq DOMAIN games' /\ DOMAIN timelines \subseteq DOMAIN timelines'
    BY DEF Grown
  <2> QED  BY <2>1, <2>2, <2>3 DEF Holds, HoldsResult
<1>2. HoldsSeason(step, work)'
  BY DEF Holds, HoldsSeason, Grown
<1>3. HoldsCard(step, work)'
  <2>1. \A row : RowSound(row) => RowSound(row)'
    BY GrownRow
  <2>2. \A user, version : Past(user, version) => Past(user, version)'
    BY GrownPast
  <2>3. DOMAIN identities \subseteq DOMAIN identities'
    BY DEF Grown
  <2> QED  BY <2>1, <2>2, <2>3 DEF Holds, HoldsCard
<1> QED  BY <1>1, <1>2, <1>3 DEF Holds

\* A table that a step leaves alone stays sound.
LEMMA TablesStill ==
  ASSUME TypeInv, Grown
  PROVE  /\ UNCHANGED games => GamesOK'
         /\ UNCHANGED processed => ProcessedOK'
         /\ UNCHANGED <<timelines, mirror>> => TimelinesOK'
         /\ UNCHANGED <<played, updates>> => UsersOK'
         /\ UNCHANGED memories => MemoriesOK'
         /\ UNCHANGED seasonVars => SeasonOK'
         /\ UNCHANGED identities => CardsOK'
<1>1. UNCHANGED games => GamesOK'
  BY DEF TypeInv, GamesOK
<1>2. UNCHANGED processed => ProcessedOK'
  BY DEF TypeInv, ProcessedOK
<1>3. UNCHANGED <<timelines, mirror>> => TimelinesOK'
  BY GrownKnown DEF TypeInv, TimelinesOK, ClosedForAResult
<1>4. UNCHANGED <<played, updates>> => UsersOK'
  BY DEF TypeInv, UsersOK
<1>5. ASSUME UNCHANGED memories PROVE MemoriesOK'
  <2>1. memories' \subseteq [match : Known', user : Users, isWinner : BOOLEAN, nth : Nat]
    BY <1>5, GrownKnown DEF TypeInv, MemoriesOK
  <2>2. \A m \in memories' : \E n \in DOMAIN processed' :
          processed'[n].match = m.match /\ m.user = (IF m.isWinner THEN processed'[n].winner ELSE processed'[n].loser)
    BY <1>5 DEF TypeInv, MemoriesOK, Grown
  <2> QED  BY <1>5, <2>1, <2>2 DEF TypeInv, MemoriesOK
<1>6. UNCHANGED seasonVars => SeasonOK'
  BY DEF TypeInv, SeasonOK, seasonVars
<1>7. UNCHANGED identities => CardsOK'
  BY GrownRow DEF TypeInv, CardsOK
<1> QED  BY <1>1, <1>2, <1>3, <1>4, <1>5, <1>6, <1>7

TablesOK == GamesOK /\ ProcessedOK /\ TimelinesOK /\ UsersOK /\ MemoriesOK /\ SeasonOK /\ CardsOK

LEMMA StillType ==
  ASSUME TypeInv, UNCHANGED <<pc, my, scene>>, overlapped' \in BOOLEAN, irregular' \in BOOLEAN,
         Grown, TablesOK'
  PROVE  TypeInv'
<1>1. ASSUME NEW v \in Workers PROVE Equipped(v)'
  <2>1. PICK step0, work0 : step0 = pc[v] /\ work0 = my[v]
    OBVIOUS
  <2>2. Holds(step0, work0)'
    BY <2>1, HoldsStill DEF TypeInv, Equipped
  <2> QED  BY <2>1, <2>2 DEF Equipped
<1>2. Served'
  BY DEF TypeInv, Served
<1> QED  BY <1>1, <1>2 DEF TypeInv, TablesOK

\* It is enough to look at the step's own request and at what it changes.
LEMMA StepType ==
  ASSUME TypeInv, NEW w \in Workers, NEW step, NEW work,
         Await(w, step, work), Holds(step, work)',
         Arrive(w) \/ UNCHANGED overlapped, irregular' \in BOOLEAN, UNCHANGED scene,
         Grown, TablesOK'
  PROVE  TypeInv'
<1>1. Moved(w, step, work) /\ pc' = [v \in Workers |-> pc'[v]] /\ my' = [v \in Workers |-> my'[v]]
  BY Awaiting DEF TypeInv
<1>2. Equipped(w)'
  BY <1>1 DEF Moved, Equipped
<1>3. ASSUME NEW v \in Workers \ {w} PROVE Equipped(v)'
  <2>1. pc'[v] = pc[v] /\ my'[v] = my[v] /\ Holds(pc[v], my[v])
    BY <1>1 DEF Moved, Alone, TypeInv, Equipped
  <2>2. PICK step0, work0 : step0 = pc[v] /\ work0 = my[v]
    OBVIOUS
  <2>3. Holds(step0, work0)'
    BY <2>1, <2>2, HoldsStill DEF TypeInv
  <2> QED  BY <2>1, <2>2, <2>3 DEF Equipped
<1>4. overlapped' \in BOOLEAN
  BY DEF Arrive, TypeInv, Served
<1>5. Served'
  BY <1>1, <1>4 DEF Served
<1> QED  BY <1>2, <1>3, <1>5 DEF TypeInv, TablesOK

\* A request that only reads.
LEMMA ReadType ==
  ASSUME TypeInv, NEW w \in Workers, NEW step, NEW work,
         Await(w, step, work), Holds(step, work),
         Arrive(w) \/ UNCHANGED overlapped, irregular' \in BOOLEAN, UNCHANGED <<resultVars, seasonVars, identities>>
  PROVE  TypeInv'
<1>1. Grown
  BY DEF Grown, TypeInv, UsersOK, resultVars, seasonVars
<1>2. TablesOK'
  BY <1>1, TablesStill DEF TablesOK, resultVars
<1>3. Holds(step, work)'
  BY <1>1, HoldsStill DEF TypeInv
<1> QED  BY <1>1, <1>2, <1>3, StepType DEF resultVars

\* Going on with what one holds, and giving up.
LEMMA ThenAwait == ASSUME Served, NEW w \in Workers, NEW step, Then(w, step) PROVE Await(w, step, my[w])
BY DEF Served, Then, Goto, Await, Hold

LEMMA AnswerHolds == Holds("idle", NoWork)
BY DEF Holds, HoldsResult, HoldsSeason, HoldsCard

LEMMA AnswerHoldsNext == Holds("idle", NoWork)'
BY DEF Holds, HoldsResult, HoldsSeason, HoldsCard

LEMMA Called ==
  ASSUME TypeInv, NEW w \in Workers, NEW call, Call(w, call)
  PROVE  Arrive(w) /\ irregular' \in BOOLEAN /\ overlapped' \in BOOLEAN
BY ArrivesInTurn DEF Call, Regular, TypeInv, Served, Arrive

LEMMA Served1 ==
  ASSUME TypeInv, NEW w \in Workers, NEW step, At(w, step)
  PROVE  pc[w] = step /\ UNCHANGED overlapped /\ irregular' \in BOOLEAN
BY DEF At, TypeInv, Served

-----------------------------------------------------------------------------
(* The points of a rack *)

Money == INSTANCE RocMoney_proofs

LEMMA FiniteIsFinite == \A S : IsFiniteSet(S) <=> Money!IsFiniteSet(S)
BY DEF IsFiniteSet, Money!IsFiniteSet

WorthOf == [ball \in Nat |-> BallPointValue(ball)]
IsWorthFunction(S, g) ==
  g = [s \in SUBSET S |-> IF s = {} THEN 0
                          ELSE BallPointValue(Money!FirstOf(s)) + g[s \ {Money!FirstOf(s)}]]

LEMMA WorthIsFunction == ASSUME NEW S PROVE Worth(S) = (CHOOSE g : IsWorthFunction(S, g))[S]
BY DEF Worth, MapThenSumSet, MapThenFoldSet, IsWorthFunction, Money!FirstOf

\* The points of some balls are a sum over them.
LEMMA WorthIsSum ==
  ASSUME NEW S \in SUBSET Nat, IsFiniteSet(S)
  PROVE  Worth(S) = Money!SumOver(WorthOf, S)
<1>1. ASSUME NEW g PROVE IsWorthFunction(S, g) <=> Money!IsSumFunction(WorthOf, S, g)
  <2>1. \A s \in SUBSET S : s # {} => WorthOf[Money!FirstOf(s)] = BallPointValue(Money!FirstOf(s))
    BY Money!FirstOfIn DEF WorthOf
  <2> QED  BY <2>1 DEF IsWorthFunction, Money!IsSumFunction
<1> DEFINE F == [s \in SUBSET S |-> Money!SumOver(WorthOf, s)]
<1>2. Money!IsSumFunction(WorthOf, S, F)
  <2>1. \A s \in SUBSET S : Money!SumAsRead(WorthOf, s)
    BY Money!SumStep, FS_Subset, FiniteIsFinite
  <2>2. \A s \in SUBSET S : s # {} =>
          F[s \ {Money!FirstOf(s)}] = Money!SumOver(WorthOf, s \ {Money!FirstOf(s)})
    OBVIOUS
  <2> QED  BY <2>1, <2>2 DEF Money!IsSumFunction, Money!SumAsRead
<1>3. F[S] = Money!SumOver(WorthOf, S)
  OBVIOUS
<1> HIDE DEF F
<1>4. IsWorthFunction(S, CHOOSE g : IsWorthFunction(S, g))
  BY <1>1, <1>2
<1> DEFINE G == CHOOSE g : IsWorthFunction(S, g)
<1>5. IsWorthFunction(S, G) /\ Worth(S) = G[S]
  BY <1>4, WorthIsFunction
<1> HIDE DEF G
<1>6. Money!IsSumFunction(WorthOf, S, G)
  BY <1>1, <1>5
<1> QED  BY <1>2, <1>3, <1>5, <1>6, Money!SumFunctionUnique, FiniteIsFinite

LEMMA PointsNat ==
  ASSUME NEW rack \in Nat, NEW pocketed, DOMAIN pocketed \subseteq InitialObjectBalls(rack), NEW side
  PROVE  Points(pocketed, side) \in Nat
<1> DEFINE S == {ball \in DOMAIN pocketed : pocketed[ball] = side}
<1>1. S \in SUBSET Nat /\ IsFiniteSet(S)
  <2>1. IsFiniteSet(1 .. rack)
    BY FS_Interval
  <2> QED  BY <2>1, FS_Subset DEF InitialObjectBalls
<1> HIDE DEF S
<1>2. WorthOf \in [Nat -> Nat]
  BY DEF WorthOf, BallPointValue
<1>3. Worth(S) \in Nat
  BY <1>1, <1>2, WorthIsSum, Money!SumNat, FiniteIsFinite
<1> QED  BY <1>3 DEF Points, S

LEMMA NoPoints == ASSUME NEW side PROVE Points(<<>>, side) = 0
<1>1. {ball \in DOMAIN <<>> : <<>>[ball] = side} = {}
  OBVIOUS
<1>2. Worth({}) = 0
  BY WorthIsSum, FS_EmptySet, Money!SumEmpty, FiniteIsFinite
<1> QED  BY <1>1, <1>2 DEF Points

-----------------------------------------------------------------------------
(* Types: the matches *)

LEMMA NewGame ==
  ASSUME NEW a \in Users, NEW b \in Users, a # b,
         NEW game \in {Standard(a, b)} \cup {PyramidMatch(a, b, rack) : rack \in Racks}
  PROVE  Sound(game)
<1>1. <<>> \in Balls /\ DOMAIN <<>> = {}
  <2>1. <<>> \in [{} -> Sides] /\ {} \in SUBSET Nat
    OBVIOUS
  <2> QED  BY <2>1 DEF Balls
<1>2. CASE game = Standard(a, b)
  BY <1>1, <1>2, ResultsAssumption DEF Standard, Sound, Game, Sides, Open
<1>3. ASSUME NEW rack \in Racks, game = PyramidMatch(a, b, rack) PROVE Sound(game)
  <2>1. rack.balls \in Nat \ {0} /\ rack.target \in Nat \ {0}
    BY ResultsAssumption
  <2>2. game = [A |-> a, B |-> b, rack |-> rack.balls, raceTo |-> rack.target, status |-> "PENDING",
                pocketed |-> <<>>, score |-> [A |-> 0, B |-> 0], complete |-> FALSE]
    BY <1>3 DEF PyramidMatch, Standard
  <2>3. game \in Game
    BY <1>1, <2>1, <2>2 DEF Game, Sides, Open
  <2>4. \A s \in Sides : game.score[s] = 0
    BY <2>2 DEF Sides
  <2>5. \A s \in Sides : Points(game.pocketed, s) = 0
    BY <2>2, NoPoints
  <2>6. game.status # "COMPLETED" /\ ~(0 >= game.raceTo)
    BY <2>1, <2>2
  <2> QED  BY <1>1, <2>2, <2>3, <2>4, <2>5, <2>6 DEF Sound
<1> QED  BY <1>2, <1>3

LEMMA CreateType ==
  ASSUME TypeInv, NEW w \in Workers, NEW a \in Users, NEW b \in Users, Create(w, a, b),
         UNCHANGED <<seasonVars, identities>>
  PROVE  TypeInv'
<1> USE DEF Create
<1>1. PICK game : /\ game \in {Standard(a, b)} \cup {PyramidMatch(a, b, rack) : rack \in Racks}
                  /\ games' = Append(games, game)
  OBVIOUS
<1>2. Sound(game) /\ game \in Game
  BY <1>1, NewGame DEF Sound
<1>3. games \in Seq(Game)
  BY DEF TypeInv, GamesOK
<1>4. /\ games' \in Seq(Game) /\ DOMAIN games \subseteq DOMAIN games'
      /\ \A g \in DOMAIN games' : games'[g] = game \/ (g \in DOMAIN games /\ games'[g] = games[g])
  BY <1>1, <1>2, <1>3, InsertedRow
<1>5. GamesOK'
  BY <1>2, <1>4 DEF TypeInv, GamesOK
<1>6. Grown
  BY <1>4 DEF Grown, TypeInv, UsersOK, seasonVars
<1>7. TablesOK'
  BY <1>5, <1>6, TablesStill DEF TablesOK
<1> QED  BY <1>6, <1>7, StillType, Called

LEMMA ReportResultType ==
  ASSUME TypeInv, NEW w \in Workers, NEW g \in DOMAIN games, NEW a \in Scores, NEW b \in Scores,
         ReportResult(w, g, a, b), UNCHANGED <<seasonVars, identities>>
  PROVE  TypeInv'
<1> USE DEF ReportResult
<1>1. PICK game : game = games[g]
  OBVIOUS
<1>2. Sound(game) /\ game \in Game /\ a \in Nat /\ b \in Nat
  BY <1>1, ResultsAssumption DEF TypeInv, GamesOK, Sound
<1>3. PICK copy : copy = [game EXCEPT !.status = "COMPLETED", !.score = [A |-> a, B |-> b],
                                      !.complete = (game.rack # 0)]
  OBVIOUS
<1>4. /\ copy \in Game /\ copy.A = game.A /\ copy.B = game.B /\ copy.rack = game.rack
      /\ copy.raceTo = game.raceTo /\ copy.pocketed = game.pocketed
      /\ copy.status = "COMPLETED" /\ copy.score = [A |-> a, B |-> b]
  <2>1. PICK score : score = [A |-> a, B |-> b]
    OBVIOUS
  <2>2. score \in [Sides -> Nat] /\ (game.rack # 0) \in BOOLEAN
    BY <1>2, <2>1 DEF Sides
  <2>3. "COMPLETED" \in Open \cup {"COMPLETED"}
    OBVIOUS
  <2> QED  BY <1>2, <1>3, <2>1, <2>2, <2>3 DEF Game
<1>5. game.rack # 0 => \E s \in Sides : copy.score[s] >= game.raceTo
  BY <1>1, <1>4 DEF Sides
<1>6. Sound(copy)
  BY <1>2, <1>4, <1>5 DEF Sound
<1>7. PICK work : work = [match |-> g, copy |-> copy]
  OBVIOUS
<1>8. Holds("saveMatch", work)
  BY <1>6, <1>7 DEF Holds, HoldsResult, HoldsSeason, HoldsCard
<1>9. Await(w, "saveMatch", work)
  BY <1>1, <1>3, <1>7
<1> QED  BY <1>8, <1>9, ReadType, Called

\* Only a side with its points ends a rack.
LEMMA WinnerHasPoints ==
  ASSUME NEW pocketed, NEW target, NEW side \in Sides
  PROVE  /\ WinnerSide(pocketed, target, side) = "none" <=> \A s \in Sides : ~(Points(pocketed, s) >= target)
         /\ WinnerSide(pocketed, target, side) \in Sides \cup {"none"}
BY DEF WinnerSide, Sides

LEMMA PyramidPocketType ==
  ASSUME TypeInv, NEW w \in Workers, NEW g \in DOMAIN games, NEW side \in Sides, NEW balls,
         PyramidPocket(w, g, side, balls), UNCHANGED <<seasonVars, identities>>
  PROVE  TypeInv'
<1> USE DEF PyramidPocket
<1>1. PICK game, pocketed : game = games[g] /\ pocketed = PocketBalls(game.pocketed, side, balls)
  OBVIOUS
<1>2. Sound(game) /\ game \in Game /\ game.rack \in Nat
  BY <1>1 DEF TypeInv, GamesOK, Sound, Game
<1>3. PICK winner : winner = WinnerSide(pocketed, game.raceTo, side)
  OBVIOUS
<1>4. PICK copy : copy = [game EXCEPT !.status = IF winner = "none" THEN "ACTIVE" ELSE "COMPLETED",
                                      !.pocketed = pocketed,
                                      !.score = [s \in Sides |-> Points(pocketed, s)],
                                      !.complete = (winner # "none")]
  OBVIOUS
<1>5. /\ DOMAIN pocketed = DOMAIN game.pocketed \cup balls /\ DOMAIN pocketed \subseteq InitialObjectBalls(game.rack)
      /\ pocketed = [ball \in DOMAIN pocketed |-> pocketed[ball]]
      /\ \A ball \in DOMAIN pocketed : pocketed[ball] \in Sides
  <2>1. balls \subseteq InitialObjectBalls(game.rack)
    BY <1>1 DEF MayPocket, BallsRemaining
  <2>2. \A ball \in DOMAIN game.pocketed : game.pocketed[ball] \in Sides
    <3>1. game.pocketed \in Balls
      BY <1>2 DEF Game
    <3>2. PICK S \in SUBSET Nat : game.pocketed \in [S -> Sides]
      BY <3>1 DEF Balls
    <3> QED  BY <3>2
  <2>3. /\ pocketed = [ball \in DOMAIN game.pocketed \cup balls |->
                        IF ball \in balls THEN side ELSE game.pocketed[ball]]
        /\ DOMAIN game.pocketed \subseteq InitialObjectBalls(game.rack)
    BY <1>1, <1>2 DEF PocketBalls, Sound
  <2> QED  BY <2>1, <2>2, <2>3
<1>6. pocketed \in Balls
  <2>1. DOMAIN pocketed \in SUBSET Nat /\ pocketed \in [DOMAIN pocketed -> Sides]
    BY <1>2, <1>5 DEF InitialObjectBalls
  <2> QED  BY <2>1 DEF Balls
<1>7. \A s \in Sides : Points(pocketed, s) \in Nat
  BY <1>2, <1>5, PointsNat
<1>8. /\ copy \in Game /\ copy.A = game.A /\ copy.B = game.B /\ copy.rack = game.rack
      /\ copy.raceTo = game.raceTo /\ copy.pocketed = pocketed
      /\ copy.status = IF winner = "none" THEN "ACTIVE" ELSE "COMPLETED"
      /\ copy.score = [s \in Sides |-> Points(pocketed, s)]
  <2>1. [s \in Sides |-> Points(pocketed, s)] \in [Sides -> Nat]
    BY <1>7
  <2>2. "ACTIVE" \in Open \cup {"COMPLETED"}
    BY DEF Open
  <2> QED  BY <1>2, <1>4, <1>6, <2>1, <2>2 DEF Game
<1>9. winner = "none" <=> \A s \in Sides : ~(Points(pocketed, s) >= game.raceTo)
  BY <1>3, WinnerHasPoints
<1>10. copy.status = "COMPLETED" <=> \E s \in Sides : copy.score[s] >= game.raceTo
  BY <1>8, <1>9
<1>11. Sound(copy)
  BY <1>2, <1>5, <1>8, <1>10 DEF Sound
<1>12. PICK work : work = [match |-> g, copy |-> copy]
  OBVIOUS
<1>13. Holds("saveMatch", work)
  BY <1>11, <1>12 DEF Holds, HoldsResult, HoldsSeason, HoldsCard
<1>14. Await(w, "saveMatch", work)
  BY <1>1, <1>3, <1>4, <1>12
<1> QED  BY <1>13, <1>14, ReadType, Called

\* A result is handed over, whatever made it.
LEMMA ProcessType ==
  ASSUME TypeInv, NEW w \in Workers, NEW result \in ResultRow, result.winner # result.loser, NEW domain,
         Process(w, result, domain),
         Arrive(w) \/ UNCHANGED overlapped, irregular' \in BOOLEAN,
         UNCHANGED <<scene, timelines, mirror, played, updates, memories, identities>>,
         DOMAIN games \subseteq DOMAIN games', GamesOK', DOMAIN fixtures \subseteq DOMAIN fixtures', SeasonOK'
  PROVE  TypeInv'
<1> USE DEF Process
<1>1. processed \in Seq(ResultRow)
  BY DEF TypeInv, ProcessedOK
<1>2. /\ processed' \in Seq(ResultRow) /\ DOMAIN processed \subseteq DOMAIN processed'
      /\ \A n \in DOMAIN processed : processed'[n] = processed[n]
      /\ \A n \in DOMAIN processed' : processed'[n] = result \/ (n \in DOMAIN processed /\ processed'[n] = processed[n])
      /\ Len(processed) + 1 \in DOMAIN processed' /\ processed'[Len(processed) + 1] = result
  BY <1>1, InsertedRow
<1>3. ProcessedOK'
  BY <1>2 DEF TypeInv, ProcessedOK
<1>4. Grown
  BY <1>2 DEF Grown, TypeInv, UsersOK
<1>5. TablesOK'
  BY <1>3, <1>4, TablesStill DEF TablesOK
<1>6. PICK work : work = [match |-> result.match, result |-> result, domain |-> domain]
  OBVIOUS
<1>7. Holds("readTimeline", work)'
  BY <1>2, <1>6 DEF Holds, HoldsResult, HoldsSeason, HoldsCard, Handed
<1>8. Await(w, "readTimeline", work)
  BY <1>6
<1> QED  BY <1>4, <1>5, <1>7, <1>8, StepType

LEMMA SaveMatchType ==
  ASSUME TypeInv, NEW w \in Workers, SaveMatch(w), UNCHANGED <<seasonVars, identities>>
  PROVE  TypeInv'
<1> USE DEF SaveMatch
<1>1. PICK g, copy : g = my[w].match /\ copy = my[w].copy
  OBVIOUS
<1>2. pc[w] = "saveMatch" /\ UNCHANGED overlapped /\ irregular' \in BOOLEAN
  BY Served1
<1>3. g \in DOMAIN games /\ Sound(copy) /\ copy \in Game /\ copy.A # copy.B
  BY <1>1, <1>2 DEF TypeInv, Equipped, Holds, HoldsResult, Sound
<1>4. games \in Seq(Game) /\ games' = [games EXCEPT ![g] = copy]
  BY <1>1 DEF TypeInv, GamesOK
<1>5. /\ games' \in Seq(Game) /\ DOMAIN games' = DOMAIN games
      /\ \A m \in DOMAIN games : games'[m] = IF m = g THEN copy ELSE games[m]
  <2> HIDE DEF SaveMatch
  <2>1. /\ [games EXCEPT ![g] = copy] \in Seq(Game) /\ DOMAIN [games EXCEPT ![g] = copy] = DOMAIN games
        /\ \A m \in DOMAIN games : [games EXCEPT ![g] = copy][m] = IF m = g THEN copy ELSE games[m]
    BY <1>3, <1>4, SavedRow
  <2> QED  BY <1>4, <2>1
<1>6. GamesOK'
  BY <1>3, <1>5 DEF TypeInv, GamesOK
<1>7. SeasonOK' /\ UNCHANGED fixtures
  BY DEF TypeInv, SeasonOK, seasonVars
<1>8. CASE copy.status = "COMPLETED"
  <2>1. PICK result : result = Result(g, copy)
    OBVIOUS
  <2>2. g \in Int
    BY <1>3, <1>4
  <2>3. result \in ResultRow /\ result.winner # result.loser
    <3>1. copy.A \in Users /\ copy.B \in Users
      BY <1>3 DEF Game
    <3>2. result = [match |-> g, winner |-> IF copy.score.A > copy.score.B THEN copy.A ELSE copy.B,
                    loser |-> IF copy.score.A > copy.score.B THEN copy.B ELSE copy.A, rated |-> TRUE]
      BY <2>1 DEF Result
    <3> QED  BY <1>3, <2>2, <3>1, <3>2 DEF ResultRow
  <2>4. Process(w, result, "standard")
    BY <1>1, <1>8, <2>1
  <2> QED  BY <1>2, <1>5, <1>6, <1>7, <2>3, <2>4, ProcessType
<1>9. CASE copy.status # "COMPLETED"
  <2>1. Await(w, "idle", NoWork) /\ UNCHANGED processed
    BY <1>1, <1>9 DEF Answer
  <2>2. Grown
    BY <1>5, <1>7, <2>1 DEF Grown, TypeInv, UsersOK
  <2>3. TablesOK'
    BY <1>6, <2>1, <2>2, TablesStill DEF TablesOK
  <2> QED  BY <1>2, <2>1, <2>2, <2>3, AnswerHoldsNext, StepType
<1> QED  BY <1>8, <1>9

LEMMA ReportElsewhereType ==
  ASSUME TypeInv, NEW w \in Workers, NEW winner \in Users, NEW loser \in Users,
         ReportElsewhere(w, winner, loser), UNCHANGED <<seasonVars, identities>>
  PROVE  TypeInv'
<1> USE DEF ReportElsewhere
<1>1. PICK result : result = [match |-> Elsewhere, winner |-> winner, loser |-> loser, rated |-> TRUE]
  OBVIOUS
<1>2. result \in ResultRow /\ result.winner # result.loser
  BY <1>1 DEF ResultRow, Elsewhere
<1>3. Process(w, result, scene.domain)
  BY <1>1
<1>4. PICK domain : domain = scene.domain
  OBVIOUS
<1>5. GamesOK' /\ SeasonOK' /\ UNCHANGED <<games, fixtures>>
  BY DEF TypeInv, GamesOK, SeasonOK, seasonVars
<1> QED  BY <1>2, <1>3, <1>4, <1>5, ProcessType, Called

-----------------------------------------------------------------------------
(* Types: the timelines *)

LEMMA ExtendedRow ==
  ASSUME NEW row \in Timeline, NEW type \in EventTypes
  PROVE  /\ Extended(row, type) \in Timeline /\ Extended(row, type).finalized = row.finalized
         /\ Unless(row, type) \in Timeline /\ Unless(row, type).finalized = row.finalized
<1>1. Append(row.events, type) \in Seq(EventTypes)
  BY DEF Timeline
<1>2. PICK row1 : row1 = [row EXCEPT !.events = Append(@, type)]
  OBVIOUS
<1>3. row1 \in Timeline /\ row1.finalized = row.finalized
  BY <1>1, <1>2 DEF Timeline
<1> QED  BY <1>2, <1>3 DEF Extended, Unless

LEMMA TimelineFound ==
  ASSUME TypeInv, NEW g
  PROVE  ClosedForAResult(g, TimelineOf(g))
<1>1. NewTimeline \in Timeline /\ ~NewTimeline.finalized
  BY DEF NewTimeline, Timeline
<1> QED  BY <1>1 DEF TypeInv, TimelinesOK, TimelineOf, ClosedForAResult

LEMMA AwaitTimelineHolds ==
  ASSUME TypeInv, NEW g \in Known, NEW row, ClosedForAResult(g, row), NEW fresh
  PROVE  Holds("saveTimeline", [match |-> g, fresh |-> fresh, row |-> row])
<1>1. "result" \notin DOMAIN [match |-> g, fresh |-> fresh, row |-> row]
  OBVIOUS
<1> QED  BY <1>1 DEF Holds, HoldsResult, HoldsSeason, HoldsCard

LEMMA StartTimelineType ==
  ASSUME TypeInv, NEW w \in Workers, NEW g \in Matches,
         StartTimeline(w, g) \/ (\E type \in EventTypes : AppendEvent(w, g, type)),
         UNCHANGED <<seasonVars, identities>>
  PROVE  TypeInv'
<1>1. g \in Known
  BY DEF Known
<1>2. PICK old : old = TimelineOf(g)
  OBVIOUS
<1>3. ClosedForAResult(g, old) /\ old \in Timeline
  BY <1>2, TimelineFound DEF ClosedForAResult
<1>4. PICK row, fresh : /\ ClosedForAResult(g, row)
                        /\ Await(w, "saveTimeline", [match |-> g, fresh |-> fresh, row |-> row])
                        /\ UNCHANGED resultVars
                        /\ \E call : Call(w, call)
  <2>1. CASE StartTimeline(w, g)
    <3>1. ClosedForAResult(g, Unless(old, "match_start"))
      BY <1>3, ExtendedRow DEF EventTypes, ClosedForAResult
    <3> QED  BY <1>2, <2>1, <3>1 DEF StartTimeline, AwaitTimeline
  <2>2. CASE \E type \in EventTypes : AppendEvent(w, g, type)
    <3>1. PICK type \in EventTypes : AppendEvent(w, g, type)
      BY <2>2
    <3>2. ClosedForAResult(g, Extended(old, type))
      BY <1>3, ExtendedRow DEF ClosedForAResult
    <3> QED  BY <1>2, <3>1, <3>2 DEF AppendEvent, AwaitTimeline
  <2> QED  BY <2>1, <2>2
<1>5. Holds("saveTimeline", [match |-> g, fresh |-> fresh, row |-> row])
  BY <1>1, <1>4, AwaitTimelineHolds
<1>6. PICK work : work = [match |-> g, fresh |-> fresh, row |-> row]
  OBVIOUS
<1> QED  BY <1>4, <1>5, <1>6, ReadType, Called

\* Who is handed a result finds its match among those that are known.
LEMMA HandedKnown ==
  ASSUME NEW result, Handed(result)
  PROVE  result.match \in Known /\ HasResult(result.match)
BY DEF Handed, HasResult, Known

LEMMA ReadTimelineType ==
  ASSUME TypeInv, NEW w \in Workers, ReadTimeline(w), UNCHANGED <<seasonVars, identities>>
  PROVE  TypeInv'
<1> USE DEF ReadTimeline
<1>1. PICK g, result, domain : g = my[w].match /\ result = my[w].result /\ domain = my[w].domain
  OBVIOUS
<1>2. pc[w] = "readTimeline" /\ UNCHANGED overlapped /\ irregular' \in BOOLEAN
  BY Served1
<1>3. Handed(result) /\ g = result.match
  BY <1>1, <1>2 DEF TypeInv, Equipped, Holds, HoldsResult
<1>4. g \in Known /\ HasResult(g)
  BY <1>3, HandedKnown
<1>5. PICK row : row = IF g \in DOMAIN timelines THEN timelines[g] ELSE Extended(NewTimeline, "match_start")
  OBVIOUS
<1>6. row \in Timeline
  <2>1. NewTimeline \in Timeline
    BY DEF NewTimeline, Timeline
  <2> QED  BY <1>5, <2>1, ExtendedRow DEF EventTypes, TypeInv, TimelinesOK, ClosedForAResult
<1>7. Finalized(row) \in Timeline
  <2>1. PICK row1 : row1 = Unless(row, "match_end")
    OBVIOUS
  <2>2. row1 \in Timeline
    BY <1>6, <2>1, ExtendedRow DEF EventTypes
  <2>3. [row1 EXCEPT !.finalized = TRUE] \in Timeline
    BY <2>2 DEF Timeline
  <2> QED  BY <2>1, <2>3 DEF Finalized
<1>8. PICK work : work = [match |-> g, fresh |-> g \notin DOMAIN timelines, row |-> Finalized(row),
                          result |-> result, domain |-> domain]
  OBVIOUS
<1>9. Holds("saveTimeline", work)
  BY <1>3, <1>4, <1>7, <1>8 DEF Holds, HoldsResult, HoldsSeason, HoldsCard, ClosedForAResult
<1>10. Await(w, "saveTimeline", work)
  BY <1>1, <1>5, <1>8
<1> QED  BY <1>2, <1>9, <1>10, ReadType

\* A request that only reads goes on with what it is about, or is answered.
LEMMA ReportHolds ==
  ASSUME TypeInv, NEW w \in Workers, Handed(my[w].result), NEW step \in {"readUsers", "findMemories", "publish"}
  PROVE  Holds(step, Report(w))
BY DEF Holds, HoldsResult, HoldsSeason, HoldsCard, Report

LEMMA SaveTimelineType ==
  ASSUME TypeInv, NEW w \in Workers, SaveTimeline(w), UNCHANGED <<seasonVars, identities>>
  PROVE  TypeInv'
<1> USE DEF SaveTimeline
<1>1. PICK work, g, row : work = my[w] /\ g = my[w].match /\ row = my[w].row
  OBVIOUS
<1>2. pc[w] = "saveTimeline" /\ UNCHANGED overlapped /\ irregular' \in BOOLEAN
  BY Served1
<1>3. ClosedForAResult(g, row) /\ g \in Known /\ ("result" \in DOMAIN work => Handed(work.result))
  BY <1>1, <1>2 DEF TypeInv, Equipped, Holds, HoldsResult
<1>4. CASE my[w].fresh /\ g \in DOMAIN timelines
  <2>1. UNCHANGED <<resultVars, seasonVars, identities>>
    BY <1>1, <1>4 DEF resultVars
  <2>2. CASE Reporting(w)
    <3>1. PICK report : report = Report(w)
      OBVIOUS
    <3>2. Handed(my[w].result)
      BY <1>1, <1>3, <2>2 DEF Reporting
    <3>3. Holds("readUsers", report)
      BY <3>1, <3>2, ReportHolds
    <3>4. Await(w, "readUsers", report)
      BY <1>1, <1>4, <2>2, <3>1
    <3> QED  BY <1>2, <2>1, <3>3, <3>4, ReadType
  <2>3. CASE ~Reporting(w)
    <3>1. Await(w, "idle", NoWork)
      BY <1>1, <1>4, <2>3 DEF Answer
    <3> QED  BY <1>2, <2>1, <3>1, ReadType, AnswerHolds
  <2> QED  BY <2>2, <2>3
<1>5. CASE ~(my[w].fresh /\ g \in DOMAIN timelines)
  <2>1. /\ timelines' = [m \in (DOMAIN timelines) \cup {g} |-> IF m = g THEN row ELSE timelines[m]]
        /\ Then(w, "mirrorTimeline")
    BY <1>1, <1>5
  <2>2. Await(w, "mirrorTimeline", work)
    BY <1>1, <2>1, ThenAwait DEF TypeInv
  <2>3. Grown
    BY <2>1 DEF Grown, TypeInv, UsersOK, seasonVars
  <2>4. TimelinesOK'
    <3>1. \A m, r : ClosedForAResult(m, r) => ClosedForAResult(m, r)'
      BY <2>3, GrownKnown DEF ClosedForAResult
    <3>2. DOMAIN timelines' = DOMAIN timelines \cup {g}
      BY <2>1
    <3>3. \A m \in DOMAIN timelines' : ClosedForAResult(m, timelines'[m])
      BY <1>3, <2>1, <3>2 DEF TypeInv, TimelinesOK
    <3>4. DOMAIN timelines' \subseteq Known' /\ DOMAIN mirror' \subseteq DOMAIN timelines'
      BY <1>3, <2>3, <3>2, GrownKnown DEF TypeInv, TimelinesOK
    <3>5. (\A m \in DOMAIN timelines : ClosedForAResult(m, timelines[m]))'
      BY <3>1, <3>3 DEF ClosedForAResult
    <3> QED  BY <3>4, <3>5 DEF TimelinesOK
  <2>5. TablesOK'
    BY <2>3, <2>4, TablesStill DEF TablesOK
  <2>6. Holds("saveTimeline", work)'
    BY <1>1, <1>2, <2>3, HoldsStill DEF TypeInv, Equipped
  <2>7. Holds("mirrorTimeline", work)'
    <3>1. work.match \in DOMAIN timelines'
      BY <1>1, <2>1
    <3> QED  BY <2>6, <3>1 DEF Holds, HoldsResult, HoldsSeason, HoldsCard
  <2> QED  BY <1>2, <2>2, <2>3, <2>5, <2>7, StepType
<1> QED  BY <1>4, <1>5

LEMMA MirrorTimelineType ==
  ASSUME TypeInv, NEW w \in Workers, MirrorTimeline(w), UNCHANGED <<seasonVars, identities>>
  PROVE  TypeInv'
<1> USE DEF MirrorTimeline
<1>1. PICK work, g : work = my[w] /\ g = my[w].match
  OBVIOUS
<1>2. pc[w] = "mirrorTimeline" /\ UNCHANGED overlapped /\ irregular' \in BOOLEAN
  BY Served1
<1>3. g \in DOMAIN timelines /\ ("result" \in DOMAIN work => Handed(work.result))
  BY <1>1, <1>2 DEF TypeInv, Equipped, Holds, HoldsResult
<1>4. Grown
  BY DEF Grown, TypeInv, UsersOK, seasonVars
<1>5. TimelinesOK'
  <2>1. DOMAIN mirror' = DOMAIN mirror \cup {g}
    BY <1>1
  <2>2. \A m \in DOMAIN timelines : ClosedForAResult(m, timelines[m])'
    BY <1>4, GrownKnown DEF TypeInv, TimelinesOK, ClosedForAResult
  <2>3. DOMAIN timelines' \subseteq Known'
    BY <1>4, GrownKnown DEF TypeInv, TimelinesOK
  <2> QED  BY <1>3, <2>1, <2>2, <2>3 DEF TypeInv, TimelinesOK
<1>6. TablesOK'
  BY <1>4, <1>5, TablesStill DEF TablesOK
<1>7. CASE Reporting(w)
  <2>1. PICK report : report = Report(w)
    OBVIOUS
  <2>2. Handed(my[w].result)
    BY <1>1, <1>3, <1>7 DEF Reporting
  <2>3. Holds("readUsers", report)'
    BY <1>4, <2>1, <2>2, ReportHolds, HoldsStill DEF TypeInv
  <2>4. Await(w, "readUsers", report)
    BY <1>7, <2>1
  <2> QED  BY <1>2, <1>4, <1>6, <2>3, <2>4, StepType
<1>8. CASE ~Reporting(w)
  <2>1. Await(w, "idle", NoWork)
    BY <1>8 DEF Answer
  <2> QED  BY <1>2, <1>4, <1>6, <2>1, AnswerHoldsNext, StepType
<1> QED  BY <1>7, <1>8

-----------------------------------------------------------------------------
(* Types: ratings, memories, failures *)

LEMMA ReadUsersType ==
  ASSUME TypeInv, NEW w \in Workers, ReadUsers(w), UNCHANGED <<seasonVars, identities>>
  PROVE  TypeInv'
<1> USE DEF ReadUsers
<1>1. PICK work, result, domain, copy :
        work = my[w] /\ result = my[w].result /\ domain = my[w].domain /\ copy = played
  OBVIOUS
<1>2. pc[w] = "readUsers" /\ UNCHANGED overlapped /\ irregular' \in BOOLEAN
  BY Served1
<1>3. Handed(result) /\ copy \in [Users -> Nat]
  BY <1>1, <1>2 DEF TypeInv, Equipped, Holds, HoldsResult, UsersOK
<1>4. CASE my[w].result.rated
  <2>1. PICK next : next = [result |-> result, domain |-> domain, copy |-> copy]
    OBVIOUS
  <2>2. Holds("askRealAi", next)
    BY <1>1, <1>3, <1>4, <2>1 DEF Holds, HoldsResult, HoldsSeason, HoldsCard
  <2>3. Await(w, "askRealAi", next)
    BY <1>1, <1>4, <2>1
  <2> QED  BY <1>2, <2>2, <2>3, ReadType
<1>5. CASE ~my[w].result.rated
  <2>1. Await(w, "findMemories", work)
    BY <1>1, <1>5, ThenAwait DEF TypeInv
  <2>2. Holds("findMemories", work)
    BY <1>1, <1>3 DEF Holds, HoldsResult, HoldsSeason, HoldsCard
  <2> QED  BY <1>2, <2>1, <2>2, ReadType
<1> QED  BY <1>4, <1>5

LEMMA AskRealAiType ==
  ASSUME TypeInv, NEW w \in Workers, AskRealAi(w), UNCHANGED <<seasonVars, identities>>
  PROVE  TypeInv'
<1> USE DEF AskRealAi
<1>1. PICK work, report : work = my[w] /\ report = Report(w)
  OBVIOUS
<1>2. pc[w] = "askRealAi" /\ UNCHANGED overlapped /\ irregular' \in BOOLEAN
  BY Served1 DEF Irregular
<1>3. Holds("askRealAi", work) /\ Handed(my[w].result)
  BY <1>1, <1>2 DEF TypeInv, Equipped, Holds, HoldsResult
<1>4. CASE Then(w, "saveUsers")
  <2>1. Await(w, "saveUsers", work)
    BY <1>1, <1>4, ThenAwait DEF TypeInv
  <2>2. Holds("saveUsers", work)
    BY <1>3 DEF Holds, HoldsResult, HoldsSeason, HoldsCard
  <2> QED  BY <1>2, <2>1, <2>2, ReadType
<1>5. CASE Await(w, "findMemories", Report(w))
  <2>1. Holds("findMemories", report)
    BY <1>1, <1>3, ReportHolds
  <2> QED  BY <1>1, <1>2, <1>5, <2>1, ReadType
<1> QED  BY <1>4, <1>5

LEMMA HandedRow ==
  ASSUME TypeInv, NEW result, Handed(result)
  PROVE  /\ result \in ResultRow /\ result.winner # result.loser
         /\ result.winner \in Users /\ result.loser \in Users
<1>1. PICK n \in DOMAIN processed : processed[n] = result
  BY DEF Handed
<1>2. processed \in Seq(ResultRow) /\ processed[n].winner # processed[n].loser
  BY DEF TypeInv, ProcessedOK
<1>3. result \in ResultRow
  BY <1>1, <1>2
<1> QED  BY <1>1, <1>2, <1>3 DEF ResultRow

LEMMA Raised ==
  ASSUME NEW S, NEW f \in [S -> Nat], NEW a \in S, NEW k \in Nat
  PROVE  /\ [f EXCEPT ![a] = @ + k] \in [S -> Nat]
         /\ \A x \in S : [f EXCEPT ![a] = @ + k][x] = IF x = a THEN f[x] + k ELSE f[x]
OBVIOUS

LEMMA RaisedBoth ==
  ASSUME NEW S, NEW f \in [S -> Nat], NEW a \in S, NEW b \in S, a # b
  PROVE  /\ [f EXCEPT ![a] = @ + 1, ![b] = @ + 1] \in [S -> Nat]
         /\ \A x \in S : [f EXCEPT ![a] = @ + 1, ![b] = @ + 1][x] = IF x \in {a, b} THEN f[x] + 1 ELSE f[x]
OBVIOUS

LEMMA SaveUsersType ==
  ASSUME TypeInv, NEW w \in Workers, SaveUsers(w), UNCHANGED <<seasonVars, identities>>
  PROVE  TypeInv'
<1> USE DEF SaveUsers
<1>1. PICK result, copy, report : result = my[w].result /\ copy = my[w].copy /\ report = Report(w)
  OBVIOUS
<1>2. pc[w] = "saveUsers" /\ UNCHANGED overlapped /\ irregular' \in BOOLEAN
  BY Served1
<1>3. Handed(result) /\ copy \in [Users -> Nat]
  BY <1>1, <1>2 DEF TypeInv, Equipped, Holds, HoldsResult
<1>4. result.winner \in Users /\ result.loser \in Users /\ result.winner # result.loser
  BY <1>3, HandedRow
<1>5. /\ played' = [played EXCEPT ![result.winner] = copy[result.winner] + 1,
                                  ![result.loser] = copy[result.loser] + 1]
      /\ updates' = [updates EXCEPT ![result.winner] = @ + 1, ![result.loser] = @ + 1]
  BY <1>1
<1>6. played \in [Users -> Nat] /\ updates \in [Users -> Nat]
  BY DEF TypeInv, UsersOK
<1>7. updates' \in [Users -> Nat] /\ \A u \in Users : updates[u] <= updates'[u]
  <2> HIDE DEF SaveUsers
  <2>1. updates' \in [Users -> Nat] /\ \A u \in Users : updates'[u] \in {updates[u], updates[u] + 1}
    BY <1>4, <1>5, <1>6, RaisedBoth
  <2> QED  BY <1>6, <2>1
<1>8. UsersOK'
  BY <1>3, <1>4, <1>5, <1>6, <1>7 DEF UsersOK
<1>9. Grown
  BY <1>7 DEF Grown, seasonVars
<1>10. TablesOK'
  BY <1>8, <1>9, TablesStill DEF TablesOK
<1>11. Holds("findMemories", report)
  BY <1>1, <1>3, ReportHolds
<1>12. Holds("findMemories", report)'
  BY <1>9, <1>11, HoldsStill DEF TypeInv
<1> QED  BY <1>1, <1>2, <1>9, <1>10, <1>12, StepType

LEMMA SeedFromExternalType ==
  ASSUME TypeInv, NEW w \in Workers, NEW u \in Users, SeedFromExternal(w, u), UNCHANGED <<seasonVars, identities>>
  PROVE  TypeInv'
<1> USE DEF SeedFromExternal
<1>1. PICK work : work = [user |-> u]
  OBVIOUS
<1>2. Holds("saveSeed", work)
  BY <1>1 DEF Holds, HoldsResult, HoldsSeason, HoldsCard
<1> QED  BY <1>1, <1>2, ReadType, Called

LEMMA SaveSeedType ==
  ASSUME TypeInv, NEW w \in Workers, SaveSeed(w), UNCHANGED <<seasonVars, identities>>
  PROVE  TypeInv'
<1> USE DEF SaveSeed
<1>1. PICK u : u = my[w].user
  OBVIOUS
<1>2. pc[w] = "saveSeed" /\ UNCHANGED overlapped /\ irregular' \in BOOLEAN
  BY Served1
<1>3. u \in Users
  BY <1>1, <1>2 DEF TypeInv, Equipped, Holds, HoldsResult
<1>4. PICK stamped \in {0, 1} : updates' = [updates EXCEPT ![u] = @ + stamped]
  BY <1>1
<1>5. played' = [played EXCEPT ![u] = 0]
  BY <1>1
<1>6. played \in [Users -> Nat] /\ updates \in [Users -> Nat]
  BY DEF TypeInv, UsersOK
<1>7. updates' \in [Users -> Nat] /\ \A v \in Users : updates[v] <= updates'[v]
  <2> HIDE DEF SaveSeed
  <2>1. stamped \in Nat
    OBVIOUS
  <2>2. updates' \in [Users -> Nat] /\ \A v \in Users : updates'[v] \in {updates[v], updates[v] + stamped}
    BY <1>3, <1>4, <1>6, <2>1, Raised
  <2> QED  BY <1>6, <2>1, <2>2
<1>8. UsersOK'
  BY <1>3, <1>5, <1>6, <1>7 DEF UsersOK
<1>9. Grown
  BY <1>7 DEF Grown, seasonVars
<1>10. TablesOK'
  BY <1>8, <1>9, TablesStill DEF TablesOK
<1>11. PICK work : work = [ask |-> "seed", of |-> u]
  OBVIOUS
<1>12. Holds("readUser", work)'
  BY <1>3, <1>11 DEF Holds, HoldsResult, HoldsSeason, HoldsCard
<1>13. CASE "cards" \in scene.calls
  <2>1. Await(w, "readUser", work)
    BY <1>1, <1>11, <1>13
  <2> QED  BY <1>2, <1>9, <1>10, <1>12, <2>1, StepType
<1>14. CASE "cards" \notin scene.calls
  <2>1. Await(w, "idle", NoWork)
    BY <1>14 DEF Answer
  <2> QED  BY <1>2, <1>9, <1>10, <2>1, AnswerHoldsNext, StepType
<1> QED  BY <1>13, <1>14

LEMMA FindMemoriesType ==
  ASSUME TypeInv, NEW w \in Workers, FindMemories(w), UNCHANGED <<seasonVars, identities>>
  PROVE  TypeInv'
<1> USE DEF FindMemories
<1>1. PICK result, domain : result = my[w].result /\ domain = my[w].domain
  OBVIOUS
<1>2. pc[w] = "findMemories" /\ UNCHANGED overlapped /\ irregular' \in BOOLEAN
  BY Served1
<1>3. Handed(result)
  BY <1>1, <1>2 DEF TypeInv, Equipped, Holds, HoldsResult
<1>4. PICK missing : missing = IF domain \in {"standard", "money"} THEN Missing(result) ELSE {}
  OBVIOUS
<1>5. missing \subseteq Players(result)
  BY <1>4 DEF Missing
<1>6. PICK work : work = [result |-> result, domain |-> domain, missing |-> missing]
  OBVIOUS
<1>7. Holds("createMemories", work)
  BY <1>3, <1>5, <1>6 DEF Holds, HoldsResult, HoldsSeason, HoldsCard
<1>8. Await(w, "createMemories", work)
  BY <1>1, <1>4, <1>6
<1> QED  BY <1>2, <1>7, <1>8, ReadType

LEMMA CreateMemoryType ==
  ASSUME TypeInv, NEW w \in Workers, CreateMemory(w), UNCHANGED <<seasonVars, identities>>
  PROVE  TypeInv'
<1> USE DEF CreateMemory
<1>1. PICK work, result, missing : work = my[w] /\ result = my[w].result /\ missing = my[w].missing
  OBVIOUS
<1>2. pc[w] = "createMemories" /\ UNCHANGED overlapped /\ irregular' \in BOOLEAN
  BY Served1
<1>3. /\ work = [result |-> result, domain |-> work.domain, missing |-> missing]
      /\ Handed(result) /\ missing \subseteq Players(result)
  BY <1>1, <1>2 DEF TypeInv, Equipped, Holds, HoldsResult
<1>4. CASE missing = {}
  <2>1. PICK report : report = Report(w)
    OBVIOUS
  <2>2. Holds("publish", report)
    BY <1>1, <1>3, <2>1, ReportHolds
  <2>3. Await(w, "publish", report) /\ UNCHANGED memories
    BY <1>1, <1>4, <2>1
  <2>4. UNCHANGED <<resultVars, seasonVars, identities>>
    BY <2>3 DEF resultVars
  <2> QED  BY <1>2, <2>2, <2>3, <2>4, ReadType
<1>5. CASE missing # {}
  <2>1. PICK u \in missing :
          /\ memories' = memories \cup
               {[match |-> result.match, user |-> u, isWinner |-> Won(result, u),
                 nth |-> Cardinality({m \in MemoriesOf(result.match) : m.user = u})]}
          /\ Hold(w, [my[w] EXCEPT !.missing = @ \ {u}]) /\ UNCHANGED pc
    BY <1>1, <1>5
  <2>2. PICK rest : rest = [result |-> result, domain |-> work.domain, missing |-> missing \ {u}]
    OBVIOUS
  <2>3. [work EXCEPT !.missing = @ \ {u}] = rest
    BY <1>3, <2>2
  <2>4. Await(w, "createMemories", rest)
    <3>1. Hold(w, rest)
      BY <1>1, <2>1, <2>3
    <3>2. pc' = [pc EXCEPT ![w] = "createMemories"]
      BY <1>2, <2>1 DEF TypeInv, Served
    <3> QED  BY <3>1, <3>2 DEF Await, Goto
  <2>5. Grown
    BY DEF Grown, TypeInv, UsersOK, seasonVars
  <2>6. PICK memory : memory = [match |-> result.match, user |-> u, isWinner |-> Won(result, u),
                                nth |-> Cardinality({m \in MemoriesOf(result.match) : m.user = u})]
    OBVIOUS
  <2>7. u \in Players(result) /\ result.match \in Known /\ u \in Users
    BY <1>3, HandedKnown, HandedRow DEF Players
  <2>8. memory \in [match : Known, user : Users, isWinner : BOOLEAN, nth : Nat]
    <3>1. IsFiniteSet({m \in MemoriesOf(result.match) : m.user = u})
      BY FS_Subset DEF MemoriesOf, TypeInv, MemoriesOK
    <3>2. Cardinality({m \in MemoriesOf(result.match) : m.user = u}) \in Nat
      BY <3>1, FS_CardinalityType
    <3>3. Won(result, u) \in BOOLEAN
      BY DEF Won
    <3> QED  BY <2>6, <2>7, <3>2, <3>3
  <2>9. \E n \in DOMAIN processed :
          /\ processed[n].match = memory.match
          /\ memory.user = (IF memory.isWinner THEN processed[n].winner ELSE processed[n].loser)
    BY <1>3, <2>6, <2>7 DEF Handed, Players, Won
  <2>10. memories' = memories \cup {memory}
    BY <2>1, <2>6
  <2>11. MemoriesOK'
    <3>1. IsFiniteSet(memories')
      BY <2>10, FS_AddElement DEF TypeInv, MemoriesOK
    <3>2. UNCHANGED processed /\ Known' = Known
      BY DEF Known, Matches
    <3>3. memories' \subseteq [match : Known, user : Users, isWinner : BOOLEAN, nth : Nat]
      BY <2>8, <2>10 DEF TypeInv, MemoriesOK
    <3>4. \A m \in memories' : \E n \in DOMAIN processed :
            processed[n].match = m.match /\ m.user = (IF m.isWinner THEN processed[n].winner ELSE processed[n].loser)
      BY <2>9, <2>10 DEF TypeInv, MemoriesOK
    <3> QED  BY <3>1, <3>2, <3>3, <3>4 DEF MemoriesOK
  <2>12. TablesOK'
    BY <2>5, <2>11, TablesStill DEF TablesOK
  <2>13. Holds("createMemories", rest)
    BY <1>3, <2>2 DEF Holds, HoldsResult, HoldsSeason, HoldsCard
  <2>14. Holds("createMemories", rest)'
    BY <2>5, <2>13, HoldsStill DEF TypeInv
  <2> QED  BY <1>2, <2>4, <2>5, <2>12, <2>14, StepType
<1> QED  BY <1>4, <1>5

LEMMA PublishType ==
  ASSUME TypeInv, NEW w \in Workers, Publish(w), UNCHANGED <<seasonVars, identities>>
  PROVE  TypeInv'
<1> USE DEF Publish
<1>1. UNCHANGED overlapped /\ irregular' \in BOOLEAN
  BY Served1
<1>2. Grown
  BY DEF Grown, TypeInv, UsersOK, seasonVars
<1>3. TablesOK'
  BY <1>2, TablesStill DEF TablesOK
<1>4. Await(w, "idle", NoWork)
  BY DEF Answer
<1> QED  BY <1>1, <1>2, <1>3, <1>4, AnswerHoldsNext, StepType

LEMMA PartFailsType ==
  ASSUME TypeInv, NEW w \in Workers, PartFails(w), UNCHANGED <<seasonVars, identities>>
  PROVE  TypeInv'
<1> USE DEF PartFails
<1>1. PICK report : report = Report(w)
  OBVIOUS
<1>2. UNCHANGED overlapped /\ irregular' \in BOOLEAN
  BY DEF Irregular
<1>3. Handed(my[w].result)
  BY DEF TypeInv, Equipped, Holds, HoldsResult, Reporting
<1>4. CASE pc[w] = "publish"
  <2>1. Await(w, "idle", NoWork)
    BY <1>4 DEF Answer
  <2> QED  BY <1>2, <2>1, ReadType, AnswerHolds
<1>5. CASE pc[w] # "publish"
  <2>1. PICK step \in {"readUsers", "findMemories", "publish"} : Await(w, step, report)
    <3>1. CASE pc[w] \in {"readTimeline", "saveTimeline", "mirrorTimeline"}
      BY <1>1, <1>5, <3>1
    <3>2. CASE pc[w] \in {"readUsers", "saveUsers"}
      BY <1>1, <1>5, <3>2
    <3>3. CASE pc[w] \in {"findMemories", "createMemories"}
      BY <1>1, <1>5, <3>3
    <3> QED  BY <1>5, <3>1, <3>2, <3>3
  <2>2. Holds(step, report)
    BY <1>1, <1>3, ReportHolds
  <2> QED  BY <1>2, <2>1, <2>2, ReadType
<1> QED  BY <1>4, <1>5

LEMMA AbortType ==
  ASSUME TypeInv, NEW w \in Workers, Abort(w), UNCHANGED <<resultVars, seasonVars, identities>>
  PROVE  TypeInv'
<1>1. Await(w, "idle", NoWork) /\ UNCHANGED overlapped /\ irregular' \in BOOLEAN
  BY DEF Abort, Answer, Irregular
<1> QED  BY <1>1, ReadType, AnswerHolds

LEMMA ResultsType ==
  ASSUME TypeInv, Next, UNCHANGED <<seasonVars, identities>>
  PROVE  TypeInv'
<1>1. PICK w \in Workers :
        \/ \E a, b \in Users : Create(w, a, b) \/ ReportElsewhere(w, a, b)
        \/ \E g \in DOMAIN games :
             \/ \E a, b \in Scores : ReportResult(w, g, a, b)
             \/ \E side \in Sides, balls \in SUBSET (1 .. games[g].rack) : PyramidPocket(w, g, side, balls)
        \/ \E g \in Matches : StartTimeline(w, g) \/ \E type \in EventTypes : AppendEvent(w, g, type)
        \/ \E u \in Users : SeedFromExternal(w, u)
        \/ Serve(w)
        \/ PartFails(w)
        \/ (Abort(w) /\ UNCHANGED resultVars)
  BY DEF Next
<1>2. CASE \E a, b \in Users : Create(w, a, b) \/ ReportElsewhere(w, a, b)
  BY <1>2, CreateType, ReportElsewhereType
<1>3. CASE \E g \in DOMAIN games :
             \/ \E a, b \in Scores : ReportResult(w, g, a, b)
             \/ \E side \in Sides, balls \in SUBSET (1 .. games[g].rack) : PyramidPocket(w, g, side, balls)
  BY <1>3, ReportResultType, PyramidPocketType
<1>4. CASE \E g \in Matches : StartTimeline(w, g) \/ \E type \in EventTypes : AppendEvent(w, g, type)
  BY <1>4, StartTimelineType
<1>5. CASE \E u \in Users : SeedFromExternal(w, u)
  BY <1>5, SeedFromExternalType
<1>6. CASE Serve(w)
  BY <1>6, SaveMatchType, ReadTimelineType, SaveTimelineType, MirrorTimelineType, ReadUsersType,
     AskRealAiType, SaveUsersType, SaveSeedType, FindMemoriesType, CreateMemoryType, PublishType DEF Serve
<1>7. CASE PartFails(w)
  BY <1>7, PartFailsType
<1>8. CASE Abort(w) /\ UNCHANGED resultVars
  BY <1>8, AbortType
<1> QED  BY <1>1, <1>2, <1>3, <1>4, <1>5, <1>6, <1>7, <1>8

-----------------------------------------------------------------------------
(* Types: the season *)

LEMMA SeasonStepType ==
  ASSUME TypeInv, NEW w \in Workers, NEW step, NEW work,
         Await(w, step, work), Holds(step, work),
         Arrive(w) \/ UNCHANGED overlapped, irregular' \in BOOLEAN, UNCHANGED <<resultVars, identities>>,
         DOMAIN fixtures \subseteq DOMAIN fixtures', SeasonOK'
  PROVE  TypeInv'
<1>1. Grown
  BY DEF Grown, TypeInv, UsersOK, resultVars
<1>2. TablesOK'
  BY <1>1, TablesStill DEF TablesOK, resultVars
<1>3. Holds(step, work)'
  BY <1>1, HoldsStill DEF TypeInv
<1> QED  BY <1>1, <1>2, <1>3, StepType DEF resultVars

LEMMA SeasonStillType ==
  ASSUME TypeInv, NEW w \in Workers, Call(w, "season"), UNCHANGED <<pc, my, resultVars, identities>>,
         DOMAIN fixtures \subseteq DOMAIN fixtures', SeasonOK'
  PROVE  TypeInv'
<1>1. Grown
  BY DEF Grown, TypeInv, UsersOK, resultVars
<1>2. TablesOK'
  BY <1>1, TablesStill DEF TablesOK, resultVars
<1> QED  BY <1>1, <1>2, StillType, Called DEF resultVars

LEMMA CreateSeasonType ==
  ASSUME TypeInv, NEW w \in Workers, CreateSeason(w), UNCHANGED identities
  PROVE  TypeInv'
<1>1. SeasonOK'
  BY DEF CreateSeason, TypeInv, SeasonOK
<1> QED  BY <1>1, SeasonStillType DEF CreateSeason

LEMMA ScheduleMatchType ==
  ASSUME TypeInv, NEW w \in Workers, NEW a \in Users, NEW b \in Users, ScheduleMatch(w, a, b), UNCHANGED identities
  PROVE  TypeInv'
<1> USE DEF ScheduleMatch
<1>1. PICK fixture : fixture = NewFixture(a, b)
  OBVIOUS
<1>2. Paired(fixture) /\ fixture \in FixtureRow
  <2>1. PICK score : score = [A |-> 0, B |-> 0]
    OBVIOUS
  <2>2. score \in [Sides -> Scores \cup {0}]
    BY <2>1 DEF Sides
  <2>3. fixture = [A |-> a, B |-> b, status |-> "SCHEDULED", score |-> score]
    BY <1>1, <2>1 DEF NewFixture
  <2>4. fixture \in FixtureRow
    BY <2>2, <2>3 DEF FixtureRow
  <2> QED  BY <2>3, <2>4 DEF Paired
<1>3. fixtures \in Seq(FixtureRow) /\ fixtures' = Append(fixtures, fixture)
  BY <1>1 DEF TypeInv, SeasonOK
<1>4. /\ fixtures' \in Seq(FixtureRow) /\ DOMAIN fixtures \subseteq DOMAIN fixtures'
      /\ \A n \in DOMAIN fixtures' : fixtures'[n] = fixture \/ (n \in DOMAIN fixtures /\ fixtures'[n] = fixtures[n])
  BY <1>2, <1>3, InsertedRow
<1>5. SeasonOK'
  BY <1>2, <1>4 DEF TypeInv, SeasonOK
<1> QED  BY <1>4, <1>5, SeasonStillType

LEMMA StartSeasonType ==
  ASSUME TypeInv, NEW w \in Workers, NEW players \in SUBSET Users, StartSeason(w, players), UNCHANGED identities
  PROVE  TypeInv'
<1>1. PICK work : work = [players |-> players]
  OBVIOUS
<1>2. Holds("saveSeason", work)
  BY <1>1 DEF Holds, HoldsResult, HoldsSeason, HoldsCard
<1> QED  BY <1>1, <1>2, ReadType, Called DEF StartSeason

LEMMA SaveSeasonType ==
  ASSUME TypeInv, NEW w \in Workers, SaveSeason(w), UNCHANGED identities
  PROVE  TypeInv'
<1> USE DEF SaveSeason
<1>1. PICK work : work = my[w]
  OBVIOUS
<1>2. pc[w] = "saveSeason" /\ UNCHANGED overlapped /\ irregular' \in BOOLEAN
  BY Served1
<1>3. Holds("saveSnapshot", work)
  BY <1>1, <1>2 DEF TypeInv, Equipped, Holds, HoldsResult, HoldsSeason, HoldsCard
<1>4. Await(w, "saveSnapshot", work)
  BY <1>1, ThenAwait DEF TypeInv
<1>5. SeasonOK'
  BY DEF TypeInv, SeasonOK
<1> QED  BY <1>2, <1>3, <1>4, <1>5, SeasonStepType

LEMMA SaveSnapshotType ==
  ASSUME TypeInv, NEW w \in Workers, SaveSnapshot(w), UNCHANGED identities
  PROVE  TypeInv'
<1> USE DEF SaveSnapshot
<1>1. PICK fresh : fresh = my[w].players
  OBVIOUS
<1>2. pc[w] = "saveSnapshot" /\ UNCHANGED overlapped /\ irregular' \in BOOLEAN
  BY Served1
<1>3. fresh \subseteq Users
  BY <1>1, <1>2 DEF TypeInv, Equipped, Holds, HoldsSeason
<1>4. DOMAIN standings' \subseteq Users /\ \A u \in DOMAIN standings' : standings'[u] \in Nat
  BY <1>1, <1>3 DEF TypeInv, SeasonOK
<1>5. SeasonOK'
  BY <1>4 DEF TypeInv, SeasonOK
<1>6. Await(w, "idle", NoWork)
  BY DEF Answer
<1> QED  BY <1>2, <1>5, <1>6, AnswerHolds, SeasonStepType

LEMMA ReportMatchType ==
  ASSUME TypeInv, NEW w \in Workers, NEW n \in DOMAIN fixtures, NEW a \in Scores, NEW b \in Scores,
         ReportMatch(w, n, a, b), UNCHANGED identities
  PROVE  TypeInv'
<1> USE DEF ReportMatch
<1>1. PICK fixture, score : fixture = fixtures[n] /\ score = [A |-> a, B |-> b]
  OBVIOUS
<1>2. PICK copy : copy = [fixture EXCEPT !.status = "COMPLETED", !.score = score]
  OBVIOUS
<1>3. fixture \in FixtureRow /\ fixture.A # fixture.B
  BY <1>1 DEF TypeInv, SeasonOK, Paired
<1>4. score \in [Sides -> Scores \cup {0}]
  BY <1>1 DEF Sides
<1>5. Paired(copy)
  BY <1>2, <1>3, <1>4 DEF FixtureRow, Paired
<1>6. PICK work : work = [fixture |-> n, copy |-> copy]
  OBVIOUS
<1>7. Holds("validate", work)
  BY <1>5, <1>6 DEF Holds, HoldsResult, HoldsSeason, HoldsCard
<1>8. Await(w, "validate", work)
  BY <1>1, <1>2, <1>6
<1> QED  BY <1>7, <1>8, ReadType, Called

LEMMA ValidateType ==
  ASSUME TypeInv, NEW w \in Workers, Validate(w), UNCHANGED identities
  PROVE  TypeInv'
<1> USE DEF Validate
<1>1. PICK work : work = my[w]
  OBVIOUS
<1>2. pc[w] = "validate" /\ UNCHANGED overlapped /\ irregular' \in BOOLEAN
  BY Served1
<1>3. CASE Then(w, "saveFixture")
  <2>1. Holds("saveFixture", work)
    BY <1>1, <1>2 DEF TypeInv, Equipped, Holds, HoldsResult, HoldsSeason, HoldsCard
  <2>2. Await(w, "saveFixture", work)
    BY <1>1, <1>3, ThenAwait DEF TypeInv
  <2> QED  BY <1>2, <2>1, <2>2, ReadType
<1>4. CASE Answer(w)
  <2>1. Await(w, "idle", NoWork)
    BY <1>4 DEF Answer
  <2> QED  BY <1>2, <2>1, ReadType, AnswerHolds
<1> QED  BY <1>3, <1>4

LEMMA SaveFixtureType ==
  ASSUME TypeInv, NEW w \in Workers, SaveFixture(w), UNCHANGED identities
  PROVE  TypeInv'
<1> USE DEF SaveFixture
<1>1. PICK work, n, copy : work = my[w] /\ n = my[w].fixture /\ copy = my[w].copy
  OBVIOUS
<1>2. pc[w] = "saveFixture" /\ UNCHANGED overlapped /\ irregular' \in BOOLEAN
  BY Served1
<1>3. n \in DOMAIN fixtures /\ Paired(copy) /\ copy \in FixtureRow
  BY <1>1, <1>2 DEF TypeInv, Equipped, Holds, HoldsSeason, Paired
<1>4. fixtures \in Seq(FixtureRow) /\ fixtures' = [fixtures EXCEPT ![n] = copy]
  BY <1>1 DEF TypeInv, SeasonOK
<1>5. /\ fixtures' \in Seq(FixtureRow) /\ DOMAIN fixtures' = DOMAIN fixtures
      /\ \A m \in DOMAIN fixtures : fixtures'[m] = IF m = n THEN copy ELSE fixtures[m]
  <2> HIDE DEF SaveFixture
  <2>1. /\ [fixtures EXCEPT ![n] = copy] \in Seq(FixtureRow)
        /\ DOMAIN [fixtures EXCEPT ![n] = copy] = DOMAIN fixtures
        /\ \A m \in DOMAIN fixtures : [fixtures EXCEPT ![n] = copy][m] = IF m = n THEN copy ELSE fixtures[m]
    BY <1>3, <1>4, SavedRow
  <2> QED  BY <1>4, <2>1
<1>6. SeasonOK'
  BY <1>3, <1>5 DEF TypeInv, SeasonOK
<1>7. Holds("readStandings", work)
  BY <1>1, <1>2 DEF TypeInv, Equipped, Holds, HoldsResult, HoldsSeason, HoldsCard
<1>8. Await(w, "readStandings", work)
  BY <1>1, ThenAwait DEF TypeInv
<1> QED  BY <1>2, <1>5, <1>6, <1>7, <1>8, SeasonStepType

LEMMA ReadStandingsType ==
  ASSUME TypeInv, NEW w \in Workers, ReadStandings(w), UNCHANGED identities
  PROVE  TypeInv'
<1> USE DEF ReadStandings
<1>1. PICK n, copy, points : /\ n = my[w].fixture /\ copy = my[w].copy
                             /\ points = [u \in {copy.A, copy.B} |-> standings[u]]
  OBVIOUS
<1>2. pc[w] = "readStandings" /\ UNCHANGED overlapped /\ irregular' \in BOOLEAN
  BY Served1
<1>3. n \in DOMAIN fixtures /\ Paired(copy)
  BY <1>1, <1>2 DEF TypeInv, Equipped, Holds, HoldsSeason
<1>4. CASE {copy.A, copy.B} \subseteq DOMAIN standings
  <2>1. points \in [{copy.A, copy.B} -> Nat]
    BY <1>1, <1>4 DEF TypeInv, SeasonOK
  <2>2. PICK work : work = [fixture |-> n, copy |-> copy, points |-> points]
    OBVIOUS
  <2>3. Holds("saveStandings", work)
    BY <1>3, <2>1, <2>2 DEF Holds, HoldsResult, HoldsSeason, HoldsCard, PlayersOf
  <2>4. Await(w, "saveStandings", work)
    BY <1>1, <1>4, <2>2
  <2> QED  BY <1>2, <2>3, <2>4, ReadType
<1>5. CASE ~({copy.A, copy.B} \subseteq DOMAIN standings)
  <2>1. Await(w, "idle", NoWork)
    BY <1>1, <1>5 DEF Answer
  <2> QED  BY <1>2, <2>1, ReadType, AnswerHolds
<1> QED  BY <1>4, <1>5

LEMMA SaveStandingsType ==
  ASSUME TypeInv, NEW w \in Workers, SaveStandings(w), UNCHANGED identities
  PROVE  TypeInv'
<1> USE DEF SaveStandings
<1>1. PICK n, fixture, points, result :
        /\ n = my[w].fixture /\ fixture = my[w].copy /\ points = my[w].points
        /\ result = [match |-> Fixture(n), winner |-> WinnerOf(fixture),
                     loser |-> CHOOSE u \in PlayersOf(fixture) : u # WinnerOf(fixture), rated |-> ~Draw(fixture)]
  OBVIOUS
<1>2. pc[w] = "saveStandings" /\ UNCHANGED overlapped /\ irregular' \in BOOLEAN
  BY Served1
<1>3. n \in DOMAIN fixtures /\ Paired(fixture) /\ points \in [PlayersOf(fixture) -> Nat]
  BY <1>1, <1>2 DEF TypeInv, Equipped, Holds, HoldsSeason
<1>4. /\ WinnerOf(fixture) \in PlayersOf(fixture) /\ PlayersOf(fixture) \subseteq Users
      /\ \E u \in PlayersOf(fixture) : u # WinnerOf(fixture)
  BY <1>3 DEF Paired, FixtureRow, WinnerOf, PlayersOf
<1>5. n \in Int
  BY <1>3 DEF TypeInv, SeasonOK
<1>6. result \in ResultRow /\ result.winner # result.loser
  <2>1. PICK loser : loser = CHOOSE u \in PlayersOf(fixture) : u # WinnerOf(fixture)
    OBVIOUS
  <2>2. loser \in PlayersOf(fixture) /\ loser # WinnerOf(fixture)
    BY <1>4, <2>1
  <2>3. Fixture(n) \in Int /\ (~Draw(fixture)) \in BOOLEAN
    BY <1>5 DEF Fixture, Draw
  <2> QED  BY <1>1, <1>4, <2>1, <2>2, <2>3 DEF ResultRow
<1>7. \A u \in PlayersOf(fixture) : points[u] + PointsFor(fixture, u) \in Nat
  BY <1>3 DEF PointsFor
<1>8. SeasonOK'
  <2>1. DOMAIN standings' = DOMAIN standings /\ \A u \in DOMAIN standings' : standings'[u] \in Nat
    BY <1>1, <1>7 DEF TypeInv, SeasonOK
  <2> QED  BY <2>1 DEF TypeInv, SeasonOK
<1>9. PICK domain : domain = "league_v2"
  OBVIOUS
<1>10. Process(w, result, domain)
  BY <1>1, <1>9
<1>11. GamesOK'
  BY DEF TypeInv, GamesOK
<1> QED  BY <1>2, <1>6, <1>8, <1>10, <1>11, ProcessType

LEMMA SeasonsType ==
  ASSUME TypeInv, SeasonNext, UNCHANGED identities
  PROVE  TypeInv'
<1>1. CASE Elsewise
  BY <1>1, ResultsType DEF Elsewise
<1>2. CASE \E w \in Workers :
       \/ CreateSeason(w) \/ \E players \in SUBSET Users : StartSeason(w, players)
       \/ SaveSeason(w) \/ SaveSnapshot(w)
       \/ \E a, b \in Users : ScheduleMatch(w, a, b)
       \/ \E n \in DOMAIN fixtures, a, b \in Scores : ReportMatch(w, n, a, b)
       \/ Validate(w) \/ SaveFixture(w) \/ ReadStandings(w) \/ SaveStandings(w)
  BY <1>2, CreateSeasonType, StartSeasonType, SaveSeasonType, SaveSnapshotType, ScheduleMatchType,
     ReportMatchType, ValidateType, SaveFixtureType, ReadStandingsType, SaveStandingsType
<1> QED  BY <1>1, <1>2 DEF SeasonNext

-----------------------------------------------------------------------------
(* Types: the cards *)

LEMMA CardStepType ==
  ASSUME TypeInv, NEW w \in Workers, NEW step, NEW work,
         Await(w, step, work), Holds(step, work)',
         Arrive(w) \/ UNCHANGED overlapped, irregular' \in BOOLEAN, UNCHANGED <<resultVars, seasonVars>>,
         DOMAIN identities \subseteq DOMAIN identities', CardsOK'
  PROVE  TypeInv'
<1>1. Grown
  BY DEF Grown, TypeInv, UsersOK, resultVars, seasonVars
<1>2. TablesOK'
  BY <1>1, TablesStill DEF TablesOK, resultVars
<1> QED  BY <1>1, <1>2, StepType DEF resultVars

\* A row that is saved is one of the table's from then on.
LEMMA SavedCard ==
  ASSUME TypeInv, NEW w \in Workers, NEW n \in {0} \cup DOMAIN identities, n = my[w].n,
         NEW row, RowSound(row), Save(w, row)
  PROVE  /\ identities' \in Seq(CardRow)
         /\ SavedAs(w) \in DOMAIN identities' /\ DOMAIN identities' = DOMAIN identities \cup {SavedAs(w)}
         /\ identities'[SavedAs(w)] = row
         /\ \A m \in DOMAIN identities' \ {SavedAs(w)} : m \in DOMAIN identities /\ identities'[m] = identities[m]
<1>1. identities \in Seq(CardRow) /\ row \in CardRow /\ n # 0 => n \in DOMAIN identities
  BY DEF TypeInv, CardsOK, RowSound
<1>2. CASE n = 0
  <2>1. identities' = Append(identities, row) /\ SavedAs(w) = Len(identities) + 1
    BY <1>2 DEF Save, SavedAs
  <2> QED  BY <1>1, <2>1, InsertedRow DEF TypeInv, CardsOK, RowSound
<1>3. CASE n # 0
  <2>1. identities' = [identities EXCEPT ![n] = row] /\ SavedAs(w) = n
    BY <1>3 DEF Save, SavedAs
  <2>2. /\ [identities EXCEPT ![n] = row] \in Seq(CardRow)
        /\ DOMAIN [identities EXCEPT ![n] = row] = DOMAIN identities
        /\ \A m \in DOMAIN identities : [identities EXCEPT ![n] = row][m] = IF m = n THEN row ELSE identities[m]
    BY <1>1, SavedRow DEF TypeInv, CardsOK, RowSound
  <2> QED  BY <1>3, <2>1, <2>2
<1> QED  BY <1>2, <1>3

LEMMA SavedCards ==
  ASSUME TypeInv, NEW w \in Workers, NEW n \in {0} \cup DOMAIN identities, n = my[w].n,
         NEW row, RowSound(row), Save(w, row), UNCHANGED <<resultVars, seasonVars>>
  PROVE  /\ CardsOK' /\ DOMAIN identities \subseteq DOMAIN identities'
         /\ SavedAs(w) \in DOMAIN identities' /\ RowSound(row)'
<1>1. \A r : RowSound(r) <=> RowSound(r)'
  BY DEF RowSound, resultVars
<1>2. \A m \in DOMAIN identities' : RowSound(identities'[m])
  BY SavedCard DEF TypeInv, CardsOK
<1>3. (\A m \in DOMAIN identities : RowSound(identities[m]))'
  BY <1>2 DEF RowSound, resultVars
<1> QED  BY <1>1, <1>3, SavedCard DEF CardsOK

LEMMA NamesOfUsers == \A u \in Users : DisplayName[u] \in Names /\ LeagueName[u] \in Names
BY PlayersAssumption DEF Names, Range

LEMMA NewRow ==
  ASSUME UsersOK, NEW user \in People, NEW league \in People, NEW name \in Names
  PROVE  RowSound(Row(user, league, name))
<1>1. NoShadow \in Shadow
  BY DEF NoShadow, Shadow, People
<1>2. PICK row : row = [user |-> user, league |-> league, name |-> name, shadow |-> NoShadow]
  OBVIOUS
<1>3. row \in CardRow /\ row.shadow = NoShadow
  BY <1>1, <1>2 DEF CardRow
<1>4. \A u \in Users : row.shadow.at[u] = 0 /\ row.shadow.version = 0 /\ 0 <= updates[u]
  BY <1>3 DEF NoShadow, UsersOK
<1>5. RowSound(row)
  BY <1>3, <1>4 DEF RowSound
<1> QED  BY <1>2, <1>5 DEF Row

\* Whatever row is found has been a row, or is a new one.
LEMMA FoundRow ==
  ASSUME TypeInv, NEW hints, HintsOK(hints), NEW found \in Found(hints)
  PROVE  found.n \in {0} \cup DOMAIN identities /\ RowSound(found.row)
<1> DEFINE Good(f) == f.n \in {0} \cup DOMAIN identities /\ RowSound(f.row)
<1>1. \A f \in Saved : Good(f)
  BY DEF Saved, TypeInv, CardsOK
<1>2. \A row : RowSound(row) => Good(Unsaved(row))
  BY DEF Unsaved
<1>3. \A name : \A f \in RowsNamed(name) : Good(f)
  BY <1>1 DEF RowsNamed
<1>4. \A u \in Users : \A f \in RowOfUser(u) : Good(f)
  <2> SUFFICES ASSUME NEW u \in Users, NEW f \in RowOfUser(u) PROVE Good(f)
    OBVIOUS
  <2>1. Good(Unsaved(Row(u, Nobody, DisplayName[u])))
    BY <1>2, NewRow, NamesOfUsers DEF TypeInv, People
  <2> QED  BY <1>1, <2>1 DEF RowOfUser
<1>5. \A name : \A f \in Top(name) : Good(f)
  BY <1>3, <1>4 DEF Top, UsersNamed
<1>6. Good(Unsaved(Created(hints)))
  <2>1. UnknownPlayer \in Names
    BY DEF Names
  <2>2. RowSound(Created(hints))
    BY <2>1, NewRow, NamesOfUsers DEF Created, HintsOK, People, TypeInv
  <2> QED  BY <1>2, <2>2
<1> HIDE DEF Good
<1>7. Good(found)
  BY <1>1, <1>5, <1>6 DEF Found
<1> QED  BY <1>7 DEF Good

LEMMA MergedRow ==
  ASSUME NEW row, RowSound(row), NEW hints, HintsOK(hints)
  PROVE  RowSound(Merged(row, hints))
<1>1. PICK merged : merged = Merged(row, hints)
  OBVIOUS
<1>2. row \in CardRow
  BY DEF RowSound
<1>3. merged = [row EXCEPT !.league = IF hints.league # Nobody THEN hints.league ELSE @,
                           !.name = IF hints.name # NoName THEN hints.name ELSE @,
                           !.user = IF @ = Nobody THEN hints.user ELSE @]
  BY <1>1 DEF Merged
<1>4. merged \in CardRow /\ merged.shadow = row.shadow
  BY <1>2, <1>3 DEF CardRow, HintsOK
<1> QED  BY <1>1, <1>4 DEF RowSound

LEMMA ResolveType ==
  ASSUME TypeInv, NEW w \in Workers, Resolve(w)
  PROVE  TypeInv'
<1> USE DEF Resolve
<1>1. PICK work, hints : work = my[w] /\ hints = my[w].hints
  OBVIOUS
<1>2. pc[w] = "resolve" /\ UNCHANGED overlapped /\ irregular' \in BOOLEAN
  BY Served1
<1>3. HintsOK(hints) /\ Past(work.of, work.version)
  BY <1>1, <1>2 DEF TypeInv, Equipped, Holds, HoldsCard
<1>4. PICK found \in Found(hints) :
        Await(w, "saveIdentity", [ask |-> work.ask, of |-> work.of, version |-> work.version,
                                  n |-> found.n, row |-> Merged(found.row, hints)])
  BY <1>1
<1>5. PICK next : next = [ask |-> work.ask, of |-> work.of, version |-> work.version,
                          n |-> found.n, row |-> Merged(found.row, hints)]
  OBVIOUS
<1>6. found.n \in {0} \cup DOMAIN identities /\ RowSound(Merged(found.row, hints))
  BY <1>3, FoundRow, MergedRow
<1>7. Holds("saveIdentity", next)
  BY <1>3, <1>5, <1>6 DEF Holds, HoldsResult, HoldsSeason, HoldsCard
<1> QED  BY <1>2, <1>4, <1>5, <1>7, ReadType

LEMMA SaveIdentityType ==
  ASSUME TypeInv, NEW w \in Workers, SaveIdentity(w)
  PROVE  TypeInv'
<1> USE DEF SaveIdentity
<1>1. PICK work, n, row : work = my[w] /\ n = my[w].n /\ row = my[w].row
  OBVIOUS
<1>2. pc[w] = "saveIdentity" /\ UNCHANGED overlapped /\ irregular' \in BOOLEAN
  BY Served1
<1>3. /\ work = [ask |-> work.ask, of |-> work.of, version |-> work.version, n |-> n, row |-> row]
      /\ n \in {0} \cup DOMAIN identities /\ RowSound(row) /\ Past(work.of, work.version)
  BY <1>1, <1>2 DEF TypeInv, Equipped, Holds, HoldsCard
<1>4. CASE Refused(my[w].n, my[w].row)
  <2>1. Await(w, "idle", NoWork) /\ UNCHANGED identities
    BY <1>4 DEF Answer
  <2> QED  BY <1>2, <2>1, ReadType, AnswerHolds
<1>5. CASE ~Refused(my[w].n, my[w].row)
  <2>1. PICK m : m = SavedAs(w)
    OBVIOUS
  <2>2. Save(w, row)
    BY <1>1, <1>5
  <2>3. CardsOK' /\ DOMAIN identities \subseteq DOMAIN identities' /\ m \in DOMAIN identities' /\ RowSound(row)'
    BY <1>1, <1>3, <2>1, <2>2, SavedCards
  <2>4. PICK saved : saved = [ask |-> work.ask, of |-> work.of, version |-> work.version, n |-> m, row |-> row]
    OBVIOUS
  <2>5. [my[w] EXCEPT !.n = SavedAs(w)] = saved
    BY <1>1, <1>3, <2>1, <2>4
  <2>6. Past(work.of, work.version)'
    BY <1>3 DEF Past, resultVars
  <2>7. \/ \E step \in {"saveImport", "shade"} : Await(w, step, saved)
        \/ row.user # Nobody /\ Await(w, "readUser", [ask |-> "card", of |-> row.user])
        \/ Await(w, "readIdentity", [ask |-> "byId", n |-> m])
    BY <1>1, <1>5, <2>1, <2>4, <2>5
  <2>8. CASE \E step \in {"saveImport", "shade"} : Await(w, step, saved)
    <3>1. PICK step \in {"saveImport", "shade"} : Await(w, step, saved)
      BY <2>8
    <3>2. Holds(step, saved)'
      BY <2>3, <2>4, <2>6 DEF Holds, HoldsResult, HoldsSeason, HoldsCard
    <3> QED  BY <1>2, <2>3, <3>1, <3>2, CardStepType
  <2>9. CASE row.user # Nobody /\ Await(w, "readUser", [ask |-> "card", of |-> row.user])
    <3>1. PICK next : next = [ask |-> "card", of |-> row.user]
      OBVIOUS
    <3>2. row.user \in Users
      BY <1>3, <2>9 DEF RowSound, CardRow, People
    <3>3. Holds("readUser", next)'
      BY <3>1, <3>2 DEF Holds, HoldsResult, HoldsSeason, HoldsCard
    <3> QED  BY <1>2, <2>3, <2>9, <3>1, <3>3, CardStepType
  <2>10. CASE Await(w, "readIdentity", [ask |-> "byId", n |-> m])
    <3>1. PICK next : next = [ask |-> "byId", n |-> m]
      OBVIOUS
    <3>2. Holds("readIdentity", next)'
      BY <2>3, <3>1 DEF Holds, HoldsResult, HoldsSeason, HoldsCard
    <3> QED  BY <1>2, <2>3, <2>10, <3>1, <3>2, CardStepType
  <2> QED  BY <2>7, <2>8, <2>9, <2>10
<1> QED  BY <1>4, <1>5

LEMMA AskType ==
  ASSUME TypeInv, NEW w \in Workers, NEW step, NEW work, Ask(w, step, work), Holds(step, work)
  PROVE  TypeInv'
BY ReadType, Called DEF Ask

LEMMA AskCardType ==
  ASSUME TypeInv, NEW w \in Workers, NEW u \in Users, NEW ask \in {"card", "recompute"}, AskCard(w, u, ask)
  PROVE  TypeInv'
<1>1. PICK work : work = [ask |-> ask, of |-> u]
  OBVIOUS
<1>2. Holds("readUser", work)
  BY <1>1 DEF Holds, HoldsResult, HoldsSeason, HoldsCard
<1> QED  BY <1>1, <1>2, AskType DEF AskCard

LEMMA HintsGiven ==
  /\ \A u \in Users : HintsOK(CardHints(u))
  /\ \A u \in Users : \A hints \in Hints(u) : HintsOK(hints)
  /\ \A u \in People : HintsOK([user |-> u, league |-> u, name |-> NoName])
BY NamesOfUsers DEF HintsOK, CardHints, Hints, People

LEMMA ByHintsHold ==
  ASSUME UsersOK, NEW hints, HintsOK(hints), NEW ask
  PROVE  Holds("resolve", ByHints(ask, hints))
<1>1. Past(Nobody, 0)
  BY DEF Past, People, UsersOK
<1>2. PICK work : work = [ask |-> ask, of |-> Nobody, version |-> 0, hints |-> hints]
  OBVIOUS
<1>3. Holds("resolve", work)
  BY <1>1, <1>2 DEF Holds, HoldsResult, HoldsSeason, HoldsCard
<1> QED  BY <1>2, <1>3 DEF ByHints

LEMMA AskWithType ==
  ASSUME TypeInv, NEW w \in Workers, NEW u \in Users, NEW hints \in Hints(u), NEW ask, AskWith(w, hints, ask)
  PROVE  TypeInv'
<1>1. PICK work : work = ByHints(ask, hints)
  OBVIOUS
<1>2. Holds("resolve", work)
  BY <1>1, HintsGiven, ByHintsHold DEF TypeInv
<1> QED  BY <1>1, <1>2, AskType DEF AskWith

LEMMA AskByIdType ==
  ASSUME TypeInv, NEW w \in Workers, NEW n \in DOMAIN identities, AskById(w, n)
  PROVE  TypeInv'
<1>1. PICK work : work = [ask |-> "byId", n |-> n]
  OBVIOUS
<1>2. Holds("readIdentity", work)
  BY <1>1 DEF Holds, HoldsResult, HoldsSeason, HoldsCard
<1> QED  BY <1>1, <1>2, ReadType, Called DEF AskById

LEMMA ReadUserType ==
  ASSUME TypeInv, NEW w \in Workers, ReadUser(w)
  PROVE  TypeInv'
<1>1. PICK u, ask : u = my[w].of /\ ask = my[w].ask
  OBVIOUS
<1>2. pc[w] = "readUser" /\ UNCHANGED overlapped /\ irregular' \in BOOLEAN
  BY Served1 DEF ReadUser
<1>3. u \in Users
  BY <1>1, <1>2 DEF TypeInv, Equipped, Holds, HoldsCard
<1>4. PICK version : version = updates[u]
  OBVIOUS
<1>5. Past(u, version)
  BY <1>3, <1>4 DEF Past, People, TypeInv, UsersOK
<1>6. PICK work : work = [ask |-> ask, of |-> u, version |-> version, hints |-> CardHints(u)]
  OBVIOUS
<1>7. Holds("resolve", work)
  BY <1>3, <1>5, <1>6, HintsGiven DEF Holds, HoldsResult, HoldsSeason, HoldsCard
<1>8. Await(w, "resolve", work)
  BY <1>1, <1>4, <1>6 DEF ReadUser
<1> QED  BY <1>2, <1>7, <1>8, ReadType DEF ReadUser

LEMMA ReadIdentityType ==
  ASSUME TypeInv, NEW w \in Workers, ReadIdentity(w)
  PROVE  TypeInv'
<1>1. PICK n, row : n = my[w].n /\ row = identities[n]
  OBVIOUS
<1>2. pc[w] = "readIdentity" /\ UNCHANGED overlapped /\ irregular' \in BOOLEAN
  BY Served1 DEF ReadIdentity
<1>3. n \in DOMAIN identities /\ RowSound(row)
  BY <1>1, <1>2 DEF TypeInv, Equipped, Holds, HoldsCard, CardsOK
<1>4. PICK work : work = [ask |-> "byId", n |-> n, row |-> row]
  OBVIOUS
<1>5. Holds("readLinked", work)
  BY <1>3, <1>4 DEF Holds, HoldsResult, HoldsSeason, HoldsCard
<1>6. Await(w, "readLinked", work)
  BY <1>1, <1>4 DEF ReadIdentity
<1> QED  BY <1>2, <1>5, <1>6, ReadType DEF ReadIdentity

LEMMA SaveImportType ==
  ASSUME TypeInv, NEW w \in Workers, SaveImport(w)
  PROVE  TypeInv'
<1> USE DEF SaveImport
<1>1. PICK work, n, row : work = my[w] /\ n = my[w].n /\ row = my[w].row
  OBVIOUS
<1>2. pc[w] = "saveImport" /\ UNCHANGED overlapped /\ irregular' \in BOOLEAN
  BY Served1
<1>3. n \in DOMAIN identities /\ RowSound(row)
  BY <1>1, <1>2 DEF TypeInv, Equipped, Holds, HoldsCard, CardsOK
<1>4. CASE Refused(my[w].n, my[w].row)
  <2>1. Await(w, "idle", NoWork) /\ UNCHANGED identities
    BY <1>4 DEF Answer
  <2> QED  BY <1>2, <2>1, ReadType, AnswerHolds
<1>5. CASE ~Refused(my[w].n, my[w].row)
  <2>1. Save(w, row) /\ Await(w, "readLinked", work)
    BY <1>1, <1>5, ThenAwait DEF TypeInv
  <2>2. CardsOK' /\ DOMAIN identities \subseteq DOMAIN identities' /\ RowSound(row)'
    BY <1>1, <1>3, <2>1, SavedCards
  <2>3. Holds("readLinked", work)'
    BY <1>1, <1>3, <2>2 DEF Holds, HoldsResult, HoldsSeason, HoldsCard
  <2> QED  BY <1>2, <2>1, <2>2, <2>3, CardStepType
<1> QED  BY <1>4, <1>5

LEMMA ReadLinkedType ==
  ASSUME TypeInv, NEW w \in Workers, ReadLinked(w)
  PROVE  TypeInv'
<1> USE DEF ReadLinked
<1>1. PICK ask, n, row, u, version : /\ ask = my[w].ask /\ n = my[w].n /\ row = my[w].row /\ u = my[w].row.user
                                     /\ version = IF u = Nobody THEN 0 ELSE updates[u]
  OBVIOUS
<1>2. pc[w] = "readLinked" /\ UNCHANGED overlapped /\ irregular' \in BOOLEAN
  BY Served1
<1>3. n \in DOMAIN identities /\ RowSound(row)
  BY <1>1, <1>2 DEF TypeInv, Equipped, Holds, HoldsCard
<1>4. u \in People
  BY <1>1, <1>3 DEF RowSound, CardRow
<1>5. CASE u = Nobody /\ my[w].ask = "byId"
  <2>1. Await(w, "idle", NoWork)
    BY <1>1, <1>5 DEF Answer
  <2> QED  BY <1>2, <2>1, ReadType, AnswerHolds
<1>6. CASE ~(u = Nobody /\ my[w].ask = "byId")
  <2>1. Past(u, version)
    BY <1>1, <1>4 DEF Past, People, TypeInv, UsersOK
  <2>2. PICK work : work = [ask |-> ask, of |-> u, n |-> n, row |-> row, version |-> version]
    OBVIOUS
  <2>3. Holds("shade", work)
    BY <1>3, <2>1, <2>2 DEF Holds, HoldsResult, HoldsSeason, HoldsCard
  <2>4. Await(w, "shade", work)
    BY <1>1, <1>6, <2>2
  <2> QED  BY <1>2, <2>3, <2>4, ReadType
<1> QED  BY <1>5, <1>6

\* A shadow is of a rating that has been, under the time of the present ones.
LEMMA ShadowedRow ==
  ASSUME UsersOK, NEW w \in Workers, RowSound(my[w].row), Past(my[w].of, my[w].version)
  PROVE  RowSound(Shadowed(w))
<1>1. PICK u, version, row, shadow : /\ u = my[w].of /\ version = my[w].version /\ row = my[w].row
                                     /\ shadow = [user |-> u, version |-> version, at |-> updates]
  OBVIOUS
<1>2. shadow \in Shadow
  BY <1>1 DEF Shadow, Past, UsersOK
<1>3. PICK next : next = [row EXCEPT !.shadow = shadow]
  OBVIOUS
<1>4. next \in CardRow /\ next.shadow = shadow
  BY <1>1, <1>2, <1>3 DEF RowSound, CardRow
<1>5. \A v \in Users : shadow.at[v] <= updates[v] /\ (shadow.user = v => shadow.version <= shadow.at[v])
  BY <1>1 DEF Past, UsersOK
<1>6. RowSound(next)
  BY <1>4, <1>5 DEF RowSound
<1> QED  BY <1>1, <1>3, <1>6 DEF Shadowed

LEMMA ShadeType ==
  ASSUME TypeInv, NEW w \in Workers, Shade(w)
  PROVE  TypeInv'
<1> USE DEF Shade
<1>1. PICK n, row, u : n = my[w].n /\ row = Shadowed(w) /\ u = my[w].of
  OBVIOUS
<1>2. pc[w] = "shade" /\ UNCHANGED overlapped /\ irregular' \in BOOLEAN
  BY Served1
<1>3. n \in DOMAIN identities /\ RowSound(my[w].row) /\ Past(u, my[w].version)
  BY <1>1, <1>2 DEF TypeInv, Equipped, Holds, HoldsCard
<1>4. RowSound(row)
  BY <1>1, <1>3, ShadowedRow DEF TypeInv
<1>5. CASE Refused(my[w].n, my[w].row)
  <2>1. Await(w, "idle", NoWork) /\ UNCHANGED identities
    BY <1>5 DEF Answer
  <2> QED  BY <1>2, <2>1, ReadType, AnswerHolds
<1>6. CASE ~Refused(my[w].n, my[w].row)
  <2>1. Save(w, row)
    BY <1>1, <1>6
  <2>2. CardsOK' /\ DOMAIN identities \subseteq DOMAIN identities'
    BY <1>1, <1>3, <1>4, <2>1, SavedCards
  <2>3. CASE Answer(w)
    <3>1. Await(w, "idle", NoWork)
      BY <2>3 DEF Answer
    <3> QED  BY <1>2, <2>2, <3>1, AnswerHoldsNext, CardStepType
  <2>4. CASE Await(w, "resolve", ByHints("import", [user |-> my[w].of, league |-> my[w].of, name |-> NoName]))
    <3>1. PICK work : work = ByHints("import", [user |-> u, league |-> u, name |-> NoName])
      OBVIOUS
    <3>2. HintsOK([user |-> u, league |-> u, name |-> NoName])
      BY <1>3, HintsGiven DEF Past
    <3>3. Holds("resolve", work)
      BY <3>1, <3>2, ByHintsHold DEF TypeInv
    <3>4. Holds("resolve", work)'
      BY <3>3 DEF Holds, HoldsResult, HoldsSeason, HoldsCard, Past, resultVars
    <3> QED  BY <1>1, <1>2, <2>2, <2>4, <3>1, <3>4, CardStepType
  <2> QED  BY <1>6, <2>3, <2>4
<1> QED  BY <1>5, <1>6

LEMMA TypeStutter == ASSUME TypeInv, UNCHANGED cardVars PROVE TypeInv'
<1> USE DEF cardVars, allVars, vars, requestVars, resultVars, seasonVars
<1>1. Grown
  BY DEF Grown, TypeInv, UsersOK
<1>2. TablesOK'
  BY <1>1, TablesStill DEF TablesOK
<1>3. overlapped' \in BOOLEAN /\ irregular' \in BOOLEAN
  BY DEF TypeInv, Served
<1> QED  BY <1>1, <1>2, <1>3, StillType

LEMMA TypeStep == ASSUME TypeInv, [CardNext]_cardVars PROVE TypeInv'
<1>1. CASE SeasonNext /\ UNCHANGED identities
  BY <1>1, SeasonsType
<1>2. CASE \E w \in Workers :
       \/ \E u \in Users :
            \/ \E ask \in {"card", "recompute"} : AskCard(w, u, ask)
            \/ \E hints \in Hints(u), ask \in {"import", "resolve"} : AskWith(w, hints, ask)
       \/ \E n \in DOMAIN identities : AskById(w, n)
       \/ ReadUser(w) \/ Resolve(w) \/ SaveIdentity(w) \/ ReadIdentity(w) \/ SaveImport(w)
       \/ ReadLinked(w) \/ Shade(w)
  BY <1>2, AskCardType, AskWithType, AskByIdType, ReadUserType, ResolveType, SaveIdentityType,
     ReadIdentityType, SaveImportType, ReadLinkedType, ShadeType
<1>3. CASE UNCHANGED cardVars
  BY <1>3, TypeStutter
<1> QED  BY <1>1, <1>2, <1>3 DEF CardNext

LEMMA TypeFollows == ASSUME TypeInv PROVE TypeOK /\ SeasonTypeOK /\ CardTypeOK
<1>1. \A g \in DOMAIN games :
        /\ games[g].status \in Open \cup {"COMPLETED"} /\ games[g].score \in [Sides -> Nat]
        /\ games[g].A \in Users /\ games[g].B \in Users \ {games[g].A}
        /\ DOMAIN games[g].pocketed \subseteq InitialObjectBalls(games[g].rack)
        /\ \A ball \in DOMAIN games[g].pocketed : games[g].pocketed[ball] \in Sides
  <2> SUFFICES ASSUME NEW g \in DOMAIN games
               PROVE  /\ games[g].status \in Open \cup {"COMPLETED"} /\ games[g].score \in [Sides -> Nat]
                      /\ games[g].A \in Users /\ games[g].B \in Users \ {games[g].A}
                      /\ DOMAIN games[g].pocketed \subseteq InitialObjectBalls(games[g].rack)
                      /\ \A ball \in DOMAIN games[g].pocketed : games[g].pocketed[ball] \in Sides
    OBVIOUS
  <2>1. PICK game : game = games[g]
    OBVIOUS
  <2>2. Sound(game) /\ game \in Game
    BY <2>1 DEF TypeInv, GamesOK, Sound
  <2>3. /\ game.status \in Open \cup {"COMPLETED"} /\ game.score \in [Sides -> Nat]
        /\ game.A \in Users /\ game.B \in Users /\ game.pocketed \in Balls
    BY <2>2 DEF Game
  <2>4. PICK S \in SUBSET Nat : game.pocketed \in [S -> Sides]
    BY <2>3 DEF Balls
  <2> QED  BY <2>1, <2>2, <2>3, <2>4 DEF Sound
<1>2. \A g \in DOMAIN timelines : timelines[g] \in Timeline
  BY DEF TypeInv, TimelinesOK, ClosedForAResult
<1>3. TypeOK
  BY <1>1, <1>2 DEF TypeOK, TypeInv, TimelinesOK, UsersOK, MemoriesOK
<1>4. SeasonTypeOK
  BY DEF TypeInv, SeasonOK, SeasonTypeOK, FixtureRow
<1>5. CardTypeOK
  <2> SUFFICES ASSUME NEW n \in DOMAIN identities
               PROVE  /\ identities[n].user \in People /\ identities[n].league \in People
                      /\ identities[n].name \in Names /\ identities[n].shadow.user \in People
                      /\ \A u \in Users : identities[n].shadow.at[u] \in 0 .. updates[u]
                      /\ \A u \in Users : identities[n].shadow.user = u =>
                           identities[n].shadow.version \in 0 .. identities[n].shadow.at[u]
    BY DEF CardTypeOK, People, Names
  <2>1. PICK row : row = identities[n]
    OBVIOUS
  <2>2. RowSound(row) /\ row \in CardRow
    BY <2>1 DEF TypeInv, CardsOK, RowSound
  <2>3. /\ row.user \in People /\ row.league \in People /\ row.name \in Names /\ row.shadow.user \in People
        /\ row.shadow.version \in Nat /\ row.shadow.at \in [Users -> Nat]
    BY <2>2 DEF CardRow, Shadow
  <2> QED  BY <2>1, <2>2, <2>3 DEF RowSound, TypeInv, UsersOK
<1> QED  BY <1>3, <1>4, <1>5

LEMMA TypeInvariant == CardSpec => []TypeInv
<1>1. CardInit => TypeInv
  BY TypeInit
<1>2. TypeInv /\ [CardNext]_cardVars => TypeInv'
  BY TypeStep
<1> QED  BY <1>1, <1>2, PTL DEF CardSpec

\* Every variable keeps its shape, for any players and racks: balls are pocketed
\* from their own rack, memories and timelines are of matches there are, and a
\* shadow comes from a rating there has been (matches.service.ts:50,
\* leagues-v2.service.ts:150, player-card.service.ts:60).
THEOREM RecordsAreTyped == CardSpec => [](TypeOK /\ SeasonTypeOK /\ CardTypeOK)
<1>1. TypeInv => TypeOK /\ SeasonTypeOK /\ CardTypeOK
  BY TypeFollows
<1> QED  BY <1>1, TypeInvariant, PTL

\* However pockets and reports overlap, and whatever fails, a pyramid match is
\* complete exactly when a side has its points (matches.service.ts, pyramidPocket
\* and reportResult): the whole row is saved, and every copy of one adds up.
THEOREM RacksEndAtTheirTarget == CardSpec => []PyramidEndsAtTarget
<1>1. TypeInv => PyramidEndsAtTarget
  BY DEF TypeInv, GamesOK, Sound, PyramidEndsAtTarget
<1> QED  BY <1>1, TypeInvariant, PTL

-----------------------------------------------------------------------------
(* Nobody is rated for more than was processed *)

\* A request that has handed over a rated result of the user and has yet to rate it.
Unrated == {"readTimeline", "saveTimeline", "mirrorTimeline", "readUsers", "askRealAi", "saveUsers"}
Owes(step, work, u) ==
  /\ step \in Unrated
  /\ step \in {"saveTimeline", "mirrorTimeline"} => "result" \in DOMAIN work
  /\ work.result.rated /\ u \in Players(work.result)
Pending(u) == {w \in Workers : Owes(pc[w], my[w], u)}
Busy == {w \in Workers : pc[w] # "idle"}

\* What is saved of a player, or held to be saved, is behind what was processed by
\* all that is pending.
CountInv ==
  /\ IsFiniteSet(Busy)
  /\ \A u \in Users : played[u] + Cardinality(Pending(u)) <= Cardinality(Of(u))
  /\ \A w \in Workers, u \in Users : pc[w] \in {"askRealAi", "saveUsers"} =>
       my[w].copy[u] + Cardinality(Pending(u)) <= Cardinality(Of(u))

LEMMA PendingFinite ==
  ASSUME IsFiniteSet(Busy), NEW u
  PROVE  IsFiniteSet(Pending(u)) /\ Cardinality(Pending(u)) \in Nat
<1>1. Pending(u) \subseteq Busy
  BY DEF Pending, Busy, Owes, Unrated
<1> QED  BY <1>1, FS_Subset, FS_CardinalityType

LEMMA OfFinite ==
  ASSUME TypeInv, NEW u
  PROVE  IsFiniteSet(Of(u)) /\ Cardinality(Of(u)) \in Nat
<1>1. DOMAIN processed = 1 .. Len(processed) /\ Len(processed) \in Nat
  BY DEF TypeInv, ProcessedOK
<1>2. IsFiniteSet(DOMAIN processed)
  BY <1>1, FS_Interval
<1> QED  BY <1>2, FS_Subset, FS_CardinalityType DEF Of

LEMMA CountInit == CardInit => CountInv
<1> SUFFICES ASSUME CardInit PROVE CountInv
  OBVIOUS
<1>1. \A w \in Workers : pc[w] = "idle"
  BY NothingServed DEF CardInit, SeasonInit, Init
<1>2. Busy = {} /\ \A u \in Users : Pending(u) = {}
  BY <1>1 DEF Busy, Pending, Owes, Unrated
<1>3. \A u \in Users : Of(u) = {} /\ played[u] = 0
  BY DEF CardInit, SeasonInit, Init, Of
<1>4. Cardinality({}) = 0 /\ IsFiniteSet({})
  BY FS_EmptySet
<1>5. \A u \in Users : played[u] = 0 /\ Cardinality(Pending(u)) = 0 /\ Cardinality(Of(u)) = 0
  BY <1>2, <1>3, <1>4
<1>6. IsFiniteSet(Busy) /\ \A w \in Workers : pc[w] \notin {"askRealAi", "saveUsers"}
  BY <1>1, <1>2, <1>4
<1> QED  BY <1>5, <1>6 DEF CountInv

\* A step of one request adds at most that one to the busy.
LEMMA BusyStep ==
  ASSUME CountInv, NEW w \in Workers, Alone(w)
  PROVE  IsFiniteSet(Busy)'
<1>1. Busy' \subseteq Busy \cup {w}
  BY DEF Busy, Alone
<1>2. IsFiniteSet(Busy \cup {w})
  BY FS_AddElement DEF CountInv
<1> QED  BY <1>1, <1>2, FS_Subset

\* Without a new result, what is pending can only become less ...
LEMMA PendingLess ==
  ASSUME TypeInv, CountInv, NEW w \in Workers, Alone(w), UNCHANGED processed, NEW u,
         Owes(pc[w], my[w], u)' => Owes(pc[w], my[w], u)
  PROVE  /\ Cardinality(Of(u))' = Cardinality(Of(u)) /\ Cardinality(Of(u)) \in Nat
         /\ Cardinality(Pending(u))' \in Nat /\ Cardinality(Pending(u)) \in Nat
         /\ Cardinality(Pending(u))' <= Cardinality(Pending(u))
<1>1. Of(u)' = Of(u)
  BY DEF Of
<1>2. Pending(u)' \subseteq Pending(u)
  BY DEF Pending, Alone, Owes
<1>3. IsFiniteSet(Pending(u)) /\ Cardinality(Pending(u)) \in Nat
  BY PendingFinite DEF CountInv
<1>4. PICK old, new : old = Pending(u) /\ new = Pending(u)'
  OBVIOUS
<1>5. Cardinality(new) \in Nat /\ Cardinality(new) <= Cardinality(old)
  BY <1>2, <1>3, <1>4, FS_Subset, FS_CardinalityType
<1> QED  BY <1>1, <1>3, <1>4, <1>5, OfFinite

\* ... so a step that rates nobody keeps everything behind.
LEMMA CountStep ==
  ASSUME TypeInv, CountInv, TypeInv', NEW w \in Workers, NEW step, NEW work, Await(w, step, work),
         UNCHANGED processed,
         \A u \in Users : Owes(step, work, u) => Owes(pc[w], my[w], u),
         \A u \in Users : played'[u] <= played[u],
         step \in {"askRealAi", "saveUsers"} =>
           work.copy = played \/ (pc[w] \in {"askRealAi", "saveUsers"} /\ work.copy = my[w].copy)
  PROVE  CountInv'
<1>1. Moved(w, step, work) /\ Alone(w)
  BY Awaiting DEF TypeInv, Moved
<1>2. IsFiniteSet(Busy)'
  BY <1>1, BusyStep
<1>3. ASSUME NEW u \in Users
      PROVE  /\ Cardinality(Of(u))' = Cardinality(Of(u)) /\ Cardinality(Of(u)) \in Nat
             /\ Cardinality(Pending(u))' \in Nat /\ Cardinality(Pending(u)) \in Nat
             /\ Cardinality(Pending(u))' <= Cardinality(Pending(u))
  <2>1. Owes(pc[w], my[w], u)' => Owes(pc[w], my[w], u)
    BY <1>1 DEF Moved, Owes
  <2> QED  BY <1>1, <2>1, PendingLess
<1>4. ASSUME NEW u \in Users PROVE (played[u] + Cardinality(Pending(u)) <= Cardinality(Of(u)))'
  <2>1. played[u] \in Nat /\ played'[u] \in Nat
    BY DEF TypeInv, UsersOK
  <2>2. played[u] + Cardinality(Pending(u)) <= Cardinality(Of(u))
    BY DEF CountInv
  <2> QED  BY <1>3, <2>1, <2>2
<1>5. ASSUME NEW v \in Workers, NEW u \in Users, pc'[v] \in {"askRealAi", "saveUsers"}
      PROVE  (my[v].copy[u] + Cardinality(Pending(u)) <= Cardinality(Of(u)))'
  <2>1. PICK copy : copy = my'[v].copy
    OBVIOUS
  <2>2. copy[u] + Cardinality(Pending(u)) <= Cardinality(Of(u))
    BY <1>1, <1>5, <2>1 DEF CountInv, Moved, Alone
  <2>3. copy[u] \in Nat
    BY <1>5, <2>1 DEF TypeInv, Equipped, Holds, HoldsResult
  <2> QED  BY <1>3, <2>1, <2>2, <2>3
<1> QED  BY <1>2, <1>4, <1>5 DEF CountInv

\* A step that leads where nothing is owed.
LEMMA CountElse ==
  ASSUME TypeInv, CountInv, TypeInv', NEW w \in Workers, NEW step, NEW work, Await(w, step, work),
         UNCHANGED <<played, processed>>, step \notin Unrated
  PROVE  CountInv'
<1>1. \A u \in Users : ~Owes(step, work, u)
  BY DEF Owes
<1>2. step \notin {"askRealAi", "saveUsers"}
  BY DEF Unrated
<1>3. \A u \in Users : played'[u] <= played[u]
  BY DEF TypeInv, UsersOK
<1> QED  BY <1>1, <1>2, <1>3, CountStep

LEMMA CountStill ==
  ASSUME CountInv, UNCHANGED <<pc, my, played, processed>>
  PROVE  CountInv'
BY DEF CountInv, Busy, Pending, Owes, Of

\* A request that is rated with one more result is pending with one more.
LEMMA CountProcess ==
  ASSUME TypeInv, CountInv, TypeInv', NEW w \in Workers, pc[w] \notin Unrated,
         NEW result \in ResultRow, NEW domain, Process(w, result, domain), UNCHANGED played
  PROVE  CountInv'
<1> USE DEF Process
<1>1. PICK work : work = [match |-> result.match, result |-> result, domain |-> domain]
  OBVIOUS
<1>2. Moved(w, "readTimeline", work) /\ Alone(w)
  BY <1>1, Awaiting DEF TypeInv, Moved
<1>3. IsFiniteSet(Busy)'
  BY <1>2, BusyStep
<1>4. PICK k : k = Len(processed) + 1
  OBVIOUS
<1>5. processed \in Seq(ResultRow) /\ k \in Nat
  BY <1>4 DEF TypeInv, ProcessedOK
<1>6. /\ DOMAIN processed' = DOMAIN processed \cup {k} /\ k \notin DOMAIN processed /\ processed'[k] = result
      /\ \A n \in DOMAIN processed : processed'[n] = processed[n]
  BY <1>4, <1>5, InsertedRow
<1>7. ASSUME NEW u \in Users
      PROVE  /\ Cardinality(Pending(u)) \in Nat /\ Cardinality(Of(u)) \in Nat
             /\ \E d \in {0, 1} : /\ Cardinality(Pending(u))' = Cardinality(Pending(u)) + d
                                  /\ Cardinality(Of(u))' = Cardinality(Of(u)) + d
  <2>1. IsFiniteSet(Pending(u)) /\ Cardinality(Pending(u)) \in Nat
    BY PendingFinite DEF CountInv
  <2>2. IsFiniteSet(Of(u)) /\ Cardinality(Of(u)) \in Nat
    BY OfFinite
  <2>3. PICK old, new, some, more :
          old = Pending(u) /\ new = Pending(u)' /\ some = Of(u) /\ more = Of(u)'
    OBVIOUS
  <2>4. w \notin old
    BY <2>3 DEF Pending, Owes
  <2>5. \A v \in Workers \ {w} : v \in old <=> v \in new
    BY <1>2, <2>3 DEF Pending, Owes, Alone
  <2>6. old \subseteq Workers /\ new \subseteq Workers
    BY <2>3 DEF Pending
  <2>7. CASE result.rated /\ u \in Players(result)
    <3>1. w \in new
      BY <1>1, <1>2, <2>3, <2>7 DEF Pending, Owes, Unrated, Moved
    <3>2. new = old \cup {w}
      BY <2>5, <2>6, <3>1
    <3>3. more = some \cup {k} /\ k \notin some
      BY <1>6, <2>3, <2>7 DEF Of
    <3>4. Cardinality(new) = Cardinality(old) + 1
      BY <2>1, <2>3, <2>4, <3>2, FS_AddElement
    <3>5. Cardinality(more) = Cardinality(some) + 1
      BY <2>2, <2>3, <3>3, FS_AddElement
    <3> QED  BY <2>1, <2>2, <2>3, <3>4, <3>5
  <2>8. CASE ~(result.rated /\ u \in Players(result))
    <3>1. w \notin new
      BY <1>1, <1>2, <2>3, <2>8 DEF Pending, Owes, Moved
    <3>2. new = old
      <4>1. new \subseteq old
        BY <2>5, <2>6, <3>1
      <4>2. old \subseteq new
        BY <2>4, <2>5, <2>6
      <4> QED  BY <4>1, <4>2
    <3>3. more = some
      BY <1>6, <2>3, <2>8 DEF Of
    <3> QED  BY <2>1, <2>2, <2>3, <3>2, <3>3
  <2> QED  BY <2>7, <2>8
<1>8. ASSUME NEW u \in Users PROVE (played[u] + Cardinality(Pending(u)) <= Cardinality(Of(u)))'
  <2>1. played[u] \in Nat
    BY DEF TypeInv, UsersOK
  <2>2. played[u] + Cardinality(Pending(u)) <= Cardinality(Of(u))
    BY DEF CountInv
  <2> QED  BY <1>7, <2>1, <2>2
<1>9. ASSUME NEW v \in Workers, NEW u \in Users, pc'[v] \in {"askRealAi", "saveUsers"}
      PROVE  (my[v].copy[u] + Cardinality(Pending(u)) <= Cardinality(Of(u)))'
  <2>1. PICK copy : copy = my'[v].copy
    OBVIOUS
  <2>2. v # w
    BY <1>2, <1>9 DEF Moved
  <2>3. copy[u] + Cardinality(Pending(u)) <= Cardinality(Of(u))
    BY <1>2, <1>9, <2>1, <2>2 DEF CountInv, Alone
  <2>4. copy[u] \in Nat
    BY <1>9, <2>1 DEF TypeInv, Equipped, Holds, HoldsResult
  <2> QED  BY <1>7, <2>1, <2>3, <2>4
<1> QED  BY <1>3, <1>8, <1>9 DEF CountInv

LEMMA SaveUsersCount ==
  ASSUME TypeInv, CountInv, TypeInv', NEW w \in Workers, SaveUsers(w)
  PROVE  CountInv'
<1>1. PICK result, copy, report : result = my[w].result /\ copy = my[w].copy /\ report = Report(w)
  OBVIOUS
<1>2. pc[w] = "saveUsers" /\ UNCHANGED processed /\ Await(w, "findMemories", report)
  BY <1>1, Served1 DEF SaveUsers
<1>3. Handed(result) /\ result.rated /\ copy \in [Users -> Nat]
  BY <1>1, <1>2 DEF TypeInv, Equipped, Holds, HoldsResult
<1>4. result.winner \in Users /\ result.loser \in Users /\ result.winner # result.loser
  BY <1>3, HandedRow
<1>5. /\ played' = [played EXCEPT ![result.winner] = copy[result.winner] + 1,
                                  ![result.loser] = copy[result.loser] + 1]
      /\ played \in [Users -> Nat]
  BY <1>1 DEF SaveUsers, TypeInv, UsersOK
<1>6. \A u \in Users : played'[u] = IF u \in Players(result) THEN copy[u] + 1 ELSE played[u]
  BY <1>4, <1>5 DEF Players
<1>7. Moved(w, "findMemories", report) /\ Alone(w)
  BY <1>2, Awaiting DEF TypeInv, Moved
<1>8. ASSUME NEW u \in Users
      PROVE  /\ Cardinality(Of(u))' = Cardinality(Of(u)) /\ Cardinality(Of(u)) \in Nat
             /\ Cardinality(Pending(u))' \in Nat /\ Cardinality(Pending(u)) \in Nat
             /\ Cardinality(Pending(u))' <= Cardinality(Pending(u))
             /\ u \in Players(result) => Cardinality(Pending(u))' = Cardinality(Pending(u)) - 1
  <2>1. ~Owes(pc[w], my[w], u)'
    BY <1>7 DEF Moved, Owes, Unrated
  <2>2. /\ Cardinality(Of(u))' = Cardinality(Of(u)) /\ Cardinality(Of(u)) \in Nat
        /\ Cardinality(Pending(u))' \in Nat /\ Cardinality(Pending(u)) \in Nat
        /\ Cardinality(Pending(u))' <= Cardinality(Pending(u))
    BY <1>2, <1>7, <2>1, PendingLess
  <2>3. ASSUME u \in Players(result) PROVE Cardinality(Pending(u))' = Cardinality(Pending(u)) - 1
    <3>1. PICK old, new : old = Pending(u) /\ new = Pending(u)'
      OBVIOUS
    <3>2. w \in old
      BY <1>1, <1>2, <1>3, <2>3, <3>1 DEF Pending, Owes, Unrated
    <3>3. \A v \in Workers \ {w} : v \in old <=> v \in new
      BY <1>7, <3>1 DEF Pending, Owes, Alone
    <3>4. old \subseteq Workers /\ new \subseteq Workers /\ w \notin new
      BY <2>1, <3>1 DEF Pending
    <3>5. new = old \ {w}
      <4>1. new \subseteq old \ {w}
        BY <3>3, <3>4
      <4>2. old \ {w} \subseteq new
        BY <3>3, <3>4
      <4> QED  BY <4>1, <4>2
    <3>6. IsFiniteSet(old)
      BY <3>1, PendingFinite DEF CountInv
    <3>7. Cardinality(new) = Cardinality(old) - 1
      BY <3>2, <3>5, <3>6, FS_RemoveElement
    <3> QED  BY <3>1, <3>7
  <2> QED  BY <2>2, <2>3
<1>9. ASSUME NEW u \in Users PROVE (played[u] + Cardinality(Pending(u)) <= Cardinality(Of(u)))'
  <2>1. played[u] \in Nat /\ copy[u] \in Nat
    BY <1>3 DEF TypeInv, UsersOK
  <2>2. played[u] + Cardinality(Pending(u)) <= Cardinality(Of(u))
    BY DEF CountInv
  <2>3. copy[u] + Cardinality(Pending(u)) <= Cardinality(Of(u))
    BY <1>1, <1>2 DEF CountInv
  <2>4. CASE u \in Players(result)
    BY <1>6, <1>8, <2>1, <2>3, <2>4
  <2>5. CASE u \notin Players(result)
    BY <1>6, <1>8, <2>1, <2>2, <2>5
  <2> QED  BY <2>4, <2>5
<1>10. ASSUME NEW v \in Workers, NEW u \in Users, pc'[v] \in {"askRealAi", "saveUsers"}
       PROVE  (my[v].copy[u] + Cardinality(Pending(u)) <= Cardinality(Of(u)))'
  <2>1. PICK other : other = my'[v].copy
    OBVIOUS
  <2>2. v # w
    BY <1>7, <1>10 DEF Moved
  <2>3. other[u] + Cardinality(Pending(u)) <= Cardinality(Of(u))
    BY <1>7, <1>10, <2>1, <2>2 DEF CountInv, Alone
  <2>4. other[u] \in Nat
    BY <1>10, <2>1 DEF TypeInv, Equipped, Holds, HoldsResult
  <2> QED  BY <1>8, <2>1, <2>3, <2>4
<1>11. IsFiniteSet(Busy)'
  BY <1>7, BusyStep
<1> QED  BY <1>9, <1>10, <1>11 DEF CountInv

\* The steps of a report up to the rating: what is owed stays owed, or is given up.
LEMMA ReportCount ==
  ASSUME TypeInv, CountInv, TypeInv', NEW w \in Workers,
         \/ ReadTimeline(w) \/ SaveTimeline(w) \/ MirrorTimeline(w) \/ ReadUsers(w) \/ AskRealAi(w) \/ PartFails(w)
  PROVE  CountInv'
<1>1. PICK old, work, report : old = pc[w] /\ work = my[w] /\ report = Report(w)
  OBVIOUS
<1>2. PICK copies : copies = played
  OBVIOUS
<1>3. UNCHANGED <<played, processed>>
  BY DEF ReadTimeline, SaveTimeline, MirrorTimeline, ReadUsers, AskRealAi, PartFails, resultVars
<1>4. \A u \in Users : played'[u] <= played[u]
  BY <1>3 DEF TypeInv, UsersOK
<1>5. \A u \in Users : Owes("readUsers", report, u) /\ Reporting(w) /\ old \in Unrated => Owes(old, work, u)
  BY <1>1 DEF Owes, Report, Reporting
<1>6. CASE ReadTimeline(w)
  <2>1. PICK next : /\ next = [match |-> next.match, fresh |-> next.fresh, row |-> next.row,
                               result |-> work.result, domain |-> work.domain]
                    /\ Await(w, "saveTimeline", next)
    BY <1>1, <1>6 DEF ReadTimeline
  <2>2. old = "readTimeline"
    BY <1>1, <1>6, Served1 DEF ReadTimeline
  <2>3. \A u \in Users : Owes("saveTimeline", next, u) => Owes(old, work, u)
    <3>1. next.result = work.result
      BY <2>1
    <3> QED  BY <2>2, <3>1 DEF Owes, Unrated
  <2> QED  BY <1>1, <1>3, <1>4, <2>1, <2>3, CountStep
<1>7. CASE SaveTimeline(w) \/ MirrorTimeline(w)
  <2>1. old \in {"saveTimeline", "mirrorTimeline"}
    BY <1>1, <1>7, Served1 DEF SaveTimeline, MirrorTimeline
  <2>2. \/ Reporting(w) /\ Await(w, "readUsers", report)
        \/ Await(w, "idle", NoWork)
        \/ Await(w, "mirrorTimeline", work) /\ old = "saveTimeline"
    BY <1>1, <1>7, ThenAwait, Served1 DEF SaveTimeline, MirrorTimeline, Answer, TypeInv
  <2>3. CASE Reporting(w) /\ Await(w, "readUsers", report)
    <3>1. \A u \in Users : Owes("readUsers", report, u) => Owes(old, work, u)
      BY <1>5, <2>1, <2>3 DEF Unrated
    <3> QED  BY <1>1, <1>3, <1>4, <2>3, <3>1, CountStep
  <2>4. CASE Await(w, "idle", NoWork)
    BY <1>3, <2>4, CountElse DEF Unrated
  <2>5. CASE Await(w, "mirrorTimeline", work) /\ old = "saveTimeline"
    <3>1. \A u \in Users : Owes("mirrorTimeline", work, u) => Owes(old, work, u)
      BY <2>5 DEF Owes, Unrated
    <3> QED  BY <1>1, <1>3, <1>4, <2>5, <3>1, CountStep
  <2> QED  BY <2>2, <2>3, <2>4, <2>5
<1>8. CASE ReadUsers(w)
  <2>1. old = "readUsers"
    BY <1>1, <1>8, Served1 DEF ReadUsers
  <2>2. \/ Await(w, "askRealAi", [result |-> work.result, domain |-> work.domain, copy |-> copies])
        \/ Await(w, "findMemories", work)
    BY <1>1, <1>2, <1>8, ThenAwait DEF ReadUsers, TypeInv
  <2>3. CASE Await(w, "findMemories", work)
    BY <1>3, <2>3, CountElse DEF Unrated
  <2>4. CASE Await(w, "askRealAi", [result |-> work.result, domain |-> work.domain, copy |-> copies])
    <3>1. PICK next : next = [result |-> work.result, domain |-> work.domain, copy |-> copies]
      OBVIOUS
    <3>2. \A u \in Users : Owes("askRealAi", next, u) => Owes(old, work, u)
      BY <2>1, <3>1 DEF Owes, Unrated
    <3>3. next.copy = played
      BY <1>2, <3>1
    <3> QED  BY <1>1, <1>3, <1>4, <2>4, <3>1, <3>2, <3>3, CountStep
  <2> QED  BY <2>2, <2>3, <2>4
<1>9. CASE AskRealAi(w)
  <2>1. old = "askRealAi"
    BY <1>1, <1>9 DEF AskRealAi
  <2>2. Await(w, "saveUsers", work) \/ Await(w, "findMemories", report)
    BY <1>1, <1>9, ThenAwait DEF AskRealAi, TypeInv
  <2>3. CASE Await(w, "findMemories", report)
    BY <1>3, <2>3, CountElse DEF Unrated
  <2>4. CASE Await(w, "saveUsers", work)
    <3>1. \A u \in Users : Owes("saveUsers", work, u) => Owes(old, work, u)
      BY <2>1 DEF Owes, Unrated
    <3>2. pc[w] \in {"askRealAi", "saveUsers"} /\ work.copy = my[w].copy
      BY <1>1, <2>1
    <3> QED  BY <1>1, <1>3, <1>4, <2>4, <3>1, <3>2, CountStep
  <2> QED  BY <2>2, <2>3, <2>4
<1>10. CASE PartFails(w)
  <2>1. Reporting(w)
    BY <1>10 DEF PartFails
  <2>2. \/ Await(w, "idle", NoWork)
        \/ \E step \in {"findMemories", "publish"} : Await(w, step, report)
        \/ Await(w, "readUsers", report) /\ old \in Unrated
    <3>1. CASE pc[w] \in {"readTimeline", "saveTimeline", "mirrorTimeline"}
      BY <1>1, <1>10, <3>1 DEF PartFails, Unrated
    <3>2. CASE pc[w] \in {"readUsers", "saveUsers"}
      BY <1>1, <1>10, <3>2 DEF PartFails
    <3>3. CASE pc[w] \in {"findMemories", "createMemories"}
      BY <1>1, <1>10, <3>3 DEF PartFails
    <3>4. CASE pc[w] = "publish"
      BY <1>10, <3>4 DEF PartFails, Answer
    <3> QED  BY <1>10, <3>1, <3>2, <3>3, <3>4 DEF PartFails
  <2>3. CASE Await(w, "idle", NoWork)
    BY <1>3, <2>3, CountElse DEF Unrated
  <2>4. CASE \E step \in {"findMemories", "publish"} : Await(w, step, report)
    <3>1. PICK step \in {"findMemories", "publish"} : Await(w, step, report)
      BY <2>4
    <3>2. step \notin Unrated
      BY DEF Unrated
    <3> QED  BY <1>3, <3>1, <3>2, CountElse
  <2>5. CASE Await(w, "readUsers", report) /\ old \in Unrated
    <3>1. \A u \in Users : Owes("readUsers", report, u) => Owes(old, work, u)
      BY <1>5, <2>1, <2>5
    <3> QED  BY <1>1, <1>3, <1>4, <2>5, <3>1, CountStep
  <2> QED  BY <2>2, <2>3, <2>4, <2>5
<1> QED  BY <1>6, <1>7, <1>8, <1>9, <1>10

\* A request goes on to where nothing is owed.
GoesOn(w) == \E step, work : step \notin Unrated /\ Await(w, step, work)

LEMMA GoesOnThen ==
  ASSUME Served, NEW w \in Workers, NEW step, step \notin Unrated
  PROVE  Then(w, step) => GoesOn(w)
BY ThenAwait DEF GoesOn

LEMMA GoesOnCount ==
  ASSUME TypeInv, CountInv, TypeInv', NEW w \in Workers, GoesOn(w), UNCHANGED <<played, processed>>
  PROVE  CountInv'
BY CountElse DEF GoesOn

LEMMA AnswerGoesOn == ASSUME NEW w, Answer(w) PROVE GoesOn(w)
BY DEF Answer, GoesOn, Unrated

LEMMA ElseGoesOn ==
  ASSUME TypeInv, NEW w \in Workers,
         \/ \E g \in DOMAIN games :
              \/ \E a, b \in Scores : ReportResult(w, g, a, b)
              \/ \E side \in Sides, balls \in SUBSET (1 .. games[g].rack) : PyramidPocket(w, g, side, balls)
         \/ \E u \in Users : SeedFromExternal(w, u)
         \/ FindMemories(w) \/ CreateMemory(w) \/ Publish(w)
         \/ (Abort(w) /\ UNCHANGED resultVars)
  PROVE  GoesOn(w) /\ UNCHANGED <<played, processed>>
<1> USE DEF resultVars
<1>1. CASE \E g \in DOMAIN games :
              \/ \E a, b \in Scores : ReportResult(w, g, a, b)
              \/ \E side \in Sides, balls \in SUBSET (1 .. games[g].rack) : PyramidPocket(w, g, side, balls)
  <2>1. (\E work : Await(w, "saveMatch", work)) /\ UNCHANGED <<played, processed>>
    BY <1>1 DEF ReportResult, PyramidPocket
  <2> QED  BY <2>1 DEF GoesOn, Unrated
<1>2. CASE \E u \in Users : SeedFromExternal(w, u)
  BY <1>2 DEF SeedFromExternal, GoesOn, Unrated
<1>3. CASE FindMemories(w)
  BY <1>3 DEF FindMemories, GoesOn, Unrated
<1>4. CASE CreateMemory(w)
  <2>1. CASE Await(w, "publish", Report(w))
    BY <1>4, <2>1 DEF CreateMemory, GoesOn, Unrated
  <2>2. CASE \E work : Hold(w, work) /\ UNCHANGED pc
    <3>1. PICK work : Hold(w, work) /\ UNCHANGED pc
      BY <2>2
    <3>2. pc[w] = "createMemories"
      BY <1>4, Served1 DEF CreateMemory
    <3>3. Await(w, "createMemories", work)
      BY <3>1, <3>2 DEF Await, Goto, TypeInv, Served
    <3> QED  BY <1>4, <3>3 DEF GoesOn, Unrated, CreateMemory
  <2> QED  BY <1>4, <2>1, <2>2 DEF CreateMemory
<1>5. CASE Publish(w)
  BY <1>5, AnswerGoesOn DEF Publish
<1>6. CASE Abort(w) /\ UNCHANGED resultVars
  BY <1>6, AnswerGoesOn DEF Abort
<1> QED  BY <1>1, <1>2, <1>3, <1>4, <1>5, <1>6

LEMMA TimelineCount ==
  ASSUME TypeInv, CountInv, TypeInv', NEW w \in Workers, NEW g \in Matches,
         StartTimeline(w, g) \/ (\E type \in EventTypes : AppendEvent(w, g, type))
  PROVE  CountInv'
<1>1. PICK row : Await(w, "saveTimeline", [match |-> g, fresh |-> g \notin DOMAIN timelines, row |-> row])
  BY DEF StartTimeline, AppendEvent, AwaitTimeline
<1>2. PICK work : work = [match |-> g, fresh |-> g \notin DOMAIN timelines, row |-> row]
  OBVIOUS
<1>3. \A u \in Users : ~Owes("saveTimeline", work, u)
  <2>1. "result" \notin DOMAIN work
    BY <1>2
  <2> QED  BY <2>1 DEF Owes
<1>4. UNCHANGED processed /\ \A u \in Users : played'[u] <= played[u]
  BY DEF StartTimeline, AppendEvent, resultVars, TypeInv, UsersOK
<1> QED  BY <1>1, <1>2, <1>3, <1>4, CountStep

LEMMA SaveSeedCount ==
  ASSUME TypeInv, CountInv, TypeInv', NEW w \in Workers, SaveSeed(w)
  PROVE  CountInv'
<1>1. PICK u, step, work : u = my[w].user /\ step \notin Unrated /\ Await(w, step, work)
  <2>1. CASE "cards" \in scene.calls
    BY <2>1 DEF SaveSeed, Unrated
  <2>2. CASE "cards" \notin scene.calls
    BY <2>2 DEF SaveSeed, Unrated, Answer
  <2> QED  BY <2>1, <2>2
<1>2. played' = [played EXCEPT ![u] = 0] /\ played \in [Users -> Nat] /\ UNCHANGED processed
  BY <1>1 DEF SaveSeed, TypeInv, UsersOK
<1>3. \A v \in Users : played'[v] <= played[v]
  BY <1>2
<1>4. (\A v \in Users : ~Owes(step, work, v)) /\ step \notin {"askRealAi", "saveUsers"}
  BY <1>1 DEF Owes, Unrated
<1> QED  BY <1>1, <1>2, <1>3, <1>4, CountStep

LEMMA SaveMatchCount ==
  ASSUME TypeInv, CountInv, TypeInv', NEW w \in Workers, SaveMatch(w)
  PROVE  CountInv'
<1>1. PICK g, copy, result : g = my[w].match /\ copy = my[w].copy /\ result = Result(g, copy)
  OBVIOUS
<1>2. pc[w] = "saveMatch" /\ UNCHANGED played
  BY Served1 DEF SaveMatch
<1>3. CASE copy.status = "COMPLETED"
  <2>1. Process(w, result, "standard")
    BY <1>1, <1>3 DEF SaveMatch
  <2>2. result \in ResultRow
    <3>1. g \in DOMAIN games /\ copy \in Game
      BY <1>1, <1>2 DEF TypeInv, Equipped, Holds, HoldsResult, Sound
    <3>2. g \in Int /\ copy.A \in Users /\ copy.B \in Users
      BY <3>1 DEF TypeInv, GamesOK, Game
    <3>3. result = [match |-> g, winner |-> IF copy.score.A > copy.score.B THEN copy.A ELSE copy.B,
                    loser |-> IF copy.score.A > copy.score.B THEN copy.B ELSE copy.A, rated |-> TRUE]
      BY <1>1 DEF Result
    <3> QED  BY <3>2, <3>3 DEF ResultRow
  <2>3. pc[w] \notin Unrated
    BY <1>2 DEF Unrated
  <2> QED  BY <1>2, <2>1, <2>2, <2>3, CountProcess
<1>4. CASE copy.status # "COMPLETED"
  BY <1>1, <1>2, <1>4, AnswerGoesOn, GoesOnCount DEF SaveMatch
<1> QED  BY <1>3, <1>4

LEMMA ReportElsewhereCount ==
  ASSUME TypeInv, CountInv, TypeInv', NEW w \in Workers, NEW winner \in Users, NEW loser \in Users,
         ReportElsewhere(w, winner, loser)
  PROVE  CountInv'
<1>1. PICK result, domain : /\ result = [match |-> Elsewhere, winner |-> winner, loser |-> loser, rated |-> TRUE]
                            /\ domain = scene.domain
  OBVIOUS
<1>2. result \in ResultRow
  BY <1>1 DEF ResultRow, Elsewhere
<1>3. pc[w] \notin Unrated /\ Process(w, result, domain) /\ UNCHANGED played
  BY <1>1 DEF ReportElsewhere, Call, Arrive, Unrated
<1> QED  BY <1>2, <1>3, CountProcess

LEMMA ResultsCount ==
  ASSUME TypeInv, CountInv, TypeInv', Next
  PROVE  CountInv'
<1>1. PICK w \in Workers :
        \/ \E a, b \in Users : Create(w, a, b) \/ ReportElsewhere(w, a, b)
        \/ \E g \in DOMAIN games :
             \/ \E a, b \in Scores : ReportResult(w, g, a, b)
             \/ \E side \in Sides, balls \in SUBSET (1 .. games[g].rack) : PyramidPocket(w, g, side, balls)
        \/ \E g \in Matches : StartTimeline(w, g) \/ \E type \in EventTypes : AppendEvent(w, g, type)
        \/ \E u \in Users : SeedFromExternal(w, u)
        \/ Serve(w)
        \/ PartFails(w)
        \/ (Abort(w) /\ UNCHANGED resultVars)
  BY DEF Next
<1>2. CASE \E a, b \in Users : Create(w, a, b)
  BY <1>2, CountStill DEF Create
<1>3. CASE \E a, b \in Users : ReportElsewhere(w, a, b)
  BY <1>3, ReportElsewhereCount
<1>4. CASE \/ \E g \in DOMAIN games :
                \/ \E a, b \in Scores : ReportResult(w, g, a, b)
                \/ \E side \in Sides, balls \in SUBSET (1 .. games[g].rack) : PyramidPocket(w, g, side, balls)
           \/ \E u \in Users : SeedFromExternal(w, u)
           \/ (Abort(w) /\ UNCHANGED resultVars)
  BY <1>4, ElseGoesOn, GoesOnCount
<1>5. CASE \E g \in Matches : StartTimeline(w, g) \/ \E type \in EventTypes : AppendEvent(w, g, type)
  BY <1>5, TimelineCount
<1>6. CASE Serve(w)
  <2>1. CASE FindMemories(w) \/ CreateMemory(w) \/ Publish(w)
    BY <2>1, ElseGoesOn, GoesOnCount
  <2>2. CASE ReadTimeline(w) \/ SaveTimeline(w) \/ MirrorTimeline(w) \/ ReadUsers(w) \/ AskRealAi(w)
    BY <2>2, ReportCount
  <2> QED  BY <1>6, <2>1, <2>2, SaveMatchCount, SaveUsersCount, SaveSeedCount DEF Serve
<1>7. CASE PartFails(w)
  BY <1>7, ReportCount
<1> QED  BY <1>1, <1>2, <1>3, <1>4, <1>5, <1>6, <1>7

LEMMA SeasonGoesOn ==
  ASSUME TypeInv, NEW w \in Workers,
         \/ \E players \in SUBSET Users : StartSeason(w, players)
         \/ SaveSeason(w) \/ SaveSnapshot(w)
         \/ \E n \in DOMAIN fixtures, a, b \in Scores : ReportMatch(w, n, a, b)
         \/ Validate(w) \/ SaveFixture(w) \/ ReadStandings(w)
  PROVE  GoesOn(w) /\ UNCHANGED <<played, processed>>
<1> USE DEF resultVars
<1>1. CASE \E players \in SUBSET Users : StartSeason(w, players)
  BY <1>1 DEF StartSeason, GoesOn, Unrated
<1>2. CASE SaveSeason(w) \/ SaveFixture(w)
  <2>1. GoesOn(w)
    BY <1>2, GoesOnThen DEF SaveSeason, SaveFixture, Unrated, TypeInv
  <2> QED  BY <1>2, <2>1 DEF SaveSeason, SaveFixture
<1>3. CASE SaveSnapshot(w)
  BY <1>3, AnswerGoesOn DEF SaveSnapshot
<1>4. CASE \E n \in DOMAIN fixtures, a, b \in Scores : ReportMatch(w, n, a, b)
  BY <1>4 DEF ReportMatch, GoesOn, Unrated
<1>5. CASE Validate(w)
  <2>1. GoesOn(w)
    BY <1>5, GoesOnThen, AnswerGoesOn DEF Validate, Unrated, TypeInv
  <2> QED  BY <1>5, <2>1 DEF Validate
<1>6. CASE ReadStandings(w)
  <2>1. Answer(w) \/ \E work : Await(w, "saveStandings", work)
    BY <1>6 DEF ReadStandings
  <2>2. GoesOn(w)
    BY <2>1, AnswerGoesOn DEF GoesOn, Unrated
  <2> QED  BY <1>6, <2>2 DEF ReadStandings
<1> QED  BY <1>1, <1>2, <1>3, <1>4, <1>5, <1>6

\* The result of a match of the season.
LEMMA FixtureResult ==
  ASSUME TypeInv, NEW w \in Workers, SaveStandings(w)
  PROVE  \E result \in ResultRow : /\ result.winner # result.loser /\ Process(w, result, "league_v2")
                                   /\ result.match = Fixture(my[w].fixture)
                                   /\ result.winner = WinnerOf(my[w].copy)
<1>1. PICK n, fixture, result :
        /\ n = my[w].fixture /\ fixture = my[w].copy
        /\ result = [match |-> Fixture(n), winner |-> WinnerOf(fixture),
                     loser |-> CHOOSE u \in PlayersOf(fixture) : u # WinnerOf(fixture), rated |-> ~Draw(fixture)]
  OBVIOUS
<1>2. pc[w] = "saveStandings"
  BY Served1 DEF SaveStandings
<1>3. n \in DOMAIN fixtures /\ Paired(fixture)
  BY <1>1, <1>2 DEF TypeInv, Equipped, Holds, HoldsSeason
<1>4. /\ WinnerOf(fixture) \in PlayersOf(fixture) /\ PlayersOf(fixture) \subseteq Users
      /\ \E u \in PlayersOf(fixture) : u # WinnerOf(fixture)
  BY <1>3 DEF Paired, FixtureRow, WinnerOf, PlayersOf
<1>5. n \in Int
  BY <1>3 DEF TypeInv, SeasonOK
<1>6. result \in ResultRow /\ result.winner # result.loser /\ result.match = Fixture(n)
  <2>1. PICK loser : loser = CHOOSE u \in PlayersOf(fixture) : u # WinnerOf(fixture)
    OBVIOUS
  <2>2. loser \in PlayersOf(fixture) /\ loser # WinnerOf(fixture)
    BY <1>4, <2>1
  <2>3. Fixture(n) \in Int /\ (~Draw(fixture)) \in BOOLEAN
    BY <1>5 DEF Fixture, Draw
  <2> QED  BY <1>1, <1>4, <2>1, <2>2, <2>3 DEF ResultRow
<1>7. Process(w, result, "league_v2")
  BY <1>1 DEF SaveStandings
<1> QED  BY <1>1, <1>6, <1>7

LEMMA SeasonsCount ==
  ASSUME TypeInv, CountInv, TypeInv', SeasonNext
  PROVE  CountInv'
<1>1. CASE Elsewise
  BY <1>1, ResultsCount DEF Elsewise
<1>2. CASE \E w \in Workers : CreateSeason(w) \/ \E a, b \in Users : ScheduleMatch(w, a, b)
  BY <1>2, CountStill DEF CreateSeason, ScheduleMatch, resultVars
<1>3. ASSUME NEW w \in Workers, SaveStandings(w) PROVE CountInv'
  <2>1. pc[w] \notin Unrated /\ UNCHANGED played
    BY <1>3, Served1 DEF SaveStandings, Unrated
  <2> QED  BY <1>3, <2>1, FixtureResult, CountProcess
<1>4. CASE \E w \in Workers :
         \/ \E players \in SUBSET Users : StartSeason(w, players)
         \/ SaveSeason(w) \/ SaveSnapshot(w)
         \/ \E n \in DOMAIN fixtures, a, b \in Scores : ReportMatch(w, n, a, b)
         \/ Validate(w) \/ SaveFixture(w) \/ ReadStandings(w)
  BY <1>4, SeasonGoesOn, GoesOnCount
<1> QED  BY <1>1, <1>2, <1>3, <1>4 DEF SeasonNext

CardStep(w) ==
  \/ \E u \in Users :
       \/ \E ask \in {"card", "recompute"} : AskCard(w, u, ask)
       \/ \E hints \in Hints(u), ask \in {"import", "resolve"} : AskWith(w, hints, ask)
  \/ \E n \in DOMAIN identities : AskById(w, n)
  \/ ReadUser(w) \/ Resolve(w) \/ SaveIdentity(w) \/ ReadIdentity(w) \/ SaveImport(w)
  \/ ReadLinked(w) \/ Shade(w)

LEMMA CardGoesOn ==
  ASSUME TypeInv, NEW w \in Workers, CardStep(w)
  PROVE  GoesOn(w) /\ UNCHANGED <<resultVars, seasonVars>>
<1>1. CASE \E u \in Users :
             \/ \E ask \in {"card", "recompute"} : AskCard(w, u, ask)
             \/ \E hints \in Hints(u), ask \in {"import", "resolve"} : AskWith(w, hints, ask)
  BY <1>1 DEF AskCard, AskWith, Ask, GoesOn, Unrated
<1>2. CASE \E n \in DOMAIN identities : AskById(w, n)
  BY <1>2 DEF AskById, GoesOn, Unrated
<1>3. CASE ReadUser(w)
  BY <1>3 DEF ReadUser, GoesOn, Unrated
<1>4. CASE Resolve(w)
  <2>1. (\E work : Await(w, "saveIdentity", work)) /\ UNCHANGED <<resultVars, seasonVars>>
    BY <1>4 DEF Resolve
  <2> QED  BY <2>1 DEF GoesOn, Unrated
<1>5. CASE SaveIdentity(w)
  <2>1. /\ \/ Answer(w)
           \/ \E step \in {"saveImport", "readUser", "readIdentity", "shade"} : \E work : Await(w, step, work)
        /\ UNCHANGED <<resultVars, seasonVars>>
    BY <1>5 DEF SaveIdentity
  <2> QED  BY <2>1, AnswerGoesOn DEF GoesOn, Unrated
<1>6. CASE ReadIdentity(w)
  BY <1>6 DEF ReadIdentity, GoesOn, Unrated
<1>7. CASE SaveImport(w)
  <2>1. Answer(w) \/ Then(w, "readLinked")
    BY <1>7 DEF SaveImport
  <2>2. GoesOn(w)
    BY <2>1, AnswerGoesOn, GoesOnThen DEF Unrated, TypeInv
  <2> QED  BY <1>7, <2>2 DEF SaveImport
<1>8. CASE ReadLinked(w)
  <2>1. (Answer(w) \/ \E work : Await(w, "shade", work)) /\ UNCHANGED <<resultVars, seasonVars>>
    BY <1>8 DEF ReadLinked
  <2> QED  BY <2>1, AnswerGoesOn DEF GoesOn, Unrated
<1>9. CASE Shade(w)
  <2>1. (Answer(w) \/ \E work : Await(w, "resolve", work)) /\ UNCHANGED <<resultVars, seasonVars>>
    BY <1>9 DEF Shade
  <2> QED  BY <2>1, AnswerGoesOn DEF GoesOn, Unrated
<1> QED  BY <1>1, <1>2, <1>3, <1>4, <1>5, <1>6, <1>7, <1>8, <1>9 DEF CardStep

LEMMA CardNextSplit == CardNext => (SeasonNext /\ UNCHANGED identities) \/ \E w \in Workers : CardStep(w)
BY DEF CardNext, CardStep

LEMMA CountNext == ASSUME TypeInv, CountInv, TypeInv', [CardNext]_cardVars PROVE CountInv'
<1>1. CASE SeasonNext /\ UNCHANGED identities
  BY <1>1, SeasonsCount
<1>2. CASE \E w \in Workers : CardStep(w)
  BY <1>2, CardGoesOn, GoesOnCount DEF resultVars
<1>3. CASE UNCHANGED cardVars
  BY <1>3, CountStill DEF cardVars, allVars, vars, requestVars, resultVars
<1> QED  BY <1>1, <1>2, <1>3, CardNextSplit

\* Whatever fails or overlaps, nobody is rated for more results than were processed,
\* no timeline is closed without one, and a remembered win was won
\* (scorekeeping-v2.service.ts:60, processReport): a copy that is saved late is
\* behind by what is still pending.
THEOREM EffectsFollowResults == CardSpec => []EffectsNeedAResult
<1>1. CardInit => TypeInv /\ CountInv
  BY TypeInit, CountInit
<1>2. TypeInv /\ CountInv /\ [CardNext]_cardVars => (TypeInv /\ CountInv)'
  BY TypeStep, CountNext
<1>3. TypeInv /\ CountInv => EffectsNeedAResult
  <2> SUFFICES ASSUME TypeInv, CountInv PROVE EffectsNeedAResult
    OBVIOUS
  <2>1. ASSUME NEW u \in Users PROVE played[u] <= Cardinality(Of(u))
    <3>1. played[u] \in Nat /\ Cardinality(Pending(u)) \in Nat /\ Cardinality(Of(u)) \in Nat
      BY PendingFinite, OfFinite DEF TypeInv, UsersOK, CountInv
    <3>2. played[u] + Cardinality(Pending(u)) <= Cardinality(Of(u))
      BY DEF CountInv
    <3> QED  BY <3>1, <3>2
  <2>2. \A g \in DOMAIN timelines : timelines[g].finalized => HasResult(g)
    BY DEF TypeInv, TimelinesOK, ClosedForAResult
  <2> QED  BY <2>1, <2>2 DEF EffectsNeedAResult, HasResult, TypeInv, MemoriesOK
<1> QED  BY <1>1, <1>2, <1>3, PTL DEF CardSpec

-----------------------------------------------------------------------------
(* Whose a card is, and of which rating *)

\* No two people share a name, and no name stands for no name.
NoNamesakes ==
  /\ \A u, v \in Users : {DisplayName[u], LeagueName[u]} \cap {DisplayName[v], LeagueName[v]} # {} => u = v
  /\ \A u \in Users : {DisplayName[u], LeagueName[u]} \cap {NoName, UnknownPlayer} = {}

OfPerson(row, p) ==
  /\ {row.user, row.league, row.shadow.user} \subseteq {p, Nobody}
  /\ row.name \in {DisplayName[p], LeagueName[p], UnknownPlayer}
AboutPerson(hints, p) ==
  /\ {hints.user, hints.league} \subseteq {p, Nobody}
  /\ hints.name \in {DisplayName[p], LeagueName[p], NoName}

\* What a request holds tells of one person, and a user whose rating it holds is
\* that of the row.
RowSteps == {"saveIdentity", "saveImport", "readLinked", "shade"}
OneEach(step, work) ==
  /\ step = "resolve" =>
       /\ \E p \in Users : AboutPerson(work.hints, p)
       /\ work.of # Nobody => work.hints.user = work.of
  /\ step \in RowSteps => \E p \in Users : OfPerson(work.row, p)
  /\ step \in {"saveIdentity", "shade"} /\ work.of # Nobody => work.row.user = work.of

\* A shadow is of the rating there was when it was computed, and what a request
\* holds is what there is.
Exact(row) == \A u \in Users : row.shadow.user = u => row.shadow.version = row.shadow.at[u]
UpToDate(step, work) ==
  /\ step \in {"resolve", "saveIdentity", "shade"} => \A u \in Users : work.of = u => work.version = updates[u]
  /\ step \in RowSteps => Exact(work.row)
  /\ step \in {"saveImport", "readLinked", "shade"} => identities[work.n] = work.row

PeopleApart == \A n \in DOMAIN identities : \E p \in Users : OfPerson(identities[n], p)
OneRowEach ==
  \A m, n \in DOMAIN identities : identities[m].user # Nobody /\ identities[m].user = identities[n].user => m = n
CardsInv ==
  /\ InTurn
  /\ PeopleApart /\ OneRowEach /\ \A w \in Workers : OneEach(pc[w], my[w])
  /\ Orderly => /\ \A n \in DOMAIN identities : Exact(identities[n])
                /\ \A w \in Workers : UpToDate(pc[w], my[w])

LEMMA CardsInit == CardInit => CardsInv
<1> SUFFICES ASSUME CardInit PROVE CardsInv
  OBVIOUS
<1>1. InTurn /\ \A w \in Workers : pc[w] = "idle"
  BY NothingServed DEF CardInit, SeasonInit, Init
<1>2. DOMAIN identities = {}
  BY DEF CardInit
<1>3. \A w \in Workers : OneEach(pc[w], my[w]) /\ UpToDate(pc[w], my[w])
  BY <1>1 DEF OneEach, UpToDate, RowSteps
<1> QED  BY <1>1, <1>2, <1>3 DEF CardsInv, PeopleApart, OneRowEach

\* Request w goes on, as one that arrives or one that is served.
Turned(w, step, work) ==
  /\ Await(w, step, work)
  /\ Arrive(w) \/ (pc[w] # "idle" /\ UNCHANGED overlapped)
  /\ irregular => irregular'

LEMMA TurnedCall ==
  ASSUME NEW w \in Workers, NEW call, NEW step, NEW work, Call(w, call), Await(w, step, work)
  PROVE  Turned(w, step, work) /\ pc[w] = "idle"
BY DEF Call, Regular, Turned, Arrive

LEMMA TurnedAt ==
  ASSUME NEW w \in Workers, NEW step0, step0 # "idle", NEW step, NEW work, At(w, step0), Await(w, step, work)
  PROVE  Turned(w, step, work) /\ pc[w] = step0
BY DEF At, Turned

\* It is enough to look at the request's own step and at the rows.
LEMMA CardsStep ==
  ASSUME TypeInv, CardsInv, NEW w \in Workers, NEW step, NEW work, Turned(w, step, work),
         OneEach(step, work), PeopleApart', OneRowEach',
         Orderly => /\ \A n \in DOMAIN identities' : Exact(identities'[n])
                    /\ UpToDate(step, work)'
  PROVE  CardsInv' /\ (Orderly' => Orderly)
<1>1. Moved(w, step, work) /\ Alone(w)
  BY Awaiting DEF TypeInv, Turned, Moved
<1>2. InTurn' /\ (~overlapped' => ~overlapped /\ \A v \in Workers \ {w} : pc[v] = "idle")
  <2>1. CASE Arrive(w)
    BY <1>1, <2>1, ArrivesInTurn DEF TypeInv, CardsInv, Quiet
  <2>2. CASE pc[w] # "idle" /\ UNCHANGED overlapped
    BY <1>1, <2>2, ServedInTurn DEF TypeInv, CardsInv
  <2> QED  BY <2>1, <2>2 DEF Turned
<1>3. (\A v \in Workers : OneEach(pc[v], my[v]))'
  BY <1>1 DEF CardsInv, Moved, Alone
<1>4. Orderly' => Orderly
  BY <1>2 DEF Orderly, Turned
<1>5. ASSUME Orderly', NEW v \in Workers PROVE UpToDate(pc[v], my[v])'
  <2>1. CASE v = w
    BY <1>1, <1>4, <1>5, <2>1 DEF Moved, UpToDate
  <2>2. CASE v # w
    <3>1. pc'[v] = "idle"
      BY <1>1, <1>2, <1>5, <2>2 DEF Orderly, Alone
    <3> QED  BY <3>1 DEF UpToDate, RowSteps
  <2> QED  BY <2>1, <2>2
<1> QED  BY <1>2, <1>3, <1>4, <1>5 DEF CardsInv

\* A request that reads.
LEMMA CardsRead ==
  ASSUME TypeInv, CardsInv, NEW w \in Workers, NEW step, NEW work, Turned(w, step, work),
         UNCHANGED <<updates, identities>>, OneEach(step, work), Orderly => UpToDate(step, work)
  PROVE  CardsInv'
<1>1. PeopleApart' /\ OneRowEach'
  BY DEF CardsInv, PeopleApart, OneRowEach
<1>2. Orderly => \A n \in DOMAIN identities' : Exact(identities'[n])
  BY DEF CardsInv
<1>3. Orderly => UpToDate(step, work)'
  BY DEF UpToDate
<1> QED  BY <1>1, <1>2, <1>3, CardsStep

\* A request that goes where no card is held.
CardSteps == RowSteps \cup {"resolve"}
LEMMA CardsElse ==
  ASSUME TypeInv, CardsInv, NEW w \in Workers, NEW step, NEW work, Turned(w, step, work),
         UNCHANGED identities, step \notin CardSteps
  PROVE  CardsInv'
<1>1. OneEach(step, work) /\ UpToDate(step, work)'
  BY DEF OneEach, UpToDate, CardSteps, RowSteps
<1>2. PeopleApart' /\ OneRowEach'
  BY DEF CardsInv, PeopleApart, OneRowEach
<1>3. Orderly => \A n \in DOMAIN identities' : Exact(identities'[n])
  BY DEF CardsInv
<1> QED  BY <1>1, <1>2, <1>3, CardsStep

\* Request w goes where no card is held, and does not come from a shadow in turn.
Away(w) ==
  \E step, work : step \notin CardSteps /\ Turned(w, step, work) /\ (pc[w] = "shade" => ~Orderly')

LEMMA AwayCalled ==
  ASSUME NEW w \in Workers, NEW call, Call(w, call), NEW step, NEW work, Await(w, step, work), step \notin CardSteps
  PROVE  Away(w)
<1>1. Turned(w, step, work) /\ pc[w] # "shade"
  BY TurnedCall
<1> QED  BY <1>1 DEF Away

LEMMA AwayServed ==
  ASSUME NEW w \in Workers, NEW step0, step0 \notin {"idle", "shade"}, At(w, step0),
         NEW step, NEW work, Await(w, step, work), step \notin CardSteps
  PROVE  Away(w)
<1>1. Turned(w, step, work) /\ pc[w] # "shade"
  BY TurnedAt
<1> QED  BY <1>1 DEF Away

LEMMA AwayThen ==
  ASSUME TypeInv, NEW w \in Workers, NEW step0, step0 \notin {"idle", "shade"}, At(w, step0),
         NEW step, Then(w, step), step \notin CardSteps
  PROVE  Away(w)
<1>1. Await(w, step, my[w])
  BY ThenAwait DEF TypeInv
<1> QED  BY <1>1, AwayServed

LEMMA AwayAnswer ==
  ASSUME NEW w \in Workers, NEW step0, step0 \notin {"idle", "shade"}, At(w, step0), Answer(w)
  PROVE  Away(w)
<1>1. Await(w, "idle", NoWork) /\ "idle" \notin CardSteps
  BY DEF Answer, CardSteps, RowSteps
<1> QED  BY <1>1, AwayServed

LEMMA AwayIrregular ==
  ASSUME NEW w \in Workers, pc[w] # "idle", Irregular, UNCHANGED overlapped,
         NEW step, NEW work, Await(w, step, work), step \notin CardSteps
  PROVE  Away(w)
BY DEF Away, Turned, Irregular, Orderly

LEMMA ResultsAway ==
  ASSUME TypeInv, NEW w \in Workers,
         \/ \E a, b \in Users : ReportElsewhere(w, a, b)
         \/ \E g \in DOMAIN games :
              \/ \E a, b \in Scores : ReportResult(w, g, a, b)
              \/ \E side \in Sides, balls \in SUBSET (1 .. games[g].rack) : PyramidPocket(w, g, side, balls)
         \/ \E g \in Matches : StartTimeline(w, g) \/ \E type \in EventTypes : AppendEvent(w, g, type)
         \/ \E u \in Users : SeedFromExternal(w, u)
  PROVE  Away(w)
<1> USE DEF CardSteps, RowSteps
<1>1. CASE \E a, b \in Users : ReportElsewhere(w, a, b)
  BY <1>1, AwayCalled DEF ReportElsewhere, Process
<1>2. CASE \E g \in DOMAIN games :
              \/ \E a, b \in Scores : ReportResult(w, g, a, b)
              \/ \E side \in Sides, balls \in SUBSET (1 .. games[g].rack) : PyramidPocket(w, g, side, balls)
  <2>1. \E call, work : Call(w, call) /\ Await(w, "saveMatch", work)
    BY <1>2 DEF ReportResult, PyramidPocket
  <2> QED  BY <2>1, AwayCalled
<1>3. CASE \E g \in Matches : StartTimeline(w, g) \/ \E type \in EventTypes : AppendEvent(w, g, type)
  <2>1. \E call, work : Call(w, call) /\ Await(w, "saveTimeline", work)
    BY <1>3 DEF StartTimeline, AppendEvent, AwaitTimeline
  <2> QED  BY <2>1, AwayCalled
<1>4. CASE \E u \in Users : SeedFromExternal(w, u)
  BY <1>4, AwayCalled DEF SeedFromExternal
<1> QED  BY <1>1, <1>2, <1>3, <1>4

LEMMA ServeAway ==
  ASSUME TypeInv, NEW w \in Workers, Serve(w)
  PROVE  Away(w)
<1> USE DEF CardSteps, RowSteps
<1>1. CASE SaveMatch(w)
  BY <1>1, AwayServed, AwayAnswer DEF SaveMatch, Process
<1>2. CASE ReadTimeline(w)
  BY <1>2, AwayServed DEF ReadTimeline
<1>3. CASE SaveTimeline(w)
  BY <1>3, AwayServed, AwayAnswer, AwayThen DEF SaveTimeline
<1>4. CASE MirrorTimeline(w)
  BY <1>4, AwayServed, AwayAnswer DEF MirrorTimeline
<1>5. CASE ReadUsers(w)
  BY <1>5, AwayServed, AwayThen DEF ReadUsers
<1>6. CASE AskRealAi(w)
  <2>1. CASE At(w, "askRealAi") /\ Then(w, "saveUsers")
    BY <2>1, AwayThen
  <2>2. CASE /\ Irregular /\ UNCHANGED overlapped
             /\ Then(w, "saveUsers") \/ Await(w, "findMemories", Report(w))
    <3>1. Await(w, "saveUsers", my[w]) \/ Await(w, "findMemories", Report(w))
      BY <2>2, ThenAwait DEF TypeInv
    <3>2. pc[w] # "idle"
      BY <1>6 DEF AskRealAi
    <3> QED  BY <2>2, <3>1, <3>2, AwayIrregular
  <2> QED  BY <1>6, <2>1, <2>2 DEF AskRealAi
<1>7. CASE SaveUsers(w)
  BY <1>7, AwayServed DEF SaveUsers
<1>8. CASE SaveSeed(w)
  BY <1>8, AwayServed, AwayAnswer DEF SaveSeed
<1>9. CASE FindMemories(w)
  BY <1>9, AwayServed DEF FindMemories
<1>10. CASE CreateMemory(w)
  <2>1. CASE Await(w, "publish", Report(w))
    BY <1>10, <2>1, AwayServed DEF CreateMemory
  <2>2. CASE \E work : Hold(w, work) /\ UNCHANGED pc
    <3>1. PICK work : Hold(w, work) /\ UNCHANGED pc
      BY <2>2
    <3>2. At(w, "createMemories")
      BY <1>10 DEF CreateMemory
    <3>3. Await(w, "createMemories", work)
      BY <3>1, <3>2 DEF At, Await, Goto, TypeInv, Served
    <3> QED  BY <3>2, <3>3, AwayServed
  <2> QED  BY <1>10, <2>1, <2>2 DEF CreateMemory
<1>11. CASE Publish(w)
  BY <1>11, AwayAnswer DEF Publish
<1> QED  BY <1>1, <1>2, <1>3, <1>4, <1>5, <1>6, <1>7, <1>8, <1>9, <1>10, <1>11 DEF Serve

LEMMA FailureAway ==
  ASSUME NEW w \in Workers, PartFails(w) \/ Abort(w)
  PROVE  Away(w)
<1> USE DEF CardSteps, RowSteps
<1>1. pc[w] # "idle" /\ Irregular /\ UNCHANGED overlapped
  BY DEF PartFails, Abort
<1>2. Answer(w) \/ \E step \in {"readUsers", "findMemories", "publish"} : Await(w, step, Report(w))
  BY DEF PartFails, Abort
<1> QED  BY <1>1, <1>2, AwayIrregular DEF Answer

LEMMA SeasonAway ==
  ASSUME TypeInv, NEW w \in Workers,
         \/ \E players \in SUBSET Users : StartSeason(w, players)
         \/ SaveSeason(w) \/ SaveSnapshot(w)
         \/ \E n \in DOMAIN fixtures, a, b \in Scores : ReportMatch(w, n, a, b)
         \/ Validate(w) \/ SaveFixture(w) \/ ReadStandings(w) \/ SaveStandings(w)
  PROVE  Away(w)
<1> USE DEF CardSteps, RowSteps
<1>1. CASE \E players \in SUBSET Users : StartSeason(w, players)
  BY <1>1, AwayCalled DEF StartSeason
<1>2. CASE SaveSeason(w)
  BY <1>2, AwayThen DEF SaveSeason
<1>3. CASE SaveSnapshot(w)
  BY <1>3, AwayAnswer DEF SaveSnapshot
<1>4. CASE \E n \in DOMAIN fixtures, a, b \in Scores : ReportMatch(w, n, a, b)
  <2>1. \E work : Call(w, "season") /\ Await(w, "validate", work)
    BY <1>4 DEF ReportMatch
  <2> QED  BY <2>1, AwayCalled
<1>5. CASE Validate(w)
  BY <1>5, AwayThen, AwayAnswer DEF Validate
<1>6. CASE SaveFixture(w)
  BY <1>6, AwayThen DEF SaveFixture
<1>7. CASE ReadStandings(w)
  BY <1>7, AwayServed, AwayAnswer DEF ReadStandings
<1>8. CASE SaveStandings(w)
  BY <1>8, AwayServed DEF SaveStandings, Process
<1> QED  BY <1>1, <1>2, <1>3, <1>4, <1>5, <1>6, <1>7, <1>8

\* What does not concern the cards.
LEMMA AwayNext ==
  ASSUME TypeInv, SeasonNext
  PROVE  \/ /\ UNCHANGED <<pc, my, updates>>
            /\ overlapped => overlapped'
            /\ irregular => irregular'
         \/ \E w \in Workers : Away(w)
<1>1. CASE Elsewise
  <2>1. PICK w \in Workers :
          \/ \E a, b \in Users : Create(w, a, b) \/ ReportElsewhere(w, a, b)
          \/ \E g \in DOMAIN games :
               \/ \E a, b \in Scores : ReportResult(w, g, a, b)
               \/ \E side \in Sides, balls \in SUBSET (1 .. games[g].rack) : PyramidPocket(w, g, side, balls)
          \/ \E g \in Matches : StartTimeline(w, g) \/ \E type \in EventTypes : AppendEvent(w, g, type)
          \/ \E u \in Users : SeedFromExternal(w, u)
          \/ Serve(w)
          \/ PartFails(w)
          \/ (Abort(w) /\ UNCHANGED resultVars)
    BY <1>1 DEF Elsewise, Next
  <2>2. CASE \E a, b \in Users : Create(w, a, b)
    <3>1. Call(w, "create") /\ UNCHANGED <<pc, my, updates>>
      BY <2>2 DEF Create
    <3> QED  BY <3>1, Called DEF Call, Arrive, Regular
  <2> QED  BY <2>1, <2>2, ResultsAway, ServeAway, FailureAway
<1>2. CASE \E w \in Workers : CreateSeason(w) \/ \E a, b \in Users : ScheduleMatch(w, a, b)
  BY <1>2, Called DEF CreateSeason, ScheduleMatch, Call, Arrive, Regular, resultVars
<1>3. CASE \E w \in Workers :
         \/ \E players \in SUBSET Users : StartSeason(w, players)
         \/ SaveSeason(w) \/ SaveSnapshot(w)
         \/ \E n \in DOMAIN fixtures, a, b \in Scores : ReportMatch(w, n, a, b)
         \/ Validate(w) \/ SaveFixture(w) \/ ReadStandings(w) \/ SaveStandings(w)
  BY <1>3, SeasonAway
<1> QED  BY <1>1, <1>2, <1>3 DEF SeasonNext

\* Whatever is looked up for hints of one person is a row of that person, or will be.
LEMMA FoundPerson ==
  ASSUME NoNamesakes, PeopleApart, NEW q \in Users, NEW hints, AboutPerson(hints, q), NEW found \in Found(hints)
  PROVE  OfPerson(found.row, q)
<1> DEFINE Good(f) == OfPerson(f.row, q)
<1>1. \A f \in Saved : \E p \in Users : OfPerson(f.row, p)
  BY DEF Saved, PeopleApart
<1>2. \A f \in Saved : f.row.user = q \/ f.row.league = q => Good(f)
  BY <1>1, PlayersAssumption DEF OfPerson
<1>3. \A name \in {DisplayName[q], LeagueName[q]} : \A f \in RowsNamed(name) : Good(f)
  <2> SUFFICES ASSUME NEW name \in {DisplayName[q], LeagueName[q]}, NEW f \in RowsNamed(name) PROVE Good(f)
    OBVIOUS
  <2>1. f \in Saved /\ f.row.name = name
    BY DEF RowsNamed, Alike
  <2>2. PICK p \in Users : OfPerson(f.row, p)
    BY <1>1, <2>1
  <2>3. p = q
    BY <2>1, <2>2 DEF NoNamesakes, OfPerson
  <2> QED  BY <2>2, <2>3
<1>4. \A user, league \in {q, Nobody} : \A name \in {DisplayName[q], LeagueName[q], UnknownPlayer} :
        OfPerson(Row(user, league, name), q)
  BY DEF Row, NoShadow, OfPerson
<1>5. \A name \in {DisplayName[q], LeagueName[q]} : \A f \in UsersNamed(name) : Good(f)
  <2> SUFFICES ASSUME NEW name \in {DisplayName[q], LeagueName[q]}, NEW f \in UsersNamed(name) PROVE Good(f)
    OBVIOUS
  <2>1. PICK u \in Users : DisplayName[u] = name /\ f \in RowOfUser(u)
    BY DEF UsersNamed, Alike
  <2>2. u = q
    BY <2>1 DEF NoNamesakes
  <2>3. f.row = Row(q, Nobody, DisplayName[q]) \/ (f \in Saved /\ f.row.user = q)
    BY <2>1, <2>2 DEF RowOfUser, Unsaved
  <2> QED  BY <1>2, <1>4, <2>3
<1>6. \A name \in {DisplayName[q], LeagueName[q]} : \A f \in Top(name) : Good(f)
  BY <1>3, <1>5 DEF Top
<1>7. Good(Unsaved(Created(hints)))
  <2>1. OfPerson(Created(hints), q)
    BY <1>4 DEF Created, AboutPerson
  <2> QED  BY <2>1 DEF Unsaved
<1>8. hints.user # Nobody => hints.user = q
  BY DEF AboutPerson
<1>9. hints.league # Nobody => hints.league = q
  BY DEF AboutPerson
<1>10. hints.name # NoName => hints.name \in {DisplayName[q], LeagueName[q]}
  BY DEF AboutPerson
<1> HIDE DEF Good
<1>11. Good(found)
  BY <1>2, <1>6, <1>7, <1>8, <1>9, <1>10 DEF Found
<1> QED  BY <1>11 DEF Good

LEMMA FoundExact ==
  ASSUME \A n \in DOMAIN identities : Exact(identities[n]), NEW hints, NEW found \in Found(hints)
  PROVE  Exact(found.row)
<1> DEFINE Good(f) == Exact(f.row)
<1>1. \A f \in Saved : Good(f)
  BY DEF Saved
<1>2. \A user, league, name : Good(Unsaved(Row(user, league, name)))
  BY PlayersAssumption DEF Row, NoShadow, Exact, Unsaved
<1>3. \A name : \A f \in Top(name) : Good(f)
  <2>1. \A name : \A f \in RowsNamed(name) : Good(f)
    BY <1>1 DEF RowsNamed
  <2>2. \A u : \A f \in RowOfUser(u) : Good(f)
    BY <1>1, <1>2 DEF RowOfUser
  <2> QED  BY <2>1, <2>2 DEF Top, UsersNamed
<1>4. Good(Unsaved(Created(hints)))
  BY <1>2 DEF Created
<1> HIDE DEF Good
<1>5. Good(found)
  BY <1>1, <1>3, <1>4 DEF Found
<1> QED  BY <1>5 DEF Good

\* The hints of a person do not make a row another's.
LEMMA MergedPerson ==
  ASSUME NEW q \in Users, NEW row \in CardRow, OfPerson(row, q), NEW hints, AboutPerson(hints, q)
  PROVE  /\ OfPerson(Merged(row, hints), q)
         /\ hints.user # Nobody => Merged(row, hints).user = hints.user
         /\ Exact(row) => Exact(Merged(row, hints))
<1>1. PICK merged : merged = Merged(row, hints)
  OBVIOUS
<1>2. merged = [row EXCEPT !.league = IF hints.league # Nobody THEN hints.league ELSE @,
                           !.name = IF hints.name # NoName THEN hints.name ELSE @,
                           !.user = IF @ = Nobody THEN hints.user ELSE @]
  BY <1>1 DEF Merged
<1>3. /\ merged.shadow = row.shadow
      /\ merged.league \in {row.league, hints.league} /\ merged.user = IF row.user = Nobody THEN hints.user ELSE row.user
      /\ merged.name = IF hints.name # NoName THEN hints.name ELSE row.name
  BY <1>2 DEF CardRow
<1>4. OfPerson(merged, q)
  BY <1>3 DEF OfPerson, AboutPerson
<1>5. hints.user # Nobody => merged.user = hints.user
  BY <1>3 DEF OfPerson, AboutPerson
<1>6. Exact(row) => Exact(merged)
  BY <1>3 DEF Exact
<1> QED  BY <1>1, <1>4, <1>5, <1>6

LEMMA ResolveCards ==
  ASSUME NoNamesakes, TypeInv, CardsInv, NEW w \in Workers, Resolve(w)
  PROVE  CardsInv'
<1> USE DEF Resolve
<1>1. PICK work, hints : work = my[w] /\ hints = my[w].hints
  OBVIOUS
<1>2. pc[w] = "resolve"
  BY Served1
<1>3. HintsOK(hints) /\ Past(work.of, work.version)
  BY <1>1, <1>2 DEF TypeInv, Equipped, Holds, HoldsCard
<1>4. PICK found \in Found(hints) :
        Await(w, "saveIdentity", [ask |-> work.ask, of |-> work.of, version |-> work.version,
                                  n |-> found.n, row |-> Merged(found.row, hints)])
  BY <1>1
<1>5. PICK row, next : /\ row = Merged(found.row, hints)
                       /\ next = [ask |-> work.ask, of |-> work.of, version |-> work.version, n |-> found.n, row |-> row]
  OBVIOUS
<1>6. OneEach("resolve", work) /\ PeopleApart
  BY <1>1, <1>2 DEF CardsInv
<1>7. PICK q \in Users : AboutPerson(hints, q)
  BY <1>1, <1>6 DEF OneEach
<1>8. found.row \in CardRow /\ OfPerson(found.row, q)
  BY <1>3, <1>6, <1>7, FoundRow, FoundPerson DEF RowSound
<1>9. /\ OfPerson(row, q) /\ (hints.user # Nobody => row.user = hints.user)
      /\ Exact(found.row) => Exact(row)
  BY <1>5, <1>7, <1>8, MergedPerson
<1>10. OneEach("saveIdentity", next)
  <2>1. next.row = row /\ next.of = work.of
    BY <1>5
  <2>2. next.of # Nobody => row.user = next.of
    BY <1>1, <1>6, <1>9, <2>1 DEF OneEach
  <2> QED  BY <1>9, <2>1, <2>2 DEF OneEach
<1>11. ASSUME Orderly PROVE UpToDate("saveIdentity", next)
  <2>1. UpToDate("resolve", work) /\ \A n \in DOMAIN identities : Exact(identities[n])
    BY <1>1, <1>2, <1>11 DEF CardsInv
  <2>2. Exact(row)
    BY <1>9, <2>1, FoundExact
  <2>3. next.row = row /\ next.of = work.of /\ next.version = work.version
    BY <1>5
  <2> QED  BY <2>1, <2>2, <2>3 DEF UpToDate
<1>12. Turned(w, "saveIdentity", next)
  BY <1>4, <1>5, TurnedAt
<1> QED  BY <1>10, <1>11, <1>12, CardsRead DEF resultVars

\* A row that is not refused keeps the rows apart.
LEMMA SavedApart ==
  ASSUME TypeInv, CardsInv, NEW w \in Workers, NEW n \in {0} \cup DOMAIN identities, n = my[w].n,
         NEW row, RowSound(row), \E p \in Users : OfPerson(row, p), ~Refused(n, row), Save(w, row)
  PROVE  /\ PeopleApart' /\ OneRowEach'
         /\ Orderly /\ Exact(row) => \A m \in DOMAIN identities' : Exact(identities'[m])
         /\ SavedAs(w) \in DOMAIN identities' /\ identities'[SavedAs(w)] = row
<1>1. PICK k, rows : k = SavedAs(w) /\ rows = identities'
  OBVIOUS
<1>2. /\ k \in DOMAIN rows /\ rows[k] = row
      /\ \A m \in DOMAIN rows \ {k} : m \in DOMAIN identities /\ rows[m] = identities[m]
  BY <1>1, SavedCard
<1>3. \A m \in DOMAIN rows : \E p \in Users : OfPerson(rows[m], p)
  BY <1>2 DEF CardsInv, PeopleApart
<1>4. \A m \in DOMAIN rows \ {k} : row.user # Nobody => rows[m].user # row.user
  <2>1. n # 0 => k = n
    BY <1>1 DEF SavedAs
  <2>2. n = 0 => n \notin DOMAIN identities
    BY DEF TypeInv, CardsOK
  <2> QED  BY <1>2, <2>1, <2>2 DEF Refused
<1>5. \A m, j \in DOMAIN rows : rows[m].user # Nobody /\ rows[m].user = rows[j].user => m = j
  BY <1>2, <1>4 DEF CardsInv, OneRowEach
<1>6. Orderly /\ Exact(row) => \A m \in DOMAIN rows : Exact(rows[m])
  BY <1>2 DEF CardsInv
<1> QED  BY <1>1, <1>2, <1>3, <1>5, <1>6 DEF PeopleApart, OneRowEach

LEMMA SaveIdentityCards ==
  ASSUME TypeInv, CardsInv, NEW w \in Workers, SaveIdentity(w)
  PROVE  CardsInv'
<1> USE DEF SaveIdentity
<1>1. PICK work, n, row : work = my[w] /\ n = my[w].n /\ row = my[w].row
  OBVIOUS
<1>2. pc[w] = "saveIdentity" /\ At(w, "saveIdentity") /\ UNCHANGED updates
  BY Served1 DEF resultVars
<1>3. /\ work = [ask |-> work.ask, of |-> work.of, version |-> work.version, n |-> n, row |-> row]
      /\ n \in {0} \cup DOMAIN identities /\ RowSound(row)
  BY <1>1, <1>2 DEF TypeInv, Equipped, Holds, HoldsCard
<1>4. OneEach("saveIdentity", work) /\ (Orderly => UpToDate("saveIdentity", work))
  BY <1>1, <1>2 DEF CardsInv
<1>5. CASE Refused(my[w].n, my[w].row)
  <2>1. Await(w, "idle", NoWork) /\ UNCHANGED identities
    BY <1>5 DEF Answer
  <2>2. Turned(w, "idle", NoWork)
    BY <1>2, <2>1, TurnedAt
  <2> QED  BY <2>1, <2>2, CardsElse DEF CardSteps, RowSteps
<1>6. CASE ~Refused(my[w].n, my[w].row)
  <2>1. PICK m, saved : /\ m = SavedAs(w)
                        /\ saved = [ask |-> work.ask, of |-> work.of, version |-> work.version, n |-> m, row |-> row]
    OBVIOUS
  <2>2. Save(w, row) /\ ~Refused(n, row)
    BY <1>1, <1>6
  <2>3. \E p \in Users : OfPerson(row, p)
    BY <1>1, <1>4 DEF OneEach, RowSteps
  <2>4. /\ PeopleApart' /\ OneRowEach' /\ identities'[m] = row
        /\ Orderly /\ Exact(row) => \A k \in DOMAIN identities' : Exact(identities'[k])
    BY <1>1, <1>3, <2>1, <2>2, <2>3, SavedApart
  <2>5. [my[w] EXCEPT !.n = SavedAs(w)] = saved
    BY <1>1, <1>3, <2>1
  <2>6. Orderly => Exact(row)
    BY <1>1, <1>4 DEF UpToDate, RowSteps
  <2>7. \/ \E step \in {"saveImport", "shade"} : Await(w, step, saved)
        \/ \E step \in {"readUser", "readIdentity"} : \E next : Await(w, step, next)
    BY <1>1, <1>6, <2>5
  <2>8. CASE \E step \in {"saveImport", "shade"} : Await(w, step, saved)
    <3>1. PICK step \in {"saveImport", "shade"} : Await(w, step, saved)
      BY <2>8
    <3>2. Turned(w, step, saved)
      BY <1>2, <3>1, TurnedAt
    <3>3. saved.row = row /\ saved.n = m /\ saved.of = work.of /\ saved.version = work.version /\ row = work.row
      BY <1>1, <2>1
    <3>4. OneEach(step, saved)
      BY <1>4, <3>3 DEF OneEach, RowSteps
    <3>5. Orderly => UpToDate(step, saved)'
      BY <1>2, <1>4, <2>4, <2>6, <3>3 DEF UpToDate
    <3> QED  BY <2>4, <2>6, <3>2, <3>4, <3>5, CardsStep
  <2>9. CASE \E step \in {"readUser", "readIdentity"} : \E next : Await(w, step, next)
    <3>1. PICK step, next : step \in {"readUser", "readIdentity"} /\ Await(w, step, next)
      BY <2>9
    <3>2. Turned(w, step, next)
      BY <1>2, <3>1, TurnedAt
    <3>3. OneEach(step, next) /\ UpToDate(step, next)'
      BY <3>1 DEF OneEach, UpToDate, RowSteps
    <3> QED  BY <2>4, <2>6, <3>2, <3>3, CardsStep
  <2> QED  BY <2>7, <2>8, <2>9
<1> QED  BY <1>5, <1>6

LEMMA AskCards ==
  ASSUME TypeInv, CardsInv, NEW w \in Workers,
         \/ \E u \in Users :
              \/ \E ask \in {"card", "recompute"} : AskCard(w, u, ask)
              \/ \E hints \in Hints(u), ask \in {"import", "resolve"} : AskWith(w, hints, ask)
         \/ \E n \in DOMAIN identities : AskById(w, n)
  PROVE  CardsInv'
<1>1. CASE \E u \in Users, ask \in {"card", "recompute"} : AskCard(w, u, ask)
  <2>1. (\E work : Call(w, "cards") /\ Await(w, "readUser", work)) /\ UNCHANGED identities
    BY <1>1 DEF AskCard, Ask
  <2> QED  BY <2>1, TurnedCall, CardsElse DEF CardSteps, RowSteps
<1>2. CASE \E u \in Users : \E hints \in Hints(u), ask \in {"import", "resolve"} : AskWith(w, hints, ask)
  <2>1. PICK u, hints, ask : u \in Users /\ hints \in Hints(u) /\ AskWith(w, hints, ask)
    BY <1>2
  <2>2. PICK work : work = ByHints(ask, hints)
    OBVIOUS
  <2>3. Call(w, "cards") /\ Await(w, "resolve", work) /\ UNCHANGED <<updates, identities>>
    BY <2>1, <2>2 DEF AskWith, Ask, resultVars
  <2>4. AboutPerson(hints, u)
    BY <2>1 DEF Hints, AboutPerson
  <2>5. work.hints = hints /\ work.of = Nobody
    BY <2>2 DEF ByHints
  <2>6. OneEach("resolve", work) /\ UpToDate("resolve", work)
    BY <2>1, <2>4, <2>5, PlayersAssumption DEF OneEach, UpToDate, RowSteps
  <2>7. Turned(w, "resolve", work)
    BY <2>3, TurnedCall
  <2> QED  BY <2>3, <2>6, <2>7, CardsRead
<1>3. CASE \E n \in DOMAIN identities : AskById(w, n)
  <2>1. (\E work : Call(w, "cards") /\ Await(w, "readIdentity", work)) /\ UNCHANGED identities
    BY <1>3 DEF AskById
  <2> QED  BY <2>1, TurnedCall, CardsElse DEF CardSteps, RowSteps
<1> QED  BY <1>1, <1>2, <1>3

LEMMA ReadUserCards ==
  ASSUME TypeInv, CardsInv, NEW w \in Workers, ReadUser(w)
  PROVE  CardsInv'
<1>1. PICK u, ask, version : u = my[w].of /\ ask = my[w].ask /\ version = updates[u]
  OBVIOUS
<1>2. pc[w] = "readUser" /\ At(w, "readUser")
  BY Served1 DEF ReadUser
<1>3. u \in Users
  BY <1>1, <1>2 DEF TypeInv, Equipped, Holds, HoldsCard
<1>4. PICK work : work = [ask |-> ask, of |-> u, version |-> version, hints |-> CardHints(u)]
  OBVIOUS
<1>5. Await(w, "resolve", work) /\ UNCHANGED <<updates, identities>>
  BY <1>1, <1>4 DEF ReadUser, resultVars
<1>6. AboutPerson(CardHints(u), u) /\ CardHints(u).user = u
  BY DEF CardHints, AboutPerson
<1>7. OneEach("resolve", work)
  BY <1>3, <1>4, <1>6 DEF OneEach, RowSteps
<1>8. UpToDate("resolve", work)
  BY <1>1, <1>4 DEF UpToDate, RowSteps
<1>9. Turned(w, "resolve", work)
  BY <1>2, <1>5, TurnedAt
<1> QED  BY <1>5, <1>7, <1>8, <1>9, CardsRead

LEMMA ReadIdentityCards ==
  ASSUME TypeInv, CardsInv, NEW w \in Workers, ReadIdentity(w)
  PROVE  CardsInv'
<1>1. PICK n, row : n = my[w].n /\ row = identities[n]
  OBVIOUS
<1>2. pc[w] = "readIdentity" /\ At(w, "readIdentity")
  BY Served1 DEF ReadIdentity
<1>3. n \in DOMAIN identities
  BY <1>1, <1>2 DEF TypeInv, Equipped, Holds, HoldsCard
<1>4. PICK work : work = [ask |-> "byId", n |-> n, row |-> row]
  OBVIOUS
<1>5. Await(w, "readLinked", work) /\ UNCHANGED <<updates, identities>>
  BY <1>1, <1>4 DEF ReadIdentity, resultVars
<1>6. OneEach("readLinked", work)
  BY <1>1, <1>3, <1>4 DEF OneEach, CardsInv, PeopleApart
<1>7. Orderly => UpToDate("readLinked", work)
  BY <1>1, <1>3, <1>4 DEF UpToDate, CardsInv
<1>8. Turned(w, "readLinked", work)
  BY <1>2, <1>5, TurnedAt
<1> QED  BY <1>5, <1>6, <1>7, <1>8, CardsRead

LEMMA SaveImportCards ==
  ASSUME TypeInv, CardsInv, NEW w \in Workers, SaveImport(w)
  PROVE  CardsInv'
<1> USE DEF SaveImport
<1>1. PICK work, n, row : work = my[w] /\ n = my[w].n /\ row = my[w].row
  OBVIOUS
<1>2. pc[w] = "saveImport" /\ At(w, "saveImport") /\ UNCHANGED updates
  BY Served1 DEF resultVars
<1>3. n \in DOMAIN identities /\ RowSound(row)
  BY <1>1, <1>2 DEF TypeInv, Equipped, Holds, HoldsCard
<1>4. OneEach("saveImport", work) /\ (Orderly => UpToDate("saveImport", work))
  BY <1>1, <1>2 DEF CardsInv
<1>5. CASE Refused(my[w].n, my[w].row)
  <2>1. Await(w, "idle", NoWork) /\ UNCHANGED identities
    BY <1>5 DEF Answer
  <2>2. Turned(w, "idle", NoWork)
    BY <1>2, <2>1, TurnedAt
  <2> QED  BY <2>1, <2>2, CardsElse DEF CardSteps, RowSteps
<1>6. CASE ~Refused(my[w].n, my[w].row)
  <2>1. Save(w, row) /\ ~Refused(n, row) /\ Await(w, "readLinked", work)
    BY <1>1, <1>6, ThenAwait DEF TypeInv
  <2>2. \E p \in Users : OfPerson(row, p)
    BY <1>1, <1>4 DEF OneEach, RowSteps
  <2>3. n = SavedAs(w)
    BY <1>1, <1>3 DEF SavedAs, TypeInv, CardsOK
  <2>4. /\ PeopleApart' /\ OneRowEach' /\ identities'[n] = row
        /\ Orderly /\ Exact(row) => \A k \in DOMAIN identities' : Exact(identities'[k])
    BY <1>1, <1>3, <2>1, <2>2, <2>3, SavedApart
  <2>5. Orderly => Exact(row)
    BY <1>1, <1>4 DEF UpToDate, RowSteps
  <2>6. OneEach("readLinked", work)
    BY <1>4 DEF OneEach, RowSteps
  <2>7. Orderly => UpToDate("readLinked", work)'
    BY <1>1, <2>4, <2>5 DEF UpToDate
  <2>8. Turned(w, "readLinked", work)
    BY <1>2, <2>1, TurnedAt
  <2> QED  BY <2>4, <2>5, <2>6, <2>7, <2>8, CardsStep
<1> QED  BY <1>5, <1>6

LEMMA ReadLinkedCards ==
  ASSUME TypeInv, CardsInv, NEW w \in Workers, ReadLinked(w)
  PROVE  CardsInv'
<1> USE DEF ReadLinked
<1>1. PICK old, ask, n, row, u, version : /\ old = my[w]
                                          /\ ask = my[w].ask /\ n = my[w].n /\ row = my[w].row /\ u = my[w].row.user
                                          /\ version = IF u = Nobody THEN 0 ELSE updates[u]
  OBVIOUS
<1>2. pc[w] = "readLinked" /\ At(w, "readLinked") /\ UNCHANGED <<updates, identities>>
  BY Served1 DEF resultVars
<1>3. OneEach("readLinked", old) /\ (Orderly => UpToDate("readLinked", old))
  BY <1>1, <1>2 DEF CardsInv
<1>4. CASE u = Nobody /\ my[w].ask = "byId"
  <2>1. Await(w, "idle", NoWork)
    BY <1>1, <1>4 DEF Answer
  <2>2. Turned(w, "idle", NoWork)
    BY <1>2, <2>1, TurnedAt
  <2> QED  BY <1>2, <2>2, CardsElse DEF CardSteps, RowSteps
<1>5. CASE ~(u = Nobody /\ my[w].ask = "byId")
  <2>1. PICK work : work = [ask |-> ask, of |-> u, n |-> n, row |-> row, version |-> version]
    OBVIOUS
  <2>2. Await(w, "shade", work)
    BY <1>1, <1>5, <2>1
  <2>3. OneEach("shade", work)
    BY <1>1, <1>3, <2>1 DEF OneEach, RowSteps
  <2>4. Orderly => UpToDate("shade", work)
    BY <1>1, <1>3, <2>1, PlayersAssumption DEF UpToDate, RowSteps
  <2>5. Turned(w, "shade", work)
    BY <1>2, <2>2, TurnedAt
  <2> QED  BY <1>2, <2>3, <2>4, <2>5, CardsRead
<1> QED  BY <1>4, <1>5

\* What is saved with a shadow is the row of the same person; in turn, its shadow is
\* of the present rating.
LEMMA ShadowedPerson ==
  ASSUME UsersOK, NEW w \in Workers, RowSound(my[w].row), Past(my[w].of, my[w].version),
         OneEach("shade", my[w])
  PROVE  /\ Shadowed(w).user = my[w].row.user
         /\ \E p \in Users : OfPerson(Shadowed(w), p)
         /\ UpToDate("shade", my[w]) =>
              /\ Exact(Shadowed(w))
              /\ my[w].of # Nobody => /\ Shadowed(w).shadow.user = my[w].of
                                      /\ Shadowed(w).shadow.version = updates[my[w].of]
<1>1. PICK u, version, row, shadow, next :
        /\ u = my[w].of /\ version = my[w].version /\ row = my[w].row
        /\ shadow = [user |-> u, version |-> version, at |-> updates]
        /\ next = [row EXCEPT !.shadow = shadow]
  OBVIOUS
<1>2. PICK p \in Users : OfPerson(row, p)
  BY <1>1 DEF OneEach, RowSteps
<1>3. u # Nobody => row.user = u /\ u = p /\ u \in Users
  BY <1>1, <1>2 DEF OneEach, OfPerson
<1>4. row \in CardRow /\ row.shadow \in Shadow /\ updates \in [Users -> Nat]
  BY <1>1 DEF RowSound, CardRow, UsersOK
<1>5. /\ next.user = row.user /\ next.league = row.league /\ next.name = row.name
      /\ next.shadow = shadow /\ shadow.user = u /\ shadow.version = version /\ shadow.at = updates
  BY <1>1, <1>4 DEF CardRow
<1>6. ASSUME UpToDate("shade", my[w])
      PROVE  Exact(row) /\ (u # Nobody => version = updates[u])
  BY <1>1, <1>3, <1>6 DEF UpToDate, RowSteps
<1>7. CASE u # Nobody /\ (my[w].ask \in {"recompute", "seed", "import"} \/ Stale(row, u, version))
  <2>1. Shadowed(w) = next
    BY <1>1, <1>7 DEF Shadowed
  <2>2. OfPerson(next, p)
    BY <1>2, <1>3, <1>5, <1>7 DEF OfPerson
  <2>3. UpToDate("shade", my[w]) => Exact(next)
    BY <1>3, <1>5, <1>6, <1>7 DEF Exact
  <2> QED  BY <1>1, <1>5, <1>6, <1>7, <2>1, <2>2, <2>3
<1>8. CASE ~(u # Nobody /\ (my[w].ask \in {"recompute", "seed", "import"} \/ Stale(row, u, version)))
  <2>1. Shadowed(w) = row
    BY <1>1, <1>8 DEF Shadowed
  <2>2. ASSUME UpToDate("shade", my[w]), u # Nobody
        PROVE  row.shadow.user = u /\ row.shadow.version = updates[u]
    <3>1. row.shadow.user # Nobody /\ ~(row.shadow.at[u] < version)
      BY <1>8, <2>2 DEF Stale
    <3>2. row.shadow.user = u
      BY <1>2, <1>3, <2>2, <3>1 DEF OfPerson
    <3>3. row.shadow.at[u] \in Nat /\ row.shadow.at[u] <= updates[u] /\ updates[u] \in Nat
      BY <1>1, <1>3, <1>4, <2>2 DEF RowSound, Shadow
    <3>4. row.shadow.at[u] = updates[u]
      BY <1>6, <2>2, <3>1, <3>3
    <3> QED  BY <1>3, <1>6, <2>2, <3>2, <3>4 DEF Exact
  <2> QED  BY <1>1, <1>2, <1>6, <2>1, <2>2
<1> QED  BY <1>7, <1>8

LEMMA ShadeHolds ==
  ASSUME TypeInv, CardsInv, NEW w \in Workers, Shade(w)
  PROVE  /\ pc[w] = "shade" /\ At(w, "shade")
         /\ my[w].n \in DOMAIN identities /\ SavedAs(w) = my[w].n
         /\ RowSound(my[w].row) /\ Past(my[w].of, my[w].version) /\ RowSound(Shadowed(w))
         /\ OneEach("shade", my[w]) /\ (Orderly => UpToDate("shade", my[w]))
         /\ Refused(my[w].n, my[w].row) <=> Refused(my[w].n, Shadowed(w))
<1>1. pc[w] = "shade" /\ At(w, "shade")
  BY Served1 DEF Shade
<1>2. my[w].n \in DOMAIN identities /\ RowSound(my[w].row) /\ Past(my[w].of, my[w].version)
  BY <1>1 DEF TypeInv, Equipped, Holds, HoldsCard
<1>3. SavedAs(w) = my[w].n
  BY <1>2 DEF SavedAs, TypeInv, CardsOK
<1>4. OneEach("shade", my[w]) /\ (Orderly => UpToDate("shade", my[w]))
  BY <1>1 DEF CardsInv
<1>5. RowSound(Shadowed(w)) /\ Shadowed(w).user = my[w].row.user
  BY <1>2, <1>4, ShadowedRow, ShadowedPerson DEF TypeInv
<1> QED  BY <1>1, <1>2, <1>3, <1>4, <1>5 DEF Refused

LEMMA ShadeCards ==
  ASSUME TypeInv, CardsInv, NEW w \in Workers, Shade(w)
  PROVE  CardsInv'
<1>1. PICK n, row, u : n = my[w].n /\ row = Shadowed(w) /\ u = my[w].of
  OBVIOUS
<1>2. CASE Refused(my[w].n, my[w].row)
  <2>1. Await(w, "idle", NoWork) /\ UNCHANGED identities
    BY <1>2 DEF Shade, Answer
  <2>2. Turned(w, "idle", NoWork)
    BY <2>1, ShadeHolds, TurnedAt
  <2> QED  BY <2>1, <2>2, CardsElse DEF CardSteps, RowSteps
<1>3. CASE ~Refused(my[w].n, my[w].row)
  <2>1. Save(w, row) /\ ~Refused(n, row)
    BY <1>1, <1>3, ShadeHolds DEF Shade
  <2>2. (\E p \in Users : OfPerson(row, p)) /\ (Orderly => Exact(row))
    BY <1>1, ShadeHolds, ShadowedPerson DEF TypeInv
  <2>3. /\ PeopleApart' /\ OneRowEach'
        /\ Orderly => \A k \in DOMAIN identities' : Exact(identities'[k])
    BY <1>1, <2>1, <2>2, ShadeHolds, SavedApart
  <2>4. CASE Answer(w)
    <3>1. Turned(w, "idle", NoWork)
      BY <2>4, ShadeHolds, TurnedAt DEF Answer
    <3>2. OneEach("idle", NoWork) /\ UpToDate("idle", NoWork)'
      BY DEF OneEach, UpToDate, RowSteps
    <3> QED  BY <2>3, <3>1, <3>2, CardsStep
  <2>5. CASE Await(w, "resolve", ByHints("import", [user |-> my[w].of, league |-> my[w].of, name |-> NoName]))
    <3>1. PICK hints, work : hints = [user |-> u, league |-> u, name |-> NoName] /\ work = ByHints("import", hints)
      OBVIOUS
    <3>2. Turned(w, "resolve", work)
      BY <1>1, <2>5, <3>1, ShadeHolds, TurnedAt
    <3>3. OneEach("shade", my[w])
      BY ShadeHolds
    <3>4. PICK p \in Users : OfPerson(my[w].row, p)
      BY <3>3 DEF OneEach, RowSteps
    <3>5. u \in {p, Nobody}
      BY <1>1, <3>3, <3>4 DEF OneEach, OfPerson
    <3>6. AboutPerson(hints, p)
      BY <3>1, <3>5 DEF AboutPerson
    <3>7. work.hints = hints /\ work.of = Nobody
      BY <3>1 DEF ByHints
    <3>8. OneEach("resolve", work) /\ UpToDate("resolve", work)'
      BY <3>6, <3>7, PlayersAssumption DEF OneEach, UpToDate, RowSteps
    <3> QED  BY <2>3, <3>2, <3>8, CardsStep
  <2> QED  BY <1>3, <2>4, <2>5 DEF Shade
<1> QED  BY <1>2, <1>3

LEMMA CardStepCards ==
  ASSUME NoNamesakes, TypeInv, CardsInv, NEW w \in Workers, CardStep(w)
  PROVE  CardsInv'
BY AskCards, ReadUserCards, ResolveCards, SaveIdentityCards, ReadIdentityCards, SaveImportCards,
   ReadLinkedCards, ShadeCards DEF CardStep

LEMMA CardsNext ==
  ASSUME NoNamesakes, TypeInv, CardsInv, [CardNext]_cardVars
  PROVE  CardsInv'
<1>1. ASSUME UNCHANGED <<pc, my, updates, identities>>, overlapped => overlapped', irregular => irregular'
      PROVE  CardsInv'
  <2>1. Orderly' => Orderly
    BY <1>1 DEF Orderly
  <2>2. InTurn' /\ PeopleApart' /\ OneRowEach' /\ (\A w \in Workers : OneEach(pc[w], my[w]))'
    BY <1>1 DEF CardsInv, InTurn, PeopleApart, OneRowEach
  <2>3. ASSUME Orderly', NEW w \in Workers PROVE UpToDate(pc[w], my[w])'
    BY <1>1, <2>1, <2>3 DEF CardsInv, UpToDate
  <2> QED  BY <1>1, <2>1, <2>2, <2>3 DEF CardsInv
<1>2. CASE SeasonNext /\ UNCHANGED identities
  <2>1. CASE \E w \in Workers : Away(w)
    BY <1>2, <2>1, CardsElse DEF Away
  <2>2. CASE ~\E w \in Workers : Away(w)
    <3>1. UNCHANGED <<pc, my, updates>> /\ (overlapped => overlapped') /\ (irregular => irregular')
      BY <1>2, <2>2, AwayNext
    <3> QED  BY <1>1, <1>2, <3>1
  <2> QED  BY <2>1, <2>2
<1>3. CASE \E w \in Workers : CardStep(w)
  BY <1>3, CardStepCards
<1>4. CASE UNCHANGED cardVars
  BY <1>1, <1>4 DEF cardVars, allVars, vars, requestVars, resultVars
<1> QED  BY <1>2, <1>3, <1>4, CardNextSplit

LEMMA CardsInvariant == NoNamesakes => (CardSpec => [](TypeInv /\ CardsInv))
<1>1. CardInit => TypeInv /\ CardsInv
  BY TypeInit, CardsInit
<1>2. NoNamesakes /\ TypeInv /\ CardsInv /\ [CardNext]_cardVars => (TypeInv /\ CardsInv)'
  BY TypeStep, CardsNext
<1>3. NoNamesakes => []NoNamesakes
  <2>1. NoNamesakes => NoNamesakes'
    BY DEF NoNamesakes
  <2> QED  BY <2>1, PTL
<1> QED  BY <1>1, <1>2, <1>3, PTL DEF CardSpec

\* While no two users have a name in common, a row of player_identities tells of one
\* person, whatever overlaps or fails (identity-resolver.service.ts, resolve;
\* player-card.service.ts, writeShadow): a copy that is saved late is still that of
\* its person, since what is found by truthful hints is.
THEOREM CardsTellOfOnePerson == NoNamesakes => (CardSpec => []OnePersonEach)
<1>1. CardsInv => OnePersonEach
  BY DEF CardsInv, PeopleApart, OfPerson, OnePersonEach
<1> QED  BY <1>1, CardsInvariant, PTL

LEMMA ShadeStep ==
  ASSUME TypeInv, CardsInv, CardNext, NEW w \in Workers, pc[w] = "shade", pc'[w] # "shade", Orderly'
  PROVE  Shade(w)
<1>1. ASSUME NEW v \in Workers, Away(v) PROVE FALSE
  <2>1. PICK step, work : Turned(v, step, work) /\ (pc[v] = "shade" => ~Orderly')
    BY <1>1 DEF Away
  <2>2. v # w
    BY <2>1
  <2> QED  BY <2>1, <2>2, Awaiting DEF TypeInv, Turned, Moved, Alone
<1>2. ~(SeasonNext /\ UNCHANGED identities)
  BY <1>1, AwayNext
<1>3. PICK v \in Workers : CardStep(v)
  BY <1>2, CardNextSplit
<1>4. GoesOn(v)
  BY <1>3, CardGoesOn
<1>5. v = w
  BY <1>4, Awaiting DEF GoesOn, TypeInv, Moved, Alone
<1> QED
  BY <1>3, <1>5 DEF CardStep, AskCard, AskWith, AskById, Ask, Call, Arrive, ReadUser, Resolve, SaveIdentity,
     ReadIdentity, SaveImport, ReadLinked, At

\* In turn, a row that is answered with is not refused, and is of the present.
LEMMA ShadeIsCurrent ==
  ASSUME TypeInv, CardsInv, Orderly, NEW w \in Workers, Shade(w), my[w].of # Nobody
  PROVE  IsCurrent(identities'[SavedAs(w)], my[w].of)
<1>1. PICK n, row, u : n = my[w].n /\ row = Shadowed(w) /\ u = my[w].of
  OBVIOUS
<1>2. UpToDate("shade", my[w]) /\ n \in DOMAIN identities /\ RowSound(row)
  BY <1>1, ShadeHolds
<1>3. /\ row.user = my[w].row.user /\ \E p \in Users : OfPerson(row, p)
      /\ row.shadow.user = u /\ row.shadow.version = updates[u]
  BY <1>1, <1>2, ShadeHolds, ShadowedPerson DEF TypeInv
<1>4. row.user = u /\ u # Nobody
  <2>1. OneEach("shade", my[w])
    BY ShadeHolds
  <2> QED  BY <1>1, <1>3, <2>1 DEF OneEach
<1>5. identities[n].user = u
  <2>1. identities[n] = my[w].row
    BY <1>1, <1>2 DEF UpToDate
  <2> QED  BY <1>3, <1>4, <2>1
<1>6. ~Refused(n, row)
  BY <1>2, <1>4, <1>5 DEF Refused, CardsInv, OneRowEach
<1>7. Save(w, row)
  BY <1>1, <1>6, ShadeHolds DEF Shade
<1>8. identities'[SavedAs(w)] = row
  BY <1>1, <1>2, <1>3, <1>6, <1>7, SavedApart
<1> QED  BY <1>1, <1>3, <1>4, <1>8 DEF IsCurrent

\* While no two users have a name in common, a card of a user that is answered in
\* turn is the user's own row, with a shadow of the user's present rating
\* (player-card.service.ts, ensureShadow): the row that was found is never refused,
\* and a shadow that is kept as good enough was computed after the last rating.
THEOREM CardsAreCurrent == NoNamesakes => (CardSpec => CardIsCurrent)
<1>1. TypeInv /\ CardsInv /\ [CardNext]_cardVars =>
        [\A w \in Workers : pc[w] = "shade" /\ pc'[w] # "shade" /\ Orderly' /\ my[w].of # Nobody =>
           IsCurrent(identities'[SavedAs(w)], my[w].of)]_cardVars
  <2> SUFFICES ASSUME TypeInv, CardsInv, CardNext,
                      NEW w \in Workers, pc[w] = "shade", pc'[w] # "shade", Orderly', my[w].of # Nobody
               PROVE  IsCurrent(identities'[SavedAs(w)], my[w].of)
    OBVIOUS
  <2>1. Shade(w)
    BY ShadeStep
  <2>2. Orderly
    BY <2>1, ShadeHolds DEF Orderly, At
  <2> QED  BY <2>1, <2>2, ShadeIsCurrent
<1> QED  BY <1>1, CardsInvariant, PTL DEF CardSpec, CardIsCurrent

-----------------------------------------------------------------------------
(* Served in turn: what a request that is being served has done *)

ResultsOf(g) == {n \in DOMAIN processed : processed[n].match = g}
Remembered(result) == result.match \in DOMAIN games \/ (result.match = Elsewhere /\ scene.domain = "money")
HasMemory(g, u) == \E m \in memories : m.match = g /\ m.user = u
Closed(row) == row.finalized /\ Has(row, "match_end")
ClosedAt(g) == g \in DOMAIN timelines /\ Closed(timelines[g])

\* A request that has handed over a result, which is then the newest.
Reports(step, work) ==
  \/ step \in {"readTimeline", "readUsers", "askRealAi", "saveUsers", "findMemories", "createMemories", "publish"}
  \/ step \in {"saveTimeline", "mirrorTimeline"} /\ "result" \in DOMAIN work

GamesTold(step, work) ==
  /\ \A n \in DOMAIN processed : processed[n].match \in Matches \cup {Fixture(k) : k \in DOMAIN fixtures}
  /\ \A g \in DOMAIN games : Cardinality(ResultsOf(g)) = IF games[g].status = "COMPLETED" THEN 1 ELSE 0
  /\ step = "saveMatch" => games[work.match].status \in Open

RatesTold(step, work) ==
  /\ \A u \in Users : Cardinality(Of(u)) = played[u] + (IF Owes(step, work, u) THEN 1 ELSE 0)
  /\ step \in {"askRealAi", "saveUsers"} => work.copy = played
  /\ step = "saveSeed" => played[work.user] = 0

NewsTold(step, work) ==
  /\ published \in Seq(ResultRow)
  /\ processed = IF Reports(step, work) THEN Append(published, work.result) ELSE published

MemoriesTold(step, work) ==
  /\ OneMemoryEach
  /\ \A n \in DOMAIN processed : Remembered(processed[n]) =>
       \/ n = Len(processed) /\ Reports(step, work) /\ step # "publish"
       \/ \A u \in Players(processed[n]) : HasMemory(processed[n].match, u)
  /\ Reports(step, work) => (work.domain \in {"standard", "money"} <=> Remembered(work.result))
  /\ step = "createMemories" => work.missing = IF Remembered(work.result) THEN Missing(work.result) ELSE {}

LinesTold(step, work) ==
  /\ timelines = IF step = "mirrorTimeline"
                 THEN [g \in (DOMAIN mirror) \cup {work.match} |-> IF g = work.match THEN work.row ELSE mirror[g]]
                 ELSE mirror
  /\ \A n \in DOMAIN processed :
       \/ n = Len(processed) /\ Reports(step, work) /\ step \in {"readTimeline", "saveTimeline"}
       \/ ClosedAt(processed[n].match)
  /\ step = "saveTimeline" =>
       /\ work.fresh <=> work.match \notin DOMAIN timelines
       /\ ClosedAt(work.match) => Closed(work.row)
       /\ "result" \in DOMAIN work => work.match = work.result.match /\ Closed(work.row)

\* A match of the season that is saved and does not count yet.
InPlay(step, work) == step \in {"readStandings", "saveStandings"}
ToCome(step, work, u) ==
  IF InPlay(step, work) /\ PlayersOf(work.copy) \subseteq DOMAIN standings /\ u \in PlayersOf(work.copy)
  THEN PointsFor(work.copy, u) ELSE 0

SeasonTold(step, work) ==
  /\ season # "ACTIVE" \/ step = "saveSnapshot" => fixtures = <<>> /\ standings = <<>>
  /\ step = "saveSeason" => season = "DRAFT"
  /\ step = "saveSnapshot" => season = "ACTIVE"
  /\ step \in {"validate", "saveFixture"} =>
       fixtures[work.fixture].status = "SCHEDULED" /\ work.copy.status = "COMPLETED"
  /\ InPlay(step, work) => fixtures[work.fixture] = work.copy /\ work.copy.status = "COMPLETED"
  /\ step = "saveStandings" =>
       PlayersOf(work.copy) \subseteq DOMAIN standings /\ \A u \in PlayersOf(work.copy) : work.points[u] = standings[u]
  /\ \A u \in DOMAIN standings : Earned(u) = standings[u] + ToCome(step, work, u)
  /\ \A n \in DOMAIN fixtures :
       Cardinality(ResultsOf(Fixture(n))) = IF n \in Counted /\ ~(InPlay(step, work) /\ n = work.fixture) THEN 1 ELSE 0
  /\ \A k \in DOMAIN processed : -processed[k].match \in DOMAIN fixtures /\ processed[k].rated =>
       processed[k].winner = WinnerOf(fixtures[-processed[k].match])

Told(step, work) ==
  /\ GamesTold(step, work) /\ RatesTold(step, work) /\ NewsTold(step, work)
  /\ MemoriesTold(step, work) /\ LinesTold(step, work) /\ SeasonTold(step, work)

TurnInv ==
  /\ InTurn
  /\ Orderly => /\ Quiet => Told("idle", NoWork)
                /\ \A w \in Workers : pc[w] # "idle" => Told(pc[w], my[w])

SeasonSteps == {"saveSeason", "saveSnapshot", "validate", "saveFixture", "readStandings", "saveStandings"}
ReportSteps == {"readTimeline", "readUsers", "askRealAi", "saveUsers", "findMemories", "createMemories", "publish"}
ToldSteps == SeasonSteps \cup ReportSteps \cup {"saveMatch", "saveSeed", "saveTimeline", "mirrorTimeline"}

\* At any other step nothing is said of a request.
LEMMA PlainTold ==
  ASSUME NEW step, step \notin ToldSteps, NEW work, NEW other, other \notin ToldSteps, NEW held
  PROVE  Told(step, work) => Told(other, held)
<1>1. ASSUME NEW s, s \notin ToldSteps, NEW k
      PROVE  /\ ~Reports(s, k) /\ ~InPlay(s, k) /\ \A u : ~Owes(s, k, u)
             /\ \A u : ToCome(s, k, u) = 0
             /\ s \notin ToldSteps
  BY <1>1 DEF ToldSteps, SeasonSteps, ReportSteps, Reports, InPlay, Owes, Unrated, ToCome
<1>2. GamesTold(step, work) => GamesTold(other, held)
  BY DEF GamesTold, ToldSteps
<1>3. RatesTold(step, work) => RatesTold(other, held)
  BY <1>1 DEF RatesTold, ToldSteps, ReportSteps
<1>4. NewsTold(step, work) => NewsTold(other, held)
  BY <1>1 DEF NewsTold
<1>5. MemoriesTold(step, work) => MemoriesTold(other, held)
  BY <1>1 DEF MemoriesTold, ToldSteps, ReportSteps
<1>6. LinesTold(step, work) => LinesTold(other, held)
  BY <1>1 DEF LinesTold, ToldSteps
<1>7. SeasonTold(step, work) => SeasonTold(other, held)
  BY <1>1 DEF SeasonTold, ToldSteps, SeasonSteps
<1> QED  BY <1>2, <1>3, <1>4, <1>5, <1>6, <1>7 DEF Told

LEMMA IdleIsPlain == "idle" \notin ToldSteps
BY DEF ToldSteps, SeasonSteps, ReportSteps

LEMMA PlainToldNext ==
  ASSUME NEW step, step \notin ToldSteps, NEW work, NEW other, other \notin ToldSteps, NEW held
  PROVE  Told(step, work)' => Told(other, held)'
<1>1. Told(step, work) => Told(other, held)
  BY PlainTold
<1> QED  BY <1>1, PTL

\* Before a step in turn, what is said of its request holds.
LEMMA TurnBefore ==
  ASSUME TypeInv, TurnInv, NEW w \in Workers, NEW step, NEW work, Turned(w, step, work)
  PROVE  /\ Moved(w, step, work) /\ InTurn'
         /\ Orderly' => /\ Orderly /\ Told(pc[w], my[w])
                        /\ \A v \in Workers \ {w} : pc'[v] = "idle"
<1>1. Moved(w, step, work) /\ Alone(w)
  BY Awaiting DEF TypeInv, Turned, Moved
<1>2. InTurn' /\ (~overlapped' => ~overlapped /\ (pc[w] = "idle" => Quiet) /\ \A v \in Workers \ {w} : pc[v] = "idle")
  <2>1. CASE Arrive(w)
    BY <1>1, <2>1, ArrivesInTurn DEF TypeInv, TurnInv, Quiet
  <2>2. CASE pc[w] # "idle" /\ UNCHANGED overlapped
    BY <1>1, <2>2, ServedInTurn DEF TypeInv, TurnInv
  <2> QED  BY <2>1, <2>2 DEF Turned
<1>3. Orderly' => Orderly
  BY <1>2 DEF Orderly, Turned
<1>4. Orderly' => Told(pc[w], my[w])
  <2>1. CASE pc[w] # "idle"
    BY <1>3, <2>1 DEF TurnInv
  <2>2. CASE pc[w] = "idle"
    <3>1. Orderly' => Told("idle", NoWork)
      BY <1>2, <1>3, <2>2 DEF TurnInv, Orderly
    <3>2. Told("idle", NoWork) => Told(pc[w], my[w])
      BY <2>2, PlainTold, IdleIsPlain
    <3> QED  BY <3>1, <3>2
  <2> QED  BY <2>1, <2>2
<1>5. Orderly' => \A v \in Workers \ {w} : pc'[v] = "idle"
  BY <1>1, <1>2 DEF Orderly, Alone
<1> QED  BY <1>1, <1>2, <1>3, <1>4, <1>5

\* It is enough to say what has become true for the request itself.
LEMMA TurnStep ==
  ASSUME TypeInv, TurnInv, NEW w \in Workers, NEW step, NEW work, Turned(w, step, work),
         Told(pc[w], my[w]) => Told(step, work)'
  PROVE  TurnInv'
<1>1. /\ Moved(w, step, work) /\ InTurn'
      /\ Orderly' => Told(step, work)' /\ \A v \in Workers \ {w} : pc'[v] = "idle"
  BY TurnBefore
<1>2. ASSUME Orderly', NEW v \in Workers, pc'[v] # "idle" PROVE Told(pc[v], my[v])'
  <2>1. v = w
    BY <1>1, <1>2
  <2> QED  BY <1>1, <1>2, <2>1 DEF Moved
<1>3. ASSUME Orderly', Quiet' PROVE Told("idle", NoWork)'
  <2>1. step = "idle" /\ Told("idle", work)'
    BY <1>1, <1>3 DEF Quiet, Moved
  <2> QED  BY <2>1, PlainToldNext, IdleIsPlain
<1> QED  BY <1>1, <1>2, <1>3 DEF TurnInv

\* A call that is answered at once.
LEMMA TurnCall ==
  ASSUME TypeInv, TurnInv, NEW w \in Workers, NEW call, Call(w, call), UNCHANGED <<pc, my>>,
         Told("idle", NoWork) => Told("idle", NoWork)'
  PROVE  TurnInv'
<1>1. Arrive(w) /\ irregular' = irregular
  BY DEF Call, Regular
<1>2. InTurn' /\ (~overlapped' => ~overlapped /\ Quiet)
  BY <1>1, ArrivesInTurn DEF TypeInv, TurnInv, Alone
<1>3. ASSUME Orderly' PROVE Told("idle", NoWork)' /\ \A v \in Workers : pc'[v] = "idle"
  BY <1>1, <1>2, <1>3 DEF TurnInv, Orderly, Quiet
<1> QED  BY <1>2, <1>3 DEF TurnInv

\* Nothing is said once something irregular has happened.
LEMMA TurnLost ==
  ASSUME TypeInv, TurnInv, NEW w \in Workers, pc[w] # "idle", irregular', UNCHANGED overlapped,
         NEW step, NEW work, Await(w, step, work)
  PROVE  TurnInv'
<1>1. Alone(w)
  BY Awaiting DEF TypeInv, Moved
<1>2. InTurn'
  BY <1>1, ServedInTurn DEF TypeInv, TurnInv
<1> QED  BY <1>2 DEF TurnInv, Orderly

\* What does not change in a step, and what a request goes on with.
LEMMA PartsStill ==
  ASSUME NEW s, NEW k
  PROVE  /\ UNCHANGED <<games, processed, fixtures>> => (GamesTold(s, k) => GamesTold(s, k)')
         /\ UNCHANGED <<played, processed>> => (RatesTold(s, k) => RatesTold(s, k)')
         /\ UNCHANGED <<published, processed>> => (NewsTold(s, k) => NewsTold(s, k)')
         /\ UNCHANGED <<memories, processed, games, scene>> => (MemoriesTold(s, k) => MemoriesTold(s, k)')
         /\ UNCHANGED <<timelines, mirror, processed>> => (LinesTold(s, k) => LinesTold(s, k)')
         /\ UNCHANGED <<seasonVars, processed>> => (SeasonTold(s, k) => SeasonTold(s, k)')
<1>1. UNCHANGED <<games, processed, fixtures>> => (GamesTold(s, k) => GamesTold(s, k)')
  BY DEF GamesTold, Matches, ResultsOf
<1>2. UNCHANGED <<played, processed>> => (RatesTold(s, k) => RatesTold(s, k)')
  BY DEF RatesTold, Of, Owes
<1>3. UNCHANGED <<published, processed>> => (NewsTold(s, k) => NewsTold(s, k)')
  BY DEF NewsTold, Reports
<1>4. ASSUME UNCHANGED <<memories, processed, games, scene>> PROVE MemoriesTold(s, k) => MemoriesTold(s, k)'
  BY <1>4 DEF MemoriesTold, OneMemoryEach, Remembered, Reports, HasMemory, Missing, MemoriesOf
<1>5. UNCHANGED <<timelines, mirror, processed>> => (LinesTold(s, k) => LinesTold(s, k)')
  BY DEF LinesTold, ClosedAt, Reports
<1>6. ASSUME UNCHANGED <<seasonVars, processed>> PROVE SeasonTold(s, k) => SeasonTold(s, k)'
  <2>1. season' = season /\ standings' = standings /\ fixtures' = fixtures /\ processed' = processed
    BY <1>6 DEF seasonVars
  <2>2. Counted' = Counted /\ \A u : Earned(u)' = Earned(u)
    BY <2>1 DEF Counted, Completed, Earned
  <2> QED  BY <2>1, <2>2 DEF SeasonTold, InPlay, ToCome, ResultsOf
<1> QED  BY <1>1, <1>2, <1>3, <1>4, <1>5, <1>6

LEMMA PartsGoOn ==
  ASSUME NEW s, NEW k, NEW t, NEW l
  PROVE  /\ t # "saveMatch" => (GamesTold(s, k) => GamesTold(t, l))
         /\ /\ \A u \in Users : Owes(s, k, u) <=> Owes(t, l, u)
            /\ t \in {"askRealAi", "saveUsers"} => l.copy = played
            /\ t = "saveSeed" => played[l.user] = 0
            => (RatesTold(s, k) => RatesTold(t, l))
         /\ Reports(s, k) <=> Reports(t, l)
            => /\ (Reports(t, l) => k.result = l.result) => (NewsTold(s, k) => NewsTold(t, l))
               /\ /\ Reports(t, l) => k.result = l.result /\ k.domain = l.domain
                  /\ t = "publish" => s = "publish"
                  /\ t # "createMemories"
                  => (MemoriesTold(s, k) => MemoriesTold(t, l))
         /\ s \notin {"readTimeline", "saveTimeline", "mirrorTimeline"} /\ t \notin {"saveTimeline", "mirrorTimeline"}
            => (LinesTold(s, k) => LinesTold(t, l))
         /\ s \notin SeasonSteps /\ t \notin SeasonSteps => (SeasonTold(s, k) => SeasonTold(t, l))
<1>1. t # "saveMatch" => (GamesTold(s, k) => GamesTold(t, l))
  BY DEF GamesTold
<1>2. /\ \A u \in Users : Owes(s, k, u) <=> Owes(t, l, u)
      /\ t \in {"askRealAi", "saveUsers"} => l.copy = played
      /\ t = "saveSeed" => played[l.user] = 0
      => (RatesTold(s, k) => RatesTold(t, l))
  BY DEF RatesTold
<1>3. Reports(s, k) <=> Reports(t, l)
            => ((Reports(t, l) => k.result = l.result) => (NewsTold(s, k) => NewsTold(t, l)))
  BY DEF NewsTold
<1>4. Reports(s, k) <=> Reports(t, l) =>
        (/\ Reports(t, l) => k.result = l.result /\ k.domain = l.domain
         /\ t = "publish" => s = "publish"
         /\ t # "createMemories"
         => (MemoriesTold(s, k) => MemoriesTold(t, l)))
  BY DEF MemoriesTold
<1>5. s \notin {"readTimeline", "saveTimeline", "mirrorTimeline"} /\ t \notin {"saveTimeline", "mirrorTimeline"}
      => (LinesTold(s, k) => LinesTold(t, l))
  BY DEF LinesTold
<1>6. s \notin SeasonSteps /\ t \notin SeasonSteps => (SeasonTold(s, k) => SeasonTold(t, l))
  BY DEF SeasonTold, SeasonSteps, InPlay, ToCome
<1> QED  BY <1>1, <1>2, <1>3, <1>4, <1>5, <1>6

LEMMA ToldStill ==
  ASSUME NEW s, NEW k, Told(s, k), UNCHANGED <<resultVars, seasonVars>>
  PROVE  Told(s, k)'
<1>1. /\ UNCHANGED <<games, processed, fixtures>> /\ UNCHANGED <<played, processed>>
      /\ UNCHANGED <<published, processed>> /\ UNCHANGED <<memories, processed, games, scene>>
      /\ UNCHANGED <<timelines, mirror, processed>> /\ UNCHANGED <<seasonVars, processed>>
  BY DEF resultVars, seasonVars
<1> QED  BY <1>1, PartsStill DEF Told

\* A request of which nothing is said, before or after.
LEMMA ElseTurn ==
  ASSUME TypeInv, TurnInv, NEW w \in Workers, NEW step, NEW work, Turned(w, step, work),
         pc[w] \notin ToldSteps, step \notin ToldSteps, UNCHANGED <<resultVars, seasonVars>>
  PROVE  TurnInv'
<1>1. Told(pc[w], my[w]) => Told(step, work)
  BY PlainTold
<1> QED  BY <1>1, ToldStill, TurnStep

\* The cards.
LEMMA CardPlain ==
  ASSUME TypeInv, NEW w \in Workers, CardStep(w)
  PROVE  /\ \E step, work : step \notin ToldSteps /\ Turned(w, step, work)
         /\ pc[w] \notin ToldSteps /\ UNCHANGED <<resultVars, seasonVars>>
<1> DEFINE Steps == {"readUser", "resolve", "saveIdentity", "readIdentity", "saveImport", "readLinked", "shade"}
<1>0. \A step \in Steps \cup {"idle"} : step \notin ToldSteps
  BY DEF ToldSteps, SeasonSteps, ReportSteps
<1>1. UNCHANGED <<resultVars, seasonVars>>
  BY CardGoesOn
<1>2. ASSUME NEW call, Call(w, call), NEW step \in Steps, NEW work, Await(w, step, work)
      PROVE  \E s, k : s \notin ToldSteps /\ pc[w] \notin ToldSteps /\ Turned(w, s, k)
  BY <1>0, <1>2, TurnedCall
<1>3. ASSUME NEW step0 \in Steps, At(w, step0), NEW step \in Steps \cup {"idle"}, NEW work, Await(w, step, work)
      PROVE  \E s, k : s \notin ToldSteps /\ pc[w] \notin ToldSteps /\ Turned(w, s, k)
  <2>1. Turned(w, step, work) /\ pc[w] = step0
    BY <1>3, TurnedAt
  <2> QED  BY <1>0, <2>1
<1>4. \A step : Then(w, step) => Await(w, step, my[w])
  BY ThenAwait DEF TypeInv
<1>5. \A step0, step : At(w, step0) /\ Then(w, step) /\ step0 \in Steps /\ step \in Steps
        => \E s, k : s \notin ToldSteps /\ pc[w] \notin ToldSteps /\ Turned(w, s, k)
  BY <1>3, <1>4
<1>6. \A step0 : At(w, step0) /\ Answer(w) /\ step0 \in Steps
        => \E s, k : s \notin ToldSteps /\ pc[w] \notin ToldSteps /\ Turned(w, s, k)
  BY <1>3 DEF Answer
<1> HIDE DEF Steps
<1>7. \A step \in {"readUser", "resolve", "saveIdentity", "readIdentity", "saveImport", "readLinked", "shade"} : step \in Steps
  BY DEF Steps
<1>8. \E s, k : s \notin ToldSteps /\ pc[w] \notin ToldSteps /\ Turned(w, s, k)
  <2>1. CASE \E u \in Users :
               \/ \E ask \in {"card", "recompute"} : AskCard(w, u, ask)
               \/ \E hints \in Hints(u), ask \in {"import", "resolve"} : AskWith(w, hints, ask)
    BY <1>2, <1>7, <2>1 DEF AskCard, AskWith, Ask
  <2>2. CASE \E n \in DOMAIN identities : AskById(w, n)
    BY <1>2, <1>7, <2>2 DEF AskById
  <2>3. CASE ReadUser(w)
    BY <1>3, <1>7, <2>3 DEF ReadUser
  <2>4. CASE Resolve(w)
    <3>1. At(w, "resolve") /\ \E work : Await(w, "saveIdentity", work)
      BY <2>4 DEF Resolve
    <3> QED  BY <1>3, <1>7, <3>1
  <2>5. CASE SaveIdentity(w)
    <3>1. /\ At(w, "saveIdentity")
          /\ \/ Answer(w)
             \/ \E step \in {"saveImport", "readUser", "readIdentity", "shade"} : \E work : Await(w, step, work)
      BY <2>5 DEF SaveIdentity
    <3> QED  BY <1>3, <1>6, <1>7, <3>1
  <2>6. CASE ReadIdentity(w)
    BY <1>3, <1>7, <2>6 DEF ReadIdentity
  <2>7. CASE SaveImport(w)
    <3>1. At(w, "saveImport") /\ (Answer(w) \/ Then(w, "readLinked"))
      BY <2>7 DEF SaveImport
    <3> QED  BY <1>5, <1>6, <1>7, <3>1
  <2>8. CASE ReadLinked(w)
    <3>1. At(w, "readLinked") /\ (Answer(w) \/ \E work : Await(w, "shade", work))
      BY <2>8 DEF ReadLinked
    <3> QED  BY <1>3, <1>6, <1>7, <3>1
  <2>9. CASE Shade(w)
    <3>1. At(w, "shade") /\ (Answer(w) \/ \E work : Await(w, "resolve", work))
      BY <2>9 DEF Shade
    <3> QED  BY <1>3, <1>6, <1>7, <3>1
  <2> QED  BY <2>1, <2>2, <2>3, <2>4, <2>5, <2>6, <2>7, <2>8, <2>9 DEF CardStep
<1> QED  BY <1>1, <1>8

LEMMA CardTurn == ASSUME TypeInv, TurnInv, NEW w \in Workers, CardStep(w) PROVE TurnInv'
BY CardPlain, ElseTurn

LEMMA FailureTurn ==
  ASSUME TypeInv, TurnInv, NEW w \in Workers, PartFails(w) \/ (Abort(w) /\ UNCHANGED resultVars)
  PROVE  TurnInv'
<1>1. pc[w] # "idle" /\ irregular' /\ UNCHANGED overlapped
  BY DEF PartFails, Abort, Irregular
<1>2. \E step, work : Await(w, step, work)
  BY DEF PartFails, Abort, Answer
<1> QED  BY <1>1, <1>2, TurnLost

-----------------------------------------------------------------------------
(* In turn: calls *)

\* A match is about to be saved that was open when it was read.
LEMMA SavingTurn ==
  ASSUME TypeInv, TurnInv, NEW w \in Workers, NEW call, Call(w, call), NEW work, Await(w, "saveMatch", work),
         games[work.match].status \in Open, UNCHANGED <<resultVars, seasonVars>>
  PROVE  TurnInv'
<1>1. Turned(w, "saveMatch", work) /\ pc[w] = "idle"
  BY TurnedCall
<1>2. ASSUME Told(pc[w], my[w]) PROVE Told("saveMatch", work)
  <2>1. /\ ~Reports(pc[w], my[w]) /\ ~Reports("saveMatch", work)
        /\ \A u : ~Owes(pc[w], my[w], u) /\ ~Owes("saveMatch", work, u)
        /\ "saveMatch" \notin SeasonSteps /\ pc[w] \notin SeasonSteps
    BY <1>1 DEF Reports, Owes, Unrated, SeasonSteps
  <2>2. GamesTold("saveMatch", work)
    BY <1>2 DEF Told, GamesTold
  <2> QED  BY <1>1, <1>2, <2>1, <2>2, PartsGoOn DEF Told
<1> QED  BY <1>1, <1>2, ToldStill, TurnStep

LEMMA ReportResultTurn ==
  ASSUME TypeInv, TurnInv, NEW w \in Workers, UNCHANGED seasonVars,
         NEW g \in DOMAIN games, NEW a \in Scores, NEW b \in Scores, ReportResult(w, g, a, b)
  PROVE  TurnInv'
<1>1. PICK work : work = [match |-> g, copy |-> [games[g] EXCEPT !.status = "COMPLETED", !.score = [A |-> a, B |-> b],
                                                                 !.complete = (games[g].rack # 0)]]
  OBVIOUS
<1>2. Call(w, "report") /\ Await(w, "saveMatch", work) /\ games[g].status \in Open /\ UNCHANGED resultVars
  BY <1>1 DEF ReportResult, Reportable
<1>3. work.match = g
  BY <1>1
<1> QED  BY <1>2, <1>3, SavingTurn

LEMMA PyramidPocketTurn ==
  ASSUME TypeInv, TurnInv, NEW w \in Workers, UNCHANGED seasonVars,
         NEW g \in DOMAIN games, NEW side, NEW balls, PyramidPocket(w, g, side, balls)
  PROVE  TurnInv'
<1>1. /\ Call(w, "pocket") /\ games[g].status \in Open /\ UNCHANGED resultVars
      /\ \E copy : Await(w, "saveMatch", [match |-> g, copy |-> copy])
  BY DEF PyramidPocket
<1>2. PICK copy, work : work = [match |-> g, copy |-> copy] /\ Await(w, "saveMatch", work)
  BY <1>1
<1>3. work.match = g
  BY <1>2
<1> QED  BY <1>1, <1>2, <1>3, SavingTurn

LEMMA SeedTurn ==
  ASSUME TypeInv, TurnInv, NEW w \in Workers, UNCHANGED seasonVars, NEW u \in Users, SeedFromExternal(w, u)
  PROVE  TurnInv'
<1>1. PICK work : work = [user |-> u]
  OBVIOUS
<1>2. Call(w, "seed") /\ Await(w, "saveSeed", work) /\ played[work.user] = 0 /\ UNCHANGED resultVars
  BY <1>1 DEF SeedFromExternal
<1>3. Turned(w, "saveSeed", work) /\ pc[w] = "idle"
  BY <1>2, TurnedCall
<1>4. ASSUME Told(pc[w], my[w]) PROVE Told("saveSeed", work)
  <2>1. /\ ~Reports(pc[w], my[w]) /\ ~Reports("saveSeed", work)
        /\ \A v : ~Owes(pc[w], my[w], v) /\ ~Owes("saveSeed", work, v)
        /\ "saveSeed" \notin SeasonSteps /\ pc[w] \notin SeasonSteps
    BY <1>3 DEF Reports, Owes, Unrated, SeasonSteps
  <2> QED  BY <1>2, <1>3, <1>4, <2>1, PartsGoOn DEF Told
<1> QED  BY <1>2, <1>3, <1>4, ToldStill, TurnStep

-----------------------------------------------------------------------------
(* In turn: results are handed over *)

LEMMA ResultsFinite ==
  ASSUME TypeInv, NEW g
  PROVE  IsFiniteSet(ResultsOf(g)) /\ Cardinality(ResultsOf(g)) \in Nat
<1>1. DOMAIN processed = 1 .. Len(processed) /\ Len(processed) \in Nat
  BY DEF TypeInv, ProcessedOK
<1>2. IsFiniteSet(DOMAIN processed)
  BY <1>1, FS_Interval
<1>3. ResultsOf(g) \subseteq DOMAIN processed
  BY DEF ResultsOf
<1> QED  BY <1>2, <1>3, FS_Subset, FS_CardinalityType

\* One result more, of its match and of its players.
LEMMA OneMoreResult ==
  ASSUME TypeInv, NEW result \in ResultRow, processed' = Append(processed, result)
  PROVE  /\ Len(processed') = Len(processed) + 1 /\ Len(processed) \in Nat
         /\ DOMAIN processed' = (DOMAIN processed) \cup {Len(processed')} /\ Len(processed') \notin DOMAIN processed
         /\ \A n \in DOMAIN processed : processed'[n] = processed[n] /\ n # Len(processed')
         /\ processed'[Len(processed')] = result
         /\ \A g : /\ Cardinality(ResultsOf(g)) \in Nat
                   /\ Cardinality(ResultsOf(g))' = Cardinality(ResultsOf(g)) + (IF g = result.match THEN 1 ELSE 0)
         /\ \A u \in Users :
              /\ Cardinality(Of(u)) \in Nat
              /\ Cardinality(Of(u))' = Cardinality(Of(u)) + (IF result.rated /\ u \in Players(result) THEN 1 ELSE 0)
<1>1. PICK n1 : n1 = Len(processed')
  OBVIOUS
<1>2. processed \in Seq(ResultRow) /\ n1 = Len(processed) + 1
  BY <1>1 DEF TypeInv, ProcessedOK
<1>3. /\ Len(processed) \in Nat /\ DOMAIN processed' = (DOMAIN processed) \cup {n1} /\ n1 \notin DOMAIN processed
      /\ \A n \in DOMAIN processed : processed'[n] = processed[n] /\ n # n1
      /\ processed'[n1] = result
  BY <1>2, InsertedRow
<1>4. ASSUME NEW g
      PROVE  /\ Cardinality(ResultsOf(g)) \in Nat
             /\ Cardinality(ResultsOf(g))' = Cardinality(ResultsOf(g)) + (IF g = result.match THEN 1 ELSE 0)
  <2>1. PICK some, more : some = ResultsOf(g) /\ more = ResultsOf(g)'
    OBVIOUS
  <2>2. IsFiniteSet(some) /\ Cardinality(some) \in Nat
    BY <2>1, ResultsFinite
  <2>3. n1 \notin some /\ more = IF g = result.match THEN some \cup {n1} ELSE some
    BY <1>3, <2>1 DEF ResultsOf
  <2>4. Cardinality(some \cup {n1}) = Cardinality(some) + 1
    BY <2>2, <2>3, FS_AddElement
  <2>5. Cardinality(more) = Cardinality(some) + (IF g = result.match THEN 1 ELSE 0)
    BY <2>2, <2>3, <2>4
  <2> QED  BY <2>1, <2>2, <2>5
<1>5. ASSUME NEW u \in Users
      PROVE  /\ Cardinality(Of(u)) \in Nat
             /\ Cardinality(Of(u))' = Cardinality(Of(u)) + (IF result.rated /\ u \in Players(result) THEN 1 ELSE 0)
  <2>1. PICK some, more : some = Of(u) /\ more = Of(u)'
    OBVIOUS
  <2>2. IsFiniteSet(some) /\ Cardinality(some) \in Nat
    BY <2>1, OfFinite
  <2>3. n1 \notin some /\ more = IF result.rated /\ u \in Players(result) THEN some \cup {n1} ELSE some
    BY <1>3, <2>1 DEF Of
  <2>4. Cardinality(some \cup {n1}) = Cardinality(some) + 1
    BY <2>2, <2>3, FS_AddElement
  <2>5. Cardinality(more) = Cardinality(some) + (IF result.rated /\ u \in Players(result) THEN 1 ELSE 0)
    BY <2>2, <2>3, <2>4
  <2> QED  BY <2>1, <2>2, <2>5
<1> QED  BY <1>1, <1>2, <1>3, <1>4, <1>5

\* What a request says of ratings, news, memories and timelines once it has handed
\* a result over.
LEMMA ProcessParts ==
  ASSUME TypeInv, NEW s \in {"idle", "saveMatch", "saveStandings"}, NEW k, Told(s, k),
         NEW result \in ResultRow, NEW domain, processed' = Append(processed, result),
         NEW work, work = [match |-> result.match, result |-> result, domain |-> domain],
         UNCHANGED <<scene, played, published, memories, timelines, mirror>>, DOMAIN games' = DOMAIN games,
         domain \in {"standard", "money"} <=> Remembered(result)
  PROVE  /\ RatesTold("readTimeline", work)' /\ NewsTold("readTimeline", work)'
         /\ MemoriesTold("readTimeline", work)' /\ LinesTold("readTimeline", work)'
<1>1. /\ ~Reports(s, k) /\ Reports("readTimeline", work)
      /\ \A u : ~Owes(s, k, u) /\ (Owes("readTimeline", work, u) <=> result.rated /\ u \in Players(result))
  BY DEF Reports, Owes, Unrated
<1>2. RatesTold(s, k) /\ NewsTold(s, k) /\ MemoriesTold(s, k) /\ LinesTold(s, k)
  BY DEF Told
<1>3. RatesTold("readTimeline", work)'
  <2>1. \A u \in Users : Cardinality(Of(u)) = played[u] + 0 /\ played[u] \in Nat
    BY <1>1, <1>2 DEF RatesTold, TypeInv, UsersOK
  <2>2. ASSUME NEW u \in Users
        PROVE  Cardinality(Of(u))' = played'[u] + (IF Owes("readTimeline", work, u) THEN 1 ELSE 0)
    BY <1>1, <2>1, OneMoreResult
  <2>3. \A u : Owes("readTimeline", work, u)' = Owes("readTimeline", work, u)
    BY DEF Owes, Unrated
  <2> QED  BY <2>2, <2>3 DEF RatesTold
<1>4. NewsTold("readTimeline", work)'
  BY <1>1, <1>2 DEF NewsTold, Reports
<1>5. \A r : Remembered(r)' <=> Remembered(r)
  BY DEF Remembered
<1>6. MemoriesTold("readTimeline", work)'
  <2>1. OneMemoryEach'
    BY <1>2 DEF MemoriesTold, OneMemoryEach
  <2>2. \A n \in DOMAIN processed : Remembered(processed[n]) =>
          \A u \in Players(processed[n]) : HasMemory(processed[n].match, u)
    BY <1>1, <1>2 DEF MemoriesTold
  <2>3. \A g, u : HasMemory(g, u)' <=> HasMemory(g, u)
    BY DEF HasMemory
  <2>4. PICK p : p = processed'
    OBVIOUS
  <2>5. \A n \in DOMAIN p : n # Len(p) => n \in DOMAIN processed /\ p[n] = processed[n]
    BY <2>4, OneMoreResult
  <2>6. ASSUME NEW n \in DOMAIN p, Remembered(p[n])', n # Len(p)
        PROVE  \A u \in Players(p[n]) : HasMemory(p[n].match, u)'
    BY <1>5, <2>2, <2>3, <2>5, <2>6
  <2>7. work.result = result /\ work.domain = domain
    OBVIOUS
  <2> QED  BY <1>1, <1>5, <2>1, <2>4, <2>6, <2>7 DEF MemoriesTold, Reports
<1>7. LinesTold("readTimeline", work)'
  <2>1. timelines = mirror /\ \A n \in DOMAIN processed : ClosedAt(processed[n].match)
    BY <1>1, <1>2 DEF LinesTold
  <2>2. \A g : ClosedAt(g)' <=> ClosedAt(g)
    BY DEF ClosedAt
  <2>3. PICK p : p = processed'
    OBVIOUS
  <2>4. \A n \in DOMAIN p : n = Len(p) \/ (n \in DOMAIN processed /\ p[n] = processed[n])
    BY <2>3, OneMoreResult
  <2>5. \A n \in DOMAIN p : n = Len(p) \/ ClosedAt(p[n].match)'
    BY <2>1, <2>2, <2>4
  <2> QED  BY <1>1, <2>1, <2>3, <2>5 DEF LinesTold, Reports
<1> QED  BY <1>3, <1>4, <1>6, <1>7

LEMMA FixtureIndex ==
  ASSUME TypeInv
  PROVE  /\ \A n \in DOMAIN fixtures : n \in Nat \ {0}
         /\ \A n \in DOMAIN fixtures : Fixture(n) \in Int /\ Fixture(n) \notin Nat /\ -Fixture(n) = n
         /\ \A g \in DOMAIN games : g \in Nat \ {0}
<1>1. \A n \in DOMAIN fixtures : n \in Nat \ {0}
  BY DEF TypeInv, SeasonOK
<1>2. \A g \in DOMAIN games : g \in Nat \ {0}
  BY DEF TypeInv, GamesOK
<1> QED  BY <1>1, <1>2 DEF Fixture

\* The season does not see a result that is not of one of its matches.
LEMMA SeasonAfter ==
  ASSUME TypeInv, NEW s, s \notin SeasonSteps, NEW k, SeasonTold(s, k), NEW t, t \notin SeasonSteps, NEW l,
         NEW result \in ResultRow, result.match \in Nat, processed' = Append(processed, result), UNCHANGED seasonVars
  PROVE  SeasonTold(t, l)'
<1>1. season' = season /\ standings' = standings /\ fixtures' = fixtures
  BY DEF seasonVars
<1>2. Counted' = Counted /\ \A u : Earned(u)' = Earned(u)
  BY <1>1 DEF Counted, Completed, Earned
<1>3. /\ ~InPlay(s, k) /\ ~InPlay(t, l)' /\ \A u : ToCome(s, k, u) = 0 /\ ToCome(t, l, u)' = 0
  BY DEF InPlay, SeasonSteps, ToCome
<1>4. \A n \in DOMAIN fixtures :
        Cardinality(ResultsOf(Fixture(n))) = IF n \in Counted THEN 1 ELSE 0
  BY <1>3 DEF SeasonTold
<1>5. ASSUME NEW n \in DOMAIN fixtures
      PROVE  Cardinality(ResultsOf(Fixture(n)))' = IF n \in Counted THEN 1 ELSE 0
  <2>1. PICK g : g = Fixture(n) /\ g # result.match
    BY FixtureIndex
  <2>2. Cardinality(ResultsOf(g))' = Cardinality(ResultsOf(g)) + 0 /\ Cardinality(ResultsOf(g)) \in Nat
    BY <2>1, OneMoreResult
  <2>3. Cardinality(ResultsOf(g))' = Cardinality(ResultsOf(g))
    BY <2>2
  <2>4. ResultsOf(g)' = ResultsOf(Fixture(n))'
    BY <2>1 DEF Fixture
  <2> QED  BY <1>4, <2>1, <2>3, <2>4
<1>6. PICK p : p = processed'
  OBVIOUS
<1>7. ASSUME NEW n \in DOMAIN p, -p[n].match \in DOMAIN fixtures, p[n].rated
      PROVE  p[n].winner = WinnerOf(fixtures[-p[n].match])
  <2>1. n # Len(p)
    <3>1. -result.match \notin Nat \ {0}
      OBVIOUS
    <3> QED  BY <1>6, <1>7, <3>1, OneMoreResult, FixtureIndex
  <2>2. n \in DOMAIN processed /\ p[n] = processed[n]
    BY <1>6, <2>1, OneMoreResult
  <2> QED  BY <1>7, <2>2 DEF SeasonTold
<1>8. season # "ACTIVE" => fixtures = <<>> /\ standings = <<>>
  BY DEF SeasonTold
<1>9. \A u \in DOMAIN standings : Earned(u) = standings[u] + 0
  BY <1>3 DEF SeasonTold
<1>10. t \notin {"saveSnapshot", "saveSeason", "validate", "saveFixture", "saveStandings"}
  BY DEF SeasonSteps
<1> QED  BY <1>1, <1>2, <1>3, <1>5, <1>6, <1>7, <1>8, <1>9, <1>10 DEF SeasonTold

\* A result is handed over.
LEMMA ProcessTurn ==
  ASSUME TypeInv, TurnInv, NEW w \in Workers,
         NEW result \in ResultRow, NEW domain, processed' = Append(processed, result),
         NEW work, work = [match |-> result.match, result |-> result, domain |-> domain],
         Turned(w, "readTimeline", work), pc[w] \in {"idle", "saveMatch", "saveStandings"},
         UNCHANGED <<scene, played, published, memories, timelines, mirror>>, DOMAIN games' = DOMAIN games,
         domain \in {"standard", "money"} <=> Remembered(result),
         Told(pc[w], my[w]) => GamesTold("readTimeline", work)' /\ SeasonTold("readTimeline", work)'
  PROVE  TurnInv'
<1>1. ASSUME Told(pc[w], my[w]) PROVE Told("readTimeline", work)'
  <2>1. PICK s, k : s = pc[w] /\ k = my[w]
    OBVIOUS
  <2>2. s \in {"idle", "saveMatch", "saveStandings"} /\ Told(s, k)
    BY <1>1, <2>1
  <2>3. /\ RatesTold("readTimeline", work)' /\ NewsTold("readTimeline", work)'
        /\ MemoriesTold("readTimeline", work)' /\ LinesTold("readTimeline", work)'
    BY <2>2, ProcessParts
  <2> QED  BY <1>1, <2>3 DEF Told
<1> QED  BY <1>1, TurnStep

LEMMA ReportElsewhereTurn ==
  ASSUME TypeInv, TurnInv, NEW w \in Workers, UNCHANGED seasonVars,
         NEW winner \in Users, NEW loser \in Users, ReportElsewhere(w, winner, loser)
  PROVE  TurnInv'
<1>1. PICK result, domain, work :
        /\ result = [match |-> Elsewhere, winner |-> winner, loser |-> loser, rated |-> TRUE]
        /\ domain = scene.domain /\ work = [match |-> result.match, result |-> result, domain |-> domain]
  OBVIOUS
<1>2. result \in ResultRow /\ result.match = 0 /\ 0 \in Nat
  BY <1>1 DEF ResultRow, Elsewhere
<1>3. /\ Call(w, "elsewhere") /\ processed' = Append(processed, result) /\ Await(w, "readTimeline", work)
      /\ UNCHANGED <<scene, games, timelines, mirror, played, updates, memories, published>>
  BY <1>1 DEF ReportElsewhere, Process
<1>4. Turned(w, "readTimeline", work) /\ pc[w] = "idle"
  BY <1>3, TurnedCall
<1>5. domain \in {"standard", "money"} <=> Remembered(result)
  <2>1. scene.domain \in Domains
    BY ResultsAssumption DEF TypeInv
  <2> QED  BY <1>1, <1>2, <2>1, FixtureIndex DEF Remembered, Elsewhere, Domains
<1>6. ASSUME Told(pc[w], my[w]) PROVE GamesTold("readTimeline", work)' /\ SeasonTold("readTimeline", work)'
  <2>1. PICK s, k : s = pc[w] /\ k = my[w] /\ s = "idle"
    BY <1>4
  <2>2. GamesTold(s, k) /\ SeasonTold(s, k)
    BY <1>6, <2>1 DEF Told
  <2>3. SeasonTold("readTimeline", work)'
    BY <1>2, <1>3, <2>1, <2>2, SeasonAfter DEF SeasonSteps
  <2>4. \A g \in DOMAIN games' : Cardinality(ResultsOf(g))' = IF games'[g].status = "COMPLETED" THEN 1 ELSE 0
    <3>1. ASSUME NEW g \in DOMAIN games
          PROVE  Cardinality(ResultsOf(g))' = Cardinality(ResultsOf(g))
      <4>1. g # result.match
        BY <1>2, FixtureIndex
      <4>2. Cardinality(ResultsOf(g))' = Cardinality(ResultsOf(g)) + 0 /\ Cardinality(ResultsOf(g)) \in Nat
        BY <1>2, <1>3, <4>1, OneMoreResult
      <4> QED  BY <4>2
    <3> QED  BY <1>3, <2>2, <3>1 DEF GamesTold
  <2>5. \A n \in DOMAIN processed' : processed'[n].match \in Matches' \cup {Fixture(j) : j \in DOMAIN fixtures'}
    <3>1. fixtures' = fixtures /\ Matches' = Matches /\ result.match \in Matches
      BY <1>2, <1>3 DEF seasonVars, Matches, Elsewhere
    <3> QED  BY <1>3, <2>2, <3>1, OneMoreResult DEF GamesTold
  <2> QED  BY <2>3, <2>4, <2>5 DEF GamesTold, Fixture
<1> QED  BY <1>1, <1>2, <1>3, <1>4, <1>5, <1>6, ProcessTurn

LEMMA SaveMatchTurn ==
  ASSUME TypeInv, TurnInv, NEW w \in Workers, UNCHANGED seasonVars, SaveMatch(w)
  PROVE  TurnInv'
<1>1. PICK g, copy, result, work :
        /\ g = my[w].match /\ copy = my[w].copy /\ result = Result(g, copy)
        /\ work = [match |-> g, result |-> result, domain |-> "standard"]
  OBVIOUS
<1>2. /\ pc[w] = "saveMatch" /\ At(w, "saveMatch") /\ games' = [games EXCEPT ![g] = copy]
      /\ UNCHANGED <<scene, timelines, mirror, played, memories, published>>
  BY <1>1, Served1 DEF SaveMatch
<1>3. g \in DOMAIN games /\ copy \in Game
  BY <1>1, <1>2 DEF TypeInv, Equipped, Holds, HoldsResult, Sound
<1>4. g \in Nat \ {0} /\ DOMAIN games' = DOMAIN games
  BY <1>2, <1>3, FixtureIndex
<1>5. /\ games'[g] = copy /\ \A h \in DOMAIN games : h # g => games'[h] = games[h]
  BY <1>2, <1>3
<1>6. Told(pc[w], my[w]) => Cardinality(ResultsOf(g)) = 0 /\ games[g].status # "COMPLETED"
  BY <1>1, <1>2, <1>3 DEF Told, GamesTold, Open
<1>7. CASE copy.status = "COMPLETED"
  <2>1. processed' = Append(processed, result) /\ Await(w, "readTimeline", work)
    BY <1>1, <1>7 DEF SaveMatch, Process, Result
  <2>2. result \in ResultRow /\ result.match = g
    <3>1. copy.A \in Users /\ copy.B \in Users
      BY <1>3 DEF Game
    <3>2. result = [match |-> g, winner |-> IF copy.score.A > copy.score.B THEN copy.A ELSE copy.B,
                    loser |-> IF copy.score.A > copy.score.B THEN copy.B ELSE copy.A, rated |-> TRUE]
      BY <1>1 DEF Result
    <3> QED  BY <1>4, <3>1, <3>2 DEF ResultRow
  <2>3. Turned(w, "readTimeline", work)
    BY <1>2, <2>1, TurnedAt
  <2>4. "standard" \in {"standard", "money"} <=> Remembered(result)
    BY <1>3, <2>2 DEF Remembered
  <2>5. ASSUME Told(pc[w], my[w]) PROVE GamesTold("readTimeline", work)' /\ SeasonTold("readTimeline", work)'
    <3>1. PICK s, k : s = pc[w] /\ k = my[w] /\ s = "saveMatch"
      BY <1>2
    <3>2. GamesTold(s, k) /\ SeasonTold(s, k)
      BY <2>5, <3>1 DEF Told
    <3>3. SeasonTold("readTimeline", work)'
      BY <1>4, <2>1, <2>2, <3>1, <3>2, SeasonAfter DEF SeasonSteps
    <3>4. ASSUME NEW h \in DOMAIN games
          PROVE  Cardinality(ResultsOf(h))' = IF games'[h].status = "COMPLETED" THEN 1 ELSE 0
      <4>1. /\ Cardinality(ResultsOf(h)) \in Nat
            /\ Cardinality(ResultsOf(h))' = Cardinality(ResultsOf(h)) + (IF h = g THEN 1 ELSE 0)
        BY <2>1, <2>2, OneMoreResult
      <4>2. CASE h = g
        <5>1. games'[h].status = "COMPLETED" /\ Cardinality(ResultsOf(h)) = 0
          BY <1>5, <1>6, <1>7, <2>5, <4>2
        <5> QED  BY <4>1, <4>2, <5>1
      <4>3. CASE h # g
        <5>1. games'[h] = games[h] /\ Cardinality(ResultsOf(h))' = Cardinality(ResultsOf(h))
          BY <1>5, <4>1, <4>3
        <5> QED  BY <3>2, <5>1 DEF GamesTold
      <4> QED  BY <4>2, <4>3
    <3>5. \A n \in DOMAIN processed' : processed'[n].match \in Matches' \cup {Fixture(j) : j \in DOMAIN fixtures'}
      <4>1. fixtures' = fixtures /\ Matches' = Matches /\ result.match \in Matches
        BY <1>3, <1>4, <2>2 DEF seasonVars, Matches
      <4> QED  BY <2>1, <2>2, <3>2, <4>1, OneMoreResult DEF GamesTold
    <3> QED  BY <1>4, <3>3, <3>4, <3>5 DEF GamesTold, Fixture
  <2> QED  BY <1>2, <1>4, <2>1, <2>2, <2>3, <2>4, <2>5, <1>1, ProcessTurn
<1>8. CASE copy.status # "COMPLETED"
  <2>1. Answer(w) /\ UNCHANGED processed
    BY <1>1, <1>8 DEF SaveMatch
  <2>2. Turned(w, "idle", NoWork)
    BY <1>2, <2>1, TurnedAt DEF Answer
  <2>3. ASSUME Told(pc[w], my[w]) PROVE Told("idle", NoWork)'
    <3>1. PICK s, k : s = pc[w] /\ k = my[w] /\ s = "saveMatch" /\ Told(s, k)
      BY <1>2, <2>3
    <3>2. /\ ~Reports(s, k) /\ ~Reports("idle", NoWork)
          /\ \A u : ~Owes(s, k, u) /\ ~Owes("idle", NoWork, u)
          /\ "idle" \notin SeasonSteps /\ s \notin SeasonSteps
      BY <3>1 DEF Reports, Owes, Unrated, SeasonSteps
    <3>3. /\ RatesTold("idle", NoWork) /\ NewsTold("idle", NoWork) /\ MemoriesTold("idle", NoWork)
          /\ LinesTold("idle", NoWork) /\ SeasonTold("idle", NoWork)
      BY <3>1, <3>2, PartsGoOn DEF Told
    <3>4. /\ RatesTold("idle", NoWork)' /\ NewsTold("idle", NoWork)'
          /\ LinesTold("idle", NoWork)' /\ SeasonTold("idle", NoWork)'
      BY <1>2, <2>1, <3>3, PartsStill
    <3>5. MemoriesTold("idle", NoWork)'
      <4>1. /\ \A r : Remembered(r)' <=> Remembered(r)
            /\ \A h, u : HasMemory(h, u)' <=> HasMemory(h, u)
            /\ OneMemoryEach' <=> OneMemoryEach
        BY <1>2, <1>4 DEF Remembered, HasMemory, OneMemoryEach
      <4>2. PICK p : p = processed /\ p = processed'
        BY <2>1
      <4>3. OneMemoryEach /\ \A n \in DOMAIN p : Remembered(p[n]) =>
              \A u \in Players(p[n]) : HasMemory(p[n].match, u)
        BY <3>2, <3>3, <4>2 DEF MemoriesTold
      <4>4. \A n \in DOMAIN p : Remembered(p[n])' =>
              \A u \in Players(p[n]) : HasMemory(p[n].match, u)'
        BY <4>1, <4>3
      <4> QED  BY <3>2, <4>1, <4>2, <4>3, <4>4 DEF MemoriesTold, Reports
    <3>6. GamesTold("idle", NoWork)'
      <4>1. \A h \in DOMAIN games' : games'[h].status = "COMPLETED" <=> games[h].status = "COMPLETED"
        BY <1>4, <1>5, <1>6, <1>8, <2>3
      <4>2. /\ \A h \in DOMAIN games' : Cardinality(ResultsOf(h)) = IF games'[h].status = "COMPLETED" THEN 1 ELSE 0
            /\ \A n \in DOMAIN processed : processed[n].match \in Matches \cup {Fixture(j) : j \in DOMAIN fixtures}
        BY <1>4, <3>1, <4>1 DEF Told, GamesTold
      <4>3. /\ \A h : ResultsOf(h)' = ResultsOf(h)
            /\ Matches' = Matches /\ fixtures' = fixtures
        BY <1>4, <2>1 DEF ResultsOf, Matches, seasonVars
      <4> QED  BY <2>1, <4>2, <4>3 DEF GamesTold, Fixture
    <3> QED  BY <3>4, <3>5, <3>6 DEF Told
  <2> QED  BY <2>2, <2>3, TurnStep
<1> QED  BY <1>7, <1>8

LEMMA SaveStandingsSeason ==
  ASSUME TypeInv, NEW k, Told("saveStandings", k), k.fixture \in DOMAIN fixtures, Paired(k.copy),
         NEW result \in ResultRow, processed' = Append(processed, result),
         result.match = Fixture(k.fixture), result.winner = WinnerOf(k.copy),
         standings' = [u \in DOMAIN standings |->
           IF u \in PlayersOf(k.copy) THEN k.points[u] + PointsFor(k.copy, u) ELSE standings[u]],
         UNCHANGED <<season, fixtures>>, NEW work
  PROVE  SeasonTold("readTimeline", work)'
<1>1. PICK n, copy : n = k.fixture /\ copy = k.copy
  OBVIOUS
<1>2. /\ fixtures[n] = copy /\ copy.status = "COMPLETED" /\ PlayersOf(copy) \subseteq DOMAIN standings
      /\ \A u \in PlayersOf(copy) : k.points[u] = standings[u]
      /\ InPlay("saveStandings", k)
  BY <1>1 DEF Told, SeasonTold, InPlay
<1>3. Counted' = Counted /\ (\A u : Earned(u)' = Earned(u)) /\ n \in Counted
  <2>1. DOMAIN standings' = DOMAIN standings
    OBVIOUS
  <2>2. Counted' = Counted
    BY <2>1 DEF Counted, Completed
  <2>3. n \in Counted
    BY <1>1, <1>2 DEF Counted, Completed
  <2> QED  BY <2>2, <2>3 DEF Earned
<1>4. season = "ACTIVE"
  <2>1. fixtures # <<>>
    <3>1. DOMAIN fixtures # {}
      OBVIOUS
    <3>2. DOMAIN <<>> = {}
      OBVIOUS
    <3> QED  BY <3>1, <3>2
  <2> QED  BY <2>1 DEF Told, SeasonTold
<1>5. ASSUME NEW u \in DOMAIN standings PROVE standings'[u] = Earned(u)
  <2>1. Earned(u) = standings[u] + ToCome("saveStandings", k, u) /\ standings[u] \in Nat
    BY DEF Told, SeasonTold, TypeInv, SeasonOK
  <2>2. CASE u \in PlayersOf(copy)
    BY <1>1, <1>2, <2>1, <2>2 DEF ToCome
  <2>3. CASE u \notin PlayersOf(copy)
    <3>1. standings'[u] = standings[u] /\ ToCome("saveStandings", k, u) = 0
      BY <1>1, <2>3 DEF ToCome
    <3> QED  BY <2>1, <3>1
  <2> QED  BY <2>2, <2>3
<1>6. ~InPlay("readTimeline", work)' /\ \A u : ToCome("readTimeline", work, u)' = 0
  BY DEF InPlay, ToCome
<1>7. ASSUME NEW m \in DOMAIN fixtures
      PROVE  Cardinality(ResultsOf(Fixture(m)))' = IF m \in Counted THEN 1 ELSE 0
  <2>1. PICK g : g = Fixture(m) /\ (g = result.match <=> m = n)
    BY <1>1, FixtureIndex
  <2>2. /\ Cardinality(ResultsOf(g))' = Cardinality(ResultsOf(g)) + (IF g = result.match THEN 1 ELSE 0)
        /\ Cardinality(ResultsOf(g)) \in Nat
    BY OneMoreResult
  <2>3. Cardinality(ResultsOf(g)) = IF m \in Counted /\ m # n THEN 1 ELSE 0
    BY <1>1, <1>2, <2>1 DEF Told, SeasonTold
  <2>4. Cardinality(ResultsOf(g))' = IF m \in Counted THEN 1 ELSE 0
    BY <1>3, <2>1, <2>2, <2>3
  <2>5. ResultsOf(g)' = ResultsOf(Fixture(m))'
    BY <2>1 DEF Fixture
  <2> QED  BY <2>4, <2>5
<1>8. PICK p : p = processed'
  OBVIOUS
<1>9. ASSUME NEW m \in DOMAIN p, -p[m].match \in DOMAIN fixtures, p[m].rated
      PROVE  p[m].winner = WinnerOf(fixtures[-p[m].match])
  <2>1. CASE m = Len(p)
    <3>1. p[m] = result /\ -result.match = n
      BY <1>1, <1>8, <2>1, OneMoreResult, FixtureIndex
    <3> QED  BY <1>1, <1>2, <3>1
  <2>2. CASE m # Len(p)
    <3>1. m \in DOMAIN processed /\ p[m] = processed[m]
      BY <1>8, <2>2, OneMoreResult
    <3> QED  BY <1>9, <3>1 DEF Told, SeasonTold
  <2> QED  BY <2>1, <2>2
<1>10. DOMAIN standings' = DOMAIN standings
  OBVIOUS
<1>11. ASSUME NEW u \in DOMAIN standings PROVE Earned(u)' = standings'[u] + 0
  <2>1. standings'[u] = Earned(u) /\ standings[u] \in Nat /\ ToCome("saveStandings", k, u) \in Nat
    <3>1. \A v : PointsFor(copy, v) \in Nat
      BY DEF PointsFor
    <3> QED  BY <1>1, <1>5, <3>1 DEF ToCome, TypeInv, SeasonOK
  <2>2. Earned(u) \in Nat
    BY <2>1 DEF Told, SeasonTold
  <2> QED  BY <1>3, <2>1, <2>2
<1> QED  BY <1>3, <1>4, <1>6, <1>7, <1>8, <1>9, <1>10, <1>11 DEF SeasonTold

LEMMA SaveStandingsTurn ==
  ASSUME TypeInv, TurnInv, NEW w \in Workers, SaveStandings(w)
  PROVE  TurnInv'
<1>1. PICK k, result, work :
        /\ k = my[w] /\ result \in ResultRow /\ Process(w, result, "league_v2")
        /\ result.match = Fixture(k.fixture) /\ result.winner = WinnerOf(k.copy)
        /\ work = [match |-> result.match, result |-> result, domain |-> "league_v2"]
  BY FixtureResult
<1>2. /\ pc[w] = "saveStandings" /\ At(w, "saveStandings")
      /\ processed' = Append(processed, result) /\ Await(w, "readTimeline", work)
      /\ UNCHANGED <<scene, games, timelines, mirror, played, updates, memories, published, season, fixtures>>
      /\ standings' = [u \in DOMAIN standings |->
           IF u \in PlayersOf(k.copy) THEN k.points[u] + PointsFor(k.copy, u) ELSE standings[u]]
  BY <1>1, Served1 DEF SaveStandings, Process
<1>3. k.fixture \in DOMAIN fixtures /\ Paired(k.copy)
  BY <1>1, <1>2 DEF TypeInv, Equipped, Holds, HoldsSeason
<1>4. Turned(w, "readTimeline", work)
  BY <1>2, TurnedAt
<1>5. "league_v2" \in {"standard", "money"} <=> Remembered(result)
  <2>1. result.match \notin Nat /\ \A g \in DOMAIN games : g \in Nat
    BY <1>1, <1>3, FixtureIndex
  <2> QED  BY <2>1 DEF Remembered, Elsewhere
<1>6. ASSUME Told(pc[w], my[w]) PROVE GamesTold("readTimeline", work)' /\ SeasonTold("readTimeline", work)'
  <2>1. Told("saveStandings", k)
    BY <1>1, <1>2, <1>6
  <2>2. SeasonTold("readTimeline", work)'
    BY <1>1, <1>2, <1>3, <2>1, SaveStandingsSeason
  <2>3. ASSUME NEW g \in DOMAIN games
        PROVE  Cardinality(ResultsOf(g))' = Cardinality(ResultsOf(g))
    <3>1. g # result.match
      BY <1>1, <1>3, FixtureIndex
    <3>2. Cardinality(ResultsOf(g))' = Cardinality(ResultsOf(g)) + 0 /\ Cardinality(ResultsOf(g)) \in Nat
      BY <1>1, <1>2, <3>1, OneMoreResult
    <3> QED  BY <3>2
  <2>4. \A n \in DOMAIN processed' : processed'[n].match \in Matches' \cup {Fixture(j) : j \in DOMAIN fixtures'}
    <3>1. fixtures' = fixtures /\ Matches' = Matches /\ result.match \in {Fixture(j) : j \in DOMAIN fixtures}
      BY <1>1, <1>2, <1>3 DEF Matches
    <3> QED  BY <1>1, <1>2, <2>1, <3>1, OneMoreResult DEF Told, GamesTold
  <2>5. \A g \in DOMAIN games' : Cardinality(ResultsOf(g))' = IF games'[g].status = "COMPLETED" THEN 1 ELSE 0
    BY <1>2, <2>1, <2>3 DEF Told, GamesTold
  <2> QED  BY <2>2, <2>4, <2>5 DEF GamesTold, Fixture
<1>7. DOMAIN games' = DOMAIN games
  BY <1>2
<1> QED  BY <1>1, <1>2, <1>4, <1>5, <1>6, <1>7, ProcessTurn

\* A match that is created has no result.
LEMMA CreateTurn ==
  ASSUME TypeInv, TurnInv, NEW w \in Workers, UNCHANGED seasonVars, NEW a \in Users, NEW b \in Users, Create(w, a, b)
  PROVE  TurnInv'
<1>1. PICK game : game \in {Standard(a, b)} \cup {PyramidMatch(a, b, rack) : rack \in Racks} /\ games' = Append(games, game)
  BY DEF Create
<1>2. /\ Call(w, "create") /\ UNCHANGED <<pc, my>> /\ a # b
      /\ UNCHANGED <<scene, timelines, mirror, played, updates, memories, published, processed>>
  BY DEF Create
<1>3. game \in Game /\ game.status = "PENDING"
  <2>1. Sound(game)
    BY <1>1, <1>2, NewGame
  <2>2. Standard(a, b).status = "PENDING" /\ \A rack : PyramidMatch(a, b, rack).status = "PENDING"
    BY DEF Standard, PyramidMatch
  <2> QED  BY <1>1, <2>1, <2>2 DEF Sound
<1>4. PICK g1 : g1 = Len(games) + 1
  OBVIOUS
<1>5. games \in Seq(Game) /\ g1 \in Nat \ {0} /\ g1 \notin DOMAIN games
  BY <1>4 DEF TypeInv, GamesOK
<1>6. /\ DOMAIN games' = (DOMAIN games) \cup {g1} /\ games'[g1] = game
      /\ \A g \in DOMAIN games : games'[g] = games[g]
  BY <1>1, <1>3, <1>4, <1>5, InsertedRow
<1>7. ASSUME Told("idle", NoWork) PROVE Told("idle", NoWork)'
  <2>1. RatesTold("idle", NoWork)' /\ NewsTold("idle", NoWork)' /\ LinesTold("idle", NoWork)' /\ SeasonTold("idle", NoWork)'
    BY <1>2, <1>7, PartsStill DEF Told
  <2>2. \A n \in DOMAIN processed : processed[n].match # g1
    <3>1. g1 \notin Matches \cup {Fixture(j) : j \in DOMAIN fixtures}
      BY <1>5, FixtureIndex DEF Matches, Elsewhere
    <3> QED  BY <1>7, <3>1 DEF Told, GamesTold
  <2>3. GamesTold("idle", NoWork)'
    <3>1. Cardinality(ResultsOf(g1)) = 0
      <4>1. ResultsOf(g1) = {}
        BY <2>2 DEF ResultsOf
      <4> QED  BY <4>1, FS_EmptySet
    <3>2. \A g \in DOMAIN games' : Cardinality(ResultsOf(g)) = IF games'[g].status = "COMPLETED" THEN 1 ELSE 0
      BY <1>3, <1>6, <1>7, <3>1 DEF Told, GamesTold
    <3>3. \A n \in DOMAIN processed : processed[n].match \in Matches' \cup {Fixture(j) : j \in DOMAIN fixtures}
      BY <1>6, <1>7 DEF Told, GamesTold, Matches
    <3>4. fixtures' = fixtures /\ processed' = processed /\ \A g : ResultsOf(g)' = ResultsOf(g)
      BY <1>2 DEF seasonVars, ResultsOf
    <3> QED  BY <3>2, <3>3, <3>4 DEF GamesTold, Fixture
  <2>4. MemoriesTold("idle", NoWork)'
    <3>1. /\ \A r : r.match # g1 => (Remembered(r)' <=> Remembered(r))
          /\ \A g, u : HasMemory(g, u)' <=> HasMemory(g, u)
          /\ OneMemoryEach' <=> OneMemoryEach
      BY <1>2, <1>6 DEF Remembered, HasMemory, OneMemoryEach
    <3>2. PICK p : p = processed /\ p = processed'
      BY <1>2
    <3>3. ~Reports("idle", NoWork)
      BY DEF Reports
    <3>4. OneMemoryEach /\ \A n \in DOMAIN p : Remembered(p[n]) => \A u \in Players(p[n]) : HasMemory(p[n].match, u)
      BY <1>7, <3>2, <3>3 DEF Told, MemoriesTold
    <3>5. \A n \in DOMAIN p : Remembered(p[n])' => \A u \in Players(p[n]) : HasMemory(p[n].match, u)'
      BY <2>2, <3>1, <3>2, <3>4
    <3> QED  BY <3>1, <3>2, <3>3, <3>4, <3>5 DEF MemoriesTold, Reports
  <2> QED  BY <2>1, <2>3, <2>4 DEF Told
<1> QED  BY <1>2, <1>7, TurnCall

-----------------------------------------------------------------------------
(* In turn: timelines *)

LEMMA ClosedRow ==
  ASSUME NEW row \in Timeline, NEW type \in EventTypes
  PROVE  /\ Closed(row) => Closed(Extended(row, type)) /\ Closed(Unless(row, type))
         /\ Closed(Finalized(row))
<1>1. ASSUME NEW row0 \in Timeline, NEW type0 \in EventTypes
      PROVE  /\ Extended(row0, type0) \in Timeline /\ Extended(row0, type0).finalized = row0.finalized
             /\ Has(Extended(row0, type0), type0)
             /\ \A t : Has(row0, t) => Has(Extended(row0, type0), t)
  <2>1. PICK old, new : old = row0.events /\ new = Append(old, type0)
    OBVIOUS
  <2>2. old \in Seq(EventTypes)
    BY <2>1 DEF Timeline
  <2>3. DOMAIN old \subseteq DOMAIN new /\ (\A n \in DOMAIN old : new[n] = old[n]) /\ \E n \in DOMAIN new : new[n] = type0
    BY <2>1, <2>2, InsertedRow
  <2>4. Extended(row0, type0).events = new
    BY <2>1 DEF Extended, Timeline
  <2> QED  BY <2>1, <2>3, <2>4, ExtendedRow DEF Has
<1>2. Closed(row) => Closed(Extended(row, type)) /\ Closed(Unless(row, type))
  BY <1>1 DEF Closed, Unless
<1>3. Closed(Finalized(row))
  <2>1. PICK row1 : row1 = Unless(row, "match_end")
    OBVIOUS
  <2>2. row1 \in Timeline /\ Has(row1, "match_end")
    BY <1>1, <2>1 DEF Unless, EventTypes
  <2>3. [row1 EXCEPT !.finalized = TRUE].events = row1.events /\ [row1 EXCEPT !.finalized = TRUE].finalized
    BY <2>2 DEF Timeline
  <2> QED  BY <2>1, <2>2, <2>3 DEF Finalized, Closed, Has
<1> QED  BY <1>2, <1>3

\* What a request says of everything but the timelines, when it goes on with what it reports.
LEMMA OthersGoOn ==
  ASSUME NEW s, NEW k, NEW t, NEW l, Told(s, k), s \notin SeasonSteps,
         t \notin SeasonSteps \cup {"saveMatch", "askRealAi", "saveUsers", "saveSeed", "createMemories", "publish"},
         \A u \in Users : Owes(s, k, u) <=> Owes(t, l, u), Reports(s, k) <=> Reports(t, l),
         Reports(t, l) => k.result = l.result /\ k.domain = l.domain,
         UNCHANGED <<games, processed, played, published, memories, scene, seasonVars>>
  PROVE  GamesTold(t, l)' /\ RatesTold(t, l)' /\ NewsTold(t, l)' /\ MemoriesTold(t, l)' /\ SeasonTold(t, l)'
<1>1. /\ t # "saveMatch" /\ t \notin {"askRealAi", "saveUsers"} /\ t # "saveSeed"
      /\ t # "createMemories" /\ t # "publish" /\ t \notin SeasonSteps
  OBVIOUS
<1>2. GamesTold(t, l) /\ RatesTold(t, l) /\ SeasonTold(t, l)
  BY <1>1, PartsGoOn DEF Told
<1>3. NewsTold(t, l) /\ MemoriesTold(t, l)
  BY <1>1, PartsGoOn DEF Told
<1>4. UNCHANGED fixtures
  BY DEF seasonVars
<1> QED  BY <1>2, <1>3, <1>4, PartsStill

LEMMA TimelineTurn ==
  ASSUME TypeInv, TurnInv, NEW w \in Workers, UNCHANGED seasonVars, NEW g \in Matches,
         StartTimeline(w, g) \/ (\E type \in EventTypes : AppendEvent(w, g, type))
  PROVE  TurnInv'
<1>1. PICK old, fresh : old = TimelineOf(g) /\ (fresh <=> g \notin DOMAIN timelines) /\ fresh = (g \notin DOMAIN timelines)
  OBVIOUS
<1>2. old \in Timeline
  BY <1>1, TimelineFound DEF ClosedForAResult
<1>3. \E row : /\ Closed(old) => Closed(row)
               /\ Await(w, "saveTimeline", [match |-> g, fresh |-> fresh, row |-> row])
               /\ UNCHANGED resultVars
               /\ \E call : Call(w, call)
  <2>1. CASE StartTimeline(w, g)
    <3>1. Closed(old) => Closed(Unless(old, "match_start"))
      BY <1>2, ClosedRow DEF EventTypes
    <3> QED  BY <1>1, <2>1, <3>1 DEF StartTimeline, AwaitTimeline
  <2>2. CASE \E type \in EventTypes : AppendEvent(w, g, type)
    <3>1. PICK type \in EventTypes : AppendEvent(w, g, type)
      BY <2>2
    <3>2. Closed(old) => Closed(Extended(old, type))
      BY <1>2, ClosedRow
    <3> QED  BY <1>1, <3>1, <3>2 DEF AppendEvent, AwaitTimeline
  <2> QED  BY <2>1, <2>2
<1>4. PICK row, work : /\ Closed(old) => Closed(row)
                       /\ work = [match |-> g, fresh |-> fresh, row |-> row]
                       /\ Await(w, "saveTimeline", work) /\ UNCHANGED resultVars
                       /\ \E call : Call(w, call)
  BY <1>3
<1>5. Turned(w, "saveTimeline", work) /\ pc[w] = "idle"
  BY <1>4, TurnedCall
<1>6. "result" \notin DOMAIN work /\ work.match = g /\ (work.fresh <=> g \notin DOMAIN timelines) /\ work.row = row
  BY <1>1, <1>4
<1>7. ASSUME Told(pc[w], my[w]) PROVE Told("saveTimeline", work)'
  <2>1. PICK s, k : s = pc[w] /\ k = my[w] /\ s = "idle" /\ Told(s, k)
    BY <1>5, <1>7
  <2>2. /\ ~Reports(s, k) /\ ~Reports("saveTimeline", work)
        /\ \A u : ~Owes(s, k, u) /\ ~Owes("saveTimeline", work, u)
        /\ "saveTimeline" \notin SeasonSteps /\ s \notin SeasonSteps
    BY <1>6, <2>1 DEF Reports, Owes, Unrated, SeasonSteps
  <2>3. UNCHANGED <<games, processed, played, published, memories, scene, seasonVars, timelines, mirror>>
    BY <1>4 DEF resultVars
  <2>4. /\ GamesTold("saveTimeline", work)' /\ RatesTold("saveTimeline", work)' /\ NewsTold("saveTimeline", work)'
        /\ MemoriesTold("saveTimeline", work)' /\ SeasonTold("saveTimeline", work)'
    BY <2>1, <2>2, <2>3, OthersGoOn
  <2>5. LinesTold("saveTimeline", work)
    <3>1. timelines = mirror /\ \A n \in DOMAIN processed : ClosedAt(processed[n].match)
      BY <2>1, <2>2 DEF Told, LinesTold
    <3>2. ClosedAt(g) => Closed(row)
      BY <1>1, <1>4 DEF ClosedAt, TimelineOf
    <3> QED  BY <1>6, <3>1, <3>2 DEF LinesTold
  <2>6. LinesTold("saveTimeline", work)'
    BY <2>3, <2>5, PartsStill
  <2> QED  BY <2>4, <2>6 DEF Told
<1> QED  BY <1>5, <1>7, TurnStep

LEMMA ReadTimelineTurn ==
  ASSUME TypeInv, TurnInv, NEW w \in Workers, UNCHANGED seasonVars, ReadTimeline(w)
  PROVE  TurnInv'
<1>1. PICK g, result, domain, fresh :
        /\ g = my[w].match /\ result = my[w].result /\ domain = my[w].domain /\ fresh = (g \notin DOMAIN timelines)
  OBVIOUS
<1>2. pc[w] = "readTimeline" /\ At(w, "readTimeline") /\ UNCHANGED resultVars
  BY Served1 DEF ReadTimeline
<1>3. Handed(result) /\ g = result.match
  BY <1>1, <1>2 DEF TypeInv, Equipped, Holds, HoldsResult
<1>4. PICK row : row = IF g \in DOMAIN timelines THEN timelines[g] ELSE Extended(NewTimeline, "match_start")
  OBVIOUS
<1>5. row \in Timeline
  <2>1. NewTimeline \in Timeline
    BY DEF NewTimeline, Timeline
  <2> QED  BY <1>4, <2>1, ExtendedRow DEF EventTypes, TypeInv, TimelinesOK, ClosedForAResult
<1>6. PICK final : final = Finalized(row) /\ Closed(final)
  BY <1>5, ClosedRow DEF EventTypes
<1>7. PICK work : work = [match |-> g, fresh |-> fresh, row |-> final, result |-> result, domain |-> domain]
  OBVIOUS
<1>8. Await(w, "saveTimeline", work)
  BY <1>1, <1>4, <1>6, <1>7 DEF ReadTimeline
<1>9. Turned(w, "saveTimeline", work)
  BY <1>2, <1>8, TurnedAt
<1>10. /\ "result" \in DOMAIN work /\ work.match = g /\ (work.fresh <=> g \notin DOMAIN timelines)
       /\ work.row = final /\ work.result = result /\ work.domain = domain
  BY <1>1, <1>7
<1>11. ASSUME Told(pc[w], my[w]) PROVE Told("saveTimeline", work)'
  <2>1. PICK s, k : s = pc[w] /\ k = my[w] /\ s = "readTimeline" /\ Told(s, k)
    BY <1>2, <1>11
  <2>2. /\ Reports(s, k) /\ Reports("saveTimeline", work)
        /\ k.result = work.result /\ k.domain = work.domain
        /\ \A u : Owes(s, k, u) <=> Owes("saveTimeline", work, u)
        /\ "saveTimeline" \notin SeasonSteps /\ s \notin SeasonSteps
    BY <1>1, <1>10, <2>1 DEF Reports, Owes, Unrated, SeasonSteps
  <2>3. UNCHANGED <<games, processed, played, published, memories, scene, seasonVars, timelines, mirror>>
    BY <1>2 DEF resultVars
  <2>4. /\ GamesTold("saveTimeline", work)' /\ RatesTold("saveTimeline", work)' /\ NewsTold("saveTimeline", work)'
        /\ MemoriesTold("saveTimeline", work)' /\ SeasonTold("saveTimeline", work)'
    BY <2>1, <2>2, <2>3, OthersGoOn
  <2>5. LinesTold("saveTimeline", work)
    BY <1>3, <1>6, <1>10, <2>1, <2>2 DEF Told, LinesTold
  <2>6. LinesTold("saveTimeline", work)'
    BY <2>3, <2>5, PartsStill
  <2> QED  BY <2>4, <2>6 DEF Told
<1> QED  BY <1>9, <1>11, TurnStep

LEMMA SaveTimelineTurn ==
  ASSUME TypeInv, TurnInv, NEW w \in Workers, UNCHANGED seasonVars, SaveTimeline(w)
  PROVE  TurnInv'
<1>1. PICK k, g, row : k = my[w] /\ g = k.match /\ row = k.row
  OBVIOUS
<1>2. /\ pc[w] = "saveTimeline" /\ At(w, "saveTimeline")
      /\ UNCHANGED <<games, processed, played, published, memories, scene, seasonVars, mirror>>
  BY Served1 DEF SaveTimeline
<1>3. CASE k.fresh /\ g \in DOMAIN timelines
  <2>1. ~Told(pc[w], my[w])
    BY <1>1, <1>2, <1>3 DEF Told, LinesTold
  <2>2. PICK step, work : Await(w, step, work)
    BY <1>1, <1>3 DEF SaveTimeline, Answer
  <2>3. Turned(w, step, work)
    BY <1>2, <2>2, TurnedAt
  <2> QED  BY <2>1, <2>3, TurnStep
<1>4. CASE ~(k.fresh /\ g \in DOMAIN timelines)
  <2>1. /\ timelines' = [m \in (DOMAIN timelines) \cup {g} |-> IF m = g THEN row ELSE timelines[m]]
        /\ Then(w, "mirrorTimeline")
    BY <1>1, <1>4 DEF SaveTimeline
  <2>2. Turned(w, "mirrorTimeline", k)
    <3>1. Await(w, "mirrorTimeline", k)
      BY <1>1, <2>1, ThenAwait DEF TypeInv
    <3> QED  BY <1>2, <3>1, TurnedAt
  <2>3. ASSUME Told(pc[w], my[w]) PROVE Told("mirrorTimeline", k)'
    <3>1. PICK s : s = pc[w] /\ s = "saveTimeline" /\ Told(s, k)
      BY <1>1, <1>2, <2>3
    <3>2. /\ Reports(s, k) <=> Reports("mirrorTimeline", k)
          /\ \A u : Owes(s, k, u) <=> Owes("mirrorTimeline", k, u)
          /\ "mirrorTimeline" \notin SeasonSteps /\ s \notin SeasonSteps
      BY <3>1 DEF Reports, Owes, Unrated, SeasonSteps
    <3>3. /\ GamesTold("mirrorTimeline", k)' /\ RatesTold("mirrorTimeline", k)' /\ NewsTold("mirrorTimeline", k)'
          /\ MemoriesTold("mirrorTimeline", k)' /\ SeasonTold("mirrorTimeline", k)'
      BY <1>2, <3>1, <3>2, OthersGoOn
    <3>4. /\ timelines = mirror /\ (ClosedAt(g) => Closed(row))
          /\ "result" \in DOMAIN k => g = k.result.match /\ Closed(row)
          /\ \A n \in DOMAIN processed : (n = Len(processed) /\ Reports(s, k)) \/ ClosedAt(processed[n].match)
      BY <1>1, <3>1 DEF Told, LinesTold
    <3>5. \A h : ClosedAt(h) => ClosedAt(h)'
      BY <2>1, <3>4 DEF ClosedAt
    <3>6. Closed(row) => ClosedAt(g)'
      BY <2>1 DEF ClosedAt
    <3>7. PICK p : p = processed /\ p = processed'
      BY <1>2
    <3>8. ASSUME NEW n \in DOMAIN p PROVE ClosedAt(p[n].match)'
      <4>1. CASE n = Len(p) /\ Reports(s, k)
        <5>1. p = Append(published, k.result) /\ published \in Seq(ResultRow) /\ "result" \in DOMAIN k
          BY <3>1, <3>7, <4>1 DEF Told, NewsTold, Reports
        <5>2. p[n] = k.result
          BY <4>1, <5>1
        <5> QED  BY <3>4, <3>6, <5>1, <5>2
      <4>2. CASE ~(n = Len(p) /\ Reports(s, k))
        BY <3>4, <3>5, <3>7, <4>2
      <4> QED  BY <4>1, <4>2
    <3>9. timelines' = [h \in (DOMAIN mirror') \cup {k.match} |-> IF h = k.match THEN k.row ELSE mirror'[h]]
      BY <1>1, <1>2, <2>1, <3>4
    <3>10. LinesTold("mirrorTimeline", k)'
      BY <3>7, <3>8, <3>9 DEF LinesTold
    <3> QED  BY <3>3, <3>10 DEF Told
  <2> QED  BY <2>2, <2>3, TurnStep
<1> QED  BY <1>3, <1>4

LEMMA MirrorTimelineTurn ==
  ASSUME TypeInv, TurnInv, NEW w \in Workers, UNCHANGED seasonVars, MirrorTimeline(w)
  PROVE  TurnInv'
<1>1. PICK k, g, row : k = my[w] /\ g = k.match /\ row = k.row
  OBVIOUS
<1>2. /\ pc[w] = "mirrorTimeline" /\ At(w, "mirrorTimeline")
      /\ mirror' = [m \in (DOMAIN mirror) \cup {g} |-> IF m = g THEN row ELSE mirror[m]]
      /\ UNCHANGED <<games, processed, played, published, memories, scene, seasonVars, timelines>>
  BY <1>1, Served1 DEF MirrorTimeline
<1>3. PICK step, work : /\ Await(w, step, work)
                        /\ IF "result" \in DOMAIN k
                           THEN step = "readUsers" /\ work = [result |-> k.result, domain |-> k.domain]
                           ELSE step = "idle"
  <2>1. CASE "result" \in DOMAIN k
    BY <1>1, <2>1 DEF MirrorTimeline, Reporting, Report
  <2>2. CASE "result" \notin DOMAIN k
    BY <1>1, <2>2 DEF MirrorTimeline, Reporting, Answer
  <2> QED  BY <2>1, <2>2
<1>4. Turned(w, step, work)
  BY <1>2, <1>3, TurnedAt
<1>5. ASSUME Told(pc[w], my[w]) PROVE Told(step, work)'
  <2>1. PICK s : s = pc[w] /\ s = "mirrorTimeline" /\ Told(s, k)
    BY <1>1, <1>2, <1>5
  <2>2. /\ Reports(s, k) <=> Reports(step, work)
        /\ Reports(step, work) => k.result = work.result /\ k.domain = work.domain
        /\ \A u : Owes(s, k, u) <=> Owes(step, work, u)
        /\ s \notin SeasonSteps /\ step \in {"readUsers", "idle"}
    BY <1>3, <2>1 DEF Reports, Owes, Unrated, SeasonSteps
  <2>3. step \notin SeasonSteps \cup {"saveMatch", "askRealAi", "saveUsers", "saveSeed", "createMemories", "publish"}
    BY <2>2 DEF SeasonSteps
  <2>4. GamesTold(step, work)' /\ RatesTold(step, work)' /\ NewsTold(step, work)' /\ MemoriesTold(step, work)' /\ SeasonTold(step, work)'
    BY <1>2, <2>1, <2>2, <2>3, OthersGoOn
  <2>5. /\ timelines = mirror'
        /\ \A n \in DOMAIN processed : ClosedAt(processed[n].match)
    BY <1>1, <1>2, <2>1 DEF Told, LinesTold
  <2>6. \A h : ClosedAt(h)' <=> ClosedAt(h)
    BY <1>2 DEF ClosedAt
  <2>7. PICK p : p = processed /\ p = processed'
    BY <1>2
  <2>8. \A n \in DOMAIN p : ClosedAt(p[n].match)'
    BY <2>5, <2>6, <2>7
  <2>9. LinesTold(step, work)'
    BY <1>2, <2>2, <2>5, <2>7, <2>8 DEF LinesTold
  <2> QED  BY <2>4, <2>9 DEF Told
<1> QED  BY <1>4, <1>5, TurnStep

-----------------------------------------------------------------------------
(* In turn: ratings, memories and the publication *)

\* A step that changes no table.
LEMMA ReadingTurn ==
  ASSUME TypeInv, TurnInv, NEW w \in Workers, NEW step0 \in {"readUsers", "askRealAi", "findMemories"},
         At(w, step0), UNCHANGED <<resultVars, seasonVars>>,
         NEW k, k = my[w], NEW step \in {"askRealAi", "saveUsers", "findMemories", "createMemories"},
         NEW work, Await(w, step, work),
         work.result = k.result, work.domain = k.domain,
         \A u \in Users : Owes(step0, k, u) <=> Owes(step, work, u),
         step \in {"askRealAi", "saveUsers"} =>
           work.copy = played \/ (step0 = "askRealAi" /\ work.copy = k.copy),
         step = "createMemories" => work.missing = IF k.domain \in {"standard", "money"} THEN Missing(k.result) ELSE {}
  PROVE  TurnInv'
<1>1. Turned(w, step, work) /\ pc[w] = step0
  BY TurnedAt
<1>2. ASSUME Told(step0, k) PROVE Told(step, work)
  <2>1. Reports(step0, k) /\ Reports(step, work) /\ step0 \notin SeasonSteps /\ step \notin SeasonSteps
    BY DEF Reports, SeasonSteps
  <2>2. step \in {"askRealAi", "saveUsers"} => work.copy = played
    BY <1>2 DEF Told, RatesTold
  <2>3. GamesTold(step, work) /\ NewsTold(step, work) /\ SeasonTold(step, work)
    BY <1>2, <2>1, PartsGoOn DEF Told
  <2>4. RatesTold(step, work)
    <3>1. step # "saveSeed"
      OBVIOUS
    <3> QED  BY <1>2, <2>2, <3>1, PartsGoOn DEF Told
  <2>5. LinesTold(step, work)
    <3>1. /\ step0 \notin {"readTimeline", "saveTimeline", "mirrorTimeline"}
          /\ step \notin {"saveTimeline", "mirrorTimeline"}
      OBVIOUS
    <3> QED  BY <1>2, <3>1, PartsGoOn DEF Told
  <2>6. MemoriesTold(step, work)
    <3>1. step0 # "publish" /\ step # "publish" /\ (step0 = "createMemories" => FALSE)
      OBVIOUS
    <3>2. work.domain \in {"standard", "money"} <=> Remembered(work.result)
      BY <1>2, <2>1 DEF Told, MemoriesTold
    <3>3. step = "createMemories" => work.missing = IF Remembered(work.result) THEN Missing(work.result) ELSE {}
      BY <3>2
    <3>4. OneMemoryEach /\ \A n \in DOMAIN processed : Remembered(processed[n]) =>
            n = Len(processed) \/ \A u \in Players(processed[n]) : HasMemory(processed[n].match, u)
      BY <1>2 DEF Told, MemoriesTold
    <3> QED  BY <2>1, <3>1, <3>2, <3>3, <3>4 DEF MemoriesTold
  <2> QED  BY <2>3, <2>4, <2>5, <2>6 DEF Told
<1>3. Told(pc[w], my[w]) => Told(step, work)'
  BY <1>1, <1>2, ToldStill
<1> QED  BY <1>1, <1>3, TurnStep

LEMMA ReadUsersTurn ==
  ASSUME TypeInv, TurnInv, NEW w \in Workers, UNCHANGED seasonVars, ReadUsers(w)
  PROVE  TurnInv'
<1>1. PICK k : k = my[w]
  OBVIOUS
<1>2. At(w, "readUsers") /\ UNCHANGED resultVars
  BY DEF ReadUsers
<1>3. CASE k.result.rated
  <2>1. PICK work : work = [result |-> k.result, domain |-> k.domain, copy |-> played]
    OBVIOUS
  <2>2. Await(w, "askRealAi", work) /\ work.result = k.result /\ work.domain = k.domain /\ work.copy = played
    BY <1>1, <1>3, <2>1 DEF ReadUsers
  <2>3. \A u \in Users : Owes("readUsers", k, u) <=> Owes("askRealAi", work, u)
    BY <2>2 DEF Owes, Unrated
  <2> QED  BY <1>1, <1>2, <2>2, <2>3, ReadingTurn
<1>4. CASE ~k.result.rated
  <2>1. Await(w, "findMemories", k)
    BY <1>1, <1>4, ThenAwait DEF ReadUsers, TypeInv
  <2>2. \A u \in Users : Owes("readUsers", k, u) <=> Owes("findMemories", k, u)
    BY <1>4 DEF Owes, Unrated
  <2> QED  BY <1>1, <1>2, <2>1, <2>2, ReadingTurn
<1> QED  BY <1>3, <1>4

LEMMA AskRealAiTurn ==
  ASSUME TypeInv, TurnInv, NEW w \in Workers, UNCHANGED seasonVars, AskRealAi(w)
  PROVE  TurnInv'
<1>1. PICK k : k = my[w]
  OBVIOUS
<1>2. pc[w] = "askRealAi" /\ UNCHANGED resultVars
  BY DEF AskRealAi
<1>3. CASE At(w, "askRealAi") /\ Then(w, "saveUsers")
  <2>1. Await(w, "saveUsers", k)
    BY <1>1, <1>3, ThenAwait DEF TypeInv
  <2>2. \A u \in Users : Owes("askRealAi", k, u) <=> Owes("saveUsers", k, u)
    BY DEF Owes, Unrated
  <2> QED  BY <1>1, <1>2, <1>3, <2>1, <2>2, ReadingTurn
<1>4. CASE Irregular /\ UNCHANGED <<overlapped, atOnce>> /\ (Then(w, "saveUsers") \/ Await(w, "findMemories", Report(w)))
  <2>1. \E step, work : Await(w, step, work)
    BY <1>1, <1>4, ThenAwait DEF TypeInv
  <2> QED  BY <1>2, <1>4, <2>1, TurnLost DEF Irregular
<1> QED  BY <1>3, <1>4 DEF AskRealAi

LEMMA FindMemoriesTurn ==
  ASSUME TypeInv, TurnInv, NEW w \in Workers, UNCHANGED seasonVars, FindMemories(w)
  PROVE  TurnInv'
<1>1. PICK k : k = my[w]
  OBVIOUS
<1>2. At(w, "findMemories") /\ UNCHANGED resultVars
  BY DEF FindMemories
<1>3. PICK missing, work : /\ missing = IF k.domain \in {"standard", "money"} THEN Missing(k.result) ELSE {}
                           /\ work = [result |-> k.result, domain |-> k.domain, missing |-> missing]
  OBVIOUS
<1>4. Await(w, "createMemories", work) /\ work.result = k.result /\ work.domain = k.domain /\ work.missing = missing
  BY <1>1, <1>3 DEF FindMemories
<1>5. \A u \in Users : Owes("findMemories", k, u) <=> Owes("createMemories", work, u)
  BY DEF Owes, Unrated
<1> QED  BY <1>1, <1>2, <1>3, <1>4, <1>5, ReadingTurn

LEMMA SaveUsersTurn ==
  ASSUME TypeInv, TurnInv, NEW w \in Workers, UNCHANGED seasonVars, SaveUsers(w)
  PROVE  TurnInv'
<1>1. PICK k, result, work : k = my[w] /\ result = k.result /\ work = [result |-> result, domain |-> k.domain]
  OBVIOUS
<1>2. /\ pc[w] = "saveUsers" /\ At(w, "saveUsers") /\ Await(w, "findMemories", work)
      /\ UNCHANGED <<scene, games, timelines, mirror, memories, published, processed>>
      /\ played' = [played EXCEPT ![result.winner] = k.copy[result.winner] + 1,
                                  ![result.loser] = k.copy[result.loser] + 1]
  BY <1>1, Served1 DEF SaveUsers, Report
<1>3. Handed(result) /\ result.rated
  BY <1>1, <1>2 DEF TypeInv, Equipped, Holds, HoldsResult
<1>4. result.winner \in Users /\ result.loser \in Users /\ result.winner # result.loser
  BY <1>3, HandedRow
<1>5. Turned(w, "findMemories", work) /\ work.result = result /\ work.domain = k.domain
  BY <1>1, <1>2, TurnedAt
<1>6. ASSUME Told("saveUsers", k) PROVE Told("findMemories", work)'
  <2>1. k.copy = played /\ played \in [Users -> Nat]
    BY <1>6 DEF Told, RatesTold, TypeInv, UsersOK
  <2>2. \A u \in Users : played'[u] = played[u] + (IF u \in Players(result) THEN 1 ELSE 0)
    BY <1>2, <1>4, <2>1 DEF Players
  <2>3. \A u \in Users : Owes("saveUsers", k, u) <=> u \in Players(result)
    BY <1>1, <1>3 DEF Owes, Unrated
  <2>4. \A u \in Users : Cardinality(Of(u)) = played'[u] + 0
    <3>1. \A u \in Users : Cardinality(Of(u)) = played[u] + (IF u \in Players(result) THEN 1 ELSE 0) /\ played[u] \in Nat
      BY <1>6, <2>1, <2>3 DEF Told, RatesTold
    <3> QED  BY <2>2, <3>1
  <2>5. RatesTold("findMemories", work)'
    <3>1. /\ \A u \in Users : ~Owes("findMemories", work, u)'
          /\ \A u : Of(u)' = Of(u)
      BY <1>2 DEF Owes, Unrated, Of
    <3> QED  BY <2>4, <3>1 DEF RatesTold
  <2>6. /\ Reports("saveUsers", k) /\ Reports("findMemories", work)
        /\ "saveUsers" \notin SeasonSteps /\ "findMemories" \notin SeasonSteps
    BY DEF Reports, SeasonSteps
  <2>7. /\ GamesTold("findMemories", work) /\ NewsTold("findMemories", work) /\ MemoriesTold("findMemories", work)
        /\ SeasonTold("findMemories", work) /\ LinesTold("findMemories", work)
    <3>1. GamesTold("findMemories", work) /\ SeasonTold("findMemories", work) /\ LinesTold("findMemories", work)
      BY <1>6, <2>6, PartsGoOn DEF Told
    <3>2. NewsTold("findMemories", work)
      BY <1>1, <1>5, <1>6, <2>6, PartsGoOn DEF Told
    <3>3. MemoriesTold("findMemories", work)
      BY <1>1, <1>5, <1>6, <2>6, PartsGoOn DEF Told
    <3> QED  BY <3>1, <3>2, <3>3
  <2>8. UNCHANGED fixtures
    BY DEF seasonVars
  <2>9. /\ GamesTold("findMemories", work)' /\ NewsTold("findMemories", work)' /\ MemoriesTold("findMemories", work)'
        /\ SeasonTold("findMemories", work)' /\ LinesTold("findMemories", work)'
    BY <1>2, <2>7, <2>8, PartsStill
  <2> QED  BY <2>5, <2>9 DEF Told
<1> QED  BY <1>1, <1>2, <1>5, <1>6, TurnStep

LEMMA SaveSeedTurn ==
  ASSUME TypeInv, TurnInv, NEW w \in Workers, UNCHANGED seasonVars, SaveSeed(w)
  PROVE  TurnInv'
<1>1. PICK k, s : k = my[w] /\ s = "saveSeed"
  OBVIOUS
<1>2. /\ pc[w] = s /\ At(w, s) /\ played' = [played EXCEPT ![k.user] = 0]
      /\ UNCHANGED <<scene, games, timelines, mirror, memories, published, processed>>
  BY <1>1, Served1 DEF SaveSeed
<1>3. \E step, work : step \notin ToldSteps /\ Await(w, step, work)
  BY IdleIsPlain DEF SaveSeed, Answer, ToldSteps, SeasonSteps, ReportSteps
<1>4. PICK step, work : step \notin ToldSteps /\ Turned(w, step, work)
  BY <1>1, <1>2, <1>3, TurnedAt
<1>5. ASSUME Told(s, k) PROVE Told(step, work)'
  <2>1. played' = played
    BY <1>1, <1>2, <1>5 DEF Told, RatesTold, TypeInv, UsersOK
  <2>2. /\ ~Reports(s, k) /\ ~Reports(step, work) /\ \A u : ~Owes(s, k, u) /\ ~Owes(step, work, u)
        /\ s \notin SeasonSteps /\ step \notin SeasonSteps \cup {"saveMatch", "askRealAi", "saveUsers", "saveSeed", "createMemories", "publish"}
        /\ s \notin {"readTimeline", "saveTimeline", "mirrorTimeline"} /\ step \notin {"saveTimeline", "mirrorTimeline"}
    BY <1>1, <1>4 DEF Reports, Owes, Unrated, SeasonSteps, ToldSteps, ReportSteps
  <2>3. GamesTold(step, work)' /\ RatesTold(step, work)' /\ NewsTold(step, work)' /\ MemoriesTold(step, work)' /\ SeasonTold(step, work)'
    BY <1>2, <1>5, <2>1, <2>2, OthersGoOn
  <2>4. LinesTold(step, work)
    BY <1>5, <2>2, PartsGoOn DEF Told
  <2>5. LinesTold(step, work)'
    BY <1>2, <2>4, PartsStill
  <2> QED  BY <2>3, <2>5 DEF Told
<1> QED  BY <1>1, <1>2, <1>4, <1>5, TurnStep

\* A memory that is missing is added once.
LEMMA MemoryAdded ==
  ASSUME TypeInv, OneMemoryEach, NEW result, NEW u \in Missing(result), NEW memory,
         memory.match = result.match, memory.user = u, memories' = memories \cup {memory}
  PROVE  /\ OneMemoryEach' /\ Missing(result)' = Missing(result) \ {u}
         /\ \A g, v : HasMemory(g, v) => HasMemory(g, v)'
         /\ HasMemory(result.match, u)'
<1>1. \A m \in memories : ~(m.match = result.match /\ m.user = u)
  BY DEF Missing, MemoriesOf
<1>2. OneMemoryEach'
  BY <1>1 DEF OneMemoryEach
<1>3. Missing(result)' = Missing(result) \ {u}
  BY DEF Missing, MemoriesOf
<1> QED  BY <1>2, <1>3 DEF HasMemory

LEMMA CreateMemoryTurn ==
  ASSUME TypeInv, TurnInv, NEW w \in Workers, UNCHANGED seasonVars, CreateMemory(w)
  PROVE  TurnInv'
<1>1. PICK k, s, result, missing : k = my[w] /\ s = "createMemories" /\ result = k.result /\ missing = k.missing
  OBVIOUS
<1>2. /\ pc[w] = s /\ At(w, s)
      /\ UNCHANGED <<scene, games, timelines, mirror, played, published, processed>>
  BY <1>1, Served1 DEF CreateMemory
<1>3. k = [result |-> result, domain |-> k.domain, missing |-> missing]
  BY <1>1, <1>2 DEF TypeInv, Equipped, Holds, HoldsResult
<1>4. Reports(s, k) /\ s \notin SeasonSteps /\ s \notin {"readTimeline", "saveTimeline", "mirrorTimeline"}
  BY <1>1 DEF Reports, SeasonSteps
<1>5. UNCHANGED fixtures
  BY DEF seasonVars
<1>6. ASSUME Told(s, k)
      PROVE  /\ processed = Append(published, result) /\ published \in Seq(ResultRow)
             /\ missing = IF Remembered(result) THEN Missing(result) ELSE {}
             /\ OneMemoryEach
             /\ k.domain \in {"standard", "money"} <=> Remembered(result)
             /\ \A n \in DOMAIN processed : Remembered(processed[n]) =>
                  n = Len(processed) \/ \A u \in Players(processed[n]) : HasMemory(processed[n].match, u)
  BY <1>1, <1>4, <1>6 DEF Told, NewsTold, MemoriesTold
<1>7. CASE missing = {}
  <2>1. PICK work : work = [result |-> result, domain |-> k.domain]
    OBVIOUS
  <2>2. Await(w, "publish", work) /\ UNCHANGED memories
    BY <1>1, <1>7, <2>1 DEF CreateMemory, Report
  <2>3. Turned(w, "publish", work) /\ work.result = result /\ work.domain = k.domain
    BY <1>1, <1>2, <2>1, <2>2, TurnedAt
  <2>4. ASSUME Told(s, k) PROVE Told("publish", work)'
    <3>1. Reports("publish", work) /\ "publish" \notin SeasonSteps /\ \A u : ~Owes(s, k, u) /\ ~Owes("publish", work, u)
      BY <1>1 DEF Reports, SeasonSteps, Owes, Unrated
    <3>2. /\ GamesTold("publish", work) /\ RatesTold("publish", work)
          /\ LinesTold("publish", work) /\ SeasonTold("publish", work)
      BY <1>4, <2>4, <3>1, PartsGoOn DEF Told
    <3>3. NewsTold("publish", work)
      BY <1>1, <1>4, <2>3, <2>4, <3>1, PartsGoOn DEF Told
    <3>4. MemoriesTold("publish", work)
      <4>1. ASSUME NEW n \in DOMAIN processed, Remembered(processed[n]), NEW u \in Players(processed[n])
            PROVE  HasMemory(processed[n].match, u)
        <5>1. CASE n = Len(processed)
          <6>1. processed[n] = result
            BY <1>6, <2>4, <5>1
          <6>2. Missing(result) = {}
            BY <1>6, <1>7, <2>4, <4>1, <6>1
          <6> QED  BY <4>1, <6>1, <6>2 DEF Missing, MemoriesOf, HasMemory
        <5>2. CASE n # Len(processed)
          BY <1>6, <2>4, <4>1, <5>2
        <5> QED  BY <5>1, <5>2
      <4> QED  BY <1>6, <2>3, <2>4, <4>1 DEF MemoriesTold
    <3> QED  BY <1>2, <1>5, <2>2, <3>2, <3>3, <3>4, PartsStill DEF Told
  <2> QED  BY <1>1, <1>2, <2>3, <2>4, TurnStep
<1>8. CASE missing # {}
  <2>0. PICK u \in missing :
          /\ memories' = memories \cup
               {[match |-> result.match, user |-> u, isWinner |-> Won(result, u),
                 nth |-> Cardinality({m \in MemoriesOf(result.match) : m.user = u})]}
          /\ Hold(w, [k EXCEPT !.missing = @ \ {u}]) /\ UNCHANGED pc
    BY <1>1, <1>8 DEF CreateMemory
  <2>1. PICK memory, work :
          /\ memory.match = result.match /\ memory.user = u
          /\ memories' = memories \cup {memory}
          /\ work = [result |-> result, domain |-> k.domain, missing |-> missing \ {u}]
    BY <2>0
  <2>2. [k EXCEPT !.missing = @ \ {u}] = work
    BY <1>3, <2>1
  <2>3. Await(w, s, work)
    <3>1. pc' = [pc EXCEPT ![w] = s]
      BY <1>2, <2>0 DEF TypeInv, Served
    <3> QED  BY <2>0, <2>2, <3>1 DEF Await, Goto
  <2>4. Turned(w, s, work) /\ work.result = result /\ work.domain = k.domain /\ work.missing = missing \ {u}
    BY <1>1, <1>2, <2>1, <2>3, TurnedAt
  <2>5. ASSUME Told(s, k) PROVE Told(s, work)'
    <3>1. Reports(s, work) /\ s \notin {"saveMatch", "askRealAi", "saveUsers", "saveSeed"} /\ \A v : ~Owes(s, k, v) /\ ~Owes(s, work, v)
      BY <1>1 DEF Reports, Owes, Unrated
    <3>2. GamesTold(s, work) /\ RatesTold(s, work) /\ LinesTold(s, work) /\ SeasonTold(s, work)
      BY <1>4, <2>5, <3>1, PartsGoOn DEF Told
    <3>3. NewsTold(s, work)
      BY <1>1, <1>4, <2>4, <2>5, <3>1, PartsGoOn DEF Told
    <3>4. Remembered(result) /\ missing = Missing(result)
      BY <1>6, <2>1, <2>5
    <3>5. /\ OneMemoryEach' /\ Missing(result)' = Missing(result) \ {u}
          /\ \A g, v : HasMemory(g, v) => HasMemory(g, v)'
      <4>1. u \in Missing(result) /\ memory.match = result.match /\ memory.user = u
        BY <2>1, <3>4
      <4> QED  BY <1>6, <2>1, <2>5, <4>1, MemoryAdded
    <3>6. MemoriesTold(s, work)'
      <4>1. PICK p : p = processed /\ p = processed'
        BY <1>2
      <4>2. \A r : Remembered(r)' <=> Remembered(r)
        BY <1>2 DEF Remembered
      <4>3. \A n \in DOMAIN p : Remembered(p[n])' =>
              n = Len(p) \/ \A v \in Players(p[n]) : HasMemory(p[n].match, v)'
        BY <1>6, <2>5, <3>5, <4>1, <4>2
      <4>4. work.missing = IF Remembered(work.result)' THEN Missing(work.result)' ELSE {}
        BY <2>4, <3>4, <3>5, <4>2
      <4>5. work.domain \in {"standard", "money"} <=> Remembered(work.result)'
        BY <1>6, <2>4, <2>5, <4>2
      <4>6. s # "publish" /\ Reports(s, work)'
        BY <1>1, <3>1 DEF Reports
      <4> QED  BY <3>5, <4>1, <4>3, <4>4, <4>5, <4>6 DEF MemoriesTold
    <3> QED  BY <1>2, <1>5, <3>2, <3>3, <3>6, PartsStill DEF Told
  <2> QED  BY <1>1, <1>2, <2>4, <2>5, TurnStep
<1> QED  BY <1>7, <1>8

LEMMA PublishTurn ==
  ASSUME TypeInv, TurnInv, NEW w \in Workers, UNCHANGED seasonVars, Publish(w)
  PROVE  TurnInv'
<1>1. PICK k, s, result : k = my[w] /\ s = "publish" /\ result = k.result
  OBVIOUS
<1>2. /\ pc[w] = s /\ At(w, s) /\ published' = Append(published, result) /\ Answer(w)
      /\ UNCHANGED <<scene, games, timelines, mirror, played, memories, processed>>
  BY <1>1, Served1 DEF Publish
<1>3. Turned(w, "idle", NoWork)
  BY <1>1, <1>2, TurnedAt DEF Answer
<1>4. Handed(result)
  BY <1>1, <1>2 DEF TypeInv, Equipped, Holds, HoldsResult
<1>5. result \in ResultRow
  BY <1>4, HandedRow
<1>6. ASSUME Told(s, k) PROVE Told("idle", NoWork)'
  <2>1. /\ Reports(s, k) /\ ~Reports("idle", NoWork) /\ s \notin SeasonSteps /\ "idle" \notin SeasonSteps
        /\ \A u : ~Owes(s, k, u) /\ ~Owes("idle", NoWork, u)
        /\ s \notin {"readTimeline", "saveTimeline", "mirrorTimeline"}
    BY <1>1 DEF Reports, SeasonSteps, Owes, Unrated
  <2>2. /\ GamesTold("idle", NoWork) /\ RatesTold("idle", NoWork) /\ LinesTold("idle", NoWork) /\ SeasonTold("idle", NoWork)
    BY <1>6, <2>1, PartsGoOn DEF Told
  <2>3. NewsTold("idle", NoWork)'
    <3>1. published' = processed' /\ published' \in Seq(ResultRow)
      BY <1>1, <1>2, <1>5, <1>6, <2>1, InsertedRow DEF Told, NewsTold
    <3> QED  BY <3>1 DEF NewsTold, Reports
  <2>4. MemoriesTold("idle", NoWork)
    BY <1>1, <1>6, <2>1 DEF Told, MemoriesTold
  <2>5. UNCHANGED fixtures
    BY DEF seasonVars
  <2> QED  BY <1>2, <2>2, <2>3, <2>4, <2>5, PartsStill DEF Told
<1> QED  BY <1>1, <1>2, <1>3, <1>6, TurnStep

-----------------------------------------------------------------------------
(* In turn: the season *)

\* A step of the season concerns the season alone.
LEMMA SeasonPartTurn ==
  ASSUME TypeInv, TurnInv, NEW w \in Workers, NEW s, s = pc[w], s \in SeasonSteps \cup {"idle"}, NEW k, k = my[w],
         NEW step, step \in SeasonSteps \cup {"idle"}, NEW work, Turned(w, step, work),
         UNCHANGED resultVars, DOMAIN fixtures \subseteq DOMAIN fixtures',
         Told(s, k) => SeasonTold(step, work)'
  PROVE  TurnInv'
<1>1. ASSUME Told(s, k) PROVE Told(step, work)'
  <2>1. /\ ~Reports(s, k) /\ ~Reports(step, work) /\ \A u : ~Owes(s, k, u) /\ ~Owes(step, work, u)
        /\ s \notin {"readTimeline", "saveTimeline", "mirrorTimeline"} /\ step \notin {"saveTimeline", "mirrorTimeline"}
        /\ step \notin {"saveMatch", "askRealAi", "saveUsers", "saveSeed", "createMemories", "publish"}
    BY DEF Reports, Owes, Unrated, SeasonSteps
  <2>2. /\ \A g : ResultsOf(g)' = ResultsOf(g)
        /\ Matches' = Matches /\ processed' = processed /\ games' = games
    BY DEF resultVars, ResultsOf, Matches
  <2>3. GamesTold(step, work)'
    BY <1>1, <2>1, <2>2 DEF Told, GamesTold, Fixture
  <2>4. RatesTold(step, work) /\ NewsTold(step, work) /\ LinesTold(step, work)
    BY <1>1, <2>1, PartsGoOn DEF Told
  <2>5. MemoriesTold(step, work)
    BY <1>1, <2>1, PartsGoOn DEF Told
  <2>6. RatesTold(step, work)' /\ NewsTold(step, work)' /\ MemoriesTold(step, work)' /\ LinesTold(step, work)'
    <3>1. /\ UNCHANGED <<played, processed>> /\ UNCHANGED <<published, processed>>
          /\ UNCHANGED <<memories, processed, games, scene>> /\ UNCHANGED <<timelines, mirror, processed>>
      BY DEF resultVars
    <3> QED  BY <2>4, <2>5, <3>1, PartsStill
  <2> QED  BY <1>1, <2>3, <2>6 DEF Told
<1> QED  BY <1>1, TurnStep

\* What a request says of a season it does not change.
LEMMA SeasonSame ==
  ASSUME NEW s, NEW k, SeasonTold(s, k), NEW step, NEW work, UNCHANGED <<seasonVars, processed>>,
         InPlay(s, k) <=> InPlay(step, work), InPlay(s, k) => k.copy = work.copy /\ k.fixture = work.fixture,
         step = "saveSeason" => season = "DRAFT",
         step # "saveSnapshot",
         step \in {"validate", "saveFixture"} =>
           fixtures[work.fixture].status = "SCHEDULED" /\ work.copy.status = "COMPLETED",
         step = "saveStandings" =>
           PlayersOf(work.copy) \subseteq DOMAIN standings /\ \A u \in PlayersOf(work.copy) : work.points[u] = standings[u]
  PROVE  SeasonTold(step, work)'
<1>1. SeasonTold(step, work)
  BY DEF SeasonTold, ToCome
<1> QED  BY <1>1, PartsStill

LEMMA StartSeasonTurn ==
  ASSUME TypeInv, TurnInv, NEW w \in Workers, NEW players \in SUBSET Users, StartSeason(w, players)
  PROVE  TurnInv'
<1>1. PICK s, k, work : s = pc[w] /\ k = my[w] /\ work = [players |-> players]
  OBVIOUS
<1>2. /\ Call(w, "season") /\ season = "DRAFT" /\ Await(w, "saveSeason", work) /\ UNCHANGED <<resultVars, seasonVars>>
  BY <1>1 DEF StartSeason
<1>3. Turned(w, "saveSeason", work) /\ s = "idle"
  BY <1>1, <1>2, TurnedCall
<1>4. ~InPlay(s, k) /\ ~InPlay("saveSeason", work) /\ UNCHANGED <<seasonVars, processed>> /\ UNCHANGED fixtures
  BY <1>2, <1>3 DEF InPlay, resultVars, seasonVars
<1>5. Told(s, k) => SeasonTold("saveSeason", work)'
  BY <1>2, <1>4, SeasonSame DEF Told
<1> QED  BY <1>1, <1>2, <1>3, <1>4, <1>5, SeasonPartTurn DEF SeasonSteps

LEMMA ReportMatchTurn ==
  ASSUME TypeInv, TurnInv, NEW w \in Workers, NEW n \in DOMAIN fixtures, NEW a \in Scores, NEW b \in Scores,
         ReportMatch(w, n, a, b)
  PROVE  TurnInv'
<1>1. PICK s, k, copy, work :
        /\ s = pc[w] /\ k = my[w]
        /\ copy = [fixtures[n] EXCEPT !.status = "COMPLETED", !.score = [A |-> a, B |-> b]]
        /\ work = [fixture |-> n, copy |-> copy]
  OBVIOUS
<1>2. /\ Call(w, "season") /\ fixtures[n].status = "SCHEDULED" /\ Await(w, "validate", work)
      /\ UNCHANGED <<resultVars, seasonVars>>
  BY <1>1 DEF ReportMatch, Playable
<1>3. work.fixture = n /\ work.copy = copy /\ copy.status = "COMPLETED"
  <2>1. fixtures[n] \in FixtureRow
    BY DEF TypeInv, SeasonOK
  <2> QED  BY <1>1, <2>1 DEF FixtureRow
<1>4. Turned(w, "validate", work) /\ s = "idle"
  BY <1>1, <1>2, TurnedCall
<1>5. ~InPlay(s, k) /\ ~InPlay("validate", work) /\ UNCHANGED <<seasonVars, processed>> /\ UNCHANGED fixtures
  BY <1>2, <1>4 DEF InPlay, resultVars, seasonVars
<1>6. Told(s, k) => SeasonTold("validate", work)'
  BY <1>2, <1>3, <1>5, SeasonSame DEF Told
<1> QED  BY <1>1, <1>2, <1>4, <1>5, <1>6, SeasonPartTurn DEF SeasonSteps

LEMMA ValidateTurn ==
  ASSUME TypeInv, TurnInv, NEW w \in Workers, Validate(w)
  PROVE  TurnInv'
<1>1. PICK s, k : s = pc[w] /\ k = my[w]
  OBVIOUS
<1>2. At(w, "validate") /\ UNCHANGED <<resultVars, seasonVars>> /\ s = "validate"
  BY <1>1, Served1 DEF Validate
<1>3. PICK step, work : Await(w, step, work) /\ (step = "idle" \/ (step = "saveFixture" /\ work = k))
  BY <1>1, ThenAwait DEF Validate, Answer, TypeInv
<1>4. Turned(w, step, work)
  BY <1>2, <1>3, TurnedAt
<1>5. ~InPlay(s, k) /\ ~InPlay(step, work) /\ UNCHANGED <<seasonVars, processed>> /\ UNCHANGED fixtures
  BY <1>2, <1>3 DEF InPlay, resultVars, seasonVars
<1>6. ASSUME Told(s, k) PROVE SeasonTold(step, work)'
  <2>1. SeasonTold(s, k) /\ fixtures[k.fixture].status = "SCHEDULED" /\ k.copy.status = "COMPLETED"
    BY <1>2, <1>6 DEF Told, SeasonTold
  <2> QED  BY <1>3, <1>5, <2>1, SeasonSame
<1> QED  BY <1>1, <1>2, <1>3, <1>4, <1>5, <1>6, SeasonPartTurn DEF SeasonSteps

LEMMA ReadStandingsTurn ==
  ASSUME TypeInv, TurnInv, NEW w \in Workers, ReadStandings(w)
  PROVE  TurnInv'
<1>1. PICK s, k, both : s = pc[w] /\ k = my[w] /\ both = PlayersOf(k.copy)
  OBVIOUS
<1>2. At(w, "readStandings") /\ UNCHANGED <<resultVars, seasonVars>> /\ s = "readStandings"
  BY <1>1, Served1 DEF ReadStandings
<1>3. UNCHANGED <<seasonVars, processed>> /\ UNCHANGED fixtures
  BY <1>2 DEF resultVars, seasonVars
<1>4. CASE both \subseteq DOMAIN standings
  <2>1. PICK points, work : /\ points = [u \in both |-> standings[u]]
                            /\ work = [fixture |-> k.fixture, copy |-> k.copy, points |-> points]
    OBVIOUS
  <2>2. Await(w, "saveStandings", work)
    BY <1>1, <1>4, <2>1 DEF ReadStandings, PlayersOf
  <2>3. work.fixture = k.fixture /\ work.copy = k.copy /\ \A u \in both : work.points[u] = standings[u]
    BY <2>1
  <2>4. Turned(w, "saveStandings", work)
    BY <1>2, <2>2, TurnedAt
  <2>5. InPlay(s, k) /\ InPlay("saveStandings", work)
    BY <1>2 DEF InPlay
  <2>6. Told(s, k) => SeasonTold("saveStandings", work)'
    BY <1>1, <1>3, <1>4, <2>3, <2>5, SeasonSame DEF Told
  <2> QED  BY <1>1, <1>2, <1>3, <2>4, <2>6, SeasonPartTurn DEF SeasonSteps
<1>5. CASE ~(both \subseteq DOMAIN standings)
  <2>1. Await(w, "idle", NoWork)
    BY <1>1, <1>5 DEF ReadStandings, PlayersOf, Answer
  <2>2. Turned(w, "idle", NoWork)
    BY <1>2, <2>1, TurnedAt
  <2>3. ASSUME Told(s, k) PROVE SeasonTold("idle", NoWork)'
    <3>1. SeasonTold(s, k) /\ InPlay(s, k) /\ ~InPlay("idle", NoWork) /\ fixtures[k.fixture] = k.copy
      BY <1>2, <2>3 DEF Told, SeasonTold, InPlay
    <3>2. k.fixture \notin Counted
      BY <1>1, <1>5, <3>1 DEF Counted
    <3>3. \A u : ToCome(s, k, u) = ToCome("idle", NoWork, u)
      BY <1>1, <1>5, <3>1 DEF ToCome
    <3>4. SeasonTold("idle", NoWork)
      BY <3>1, <3>2, <3>3 DEF SeasonTold
    <3> QED  BY <1>3, <3>4, PartsStill
  <2> QED  BY <1>1, <1>2, <1>3, <2>2, <2>3, SeasonPartTurn DEF SeasonSteps
<1> QED  BY <1>4, <1>5

LEMMA SaveSeasonTurn ==
  ASSUME TypeInv, TurnInv, NEW w \in Workers, SaveSeason(w)
  PROVE  TurnInv'
<1>1. PICK s, k : s = pc[w] /\ k = my[w]
  OBVIOUS
<1>2. /\ At(w, "saveSeason") /\ UNCHANGED <<resultVars, standings, fixtures>> /\ s = "saveSeason"
      /\ season' = "ACTIVE" /\ Await(w, "saveSnapshot", k)
  BY <1>1, Served1, ThenAwait DEF SaveSeason, TypeInv
<1>3. Turned(w, "saveSnapshot", k)
  BY <1>2, TurnedAt
<1>4. ~InPlay(s, k) /\ ~InPlay("saveSnapshot", k)
  BY <1>2 DEF InPlay
<1>5. ASSUME Told(s, k) PROVE SeasonTold("saveSnapshot", k)'
  <2>1. SeasonTold(s, k) /\ fixtures = <<>> /\ standings = <<>>
    BY <1>2, <1>5 DEF Told, SeasonTold
  <2>2. /\ fixtures' = fixtures /\ standings' = standings /\ processed' = processed
        /\ Counted' = Counted /\ (\A u : Earned(u)' = Earned(u)) /\ (\A g : ResultsOf(g)' = ResultsOf(g))
    BY <1>2 DEF resultVars, Counted, Completed, Earned, ResultsOf
  <2> QED  BY <1>2, <1>4, <2>1, <2>2 DEF SeasonTold, InPlay, ToCome
<1> QED  BY <1>1, <1>2, <1>3, <1>5, SeasonPartTurn DEF SeasonSteps

LEMMA SaveSnapshotTurn ==
  ASSUME TypeInv, TurnInv, NEW w \in Workers, SaveSnapshot(w)
  PROVE  TurnInv'
<1>1. PICK s, k : s = pc[w] /\ k = my[w]
  OBVIOUS
<1>2. /\ At(w, "saveSnapshot") /\ UNCHANGED <<resultVars, season, fixtures>> /\ s = "saveSnapshot"
      /\ standings' = IF k.players \cap DOMAIN standings # {} THEN standings
                      ELSE [u \in (DOMAIN standings) \cup k.players |-> IF u \in k.players THEN 0 ELSE standings[u]]
      /\ Await(w, "idle", NoWork)
  BY <1>1, Served1 DEF SaveSnapshot, Answer
<1>3. Turned(w, "idle", NoWork)
  BY <1>2, TurnedAt
<1>4. ~InPlay(s, k) /\ ~InPlay("idle", NoWork)
  BY <1>2 DEF InPlay
<1>5. ASSUME Told(s, k) PROVE SeasonTold("idle", NoWork)'
  <2>1. fixtures = <<>> /\ standings = <<>> /\ season = "ACTIVE"
    BY <1>2, <1>5 DEF Told, SeasonTold
  <2>2. DOMAIN fixtures = {} /\ DOMAIN standings = {}
    BY <2>1
  <2>3. \A u \in DOMAIN standings' : standings'[u] = 0
    BY <1>2, <2>2
  <2>4. Counted' = {} /\ DOMAIN fixtures' = {} /\ season' = "ACTIVE"
    BY <1>2, <2>1, <2>2 DEF Counted, Completed
  <2>5. \A u : Earned(u)' = 0
    <3>1. Cardinality({}) = 0
      BY FS_EmptySet
    <3>2. PICK none : none = Counted' /\ none = {}
      BY <2>4
    <3>3. ASSUME NEW u PROVE Earned(u)' = 0
      <4>1. /\ {n \in none : ~Draw(fixtures'[n]) /\ u = WinnerOf(fixtures'[n])} = {}
            /\ {n \in none : Draw(fixtures'[n]) /\ u \in PlayersOf(fixtures'[n])} = {}
        BY <3>2
      <4>2. Earned(u)' = 3 * Cardinality({}) + Cardinality({})
        BY <3>2, <4>1 DEF Earned
      <4> QED  BY <3>1, <4>2
    <3> QED  BY <3>3
  <2> QED  BY <2>3, <2>4, <2>5 DEF SeasonTold, InPlay, ToCome
<1> QED  BY <1>1, <1>2, <1>3, <1>5, SeasonPartTurn DEF SeasonSteps

LEMMA CreateSeasonTurn ==
  ASSUME TypeInv, TurnInv, NEW w \in Workers, CreateSeason(w)
  PROVE  TurnInv'
<1>1. /\ Call(w, "season") /\ season = "none" /\ season' = "DRAFT"
      /\ UNCHANGED <<pc, my>> /\ UNCHANGED <<resultVars, standings, fixtures>>
  BY DEF CreateSeason
<1>2. ASSUME Told("idle", NoWork) PROVE Told("idle", NoWork)'
  <2>1. /\ UNCHANGED <<games, processed, fixtures>> /\ UNCHANGED <<played, processed>>
        /\ UNCHANGED <<published, processed>> /\ UNCHANGED <<memories, processed, games, scene>>
        /\ UNCHANGED <<timelines, mirror, processed>>
    BY <1>1 DEF resultVars
  <2>2. /\ GamesTold("idle", NoWork)' /\ RatesTold("idle", NoWork)' /\ NewsTold("idle", NoWork)'
        /\ MemoriesTold("idle", NoWork)' /\ LinesTold("idle", NoWork)'
    BY <1>2, <2>1, PartsStill DEF Told
  <2>3. /\ fixtures' = fixtures /\ standings' = standings /\ processed' = processed
        /\ Counted' = Counted /\ (\A u : Earned(u)' = Earned(u)) /\ (\A g : ResultsOf(g)' = ResultsOf(g))
    BY <1>1 DEF resultVars, Counted, Completed, Earned, ResultsOf
  <2>4. SeasonTold("idle", NoWork) /\ fixtures = <<>> /\ standings = <<>> /\ ~InPlay("idle", NoWork)
    BY <1>1, <1>2 DEF Told, SeasonTold, InPlay
  <2>5. SeasonTold("idle", NoWork)'
    BY <1>1, <2>3, <2>4 DEF SeasonTold, InPlay, ToCome
  <2> QED  BY <2>2, <2>5 DEF Told
<1> QED  BY <1>1, <1>2, TurnCall

LEMMA ScheduleMatchTurn ==
  ASSUME TypeInv, TurnInv, NEW w \in Workers, NEW a \in Users, NEW b \in Users, ScheduleMatch(w, a, b)
  PROVE  TurnInv'
<1>1. /\ Call(w, "season") /\ season = "ACTIVE" /\ UNCHANGED <<pc, my>> /\ UNCHANGED <<resultVars, season, standings>>
      /\ fixtures' = Append(fixtures, NewFixture(a, b))
  BY DEF ScheduleMatch
<1>2. PICK n1 : n1 = Len(fixtures) + 1
  OBVIOUS
<1>3. fixtures \in Seq(FixtureRow) /\ n1 \in Nat /\ n1 \notin DOMAIN fixtures
  BY <1>2 DEF TypeInv, SeasonOK
<1>4. NewFixture(a, b) \in FixtureRow /\ NewFixture(a, b).status = "SCHEDULED"
  BY DEF NewFixture, FixtureRow, Sides
<1>5. /\ DOMAIN fixtures' = (DOMAIN fixtures) \cup {n1} /\ fixtures'[n1] = NewFixture(a, b)
      /\ \A n \in DOMAIN fixtures : fixtures'[n] = fixtures[n]
  BY <1>1, <1>2, <1>3, <1>4, InsertedRow
<1>6. ASSUME Told("idle", NoWork) PROVE Told("idle", NoWork)'
  <2>1. /\ UNCHANGED <<played, processed>> /\ UNCHANGED <<published, processed>>
        /\ UNCHANGED <<memories, processed, games, scene>> /\ UNCHANGED <<timelines, mirror, processed>>
    BY <1>1 DEF resultVars
  <2>2. /\ RatesTold("idle", NoWork)' /\ NewsTold("idle", NoWork)'
        /\ MemoriesTold("idle", NoWork)' /\ LinesTold("idle", NoWork)'
    BY <1>6, <2>1, PartsStill DEF Told
  <2>3. /\ \A g : ResultsOf(g)' = ResultsOf(g)
        /\ Matches' = Matches /\ processed' = processed /\ games' = games /\ standings' = standings
    BY <1>1 DEF resultVars, ResultsOf, Matches
  <2>4. GamesTold("idle", NoWork)'
    BY <1>5, <1>6, <2>3 DEF Told, GamesTold, Fixture
  <2>5. Counted' = Counted
    BY <1>4, <1>5, <2>3 DEF Counted, Completed
  <2>6. ASSUME NEW u PROVE Earned(u)' = Earned(u)
    <3>1. \A n \in Counted : fixtures'[n] = fixtures[n]
      BY <1>5 DEF Counted, Completed
    <3>2. /\ {n \in Counted : ~Draw(fixtures'[n]) /\ u = WinnerOf(fixtures'[n])}
               = {n \in Counted : ~Draw(fixtures[n]) /\ u = WinnerOf(fixtures[n])}
          /\ {n \in Counted : Draw(fixtures'[n]) /\ u \in PlayersOf(fixtures'[n])}
               = {n \in Counted : Draw(fixtures[n]) /\ u \in PlayersOf(fixtures[n])}
      BY <3>1
    <3> QED  BY <2>5, <3>2 DEF Earned
  <2>7. \A n \in DOMAIN processed : processed[n].match # Fixture(n1)
    <3>1. Fixture(n1) \notin Matches \cup {Fixture(j) : j \in DOMAIN fixtures}
      <4>1. Fixture(n1) \in Int /\ Fixture(n1) \notin Nat
        <5>1. n1 # 0
          BY <1>2, <1>3
        <5> QED  BY <1>3, <5>1 DEF Fixture
      <4>2. \A g \in Matches : g \in Nat
        BY FixtureIndex DEF Matches, Elsewhere
      <4>3. \A j \in DOMAIN fixtures : Fixture(j) # Fixture(n1)
        <5>1. \A j \in DOMAIN fixtures : j \in Nat /\ j # n1
          BY <1>3, FixtureIndex
        <5> QED  BY <1>3, <5>1 DEF Fixture
      <4> QED  BY <4>1, <4>2, <4>3
    <3> QED  BY <1>6, <3>1 DEF Told, GamesTold
  <2>8. SeasonTold("idle", NoWork) /\ ~InPlay("idle", NoWork)
    BY <1>6 DEF Told, InPlay
  <2>9. ASSUME NEW n \in DOMAIN fixtures'
        PROVE  Cardinality(ResultsOf(Fixture(n))) = IF n \in Counted THEN 1 ELSE 0
    <3>1. CASE n \in DOMAIN fixtures
      BY <2>8, <3>1 DEF SeasonTold
    <3>2. CASE n = n1
      <4>1. ResultsOf(Fixture(n)) = {} /\ n \notin Counted
        BY <1>3, <2>7, <3>2 DEF ResultsOf, Counted, Completed
      <4> QED  BY <4>1, FS_EmptySet
    <3> QED  BY <1>5, <3>1, <3>2
  <2>10. ASSUME NEW m \in DOMAIN processed, -processed[m].match \in DOMAIN fixtures', processed[m].rated
         PROVE  processed[m].winner = WinnerOf(fixtures'[-processed[m].match])
    <3>1. -processed[m].match # n1
      <4>1. processed[m].match \in Int /\ processed[m].match # Fixture(n1)
        <5>1. processed[m] \in ResultRow
          BY DEF TypeInv, ProcessedOK
        <5> QED  BY <2>7, <5>1 DEF ResultRow
      <4> QED  BY <1>3, <4>1 DEF Fixture
    <3>2. -processed[m].match \in DOMAIN fixtures
      BY <1>5, <2>10, <3>1
    <3> QED  BY <1>5, <2>8, <2>10, <3>2 DEF SeasonTold
  <2>11. SeasonTold("idle", NoWork)'
    <3>1. \A u \in DOMAIN standings : Earned(u) = standings[u] + 0
      BY <2>8 DEF SeasonTold, ToCome
    <3>2. season' = "ACTIVE" /\ ~InPlay("idle", NoWork)' /\ \A u : ToCome("idle", NoWork, u)' = 0
      BY <1>1 DEF InPlay, ToCome
    <3>3. \A n \in DOMAIN fixtures' : Cardinality(ResultsOf(Fixture(n)))' = IF n \in Counted' THEN 1 ELSE 0
      BY <2>3, <2>5, <2>9 DEF Fixture
    <3> QED  BY <2>3, <2>6, <2>10, <3>1, <3>2, <3>3 DEF SeasonTold
  <2> QED  BY <2>2, <2>4, <2>11 DEF Told
<1> QED  BY <1>1, <1>6, TurnCall

LEMMA FixturesFinite == ASSUME TypeInv PROVE IsFiniteSet(DOMAIN fixtures)
<1>1. DOMAIN fixtures = 1 .. Len(fixtures) /\ Len(fixtures) \in Nat
  BY DEF TypeInv, SeasonOK
<1> QED  BY <1>1, FS_Interval

\* A match that counts from now on: what a player has earned is more by its points.
LEMMA EarnedMore ==
  ASSUME TypeInv, NEW n \in DOMAIN fixtures, NEW copy, Paired(copy), copy.status = "COMPLETED",
         fixtures[n].status # "COMPLETED", fixtures' = [fixtures EXCEPT ![n] = copy], UNCHANGED standings
  PROVE  /\ Counted' = IF PlayersOf(copy) \subseteq DOMAIN standings THEN Counted \cup {n} ELSE Counted
         /\ n \notin Counted
         /\ \A u : /\ Earned(u) \in Nat
                   /\ Earned(u)' = Earned(u) + (IF PlayersOf(copy) \subseteq DOMAIN standings /\ u \in PlayersOf(copy)
                                                THEN PointsFor(copy, u) ELSE 0)
<1>1. /\ DOMAIN fixtures' = DOMAIN fixtures /\ fixtures'[n] = copy
      /\ \A m \in DOMAIN fixtures : m # n => fixtures'[m] = fixtures[m]
  OBVIOUS
<1>2. n \notin Counted
  BY DEF Counted, Completed
<1>3. Counted' = IF PlayersOf(copy) \subseteq DOMAIN standings THEN Counted \cup {n} ELSE Counted
  BY <1>1, <1>2 DEF Counted, Completed
<1>4. ASSUME NEW u
      PROVE  /\ Earned(u) \in Nat
             /\ Earned(u)' = Earned(u) + (IF PlayersOf(copy) \subseteq DOMAIN standings /\ u \in PlayersOf(copy)
                                          THEN PointsFor(copy, u) ELSE 0)
  <2>1. PICK wins, draws, moreWins, moreDraws :
          /\ wins = {m \in Counted : ~Draw(fixtures[m]) /\ u = WinnerOf(fixtures[m])}
          /\ draws = {m \in Counted : Draw(fixtures[m]) /\ u \in PlayersOf(fixtures[m])}
          /\ moreWins = {m \in Counted' : ~Draw(fixtures'[m]) /\ u = WinnerOf(fixtures'[m])}
          /\ moreDraws = {m \in Counted' : Draw(fixtures'[m]) /\ u \in PlayersOf(fixtures'[m])}
    OBVIOUS
  <2>2. Earned(u) = 3 * Cardinality(wins) + Cardinality(draws) /\ Earned(u)' = 3 * Cardinality(moreWins) + Cardinality(moreDraws)
    BY <2>1 DEF Earned
  <2>3. IsFiniteSet(wins) /\ IsFiniteSet(draws)
    <3>3. wins \subseteq DOMAIN fixtures /\ draws \subseteq DOMAIN fixtures
      BY <2>1 DEF Counted, Completed
    <3> QED  BY <3>3, FixturesFinite, FS_Subset
  <2>4. Cardinality(wins) \in Nat /\ Cardinality(draws) \in Nat /\ n \notin wins /\ n \notin draws
    BY <1>2, <2>1, <2>3, FS_CardinalityType
  <2>5. Cardinality(wins \cup {n}) = Cardinality(wins) + 1 /\ Cardinality(draws \cup {n}) = Cardinality(draws) + 1
    BY <2>3, <2>4, FS_AddElement
  <2>6. \A m \in Counted : fixtures'[m] = fixtures[m] /\ m # n
    BY <1>1, <1>2 DEF Counted, Completed
  <2>7. moreWins = IF PlayersOf(copy) \subseteq DOMAIN standings /\ ~Draw(copy) /\ u = WinnerOf(copy) THEN wins \cup {n} ELSE wins
    BY <1>1, <1>3, <2>1, <2>6
  <2>8. moreDraws = IF PlayersOf(copy) \subseteq DOMAIN standings /\ Draw(copy) /\ u \in PlayersOf(copy) THEN draws \cup {n} ELSE draws
    BY <1>1, <1>3, <2>1, <2>6
  <2>9. WinnerOf(copy) \in PlayersOf(copy)
    BY DEF WinnerOf, PlayersOf
  <2>10. CASE ~(PlayersOf(copy) \subseteq DOMAIN standings /\ u \in PlayersOf(copy))
    <3>1. moreWins = wins /\ moreDraws = draws
      BY <2>7, <2>8, <2>9, <2>10
    <3> QED  BY <2>2, <2>4, <2>10, <3>1
  <2>11. CASE PlayersOf(copy) \subseteq DOMAIN standings /\ u \in PlayersOf(copy)
    <3>1. CASE Draw(copy)
      <4>1. PointsFor(copy, u) = 1 /\ moreWins = wins /\ moreDraws = draws \cup {n}
        BY <2>7, <2>8, <2>11, <3>1 DEF PointsFor
      <4> QED  BY <2>2, <2>4, <2>5, <2>11, <4>1
    <3>2. CASE ~Draw(copy) /\ u = WinnerOf(copy)
      <4>1. PointsFor(copy, u) = 3 /\ moreWins = wins \cup {n} /\ moreDraws = draws
        BY <2>7, <2>8, <2>11, <3>2 DEF PointsFor
      <4> QED  BY <2>2, <2>4, <2>5, <2>11, <4>1
    <3>3. CASE ~Draw(copy) /\ u # WinnerOf(copy)
      <4>1. PointsFor(copy, u) = 0 /\ moreWins = wins /\ moreDraws = draws
        BY <2>7, <2>8, <2>11, <3>3 DEF PointsFor
      <4> QED  BY <2>2, <2>4, <2>11, <4>1
    <3> QED  BY <3>1, <3>2, <3>3
  <2> QED  BY <2>10, <2>11
<1> QED  BY <1>2, <1>3, <1>4

LEMMA SaveFixtureTurn ==
  ASSUME TypeInv, TurnInv, NEW w \in Workers, SaveFixture(w)
  PROVE  TurnInv'
<1>1. PICK s, k, n, copy : s = pc[w] /\ k = my[w] /\ n = k.fixture /\ copy = k.copy
  OBVIOUS
<1>2. /\ At(w, "saveFixture") /\ UNCHANGED <<resultVars, season, standings>> /\ s = "saveFixture"
      /\ fixtures' = [fixtures EXCEPT ![n] = copy] /\ Await(w, "readStandings", k)
  BY <1>1, Served1, ThenAwait DEF SaveFixture, TypeInv
<1>3. Turned(w, "readStandings", k)
  BY <1>2, TurnedAt
<1>4. n \in DOMAIN fixtures /\ Paired(copy)
  BY <1>1, <1>2 DEF TypeInv, Equipped, Holds, HoldsSeason
<1>5. /\ DOMAIN fixtures' = DOMAIN fixtures /\ fixtures'[n] = copy
      /\ \A m \in DOMAIN fixtures : m # n => fixtures'[m] = fixtures[m]
  BY <1>2, <1>4
<1>6. ASSUME Told(s, k) PROVE SeasonTold("readStandings", k)'
  <2>1. fixtures[n].status = "SCHEDULED" /\ copy.status = "COMPLETED"
    BY <1>1, <1>2, <1>6 DEF Told, SeasonTold
  <2>2. /\ Counted' = IF PlayersOf(copy) \subseteq DOMAIN standings THEN Counted \cup {n} ELSE Counted
        /\ n \notin Counted
        /\ \A u : /\ Earned(u) \in Nat
                  /\ Earned(u)' = Earned(u) + (IF PlayersOf(copy) \subseteq DOMAIN standings /\ u \in PlayersOf(copy)
                                               THEN PointsFor(copy, u) ELSE 0)
    BY <1>2, <1>4, <2>1, EarnedMore
  <2>3. SeasonTold(s, k) /\ ~InPlay(s, k) /\ InPlay("readStandings", k)
    BY <1>2, <1>6 DEF Told, InPlay
  <2>4. season = "ACTIVE"
    <3>1. fixtures # <<>>
      <4>1. DOMAIN <<>> = {}
        OBVIOUS
      <4> QED  BY <1>4, <4>1
    <3> QED  BY <2>3, <3>1 DEF SeasonTold
  <2>5. standings' = standings /\ season' = season /\ processed' = processed /\ \A g : ResultsOf(g)' = ResultsOf(g)
    BY <1>2 DEF resultVars, ResultsOf
  <2>6. ASSUME NEW u \in DOMAIN standings PROVE Earned(u)' = standings[u] + ToCome("readStandings", k, u)'
    <3>1. Earned(u) = standings[u] + 0 /\ standings[u] \in Nat
      BY <2>3 DEF SeasonTold, ToCome, TypeInv, SeasonOK
    <3>2. ToCome("readStandings", k, u)' = IF PlayersOf(copy) \subseteq DOMAIN standings /\ u \in PlayersOf(copy)
                                           THEN PointsFor(copy, u) ELSE 0
      BY <1>1, <2>5 DEF ToCome, InPlay
    <3>3. Earned(u)' = Earned(u) + ToCome("readStandings", k, u)'
      BY <2>2, <3>2
    <3> QED  BY <3>1, <3>3
  <2>7. ASSUME NEW m \in DOMAIN fixtures
        PROVE  Cardinality(ResultsOf(Fixture(m)))' = IF m \in Counted' /\ m # n THEN 1 ELSE 0
    <3>1. Cardinality(ResultsOf(Fixture(m))) = IF m \in Counted THEN 1 ELSE 0
      BY <2>3 DEF SeasonTold
    <3>2. Cardinality(ResultsOf(Fixture(m)))' = Cardinality(ResultsOf(Fixture(m)))
      BY <2>5 DEF Fixture
    <3> QED  BY <2>2, <3>1, <3>2
  <2>8. ASSUME NEW m \in DOMAIN processed, -processed[m].match \in DOMAIN fixtures, processed[m].rated
        PROVE  processed[m].winner = WinnerOf(fixtures'[-processed[m].match])
    <3>1. -processed[m].match # n
      <4>1. PICK g : g = Fixture(n)
        OBVIOUS
      <4>2. Cardinality(ResultsOf(g)) = 0
        BY <1>4, <2>2, <2>3, <4>1 DEF SeasonTold
      <4>3. ResultsOf(g) = {}
        BY <4>2, ResultsFinite, FS_EmptySet
      <4>4. processed[m].match # g
        BY <4>3 DEF ResultsOf
      <4>5. processed[m].match \in Int
        <5>1. processed[m] \in ResultRow
          BY DEF TypeInv, ProcessedOK
        <5> QED  BY <5>1 DEF ResultRow
      <4> QED  BY <1>4, <4>1, <4>4, <4>5, FixtureIndex DEF Fixture
    <3> QED  BY <1>5, <2>3, <2>8, <3>1 DEF SeasonTold
  <2>9. /\ fixtures'[k.fixture] = k.copy /\ k.copy.status = "COMPLETED"
        /\ InPlay("readStandings", k)' /\ k.fixture = n
    BY <1>1, <1>5, <2>1 DEF InPlay
  <2> QED  BY <1>5, <2>4, <2>5, <2>6, <2>7, <2>8, <2>9 DEF SeasonTold
<1> QED  BY <1>1, <1>2, <1>3, <1>5, <1>6, SeasonPartTurn DEF SeasonSteps

-----------------------------------------------------------------------------
(* In turn: every step *)

LEMMA TurnInit == CardInit => TurnInv
<1> SUFFICES ASSUME CardInit PROVE TurnInv
  OBVIOUS
<1>1. InTurn /\ \A w \in Workers : pc[w] = "idle"
  BY NothingServed DEF CardInit, SeasonInit, Init
<1>2. DOMAIN processed = {} /\ processed = <<>> /\ published = <<>> /\ games = <<>> /\ memories = {}
  BY DEF CardInit, SeasonInit, Init
<1>3. timelines = mirror /\ fixtures = <<>> /\ standings = <<>> /\ season = "none" /\ \A u \in Users : played[u] = 0
  BY DEF CardInit, SeasonInit, Init
<1>4. \A u \in Users : Cardinality(Of(u)) = 0 /\ ~Owes("idle", NoWork, u)
  <2>1. \A u \in Users : Of(u) = {}
    BY <1>2 DEF Of
  <2> QED  BY <2>1, FS_EmptySet DEF Owes, Unrated
<1>5. ~Reports("idle", NoWork) /\ ~InPlay("idle", NoWork)
  BY DEF Reports, InPlay
<1>6. RatesTold("idle", NoWork)
  BY <1>3, <1>4 DEF RatesTold
<1>7. GamesTold("idle", NoWork) /\ NewsTold("idle", NoWork)
  BY <1>2, <1>5 DEF GamesTold, NewsTold
<1>8. MemoriesTold("idle", NoWork) /\ LinesTold("idle", NoWork)
  BY <1>2, <1>3, <1>5 DEF MemoriesTold, LinesTold, OneMemoryEach
<1>9. SeasonTold("idle", NoWork)
  BY <1>2, <1>3, <1>5 DEF SeasonTold
<1> QED  BY <1>1, <1>6, <1>7, <1>8, <1>9 DEF TurnInv, Told

LEMMA ServeTurn ==
  ASSUME TypeInv, TurnInv, NEW w \in Workers, UNCHANGED seasonVars, Serve(w)
  PROVE  TurnInv'
BY SaveMatchTurn, ReadTimelineTurn, SaveTimelineTurn, MirrorTimelineTurn, ReadUsersTurn, AskRealAiTurn,
   SaveUsersTurn, SaveSeedTurn, FindMemoriesTurn, CreateMemoryTurn, PublishTurn DEF Serve

LEMMA ResultsTurn ==
  ASSUME TypeInv, TurnInv, Next, UNCHANGED seasonVars
  PROVE  TurnInv'
<1>1. PICK w \in Workers :
        \/ \E a, b \in Users : Create(w, a, b) \/ ReportElsewhere(w, a, b)
        \/ \E g \in DOMAIN games :
             \/ \E a, b \in Scores : ReportResult(w, g, a, b)
             \/ \E side \in Sides, balls \in SUBSET (1 .. games[g].rack) : PyramidPocket(w, g, side, balls)
        \/ \E g \in Matches : StartTimeline(w, g) \/ \E type \in EventTypes : AppendEvent(w, g, type)
        \/ \E u \in Users : SeedFromExternal(w, u)
        \/ Serve(w)
        \/ PartFails(w)
        \/ (Abort(w) /\ UNCHANGED resultVars)
  BY DEF Next
<1>2. CASE \E a, b \in Users : Create(w, a, b) \/ ReportElsewhere(w, a, b)
  BY <1>2, CreateTurn, ReportElsewhereTurn
<1>3. CASE \E g \in DOMAIN games :
             \/ \E a, b \in Scores : ReportResult(w, g, a, b)
             \/ \E side \in Sides, balls \in SUBSET (1 .. games[g].rack) : PyramidPocket(w, g, side, balls)
  BY <1>3, ReportResultTurn, PyramidPocketTurn
<1>4. CASE \E g \in Matches : StartTimeline(w, g) \/ \E type \in EventTypes : AppendEvent(w, g, type)
  BY <1>4, TimelineTurn
<1>5. CASE \E u \in Users : SeedFromExternal(w, u)
  BY <1>5, SeedTurn
<1> QED  BY <1>1, <1>2, <1>3, <1>4, <1>5, ServeTurn, FailureTurn

LEMMA SeasonsTurn ==
  ASSUME TypeInv, TurnInv, SeasonNext
  PROVE  TurnInv'
<1>1. CASE Elsewise
  BY <1>1, ResultsTurn DEF Elsewise
<1>2. CASE \E w \in Workers : CreateSeason(w) \/ SaveSeason(w) \/ SaveSnapshot(w) \/ Validate(w)
                              \/ SaveFixture(w) \/ ReadStandings(w) \/ SaveStandings(w)
  BY <1>2, CreateSeasonTurn, SaveSeasonTurn, SaveSnapshotTurn, ValidateTurn, SaveFixtureTurn, ReadStandingsTurn,
     SaveStandingsTurn
<1>3. CASE \E w \in Workers :
             \/ \E players \in SUBSET Users : StartSeason(w, players)
             \/ \E a, b \in Users : ScheduleMatch(w, a, b)
             \/ \E n \in DOMAIN fixtures, a, b \in Scores : ReportMatch(w, n, a, b)
  BY <1>3, StartSeasonTurn, ScheduleMatchTurn, ReportMatchTurn
<1> QED  BY <1>1, <1>2, <1>3 DEF SeasonNext

LEMMA TurnStutter == ASSUME TurnInv, UNCHANGED cardVars PROVE TurnInv'
<1>1. /\ UNCHANGED <<pc, my, overlapped, irregular>> /\ UNCHANGED <<resultVars, seasonVars>>
  BY DEF cardVars, allVars, vars, requestVars
<1>2. \A s, k : Told(s, k) => Told(s, k)'
  BY <1>1, ToldStill
<1>3. InTurn' /\ (Orderly' <=> Orderly) /\ (Quiet' <=> Quiet)
  BY <1>1 DEF TurnInv, InTurn, Orderly, Quiet
<1>4. ASSUME Orderly, NEW w \in Workers, pc'[w] # "idle" PROVE Told(pc[w], my[w])'
  <2>1. PICK s, k : s = pc[w] /\ k = my[w]
    OBVIOUS
  <2>2. Told(s, k)'
    BY <1>1, <1>2, <1>4, <2>1 DEF TurnInv
  <2> QED  BY <1>1, <2>1, <2>2
<1>5. Orderly /\ Quiet => Told("idle", NoWork)'
  BY <1>2 DEF TurnInv
<1> QED  BY <1>3, <1>4, <1>5 DEF TurnInv

LEMMA TurnNext == ASSUME TypeInv, TurnInv, [CardNext]_cardVars PROVE TurnInv'
<1>1. CASE SeasonNext /\ UNCHANGED identities
  BY <1>1, SeasonsTurn
<1>2. CASE \E w \in Workers : CardStep(w)
  BY <1>2, CardTurn
<1>3. CASE UNCHANGED cardVars
  BY <1>3, TurnStutter
<1> QED  BY <1>1, <1>2, <1>3, CardNextSplit

LEMMA TurnInvariant == CardSpec => [](TypeInv /\ TurnInv)
<1>1. CardInit => TypeInv /\ TurnInv
  BY TypeInit, TurnInit
<1>2. TypeInv /\ TurnInv /\ [CardNext]_cardVars => (TypeInv /\ TurnInv)'
  BY TypeStep, TurnNext
<1> QED  BY <1>1, <1>2, PTL DEF CardSpec

\* Served in turn and without a failure, a result takes effect exactly once
\* (scorekeeping-v2.service.ts:60, processReport): each completed pool match is
\* processed once, each player is rated once for it and has one memory of the
\* match, and its timeline is closed, in the table as in Redis.
THEOREM ResultsCountOnce == CardSpec => []ResultCountedOnce
<1>1. ASSUME TypeInv, TurnInv, Orderly, Quiet PROVE ResultCountedOnce
  <2>1. Told("idle", NoWork) /\ ~Reports("idle", NoWork) /\ \A u : ~Owes("idle", NoWork, u)
    BY <1>1 DEF TurnInv, Reports, Owes, Unrated
  <2>2. \A g \in DOMAIN games :
          Cardinality({n \in DOMAIN processed : processed[n].match = g}) = IF games[g].status = "COMPLETED" THEN 1 ELSE 0
    BY <2>1 DEF Told, GamesTold, ResultsOf
  <2>3. \A u \in Users : played[u] = Cardinality(Of(u))
    BY <1>1, <2>1 DEF Told, RatesTold, TypeInv, UsersOK
  <2>4. published = processed /\ mirror = timelines
    BY <2>1 DEF Told, NewsTold, LinesTold
  <2>5. ASSUME NEW n \in DOMAIN processed, Remembered(processed[n]), NEW u \in Players(processed[n])
        PROVE  Cardinality({m \in MemoriesOf(processed[n].match) : m.user = u}) = 1
    <3>1. OneMemoryEach /\ HasMemory(processed[n].match, u)
      BY <2>1, <2>5 DEF Told, MemoriesTold
    <3>2. PICK memory \in memories : memory.match = processed[n].match /\ memory.user = u
      BY <3>1 DEF HasMemory
    <3>3. {m \in MemoriesOf(processed[n].match) : m.user = u} = {memory}
      BY <3>1, <3>2 DEF MemoriesOf, OneMemoryEach
    <3> QED  BY <3>3, FS_Singleton
  <2>6. \A n \in DOMAIN processed : ClosedAt(processed[n].match)
    BY <2>1 DEF Told, LinesTold
  <2> QED  BY <2>2, <2>3, <2>4, <2>5, <2>6 DEF ResultCountedOnce, Remembered, ClosedAt, Closed
<1>2. TypeInv /\ TurnInv => ResultCountedOnce
  BY <1>1 DEF ResultCountedOnce
<1> QED  BY <1>2, TurnInvariant, PTL

\* Served in turn and without a failure, the standings of a season are what its
\* completed matches say, and each of those was handed over once, with the winner
\* that its row names (leagues-v2.service.ts:150, reportMatch).
THEOREM PointsAreOfResults == CardSpec => []PointsFollowResults
<1>1. ASSUME TypeInv, TurnInv, Orderly, Quiet PROVE PointsFollowResults
  <2>1. SeasonTold("idle", NoWork) /\ ~InPlay("idle", NoWork)
    BY <1>1 DEF TurnInv, Told, InPlay
  <2>2. ASSUME NEW u \in DOMAIN standings PROVE standings[u] = Earned(u)
    <3>1. Earned(u) = standings[u] + 0 /\ standings[u] \in Nat
      BY <1>1, <2>1 DEF SeasonTold, ToCome, TypeInv, SeasonOK
    <3> QED  BY <3>1
  <2>3. \A n \in DOMAIN fixtures :
          Cardinality({k \in DOMAIN processed : processed[k].match = Fixture(n)}) = IF n \in Counted THEN 1 ELSE 0
    BY <2>1 DEF SeasonTold, ResultsOf
  <2>4. \A k \in DOMAIN processed : -processed[k].match \in DOMAIN fixtures /\ processed[k].rated =>
          processed[k].winner = WinnerOf(fixtures[-processed[k].match])
    BY <2>1 DEF SeasonTold
  <2> QED  BY <2>2, <2>3, <2>4 DEF PointsFollowResults
<1>2. TypeInv /\ TurnInv => PointsFollowResults
  BY <1>1 DEF PointsFollowResults
<1> QED  BY <1>2, TurnInvariant, PTL
=============================================================================
