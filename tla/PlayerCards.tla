---------------------------- MODULE PlayerCards ----------------------------
(***************************************************************************)
(* The unified player card (PlayerCardService), the resolver that finds    *)
(* the identity row behind it (IdentityResolverService) and the imports    *)
(* from other leagues, upon the ratings that Results writes.  A row of     *)
(* player_identities belongs to a user or to nobody yet, may carry the     *)
(* player's id in another league (one stands for all five) and stores a    *)
(* shadow: numbers computed from a copy of the user's rating.              *)
(*                                                                         *)
(* Names are alike when they are the same: what the score makes of names   *)
(* that differ, the lookups at FargoRate and APA and the raw ratings that  *)
(* are copied onto a card are left out.  Hints are truthful: they tell the *)
(* account, the id and the name of one person.                             *)
(***************************************************************************)
EXTENDS Seasons

CONSTANTS
  DisplayName,   \* of each user
  LeagueName     \* the name under which another league knows the same person

VARIABLES
  identities     \* rows of player_identities, in order

cardVars == <<allVars, identities>>

Nobody == "nobody"
NoName == "no name"
UnknownPlayer == "Unknown player"

NoShadow == [user |-> Nobody, version |-> 0, at |-> [u \in Users |-> 0]]
Row(user, league, name) == [user |-> user, league |-> league, name |-> name, shadow |-> NoShadow]

ASSUME PlayersAssumption ==
  /\ DOMAIN DisplayName = Users /\ DOMAIN LeagueName = Users
  /\ Nobody \notin Users

CardInit == SeasonInit /\ identities = <<>>

-----------------------------------------------------------------------------
(* IdentityResolverService *)

\* (mutant) The score of a name is not looked at.
AlikeAlways(a, b) == a \in {a, b}
Alike(a, b) == a = b

Saved == {[n |-> n, row |-> identities[n]] : n \in DOMAIN identities}
Unsaved(row) == [n |-> 0, row |-> row]

\* Rows of that name, and the rows, perhaps to be made, of users of that name who
\* own none of these.  All score the same; rows come before users.
RowsNamed(name) == {found \in Saved : Alike(found.row.name, name)}
RowOfUser(u) ==
  LET own == {found \in Saved : found.row.user = u}
  IN  IF own # {} THEN own ELSE {Unsaved(Row(u, Nobody, DisplayName[u]))}
UsersNamed(name) ==
  UNION {RowOfUser(u) : u \in {v \in Users : /\ Alike(DisplayName[v], name)
                                             /\ \A found \in RowsNamed(name) : found.row.user # v}}
Top(name) == IF RowsNamed(name) # {} THEN RowsNamed(name) ELSE UsersNamed(name)
Ambiguous(name) == Cardinality(RowsNamed(name) \cup UsersNamed(name)) > 1

Created(hints) ==
  Row(hints.user, hints.league,
      IF hints.name # NoName THEN hints.name
      ELSE IF hints.user # Nobody THEN DisplayName[hints.user] ELSE UnknownPlayer)

\* By the id, by the user, by the user's name if that is clear, by the name even if
\* it is not ("using top candidate; review before merge"); else a new row.
Found(hints) ==
  LET byId == {found \in Saved : hints.league # Nobody /\ found.row.league = hints.league}
      byUser == {found \in Saved : hints.user # Nobody /\ found.row.user = hints.user}
  IN  IF byId # {} THEN byId
      ELSE IF byUser # {} THEN byUser
      ELSE IF hints.user # Nobody /\ ~Ambiguous(DisplayName[hints.user]) THEN Top(DisplayName[hints.user])
      ELSE IF hints.name # NoName /\ Top(hints.name) # {} THEN Top(hints.name)
      ELSE {Unsaved(Created(hints))}

Merged(row, hints) ==
  [row EXCEPT !.league = IF hints.league # Nobody THEN hints.league ELSE @,
              !.name = IF hints.name # NoName THEN hints.name ELSE @,
              !.user = IF @ = Nobody THEN hints.user ELSE @]

\* All the lookups, and then the hints over what was found.
Resolve(w) ==
  /\ At(w, "resolve")
  /\ \E found \in Found(my[w].hints) :
       Await(w, "saveIdentity",
             [ask |-> my[w].ask, of |-> my[w].of, version |-> my[w].version,
              n |-> found.n, row |-> Merged(found.row, my[w].hints)])
  /\ UNCHANGED <<resultVars, seasonVars, identities>>

\* A user has one row: a second one is refused, and the request throws.
Refused(n, row) ==
  row.user # Nobody /\ \E m \in DOMAIN identities : m # n /\ identities[m].user = row.user

Save(w, row) ==
  identities' = IF my[w].n = 0 THEN Append(identities, row) ELSE [identities EXCEPT ![my[w].n] = row]
SavedAs(w) == IF my[w].n = 0 THEN Len(identities) + 1 ELSE my[w].n

SaveIdentity(w) ==
  LET saved == [my[w] EXCEPT !.n = SavedAs(w)]
  IN  /\ At(w, "saveIdentity")
      /\ IF Refused(my[w].n, my[w].row) THEN Answer(w) /\ UNCHANGED identities
         ELSE /\ Save(w, my[w].row)
              /\ CASE my[w].ask = "import" -> Await(w, "saveImport", saved)
                   [] my[w].ask = "resolve" /\ my[w].row.user # Nobody ->
                        Await(w, "readUser", [ask |-> "card", of |-> my[w].row.user])
                   [] my[w].ask = "resolve" /\ my[w].row.user = Nobody ->
                        Await(w, "readIdentity", [ask |-> "byId", n |-> saved.n])
                   [] OTHER -> Await(w, "shade", saved)
      /\ UNCHANGED <<resultVars, seasonVars>>

-----------------------------------------------------------------------------
(* PlayerCardService.  A request asks for a "card", or for its shadow to be computed   *)
(* anew ("recompute", "seed", "import"), of a user, by an id or after an import.       *)

\* A request that may make a row; so many rows are followed.
Ask(w, step, work) ==
  /\ Call(w, "cards")
  /\ Len(identities) < scene.games
  /\ Await(w, step, work)
  /\ UNCHANGED <<resultVars, seasonVars, identities>>

CardHints(u) == [user |-> u, league |-> Nobody, name |-> DisplayName[u]]

AskCard(w, u, ask) == Ask(w, "readUser", [ask |-> ask, of |-> u])

\* Also from seedRating, once the rating is saved.
ReadUser(w) ==
  /\ At(w, "readUser")
  /\ Await(w, "resolve", [ask |-> my[w].ask, of |-> my[w].of, version |-> updates[my[w].of],
                          hints |-> CardHints(my[w].of)])
  /\ UNCHANGED <<resultVars, seasonVars, identities>>

AskById(w, n) ==
  /\ Call(w, "cards")
  /\ Await(w, "readIdentity", [ask |-> "byId", n |-> n])
  /\ UNCHANGED <<resultVars, seasonVars, identities>>

ReadIdentity(w) ==
  /\ At(w, "readIdentity")
  /\ Await(w, "readLinked", [ask |-> "byId", n |-> my[w].n, row |-> identities[my[w].n]])
  /\ UNCHANGED <<resultVars, seasonVars, identities>>

\* manualImport and identity/resolve, with what is known of a person.
Hints(u) ==
  {h \in [user : {u, Nobody}, league : {u, Nobody}, name : {LeagueName[u], NoName}] :
     h # [user |-> Nobody, league |-> Nobody, name |-> NoName]}

\* (No user has been read.)
ByHints(ask, hints) == [ask |-> ask, of |-> Nobody, version |-> 0, hints |-> hints]
AskWith(w, hints, ask) == Ask(w, "resolve", ByHints(ask, hints))

\* With the imported numbers; the copy is the one that was saved before.
SaveImport(w) ==
  /\ At(w, "saveImport")
  /\ IF Refused(my[w].n, my[w].row) THEN Answer(w) /\ UNCHANGED identities
     ELSE Save(w, my[w].row) /\ Then(w, "readLinked")
  /\ UNCHANGED <<resultVars, seasonVars>>

\* The user of the row, if it has one; without, a card by id is answered as it is.
ReadLinked(w) ==
  LET u == my[w].row.user
  IN  /\ At(w, "readLinked")
      /\ IF u = Nobody /\ my[w].ask = "byId" THEN Answer(w)
         ELSE Await(w, "shade", [ask |-> my[w].ask, of |-> u, n |-> my[w].n, row |-> my[w].row,
                                 version |-> IF u = Nobody THEN 0 ELSE updates[u]])
      /\ UNCHANGED <<resultVars, seasonVars, identities>>

\* ensureShadow: nothing is stored, or it was computed before the rating changed.
\* (mutant) A stored shadow is good enough.
StaleIfMissing(row, u, version) == row.shadow.user = Nobody
Stale(row, u, version) == row.shadow.user = Nobody \/ row.shadow.at[u] < version

\* writeShadow: from the copy of the user, and stamped with the present time, in
\* which the users have had so many updates.
Shadowed(w) ==
  LET u == my[w].of
  IN  IF u # Nobody /\ (my[w].ask \in {"recompute", "seed", "import"} \/ Stale(my[w].row, u, my[w].version))
      THEN [my[w].row EXCEPT !.shadow = [user |-> u, version |-> my[w].version, at |-> updates]]
      ELSE my[w].row

\* A seed may come with ids of the other league, which are then imported.
Shade(w) ==
  /\ At(w, "shade")
  /\ IF Refused(my[w].n, my[w].row) THEN Answer(w) /\ UNCHANGED identities
     ELSE /\ Save(w, Shadowed(w))
          /\ \/ Answer(w)
             \/ /\ my[w].ask = "seed"
                /\ Await(w, "resolve",
                         ByHints("import", [user |-> my[w].of, league |-> my[w].of, name |-> NoName]))
  /\ UNCHANGED <<resultVars, seasonVars>>

-----------------------------------------------------------------------------
CardNext ==
  \/ \E w \in Workers :
       \/ \E u \in Users :
            \/ \E ask \in {"card", "recompute"} : AskCard(w, u, ask)
            \/ \E hints \in Hints(u), ask \in {"import", "resolve"} : AskWith(w, hints, ask)
       \/ \E n \in DOMAIN identities : AskById(w, n)
       \/ ReadUser(w) \/ Resolve(w) \/ SaveIdentity(w) \/ ReadIdentity(w) \/ SaveImport(w)
       \/ ReadLinked(w) \/ Shade(w)
  \/ SeasonNext /\ UNCHANGED identities

CardSpec == CardInit /\ [][CardNext]_cardVars

-----------------------------------------------------------------------------
(* What a card promises *)

\* Every variable keeps its shape, and a shadow comes from a rating there has been.
CardTypeOK ==
  LET People == Users \cup {Nobody}
  IN  \A n \in DOMAIN identities :
        /\ identities[n].user \in People /\ identities[n].league \in People
        /\ identities[n].name \in {UnknownPlayer} \cup Range(DisplayName) \cup Range(LeagueName)
        /\ identities[n].shadow.user \in People
        /\ \A u \in Users : identities[n].shadow.at[u] \in 0 .. updates[u]
        /\ \A u \in Users : identities[n].shadow.user = u =>
             identities[n].shadow.version \in 0 .. identities[n].shadow.at[u]

\* Whatever overlaps or fails, a row tells of one person: the user who owns it, the
\* id and the name in the other league, and the user whose rating it shows.  (While
\* no two users have the same name; namesakes share a row.)
OnePersonEach ==
  \A n \in DOMAIN identities : \E p \in Users :
    /\ {identities[n].user, identities[n].league, identities[n].shadow.user} \subseteq {p, Nobody}
    /\ identities[n].name \in {DisplayName[p], LeagueName[p], UnknownPlayer}

IsCurrent(row, u) == row.user = u /\ row.shadow.user = u /\ row.shadow.version = updates[u]

\* Served in turn and without a failure, a card of a user is answered with the
\* user's row and a shadow of the user's present rating.
CardIsCurrent ==
  [][\A w \in Workers : pc[w] = "shade" /\ pc'[w] # "shade" /\ Orderly' /\ my[w].of # Nobody =>
       IsCurrent(identities'[SavedAs(w)], my[w].of)]_cardVars

\* A stored shadow that is out of date is one the next card computes anew.  (A card
\* that read the user before a result saves the old numbers under a later time.)
OutdatedIsStale ==
  \A n \in DOMAIN identities :
    LET u == identities[n].user
    IN  Quiet /\ u # Nobody /\ identities[n].shadow.user = u =>
          identities[n].shadow.version = updates[u] \/ Stale(identities[n], u, updates[u])

\* Served in turn, no import of truthful hints fails.  (A person whose row was made
\* by an import and who then got another as a user can never be linked to both.)
ImportsGoThrough ==
  [][\A w \in Workers : pc[w] = "saveIdentity" /\ pc'[w] = "idle" => ~Orderly']_cardVars
=============================================================================
