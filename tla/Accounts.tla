------------------------------ MODULE Accounts ------------------------------
(***************************************************************************)
(* Signing in: accounts, device sessions and their refresh tokens, and the *)
(* links by which an address is confirmed or a password is set again       *)
(* (AuthV2Service and its four services).  A refresh token is good for one *)
(* refresh, which hands out the next one of the same session; of the links *)
(* of one kind only a user's newest counts.  Both are looked up first and  *)
(* marked afterwards.                                                      *)
(***************************************************************************)
EXTENDS Requests, Sequences, SequencesExt

CONSTANTS
  Emails,
  AccountScenes  \* what is followed: the calls made, sessions, tokens and links in all,
                 \* whether tokens and links expire, requests served at a time and
                 \* irregular steps (requests cut short)

AccountCalls == {"signup", "login", "refresh", "logout", "link", "follow"}
Kinds == {"verify", "reset"}

VARIABLES
  accountScene,  \* fixed from the start
  users,         \* rows of users, by their address
  sessions,      \* rows of device_sessions: the user, whether revoked
  tokens,        \* rows of refresh_tokens: the session, whether revoked, whether expired
  held,          \* per session: the token its client was handed last, 0: none
  links,         \* rows of the two tables of links
  applied,       \* per link: how often it had its effect
  verified       \* users whose address is confirmed

accountVars == <<accountScene, users, sessions, tokens, held, links, applied, verified>>
allAccountVars == <<requestVars, accountVars>>

NoAccounts ==
  /\ users = {} /\ sessions = <<>> /\ tokens = <<>> /\ held = <<>>
  /\ links = <<>> /\ applied = <<>> /\ verified = {}

AccountInit ==
  /\ accountScene \in AccountScenes
  /\ NoAccounts
  /\ ServeNothing(accountScene.irregular, accountScene.atOnce)

AccountCall(w, call) == call \in accountScene.calls /\ Arrive(w) /\ Regular
LinkRest == UNCHANGED <<links, applied, verified>>
SessionRest == UNCHANGED <<users, sessions, tokens, held>>

-----------------------------------------------------------------------------
(* signup, login *)

MayLogin == Len(sessions) + Cardinality({v \in Workers : pc[v] \in {"createUser", "createSession"}})
                < accountScene.sessions
MayIssue == Len(tokens) + Cardinality({v \in Workers : pc[v] # "idle"}) < accountScene.tokens

Signup(w, e) ==
  /\ AccountCall(w, "signup") /\ MayLogin /\ MayIssue
  /\ e \notin users
  /\ Await(w, "createUser", [user |-> e])
  /\ UNCHANGED accountVars

\* users.email is unique: of two sign-ups at a time one fails.
CreateUser(w) ==
  /\ At(w, "createUser")
  /\ IF my[w].user \in users THEN Answer(w) ELSE Then(w, "createSession")
  /\ users' = users \cup {my[w].user}
  /\ UNCHANGED <<accountScene, sessions, tokens, held>> /\ LinkRest

\* (With the right password; any other changes nothing.)
Login(w, e) ==
  /\ AccountCall(w, "login") /\ MayLogin /\ MayIssue
  /\ e \in users
  /\ Await(w, "createSession", [user |-> e])
  /\ UNCHANGED accountVars

CreateSession(w) ==
  /\ At(w, "createSession")
  /\ sessions' = Append(sessions, [user |-> my[w].user, revoked |-> FALSE])
  /\ held' = Append(held, 0)
  /\ Await(w, "issue", [session |-> Len(sessions) + 1])
  /\ UNCHANGED <<accountScene, users, tokens>> /\ LinkRest

\* issueNewRefreshTokenRaw, and the answer.
Issue(w) ==
  /\ At(w, "issue")
  /\ tokens' = Append(tokens, [session |-> my[w].session, revoked |-> FALSE, late |-> FALSE])
  /\ held' = [held EXCEPT ![my[w].session] = Len(tokens) + 1]
  /\ Answer(w)
  /\ UNCHANGED <<accountScene, users, sessions>> /\ LinkRest

-----------------------------------------------------------------------------
(* refresh, logout *)

Refresh(w, t) ==
  /\ AccountCall(w, "refresh") /\ MayIssue
  /\ ~tokens[t].revoked /\ ~tokens[t].late
  /\ Await(w, "revoke", [token |-> t])
  /\ UNCHANGED accountVars

\* (mutant) The old token is left as it is.
NotRotated(t) == tokens
Rotated(t) == [tokens EXCEPT ![t].revoked = TRUE]

\* revokeById asks no more whether the token is still good.
Revoke(w) ==
  /\ At(w, "revoke")
  /\ tokens' = Rotated(my[w].token)
  /\ Await(w, "issue", [session |-> tokens[my[w].token].session])
  /\ UNCHANGED <<accountScene, users, sessions, held>> /\ LinkRest

\* logout and revokeSession: one UPDATE of the session, if it is the user's.
Logout(w, s) ==
  /\ AccountCall(w, "logout")
  /\ sessions' = [sessions EXCEPT ![s].revoked = TRUE]
  /\ UNCHANGED <<pc, my, accountScene, users, tokens, held>> /\ LinkRest

LogoutAll(w, e) ==
  /\ AccountCall(w, "logout")
  /\ sessions' = [s \in DOMAIN sessions |->
                    IF sessions[s].user = e THEN [sessions[s] EXCEPT !.revoked = TRUE] ELSE sessions[s]]
  /\ UNCHANGED <<pc, my, accountScene, users, tokens, held>> /\ LinkRest

TokenEnds(t) ==
  /\ accountScene.expires /\ ~tokens[t].late
  /\ tokens' = [tokens EXCEPT ![t].late = TRUE]
  /\ UNCHANGED <<requestVars, accountScene, users, sessions, held>> /\ LinkRest

-----------------------------------------------------------------------------
(* Links: sendEmailVerification and requestPasswordReset, verifyEmail and
   confirmPasswordReset *)

UsedUp(e, k) ==
  [n \in DOMAIN links |-> IF links[n].user = e /\ links[n].kind = k THEN [links[n] EXCEPT !.used = TRUE]
                          ELSE links[n]]

\* createTokenForUser: the earlier ones are marked used, then the new one is saved.
AskLink(w, e, k) ==
  /\ AccountCall(w, "link")
  /\ Len(links) + Cardinality({v \in Workers : pc[v] = "saveLink"}) < accountScene.links
  /\ e \in users /\ (k = "verify" => e \notin verified)
  /\ links' = UsedUp(e, k)
  /\ Await(w, "saveLink", [user |-> e, kind |-> k])
  /\ UNCHANGED <<accountScene, applied, verified>> /\ SessionRest

SaveLink(w) ==
  /\ At(w, "saveLink")
  /\ links' = Append(links, [user |-> my[w].user, kind |-> my[w].kind, used |-> FALSE, late |-> FALSE])
  /\ applied' = Append(applied, 0)
  /\ Answer(w)
  /\ UNCHANGED <<accountScene, verified>> /\ SessionRest

FollowLink(w, n) ==
  /\ AccountCall(w, "follow")
  /\ ~links[n].used /\ ~links[n].late
  /\ Await(w, "useLink", [link |-> n])
  /\ UNCHANGED accountVars

UseLink(w) ==
  /\ At(w, "useLink")
  /\ links' = [links EXCEPT ![my[w].link].used = TRUE]
  /\ Then(w, "apply")
  /\ UNCHANGED <<accountScene, applied, verified>> /\ SessionRest

\* markEmailVerified, updatePasswordHash
Apply(w) ==
  LET n == my[w].link
  IN  /\ At(w, "apply")
      /\ applied' = [applied EXCEPT ![n] = @ + 1]
      /\ verified' = verified \cup {e \in {links[n].user} : links[n].kind = "verify"}
      /\ Answer(w)
      /\ UNCHANGED <<accountScene, links>> /\ SessionRest

LinkEnds(n) ==
  /\ accountScene.expires /\ ~links[n].late
  /\ links' = [links EXCEPT ![n].late = TRUE]
  /\ UNCHANGED <<requestVars, accountScene, applied, verified>> /\ SessionRest

-----------------------------------------------------------------------------
AccountServe(w) ==
  CreateUser(w) \/ CreateSession(w) \/ Issue(w) \/ Revoke(w) \/ SaveLink(w) \/ UseLink(w) \/ Apply(w)

AccountNext ==
  \/ \E w \in Workers :
       \/ \E e \in Emails : \/ Signup(w, e) \/ Login(w, e) \/ LogoutAll(w, e)
                            \/ \E k \in Kinds : AskLink(w, e, k)
       \/ \E t \in DOMAIN tokens : Refresh(w, t)
       \/ \E s \in DOMAIN sessions : Logout(w, s)
       \/ \E n \in DOMAIN links : FollowLink(w, n)
       \/ AccountServe(w)
       \/ Abort(w) /\ UNCHANGED accountVars
  \/ \E t \in DOMAIN tokens : TokenEnds(t)
  \/ \E n \in DOMAIN links : LinkEnds(n)

AccountSpec == AccountInit /\ [][AccountNext]_allAccountVars

-----------------------------------------------------------------------------
(* What signing in promises *)

\* Every variable keeps its shape.
AccountTypeOK ==
  /\ users \subseteq Emails /\ verified \subseteq users
  /\ sessions \in Seq([user : users, revoked : BOOLEAN])
  /\ tokens \in Seq([session : DOMAIN sessions, revoked : BOOLEAN, late : BOOLEAN])
  /\ held \in [DOMAIN sessions -> 0 .. Len(tokens)]
  /\ links \in Seq([user : users, kind : Kinds, used : BOOLEAN, late : BOOLEAN])
  /\ applied \in [DOMAIN links -> Nat]

\* "rotate: revoke old + create a new one in same device session"
\* (auth-v2.service.ts:84): the client of every session holds a token that was not
\* used, so that it stays signed in, and served in turn it is the session's only
\* one.  (Two refreshes with one token at a time both succeed and leave two; a
\* refresh cut short leaves none.)
OneTokenPerSession ==
  Quiet /\ ~irregular =>
    \A s \in DOMAIN sessions :
      LET good == {t \in DOMAIN tokens : tokens[t].session = s /\ ~tokens[t].revoked}
      IN  held[s] \in good /\ (Orderly => good = {held[s]})

\* The "simple single-token policy" (password-reset.service.ts:21): served in turn,
\* a user has one good link of a kind at most, and no link has its effect twice.
\* (Two requests at a time mark first and save then, or find a link unused twice.)
OneGoodLink ==
  Orderly =>
    /\ \A m, n \in DOMAIN links :
         links[m].user = links[n].user /\ links[m].kind = links[n].kind
           /\ ~links[m].used /\ ~links[n].used => m = n
    /\ \A n \in DOMAIN links : applied[n] <= 1
=============================================================================
