----------------------------- MODULE WebSession -----------------------------
(***************************************************************************)
(* The browser's side of signing in (lib/api.ts, lib/auth-context.tsx)     *)
(* together with the server's (Accounts).  The tabs of a browser share its *)
(* localStorage.  A fetch that is answered 401 asks for new tokens, once   *)
(* per tab however many fetches wait for them, and is sent again; when     *)
(* there are none the session is cleared.  Answers take their time: what   *)
(* is stored may have changed when they arrive.                            *)
(***************************************************************************)
EXTENDS Accounts

CONSTANTS
  Tabs,
  Slots          \* the fetches a tab may have under way

VARIABLES
  storage,       \* localStorage: the access token (0: none), the refresh token, the profile
  accessOf,      \* per access token handed out: whose it is
  expired,       \* access tokens that have expired
  fetch,         \* per fetch: how far it is, the token it was sent with, and at first
  flight,        \* per fetch: the refresh it has started
  signing,       \* per tab: the sign-in under way
  serves,        \* per request at the server: what it was sent for
  left,          \* sign-outs and expiries that may still be seen
  crossed,       \* whether a refresh was under way when somebody signed out or in
  thrown         \* whether a good refresh token was ever cleared by a fetch

clientVars == <<storage, accessOf, expired, fetch, flight, signing, serves, left, crossed, thrown>>
allVars == <<allAccountVars, clientVars>>

Fetches == Tabs \X Slots
NoUser == "nobody"
NoFetch == [step |-> "none", access |-> 0, start |-> 0, me |-> FALSE, leader |-> NoUser]
NoFlight == [step |-> "none", token |-> 0, new |-> 0, access |-> 0]
NoSignIn == [step |-> "none", user |-> NoUser, fresh |-> FALSE, new |-> 0, access |-> 0]
SignedOut == [access |-> 0, refresh |-> 0, user |-> NoUser]

\* Nobody is not somebody, and a request knows a sign-in from a fetch.
ASSUME NamesDiffer == NoUser \notin Emails /\ Tabs \cap Fetches = {}

WebInit ==
  /\ AccountInit
  /\ storage = SignedOut /\ accessOf = <<>> /\ expired = {}
  /\ fetch = [f \in Fetches |-> NoFetch] /\ flight = [f \in Fetches |-> NoFlight]
  /\ signing = [t \in Tabs |-> NoSignIn]
  /\ serves = [w \in Workers |-> {}]
  /\ left = [outs |-> accountScene.outs, ends |-> accountScene.ends]
  /\ crossed = FALSE /\ thrown = FALSE

Elapsed == UNCHANGED <<left, expired>>
Flying == {f \in Fetches : flight[f].step # "none"}

-----------------------------------------------------------------------------
(* login, signup *)

\* The sign-in page is shown to who is signed out.
SignIn(t, w, e) ==
  /\ t \in accountScene.tabs
  /\ signing[t].step = "none" /\ storage.user = NoUser
  /\ Signup(w, e) \/ Login(w, e)
  /\ signing' = [signing EXCEPT ![t] = [NoSignIn EXCEPT !.step = "asked", !.user = e,
                                                       !.fresh = e \notin users]]
  /\ serves' = [serves EXCEPT ![w] = {t}]
  /\ crossed' = (crossed \/ Flying # {})
  /\ UNCHANGED <<storage, accessOf, fetch, flight, thrown>> /\ Elapsed

\* setSession, and the refresh token.
SignInLands(t) ==
  LET s == signing[t]
  IN  /\ s.step = "done"
      /\ storage' = [access |-> s.access, refresh |-> s.new, user |-> s.user]
      /\ signing' = [signing EXCEPT ![t] = NoSignIn]
      /\ UNCHANGED <<requestVars, accountVars, accessOf, fetch, flight, serves, crossed, thrown>>
      /\ Elapsed

\* After any error the first version is tried, which hands out no refresh token;
\* it refuses to sign somebody up who is known.
Fallback(t) ==
  LET s == signing[t]
  IN  /\ s.step = "failed"
      /\ signing' = [signing EXCEPT ![t] = NoSignIn]
      /\ IF s.fresh /\ s.user \in users
         THEN UNCHANGED <<storage, accessOf, users>>
         ELSE /\ users' = users \cup {s.user}
              /\ accessOf' = Append(accessOf, s.user)
              /\ storage' = [storage EXCEPT !.access = Len(accessOf) + 1, !.user = s.user]
      /\ UNCHANGED <<requestVars, accountScene, sessions, tokens, held, fetch, flight, serves, crossed, thrown>>
      /\ LinkRest /\ Elapsed

\* logout clears the storage; the server is not told.
SignOut ==
  /\ left.outs > 0 /\ storage # SignedOut
  /\ left' = [left EXCEPT !.outs = @ - 1]
  /\ storage' = SignedOut
  /\ crossed' = (crossed \/ Flying # {})
  /\ UNCHANGED <<requestVars, accountVars, accessOf, expired, fetch, flight, signing, serves, thrown>>

-----------------------------------------------------------------------------
(* request *)

\* me: fetchMe, whose answer is stored.
SendFetch(f, me) ==
  /\ f[1] \in accountScene.tabs
  /\ fetch[f].step = "none" /\ storage.access # 0
  /\ fetch' = [fetch EXCEPT ![f] = [NoFetch EXCEPT !.step = "sent", !.access = storage.access,
                                                   !.start = storage.access, !.me = me]]
  /\ UNCHANGED <<requestVars, accountVars, storage, accessOf, flight, signing, serves, crossed, thrown>>
  /\ Elapsed

\* The server looks at the access token alone.
Looked(f) ==
  /\ fetch[f].step \in {"sent", "again"}
  /\ fetch' = [fetch EXCEPT ![f].step = IF @ = "again" /\ fetch[f].access \in expired THEN "gone"
                                        ELSE IF fetch[f].access \in expired THEN "refused" ELSE "ok"]
  /\ UNCHANGED <<requestVars, accountVars, storage, accessOf, flight, signing, serves, crossed, thrown>>
  /\ Elapsed

\* (mutant) Whoever is signed in when the profile arrives.
StillAlways(f) == storage.access # 0
\* sessionStill
Still(f) == storage.access = fetch[f].start

Arrives(f) ==
  /\ fetch[f].step \in {"ok", "gone"}
  /\ storage' = IF fetch[f].step = "ok" /\ fetch[f].me /\ Still(f)
                THEN [storage EXCEPT !.user = accessOf[fetch[f].access]] ELSE storage
  /\ fetch' = [fetch EXCEPT ![f] = NoFetch]
  /\ UNCHANGED <<requestVars, accountVars, accessOf, flight, signing, serves, crossed, thrown>>
  /\ Elapsed

\* clearSession by a fetch that could not be refreshed
Throw == /\ storage' = SignedOut
         /\ thrown' = (thrown \/ storage.refresh \in {n \in DOMAIN tokens : ~tokens[n].revoked /\ ~tokens[n].late})

\* (mutant) Every fetch refreshes for itself.
NoneWaits(f) == {}
\* refreshInFlight: the fetch of this tab that refreshes already
Leaders(f) == {g \in Flying : g[1] = f[1]}

\* trySilentRefresh
Unauthorized(f) ==
  /\ fetch[f].step = "refused"
  /\ IF storage.refresh = 0
     THEN /\ fetch' = [fetch EXCEPT ![f] = NoFetch]
          /\ Throw
          /\ UNCHANGED flight
     ELSE /\ UNCHANGED <<storage, thrown>>
          /\ IF Leaders(f) # {}
             THEN \E g \in Leaders(f) :
                    /\ fetch' = [fetch EXCEPT ![f].step = "waits", ![f].leader = g]
                    /\ UNCHANGED flight
             ELSE /\ fetch' = [fetch EXCEPT ![f].step = "waits", ![f].leader = f]
                  /\ flight' = [flight EXCEPT ![f] = [NoFlight EXCEPT !.step = "asked",
                                                                      !.token = storage.refresh]]
  /\ UNCHANGED <<requestVars, accountVars, accessOf, signing, serves, crossed>> /\ Elapsed

\* The refresh reaches the server, which takes the token or refuses it.
RefreshArrives(f, w) ==
  /\ flight[f].step = "asked"
  /\ LET n == flight[f].token
     IN  IF tokens[n].revoked \/ tokens[n].late
         THEN /\ flight' = [flight EXCEPT ![f].step = "failed"]
              /\ UNCHANGED <<requestVars, accountVars, serves>>
         ELSE /\ Refresh(w, n)
              /\ flight' = [flight EXCEPT ![f].step = "served"]
              /\ serves' = [serves EXCEPT ![w] = {f}]
  /\ UNCHANGED <<storage, accessOf, fetch, signing, crossed, thrown>> /\ Elapsed

\* The fetches that wait for the answer are sent again with what is then stored,
\* or clear the session.
FlightLands(f) ==
  LET waiting == {g \in Fetches : fetch[g].step = "waits" /\ fetch[g].leader = f}
  IN  /\ flight[f].step \in {"done", "failed"}
      /\ flight' = [flight EXCEPT ![f] = NoFlight]
      /\ IF flight[f].step = "done"
         THEN /\ storage' = [storage EXCEPT !.access = flight[f].access, !.refresh = flight[f].new]
              /\ fetch' = [g \in Fetches |-> IF g \in waiting
                                             THEN [fetch[g] EXCEPT !.step = "again", !.access = flight[f].access,
                                                                   !.leader = NoUser]
                                             ELSE fetch[g]]
              /\ UNCHANGED thrown
         ELSE /\ Throw
              /\ fetch' = [g \in Fetches |-> IF g \in waiting THEN NoFetch ELSE fetch[g]]
      /\ UNCHANGED <<requestVars, accountVars, accessOf, signing, serves, crossed>> /\ Elapsed

-----------------------------------------------------------------------------
(* The server's answers *)

\* What request w was sent for is answered with new tokens, or fails.
Reply(w, step, new, access) ==
  /\ serves' = [serves EXCEPT ![w] = {}]
  /\ flight' = [f \in Fetches |-> IF f \notin serves[w] THEN flight[f]
                                  ELSE [flight[f] EXCEPT !.step = step, !.new = new, !.access = access]]
  /\ signing' = [t \in Tabs |-> IF t \notin serves[w] THEN signing[t]
                                ELSE [signing[t] EXCEPT !.step = step, !.new = new, !.access = access]]

Issued(w) ==
  /\ serves[w] # {}
  /\ Issue(w)
  /\ accessOf' = Append(accessOf, sessions[my[w].session].user)
  /\ Reply(w, "done", Len(tokens) + 1, Len(accessOf) + 1)
  /\ UNCHANGED <<storage, fetch, crossed, thrown>> /\ Elapsed

Worked(w) ==
  /\ serves[w] # {}
  /\ CreateUser(w) \/ CreateSession(w) \/ Revoke(w)
  /\ IF pc'[w] = "idle" THEN Reply(w, "failed", 0, 0) ELSE UNCHANGED <<serves, flight, signing>>
  /\ UNCHANGED <<storage, accessOf, fetch, crossed, thrown>> /\ Elapsed

CutShort(w) ==
  /\ serves[w] # {}
  /\ Abort(w)
  /\ Reply(w, "failed", 0, 0)
  /\ UNCHANGED <<accountVars, storage, accessOf, fetch, crossed, thrown>> /\ Elapsed

\* The answer to a refresh is lost on its way.
AnswerLost(f) ==
  /\ flight[f].step = "done"
  /\ Irregular
  /\ flight' = [flight EXCEPT ![f].step = "failed"]
  /\ UNCHANGED <<pc, my, overlapped, atOnce, accountVars, storage, accessOf, fetch, signing, serves,
                 crossed, thrown>>
  /\ Elapsed

AccessEnds(n) ==
  /\ left.ends > 0 /\ n \notin expired
  /\ left' = [left EXCEPT !.ends = @ - 1]
  /\ expired' = expired \cup {n}
  /\ UNCHANGED <<requestVars, accountVars, storage, accessOf, fetch, flight, signing, serves, crossed, thrown>>

-----------------------------------------------------------------------------
\* Without a browser: other clients, which keep to what Accounts says.
Devices == accountScene.tabs = {} /\ AccountNext /\ UNCHANGED clientVars

\* A token of the browser expires.
RefreshEnds(n) == accountScene.tabs # {} /\ TokenEnds(n) /\ UNCHANGED clientVars

WebNext ==
  \/ \E t \in Tabs : \/ \E w \in Workers, e \in Emails : SignIn(t, w, e)
                     \/ SignInLands(t) \/ Fallback(t)
  \/ SignOut
  \/ \E f \in Fetches : \/ \E me \in BOOLEAN : SendFetch(f, me)
                        \/ Looked(f) \/ Arrives(f) \/ Unauthorized(f)
                        \/ \E w \in Workers : RefreshArrives(f, w)
                        \/ FlightLands(f) \/ AnswerLost(f)
  \/ \E w \in Workers : Issued(w) \/ Worked(w) \/ CutShort(w)
  \/ \E n \in DOMAIN accessOf : AccessEnds(n)
  \/ \E n \in DOMAIN tokens : RefreshEnds(n)
  \/ Devices

WebSpec == WebInit /\ [][WebNext]_allVars

-----------------------------------------------------------------------------
(* What a browser may rely on *)

\* Every variable keeps its shape.
WebTypeOK ==
  LET Access == 0 .. Len(accessOf)
      Tokens == 0 .. Len(tokens)
      Waits == {"asked", "served", "done", "failed"}
  IN  /\ storage \in [access : Access, refresh : Tokens, user : Emails \cup {NoUser}]
      /\ accessOf \in Seq(users) /\ expired \subseteq DOMAIN accessOf
      /\ \A f \in Fetches :
           /\ fetch[f].step \in {"none", "sent", "again", "refused", "waits", "ok", "gone"}
           /\ fetch[f].access \in Access /\ fetch[f].start \in Access /\ fetch[f].me \in BOOLEAN
           /\ fetch[f].step = "waits" => fetch[f].leader \in Flying
      /\ flight \in [Fetches -> [step : Waits \cup {"none"}, token : Tokens, new : Tokens,
                                  access : Access]]
      /\ signing \in [Tabs -> [step : Waits \cup {"none"}, user : Emails \cup {NoUser},
                                fresh : BOOLEAN, new : Tokens, access : Access]]
      /\ serves \in [Workers -> SUBSET (Fetches \cup Tabs)]
      /\ left \in [outs : Nat, ends : Nat]
      /\ crossed \in BOOLEAN /\ thrown \in BOOLEAN

Landed == Quiet /\ Flying = {} /\ \A t \in Tabs : signing[t].step = "none"

OneTab == \E t \in Tabs : accountScene.tabs = {t}

\* "Single-flight silent refresh so parallel 401s share one /auth/v2/refresh"
\* (api.ts:148): a refresh token can be used once, so the parallel fetches of a tab
\* must never present it twice: with one tab a fetch never throws away tokens that
\* are good, and whoever is signed in holds a token that was not used.  (Tabs do
\* not share the flight, and any failure of the refresh clears the session.)
SignedInStays ==
  OneTab /\ ~crossed /\ ~irregular =>
    /\ ~thrown
    /\ Landed /\ storage.refresh # 0 => ~tokens[storage.refresh].revoked

ProfileFits ==
  storage.user # NoUser => storage.access # 0 /\ accessOf[storage.access] = storage.user

\* The profile that is stored is that of the user the token was issued to,
\* although answers to fetches of an earlier session may still be under way
\* (sessionStill, auth-context.tsx:37).  (A refresh that is under way when
\* somebody signs out, or in, brings the tokens of the earlier session back; and
\* two tabs may sign in at a time.)
ProfileIsTheTokens == OneTab /\ ~crossed => ProfileFits

\* The same whatever is under way.
ProfileAlwaysTheTokens == ProfileFits

\* The same with any number of tabs.
ProfileInEveryTab == ~crossed => ProfileFits

\* No fetch throws away tokens that are good, with any number of tabs.
NothingThrown == ~crossed /\ ~irregular => ~thrown
=============================================================================
