------------------------------ MODULE Sessions ------------------------------
(***************************************************************************)
(* Browser single sign-on: identity/authorize.go, samlsso.go, wsfed.go,    *)
(* webauthn.go, logout.go and the session helpers of identity.go over the  *)
(* sessions and session_apps tables.                                       *)
(*                                                                         *)
(* Signing in creates a session that every protocol shares.  Each session  *)
(* keeps the list of the apps it signed into, and logout notifies those    *)
(* apps before the session and its list are deleted.  Each HTTP request is *)
(* a process whose pc names its next statement with an effect; a browser   *)
(* has a cookie, set when a response arrives, and the last page it showed, *)
(* which it may submit at any later time.                                  *)
(***************************************************************************)
EXTENDS Naturals

CONSTANTS
    Users, Apps,
    Notified,           \* the apps with a frontchannel_logout_uri
    Sids,               \* session ids, each drawn at most once
    Requests, Browsers,
    Protocols,          \* the protocols in use, of "oidc", "saml" and "wsfed"
    RequireConsent,     \* Cfg.RequireConsent
    MaxAges,            \* the max_age values clients send
    None,
    SessionLifetime,    \* sessionLifetimeSeconds
    MaxNow              \* bound: the clock shows 0 .. MaxNow

ASSUME SessionsAssumptions ==
    /\ None \notin Users \cup Apps \cup Sids \cup Browsers \cup MaxAges
    /\ Notified \subseteq Apps
    /\ Protocols \subseteq {"oidc", "saml", "wsfed"}
    /\ RequireConsent \in BOOLEAN
    /\ MaxAges \subseteq Nat
    /\ SessionLifetime \in Nat \ {0}
    /\ MaxNow \in Nat

VARIABLES
    users,          \* users.account_enabled, or "absent"
    sessions,       \* the sessions table
    sessionApps,    \* session_apps
    cookie,         \* ee_session of each browser
    page,           \* the form each browser shows
    reqs,           \* HTTP requests in flight
    now,            \* Store.Now()
    signedIn        \* history: apps that got a code or id_token through a session, or
                    \* an assertion from the sign-in that opened it

vars == <<users, sessions, sessionApps, cookie, page, reqs, now, signedIn>>

-----------------------------------------------------------------------------
Session == [status: {"unused", "live", "deleted"}, user: Users \cup {None}, created: Nat]

\* authorizeState, samlState or wsfedState, signed into the form.
Page == [kind: {"none", "signin", "consent"}, proto: {"oidc", "saml", "wsfed"},
         app: Apps \cup {None}, maxAge: MaxAges \cup {None}]

\* A request that signs in (create, record, issue) or out (clear, forget).
\* asks: a consent page follows; opens: the response sets the cookie;
\* at: when the session was looked up or made; due: history, see collectLogout.
Request == [pc: {"idle", "create", "record", "issue", "clear", "forget"},
            browser: Browsers \cup {None}, proto: {"oidc", "saml", "wsfed"},
            app: Apps \cup {None}, maxAge: MaxAges \cup {None}, user: Users \cup {None}, sid: Sids \cup {None},
            authTime: Nat, at: Nat, asks: BOOLEAN, opens: BOOLEAN,
            uris: SUBSET Apps, due: SUBSET Apps]

BlankSession == [status |-> "unused", user |-> None, created |-> 0]
NoPage == [kind |-> "none", proto |-> "oidc", app |-> None, maxAge |-> None]
Idle == [pc |-> "idle", browser |-> None, proto |-> "oidc", app |-> None, maxAge |-> None,
         user |-> None, sid |-> None, authTime |-> 0, at |-> 0, asks |-> FALSE, opens |-> FALSE,
         uris |-> {}, due |-> {}]

\* currentSession: the cookie names an unexpired session of an enabled user.
SessionValid(b) ==
    /\ cookie[b] # None
    /\ sessions[cookie[b]].status = "live"
    /\ sessions[cookie[b]].created + SessionLifetime > now
    /\ users[sessions[cookie[b]].user] = "enabled"

Finish(r) == reqs' = [reqs EXCEPT ![r] = Idle]

\* The request goes on with the browser's session.
WithSession(b, pc, proto, a, maxAge) ==
    [Idle EXCEPT !.pc = pc, !.browser = b, !.proto = proto, !.app = a, !.maxAge = maxAge,
                 !.user = sessions[cookie[b]].user, !.sid = cookie[b],
                 !.authTime = sessions[cookie[b]].created, !.at = now]

-----------------------------------------------------------------------------
\* Signing in

\* The session is not older than the client's max_age.
YoungEnough(b, maxAge) ==
    maxAge # None => now <= sessions[cookie[b]].created + maxAge

\* handleAuthorize: a usable session issues a code, after the consent page if
\* one is required; otherwise the sign-in page is shown. prompt=none never
\* shows a page and prompt=login always does.
handleAuthorize(r, b, a, maxAge, prompt) ==
    LET usable == SessionValid(b) /\ YoungEnough(b, maxAge) /\ prompt # "login"
        asks == RequireConsent /\ prompt # "none"
    IN
    /\ "oidc" \in Protocols
    /\ reqs[r].pc = "idle"
    /\ \/ /\ usable /\ ~asks
          /\ reqs' = [reqs EXCEPT ![r] = WithSession(b, "record", "oidc", a, maxAge)]
          /\ UNCHANGED page
       \/ /\ usable /\ asks
          /\ page' = [page EXCEPT ![b] =
                        [kind |-> "consent", proto |-> "oidc", app |-> a, maxAge |-> maxAge]]
          /\ UNCHANGED reqs
       \/ /\ ~usable /\ prompt # "none"
          /\ page' = [page EXCEPT ![b] =
                        [kind |-> "signin", proto |-> "oidc", app |-> a, maxAge |-> maxAge]]
          /\ UNCHANGED reqs
    /\ UNCHANGED <<users, sessions, sessionApps, cookie, now, signedIn>>

\* handleConsentDecision with Accept: the session is looked up again. Cancel
\* leaves everything as it is.
handleConsentDecision(r, b) ==
    /\ reqs[r].pc = "idle"
    /\ page[b].kind = "consent"
    /\ SessionValid(b)
    /\ reqs' = [reqs EXCEPT ![r] = WithSession(b, "record", "oidc", page[b].app, page[b].maxAge)]
    /\ UNCHANGED <<users, sessions, sessionApps, cookie, page, now, signedIn>>

\* An existing session is answered at once, without recording the app.
FederatedChallenge(r, b, proto, a) ==
    /\ proto \in Protocols
    /\ reqs[r].pc = "idle"
    /\ \/ /\ SessionValid(b)
          /\ reqs' = [reqs EXCEPT ![r] = WithSession(b, "issue", proto, a, None)]
          /\ UNCHANGED page
       \/ /\ ~SessionValid(b)
          /\ page' = [page EXCEPT ![b] =
                        [kind |-> "signin", proto |-> proto, app |-> a, maxAge |-> None]]
          /\ UNCHANGED reqs
    /\ UNCHANGED <<users, sessions, sessionApps, cookie, now, signedIn>>

handleSAMLSSO(r, b, a) == FederatedChallenge(r, b, "saml", a)
handleWSFed(r, b, a) == FederatedChallenge(r, b, "wsfed", a)

\* The sign-in form is posted back to the protocol it belongs to; the request
\* goes on to createSession.
SignInSubmit(r, b, u, proto, asks) ==
    /\ reqs[r].pc = "idle"
    /\ page[b].kind = "signin" /\ page[b].proto = proto
    /\ users[u] = "enabled"
    /\ reqs' = [reqs EXCEPT ![r] =
                  [Idle EXCEPT !.pc = "create", !.browser = b, !.proto = proto,
                               !.app = page[b].app, !.maxAge = page[b].maxAge, !.user = u,
                               !.asks = asks, !.opens = TRUE]]
    /\ UNCHANGED <<users, sessions, sessionApps, cookie, page, now, signedIn>>

handleSignInSubmit(r, b, u) == SignInSubmit(r, b, u, "oidc", RequireConsent)
samlSignIn(r, b, u) == SignInSubmit(r, b, u, "saml", FALSE)
wsfedSignIn(r, b, u) == SignInSubmit(r, b, u, "wsfed", FALSE)

\* createSession returned nil: no session and no cookie.
Sessionless(q) == [q EXCEPT !.pc = "record", !.opens = FALSE]

\* A row for a user that is gone is refused, and the sign-in goes on without
\* a session.
CreateSession(r) ==
    LET q == reqs[r] IN
    /\ q.pc = "create"
    /\ \/ /\ users[q.user] # "absent"
          /\ \E s \in Sids :
                /\ sessions[s].status = "unused"
                /\ sessions' = [sessions EXCEPT ![s] =
                                  [status |-> "live", user |-> q.user, created |-> now]]
                /\ reqs' = [reqs EXCEPT ![r] =
                              [q EXCEPT !.pc = "record", !.sid = s, !.authTime = now, !.at = now]]
       \/ /\ users[q.user] = "absent"
          /\ reqs' = [reqs EXCEPT ![r] = Sessionless(q)]
          /\ UNCHANGED sessions
    /\ UNCHANGED <<users, sessionApps, cookie, page, now, signedIn>>

\* The response reaches the browser with the cookie of the new session.
OpenSession(q) ==
    cookie' = IF q.opens THEN [cookie EXCEPT ![q.browser] = q.sid] ELSE cookie

\* Mutant: only a fresh sign-in records its app.
RecordsFresh(q) == q.sid # None /\ q.opens

\* RecordSessionApp writes a row.
Records(q) == q.sid # None

\* RecordSessionApp; a fresh OIDC sign-in may be followed by the consent page.
RecordSessionApp(r) ==
    LET q == reqs[r] IN
    /\ q.pc = "record"
    /\ sessionApps' = IF Records(q) THEN [sessionApps EXCEPT ![q.sid] = @ \cup {q.app}]
                      ELSE sessionApps
    /\ \/ /\ q.asks
          /\ page' = [page EXCEPT ![q.browser] =
                        [kind |-> "consent", proto |-> "oidc", app |-> q.app, maxAge |-> q.maxAge]]
          /\ OpenSession(q)
          /\ Finish(r)
       \/ /\ ~q.asks
          /\ reqs' = [reqs EXCEPT ![r].pc = "issue"]
          /\ UNCHANGED <<page, cookie>>
    /\ UNCHANGED <<users, sessions, now, signedIn>>

\* The code is stored, so the user's row must exist, and its scopes are
\* resolved again, which may fail.
issueCodeAndDeliver(r) ==
    LET q == reqs[r] IN
    /\ q.pc = "issue" /\ q.proto = "oidc"
    /\ \/ /\ users[q.user] # "absent" /\ q.sid # None
          /\ signedIn' = [signedIn EXCEPT ![q.sid] = @ \cup {q.app}]
       \/ UNCHANGED signedIn
    /\ OpenSession(q)
    /\ Finish(r)
    /\ UNCHANGED <<users, sessions, sessionApps, page, now>>

\* The assertion is made from the user as read before; nothing is stored, and
\* no assertion is made when no signing key can be had. An assertion from a
\* session that existed before is no sign-in of its list.
DeliverAssertion(r, proto) ==
    LET q == reqs[r] IN
    /\ q.pc = "issue" /\ q.proto = proto
    /\ \/ /\ q.opens
          /\ signedIn' = [signedIn EXCEPT ![q.sid] = @ \cup {q.app}]
       \/ UNCHANGED signedIn
    /\ OpenSession(q)
    /\ Finish(r)
    /\ UNCHANGED <<users, sessions, sessionApps, page, now>>

deliverSAMLResponse(r) == DeliverAssertion(r, "saml")
deliverWSFedResponse(r) == DeliverAssertion(r, "wsfed")

\* handleWebAuthnAssertFinish: a verified passkey makes a session for its user
\* and signs into no app.
handleWebAuthnAssertFinish(b, u, s) ==
    /\ users[u] # "absent"
    /\ sessions[s].status = "unused"
    /\ sessions' = [sessions EXCEPT ![s] = [status |-> "live", user |-> u, created |-> now]]
    /\ cookie' = [cookie EXCEPT ![b] = s]
    /\ UNCHANGED <<users, sessionApps, page, reqs, now, signedIn>>

-----------------------------------------------------------------------------
\* Signing out

\* The apps of the session that registered a logout URI
SessionLogoutURIs(s) == sessionApps[s] \cap Notified

\* handleLogout up to SessionLogoutURIs. History: what the logout of a session
\* that is still there owes to the apps signed into by then.
collectLogout(r, b) ==
    LET s == cookie[b] IN
    /\ reqs[r].pc = "idle"
    /\ s # None
    /\ reqs' = [reqs EXCEPT ![r] =
                  [Idle EXCEPT !.pc = "clear", !.browser = b, !.sid = s,
                               !.uris = SessionLogoutURIs(s),
                               !.due = IF sessions[s].status = "live"
                                       THEN signedIn[s] \cap Notified ELSE {}]]
    /\ UNCHANGED <<users, sessions, sessionApps, cookie, page, now, signedIn>>

\* handleWSFedSignOut notifies nobody.
handleWSFedSignOut(r, b) ==
    /\ "wsfed" \in Protocols
    /\ reqs[r].pc = "idle"
    /\ cookie[b] # None
    /\ reqs' = [reqs EXCEPT ![r] = [Idle EXCEPT !.pc = "clear", !.browser = b, !.sid = cookie[b]]]
    /\ UNCHANGED <<users, sessions, sessionApps, cookie, page, now, signedIn>>

\* clearSession: DELETE FROM sessions.
clearSession(r) ==
    LET q == reqs[r] IN
    /\ q.pc = "clear"
    /\ sessions' = [sessions EXCEPT ![q.sid].status = "deleted"]
    /\ reqs' = [reqs EXCEPT ![r].pc = "forget"]
    /\ UNCHANGED <<users, sessionApps, cookie, page, now, signedIn>>

\* ForgetSessionApps, and the response: one iframe per app collected, and an
\* empty cookie, whichever one the browser has by now.
ForgetSessionApps(r) ==
    LET q == reqs[r] IN
    /\ q.pc = "forget"
    /\ sessionApps' = [sessionApps EXCEPT ![q.sid] = {}]
    /\ cookie' = [cookie EXCEPT ![q.browser] = None]
    /\ Finish(r)
    /\ UNCHANGED <<users, sessions, page, now, signedIn>>

-----------------------------------------------------------------------------
\* Everything around

SetAccountEnabled(u, state) ==
    /\ users[u] # "absent"
    /\ users' = [users EXCEPT ![u] = state]
    /\ UNCHANGED <<sessions, sessionApps, cookie, page, reqs, now, signedIn>>

\* Sessions cascade; their lists of apps do not.
DeleteUser(u) ==
    /\ users[u] # "absent"
    /\ users' = [users EXCEPT ![u] = "absent"]
    /\ sessions' = [s \in Sids |->
                      IF sessions[s].user = u THEN [sessions[s] EXCEPT !.status = "deleted"]
                      ELSE sessions[s]]
    /\ UNCHANGED <<sessionApps, cookie, page, reqs, now, signedIn>>

SetClock(n) ==
    /\ now' = n
    /\ UNCHANGED <<users, sessions, sessionApps, cookie, page, reqs, signedIn>>

\* Requests die, and forms signed with the old process's key no longer verify.
Restart ==
    /\ reqs' = [r \in Requests |-> Idle]
    /\ page' = [b \in Browsers |-> NoPage]
    /\ UNCHANGED <<users, sessions, sessionApps, cookie, now, signedIn>>

-----------------------------------------------------------------------------
Init ==
    /\ users = [u \in Users |-> "enabled"]
    /\ sessions = [s \in Sids |-> BlankSession]
    /\ sessionApps = [s \in Sids |-> {}]
    /\ cookie = [b \in Browsers |-> None]
    /\ page = [b \in Browsers |-> NoPage]
    /\ reqs = [r \in Requests |-> Idle]
    /\ now = 0
    /\ signedIn = [s \in Sids |-> {}]

Step(r) ==
    \/ CreateSession(r) \/ RecordSessionApp(r)
    \/ issueCodeAndDeliver(r) \/ deliverSAMLResponse(r) \/ deliverWSFedResponse(r)
    \/ clearSession(r) \/ ForgetSessionApps(r)

Browse(r, b) ==
    \/ \E a \in Apps, maxAge \in MaxAges \cup {None}, prompt \in {None, "none", "login"} :
          handleAuthorize(r, b, a, maxAge, prompt)
    \/ \E a \in Apps : handleSAMLSSO(r, b, a) \/ handleWSFed(r, b, a)
    \/ \E u \in Users : handleSignInSubmit(r, b, u) \/ samlSignIn(r, b, u) \/ wsfedSignIn(r, b, u)
    \/ handleConsentDecision(r, b)
    \/ collectLogout(r, b)
    \/ handleWSFedSignOut(r, b)

Next ==
    \/ \E r \in Requests : Step(r)
    \/ \E r \in Requests, b \in Browsers : Browse(r, b)
    \/ \E b \in Browsers, u \in Users, s \in Sids : handleWebAuthnAssertFinish(b, u, s)
    \/ \E u \in Users, state \in {"enabled", "disabled"} : SetAccountEnabled(u, state)
    \/ \E u \in Users : DeleteUser(u)
    \/ \E n \in 0..MaxNow : SetClock(n)
    \/ Restart

Spec == Init /\ [][Next]_vars

-----------------------------------------------------------------------------
\* Properties

VariablesTyped ==
    /\ users \in [Users -> {"enabled", "disabled", "absent"}]
    /\ sessions \in [Sids -> Session]
    /\ sessionApps \in [Sids -> SUBSET Apps]
    /\ cookie \in [Browsers -> Sids \cup {None}]
    /\ page \in [Browsers -> Page]
    /\ reqs \in [Requests -> Request]
    /\ now \in 0..MaxNow
    /\ signedIn \in [Sids -> SUBSET Apps]

\* A live session has a user, and a form belongs to an app.
RowsTyped ==
    /\ \A s \in Sids : sessions[s].status = "live" => sessions[s].user \in Users
    /\ \A b \in Browsers : page[b].kind # "none" => page[b].app \in Apps

\* What each stage of a request has filled in.
RequestsTyped ==
    \A r \in Requests :
        /\ reqs[r].pc # "idle" => reqs[r].browser \in Browsers
        /\ reqs[r].pc \in {"create", "record", "issue"} =>
              reqs[r].app \in Apps /\ reqs[r].user \in Users
        /\ reqs[r].opens /\ reqs[r].pc # "create" => reqs[r].sid \in Sids
        /\ reqs[r].pc \in {"clear", "forget"} => reqs[r].sid \in Sids

TypeOK == VariablesTyped /\ RowsTyped /\ RequestsTyped

\* A logout that finds its session alive notifies every app signed into by
\* then, by code or by the assertion of the sign-in that opened the session,
\* whatever other requests of the session are under way (handleLogout's order:
\* collect, delete the session, forget the list; RecordSessionApp before
\* issueCodeAndDeliver, samlSignIn and wsfedSignIn before their delivery).
LogoutReachesSignIns ==
    \A r \in Requests : reqs[r].pc \in {"clear", "forget"} => reqs[r].due \subseteq reqs[r].uris

\* No code is issued from a session that was older than the client's max_age
\* when it was looked up (handleAuthorize).
MaxAgeHonoured ==
    \A r \in Requests :
        LET q == reqs[r] IN
        (q.pc = "issue" /\ q.proto = "oidc" /\ q.sid # None /\ q.maxAge # None)
            => q.at <= q.authTime + q.maxAge

-----------------------------------------------------------------------------
\* Inductive strengthenings, checked by TLC and used by the proofs

IsLive(s) == sessions[s].status = "live"

\* The list of a session that is still there misses nobody: no app signed into,
\* and none that a request is about to sign into.
ListsComplete ==
    /\ \A s \in Sids : IsLive(s) => signedIn[s] \subseteq sessionApps[s]
    /\ \A r \in Requests : \A s \in Sids :
          (/\ reqs[r].pc = "issue" /\ reqs[r].sid = s /\ IsLive(s)
           /\ reqs[r].proto = "oidc" \/ reqs[r].opens)
              => reqs[r].app \in sessionApps[s]

\* Cookies and requests name only sessions that were created, and nobody has
\* signed in through another.
SidsDrawn ==
    \A s \in Sids : sessions[s].status = "unused" =>
        /\ signedIn[s] = {}
        /\ \A b \in Browsers : cookie[b] # s
        /\ \A r \in Requests : reqs[r].sid # s

\* A list is forgotten only after its session was deleted.
ForgetsDeleted ==
    \A r \in Requests : \A s \in Sids :
        (reqs[r].pc = "forget" /\ reqs[r].sid = s) => ~IsLive(s)

LogoutInv == ListsComplete /\ SidsDrawn /\ ForgetsDeleted /\ LogoutReachesSignIns
=============================================================================
