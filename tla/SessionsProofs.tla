--------------------------- MODULE SessionsProofs ---------------------------
(***************************************************************************)
(* Single sign-on and logout for every number of users, apps, sessions,    *)
(* browsers and concurrent requests: every logout of a session that is     *)
(* still there reaches every app the session signed into.                  *)
(***************************************************************************)
EXTENDS Sessions, TLAPS

-----------------------------------------------------------------------------
\* What the operations do, field by field

\* The blank rows, the empty page and the idle request are well typed.
LEMMA BlanksTyped ==
    /\ BlankSession \in Session
    /\ NoPage \in Page /\ NoPage.kind = "none"
    /\ Idle \in Request
    /\ Idle.pc = "idle" /\ Idle.sid = None /\ ~Idle.opens
BY SessionsAssumptions DEF BlankSession, Session, NoPage, Page, Idle, Request

\* A request that goes on with the browser's session takes its user and its id
\* from there and opens no session of its own.
LEMMA WithSessionEffect ==
    ASSUME TypeOK, NEW b \in Browsers, SessionValid(b), NEW pc \in {"record", "issue"},
           NEW proto \in {"oidc", "saml", "wsfed"}, NEW a \in Apps, NEW maxAge \in MaxAges \cup {None},
           NEW q, q = WithSession(b, pc, proto, a, maxAge)
    PROVE  /\ q \in Request
           /\ q.pc = pc /\ q.browser = b /\ q.proto = proto /\ q.app = a /\ q.user \in Users
           /\ q.sid = cookie[b] /\ cookie[b] \in Sids /\ ~q.opens
<1>1. cookie[b] \in Sids
  BY DEF SessionValid, TypeOK, VariablesTyped
<1>2. /\ sessions[cookie[b]] \in Session
      /\ sessions[cookie[b]].user \in Users
  BY <1>1 DEF SessionValid, TypeOK, VariablesTyped, RowsTyped
<1>3. sessions[cookie[b]].created \in Nat
  BY <1>2 DEF Session
<1>4. now \in Nat
  BY DEF TypeOK, VariablesTyped
<1> QED BY <1>1, <1>2, <1>3, <1>4, SessionsAssumptions DEF WithSession, Idle, Request

\* What a browser's request may become: one that goes on with the cookie's
\* session, one that creates a session, or a logout of the cookie's session.
Started(q, b) ==
    \/ /\ q.app \in Apps /\ q.user \in Users /\ ~q.opens
       /\ q.sid = cookie[b] /\ q.sid \in Sids
       /\ q.pc = "record" \/ (q.pc = "issue" /\ q.proto # "oidc")
    \/ /\ q.app \in Apps /\ q.user \in Users
       /\ q.sid = None
       /\ q.pc = "create"
    \/ /\ q.sid = cookie[b] /\ q.sid \in Sids /\ ~q.opens
       /\ q.pc = "clear"
       /\ \/ q.due = {}
          \/ /\ IsLive(q.sid) /\ q.due = signedIn[q.sid] \cap Notified
             /\ q.uris = sessionApps[q.sid] \cap Notified

\* A browser's request changes the request and the page it shows, nothing else.
BrowseOutcome(r, b) ==
    /\ UNCHANGED <<users, sessions, sessionApps, cookie, now, signedIn>>
    /\ \/ page' = page
       \/ \E p \in Page : page' = [page EXCEPT ![b] = p] /\ p.app \in Apps
    /\ \/ reqs' = reqs
       \/ \E q \in Request : /\ reqs' = [reqs EXCEPT ![r] = q]
                             /\ q.browser = b /\ Started(q, b)

\* A request of a browser has one of the outcomes above.
LEMMA BrowseEffect ==
    ASSUME TypeOK, NEW r \in Requests, NEW b \in Browsers, Browse(r, b)
    PROVE  BrowseOutcome(r, b)
<1> USE SessionsAssumptions
<1>t. /\ cookie \in [Browsers -> Sids \cup {None}] /\ page \in [Browsers -> Page]
      /\ sessionApps \in [Sids -> SUBSET Apps] /\ signedIn \in [Sids -> SUBSET Apps]
      /\ \A x \in Browsers : page[x].kind # "none" => page[x].app \in Apps
  BY DEF TypeOK, VariablesTyped, RowsTyped
<1>1. ASSUME NEW a \in Apps, NEW maxAge \in MaxAges \cup {None}, NEW prompt \in {None, "none", "login"},
             handleAuthorize(r, b, a, maxAge, prompt)
      PROVE  BrowseOutcome(r, b)
  <2>1. UNCHANGED <<users, sessions, sessionApps, cookie, now, signedIn>>
    BY <1>1 DEF handleAuthorize
  <2>2. \/ /\ SessionValid(b) /\ page' = page
           /\ reqs' = [reqs EXCEPT ![r] = WithSession(b, "record", "oidc", a, maxAge)]
        \/ /\ reqs' = reqs
           /\ \E k \in {"consent", "signin"} :
                 page' = [page EXCEPT ![b] = [kind |-> k, proto |-> "oidc", app |-> a, maxAge |-> maxAge]]
    BY <1>1 DEF handleAuthorize
  <2>3. ASSUME NEW k \in {"consent", "signin"}
        PROVE  /\ [kind |-> k, proto |-> "oidc", app |-> a, maxAge |-> maxAge] \in Page
               /\ [kind |-> k, proto |-> "oidc", app |-> a, maxAge |-> maxAge].app \in Apps
    BY DEF Page
  <2>4. CASE reqs' = reqs
    BY <2>1, <2>2, <2>3, <2>4 DEF BrowseOutcome
  <2>5. CASE SessionValid(b) /\ page' = page
             /\ reqs' = [reqs EXCEPT ![r] = WithSession(b, "record", "oidc", a, maxAge)]
    <3> DEFINE q == WithSession(b, "record", "oidc", a, maxAge)
    <3>1. /\ q \in Request /\ q.pc = "record" /\ q.browser = b /\ q.app = a /\ q.user \in Users
          /\ q.sid = cookie[b] /\ cookie[b] \in Sids /\ ~q.opens
      BY <2>5, WithSessionEffect
    <3>2. reqs' = [reqs EXCEPT ![r] = q]
      BY <2>5
    <3> HIDE DEF q
    <3> QED BY <2>1, <2>5, <3>1, <3>2 DEF BrowseOutcome, Started
  <2> QED BY <2>2, <2>4, <2>5
<1>2. ASSUME handleConsentDecision(r, b) PROVE BrowseOutcome(r, b)
  <2>1. UNCHANGED <<users, sessions, sessionApps, cookie, page, now, signedIn>> /\ SessionValid(b)
        /\ reqs' = [reqs EXCEPT ![r] = WithSession(b, "record", "oidc", page[b].app, page[b].maxAge)]
    BY <1>2 DEF handleConsentDecision
  <2>2. page[b].app \in Apps /\ page[b].maxAge \in MaxAges \cup {None}
    BY <1>2, <1>t DEF handleConsentDecision, Page
  <2> DEFINE q == WithSession(b, "record", "oidc", page[b].app, page[b].maxAge)
  <2>3. /\ q \in Request /\ q.pc = "record" /\ q.browser = b /\ q.app = page[b].app /\ q.user \in Users
        /\ q.sid = cookie[b] /\ cookie[b] \in Sids /\ ~q.opens
    <3>1. SessionValid(b) BY <2>1
    <3> DEFINE a == page[b].app
               m == page[b].maxAge
    <3>2. a \in Apps /\ m \in MaxAges \cup {None} BY <2>2
    <3> HIDE DEF a, m
    <3>3. LET x == WithSession(b, "record", "oidc", a, m)
          IN  /\ x \in Request /\ x.pc = "record" /\ x.browser = b /\ x.app = a /\ x.user \in Users
              /\ x.sid = cookie[b] /\ cookie[b] \in Sids /\ ~x.opens
      BY <3>1, <3>2, WithSessionEffect
    <3> QED BY <3>3 DEF a, m
  <2>4. reqs' = [reqs EXCEPT ![r] = q]
    BY <2>1
  <2> HIDE DEF q
  <2> QED BY <2>1, <2>2, <2>3, <2>4 DEF BrowseOutcome, Started
<1>3. ASSUME NEW a \in Apps, NEW proto \in {"saml", "wsfed"}, FederatedChallenge(r, b, proto, a)
      PROVE  BrowseOutcome(r, b)
  <2>1. UNCHANGED <<users, sessions, sessionApps, cookie, now, signedIn>>
    BY <1>3 DEF FederatedChallenge
  <2>2. CASE SessionValid(b)
    <3> DEFINE q == WithSession(b, "issue", proto, a, None)
    <3>1. page' = page /\ reqs' = [reqs EXCEPT ![r] = q]
      BY <1>3, <2>2 DEF FederatedChallenge
    <3>2. /\ q \in Request /\ q.pc = "issue" /\ q.proto = proto /\ q.browser = b /\ q.app = a
          /\ q.user \in Users /\ q.sid = cookie[b] /\ cookie[b] \in Sids /\ ~q.opens
      BY <2>2, WithSessionEffect
    <3> HIDE DEF q
    <3> QED BY <2>1, <3>1, <3>2 DEF BrowseOutcome, Started
  <2>3. CASE ~SessionValid(b)
    <3> DEFINE p == [kind |-> "signin", proto |-> proto, app |-> a, maxAge |-> None]
    <3>1. p \in Page /\ p.app \in Apps
      BY DEF Page
    <3>2. reqs' = reqs /\ page' = [page EXCEPT ![b] = p]
      BY <1>3, <2>3 DEF FederatedChallenge
    <3> HIDE DEF p
    <3> QED BY <2>1, <3>1, <3>2 DEF BrowseOutcome
  <2> QED BY <2>2, <2>3
<1>4. ASSUME NEW u \in Users, NEW proto \in {"oidc", "saml", "wsfed"}, NEW asks \in BOOLEAN,
             SignInSubmit(r, b, u, proto, asks)
      PROVE  BrowseOutcome(r, b)
  <2> DEFINE q == [Idle EXCEPT !.pc = "create", !.browser = b, !.proto = proto,
                               !.app = page[b].app, !.maxAge = page[b].maxAge, !.user = u,
                               !.asks = asks, !.opens = TRUE]
  <2>1. UNCHANGED <<users, sessions, sessionApps, cookie, page, now, signedIn>>
        /\ reqs' = [reqs EXCEPT ![r] = q]
    BY <1>4 DEF SignInSubmit
  <2>2. page[b].app \in Apps /\ page[b].maxAge \in MaxAges \cup {None}
    BY <1>4, <1>t DEF SignInSubmit, Page
  <2>3. /\ q \in Request /\ q.pc = "create" /\ q.browser = b /\ q.user = u /\ q.sid = None
        /\ q.app = page[b].app
    BY <2>2 DEF Idle, Request
  <2> HIDE DEF q
  <2> QED BY <2>1, <2>2, <2>3 DEF BrowseOutcome, Started
<1>5. ASSUME collectLogout(r, b) PROVE BrowseOutcome(r, b)
  <2> DEFINE s == cookie[b]
             due == IF sessions[s].status = "live" THEN signedIn[s] \cap Notified ELSE {}
             q == [Idle EXCEPT !.pc = "clear", !.browser = b, !.sid = s,
                               !.uris = SessionLogoutURIs(s), !.due = due]
  <2>1. /\ UNCHANGED <<users, sessions, sessionApps, cookie, page, now, signedIn>>
        /\ reqs' = [reqs EXCEPT ![r] = q]
    BY <1>5 DEF collectLogout
  <2>2. s \in Sids
    BY <1>5, <1>t DEF collectLogout
  <2>3. due \subseteq Apps /\ SessionLogoutURIs(s) \subseteq Apps
    BY <1>t, <2>2 DEF SessionLogoutURIs
  <2>4. due = {} \/ (IsLive(s) /\ due = signedIn[s] \cap Notified)
    BY DEF IsLive
  <2> HIDE DEF due
  <2>5. /\ q \in Request /\ q.pc = "clear" /\ q.browser = b /\ q.sid = s /\ ~q.opens
        /\ q.due = due /\ q.uris = SessionLogoutURIs(s)
    BY <2>2, <2>3 DEF Idle, Request
  <2> HIDE DEF q
  <2> QED BY <2>1, <2>2, <2>4, <2>5 DEF BrowseOutcome, Started, SessionLogoutURIs
<1>6. ASSUME handleWSFedSignOut(r, b) PROVE BrowseOutcome(r, b)
  <2> DEFINE q == [Idle EXCEPT !.pc = "clear", !.browser = b, !.sid = cookie[b]]
  <2>1. /\ UNCHANGED <<users, sessions, sessionApps, cookie, page, now, signedIn>>
        /\ reqs' = [reqs EXCEPT ![r] = q]
    BY <1>6 DEF handleWSFedSignOut
  <2>2. cookie[b] \in Sids
    BY <1>6, <1>t DEF handleWSFedSignOut
  <2>3. /\ q \in Request /\ q.pc = "clear" /\ q.browser = b /\ q.sid = cookie[b] /\ ~q.opens
        /\ q.due = {}
    BY <2>2 DEF Idle, Request
  <2> HIDE DEF q
  <2> QED BY <2>1, <2>2, <2>3 DEF BrowseOutcome, Started
<1> QED
  BY ZenonT(60), <1>1, <1>2, <1>3, <1>4, <1>5, <1>6
     DEF Browse, handleSAMLSSO, handleWSFed, handleSignInSubmit, samlSignIn, wsfedSignIn

\* A sign-in goes on with a session that nobody has named before, or without one.
LEMMA CreateEffect ==
    ASSUME TypeOK, NEW r \in Requests, CreateSession(r)
    PROVE  /\ reqs[r].pc = "create"
           /\ UNCHANGED <<users, sessionApps, cookie, page, now, signedIn>>
           /\ \E p \in Request :
                 /\ reqs' = [reqs EXCEPT ![r] = p]
                 /\ p.pc = "record" /\ p.browser = reqs[r].browser
                 /\ p.app = reqs[r].app /\ p.user = reqs[r].user
                 /\ \/ sessions' = sessions /\ ~p.opens /\ p.sid = reqs[r].sid
                    \/ \E s \in Sids, row \in Session :
                          /\ sessions[s].status = "unused" /\ p.sid = s
                          /\ sessions' = [sessions EXCEPT ![s] = row]
                          /\ row.status = "live" /\ row.user \in Users
<1> DEFINE q == reqs[r]
<1>0. q.pc = "create" /\ UNCHANGED <<users, sessionApps, cookie, page, now, signedIn>>
  BY DEF CreateSession
<1>1. q \in Request /\ q.user \in Users
  BY <1>0 DEF TypeOK, VariablesTyped, RequestsTyped
<1>2. now \in Nat
  BY SessionsAssumptions DEF TypeOK, VariablesTyped
<1>3. CASE /\ users[q.user] = "absent"
           /\ reqs' = [reqs EXCEPT ![r] = Sessionless(q)]
           /\ UNCHANGED sessions
  <2> DEFINE p == Sessionless(q)
  <2>1. /\ p \in Request /\ p.pc = "record" /\ p.browser = q.browser /\ p.app = q.app
        /\ p.user = q.user /\ ~p.opens /\ p.sid = q.sid
    BY <1>1 DEF Sessionless, Request
  <2>2. reqs' = [reqs EXCEPT ![r] = p] /\ sessions' = sessions
    BY <1>3
  <2> HIDE DEF p
  <2> QED BY <1>0, <2>1, <2>2
<1>4. CASE \E s \in Sids :
             /\ sessions[s].status = "unused"
             /\ sessions' = [sessions EXCEPT ![s] = [status |-> "live", user |-> q.user, created |-> now]]
             /\ reqs' = [reqs EXCEPT ![r] = [q EXCEPT !.pc = "record", !.sid = s, !.authTime = now, !.at = now]]
  <2>1. PICK s \in Sids :
          /\ sessions[s].status = "unused"
          /\ sessions' = [sessions EXCEPT ![s] = [status |-> "live", user |-> q.user, created |-> now]]
          /\ reqs' = [reqs EXCEPT ![r] = [q EXCEPT !.pc = "record", !.sid = s, !.authTime = now, !.at = now]]
    BY <1>4
  <2> DEFINE p == [q EXCEPT !.pc = "record", !.sid = s, !.authTime = now, !.at = now]
             row == [status |-> "live", user |-> q.user, created |-> now]
  <2>2. /\ p \in Request /\ p.pc = "record" /\ p.browser = q.browser /\ p.app = q.app
        /\ p.user = q.user /\ p.sid = s
    BY <1>1, <1>2 DEF Request
  <2>3. row \in Session /\ row.status = "live" /\ row.user \in Users
    BY <1>1, <1>2 DEF Session
  <2>4. reqs' = [reqs EXCEPT ![r] = p] /\ sessions' = [sessions EXCEPT ![s] = row]
    BY <2>1
  <2> HIDE DEF p, row
  <2> QED BY <1>0, <2>1, <2>2, <2>3, <2>4
<1> QED BY <1>3, <1>4 DEF CreateSession

\* Recording puts the app on the list of the request's session, if it has one;
\* then the consent page is shown or the request goes on to issue.
LEMMA RecordEffect ==
    ASSUME TypeOK, NEW r \in Requests, RecordSessionApp(r)
    PROVE  /\ reqs[r].pc = "record"
           /\ UNCHANGED <<users, sessions, now, signedIn>>
           /\ sessionApps' \in [Sids -> SUBSET Apps]
           /\ \A s \in Sids : sessionApps'[s] = IF s = reqs[r].sid THEN sessionApps[s] \cup {reqs[r].app}
                                               ELSE sessionApps[s]
           /\ \/ /\ reqs' = [reqs EXCEPT ![r] = Idle]
                 /\ \E p \in Page : /\ page' = [page EXCEPT ![reqs[r].browser] = p]
                                    /\ p.app \in Apps
                 /\ \/ cookie' = cookie
                    \/ /\ reqs[r].sid \in Sids
                       /\ cookie' = [cookie EXCEPT ![reqs[r].browser] = reqs[r].sid]
              \/ /\ UNCHANGED <<page, cookie>>
                 /\ \E p \in Request :
                       /\ reqs' = [reqs EXCEPT ![r] = p]
                       /\ p.pc = "issue" /\ p.browser = reqs[r].browser
                       /\ p.app = reqs[r].app /\ p.user = reqs[r].user
                       /\ p.sid = reqs[r].sid /\ (p.opens <=> reqs[r].opens)
<1> DEFINE q == reqs[r]
<1>0. q.pc = "record" /\ UNCHANGED <<users, sessions, now, signedIn>>
  BY DEF RecordSessionApp
<1>1. /\ q \in Request /\ q.app \in Apps /\ q.browser \in Browsers
      /\ q.opens => q.sid \in Sids
      /\ sessionApps \in [Sids -> SUBSET Apps]
  BY <1>0 DEF TypeOK, VariablesTyped, RequestsTyped
<1>2. sessionApps' = IF q.sid # None THEN [sessionApps EXCEPT ![q.sid] = @ \cup {q.app}] ELSE sessionApps
  BY DEF RecordSessionApp, Records
<1>3. q.sid \in Sids \cup {None} /\ None \notin Sids
  BY <1>1, SessionsAssumptions DEF Request
<1>4. /\ sessionApps' \in [Sids -> SUBSET Apps]
      /\ \A s \in Sids : sessionApps'[s] = IF s = q.sid THEN sessionApps[s] \cup {q.app} ELSE sessionApps[s]
  BY <1>1, <1>2, <1>3
<1>5. CASE q.asks
  <2> DEFINE p == [kind |-> "consent", proto |-> "oidc", app |-> q.app, maxAge |-> q.maxAge]
  <2>1. p \in Page /\ p.app \in Apps
    BY <1>1 DEF Page, Request
  <2>2. /\ page' = [page EXCEPT ![q.browser] = p]
        /\ reqs' = [reqs EXCEPT ![r] = Idle]
        /\ cookie' = IF q.opens THEN [cookie EXCEPT ![q.browser] = q.sid] ELSE cookie
    BY <1>5 DEF RecordSessionApp, OpenSession, Finish
  <2>3. \/ cookie' = cookie
        \/ q.sid \in Sids /\ cookie' = [cookie EXCEPT ![q.browser] = q.sid]
    BY <1>1, <2>2
  <2> HIDE DEF p
  <2> QED BY <1>0, <1>4, <2>1, <2>2, <2>3
<1>6. CASE ~q.asks
  <2> DEFINE p == [q EXCEPT !.pc = "issue"]
  <2>1. /\ p \in Request /\ p.pc = "issue" /\ p.browser = q.browser /\ p.app = q.app
        /\ p.user = q.user /\ p.sid = q.sid /\ (p.opens <=> q.opens)
    BY <1>1 DEF Request
  <2>2. UNCHANGED <<page, cookie>> /\ reqs' = [reqs EXCEPT ![r] = p]
    BY <1>6 DEF RecordSessionApp
  <2> HIDE DEF p
  <2> QED BY <1>0, <1>4, <2>1, <2>2
<1> QED BY <1>5, <1>6

\* A response, a code or an assertion, sets the cookie of the session it opened
\* and signs at most its own app in.
LEMMA IssueEffect ==
    ASSUME TypeOK, NEW r \in Requests,
           issueCodeAndDeliver(r) \/ deliverSAMLResponse(r) \/ deliverWSFedResponse(r)
    PROVE  /\ reqs[r].pc = "issue"
           /\ UNCHANGED <<users, sessions, sessionApps, page, now>>
           /\ reqs' = [reqs EXCEPT ![r] = Idle]
           /\ \/ cookie' = cookie
              \/ /\ reqs[r].sid \in Sids
                 /\ cookie' = [cookie EXCEPT ![reqs[r].browser] = reqs[r].sid]
           /\ \/ signedIn' = signedIn
              \/ /\ reqs[r].sid \in Sids /\ reqs[r].app \in Apps
                 /\ reqs[r].proto = "oidc" \/ reqs[r].opens
                 /\ signedIn' = [signedIn EXCEPT ![reqs[r].sid] = @ \cup {reqs[r].app}]
<1> DEFINE q == reqs[r]
<1>0. /\ q.pc = "issue" /\ UNCHANGED <<users, sessions, sessionApps, page, now>>
      /\ reqs' = [reqs EXCEPT ![r] = Idle]
      /\ cookie' = IF q.opens THEN [cookie EXCEPT ![q.browser] = q.sid] ELSE cookie
  BY DEF issueCodeAndDeliver, deliverSAMLResponse, deliverWSFedResponse, DeliverAssertion, OpenSession, Finish
<1>1. /\ q \in Request /\ q.app \in Apps
      /\ q.opens => q.sid \in Sids
  BY <1>0 DEF TypeOK, VariablesTyped, RequestsTyped
<1>2. q.sid # None => q.sid \in Sids
  BY <1>1 DEF Request
<1>3. \/ signedIn' = signedIn
      \/ /\ (q.proto = "oidc" /\ q.sid # None) \/ q.opens
         /\ signedIn' = [signedIn EXCEPT ![q.sid] = @ \cup {q.app}]
  BY DEF issueCodeAndDeliver, deliverSAMLResponse, deliverWSFedResponse, DeliverAssertion
<1> HIDE DEF q
<1>4. \/ cookie' = cookie
      \/ q.sid \in Sids /\ cookie' = [cookie EXCEPT ![q.browser] = q.sid]
  BY <1>0, <1>1
<1>5. \/ signedIn' = signedIn
      \/ /\ q.sid \in Sids /\ q.app \in Apps
         /\ q.proto = "oidc" \/ q.opens
         /\ signedIn' = [signedIn EXCEPT ![q.sid] = @ \cup {q.app}]
  BY <1>1, <1>2, <1>3
<1> QED BY <1>0, <1>4, <1>5 DEF q

\* Deleting a session keeps its id and marks it gone; the request then forgets
\* the list.
LEMMA ClearEffect ==
    ASSUME TypeOK, NEW r \in Requests, clearSession(r)
    PROVE  /\ reqs[r].pc = "clear" /\ reqs[r].sid \in Sids
           /\ UNCHANGED <<users, sessionApps, cookie, page, now, signedIn>>
           /\ sessions' \in [Sids -> Session]
           /\ \A s \in Sids : s # reqs[r].sid => sessions'[s] = sessions[s]
           /\ sessions'[reqs[r].sid].status = "deleted"
           /\ \E p \in Request :
                 /\ reqs' = [reqs EXCEPT ![r] = p]
                 /\ p.pc = "forget" /\ p.browser = reqs[r].browser /\ p.sid = reqs[r].sid
                 /\ p.opens <=> reqs[r].opens
                 /\ p.due = reqs[r].due /\ p.uris = reqs[r].uris
<1> DEFINE q == reqs[r]
           p == [q EXCEPT !.pc = "forget"]
           row == [sessions[q.sid] EXCEPT !.status = "deleted"]
<1>0. /\ q.pc = "clear" /\ UNCHANGED <<users, sessionApps, cookie, page, now, signedIn>>
      /\ reqs' = [reqs EXCEPT ![r] = p]
      /\ sessions' = [sessions EXCEPT ![q.sid] = row]
  BY DEF clearSession
<1>1. /\ q \in Request /\ q.sid \in Sids /\ sessions \in [Sids -> Session]
  BY <1>0 DEF TypeOK, VariablesTyped, RequestsTyped
<1>2. /\ p \in Request /\ p.pc = "forget" /\ p.browser = q.browser /\ p.sid = q.sid
      /\ p.opens <=> q.opens
      /\ p.due = q.due /\ p.uris = q.uris
  BY <1>1 DEF Request
<1>3. row \in Session /\ row.status = "deleted"
  BY <1>1 DEF Session
<1> HIDE DEF p, row
<1>4. /\ sessions' \in [Sids -> Session] /\ sessions'[q.sid].status = "deleted"
      /\ \A s \in Sids : s # q.sid => sessions'[s] = sessions[s]
  BY <1>0, <1>1, <1>3
<1> QED BY <1>0, <1>1, <1>2, <1>4

-----------------------------------------------------------------------------
\* Type correctness

\* Each step of the specification keeps every variable in its type.
LEMMA TypeStep == ASSUME TypeOK, [Next]_vars PROVE TypeOK'
<1> USE SessionsAssumptions, BlanksTyped
<1>t. VariablesTyped /\ RowsTyped /\ RequestsTyped
  BY DEF TypeOK
<1>1. ASSUME NEW r \in Requests, NEW b \in Browsers, Browse(r, b) PROVE TypeOK'
  <2>1. BrowseOutcome(r, b)
    BY <1>1, BrowseEffect
  <2>2. VariablesTyped'
    BY <1>t, <2>1 DEF BrowseOutcome, VariablesTyped
  <2>3. RowsTyped'
    BY <1>t, <2>1 DEF BrowseOutcome, VariablesTyped, RowsTyped
  <2>4. RequestsTyped'
    BY <1>t, <2>1 DEF BrowseOutcome, Started, VariablesTyped, RequestsTyped
  <2> QED BY <2>2, <2>3, <2>4 DEF TypeOK
<1>2. ASSUME NEW r \in Requests, CreateSession(r) PROVE TypeOK'
  <2>1. /\ reqs[r].pc = "create" /\ UNCHANGED <<users, sessionApps, cookie, page, now, signedIn>>
        /\ \E p \in Request :
              /\ reqs' = [reqs EXCEPT ![r] = p]
              /\ p.pc = "record" /\ p.browser = reqs[r].browser
              /\ p.app = reqs[r].app /\ p.user = reqs[r].user
              /\ p.opens => p.sid \in Sids
        /\ \/ sessions' = sessions
           \/ \E s \in Sids, row \in Session :
                 /\ sessions' = [sessions EXCEPT ![s] = row]
                 /\ row.user \in Users
    BY <1>2, CreateEffect
  <2>2. VariablesTyped'
    BY <1>t, <2>1 DEF VariablesTyped
  <2>3. RowsTyped'
    BY <1>t, <2>1 DEF VariablesTyped, RowsTyped
  <2>4. RequestsTyped'
    BY <1>t, <2>1 DEF VariablesTyped, RequestsTyped
  <2> QED BY <2>2, <2>3, <2>4 DEF TypeOK
<1>3. ASSUME NEW r \in Requests, RecordSessionApp(r) PROVE TypeOK'
  <2>1. /\ reqs[r].pc = "record" /\ UNCHANGED <<users, sessions, now, signedIn>>
        /\ sessionApps' \in [Sids -> SUBSET Apps]
        /\ \/ cookie' = cookie
           \/ reqs[r].sid \in Sids /\ cookie' = [cookie EXCEPT ![reqs[r].browser] = reqs[r].sid]
        /\ \/ page' = page
           \/ \E p \in Page : page' = [page EXCEPT ![reqs[r].browser] = p] /\ p.app \in Apps
        /\ \/ reqs' = [reqs EXCEPT ![r] = Idle]
           \/ \E p \in Request :
                 /\ reqs' = [reqs EXCEPT ![r] = p]
                 /\ p.pc = "issue" /\ p.browser = reqs[r].browser
                 /\ p.app = reqs[r].app /\ p.user = reqs[r].user
                 /\ p.sid = reqs[r].sid /\ (p.opens <=> reqs[r].opens)
    BY <1>3, RecordEffect
  <2>2. VariablesTyped'
    BY <1>t, <2>1 DEF VariablesTyped
  <2>3. RowsTyped'
    BY <1>t, <2>1 DEF VariablesTyped, RowsTyped
  <2>4. RequestsTyped'
    BY <1>t, <2>1 DEF VariablesTyped, RequestsTyped
  <2> QED BY <2>2, <2>3, <2>4 DEF TypeOK
<1>4. ASSUME NEW r \in Requests,
             issueCodeAndDeliver(r) \/ deliverSAMLResponse(r) \/ deliverWSFedResponse(r)
      PROVE  TypeOK'
  <2>1. /\ reqs[r].pc = "issue" /\ UNCHANGED <<users, sessions, sessionApps, page, now>>
        /\ reqs' = [reqs EXCEPT ![r] = Idle]
        /\ \/ cookie' = cookie
           \/ reqs[r].sid \in Sids /\ cookie' = [cookie EXCEPT ![reqs[r].browser] = reqs[r].sid]
        /\ \/ signedIn' = signedIn
           \/ /\ reqs[r].sid \in Sids /\ reqs[r].app \in Apps
              /\ signedIn' = [signedIn EXCEPT ![reqs[r].sid] = @ \cup {reqs[r].app}]
    BY <1>4, IssueEffect
  <2>2. VariablesTyped'
    BY <1>t, <2>1 DEF VariablesTyped
  <2>3. RowsTyped'
    BY <1>t, <2>1 DEF VariablesTyped, RowsTyped
  <2>4. RequestsTyped'
    BY <1>t, <2>1 DEF VariablesTyped, RequestsTyped
  <2> QED BY <2>2, <2>3, <2>4 DEF TypeOK
<1>5. ASSUME NEW r \in Requests, clearSession(r) PROVE TypeOK'
  <2>1. /\ reqs[r].pc = "clear" /\ reqs[r].sid \in Sids
        /\ UNCHANGED <<users, sessionApps, cookie, page, now, signedIn>>
        /\ sessions' \in [Sids -> Session]
        /\ \A s \in Sids : sessions'[s] = sessions[s] \/ sessions'[s].status = "deleted"
        /\ \E p \in Request :
              /\ reqs' = [reqs EXCEPT ![r] = p]
              /\ p.pc = "forget" /\ p.browser = reqs[r].browser /\ p.sid = reqs[r].sid
    BY <1>5, ClearEffect
  <2>2. VariablesTyped'
    BY <1>t, <2>1 DEF VariablesTyped
  <2>3. RowsTyped'
    BY <1>t, <2>1 DEF VariablesTyped, RowsTyped
  <2>4. RequestsTyped'
    BY <1>t, <2>1 DEF VariablesTyped, RequestsTyped
  <2> QED BY <2>2, <2>3, <2>4 DEF TypeOK
<1>6. ASSUME NEW r \in Requests, ForgetSessionApps(r) PROVE TypeOK'
  <2>1. /\ UNCHANGED <<users, sessions, page, now, signedIn>>
        /\ reqs' = [reqs EXCEPT ![r] = Idle]
        /\ sessionApps' = [sessionApps EXCEPT ![reqs[r].sid] = {}]
        /\ cookie' = [cookie EXCEPT ![reqs[r].browser] = None]
    BY <1>6 DEF ForgetSessionApps, Finish
  <2>2. VariablesTyped'
    BY <1>t, <2>1 DEF VariablesTyped
  <2>3. RowsTyped'
    BY <1>t, <2>1 DEF VariablesTyped, RowsTyped
  <2>4. RequestsTyped'
    BY <1>t, <2>1 DEF VariablesTyped, RequestsTyped
  <2> QED BY <2>2, <2>3, <2>4 DEF TypeOK
<1>7. ASSUME NEW b \in Browsers, NEW u \in Users, NEW s \in Sids, handleWebAuthnAssertFinish(b, u, s)
      PROVE  TypeOK'
  <2> DEFINE row == [status |-> "live", user |-> u, created |-> now]
  <2>0. row \in Session /\ row.user \in Users
    BY <1>t DEF Session, VariablesTyped
  <2>1. /\ UNCHANGED <<users, sessionApps, page, reqs, now, signedIn>>
        /\ sessions' = [sessions EXCEPT ![s] = row]
        /\ cookie' = [cookie EXCEPT ![b] = s]
    BY <1>7 DEF handleWebAuthnAssertFinish
  <2> HIDE DEF row
  <2>2. VariablesTyped'
    BY <1>t, <2>0, <2>1 DEF VariablesTyped
  <2>3. RowsTyped'
    BY <1>t, <2>0, <2>1 DEF VariablesTyped, RowsTyped
  <2>4. RequestsTyped'
    BY <1>t, <2>1 DEF RequestsTyped
  <2> QED BY <2>2, <2>3, <2>4 DEF TypeOK
<1>8. ASSUME NEW u \in Users, NEW state \in {"enabled", "disabled"}, SetAccountEnabled(u, state)
      PROVE  TypeOK'
  BY <1>8, <1>t DEF SetAccountEnabled, TypeOK, VariablesTyped, RowsTyped, RequestsTyped
<1>9. ASSUME NEW u \in Users, DeleteUser(u) PROVE TypeOK'
  <2>1. ASSUME NEW s \in Sids
        PROVE  /\ [sessions[s] EXCEPT !.status = "deleted"] \in Session
               /\ [sessions[s] EXCEPT !.status = "deleted"].status = "deleted"
    BY <1>t DEF VariablesTyped, Session
  <2>2. VariablesTyped'
    BY <1>9, <1>t, <2>1 DEF DeleteUser, VariablesTyped
  <2>3. RowsTyped'
    <3>1. \A s \in Sids : sessions'[s] = sessions[s] \/ sessions'[s].status = "deleted"
      BY <1>9, <2>1 DEF DeleteUser
    <3>2. UNCHANGED page
      BY <1>9 DEF DeleteUser
    <3> QED BY <1>t, <3>1, <3>2 DEF RowsTyped
  <2>4. RequestsTyped'
    BY <1>9, <1>t DEF DeleteUser, RequestsTyped
  <2> QED BY <2>2, <2>3, <2>4 DEF TypeOK
<1>10. ASSUME NEW n \in 0..MaxNow, SetClock(n) PROVE TypeOK'
  BY <1>10, <1>t DEF SetClock, TypeOK, VariablesTyped, RowsTyped, RequestsTyped
<1>11. ASSUME Restart PROVE TypeOK'
  BY <1>11, <1>t DEF Restart, TypeOK, VariablesTyped, RowsTyped, RequestsTyped
<1>12. ASSUME UNCHANGED vars PROVE TypeOK'
  BY <1>12, <1>t DEF vars, TypeOK, VariablesTyped, RowsTyped, RequestsTyped
<1> QED
  BY <1>1, <1>2, <1>3, <1>4, <1>5, <1>6, <1>7, <1>8, <1>9, <1>10, <1>11, <1>12 DEF Next, Step

\* Every reachable state is well typed: live sessions have a user, and a request
\* that signs out or opens a session knows which session it is.
THEOREM TypeCorrect == Spec => []TypeOK
<1>1. Init => TypeOK
  BY SessionsAssumptions, BlanksTyped
     DEF Init, TypeOK, VariablesTyped, RowsTyped, RequestsTyped, BlankSession
<1>2. TypeOK /\ [Next]_vars => TypeOK'
  BY TypeStep
<1> QED BY <1>1, <1>2, PTL DEF Spec

-----------------------------------------------------------------------------
\* Logout reaches every app signed into

\* Each step keeps the lists of live sessions complete and every logout honest.
LEMMA LogoutStep == ASSUME TypeOK, LogoutInv, [Next]_vars PROVE LogoutInv'
<1> USE SessionsAssumptions, BlanksTyped
<1>t. /\ sessions \in [Sids -> Session] /\ sessionApps \in [Sids -> SUBSET Apps]
      /\ cookie \in [Browsers -> Sids \cup {None}] /\ reqs \in [Requests -> Request]
      /\ signedIn \in [Sids -> SUBSET Apps]
  BY DEF TypeOK, VariablesTyped
<1>i. ListsComplete /\ SidsDrawn /\ ForgetsDeleted /\ LogoutReachesSignIns
  BY DEF LogoutInv
<1>n. None \notin Sids
  OBVIOUS
<1>1. ASSUME NEW r \in Requests, NEW b \in Browsers, Browse(r, b) PROVE LogoutInv'
  <2>1. BrowseOutcome(r, b)
    BY <1>1, BrowseEffect
  <2>2. UNCHANGED <<sessions, sessionApps, cookie, signedIn>>
    BY <2>1 DEF BrowseOutcome
  <2>3. CASE reqs' = reqs
    BY <1>i, <2>2, <2>3
       DEF LogoutInv, ListsComplete, SidsDrawn, ForgetsDeleted, LogoutReachesSignIns, IsLive
  <2>4. CASE reqs' # reqs
    <3>1. PICK q \in Request : reqs' = [reqs EXCEPT ![r] = q] /\ Started(q, b)
      BY <2>1, <2>4 DEF BrowseOutcome
    <3>2. /\ \A x \in Requests : x # r => reqs'[x] = reqs[x]
          /\ reqs'[r] = q
      BY <1>t, <3>1
    <3>3. ListsComplete'
      <4>1. q.pc = "issue" => q.proto # "oidc" /\ ~q.opens
        BY <3>1 DEF Started
      <4> QED BY <1>i, <2>2, <3>2, <4>1 DEF ListsComplete, IsLive
    <3>4. SidsDrawn'
      <4>1. q.sid = None \/ q.sid = cookie[b]
        BY <3>1 DEF Started
      <4> QED BY <1>i, <1>n, <2>2, <3>2, <4>1 DEF SidsDrawn
    <3>5. ForgetsDeleted'
      <4>1. q.pc # "forget"
        BY <3>1 DEF Started
      <4> QED BY <1>i, <2>2, <3>2, <4>1 DEF ForgetsDeleted, IsLive
    <3>6. LogoutReachesSignIns'
      <4>1. q.pc \in {"clear", "forget"} => q.due \subseteq q.uris
        BY <1>i, <3>1 DEF Started, ListsComplete
      <4> QED BY <1>i, <3>2, <4>1 DEF LogoutReachesSignIns
    <3> QED BY <3>3, <3>4, <3>5, <3>6 DEF LogoutInv
  <2> QED BY <2>3, <2>4
<1>2. ASSUME NEW r \in Requests, CreateSession(r) PROVE LogoutInv'
  <2>1. UNCHANGED <<sessionApps, cookie, signedIn>>
    BY <1>2, CreateEffect
  <2>2. PICK p \in Request :
          /\ reqs' = [reqs EXCEPT ![r] = p] /\ p.pc = "record"
          /\ \/ sessions' = sessions /\ p.sid = reqs[r].sid
             \/ \E s \in Sids, row \in Session :
                   /\ sessions[s].status = "unused" /\ p.sid = s
                   /\ sessions' = [sessions EXCEPT ![s] = row]
                   /\ row.status = "live"
    BY <1>2, CreateEffect
  <2>3. /\ \A x \in Requests : x # r => reqs'[x] = reqs[x]
        /\ reqs'[r] = p
    BY <1>t, <2>2
  <2>4. CASE sessions' = sessions /\ p.sid = reqs[r].sid
    <3>1. ListsComplete'
      BY <1>i, <2>1, <2>2, <2>3, <2>4 DEF ListsComplete, IsLive
    <3>2. SidsDrawn'
      BY <1>i, <2>1, <2>3, <2>4 DEF SidsDrawn
    <3>3. ForgetsDeleted' /\ LogoutReachesSignIns'
      BY <1>i, <2>2, <2>3, <2>4 DEF ForgetsDeleted, LogoutReachesSignIns, IsLive
    <3> QED BY <3>1, <3>2, <3>3 DEF LogoutInv
  <2>5. ASSUME NEW s \in Sids, sessions[s].status = "unused", p.sid = s,
               sessions'[s].status = "live",
               \A x \in Sids : x # s => sessions'[x] = sessions[x]
        PROVE  LogoutInv'
    <3>0. signedIn[s] = {} /\ \A x \in Requests : reqs[x].sid # s
      BY <1>i, <2>5 DEF SidsDrawn
    <3>1. ListsComplete'
      BY <1>i, <2>1, <2>2, <2>3, <2>5, <3>0 DEF ListsComplete, IsLive
    <3>2. SidsDrawn'
      BY <1>i, <2>1, <2>3, <2>5 DEF SidsDrawn
    <3>3. ForgetsDeleted' /\ LogoutReachesSignIns'
      BY <1>i, <2>2, <2>3, <2>5, <3>0 DEF ForgetsDeleted, LogoutReachesSignIns, IsLive
    <3> QED BY <3>1, <3>2, <3>3 DEF LogoutInv
  <2> QED BY <1>t, <2>2, <2>4, <2>5
<1>3. ASSUME NEW r \in Requests, RecordSessionApp(r) PROVE LogoutInv'
  <2>1. /\ reqs[r].pc = "record" /\ UNCHANGED <<sessions, signedIn>>
        /\ \A s \in Sids : sessionApps'[s] = IF s = reqs[r].sid THEN sessionApps[s] \cup {reqs[r].app}
                                            ELSE sessionApps[s]
        /\ \/ cookie' = cookie
           \/ reqs[r].sid \in Sids /\ cookie' = [cookie EXCEPT ![reqs[r].browser] = reqs[r].sid]
        /\ \/ reqs' = [reqs EXCEPT ![r] = Idle]
           \/ \E p \in Request :
                 /\ reqs' = [reqs EXCEPT ![r] = p]
                 /\ p.pc = "issue" /\ p.app = reqs[r].app /\ p.sid = reqs[r].sid
    BY <1>3, RecordEffect
  <2>2. /\ \A x \in Requests : x # r => reqs'[x] = reqs[x]
        /\ reqs'[r].pc \in {"idle", "issue"}
        /\ reqs'[r].pc = "issue" => reqs'[r].app = reqs[r].app
        /\ reqs'[r].sid \in {None, reqs[r].sid}
        /\ reqs'[r].pc = "issue" => reqs'[r].sid = reqs[r].sid
    BY <1>t, <2>1
  <2>3. \A b \in Browsers : cookie'[b] \in {cookie[b], reqs[r].sid}
    BY <1>t, <2>1
  <2>4. ListsComplete'
    <3>1. \A s \in Sids :
            /\ sessionApps[s] \subseteq sessionApps'[s]
            /\ s = reqs[r].sid => reqs[r].app \in sessionApps'[s]
            /\ IsLive(s)' <=> IsLive(s)
      BY <2>1 DEF IsLive
    <3>2. \A s \in Sids : IsLive(s)' => signedIn'[s] \subseteq sessionApps'[s]
      BY <1>i, <2>1, <3>1 DEF ListsComplete
    <3>3. ASSUME NEW x \in Requests, NEW s \in Sids, reqs'[x].pc = "issue", reqs'[x].sid = s, IsLive(s)',
                 reqs'[x].proto = "oidc" \/ reqs'[x].opens
          PROVE  reqs'[x].app \in sessionApps'[s]
      <4>1. CASE x = r
        BY <2>2, <3>1, <3>3, <4>1
      <4>2. CASE x # r
        BY <1>i, <2>2, <3>1, <3>3, <4>2 DEF ListsComplete
      <4> QED BY <4>1, <4>2
    <3> QED BY <3>2, <3>3 DEF ListsComplete
  <2>5. SidsDrawn'
    BY <1>i, <1>n, <2>1, <2>2, <2>3 DEF SidsDrawn
  <2>6. ForgetsDeleted' /\ LogoutReachesSignIns'
    BY <1>i, <2>1, <2>2 DEF ForgetsDeleted, LogoutReachesSignIns, IsLive
  <2> QED BY <2>4, <2>5, <2>6 DEF LogoutInv
<1>4. ASSUME NEW r \in Requests,
             issueCodeAndDeliver(r) \/ deliverSAMLResponse(r) \/ deliverWSFedResponse(r)
      PROVE  LogoutInv'
  <2>1. /\ reqs[r].pc = "issue" /\ UNCHANGED <<sessions, sessionApps>>
        /\ reqs' = [reqs EXCEPT ![r] = Idle]
        /\ \/ cookie' = cookie
           \/ reqs[r].sid \in Sids /\ cookie' = [cookie EXCEPT ![reqs[r].browser] = reqs[r].sid]
        /\ \/ signedIn' = signedIn
           \/ /\ reqs[r].sid \in Sids
              /\ reqs[r].proto = "oidc" \/ reqs[r].opens
              /\ signedIn' = [signedIn EXCEPT ![reqs[r].sid] = @ \cup {reqs[r].app}]
    BY <1>4, IssueEffect
  <2>2. \A x \in Requests : /\ x # r => reqs'[x] = reqs[x]
                            /\ x = r => reqs'[x].pc = "idle" /\ reqs'[x].sid = None
    BY <1>t, <2>1
  <2>3. \A b \in Browsers : cookie'[b] \in {cookie[b], reqs[r].sid}
    BY <1>t, <2>1
  <2>4. \A s \in Sids :
          \/ signedIn'[s] = signedIn[s]
          \/ /\ s = reqs[r].sid /\ (reqs[r].proto = "oidc" \/ reqs[r].opens)
             /\ signedIn'[s] = signedIn[s] \cup {reqs[r].app}
    BY <1>t, <2>1
  <2>5. ListsComplete'
    <3>1. ASSUME NEW s \in Sids, IsLive(s) PROVE signedIn'[s] \subseteq sessionApps[s]
      BY <1>i, <2>1, <2>4, <3>1 DEF ListsComplete
    <3> QED BY <1>i, <2>1, <2>2, <3>1 DEF ListsComplete, IsLive
  <2>6. SidsDrawn'
    BY <1>i, <1>n, <2>1, <2>2, <2>3, <2>4 DEF SidsDrawn
  <2>7. ForgetsDeleted' /\ LogoutReachesSignIns'
    BY <1>i, <2>1, <2>2 DEF ForgetsDeleted, LogoutReachesSignIns, IsLive
  <2> QED BY <2>5, <2>6, <2>7 DEF LogoutInv
<1>5. ASSUME NEW r \in Requests, clearSession(r) PROVE LogoutInv'
  <2>1. /\ reqs[r].pc = "clear" /\ reqs[r].sid \in Sids
        /\ UNCHANGED <<sessionApps, cookie, signedIn>>
        /\ \A s \in Sids : s # reqs[r].sid => sessions'[s] = sessions[s]
        /\ sessions'[reqs[r].sid].status = "deleted"
    BY <1>5, ClearEffect
  <2>2. /\ \A x \in Requests : x # r => reqs'[x] = reqs[x]
        /\ reqs'[r].pc = "forget" /\ reqs'[r].sid = reqs[r].sid
        /\ reqs'[r].due = reqs[r].due /\ reqs'[r].uris = reqs[r].uris
    BY <1>5, <1>t, ClearEffect
  <2>3. \A s \in Sids : (IsLive(s)' => IsLive(s) /\ s # reqs[r].sid)
                        /\ (sessions'[s].status = "unused" => sessions[s].status = "unused")
    BY <2>1 DEF IsLive
  <2>4. ListsComplete'
    BY <1>i, <2>1, <2>2, <2>3 DEF ListsComplete
  <2>5. SidsDrawn'
    BY <1>i, <2>1, <2>2, <2>3 DEF SidsDrawn
  <2>6. ForgetsDeleted' /\ LogoutReachesSignIns'
    BY <1>i, <2>1, <2>2, <2>3 DEF ForgetsDeleted, LogoutReachesSignIns
  <2> QED BY <2>4, <2>5, <2>6 DEF LogoutInv
<1>6. ASSUME NEW r \in Requests, ForgetSessionApps(r) PROVE LogoutInv'
  <2>1. /\ reqs[r].pc = "forget" /\ UNCHANGED <<sessions, signedIn>>
        /\ reqs' = [reqs EXCEPT ![r] = Idle]
        /\ sessionApps' = [sessionApps EXCEPT ![reqs[r].sid] = {}]
        /\ cookie' = [cookie EXCEPT ![reqs[r].browser] = None]
    BY <1>6 DEF ForgetSessionApps, Finish
  <2>2. \A x \in Requests : /\ x # r => reqs'[x] = reqs[x]
                            /\ x = r => reqs'[x].pc = "idle" /\ reqs'[x].sid = None
    BY <1>t, <2>1
  <2>3. \A b \in Browsers : cookie'[b] \in {cookie[b], None}
    BY <1>t, <2>1
  <2>4. \A s \in Sids : IsLive(s) => sessionApps'[s] = sessionApps[s]
    BY <1>t, <1>i, <2>1 DEF ForgetsDeleted
  <2>5. ListsComplete'
    BY <1>i, <2>1, <2>2, <2>4 DEF ListsComplete, IsLive
  <2>6. SidsDrawn'
    BY <1>i, <1>n, <2>1, <2>2, <2>3 DEF SidsDrawn
  <2>7. ForgetsDeleted' /\ LogoutReachesSignIns'
    BY <1>i, <2>1, <2>2 DEF ForgetsDeleted, LogoutReachesSignIns, IsLive
  <2> QED BY <2>5, <2>6, <2>7 DEF LogoutInv
<1>7. ASSUME NEW b \in Browsers, NEW u \in Users, NEW s \in Sids, handleWebAuthnAssertFinish(b, u, s)
      PROVE  LogoutInv'
  <2>1. /\ UNCHANGED <<sessionApps, reqs, signedIn>> /\ sessions[s].status = "unused"
        /\ \A x \in Sids : x # s => sessions'[x] = sessions[x]
        /\ sessions'[s].status = "live"
        /\ \A x \in Browsers : cookie'[x] \in {cookie[x], s}
    BY <1>7, <1>t DEF handleWebAuthnAssertFinish
  <2>2. signedIn[s] = {} /\ \A x \in Requests : reqs[x].sid # s
    BY <1>i, <2>1 DEF SidsDrawn
  <2>3. ListsComplete'
    BY <1>i, <2>1, <2>2 DEF ListsComplete, IsLive
  <2>4. SidsDrawn'
    BY <1>i, <2>1 DEF SidsDrawn
  <2>5. ForgetsDeleted' /\ LogoutReachesSignIns'
    BY <1>i, <2>1, <2>2 DEF ForgetsDeleted, LogoutReachesSignIns, IsLive
  <2> QED BY <2>3, <2>4, <2>5 DEF LogoutInv
<1>8. ASSUME NEW u \in Users, DeleteUser(u) PROVE LogoutInv'
  <2>1. UNCHANGED <<sessionApps, cookie, reqs, signedIn>>
    BY <1>8 DEF DeleteUser
  <2>2. ASSUME NEW s \in Sids PROVE sessions'[s] = sessions[s] \/ sessions'[s].status = "deleted"
    <3>1. [sessions[s] EXCEPT !.status = "deleted"].status = "deleted"
      BY <1>t DEF Session
    <3> QED BY <1>8, <3>1 DEF DeleteUser
  <2>3. \A s \in Sids : (IsLive(s)' => IsLive(s))
                        /\ (sessions'[s].status = "unused" => sessions[s].status = "unused")
    BY <2>2 DEF IsLive
  <2>4. ListsComplete'
    BY <1>i, <2>1, <2>3 DEF ListsComplete
  <2>5. SidsDrawn'
    BY <1>i, <2>1, <2>3 DEF SidsDrawn
  <2>6. ForgetsDeleted' /\ LogoutReachesSignIns'
    BY <1>i, <2>1, <2>3 DEF ForgetsDeleted, LogoutReachesSignIns
  <2> QED BY <2>4, <2>5, <2>6 DEF LogoutInv
<1>9. ASSUME UNCHANGED <<sessions, sessionApps, cookie, reqs, signedIn>> PROVE LogoutInv'
  BY <1>9, <1>i DEF LogoutInv, ListsComplete, SidsDrawn, ForgetsDeleted, LogoutReachesSignIns, IsLive
<1>10. ASSUME Restart PROVE LogoutInv'
  <2>1. /\ UNCHANGED <<sessions, sessionApps, cookie, signedIn>>
        /\ \A x \in Requests : reqs'[x].pc = "idle" /\ reqs'[x].sid = None
    BY <1>10 DEF Restart
  <2> QED BY <1>i, <1>n, <2>1
          DEF LogoutInv, ListsComplete, SidsDrawn, ForgetsDeleted, LogoutReachesSignIns, IsLive
<1> QED
  BY <1>1, <1>2, <1>3, <1>4, <1>5, <1>6, <1>7, <1>8, <1>9, <1>10
     DEF Next, Step, SetAccountEnabled, SetClock, vars

\* A logout that finds its session alive notifies every app signed into by then,
\* whatever sign-ins, logouts, deletions and restarts are under way.
THEOREM LogoutReachesSignInsHolds == Spec => []LogoutReachesSignIns
<1>1. Init => LogoutInv
  BY SessionsAssumptions, BlanksTyped
     DEF Init, LogoutInv, ListsComplete, SidsDrawn, ForgetsDeleted, LogoutReachesSignIns, IsLive
<1>2. TypeOK /\ LogoutInv /\ [Next]_vars => LogoutInv'
  BY LogoutStep
<1>3. LogoutInv => LogoutReachesSignIns
  BY DEF LogoutInv
<1> QED BY <1>1, <1>2, <1>3, TypeCorrect, PTL DEF Spec
=============================================================================
