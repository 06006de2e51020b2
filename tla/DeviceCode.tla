----------------------------- MODULE DeviceCode -----------------------------
(***************************************************************************)
(* The device authorization grant: identity/devicecode.go over the         *)
(* device_codes and sessions tables.                                       *)
(*                                                                         *)
(* A device opens a request and polls the token endpoint; a person types   *)
(* the user code into a browser, signs in and approves or denies.  Each    *)
(* HTTP request is a process whose pc names the next SQL statement with an *)
(* effect; requests interleave between statements.  A browser keeps its    *)
(* session cookie and the last page it was shown, and may submit that page *)
(* long after the state it was rendered from is gone.                      *)
(***************************************************************************)
EXTENDS Naturals, FiniteSets

CONSTANTS
    Users, Apps,
    Devices,            \* device codes, each drawn at most once
    UserCodes,          \* user codes: short, drawn again once the row is gone
    Sids,               \* session ids, each drawn at most once
    Requests, Browsers,
    None,
    DeviceCodeLifetime, \* Cfg.Lifetimes.DeviceCode
    SessionLifetime,    \* sessionLifetimeSeconds
    MaxNow              \* bound: the clock shows 0 .. MaxNow

ASSUME DeviceCodeAssumptions ==
    /\ None \notin Users \cup Apps \cup Devices \cup UserCodes \cup Sids
    /\ DeviceCodeLifetime \in Nat \ {0}
    /\ SessionLifetime \in Nat \ {0}
    /\ MaxNow \in Nat

VARIABLES
    users,      \* users.account_enabled, or "absent"
    apps,       \* the app_registrations rows
    rows,       \* device_codes
    sessions,   \* the sessions table
    reqs,       \* HTTP requests in flight
    cookie,     \* the session cookie of each browser
    page,       \* the form each browser shows
    now,        \* Store.Now()
    responses,  \* history: token responses built from each device code
    subject,    \* history: the user of those responses
    approver    \* history: whom the consent page named when it was approved

vars == <<users, apps, rows, sessions, reqs, cookie, page, now, responses, subject, approver>>

-----------------------------------------------------------------------------
\* Rows, requests and pages

\* "deleted" and "consumed" are rows that are gone: the latter was returned by
\* the DELETE that redeemed it, and keeps the user id that was returned.
Row == [status: {"unused", "pending", "approved", "denied", "deleted", "consumed"},
        uc: UserCodes \cup {None}, app: Apps \cup {None}, user: Users \cup {None}, expires: Nat]

Session == [user: Users \cup {None}, status: {"unused", "live", "deleted"}, expires: Nat]

Request == [pc: {"idle", "insert", "delete", "consume", "user", "mint", "decide"},
            app: Apps \cup {None}, dev: Devices \cup {None}, uc: UserCodes \cup {None},
            user: Users \cup {None}, seen: Users \cup {None}, at: Nat,
            verdict: {"approved", "denied", None}]

\* deviceApprovalState, signed into the form, and the user the page names.
Page == [kind: {"none", "signin", "consent"}, uc: UserCodes \cup {None},
         sid: Sids \cup {None}, user: Users \cup {None}]

BlankRow == [status |-> "unused", uc |-> None, app |-> None, user |-> None, expires |-> 0]
BlankSession == [user |-> None, status |-> "unused", expires |-> 0]
Idle == [pc |-> "idle", app |-> None, dev |-> None, uc |-> None, user |-> None,
         seen |-> None, at |-> 0, verdict |-> None]
NoPage == [kind |-> "none", uc |-> None, sid |-> None, user |-> None]

Exists(d) == rows[d].status \in {"pending", "approved", "denied"}
UserCodeExists(uc) == \E d \in Devices : Exists(d) /\ rows[d].uc = uc

\* loadPendingDeviceCode accepts the row: unexpired and not decided yet.
PendingDeviceCode(uc) ==
    \E d \in Devices : rows[d].uc = uc /\ rows[d].status = "pending" /\ rows[d].expires > now

\* currentSession: the cookie names an unexpired session of an enabled user.
SessionValid(b) ==
    /\ cookie[b] # None
    /\ sessions[cookie[b]].status = "live"
    /\ sessions[cookie[b]].expires > now
    /\ users[sessions[cookie[b]].user] = "enabled"

Finish(r) == reqs' = [reqs EXCEPT ![r] = Idle]

-----------------------------------------------------------------------------
\* POST /devicecode

\* handleDeviceAuthorization up to the user code it settles on: none of the
\* five attempts is kept unless no row carries it at that moment.
handleDeviceAuthorization(r, a, uc) ==
    /\ reqs[r].pc = "idle"
    /\ a \in apps
    /\ ~UserCodeExists(uc)
    /\ reqs' = [reqs EXCEPT ![r] = [Idle EXCEPT !.pc = "insert", !.app = a, !.uc = uc]]
    /\ UNCHANGED <<users, apps, rows, sessions, cookie, page, now, responses, subject, approver>>

\* The constraints of device_codes: the client exists and user_code is UNIQUE.
InsertAccepted(a, uc) == a \in apps /\ ~UserCodeExists(uc)

InsertDeviceCode(r) ==
    LET q == reqs[r] IN
    /\ q.pc = "insert"
    /\ \/ /\ InsertAccepted(q.app, q.uc)
          /\ \E d \in Devices :
                /\ rows[d].status = "unused"
                /\ rows' = [rows EXCEPT ![d] =
                              [status |-> "pending", uc |-> q.uc, app |-> q.app, user |-> None,
                               expires |-> now + DeviceCodeLifetime]]
       \/ /\ ~InsertAccepted(q.app, q.uc)
          /\ UNCHANGED rows
    /\ Finish(r)
    /\ UNCHANGED <<users, apps, sessions, cookie, page, now, responses, subject, approver>>

-----------------------------------------------------------------------------
\* POST /token with grant_type=device_code

\* grantDeviceCode up to its first write: expiry goes before the decision, a
\* pending row is only reported, an approved one is to be consumed as of now.
grantDeviceCode(r, a, d) ==
    /\ reqs[r].pc = "idle"
    /\ a \in apps
    /\ Exists(d)
    /\ rows[d].app = a
    /\ \/ /\ rows[d].expires <= now \/ rows[d].status = "denied"
          /\ reqs' = [reqs EXCEPT ![r] = [Idle EXCEPT !.pc = "delete", !.dev = d]]
       \/ /\ rows[d].expires > now
          /\ rows[d].status = "approved"
          /\ reqs' = [reqs EXCEPT ![r] =
                        [Idle EXCEPT !.pc = "consume", !.app = a, !.dev = d, !.at = now]]
    /\ UNCHANGED <<users, apps, rows, sessions, cookie, page, now, responses, subject, approver>>

\* Lazy expiry and the clean-up of a denied request.
DeleteDeviceCode(r) ==
    LET d == reqs[r].dev IN
    /\ reqs[r].pc = "delete"
    /\ rows' = IF Exists(d)
               THEN [rows EXCEPT ![d] = [BlankRow EXCEPT !.status = "deleted"]]
               ELSE rows
    /\ Finish(r)
    /\ UNCHANGED <<users, apps, sessions, cookie, page, now, responses, subject, approver>>

\* Mutant: the row is read again and deleted whether or not a rival took it.
ConsumeUnconditionally(q) == rows[q.dev].status \in {"approved", "consumed"}

\* Mutant: an approval that was polled as expired can no longer be taken.
ConsumeInverted(q) ==
    /\ rows[q.dev].status = "approved" /\ rows[q.dev].app = q.app
    /\ rows[q.dev].expires <= q.at

\* The row DELETE ... RETURNING of ConsumeApprovedDeviceCode matches.
ConsumeWins(q) ==
    /\ rows[q.dev].status = "approved" /\ rows[q.dev].app = q.app
    /\ rows[q.dev].expires > q.at

ConsumeApprovedDeviceCode(r) ==
    LET q == reqs[r] IN
    /\ q.pc = "consume"
    /\ \/ /\ ConsumeWins(q)
          /\ rows' = [rows EXCEPT ![q.dev].status = "consumed"]
          /\ reqs' = [reqs EXCEPT ![r] = [q EXCEPT !.pc = "user", !.user = rows[q.dev].user]]
       \/ /\ ~ConsumeWins(q)
          /\ Finish(r)
          /\ UNCHANGED rows
    /\ UNCHANGED <<users, apps, sessions, cookie, page, now, responses, subject, approver>>

\* GetUser after the row is gone. A user who is not enabled, or scopes that no
\* longer resolve, end the request, and the code is lost.
GetUser(r) ==
    LET q == reqs[r] IN
    /\ q.pc = "user"
    /\ \/ /\ q.user # None
          /\ users[q.user] = "enabled"
          /\ reqs' = [reqs EXCEPT ![r].pc = "mint"]
       \/ Finish(r)
    /\ UNCHANGED <<users, apps, rows, sessions, cookie, page, now, responses, subject, approver>>

\* The response; it fails only when it has to store a refresh token for an
\* owner that is gone by now.
BuildDelegatedResponse(r) ==
    LET q == reqs[r] IN
    /\ q.pc = "mint"
    /\ \/ /\ responses' = [responses EXCEPT ![q.dev] = @ + 1]
          /\ subject' = [subject EXCEPT ![q.dev] = q.user]
       \/ /\ users[q.user] = "absent" \/ q.app \notin apps
          /\ UNCHANGED <<responses, subject>>
    /\ Finish(r)
    /\ UNCHANGED <<users, apps, rows, sessions, cookie, page, now, approver>>

-----------------------------------------------------------------------------
\* POST /devicecode/verify: lookup, signin, decide

\* A valid session goes straight to the consent page, signed for that session.
deviceLookup(b, uc) ==
    /\ PendingDeviceCode(uc)
    /\ page' = [page EXCEPT ![b] =
                  IF SessionValid(b)
                  THEN [kind |-> "consent", uc |-> uc, sid |-> cookie[b],
                        user |-> sessions[cookie[b]].user]
                  ELSE [kind |-> "signin", uc |-> uc, sid |-> None, user |-> None]]
    /\ UNCHANGED <<users, apps, rows, sessions, reqs, cookie, now, responses, subject, approver>>

\* createSession: a fresh id, which becomes the browser's cookie.
CreateSession(b, u, s) ==
    /\ sessions[s].status = "unused"
    /\ users[u] = "enabled"
    /\ sessions' = [sessions EXCEPT ![s] =
                      [user |-> u, status |-> "live", expires |-> now + SessionLifetime]]
    /\ cookie' = [cookie EXCEPT ![b] = s]

deviceSignIn(b, u, s) ==
    /\ page[b].kind = "signin"
    /\ PendingDeviceCode(page[b].uc)
    /\ CreateSession(b, u, s)
    /\ page' = [page EXCEPT ![b] = [kind |-> "consent", uc |-> page[b].uc, sid |-> s, user |-> u]]
    /\ UNCHANGED <<users, apps, rows, reqs, now, responses, subject, approver>>

\* Mutant: any live session may submit the form.
AnySession(b) == SessionValid(b)

\* The signed sid must be the live session.
SessionMatches(b) == SessionValid(b) /\ cookie[b] = page[b].sid

\* deviceDecide up to the decision: the page's state is signed by this process.
deviceDecide(r, b, verdict) ==
    /\ reqs[r].pc = "idle"
    /\ page[b].kind = "consent"
    /\ SessionMatches(b)
    /\ PendingDeviceCode(page[b].uc)
    /\ reqs' = [reqs EXCEPT ![r] =
                  [Idle EXCEPT !.pc = "decide", !.uc = page[b].uc, !.verdict = verdict,
                               !.user = sessions[cookie[b]].user, !.seen = page[b].user]]
    /\ UNCHANGED <<users, apps, rows, sessions, cookie, page, now, responses, subject, approver>>

\* SetDeviceCodeDecision: the rows UPDATE ... WHERE user_code=? AND
\* status='pending' touches.
Decides(d, uc) == rows[d].status = "pending" /\ rows[d].uc = uc

SetDeviceCodeDecision(r) ==
    LET q == reqs[r]
        verdictUser == IF q.verdict = "approved" THEN q.user ELSE None
    IN
    /\ q.pc = "decide"
    /\ rows' = [d \in Devices |->
                  IF Decides(d, q.uc)
                  THEN [rows[d] EXCEPT !.status = q.verdict, !.user = verdictUser]
                  ELSE rows[d]]
    /\ approver' = [d \in Devices |->
                      IF Decides(d, q.uc) /\ q.verdict = "approved" THEN q.seen ELSE approver[d]]
    /\ Finish(r)
    /\ UNCHANGED <<users, apps, sessions, cookie, page, now, responses, subject>>

-----------------------------------------------------------------------------
\* Everything around the flow

\* Sign-in through another flow in the same browser.
SignInElsewhere(b, u, s) ==
    /\ CreateSession(b, u, s)
    /\ UNCHANGED <<users, apps, rows, reqs, page, now, responses, subject, approver>>

\* clearSession: the row and the cookie go.
clearSession(b) ==
    /\ cookie[b] # None
    /\ sessions' = [sessions EXCEPT ![cookie[b]].status = "deleted"]
    /\ cookie' = [cookie EXCEPT ![b] = None]
    /\ UNCHANGED <<users, apps, rows, reqs, page, now, responses, subject, approver>>

SetAccountEnabled(u, state) ==
    /\ users[u] # "absent"
    /\ users' = [users EXCEPT ![u] = state]
    /\ UNCHANGED <<apps, rows, sessions, reqs, cookie, page, now, responses, subject, approver>>

\* Sessions cascade; a device code only forgets who approved it.
DeleteUser(u) ==
    /\ users[u] # "absent"
    /\ users' = [users EXCEPT ![u] = "absent"]
    /\ rows' = [d \in Devices |->
                  IF Exists(d) /\ rows[d].user = u THEN [rows[d] EXCEPT !.user = None] ELSE rows[d]]
    /\ sessions' = [s \in Sids |->
                      IF sessions[s].user = u THEN [sessions[s] EXCEPT !.status = "deleted"]
                      ELSE sessions[s]]
    /\ UNCHANGED <<apps, reqs, cookie, page, now, responses, subject, approver>>

RestoreUser(u, state) ==
    /\ users[u] = "absent"
    /\ users' = [users EXCEPT ![u] = state]
    /\ UNCHANGED <<apps, rows, sessions, reqs, cookie, page, now, responses, subject, approver>>

DeleteApp(a) ==
    /\ a \in apps
    /\ apps' = apps \ {a}
    /\ rows' = [d \in Devices |->
                  IF Exists(d) /\ rows[d].app = a THEN [BlankRow EXCEPT !.status = "deleted"]
                  ELSE rows[d]]
    /\ UNCHANGED <<users, sessions, reqs, cookie, page, now, responses, subject, approver>>

RestoreApp(a) ==
    /\ a \notin apps
    /\ apps' = apps \cup {a}
    /\ UNCHANGED <<users, rows, sessions, reqs, cookie, page, now, responses, subject, approver>>

SetClock(n) ==
    /\ now' = n
    /\ UNCHANGED <<users, apps, rows, sessions, reqs, cookie, page, responses, subject, approver>>

\* Requests die, and signed pages no longer verify: the key that signs them is
\* drawn at start-up. The tables and the cookies survive.
Restart ==
    /\ reqs' = [r \in Requests |-> Idle]
    /\ page' = [b \in Browsers |-> NoPage]
    /\ UNCHANGED <<users, apps, rows, sessions, cookie, now, responses, subject, approver>>

-----------------------------------------------------------------------------
Init ==
    /\ users = [u \in Users |-> "enabled"]
    /\ apps = Apps
    /\ rows = [d \in Devices |-> BlankRow]
    /\ sessions = [s \in Sids |-> BlankSession]
    /\ reqs = [r \in Requests |-> Idle]
    /\ cookie = [b \in Browsers |-> None]
    /\ page = [b \in Browsers |-> NoPage]
    /\ now = 0
    /\ responses = [d \in Devices |-> 0]
    /\ subject = [d \in Devices |-> None]
    /\ approver = [d \in Devices |-> None]

Poll(d) == \E r \in Requests, a \in Apps : grantDeviceCode(r, a, d)

Step(r) ==
    \/ InsertDeviceCode(r) \/ DeleteDeviceCode(r) \/ ConsumeApprovedDeviceCode(r)
    \/ GetUser(r) \/ BuildDelegatedResponse(r) \/ SetDeviceCodeDecision(r)

Browse ==
    \E b \in Browsers :
        \/ \E uc \in UserCodes : deviceLookup(b, uc)
        \/ \E u \in Users, s \in Sids : deviceSignIn(b, u, s) \/ SignInElsewhere(b, u, s)
        \/ \E r \in Requests, verdict \in {"approved", "denied"} : deviceDecide(r, b, verdict)
        \/ clearSession(b)

Directory ==
    \/ \E u \in Users : DeleteUser(u)
    \/ \E u \in Users, state \in {"enabled", "disabled"} :
          SetAccountEnabled(u, state) \/ RestoreUser(u, state)
    \/ \E a \in Apps : DeleteApp(a) \/ RestoreApp(a)

Next ==
    \/ \E r \in Requests, a \in Apps, uc \in UserCodes : handleDeviceAuthorization(r, a, uc)
    \/ \E d \in Devices : Poll(d)
    \/ \E r \in Requests : Step(r)
    \/ Browse
    \/ Directory
    \/ \E n \in 0..MaxNow : SetClock(n)
    \/ Restart

Spec == Init /\ [][Next]_vars

\* Goroutines keep running, and a device that has no answer yet polls again
\* and again. A poll needs a free request slot, which the other requests take
\* and release, hence strong fairness for it.
FairSpec ==
    /\ Spec
    /\ \A r \in Requests : WF_vars(Step(r))
    /\ \A d \in Devices : SF_vars(Poll(d))
    /\ <>[][~Restart]_vars

-----------------------------------------------------------------------------
\* Properties

\* What each stage of a request has filled in.
RequestsTyped ==
    \A r \in Requests :
        /\ reqs[r].pc = "insert" => reqs[r].app \in Apps /\ reqs[r].uc \in UserCodes
        /\ reqs[r].pc \in {"delete", "consume", "user", "mint"} => reqs[r].dev \in Devices
        /\ reqs[r].pc = "consume" => reqs[r].app \in Apps
        /\ reqs[r].pc = "mint" => reqs[r].user \in Users
        /\ reqs[r].pc = "decide" =>
              /\ reqs[r].uc \in UserCodes /\ reqs[r].user \in Users
              /\ reqs[r].verdict \in {"approved", "denied"}

\* What each kind of row and page has filled in.
RowsTyped ==
    /\ \A d \in Devices : Exists(d) => rows[d].app \in Apps /\ rows[d].uc \in UserCodes
    /\ \A s \in Sids : sessions[s].status = "live" => sessions[s].user \in Users
    /\ \A b \in Browsers :
          /\ page[b].kind # "none" => page[b].uc \in UserCodes
          /\ page[b].kind = "consent" => page[b].sid \in Sids /\ page[b].user \in Users

VariablesTyped ==
    /\ users \in [Users -> {"enabled", "disabled", "absent"}]
    /\ apps \subseteq Apps
    /\ rows \in [Devices -> Row]
    /\ sessions \in [Sids -> Session]
    /\ reqs \in [Requests -> Request]
    /\ cookie \in [Browsers -> Sids \cup {None}]
    /\ page \in [Browsers -> Page]
    /\ now \in 0..MaxNow
    /\ responses \in [Devices -> Nat]
    /\ subject \in [Devices -> Users \cup {None}]
    /\ approver \in [Devices -> Users \cup {None}]

TypeOK == VariablesTyped /\ RequestsTyped /\ RowsTyped

\* No two outstanding requests share a user code, although the handler checks
\* for a collision in one statement and inserts in another, so a person can
\* never approve two devices at once (handleDeviceAuthorization).
UserCodesUnique ==
    \A x, y \in Devices : (Exists(x) /\ Exists(y) /\ rows[x].uc = rows[y].uc) => x = y

\* Tokens are only ever issued to the user the consent page named when it was
\* approved, even when the browser changed its session, the row was taken and
\* its user code drawn again, or the account was deleted meanwhile
\* (deviceDecide, SetDeviceCodeDecision, ConsumeApprovedDeviceCode).
MintedForApprover ==
    \A d \in Devices : responses[d] > 0 => approver[d] # None /\ subject[d] = approver[d]

\* The mapping to the abstract grant: a row that was never stored, is stored
\* with its status, was taken by a poll, or was deleted without one.
grantPhase ==
    [d \in Devices |->
        CASE rows[d].status = "unused" -> "none"
          [] rows[d].status = "consumed" -> "redeemed"
          [] rows[d].status = "deleted" -> "closed"
          [] OTHER -> rows[d].status]

grantOwner == [d \in Devices |-> rows[d].user]

Grant == INSTANCE DeviceGrant WITH
            phase <- grantPhase, owner <- grantOwner, responses <- responses, subject <- subject

\* The flow implements the abstract device grant: at most one decision and one
\* response per device code, the latter for the approver and never after a
\* denial (grantDeviceCode, deviceDecide and the statements under them).
ImplementsDeviceGrant == Grant!Spec

\* A decision does not stay behind: while the device keeps polling, an approval
\* is taken, a denial reaches the device, and the row of either is cleaned up,
\* at the latest once it has expired (grantDeviceCode's case order).
DecisionsSettle == \A d \in Devices : (rows[d].status \in {"approved", "denied"}) ~> ~Exists(d)

-----------------------------------------------------------------------------
\* Inductive strengthenings, checked by TLC and used by the proofs

Redeems(r, d) == reqs[r].pc \in {"user", "mint"} /\ reqs[r].dev = d

\* A poll names a row that was stored; one that took the row is alone, has the
\* row's user and has not answered yet.
PollsHoldRows ==
    \A r \in Requests :
        /\ reqs[r].pc \in {"delete", "consume"} => rows[reqs[r].dev].status # "unused"
        /\ \A d \in Devices : Redeems(r, d) =>
              /\ rows[d].status = "consumed"
              /\ rows[d].user = reqs[r].user
              /\ responses[d] = 0
              /\ \A q \in Requests : Redeems(q, d) => q = r

\* Nothing was issued from a row that no poll has taken, and no user is named
\* in a row that nobody approved.
UntakenRows ==
    \A d \in Devices : rows[d].status # "consumed" =>
        /\ responses[d] = 0
        /\ rows[d].status # "approved" => rows[d].user = None

GrantInv == TypeOK /\ UserCodesUnique /\ PollsHoldRows /\ UntakenRows

\* Consent pages name the user of the session they are signed for.
PagesNameSessions ==
    \A b \in Browsers : page[b].kind = "consent" =>
        /\ sessions[page[b].sid].status # "unused"
        /\ sessions[page[b].sid].user = page[b].user

DecisionsAsShown == \A r \in Requests : reqs[r].pc = "decide" => reqs[r].seen = reqs[r].user

\* The user of an approved or taken row is the approver, unless deleted.
RowsNameApprover ==
    \A d \in Devices :
        /\ rows[d].status \in {"approved", "consumed"} => rows[d].user \in {None, approver[d]}
        /\ responses[d] > 0 => subject[d] = rows[d].user /\ rows[d].user # None

ApproverInv == PagesNameSessions /\ DecisionsAsShown /\ RowsNameApprover
=============================================================================
