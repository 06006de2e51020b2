----------------------------- MODULE Operations -----------------------------
(***************************************************************************)
(* What surrounds the grants at run time: injected faults (faults/), the   *)
(* custom authentication extension called while tokens are minted          *)
(* (customext/, enrich of tokens/service.go), the middleware that records  *)
(* every exchange (identity/audit.go) and Graph's journal of directory     *)
(* changes (graph/auditlogs.go), the controllable clock, and the admin     *)
(* requests that change all of this while exchanges are being served.      *)
(*                                                                         *)
(* Every request is served once; the logs start with what earlier          *)
(* exchanges left in them.                                                 *)
(***************************************************************************)
EXTENDS Clock, Recorder, FiniteSets

CONSTANTS
    TokenExchanges, AuthorizeExchanges,     \* bound: requests of a behaviour
    GraphWrites, Admins,
    Old,            \* exchanges and changes of before
    Starts,         \* bound: what the rings hold at the start
    Claims, Protected,  \* claims of an extension's answer; protectedClaims
    Answers,        \* the answers the webhook may give
    Allowed,        \* the allow-lists an extension may be given, {} for none
    FaultConfigs, ClockRequests     \* what admin requests set

None == "none"

\* A value that may be absent is a set of at most one element.
Optional(S) == {{}} \cup {{v} : v \in S}

Exchanges == TokenExchanges \cup AuthorizeExchanges
Requests == Exchanges \cup GraphWrites \cup Admins
Event == [id: Exchanges \cup Old, ok: BOOLEAN]
Change == [id: GraphWrites \cup Old, ok: BOOLEAN]

\* The probability is 0 or less, between, or 1 and more.
FaultConfig == [error: BOOLEAN, latency: BOOLEAN, p: {"0", "between", "1"}]

\* A clock request carries an offset, an advance and frozen, each optional.
ClockRequest == {q \in [offset: SUBSET Int, advance: SUBSET Int, freeze: {None, "freeze", "unfreeze"}] :
                    /\ \A s, t \in q.offset : s = t
                    /\ \A s, t \in q.advance : s = t}

\* What earlier exchanges have left in a ring: its slots are filled in order.
Earlier == {r \in Ring([id: Old, ok: {TRUE}]) :
               \A i \in 0..Cap-1 : r.buf[i] = NoEvent <=> ~r.full /\ i >= r.next}

ASSUME OperationsAssumptions ==
    /\ TokenExchanges \cap AuthorizeExchanges = {} /\ Exchanges \cap GraphWrites = {}
    /\ Admins \cap (Exchanges \cup GraphWrites) = {} /\ Old \cap Requests = {}
    /\ NoEvent \notin Event \cup Change
    /\ Starts \subseteq Earlier \X Earlier
    /\ Protected \subseteq Claims
    /\ \A A \in Answers \cup Allowed : A \subseteq Claims
    /\ FaultConfigs \subseteq FaultConfig
    /\ ClockRequests \subseteq ClockRequest

VARIABLES
    topic,      \* bound: what the admin requests of a behaviour are about
    pc,         \* the next statement of each request
    faults,     \* the active fault configuration
    ext,        \* the extension registered for the app: its allow-list, if any
    signIns,    \* the ring of exchanges
    changes,    \* the ring of directory changes
    body,       \* the clock request being applied, of each admin request
    xchg,       \* the exchanges
    seen        \* history: what was in force while an exchange was served

configs == <<faults, ext>>
rings == <<signIns, changes>>
vars == <<topic, clockVars, pc, configs, rings, body, xchg, seen>>

NoFaults == [error |-> FALSE, latency |-> FALSE, p |-> "0"]

\* What the client gets.  An injected fault and a refusal have a status of 400
\* and above; the rest is below: an error told to the app, a page that asks the
\* user to pick an account, sign in or consent, the same page after a wrong
\* answer, and what the client came for.
Outcomes == {None, "fault", "refused", "told", "prompt", "retry", "ok"}

\* ext: the allow-list read; location: the Location header, if there is one,
\* and whether "error=" occurs in it
Exchange == [ext: Optional(Allowed), access: SUBSET Claims, id: SUBSET Claims,
             outcome: Outcomes, location: {None, "plain", "error="}]
NoExchange == [ext |-> {}, access |-> {}, id |-> {}, outcome |-> None, location |-> None]

NoRequest == [offset |-> {}, advance |-> {}, freeze |-> None]

Step(r, l, m) == pc[r] = l /\ pc' = [pc EXCEPT ![r] = m]

-----------------------------------------------------------------------------
\* Fault injection

\* Mutant: probability zero means never.
FiresNever(c) == IF ~c.error \/ c.p = "0" THEN {FALSE} ELSE IF c.p = "1" THEN {TRUE} ELSE BOOLEAN

\* TokenFault: p <= 0 and p >= 1 always fire.
TokenFault(c) == IF ~c.error THEN {FALSE} ELSE IF c.p \in {"0", "1"} THEN {TRUE} ELSE BOOLEAN

SetFaults(r, c) ==
    /\ Step(r, "new", "done")
    /\ faults' = c
    /\ UNCHANGED <<clockVars, ext, rings, body, xchg>>

ClearFaults(r) ==
    /\ Step(r, "new", "done")
    /\ faults' = NoFaults
    /\ UNCHANGED <<clockVars, ext, rings, body, xchg>>

\* handleToken decides on the fault first, sleeps, then fails or starts to work.
HandleToken(x) ==
    /\ \E fire \in TokenFault(faults) :
           Step(x, "new", IF faults.latency THEN (IF fire THEN "sleep, fail" ELSE "sleep, grant")
                          ELSE IF fire THEN "fail" ELSE "grant")
    /\ UNCHANGED <<clockVars, configs, rings, body, xchg>>

Sleep(x) ==
    /\ Step(x, "sleep, fail", "fail") \/ Step(x, "sleep, grant", "grant")
    /\ UNCHANGED <<clockVars, configs, rings, body, xchg>>

Respond(x, l, outcome, location) ==
    /\ Step(x, l, "record")
    /\ xchg' = [xchg EXCEPT ![x].outcome = outcome, ![x].location = location, ![x].ext = {}]
    /\ UNCHANGED <<clockVars, configs, rings, body>>

Answer(x, l, outcome) == Respond(x, l, outcome, None)

InjectedError(x) == Answer(x, "fail", "fault")

-----------------------------------------------------------------------------
\* The custom authentication extension

\* setCustomExtension, once GetApp has found the app
SetCustomExtension(r, allow) ==
    /\ Step(r, "new", "done")
    /\ ext' = {allow}
    /\ UNCHANGED <<clockVars, faults, rings, body, xchg>>

DeleteCustomExtension(r) ==
    /\ Step(r, "new", "done")
    /\ ext' = {}
    /\ UNCHANGED <<clockVars, faults, rings, body, xchg>>

\* A grant fails on its own account, or minting begins.
Grant(x) ==
    \/ Answer(x, "grant", "refused")
    \/ /\ Step(x, "grant", "access")
       /\ UNCHANGED <<clockVars, configs, rings, body, xchg>>

\* Where a request waits for the answer about a token
Calling(kind) == IF kind = "access" THEN "call, access" ELSE "call, id"

\* ClaimsEnricher, first for the access token and then for the ID token, asks
\* for the registration; without one there is nothing to merge.
Enrich(x, kind, next) ==
    /\ IF ext = {} THEN Step(x, kind, next) /\ UNCHANGED xchg
       ELSE /\ Step(x, kind, Calling(kind))
            /\ xchg' = [xchg EXCEPT ![x].ext = ext]
    /\ UNCHANGED <<clockVars, configs, rings, body>>

\* Mutant: every claim that the allow-list names is merged.
MergeAll(allow, A) == IF allow = {} THEN A ELSE A \cap allow

\* Invoke filters by the allow-list, if it is not empty; enrich drops the
\* protected claims.
Merge(allow, A) == (IF allow = {} THEN A ELSE A \cap allow) \ Protected

\* The claims become part of the token.
WithClaims(q, kind, C) ==
    IF kind = "access" THEN [q EXCEPT !.access = C, !.ext = {}] ELSE [q EXCEPT !.id = C, !.ext = {}]

\* The webhook's answer arrives in time.
InvokeAnswered(x, kind, next, A) ==
    /\ Step(x, Calling(kind), next)
    /\ xchg' = [xchg EXCEPT ![x] = WithClaims(xchg[x], kind, Merge(UNION xchg[x].ext, A))]
    /\ UNCHANGED <<clockVars, configs, rings, body>>

\* Mutant: the call has no deadline.
InvokeHangs(x, kind, next) == FALSE

\* It fails or its time runs out: the token is issued without its claims.
InvokeFails(x, kind, next) ==
    /\ Step(x, Calling(kind), next)
    /\ xchg' = [xchg EXCEPT ![x].ext = {}]
    /\ UNCHANGED <<clockVars, configs, rings, body>>

\* BuildDelegatedResponse is done.
Issue(x) == x \in TokenExchanges /\ Answer(x, "issue", "ok")

-----------------------------------------------------------------------------
\* The authorize endpoint and the middleware around both

\* Where deliverAuthorizeResult may put a result: a form that the browser posts
\* to the app (form_post) has no Location; a redirect has one, with the error or,
\* be it only in the app's redirect URI, the text "error=" in it.
Locations(outcome) == IF outcome = "told" THEN {None, "error="} ELSE {None, "plain", "error="}

DeliverAuthorizeError(x) == \E u \in Locations("told") : Respond(x, "new", "told", u)

\* The code is issued; a response type with an ID token mints it next.
IssueCode(x) ==
    /\ Step(x, "new", "issue") \/ Step(x, "new", "id")
    /\ UNCHANGED <<clockVars, configs, rings, body, xchg>>

\* The first request of a flow: a page with the error, an error for the app, the
\* picker, the password form or the consent page, or the result.
HandleAuthorize(x) ==
    \/ \E page \in {"refused", "prompt"} : Answer(x, "new", page)
    \/ DeliverAuthorizeError(x)
    \/ IssueCode(x)

\* The form comes back: after a wrong password or account it is shown again.
HandleSignInSubmit(x) ==
    \/ \E page \in {"refused", "retry", "prompt"} : Answer(x, "new", page)
    \/ DeliverAuthorizeError(x)
    \/ IssueCode(x)

HandleConsentDecision(x) ==
    \/ Answer(x, "new", "refused")
    \/ DeliverAuthorizeError(x)
    \/ IssueCode(x)

\* deliverAuthorizeResult, unless the ID token could not be made
DeliverAuthorizeResult(x) ==
    /\ x \in AuthorizeExchanges
    /\ \/ Answer(x, "issue", "refused")
       \/ \E u \in Locations("ok") : Respond(x, "issue", "ok", u)

\* Mutant: an exchange is judged by its status alone.
StatusBelow400(x, q) == q.outcome \notin {"fault", "refused"}

\* audited: the status is below 400 and, at the authorize endpoint, "error="
\* does not occur in the Location.
Succeeded(x, q) ==
    /\ q.outcome \notin {"fault", "refused"}
    /\ x \in AuthorizeExchanges => q.location # "error="

\* After the response is written
Audited(x) ==
    /\ Step(x, "record", "done")
    /\ signIns' = Record(signIns, [id |-> x, ok |-> Succeeded(x, xchg[x])])
    /\ UNCHANGED <<clockVars, configs, changes, body, xchg>>

ClearAudit(r) ==
    /\ Step(r, "new", "done")
    /\ signIns' = Clear(signIns)
    /\ UNCHANGED <<clockVars, configs, changes, body, xchg>>

\* A Graph handler changes the directory, then records the change; one that
\* fails records nothing.
GraphChange(g) ==
    /\ \E m \in {"record", "done"} : Step(g, "new", m)
    /\ UNCHANGED <<clockVars, configs, rings, body, xchg>>

RecordDirectoryChange(g) ==
    /\ Step(g, "record", "done")
    /\ changes' = RecordChange(changes, [id |-> g, ok |-> TRUE])
    /\ UNCHANGED <<clockVars, configs, signIns, body, xchg>>

-----------------------------------------------------------------------------
\* setClock applies the fields it was sent, each under the lock of its own.

SetClock(r, q) ==
    /\ Step(r, "new", "offset")
    /\ body' = [body EXCEPT ![r] = q]
    /\ UNCHANGED <<clockVars, configs, rings, xchg>>

ApplyOffset(r) ==
    /\ Step(r, "offset", "advance")
    /\ IF body[r].offset = {} THEN UNCHANGED clockVars ELSE \E s \in body[r].offset : SetOffset(s)
    /\ UNCHANGED <<configs, rings, body, xchg>>

ApplyAdvance(r) ==
    /\ Step(r, "advance", "freeze")
    /\ IF body[r].advance = {} THEN UNCHANGED clockVars ELSE \E s \in body[r].advance : Advance(s)
    /\ UNCHANGED <<configs, rings, body, xchg>>

ApplyFreeze(r) ==
    /\ Step(r, "freeze", "done")
    /\ CASE body[r].freeze = None -> UNCHANGED clockVars
         [] body[r].freeze = "freeze" -> Freeze
         [] body[r].freeze = "unfreeze" -> Unfreeze
    /\ body' = [body EXCEPT ![r] = NoRequest]
    /\ UNCHANGED <<configs, rings, xchg>>

ResetClock(r) ==
    /\ Step(r, "new", "done")
    /\ Reset
    /\ UNCHANGED <<configs, rings, body, xchg>>

TimePasses == topic = "clock" /\ Tick /\ UNCHANGED <<pc, configs, rings, body, xchg>>

-----------------------------------------------------------------------------

Init ==
    /\ topic \in {"faults", "ext", "audit", "clock"}
    /\ ClockInit
    /\ pc = [r \in Requests |-> "new"]
    /\ faults = NoFaults /\ ext = {}
    /\ \E s \in Starts : signIns = s[1] /\ changes = s[2]
    /\ body = [r \in Admins |-> NoRequest]
    /\ xchg = [x \in Exchanges |-> NoExchange]
    /\ seen = [x \in Exchanges |-> {}]

AdminNext ==
    \E r \in Admins :
        \/ topic = "faults" /\ (ClearFaults(r) \/ \E c \in FaultConfigs : SetFaults(r, c))
        \/ topic = "ext" /\ (DeleteCustomExtension(r) \/ \E A \in Allowed : SetCustomExtension(r, A))
        \/ topic = "audit" /\ ClearAudit(r)
        \/ topic = "clock" /\ (ResetClock(r) \/ \E q \in ClockRequests : SetClock(r, q))
        \/ ApplyOffset(r) \/ ApplyAdvance(r) \/ ApplyFreeze(r)

Kinds == {<<"access", "id">>, <<"id", "issue">>}

\* What the server does by itself once a request has arrived
Handle(x) ==
    \/ Sleep(x) \/ InjectedError(x) \/ Grant(x)
    \/ \E k \in Kinds : Enrich(x, k[1], k[2]) \/ InvokeFails(x, k[1], k[2])
    \/ Issue(x) \/ DeliverAuthorizeResult(x)
    \/ Audited(x)

ExchangeNext ==
    \/ \E x \in TokenExchanges : HandleToken(x)
    \/ \E x \in AuthorizeExchanges :
           HandleAuthorize(x) \/ HandleSignInSubmit(x) \/ HandleConsentDecision(x)
    \/ \E x \in Exchanges :
           \/ Handle(x)
           \/ \E k \in Kinds, A \in Answers : InvokeAnswered(x, k[1], k[2], A)
    \/ \E g \in GraphWrites : GraphChange(g) \/ RecordDirectoryChange(g)

\* What is in force now: a fault that is bound to fire or one that may, no
\* such fault, and the registered allow-list
InForce == {<<"armed", faults.error>>, <<"certain", faults.error /\ faults.p # "between">>}
               \cup {<<"allow", A>> : A \in ext}

Watch ==
    seen' = [x \in Exchanges |->
                CASE pc'[x] = "new" -> {}
                  [] pc[x] = "new" /\ pc'[x] # "new" -> InForce
                  [] pc[x] \in {"record", "done"} -> seen[x]
                  [] OTHER -> seen[x] \cup InForce']

\* Exchanges read the clock only to stamp their events, so the two are not
\* interleaved.
Next ==
    /\ AdminNext \/ TimePasses \/ (topic # "clock" /\ ExchangeNext)
    /\ Watch
    /\ UNCHANGED topic

\* Every handler is a goroutine of its own; the webhook owes no answer.
Fairness == \A x \in Exchanges : WF_vars(Handle(x) /\ Watch /\ UNCHANGED topic)

Spec == Init /\ [][Next]_vars /\ Fairness

-----------------------------------------------------------------------------
\* Properties

SignIns == INSTANCE EventLog WITH Events <- Event, log <- List(signIns, 0),
                                  clears <- {r \in Admins : topic = "audit" /\ pc[r] = "done"}
Changes == INSTANCE EventLog WITH Events <- Change, log <- ListChanges(changes, 0),
                                  clears <- {}

\* A limit gives the newest entries of the log and never an empty slot, whatever
\* is asked for (List's limit comes from ?limit= and $top).
LimitGivesNewest ==
    \A n \in 0..Cap + 1 :
        LET cut(s) == IF n = 0 THEN s ELSE SignIns!Newest(s, n)
        IN  /\ List(signIns, n) = cut(List(signIns, 0))
            /\ ListChanges(changes, n) = cut(ListChanges(changes, 0))
            /\ NoEvent \notin {List(signIns, n)[i] : i \in DOMAIN List(signIns, n)}

\* Both rings implement a log of the most recent Cap events, newest first,
\* before and after they wrap around and after they are cleared, and show its
\* newest entries up to a limit (Recorder and DirectoryRecorder).
RingsImplementLogs == SignIns!Spec /\ Changes!Spec /\ []LimitGivesNewest

\* What the log may say of an exchange.  A success gave the client what it came
\* for, or is a response of the authorize endpoint that has status 200 and no
\* Location: a page for the user, or an error that a form posts to the app.  A
\* failure was one, unless the app's own redirect URI mentions "error=".
Truthful(x, ok) ==
    /\ ok => \/ xchg[x].outcome = "ok"
             \/ /\ x \in AuthorizeExchanges /\ xchg[x].location = None
                /\ xchg[x].outcome \in {"prompt", "retry", "told"}
    /\ ~ok => xchg[x].outcome \in {"fault", "refused", "told"} \/ xchg[x].location = "error="

\* The log and the clients agree as far as the middleware can tell, whatever was
\* overwritten or cleared since: a refusal, a fault or an error in a redirect is
\* never recorded as a success, nor what was granted as a failure (audited).
LogIsTruthful ==
    \A i \in DOMAIN List(signIns, 0) :
        LET e == List(signIns, 0)[i]
        IN  e.id \in Exchanges => Truthful(e.id, e.ok)

\* Not satisfied: the log calls an exchange successful only if nothing was
\* refused.  A form shown again after a wrong password (handleSignInSubmit) and
\* an error that a form posts to the app pass for successes.
SuccessesAreReal ==
    \A i \in DOMAIN List(signIns, 0) :
        LET e == List(signIns, 0)[i]
        IN  e.id \in Exchanges /\ e.ok => xchg[e.id].outcome \in {"ok", "prompt"}

\* An injected error is one that was armed while the exchange was served, and
\* no token is issued while a certain fault is armed all along, a probability
\* of zero included (TokenFault).
FaultsInForce ==
    \A x \in TokenExchanges :
        /\ xchg[x].outcome = "fault" => <<"armed", TRUE>> \in seen[x]
        /\ xchg[x].outcome = "ok" => <<"certain", FALSE>> \in seen[x]

\* An extension adds to a token, be it issued by the token endpoint or an ID token
\* of the authorize endpoint, only claims that a registration in force during the
\* exchange allows, and never one of protectedClaims (Invoke, enrich).
ExtensionKeptInBounds ==
    \A x \in Exchanges, kind \in {"access", "id"} :
        /\ xchg[x][kind] \cap Protected = {}
        /\ xchg[x][kind] # {} =>
              \E A \in Allowed : <<"allow", A>> \in seen[x] /\ (A = {} \/ xchg[x][kind] \subseteq A)

\* Freezing and resuming never make time jump, however much real time passed and
\* however often it was advanced in between, and a frozen clock stands still
\* (clock.go: "keeping continuity (no jump)").
ClockContinuous ==
    [][/\ \A r \in Admins : pc[r] = "freeze" /\ pc'[r] = "done" => Now' = Now
       /\ \A r \in Admins : pc[r] = "advance" /\ pc'[r] = "freeze"
              => \A s \in body[r].advance : Now' = Now + s
       /\ frozen /\ real' # real => Now' = Now]_vars

\* "a slow or failing webhook never blocks token issuance" (customext.go): every
\* exchange that has begun is answered and recorded.
ExchangesAnswered == \A x \in Exchanges : pc[x] # "new" ~> pc[x] = "done"

-----------------------------------------------------------------------------
\* Types and the strengthenings that make the invariants inductive

Labels == {"new", "done", "record", "sleep, fail", "sleep, grant", "fail", "grant", "access",
           "call, access", "id", "call, id", "issue", "offset", "advance", "freeze"}
Facts == ({"armed", "certain"} \X BOOLEAN) \cup ({"allow"} \X Allowed)

TypeOK ==
    /\ topic \in {"faults", "ext", "audit", "clock"}
    /\ ClockTypeOK
    /\ pc \in [Requests -> Labels]
    /\ faults \in FaultConfig /\ ext \in Optional(Allowed)
    /\ signIns \in Ring(Event) /\ changes \in Ring(Change)
    /\ body \in [Admins -> ClockRequest]
    /\ xchg \in [Exchanges -> Exchange]
    /\ seen \in [Exchanges -> SUBSET Facts]

\* The slots of a ring are filled in order, and stay filled once it is full.
FilledInOrder(r) == \A i \in 0..Cap-1 : r.buf[i] # NoEvent <=> r.full \/ i < r.next

RingsInOrder == FilledInOrder(signIns) /\ FilledInOrder(changes)

\* Admin requests take more than one step only to set the clock.
AdminsOnTopic == topic # "clock" => \A r \in Admins : pc[r] \in {"new", "done"}

\* An exchange is logged when it is over, by its outcome.
OutcomesLogged ==
    \A i \in 0..Cap-1 :
        LET e == signIns.buf[i]
        IN  e # NoEvent /\ e.id \in Exchanges => pc[e.id] = "done" /\ Truthful(e.id, e.ok)

\* What a client may be sent: a token exchange is answered with a token or an
\* error, a page has no Location, and an error told by a redirect is in it.
Fits(x, q) ==
    /\ q.outcome # None
    /\ x \in TokenExchanges => q.outcome \in {"fault", "refused", "ok"}
    /\ q.outcome \in {"prompt", "retry"} => q.location = None
    /\ q.outcome = "told" => q.location # "plain"

ResponsesFit == \A x \in Exchanges : pc[x] \in {"record", "done"} => Fits(x, xchg[x])

\* The labels of an exchange that no fault has stopped
Working == {"sleep, grant", "grant", "access", "call, access", "id", "call, id", "issue"}

\* Where an exchange stands tells what was in force when it was decided on, and
\* the allow-list it holds was registered meanwhile.
DecidedInForce ==
    \A x \in Exchanges :
        /\ pc[x] = "new" => xchg[x] = NoExchange
        /\ pc[x] \in {"sleep, fail", "fail"} => <<"armed", TRUE>> \in seen[x]
        /\ x \in TokenExchanges /\ pc[x] \in Working => <<"certain", FALSE>> \in seen[x]
        /\ pc[x] \in {"call, access", "call, id"} => xchg[x].ext # {}
        /\ \A A \in xchg[x].ext : <<"allow", A>> \in seen[x]

RingInv == TypeOK /\ RingsInOrder /\ AdminsOnTopic /\ ResponsesFit /\ OutcomesLogged
ForceInv == DecidedInForce /\ FaultsInForce /\ ExtensionKeptInBounds
=============================================================================
