------------------------------- MODULE Grants -------------------------------
(***************************************************************************)
(* Authorization codes and refresh tokens of the token endpoint:           *)
(* identity/token.go, tokens/service.go and store/grants.go.               *)
(*                                                                         *)
(* Every HTTP request runs in its own goroutine and talks to SQLite over a *)
(* single connection, so one SQL statement or one transaction is atomic    *)
(* and everything between two of them interleaves with other requests. A   *)
(* request is therefore a process whose pc names the next statement it     *)
(* will run; what it has read so far is kept in its record.  A request     *)
(* that is refused leaves the database alone and only goes back to idle.   *)
(*                                                                         *)
(* Secrets are abstract: a token identifier stands for the plaintext and   *)
(* for its SHA-256 hash, which are in one-to-one correspondence.           *)
(***************************************************************************)
EXTENDS Naturals, FiniteSets

CONSTANTS
    Users, Apps,            \* directory objects that may exist
    Codes, Tokens,          \* opaque random values, each drawn at most once
    Requests,               \* concurrently running token requests
    Scopes,                 \* scope values
    OidcScopes,             \* the protocol scopes among them
    Asked,                  \* bound: the scope parameters that requests carry
    OfflineAccess,          \* the scope that asks for a refresh token
    None,                   \* SQL NULL / empty string
    AuthCodeLifetime,       \* Cfg.Lifetimes.AuthCode
    RefreshLifetime,        \* Cfg.Lifetimes.RefreshToken
    PolicyLifetime,         \* MaxInactiveTime of the effective policy, 0 = unset
    MaxNow                  \* bound: the clock shows 0 .. MaxNow

ASSUME GrantsAssumptions ==
    /\ None \notin Users \cup Apps \cup Codes \cup Tokens
    /\ OidcScopes \subseteq Scopes
    /\ Asked \subseteq SUBSET Scopes
    /\ OfflineAccess \in OidcScopes
    /\ AuthCodeLifetime \in Nat \ {0}
    /\ RefreshLifetime \in Nat \ {0}
    /\ PolicyLifetime \in Nat
    /\ MaxNow \in Nat

VARIABLES
    users,      \* users.account_enabled, or "absent" when there is no row
    apps,       \* the app_registrations rows
    codes,      \* authorization_codes
    tokens,     \* refresh_tokens
    reqs,       \* the token requests in flight
    delivered,  \* refresh tokens whose plaintext reached a client
    now,        \* Store.Now()
    exchanges,  \* history: responses built from each code
    burned,     \* history: tokens whose family was revoked for reuse
    replayed    \* history: how a replay of each code was last answered: "no"
                \* replay yet, "raced" an exchange that had still to store its
                \* token, or "clean"

vars == <<users, apps, codes, tokens, reqs, delivered, now, exchanges, burned, replayed>>

-----------------------------------------------------------------------------
\* Rows and requests

CodeRow == [status: {"unused", "issued", "consumed", "deleted"},
            app: Apps \cup {None}, user: Users \cup {None},
            scopes: SUBSET Scopes, expires: Nat]

TokenRow == [status: {"unused", "live", "revoked", "deleted"},
             app: Apps \cup {None}, user: Users \cup {None},
             code: Codes \cup {None}, from: Tokens \cup {None},
             scopes: SUBSET Scopes, created: Nat, expires: Nat]

Request == [pc: {"idle", "consume", "revokeCode", "user", "mint",
                 "rotate", "revokeFamily", "refreshUser"},
            app: Apps \cup {None}, user: Users \cup {None},
            code: Codes \cup {None}, token: Tokens \cup {None},
            scopes: SUBSET Scopes, want: SUBSET Scopes]

BlankCode == [status |-> "unused", app |-> None, user |-> None,
              scopes |-> {}, expires |-> 0]

BlankToken == [status |-> "unused", app |-> None, user |-> None, code |-> None,
               from |-> None, scopes |-> {}, created |-> 0, expires |-> 0]

Idle == [pc |-> "idle", app |-> None, user |-> None, code |-> None,
         token |-> None, scopes |-> {}, want |-> {}]

CodeExists(c) == codes[c].status \in {"issued", "consumed"}
TokenExists(t) == tokens[t].status \in {"live", "revoked"}
Live(t) == tokens[t].status = "live"

\* The foreign keys of both tables.
OwnersExist(u, a) == users[u] # "absent" /\ a \in apps

\* The request consumed the code and has not stored its refresh token yet.
Exchanges(r, c) == reqs[r].pc \in {"user", "mint"} /\ reqs[r].code = c
Exchanging(c) == \E r \in Requests : Exchanges(r, c)

Finish(r) == reqs' = [reqs EXCEPT ![r] = Idle]

-----------------------------------------------------------------------------
\* Rotation families

\* One step of the walk: rotated_from in either direction. A blank or deleted
\* row has no rotated_from; a parent may be named without having a row.
Linked(rows, x, y) == rows[x].from = y \/ rows[y].from = x

Closed(rows, S) == \A x \in S, y \in Tokens : Linked(rows, x, y) => y \in S

\* What RevokeRefreshTokenFamily's frontier loop has seen when it ends: the
\* least set that holds h and is closed under the walk.
Family(rows, h) ==
    {t \in Tokens : \A S \in SUBSET Tokens : (h \in S /\ Closed(rows, S)) => t \in S}

-----------------------------------------------------------------------------
\* Statements on the two tables

\* Mutant: check-then-mark, the update ignores the consumed flag.
ConsumeUnconditionally(c) == CodeExists(c)

\* ConsumeAuthCode: the rows UPDATE ... WHERE code=? AND consumed=0 touches.
ConsumeAuthCodeWins(c) == codes[c].status = "issued"

\* Mutant: rotation ignores the revoked flag.
RotateUnconditionally(t) == TokenExists(t)

\* RotateRefreshToken: the compare-and-set on revoked=0.
RotateWins(t) == Live(t)

\* Mutant: the successor forgets the code it descends from.
SuccessorWithoutCode(t) ==
    [tokens[t] EXCEPT !.from = t, !.code = None, !.created = now, !.expires = now + RefreshLifetime]

\* The row RedeemRefreshToken hands to the rotation: it inherits the grant, its
\* scopes and auth_code, and gets the configured (not the policy's) lifetime.
Successor(t) ==
    [tokens[t] EXCEPT !.from = t, !.created = now, !.expires = now + RefreshLifetime]

\* lifetimesFor: a policy that sets a refresh lifetime overrides the default.
refreshSec == IF PolicyLifetime > 0 THEN PolicyLifetime ELSE RefreshLifetime

\* Mutant: a narrowing request replaces the granted scopes unchecked.
NarrowUnchecked(granted, want) == TRUE

\* The exchange's narrowing check: protocol scopes are tolerated, every other
\* scope must be in the grant.
NarrowingAllowed(granted, want) == want \ OidcScopes \subseteq granted

-----------------------------------------------------------------------------
\* POST /authorize: IssueAuthCode stores a fresh code for a user and a client

IssueAuthCode(c, a, u, sc) ==
    /\ codes[c].status = "unused"
    /\ OwnersExist(u, a)
    /\ codes' = [codes EXCEPT ![c] =
                    [status |-> "issued", app |-> a, user |-> u, scopes |-> sc,
                     expires |-> now + AuthCodeLifetime]]
    /\ UNCHANGED <<users, apps, tokens, reqs, delivered, now, exchanges, burned, replayed>>

-----------------------------------------------------------------------------
\* grant_type=authorization_code

\* authenticateClient and RedeemAuthCode up to its first write: the code is
\* read, a consumed one leads to revocation, and the other checks must pass.
\* Matching redirect URI and PKCE verifier are properties of the request.
RedeemAuthCode(r, a, c, want) ==
    /\ reqs[r].pc = "idle"
    /\ a \in apps
    /\ CodeExists(c)
    /\ \/ /\ codes[c].status = "consumed"
          /\ reqs' = [reqs EXCEPT ![r] = [Idle EXCEPT !.pc = "revokeCode", !.app = a, !.code = c]]
       \/ /\ codes[c].status = "issued"
          /\ codes[c].expires > now
          /\ codes[c].app = a
          /\ reqs' = [reqs EXCEPT ![r] =
                        [pc |-> "consume", app |-> a, user |-> codes[c].user, code |-> c,
                         token |-> None, scopes |-> codes[c].scopes, want |-> want]]
    /\ UNCHANGED <<users, apps, codes, tokens, delivered, now, exchanges, burned, replayed>>

\* Mutant: only the token the exchange itself issued is revoked.
RevokeIssuedOnly(r) ==
    /\ reqs[r].pc = "revokeCode"
    /\ tokens' = [t \in Tokens |->
                    IF tokens[t].code = reqs[r].code /\ tokens[t].from = None /\ Live(t)
                    THEN [tokens[t] EXCEPT !.status = "revoked"] ELSE tokens[t]]
    /\ replayed' = [replayed EXCEPT ![reqs[r].code] =
                       IF @ = "clean" \/ ~Exchanging(reqs[r].code) THEN "clean" ELSE "raced"]
    /\ Finish(r)
    /\ UNCHANGED <<users, apps, codes, delivered, now, exchanges, burned>>

\* The replayed code's refresh tokens are revoked, then the request is refused.
RevokeRefreshTokensForAuthCode(r) ==
    /\ reqs[r].pc = "revokeCode"
    /\ tokens' = [t \in Tokens |->
                    IF tokens[t].code = reqs[r].code /\ Live(t)
                    THEN [tokens[t] EXCEPT !.status = "revoked"] ELSE tokens[t]]
    /\ replayed' = [replayed EXCEPT ![reqs[r].code] =
                       IF @ = "clean" \/ ~Exchanging(reqs[r].code) THEN "clean" ELSE "raced"]
    /\ Finish(r)
    /\ UNCHANGED <<users, apps, codes, delivered, now, exchanges, burned>>

\* The compare-and-set that makes a code single-use. The loser is refused.
ConsumeAuthCode(r) ==
    /\ reqs[r].pc = "consume"
    /\ \/ /\ ConsumeAuthCodeWins(reqs[r].code)
          /\ codes' = [codes EXCEPT ![reqs[r].code].status = "consumed"]
          /\ reqs' = [reqs EXCEPT ![r].pc = "user"]
       \/ /\ ~ConsumeAuthCodeWins(reqs[r].code)
          /\ Finish(r)
          /\ UNCHANGED codes
    /\ UNCHANGED <<users, apps, tokens, delivered, now, exchanges, burned, replayed>>

\* grantAuthorizationCode after the redemption: the account must be enabled and
\* the requested scopes within the grant; the code stays consumed either way.
CheckUserAndScopes(r) ==
    /\ reqs[r].pc = "user"
    /\ \/ /\ users[reqs[r].user] = "enabled"
          /\ NarrowingAllowed(reqs[r].scopes, reqs[r].want)
          /\ reqs' = [reqs EXCEPT ![r] =
                        [reqs[r] EXCEPT !.pc = "mint", !.want = {},
                                        !.scopes = IF reqs[r].want = {} THEN reqs[r].scopes ELSE reqs[r].want]]
       \/ /\ \/ users[reqs[r].user] # "enabled"
             \/ ~NarrowingAllowed(reqs[r].scopes, reqs[r].want)
          /\ Finish(r)
    /\ UNCHANGED <<users, apps, codes, tokens, delivered, now, exchanges, burned, replayed>>

\* ROPC, on-behalf-of and a redeemed device code: an enabled user, and no code
\* behind the grant.
GrantWithoutCode(r, a, u, sc) ==
    /\ reqs[r].pc = "idle"
    /\ a \in apps
    /\ users[u] = "enabled"
    /\ reqs' = [reqs EXCEPT ![r] = [Idle EXCEPT !.pc = "mint", !.app = a, !.user = u, !.scopes = sc]]
    /\ UNCHANGED <<users, apps, codes, tokens, delivered, now, exchanges, burned, replayed>>

\* BuildDelegatedResponse and IssueRefreshToken: a fresh row for a grant with
\* offline_access, unless a foreign key is gone by now. Access and ID tokens
\* are stateless. The response may be lost on its way to the client.
BuildDelegatedResponse(r) ==
    LET q == reqs[r] IN
    /\ q.pc = "mint"
    /\ \/ /\ OfflineAccess \in q.scopes
          /\ OwnersExist(q.user, q.app)
          /\ \E t \in Tokens, got \in BOOLEAN :
                /\ tokens[t].status = "unused"
                /\ tokens' = [tokens EXCEPT ![t] =
                                [status |-> "live", app |-> q.app, user |-> q.user, code |-> q.code,
                                 from |-> None, scopes |-> q.scopes,
                                 created |-> now, expires |-> now + refreshSec]]
                /\ delivered' = IF got THEN delivered \cup {t} ELSE delivered
          /\ exchanges' = [c \in Codes |-> IF c = q.code THEN exchanges[c] + 1 ELSE exchanges[c]]
       \/ /\ OfflineAccess \notin q.scopes
          /\ exchanges' = [c \in Codes |-> IF c = q.code THEN exchanges[c] + 1 ELSE exchanges[c]]
          /\ UNCHANGED <<tokens, delivered>>
       \/ /\ OfflineAccess \in q.scopes
          /\ ~OwnersExist(q.user, q.app)
          /\ UNCHANGED <<tokens, delivered, exchanges>>
    /\ Finish(r)
    /\ UNCHANGED <<users, apps, codes, now, burned, replayed>>

-----------------------------------------------------------------------------
\* grant_type=refresh_token

\* RedeemRefreshToken up to its first write. Only a token that was delivered
\* can be presented; reuse takes precedence over client binding and expiry.
RedeemRefreshToken(r, a, t, want) ==
    /\ reqs[r].pc = "idle"
    /\ a \in apps
    /\ t \in delivered
    /\ TokenExists(t)
    /\ \/ /\ tokens[t].status = "revoked"
          /\ reqs' = [reqs EXCEPT ![r] = [Idle EXCEPT !.pc = "revokeFamily", !.app = a, !.token = t]]
       \/ /\ Live(t)
          /\ tokens[t].app = a
          /\ tokens[t].expires > now
          /\ want \subseteq tokens[t].scopes
          /\ reqs' = [reqs EXCEPT ![r] =
                        [Idle EXCEPT !.pc = "rotate", !.app = a, !.user = tokens[t].user, !.token = t,
                                     !.scopes = IF want = {} THEN tokens[t].scopes ELSE want]]
    /\ UNCHANGED <<users, apps, codes, tokens, delivered, now, exchanges, burned, replayed>>

\* The rotation transaction. The row read earlier cannot have changed while the
\* compare-and-set still finds it live; a loser goes on to revoke the family.
RotateRefreshToken(r) ==
    LET old == reqs[r].token IN
    /\ reqs[r].pc = "rotate"
    /\ \/ /\ RotateWins(old)
          /\ \E new \in Tokens :
                /\ tokens[new].status = "unused"
                /\ tokens' = [tokens EXCEPT ![old] = [@ EXCEPT !.status = "revoked"],
                                            ![new] = [Successor(old) EXCEPT !.status = "live"]]
                /\ reqs' = [reqs EXCEPT ![r] = [@ EXCEPT !.pc = "refreshUser", !.token = new]]
       \/ /\ ~RotateWins(old)
          /\ reqs' = [reqs EXCEPT ![r].pc = "revokeFamily"]
          /\ UNCHANGED tokens
    /\ UNCHANGED <<users, apps, codes, delivered, now, exchanges, burned, replayed>>

\* Mutant: the presented token is revoked (again), its relatives are not.
RevokePresentedOnly(r) ==
    /\ reqs[r].pc = "revokeFamily"
    /\ tokens' = [t \in Tokens |->
                    IF t = reqs[r].token /\ TokenExists(t)
                    THEN [tokens[t] EXCEPT !.status = "revoked"] ELSE tokens[t]]
    /\ burned' = burned \cup {reqs[r].token}
    /\ Finish(r)
    /\ UNCHANGED <<users, apps, codes, delivered, now, exchanges, replayed>>

\* Reuse was detected: every row the walk reached is revoked.
RevokeRefreshTokenFamily(r) ==
    /\ reqs[r].pc = "revokeFamily"
    /\ tokens' = [t \in Tokens |->
                    IF t \in Family(tokens, reqs[r].token) /\ TokenExists(t)
                    THEN [tokens[t] EXCEPT !.status = "revoked"] ELSE tokens[t]]
    /\ burned' = burned \cup {reqs[r].token}
    /\ Finish(r)
    /\ UNCHANGED <<users, apps, codes, delivered, now, exchanges, replayed>>

\* grantRefreshToken after the rotation: the successor is handed out to an
\* enabled user whose narrowed grant keeps offline_access; otherwise it stays
\* in the table without anyone knowing it.
DeliverSuccessor(r) ==
    LET q == reqs[r] IN
    /\ q.pc = "refreshUser"
    /\ \/ delivered' = delivered
       \/ /\ users[q.user] = "enabled"
          /\ OfflineAccess \in q.scopes
          /\ delivered' = delivered \cup {q.token}
    /\ Finish(r)
    /\ UNCHANGED <<users, apps, codes, tokens, now, exchanges, burned, replayed>>

-----------------------------------------------------------------------------
\* The directory, the clock and the process around the token endpoint

\* PATCH users: accountEnabled.
SetAccountEnabled(u, state) ==
    /\ users[u] # "absent"
    /\ users' = [users EXCEPT ![u] = state]
    /\ UNCHANGED <<apps, codes, tokens, reqs, delivered, now, exchanges, burned, replayed>>

\* The grants a deletion clears, as one transaction.
ClearGrants(CodeMatches(_), TokenMatches(_)) ==
    /\ codes' = [c \in Codes |->
                    IF CodeExists(c) /\ CodeMatches(codes[c])
                    THEN [BlankCode EXCEPT !.status = "deleted"] ELSE codes[c]]
    /\ tokens' = [t \in Tokens |->
                    IF TokenExists(t) /\ TokenMatches(tokens[t])
                    THEN [BlankToken EXCEPT !.status = "deleted"] ELSE tokens[t]]

\* DeleteUser and SoftDeleteUser: grants have no cascade, both clear them.
DeleteUser(u) ==
    /\ users[u] # "absent"
    /\ users' = [users EXCEPT ![u] = "absent"]
    /\ ClearGrants(LAMBDA c : c.user = u, LAMBDA t : t.user = u)
    /\ UNCHANGED <<apps, reqs, delivered, now, exchanges, burned, replayed>>

\* RestoreDeletedItem, a reseed or an import brings the same user id back.
RestoreUser(u, state) ==
    /\ users[u] = "absent"
    /\ users' = [users EXCEPT ![u] = state]
    /\ UNCHANGED <<apps, codes, tokens, reqs, delivered, now, exchanges, burned, replayed>>

\* DeleteApp and SoftDeleteApp.
DeleteApp(a) ==
    /\ a \in apps
    /\ apps' = apps \ {a}
    /\ ClearGrants(LAMBDA c : c.app = a, LAMBDA t : t.app = a)
    /\ UNCHANGED <<users, reqs, delivered, now, exchanges, burned, replayed>>

RestoreApp(a) ==
    /\ a \notin apps
    /\ apps' = apps \cup {a}
    /\ UNCHANGED <<users, codes, tokens, reqs, delivered, now, exchanges, burned, replayed>>

\* The controllable clock may be moved either way between any two statements.
SetClock(n) ==
    /\ now' = n
    /\ UNCHANGED <<users, apps, codes, tokens, reqs, delivered, exchanges, burned, replayed>>

\* A crash or restart loses every request in flight; the database survives.
Restart ==
    /\ reqs' = [r \in Requests |-> Idle]
    /\ UNCHANGED <<users, apps, codes, tokens, delivered, now, exchanges, burned, replayed>>

-----------------------------------------------------------------------------
Init ==
    /\ users = [u \in Users |-> "enabled"]
    /\ apps = Apps
    /\ codes = [c \in Codes |-> BlankCode]
    /\ tokens = [t \in Tokens |-> BlankToken]
    /\ reqs = [r \in Requests |-> Idle]
    /\ delivered = {}
    /\ now = 0
    /\ exchanges = [c \in Codes |-> 0]
    /\ burned = {}
    /\ replayed = [c \in Codes |-> "no"]

Step(r) ==
    \/ ConsumeAuthCode(r) \/ RevokeRefreshTokensForAuthCode(r)
    \/ CheckUserAndScopes(r) \/ BuildDelegatedResponse(r)
    \/ RotateRefreshToken(r) \/ RevokeRefreshTokenFamily(r) \/ DeliverSuccessor(r)

Directory ==
    \/ \E u \in Users : DeleteUser(u)
    \/ \E u \in Users, state \in {"enabled", "disabled"} :
          SetAccountEnabled(u, state) \/ RestoreUser(u, state)
    \/ \E a \in Apps : DeleteApp(a) \/ RestoreApp(a)

Next ==
    \/ \E c \in Codes, a \in Apps, u \in Users, sc \in Asked : IssueAuthCode(c, a, u, sc)
    \/ \E r \in Requests, a \in Apps :
          \/ \E c \in Codes, want \in Asked : RedeemAuthCode(r, a, c, want)
          \/ \E t \in Tokens, want \in Asked : RedeemRefreshToken(r, a, t, want)
          \/ \E u \in Users, sc \in Asked : GrantWithoutCode(r, a, u, sc)
    \/ \E r \in Requests : Step(r)
    \/ Directory
    \/ \E n \in 0..MaxNow : SetClock(n)
    \/ Restart

Spec == Init /\ [][Next]_vars

-----------------------------------------------------------------------------
\* Properties

\* What each stage of a request has filled in.
RequestsTyped ==
    \A r \in Requests :
        /\ reqs[r].pc \in {"consume", "revokeCode", "user"} => reqs[r].code \in Codes
        /\ reqs[r].pc \in {"rotate", "revokeFamily", "refreshUser"} => reqs[r].token \in Tokens
        /\ reqs[r].pc \in {"consume", "user", "mint"} => reqs[r].user \in Users /\ reqs[r].app \in Apps

\* A row exists only for a user and a client.
RowsTyped ==
    /\ \A c \in Codes : CodeExists(c) => codes[c].user \in Users /\ codes[c].app \in Apps
    /\ \A t \in Tokens : TokenExists(t) => tokens[t].user \in Users /\ tokens[t].app \in Apps

VariablesTyped ==
    /\ users \in [Users -> {"enabled", "disabled", "absent"}]
    /\ apps \subseteq Apps
    /\ codes \in [Codes -> CodeRow]
    /\ tokens \in [Tokens -> TokenRow]
    /\ reqs \in [Requests -> Request]
    /\ delivered \subseteq Tokens
    /\ now \in 0..MaxNow
    /\ exchanges \in [Codes -> Nat]
    /\ burned \subseteq Tokens
    /\ replayed \in [Codes -> {"no", "raced", "clean"}]

TypeOK == VariablesTyped /\ RequestsTyped /\ RowsTyped

\* An authorization code is exchanged for a response at most once, whatever the
\* interleaving of redemptions (RedeemAuthCode, ConsumeAuthCode).
CodeSingleUse == \A c \in Codes : exchanges[c] <= 1

\* Of the refresh tokens that descend from one authorization code, however
\* often rotated, at most one is usable (RotateRefreshToken's inheritance).
OneLivePerCode ==
    \A x, y \in Tokens :
        (Live(x) /\ Live(y) /\ tokens[x].code = tokens[y].code /\ tokens[x].code # None) => x = y

\* A rotation family never holds two usable tokens: rotation revokes the parent
\* in the transaction that stores its only successor (RotateRefreshToken).
OneLivePerFamily ==
    \A x \in Tokens : \A y \in Family(tokens, x) : (Live(x) /\ Live(y)) => x = y

\* Once reuse of a token was detected, no member of its family is ever usable
\* again, even when a rotation of that family was in flight at the time
\* (RedeemRefreshToken, RevokeRefreshTokenFamily).
BurnedFamilyDead == \A b \in burned : \A y \in Family(tokens, b) : ~Live(y)

\* rotated_from always names an existing, revoked row of the same client, user
\* and code: deletions take whole chains, so the family walk never meets a gap
\* (DeleteUser, DeleteApp, RotateRefreshToken).
ChainsIntact ==
    \A t \in Tokens : tokens[t].from # None =>
        LET p == tokens[tokens[t].from] IN
        /\ p.status = "revoked"
        /\ p.app = tokens[t].app /\ p.user = tokens[t].user /\ p.code = tokens[t].code

\* A code replayed after its exchange completed (or died) leaves no usable
\* refresh token behind, and none appears later (RedeemAuthCode's replay case).
ReplayedChainDead ==
    \A c \in Codes : replayed[c] = "clean" => \A t \in Tokens : tokens[t].code = c => ~Live(t)

\* A refresh token never carries a resource scope its authorization did not
\* grant: narrowing cannot widen, rotation hands down the original grant.
ScopesWithinGrant ==
    \A t \in Tokens : \A c \in Codes :
        (TokenExists(t) /\ tokens[t].code = c /\ CodeExists(c)) =>
            tokens[t].scopes \ OidcScopes \subseteq codes[c].scopes

\* What the docs promise of replay, without the restriction above: once a
\* replay was answered and no exchange of the code is running any more, the
\* whole chain is revoked.
ReplayRevokesWholeChain ==
    \A c \in Codes : (replayed[c] # "no" /\ ~Exchanging(c)) =>
        \A t \in Tokens : tokens[t].code = c => ~Live(t)

-----------------------------------------------------------------------------
\* Inductive strengthenings, checked by TLC and used by the proofs

\* A value that was never drawn or whose row is gone has no grant behind it.
BlankRowsUnlinked ==
    \A t \in Tokens : ~TokenExists(t) => tokens[t].from = None /\ tokens[t].code = None

\* Nobody knows a token that was not drawn yet.
KnownTokensDrawn ==
    /\ \A t \in burned \cup delivered : tokens[t].status # "unused"
    /\ \A r \in Requests : reqs[r].pc \in {"rotate", "revokeFamily", "refreshUser"} =>
          tokens[reqs[r].token].status # "unused"

FamilyInv ==
    /\ TypeOK
    /\ BlankRowsUnlinked
    /\ KnownTokensDrawn
    /\ ChainsIntact
    /\ OneLivePerFamily
    /\ BurnedFamilyDead

\* A code is out of circulation: no redemption can win it any more.
Spent(c) == codes[c].status \in {"consumed", "deleted"}

\* What a request knows of the code it works on.
RequestsHoldCodes ==
    \A r \in Requests :
        /\ reqs[r].pc = "consume" => codes[reqs[r].code].status # "unused"
        /\ reqs[r].pc = "revokeCode" => Spent(reqs[r].code)
        /\ \A c \in Codes : Exchanges(r, c) => Spent(c)

\* An exchange in flight is the only one of its code and has produced nothing.
ExchangeIsExclusive ==
    \A c \in Codes, r \in Requests : Exchanges(r, c) =>
        /\ exchanges[c] = 0
        /\ \A t \in Tokens : tokens[t].code # c
        /\ \A q \in Requests : Exchanges(q, c) => q = r

\* Before a code is spent nothing has come of it.
UnspentCodesUnused ==
    \A c \in Codes : ~Spent(c) =>
        /\ exchanges[c] = 0
        /\ \A t \in Tokens : tokens[t].code # c

CleanReplayHadNoExchange ==
    \A c \in Codes : replayed[c] = "clean" => Spent(c) /\ ~Exchanging(c)

CodeInv ==
    /\ RequestsHoldCodes
    /\ ExchangeIsExclusive
    /\ UnspentCodesUnused
    /\ CleanReplayHadNoExchange
    /\ CodeSingleUse
    /\ OneLivePerCode
    /\ ReplayedChainDead

\* What a request that works on a code may hand out is within the code's grant,
\* for as long as the code's row is there.
RequestsWithinGrant ==
    \A r \in Requests : \A c \in Codes : (reqs[r].code = c /\ CodeExists(c)) =>
        /\ reqs[r].pc \in {"consume", "user"} => reqs[r].scopes \subseteq codes[c].scopes
        /\ reqs[r].pc = "mint" => reqs[r].scopes \ OidcScopes \subseteq codes[c].scopes

ScopeInv == RequestsWithinGrant /\ ScopesWithinGrant
=============================================================================
