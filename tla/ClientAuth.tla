----------------------------- MODULE ClientAuth -----------------------------
(***************************************************************************)
(* How a client proves who it is at the token and authorize endpoints      *)
(* while its credentials are being changed: secrets, key credentials,      *)
(* federated identity credentials with the cache of external issuers' keys *)
(* (identity/token.go, federated.go, tokens/clientassertion.go), and the   *)
(* signed request objects of identity/requestobject.go.  The credentials   *)
(* live in store/apps.go, keycred.go and federatedcred.go and are managed  *)
(* by the admin API and by Graph.                                          *)
(*                                                                         *)
(* Every request is served once; a writer is the identifier of the row it  *)
(* inserts.  A key is its kid.  External issuers rotate their keys and may *)
(* be unreachable at any time.                                             *)
(***************************************************************************)
EXTENDS Naturals, FiniteSets

CONSTANTS
    Clients,        \* bound: the token and authorize requests of a behaviour
    Writers,        \* bound: its admin and Graph requests
    Apps, Issuers, Subjects, Audiences,
    Keys,           \* keys an app or an issuer may sign with
    Origins,        \* origins of redirect URIs
    Presented,      \* what each of the requests may present, see Credential
    KeySets,        \* the key sets an issuer may publish; {}: it is down
    OldSecrets, OldKeys, OldTrusts, OldOrigins, OldPublished,
    OldIds,
    Skew,           \* clockSkewSeconds
    MaxTime,        \* bound on the clock
    None

Ids == Writers \cup OldIds

\* A secret's text is its row's identifier.  good: the signature is really
\* that of the key the assertion names.
Credential ==
    [kind: {"none", "secret", "own", "federated", "object"},
     secret: Ids \cup {None}, key: Keys \cup {None},
     issuer: Issuers \cup {None}, subject: Subjects \cup {None},
     auds: SUBSET Audiences, exp: Nat, good: BOOLEAN, origin: Origins \cup {None}]

AppSecret == [id: Ids, app: Apps, expires: Nat]
AppKeyCredential == [id: Ids, app: Apps, key: Keys]
FederatedCredential == [id: Ids, app: Apps, issuer: Issuers, subject: Subjects,
                        auds: SUBSET Audiences]

\* The system starts with well-formed rows; a credential without a signature
\* has none that could be wrong.
ASSUME ClientAuthAssumptions ==
    /\ None \notin Ids \cup Keys \cup Issuers \cup Subjects \cup Origins
    /\ Writers \cap OldIds = {} /\ Clients \cap Writers = {}
    /\ Apps # {}
    /\ \A r \in Clients : Presented[r] \subseteq Credential
    /\ \A r \in Clients : \A c \in Presented[r] : c.kind \in {"none", "secret"} => c.good
    /\ OldSecrets \subseteq AppSecret /\ OldKeys \subseteq AppKeyCredential
    /\ OldTrusts \subseteq FederatedCredential /\ OldOrigins \subseteq Apps \X Origins
    /\ KeySets \subseteq SUBSET Keys /\ OldPublished \in [Issuers -> SUBSET Keys]
    /\ Skew \in Nat /\ MaxTime \in Nat

VARIABLES
    pc,         \* the next statement of each request
    now,        \* the clock
    apps,       \* live app registrations
    confidential,\* is_confidential of each
    secrets,    \* app_secrets
    keyCreds,   \* app_key_credentials
    trusts,     \* app_federated_credentials
    origins,    \* app_redirect_uris: pairs of app and origin
    published,  \* the keys each external issuer publishes
    extKeys,    \* the issuer key cache
    req,        \* the requests of clients
    seen        \* history: what held while a request was being served

rows == <<apps, confidential, secrets, keyCreds, trusts, origins>>
vars == <<pc, now, rows, published, extKeys, req, seen>>

Request == [flow: {"none", "appOnly", "user", "authorize"}, app: Apps,
            cred: Credential, confidential: BOOLEAN, todo: SUBSET Audiences,
            fetched: SUBSET Keys, answer: {"none", "ok", "refused", "unmatched", "noKey"}]

NoCredential == [kind |-> "none", secret |-> None, key |-> None, issuer |-> None,
                 subject |-> None, auds |-> {}, exp |-> 0, good |-> TRUE, origin |-> None]
Idle == [flow |-> "none", app |-> CHOOSE a \in Apps : TRUE, cred |-> NoCredential,
         confidential |-> FALSE, todo |-> {}, fetched |-> {}, answer |-> "none"]

Serve(r) == pc[r] = "new" /\ pc' = [pc EXCEPT ![r] = "done"]
Step(r, l, m) == pc[r] = l /\ pc' = [pc EXCEPT ![r] = m]

-----------------------------------------------------------------------------
\* Managing credentials.  The rows of an app go with it.

AddSecret(r, a, expires) ==
    /\ Serve(r)
    /\ a \in apps
    /\ secrets' = secrets \cup {[id |-> r, app |-> a, expires |-> expires]}
    /\ UNCHANGED <<apps, confidential, keyCreds, trusts, origins>>

DeleteSecret(r, s) ==
    /\ Serve(r)
    /\ s \in secrets
    /\ secrets' = secrets \ {s}
    /\ UNCHANGED <<apps, confidential, keyCreds, trusts, origins>>

AddKeyCredential(r, a, k) ==
    /\ Serve(r)
    /\ a \in apps
    /\ keyCreds' = keyCreds \cup {[id |-> r, app |-> a, key |-> k]}
    /\ UNCHANGED <<apps, confidential, secrets, trusts, origins>>

DeleteKeyCredential(r, c) ==
    /\ Serve(r)
    /\ c \in keyCreds
    /\ keyCreds' = keyCreds \ {c}
    /\ UNCHANGED <<apps, confidential, secrets, trusts, origins>>

\* CreateFederatedCredential: names are unique in an app and are abstracted to
\* the row; issuer and subject need not be.
InsertTrust(c) == trusts \cup {c}

\* addFederatedCredential of the admin API, createFederatedCred of Graph
AddFederatedCredential(r, a, i, s, auds) ==
    /\ Serve(r)
    /\ a \in apps
    /\ trusts' = InsertTrust([id |-> r, app |-> a, issuer |-> i, subject |-> s, auds |-> auds])
    /\ UNCHANGED <<apps, confidential, secrets, keyCreds, origins>>

CreateFederatedCred(r, a, i, s, auds) == AddFederatedCredential(r, a, i, s, auds)

\* patchFederatedCred changes the copy it has read and writes all of it, if the
\* row is still there.
UpdateFederatedCredential(c) == {IF x.id = c.id /\ x.app = c.app THEN c ELSE x : x \in trusts}

PatchFederatedCred(r, c, i, s, auds) ==
    /\ Serve(r)
    /\ c \in trusts
    /\ trusts' = UpdateFederatedCredential([c EXCEPT !.issuer = i, !.subject = s, !.auds = auds])
    /\ UNCHANGED <<apps, confidential, secrets, keyCreds, origins>>

DeleteFederatedCred(r, c) ==
    /\ Serve(r)
    /\ c \in trusts
    /\ trusts' = trusts \ {c}
    /\ UNCHANGED <<apps, confidential, secrets, keyCreds, origins>>

AddRedirectURI(r, a, o) ==
    /\ Serve(r)
    /\ a \in apps /\ <<a, o>> \notin origins
    /\ origins' = origins \cup {<<a, o>>}
    /\ UNCHANGED <<apps, confidential, secrets, keyCreds, trusts>>

DeleteRedirectURI(r, x) ==
    /\ Serve(r)
    /\ x \in origins
    /\ origins' = origins \ {x}
    /\ UNCHANGED <<apps, confidential, secrets, keyCreds, trusts>>

\* patchApp, of which isConfidential counts here; it writes the whole row.
PatchApp(r, a) ==
    /\ Serve(r)
    /\ a \in apps
    /\ confidential' = [confidential EXCEPT ![a] = ~@]
    /\ UNCHANGED <<apps, secrets, keyCreds, trusts, origins>>

\* ON DELETE CASCADE
DeleteApp(r, a) ==
    /\ Serve(r)
    /\ a \in apps
    /\ apps' = apps \ {a}
    /\ secrets' = {x \in secrets : x.app # a}
    /\ keyCreds' = {x \in keyCreds : x.app # a}
    /\ trusts' = {x \in trusts : x.app # a}
    /\ origins' = {x \in origins : x[1] # a}
    /\ UNCHANGED <<confidential>>

-----------------------------------------------------------------------------
\* authenticateClient

\* Mutant: the grant relies on its first look at the client.
Checked(q) == TRUE

\* The second look of grantClientCredentials: is_confidential of the row that
\* was authenticated
StillConfidential(q) == q.flow = "appOnly" => q.confidential

Verdict(q, m) == IF m = "proven" THEN IF StillConfidential(q) THEN "ok" ELSE "refused" ELSE m

\* Request r goes from l to m with the data q, or is answered; of a request
\* that failed nothing is kept.
Goto(r, l, m, q) ==
    IF m \in {"proven", "refused", "unmatched", "noKey"}
    THEN /\ Step(r, l, "done")
         /\ req' = [req EXCEPT ![r] =
                       IF Verdict(q, m) = "ok" THEN [q EXCEPT !.answer = "ok", !.fetched = {}, !.todo = {}]
                       ELSE [Idle EXCEPT !.answer = Verdict(q, m)]]
    ELSE /\ Step(r, l, m)
         /\ req' = [req EXCEPT ![r] = q]

Begin(r, m, flow, a, c) ==
    Goto(r, "new", m, [Idle EXCEPT !.flow = flow, !.app = a, !.cred = c, !.todo = c.auds])

\* grantClientCredentials refuses a public client before it authenticates it.
GrantClientCredentials(r, a, c) ==
    /\ c.kind # "object"
    /\ Begin(r, IF a \in apps /\ ~confidential[a] THEN "refused" ELSE "client", "appOnly", a, c)
    /\ UNCHANGED extKeys

\* Every other grant
GrantToUser(r, a, c) ==
    /\ c.kind # "object"
    /\ Begin(r, "client", "user", a, c)
    /\ UNCHANGED extKeys

\* GetApp, and which proof the client owes
Owes(a, c) ==
    CASE a \notin apps -> "refused"
      [] a \in apps /\ c.kind = "own" -> "assertion"
      [] a \in apps /\ c.kind = "federated" -> "trust"
      [] a \in apps /\ c.kind = "secret" -> IF confidential[a] THEN "secret" ELSE "refused"
      [] a \in apps /\ c.kind = "none" -> IF confidential[a] THEN "refused" ELSE "proven"

ReadClient(r) ==
    LET q == req[r] IN
    /\ pc[r] = "client"
    /\ Goto(r, "client", Owes(q.app, q.cred), [q EXCEPT !.confidential = confidential[q.app]])
    /\ UNCHANGED extKeys

\* Mutant: a secret is good up to and at its expiry.
SecretUnexpiredAt(s, t) == s.expires = 0 \/ s.expires >= t

\* ExpiresAt != 0 && ExpiresAt <= now is skipped.
SecretUnexpired(s, t) == s.expires = 0 \/ s.expires > t

VerifyAppSecret(r) ==
    LET ok == \E s \in secrets : /\ s.app = req[r].app /\ s.id = req[r].cred.secret
                                 /\ SecretUnexpired(s, now)
    IN  /\ Goto(r, "secret", IF ok THEN "proven" ELSE "refused", req[r])
        /\ UNCHANGED extKeys

\* VerifyClientAssertion: any registered key will do; exp has the clock skew.
AssertionAccepted(a, c) ==
    /\ \E k \in keyCreds : k.app = a /\ k.key = c.key
    /\ c.good
    /\ now <= c.exp + Skew

VerifyClientAssertion(r) ==
    /\ Goto(r, "assertion",
            IF AssertionAccepted(req[r].app, req[r].cred) THEN "proven" ELSE "refused", req[r])
    /\ UNCHANGED extKeys

\* MatchFederatedCredential looks at one row of the issuer and subject.
Candidates(a, c) == {x \in trusts : x.app = a /\ x.issuer = c.issuer /\ x.subject = c.subject}

\* verifyFederatedAssertion asks for the assertion's audiences one by one.
MatchFederatedCredential(r, aud) ==
    LET q == req[r]
        rest == q.todo \ {aud}
        found == Candidates(q.app, q.cred)
        next(hit) == IF hit THEN "key" ELSE IF rest = {} THEN "unmatched" ELSE "trust"
    IN  /\ aud \in q.todo
        /\ \E hit \in IF found = {} THEN {FALSE} ELSE {(aud \in x.auds) : x \in found} :
               Goto(r, "trust", next(hit), [q EXCEPT !.todo = rest])
        /\ UNCHANGED extKeys

\* Mutant: a key the cache misses is not asked for.
CacheAlone(i, k) == TRUE

\* issuerKeyCache.get, under its lock
Cached(i, k) == k \in extKeys[i]

LookUpKey(r) ==
    LET q == req[r]
        i == q.cred.issuer
    IN  /\ pc[r] = "key"
        /\ Goto(r, "key", IF Cached(i, q.cred.key) THEN "verify" ELSE "fetch",
                [q EXCEPT !.todo = {}, !.fetched = IF Cached(i, q.cred.key) THEN extKeys[i] ELSE {}])
        /\ UNCHANGED extKeys

\* Without the lock: fetchIssuerKeys gets the issuer's JWKS of some moment ...
FetchIssuerKeys(r) ==
    LET S == published[req[r].cred.issuer] IN
    /\ pc[r] = "fetch" /\ S # {}
    /\ Goto(r, "fetch", "store", [req[r] EXCEPT !.fetched = S])
    /\ UNCHANGED extKeys

\* ... or fails, after five seconds at most for each of its two requests,
FetchFails(r) ==
    /\ Goto(r, "fetch", "refused", req[r])
    /\ UNCHANGED extKeys

\* ... and replaces what the cache holds of the issuer, whoever came first.
StoreKeys(r) ==
    /\ Goto(r, "store", "verify", req[r])
    /\ extKeys' = [extKeys EXCEPT ![req[r].cred.issuer] = req[r].fetched]

\* The signature, then exp without any skew
VerifyFederatedAssertion(r) ==
    LET c == req[r].cred
        m == IF c.key \notin req[r].fetched THEN "noKey"
             ELSE IF c.good /\ now < c.exp THEN "proven" ELSE "refused"
    IN  /\ Goto(r, "verify", m, req[r])
        /\ UNCHANGED extKeys

-----------------------------------------------------------------------------
\* fetchRequestObject of the authorize endpoint

\* allowedRequestURIOrigin, before any connection is opened
AllowedRequestURIOrigin(a, o) == <<a, o>> \in origins

BeginRequestObject(r, a, c) ==
    /\ c.kind = "object"
    /\ Begin(r, IF AllowedRequestURIOrigin(a, c.origin) THEN "get" ELSE "refused", "authorize", a, c)
    /\ UNCHANGED extKeys

\* The GET succeeds, or fails after five seconds at most.
GetRequestObject(r) ==
    /\ \E m \in {"object", "refused"} : Goto(r, "get", m, req[r])
    /\ UNCHANGED extKeys

\* VerifyRequestObject: exp without skew
VerifyRequestObject(r) ==
    LET c == req[r].cred
        ok == /\ \E k \in keyCreds : k.app = req[r].app /\ k.key = c.key
              /\ c.good /\ now < c.exp
    IN  /\ Goto(r, "object", IF ok THEN "proven" ELSE "refused", req[r])
        /\ UNCHANGED extKeys

-----------------------------------------------------------------------------
\* The environment

\* An external issuer replaces its keys.
RotateIssuer(i, S) ==
    /\ S # published[i]
    /\ published' = [published EXCEPT ![i] = S]
    /\ UNCHANGED <<pc, now, rows, extKeys, req>>

Tick ==
    /\ now < MaxTime
    /\ now' = now + 1
    /\ UNCHANGED <<pc, rows, published, extKeys, req>>

-----------------------------------------------------------------------------

Init ==
    /\ pc = [r \in Clients \cup Writers |-> "new"]
    /\ now = 0
    /\ apps = Apps
    /\ confidential = [a \in Apps |-> TRUE]
    /\ secrets = OldSecrets /\ keyCreds = OldKeys /\ trusts = OldTrusts
    /\ origins = OldOrigins
    /\ published = OldPublished
    /\ extKeys = [i \in Issuers |-> {}]
    /\ req = [r \in Clients |-> Idle]
    /\ seen = [r \in Clients |-> {}]

WriterNext ==
    \E r \in Writers :
        \/ \E a \in Apps, t \in 0..MaxTime : AddSecret(r, a, t)
        \/ \E s \in secrets : DeleteSecret(r, s)
        \/ \E a \in Apps, k \in Keys : AddKeyCredential(r, a, k)
        \/ \E c \in keyCreds : DeleteKeyCredential(r, c)
        \/ \E a \in Apps, i \in Issuers, s \in Subjects, A \in SUBSET Audiences \ {{}} :
               \/ AddFederatedCredential(r, a, i, s, A)
               \/ CreateFederatedCred(r, a, i, s, A)
        \/ \E c \in trusts, i \in Issuers, s \in Subjects, A \in SUBSET Audiences \ {{}} :
               PatchFederatedCred(r, c, i, s, A)
        \/ \E c \in trusts : DeleteFederatedCred(r, c)
        \/ \E a \in Apps, o \in Origins : AddRedirectURI(r, a, o)
        \/ \E x \in origins : DeleteRedirectURI(r, x)
        \/ \E a \in Apps : PatchApp(r, a) \/ DeleteApp(r, a)

Handle(r) ==
    \/ ReadClient(r) \/ VerifyAppSecret(r) \/ VerifyClientAssertion(r)
    \/ \E aud \in Audiences : MatchFederatedCredential(r, aud)
    \/ LookUpKey(r) \/ FetchIssuerKeys(r) \/ FetchFails(r) \/ StoreKeys(r)
    \/ VerifyFederatedAssertion(r)
    \/ GetRequestObject(r) \/ VerifyRequestObject(r)

ClientNext ==
    \E r \in Clients :
        \/ \E a \in Apps, c \in Presented[r] :
               \/ GrantClientCredentials(r, a, c)
               \/ GrantToUser(r, a, c)
               \/ BeginRequestObject(r, a, c)
        \/ Handle(r)

-----------------------------------------------------------------------------
\* What credentials mean, from the rows alone

\* The facts that tell whether a credential of this kind proves anything
Telling(kind) ==
    CASE kind = "none" -> {"public"}
      [] kind = "secret" -> {"secret"}
      [] kind = "own" -> {"key"}
      [] kind = "object" -> {"origin", "object"}
      [] kind = "federated" -> {"trusted", "untrusted", "fresh", "known", "unpublished"}

Trusted(a, c) == \E x \in trusts : /\ x.app = a /\ x.issuer = c.issuer
                                   /\ x.subject = c.subject /\ x.auds \cap c.auds # {}

\* What holds now of request r's client and of what it presented
Holds(r, fact) ==
    LET a == req[r].app
        c == req[r].cred
        registered == \E k \in keyCreds : k.app = a /\ k.key = c.key
    IN  CASE fact = "public" -> a \in apps /\ ~confidential[a]
          [] fact = "secret" -> \E s \in secrets : /\ s.app = a /\ s.id = c.secret
                                                  /\ (s.expires = 0 \/ now < s.expires)
          [] fact = "key" -> registered /\ now <= c.exp + Skew
          [] fact = "object" -> registered /\ now < c.exp
          [] fact = "origin" -> <<a, c.origin>> \in origins
          [] fact = "trusted" -> Trusted(a, c)
          [] fact = "untrusted" -> ~Trusted(a, c)
          [] fact = "fresh" -> now < c.exp
          [] fact = "known" -> c.key \in published[c.issuer] \cup extKeys[c.issuer]
          [] fact = "unpublished" -> c.key \notin published[c.issuer]

Facts(r) == {f \in Telling(req[r].cred.kind) : Holds(r, f)}

\* What must have held for each answer to be right
Explains(answer) ==
    CASE answer = "ok" -> {"public", "secret", "key", "object", "origin", "trusted", "fresh", "known"}
      [] answer = "unmatched" -> {"untrusted"}
      [] answer = "noKey" -> {"unpublished"}
      [] answer = "refused" -> {}

\* seen' is what held at some moment of the request; only a new request and a
\* change of what the facts are about add to it, and answering changes nothing
\* that they depend on.
Watch ==
    seen' = [r \in Clients |->
                IF pc[r] = "done" \/ pc'[r] = "new" THEN seen[r]
                ELSE IF pc'[r] = "done" THEN seen[r] \cap Explains(req'[r].answer)
                ELSE IF pc[r] # "new" /\ UNCHANGED <<now, rows, published, extKeys>> THEN seen[r]
                ELSE seen[r] \cup Facts(r)']

Next ==
    /\ \/ WriterNext /\ UNCHANGED <<now, published, extKeys, req>>
       \/ ClientNext /\ UNCHANGED <<now, rows, published>>
       \/ \E i \in Issuers, S \in KeySets : RotateIssuer(i, S)
       \/ Tick
    /\ Watch

Spec == Init /\ [][Next]_vars

-----------------------------------------------------------------------------
\* Properties

RowsTyped ==
    /\ apps \subseteq Apps /\ confidential \in [Apps -> BOOLEAN]
    /\ secrets \subseteq AppSecret /\ keyCreds \subseteq AppKeyCredential
    /\ trusts \subseteq FederatedCredential /\ origins \subseteq Apps \X Origins

TypeOK ==
    /\ pc \in [Clients \cup Writers ->
                 {"new", "client", "secret", "assertion", "trust", "key", "fetch", "store", "verify",
                  "get", "object", "done"}]
    /\ now \in 0..MaxTime
    /\ RowsTyped
    /\ published \in [Issuers -> SUBSET Keys] /\ extKeys \in [Issuers -> SUBSET Keys]
    /\ req \in [Clients -> Request]
    /\ seen \in [Clients -> SUBSET {"public", "secret", "key", "object", "origin", "trusted",
                                    "untrusted", "fresh", "known", "unpublished"}]

Proof(c) == CASE c.kind = "none" -> {"public"}
              [] c.kind = "secret" -> {"secret"}
              [] c.kind = "own" -> {"key"}
              [] c.kind = "object" -> {"origin", "object"}
              [] c.kind = "federated" -> {"trusted", "fresh", "known"}

\* A client is authenticated, or a request object applied, only on a proof
\* that held while the request was served: a secret of that app that was
\* unexpired, a genuine assertion under a key registered for it, or a genuine
\* and unexpired assertion that a federated credential trusted for one of its
\* audiences, under a key its issuer published then or the cache had taken
\* from it before (authenticateClient, fetchRequestObject).
ProvenWhileServed ==
    \A r \in Clients : req[r].answer = "ok" =>
        /\ req[r].cred.good
        /\ Proof(req[r].cred) \subseteq seen[r]

\* grantClientCredentials gives an app-only token to a client that has proven
\* itself, whatever is_confidential was changed to between its two looks.
AppOnlyIsProven ==
    \A r \in Clients :
        req[r].answer = "ok" /\ req[r].flow = "appOnly" => req[r].cred.kind # "none"

\* An external issuer's rotation is picked up without a restart: a workload is
\* told that its key is unknown only if the issuer did not publish the key at
\* some moment of the request, whichever of several fetches came last
\* (issuerKeyCache.get).
PublishedKeyKnown ==
    \A r \in Clients : req[r].answer = "noKey" => "unpublished" \in seen[r]

\* "finds the trust that accepts this assertion's issuer/subject/audience
\* triple": no assertion is refused as unmatched while such a trust exists all
\* along.
TrustHonoured ==
    \A r \in Clients : req[r].answer = "unmatched" => "untrusted" \in seen[r]

-----------------------------------------------------------------------------
\* Inductive strengthenings, checked by TLC and used by the proofs

\* Everything that holds of a request in service has been noticed.
NothingMissed ==
    \A r \in Clients : pc[r] \notin {"new", "done"} => Facts(r) \subseteq seen[r]

\* A request is answered when it is done, and carries what it was given.
ServedInOrder ==
    \A r \in Clients : pc[r] # "done" =>
        /\ req[r].answer = "none"
        /\ req[r].todo \subseteq req[r].cred.auds
        /\ req[r].cred.kind \in {"none", "secret"} => req[r].cred.good

\* The stage of a request is one its credential leads to.
StageFits ==
    \A r \in Clients :
        /\ pc[r] = "client" => req[r].cred.kind # "object"
        /\ pc[r] = "secret" => req[r].cred.kind = "secret"
        /\ pc[r] = "assertion" => req[r].cred.kind = "own"
        /\ pc[r] \in {"trust", "key", "fetch", "store", "verify"} => req[r].cred.kind = "federated"
        /\ pc[r] \in {"get", "object"} => req[r].cred.kind = "object"

\* What a request found out before its present stage held while it was served.
FindingsSeen ==
    \A r \in Clients :
        /\ pc[r] \in {"key", "fetch", "store", "verify"} =>
              "trusted" \in seen[r] /\ req[r].cred.issuer \in Issuers
        /\ pc[r] \in {"get", "object"} => "origin" \in seen[r]
        /\ pc[r] \in {"store", "verify"} =>
              IF req[r].cred.key \in req[r].fetched THEN "known" \in seen[r]
              ELSE "unpublished" \in seen[r]

AuthInv ==
    /\ NothingMissed /\ ServedInOrder /\ StageFits /\ FindingsSeen
    /\ ProvenWhileServed /\ AppOnlyIsProven /\ PublishedKeyKnown
=============================================================================
