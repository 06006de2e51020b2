---------------------------- MODULE SigningKeys -----------------------------
(***************************************************************************)
(* Signing keys: tokens/keys.go, the signer cache and Rotate of            *)
(* tokens/service.go, and the signing_keys statements of store/grants.go.  *)
(*                                                                         *)
(* The active key lives twice: as rows of signing_keys, from which JWKS is *)
(* served and tokens are verified, and as an in-memory signer per tenant,  *)
(* with which tokens are signed.  Rotation changes the two in three        *)
(* separate steps, and SAML and WS-Federation read the rows directly.      *)
(***************************************************************************)
EXTENDS Integers, FiniteSets

CONSTANTS
    Kids,           \* key ids (RFC 7638 thumbprints), each drawn at most once
    Tenants, Home,  \* tenant ids, and the tenant of the configuration
    Rotators,       \* concurrent POST signing-keys/rotate requests
    Signers,        \* concurrent requests that look the active key up
    Graces,         \* the graceSeconds values clients send
    None,
    MayFail,        \* whether generating or storing a key may fail
    AllowKeyReset,  \* whether POST reset is called with resetKeys
    MaxNow          \* bound: the clock shows 0 .. MaxNow

ASSUME SigningKeysAssumptions ==
    /\ Kids # {} /\ None \notin Kids \cup Tenants
    /\ Home \in Tenants
    /\ Rotators \cap Signers = {}
    /\ Graces \subseteq Int
    /\ MayFail \in BOOLEAN /\ AllowKeyReset \in BOOLEAN
    /\ MaxNow \in Nat

VARIABLES
    tenants,    \* the tenants table
    keys,       \* signing_keys
    signer,     \* Service.Signer for Home, Service.tenantSigners for the others
    procs,      \* requests in flight
    now,        \* Store.Now()
    used,       \* history: keys that tokens were signed with
    promised,   \* history: until when a key was to be published as it retired
    faults      \* history: what went wrong since the process started: "overlap"
                \* of two rotations, a generation that "failed", a key "reset"

vars == <<tenants, keys, signer, procs, now, used, promised, faults>>

Procs == Rotators \cup Signers

KeyRow == [status: {"unused", "active", "retired", "deleted"},
           tenant: Tenants \cup {None}, notAfter: Nat]

Process == [pc: {"idle", "ensure", "generate", "swap", "use"}, tenant: Tenants \cup {None},
            kid: Kids \cup {None}, caches: BOOLEAN]

BlankKey == [status |-> "unused", tenant |-> None, notAfter |-> 0]
Idle == [pc |-> "idle", tenant |-> None, kid |-> None, caches |-> FALSE]

Active(k, t) == keys[k].status = "active" /\ keys[k].tenant = t
HasActive(t) == \E k \in Kids : Active(k, t)
Stored(k) == keys[k].status \in {"active", "retired"}

\* VerificationKey finds any row by its kid, of whatever tenant and age.
VerificationKey(k) == Stored(k)

\* ListPublishableKeys: what JWKS serves for a tenant.
JWKS(t) == {k \in Kids : Active(k, t)
                         \/ (keys[k].status = "retired" /\ keys[k].tenant = t /\ keys[k].notAfter > now)}

Finish(p) == procs' = [procs EXCEPT ![p] = Idle]

\* Bound: a request sets out to generate a key only while an id is left for it.
KidLeft ==
    Cardinality({p \in Procs : procs[p].pc = "generate"})
        < Cardinality({k \in Kids : keys[k].status = "unused"})

\* Ids are opaque and drawn once, so in which order makes no difference.
Fresh(k) == keys[k].status = "unused" /\ k = CHOOSE x \in Kids : keys[x].status = "unused"

-----------------------------------------------------------------------------
\* Rotation of the home tenant's key

\* Mutant: the update also reaches keys that were retired earlier.
DemoteStored(k) == Stored(k) /\ keys[k].tenant = Home

\* The rows DemoteActiveSigningKeys touches.
Demoted(k) == Active(k, Home)

\* Rotate's first step: every active key of the tenant retires.
DemoteActiveSigningKeys(p, grace) ==
    /\ procs[p].pc = "idle" /\ KidLeft
    /\ keys' = [k \in Kids |->
                  IF Demoted(k)
                  THEN [keys[k] EXCEPT !.status = "retired", !.notAfter = now + grace]
                  ELSE keys[k]]
    /\ promised' = [k \in Kids |-> IF Active(k, Home) THEN now + grace ELSE promised[k]]
    /\ procs' = [procs EXCEPT ![p] = [Idle EXCEPT !.pc = "generate", !.tenant = Home]]
    /\ faults' = IF \E q \in Rotators : procs[q].pc # "idle" THEN faults \cup {"overlap"} ELSE faults
    /\ UNCHANGED <<tenants, signer, now, used>>

\* The handler refuses a negative grace period, and calls Rotate.
rotateSigningKey(p) == \E grace \in Graces : grace >= 0 /\ DemoteActiveSigningKeys(p, grace)

\* Mutant: a key is used although storing it failed.
GenerateIgnoringFailure(p) ==
    LET q == procs[p] IN
    /\ q.pc = "generate"
    /\ \E k \in Kids :
          /\ Fresh(k)
          /\ \/ keys' = [keys EXCEPT ![k] = [status |-> "active", tenant |-> q.tenant, notAfter |-> 0]]
             \/ MayFail /\ UNCHANGED keys
          /\ procs' = [procs EXCEPT ![p] =
                         [q EXCEPT !.pc = IF p \in Rotators THEN "swap" ELSE "use", !.kid = k]]
    /\ UNCHANGED <<tenants, signer, now, used, promised, faults>>

\* Mutant: the fresh key is stored without is_active.
GenerateInactive(p) ==
    LET q == procs[p] IN
    /\ q.pc = "generate"
    /\ \E k \in Kids :
          /\ Fresh(k)
          /\ keys' = [keys EXCEPT ![k] = [status |-> "retired", tenant |-> q.tenant, notAfter |-> 0]]
          /\ procs' = [procs EXCEPT ![p] =
                         [q EXCEPT !.pc = IF p \in Rotators THEN "swap" ELSE "use", !.kid = k]]
    /\ UNCHANGED <<tenants, signer, now, used, promised, faults>>

\* generateAndActivate: a fresh key is stored as active, without asking whether
\* another one is. The insert fails when the tenant is gone.
generateAndActivate(p) ==
    LET q == procs[p] IN
    /\ q.pc = "generate"
    /\ \/ /\ tenants[q.tenant] = "present"
          /\ \E k \in Kids :
                /\ Fresh(k)
                /\ keys' = [keys EXCEPT ![k] = [status |-> "active", tenant |-> q.tenant, notAfter |-> 0]]
                /\ procs' = [procs EXCEPT ![p] =
                               [q EXCEPT !.pc = IF p \in Rotators THEN "swap" ELSE "use", !.kid = k]]
          /\ UNCHANGED faults
       \/ /\ MayFail \/ tenants[q.tenant] # "present"
          /\ Finish(p)
          /\ faults' = faults \cup {"failed"}
          /\ UNCHANGED keys
    /\ UNCHANGED <<tenants, signer, now, used, promised>>

\* Rotate's last step, under signerMu.
SwapSigner(p) ==
    /\ procs[p].pc = "swap"
    /\ signer' = [signer EXCEPT ![Home] = procs[p].kid]
    /\ Finish(p)
    /\ UNCHANGED <<tenants, keys, now, used, promised, faults>>

-----------------------------------------------------------------------------
\* Looking the active key up

\* Mutant: any stored key will do.
LoadStored(t) == {k \in Kids : Stored(k) /\ keys[k].tenant = t}

\* GetActiveSigningKey: LIMIT 1 without an order, so any active row.
GetActiveSigningKey(t) == {k \in Kids : Active(k, t)}

\* signerForTenant (caches) returns the cached signer or calls EnsureActiveKey
\* and caches the result; SAML and WS-Federation call EnsureActiveKey for every
\* tenant and use the result once.
EnsureActiveKey(p, t, caches) ==
    /\ \/ procs[p].pc = "idle" /\ tenants[t] = "present"
       \/ procs[p].pc = "ensure" /\ procs[p].tenant = t /\ caches
    /\ \/ /\ caches /\ signer[t] # None
          /\ Finish(p)
       \/ /\ caches => signer[t] = None
          /\ \E k \in GetActiveSigningKey(t) :
                procs' = [procs EXCEPT ![p] =
                            [pc |-> "use", tenant |-> t, kid |-> k, caches |-> caches]]
       \/ /\ caches => signer[t] = None
          /\ GetActiveSigningKey(t) = {} /\ KidLeft
          /\ procs' = [procs EXCEPT ![p] =
                         [pc |-> "generate", tenant |-> t, kid |-> None, caches |-> caches]]
    /\ UNCHANGED <<tenants, keys, signer, now, used, promised, faults>>

\* The key that was found or made is cached if asked, and signs.
UseKey(p) ==
    LET q == procs[p] IN
    /\ q.pc = "use"
    /\ signer' = IF q.caches THEN [signer EXCEPT ![q.tenant] = q.kid] ELSE signer
    /\ used' = used \cup {q.kid}
    /\ Finish(p)
    /\ UNCHANGED <<tenants, keys, now, promised, faults>>

\* signTenant: the cached signer, or the tenant's key cached on the way.
signTenant(p, t) == EnsureActiveKey(p, t, TRUE)

\* handleJWKS does the same for every tenant but its own before it lists the
\* keys; here the key counts as used, although JWKS signs nothing.
handleJWKS(p, t) == t # Home /\ EnsureActiveKey(p, t, TRUE)

\* sign and signTenant with the in-memory signer.
Sign(t) ==
    /\ tenants[t] = "present"
    /\ signer[t] # None
    /\ used' = used \cup {signer[t]}
    /\ UNCHANGED <<tenants, keys, signer, procs, now, promised, faults>>

-----------------------------------------------------------------------------
\* Tenants, reset, clock, restart

\* createTenant: the row, then the same request goes on to signerForTenant.
CreateTenant(p, t) ==
    /\ procs[p].pc = "idle"
    /\ tenants[t] = "absent"
    /\ tenants' = [tenants EXCEPT ![t] = "present"]
    /\ procs' = [procs EXCEPT ![p] = [pc |-> "ensure", tenant |-> t, kid |-> None, caches |-> TRUE]]
    /\ UNCHANGED <<keys, signer, now, used, promised, faults>>

\* DeleteTenant drops the tenant's keys; the cached signer stays.
DeleteTenant(t) ==
    /\ t # Home
    /\ tenants[t] = "present"
    /\ tenants' = [tenants EXCEPT ![t] = "deleted"]
    /\ keys' = [k \in Kids |->
                  IF Stored(k) /\ keys[k].tenant = t THEN [keys[k] EXCEPT !.status = "deleted"]
                  ELSE keys[k]]
    /\ UNCHANGED <<signer, procs, now, used, promised, faults>>

\* Reset with resetKeys empties signing_keys; no signer is told.
Reset ==
    /\ AllowKeyReset
    /\ keys' = [k \in Kids |->
                  IF Stored(k) THEN [keys[k] EXCEPT !.status = "deleted"] ELSE keys[k]]
    /\ faults' = faults \cup {"reset"}
    /\ UNCHANGED <<tenants, signer, procs, now, used, promised>>

SetClock(n) ==
    /\ now' = n
    /\ UNCHANGED <<tenants, keys, signer, procs, used, promised, faults>>

\* Start-up runs EnsureActiveKey for the home tenant before serving requests.
Restart ==
    /\ \E k \in Kids :
          /\ \/ k \in GetActiveSigningKey(Home) /\ UNCHANGED keys
             \/ /\ GetActiveSigningKey(Home) = {}
                /\ Fresh(k)
                /\ keys' = [keys EXCEPT ![k] = [status |-> "active", tenant |-> Home, notAfter |-> 0]]
          /\ signer' = [t \in Tenants |-> IF t = Home THEN k ELSE None]
    /\ procs' = [p \in Procs |-> Idle]
    /\ faults' = {}
    /\ UNCHANGED <<tenants, now, used, promised>>

-----------------------------------------------------------------------------
\* The first boot: one key, which the home tenant signs with.
Init ==
    /\ tenants = [t \in Tenants |-> IF t = Home THEN "present" ELSE "absent"]
    /\ LET k0 == CHOOSE k \in Kids : TRUE
       IN /\ keys = [k \in Kids |->
                       IF k = k0 THEN [status |-> "active", tenant |-> Home, notAfter |-> 0]
                       ELSE BlankKey]
          /\ signer = [t \in Tenants |-> IF t = Home THEN k0 ELSE None]
    /\ procs = [p \in Procs |-> Idle]
    /\ now = 0
    /\ used = {}
    /\ promised = [k \in Kids |-> 0]
    /\ faults = {}

Step(p) == generateAndActivate(p) \/ SwapSigner(p) \/ UseKey(p)

Next ==
    \/ \E p \in Rotators : rotateSigningKey(p)
    \/ \E p \in Signers, t \in Tenants :
          \/ EnsureActiveKey(p, t, FALSE)
          \/ signTenant(p, t)
          \/ handleJWKS(p, t)
          \/ CreateTenant(p, t)
    \/ \E p \in Procs : Step(p)
    \/ \E t \in Tenants : Sign(t) \/ DeleteTenant(t)
    \/ Reset
    \/ \E n \in 0..MaxNow : SetClock(n)
    \/ Restart

Spec == Init /\ [][Next]_vars

\* A request that started runs to its end.
FairSpec == Spec /\ \A p \in Procs : WF_vars(Step(p))

-----------------------------------------------------------------------------
\* Properties

TypeOK ==
    /\ tenants \in [Tenants -> {"absent", "present", "deleted"}]
    /\ keys \in [Kids -> KeyRow]
    /\ signer \in [Tenants -> Kids \cup {None}]
    /\ signer[Home] # None
    /\ procs \in [Procs -> Process]
    /\ \A p \in Procs :
          /\ procs[p].pc # "idle" => procs[p].tenant \in Tenants
          /\ procs[p].pc \in {"swap", "use"} => procs[p].kid \in Kids
    /\ now \in 0..MaxNow
    /\ used \subseteq Kids
    /\ promised \in [Kids -> Nat]
    /\ faults \subseteq {"overlap", "failed", "reset"}

\* A retired key is published exactly until the end of the grace period of the
\* rotation that retired it: no later rotation, concurrent or not, shortens or
\* extends it (DemoteActiveSigningKeys, ListPublishableKeys).
GraceHonoured ==
    \A k \in Kids : keys[k].status = "retired" =>
        (k \in JWKS(keys[k].tenant) <=> now < promised[k])

\* Whatever rotations, look-ups and failures overlap, no token is signed with a
\* key that was not stored before, and only the deletion of the tenant or a key
\* reset takes the row away again, so the emulator's own APIs can verify it
\* (generateAndActivate stores before anyone signs; VerificationKey).
SignedTokensVerify ==
    \A k \in used :
        \/ VerificationKey(k)
        \/ keys[k].status = "deleted" /\ (tenants[keys[k].tenant] = "deleted" \/ AllowKeyReset)

\* With no rotation under way, the home tenant signs with an active key: the
\* in-memory signer and the table agree, as long as rotations did not overlap,
\* no key generation failed and the keys were not reset (Rotate).
SignerActive ==
    (faults = {} /\ \A p \in Rotators : procs[p].pc = "idle") => Active(signer[Home], Home)

\* The time without an active key that Rotate opens comes to an end, unless the
\* generation fails or the keys are reset (Rotate, EnsureActiveKey).
ActiveKeyReturns ==
    (~HasActive(Home) /\ faults \subseteq {"overlap"}) ~> (HasActive(Home) \/ faults \cap {"failed", "reset"} # {})

-----------------------------------------------------------------------------
\* Inductive strengthenings, checked by TLC and used by the proofs

\* A retired row carries the end of the grace period of its own rotation.
RetiredAsPromised == \A k \in Kids : keys[k].status = "retired" => keys[k].notAfter = promised[k]

\* Whoever holds a key holds one that was stored, and rows go only with their
\* tenant or in a reset.
HeldKeysStored ==
    /\ \A k \in used : keys[k].status # "unused"
    /\ \A t \in Tenants : signer[t] # None => keys[signer[t]].status # "unused"
    /\ \A p \in Procs : procs[p].pc \in {"swap", "use"} => keys[procs[p].kid].status # "unused"
    /\ \A k \in Kids : keys[k].status # "unused" => keys[k].tenant \in Tenants
    /\ \A k \in Kids : keys[k].status = "deleted" => tenants[keys[k].tenant] = "deleted" \/ AllowKeyReset

\* Rotators work for the home tenant, and no one else replaces its signer.
RotatorsOwnHome ==
    /\ tenants[Home] = "present"
    /\ \A p \in Procs : procs[p].pc \in {"generate", "use"} /\ procs[p].caches => procs[p].tenant # Home
    /\ \A p \in Rotators : procs[p].pc \in {"idle", "generate", "swap"}
                           /\ (procs[p].pc # "idle" => procs[p].tenant = Home)
    /\ \A p \in Signers : procs[p].pc # "swap"

\* Without faults rotations take turns, and the one under way ends with an
\* active key.
RotationsTakeTurns ==
    faults = {} =>
        /\ \A p, q \in Rotators : (procs[p].pc # "idle" /\ procs[q].pc # "idle") => p = q
        /\ \A p \in Rotators : procs[p].pc = "swap" => Active(procs[p].kid, Home)

KeyInv ==
    /\ TypeOK /\ RetiredAsPromised /\ HeldKeysStored
    /\ RotatorsOwnHome /\ RotationsTakeTurns /\ SignerActive
=============================================================================
