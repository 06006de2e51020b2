----------------------------- MODULE Lifetimes ------------------------------
(***************************************************************************)
(* Token lifetime policies (store/tokenlifetime.go, graph/tokenlifetime.go)*)
(* and the lifetime a token gets from them (tokens/service.go).  A policy  *)
(* is what parsePolicyLifetimes reads from its definition: the seconds of  *)
(* an access and of an ID token, 0 for a lifetime it does not set.         *)
(*                                                                         *)
(* The clock can be frozen and set back, so created_at of a new policy may *)
(* be any second, also one that another policy has.                        *)
(***************************************************************************)
EXTENDS Tenant

CONSTANTS
    Definitions,    \* [access, id, refresh] lifetimes a policy may set
    Seconds,        \* bound: the values of created_at
    OldPolicies,    \* policies from before
    Configured      \* Cfg.Lifetimes, which sets all three

Policy == [id: Ids, def: Definitions, default: BOOLEAN, at: Seconds]

ASSUME LifetimesAssumptions ==
    /\ Definitions \subseteq [access: Nat, id: Nat, refresh: Nat]
    /\ Seconds \subseteq Nat
    /\ OldPolicies \subseteq Policy
    /\ Configured \in [access: Nat \ {0}, id: Nat \ {0}, refresh: Nat \ {0}]

VARIABLES
    policies,   \* token_lifetime_policies
    inForce     \* app_token_lifetime_policies: pairs of app and policy

lifetimeVars == <<policies, inForce>>

PolicyIds == {p.id : p \in policies}

LifetimesTypeOK ==
    /\ policies \subseteq Policy
    /\ inForce \subseteq Apps \X Ids

LifetimesInit == policies = OldPolicies /\ inForce = {}

\* The statements of store/tokenlifetime.go; policy_id cascades.
CreateTokenLifetimePolicy(p) == policies \cup {p}
DeleteTokenLifetimePolicy(id) == {p \in policies : p.id # id}
InForceWithout(id) == {x \in inForce : x[2] # id}

\* EffectiveFromPolicy of createTLP: a definition without any lifetime is
\* refused.
SetsSomething(def) == def.access + def.id + def.refresh > 0

CreateTLP(r, def, default, at) ==
    /\ Serve(r)
    /\ SetsSomething(def)
    /\ policies' = CreateTokenLifetimePolicy([id |-> r, def |-> def,
                                              default |-> default, at |-> at])
    /\ UNCHANGED inForce

DeleteTLP(r, id) ==
    /\ Serve(r)
    /\ id \in PolicyIds
    /\ policies' = DeleteTokenLifetimePolicy(id)
    /\ inForce' = InForceWithout(id)

\* Mutant: an assignment is added to the ones the app has.
AssignAlso(a, id) == inForce \cup {<<a, id>>}

\* The transaction of AssignTokenLifetimePolicy
Reassigned(a, id) == {x \in inForce : x[1] # a} \cup {<<a, id>>}

\* assignTLP: the foreign keys refuse what its look-ups would.
AssignTLP(r, a, id) ==
    /\ Serve(r)
    /\ a \in apps /\ id \in PolicyIds
    /\ inForce' = Reassigned(a, id)
    /\ UNCHANGED policies

UnassignTLP(r, x) ==
    /\ Serve(r)
    /\ x \in inForce
    /\ inForce' = inForce \ {x}
    /\ UNCHANGED policies

\* The cascade of app_id when an app is deleted; a restore does not undo it.
LifetimesDropApp(a) ==
    /\ inForce' = {x \in inForce : x[1] # a}
    /\ UNCHANGED policies

-----------------------------------------------------------------------------
\* EffectiveTokenLifetimes, with the definition it parses

\* AppTokenLifetimePolicies, in no order: the first row it returns counts.
AppPolicies(a) == {p \in policies : <<a, p.id>> \in inForce}
AssignedLifetimes(a) == {p.def : p \in AppPolicies(a)}

\* ListTokenLifetimePolicies is ordered by created_at: the first organization
\* default is an oldest one, and of several any one.
Defaults == {p \in policies : p.default}
OldestDefaults == {p \in Defaults : \A q \in Defaults : p.at <= q.at}
Unset == [access |-> 0, id |-> 0, refresh |-> 0]
DefaultLifetimes == IF Defaults = {} THEN {Unset} ELSE {p.def : p \in OldestDefaults}

\* lifetimesFor: the policy, or where it sets nothing the configuration
LifetimeFrom(def, kind) ==
    IF kind = "id" THEN IF def.id > 0 THEN def.id ELSE Configured.id
    ELSE IF def.access > 0 THEN def.access ELSE Configured.access

-----------------------------------------------------------------------------

LifetimesNext ==
    \E r \in Writers :
        \/ \E d \in Definitions, default \in BOOLEAN, at \in Seconds : CreateTLP(r, d, default, at)
        \/ \E id \in PolicyIds : DeleteTLP(r, id)
        \/ \E a \in Apps, id \in PolicyIds : AssignTLP(r, a, id)
        \/ \E x \in inForce : UnassignTLP(r, x)
=============================================================================
