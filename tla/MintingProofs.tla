--------------------------- MODULE MintingProofs ----------------------------
(***************************************************************************)
(* Proofs about Minting: every claim of a token agrees with the tables of  *)
(* some moment of its request, for any number of requests that mint and    *)
(* any number that change the tables.                                      *)
(*                                                                         *)
(* MintingInv says at every statement of a request what its claims so far  *)
(* owe to the history seen, and that seen holds what is in force now: a    *)
(* statement then reads a value that seen has, and seen only grows while   *)
(* the token is being minted.                                              *)
(***************************************************************************)
EXTENDS Minting, FiniteSetTheorems, TLAPS

-----------------------------------------------------------------------------
\* What the requests read

\* The consented scopes are the ones the grants allow (ConsentedScopes).
LEMMA ScpIsNow ==
    ASSUME NEW c, NEW a, NEW u, NEW S
    PROVE  Scp(c, a, u, S) = ScopesNow(c, a, u, S)
<1>1. CASE HasGrant(c, a)
  BY <1>1 DEF Scp, HasGrant, ConsentedScopes, ScopesNow
<1>2. CASE ~HasGrant(c, a)
  BY <1>2 DEF Scp, HasGrant, ScopesNow
<1> QED BY <1>1, <1>2

LEMMA HasIsNow ==
    ASSUME NEW c, NEW a
    PROVE  HasAssignment(c, a) <=> AssignedNow(c, a) # {}
  BY DEF HasAssignment, AssignedNow

\* Assigned roles, if they are the resource's own, and without an assignment
\* its enabled roles are what the tables give the pair (AssignedAppRoleValues).
LEMMA RolesAreNow ==
    ASSUME ConsentTypeOK, NEW c, NEW a
    PROVE  /\ HasAssignment(c, a) => \/ ForeignNow(c, a)
                                     \/ AssignedAppRoleValues(c, a) = RolesNow(c, a)
           /\ ~HasAssignment(c, a) => EnabledAppRoleValues(a) = RolesNow(c, a)
           /\ EnabledAppRoleValues(a) = ManagedNow(a)
           /\ a \notin apps => ManagedNow(a) = {}
<1>1. \A x \in appRoles : x.value \in RoleValues
  BY DEF ConsentTypeOK, AppRole
<1>2. \A x : x \in LiveRoles <=> x \in appRoles /\ x.app \in apps
  BY DEF LiveRoles, ListRoles
<1>3. ASSUME HasAssignment(c, a), ~ForeignNow(c, a)
      PROVE AssignedAppRoleValues(c, a) = RolesNow(c, a)
  <2>1. AssignedNow(c, a) # {}
    BY <1>3, HasIsNow
  <2>2. \A x : x \in AssignedNow(c, a) <=> \E z \in assigns : z.principal = c /\ z.resource = a /\ z.role = x
    BY DEF AssignedNow
  <2>3. \A x \in LiveRoles : x.id \in AssignedNow(c, a) => x.app = a /\ a \in apps
    BY <1>2, <1>3 DEF ForeignNow
  <2>4. AssignedAppRoleValues(c, a) =
            {x.value : x \in {y \in LiveRoles : y.id \in AssignedNow(c, a)}}
    BY <2>2 DEF AssignedAppRoleValues
  <2> QED BY <1>1, <1>2, <2>1, <2>3, <2>4 DEF RolesNow
<1>4. ASSUME ~HasAssignment(c, a) PROVE EnabledAppRoleValues(a) = RolesNow(c, a)
  <2>1. AssignedNow(c, a) = {}
    BY <1>4, HasIsNow
  <2> QED BY <1>1, <1>2, <2>1 DEF EnabledAppRoleValues, RolesNow
<1>5. EnabledAppRoleValues(a) = ManagedNow(a)
  BY <1>1, <1>2 DEF EnabledAppRoleValues, ManagedNow
<1>6. a \notin apps => ManagedNow(a) = {}
  BY DEF ManagedNow
<1> QED BY <1>3, <1>4, <1>5, <1>6

\* The wids that are read are the user's tenant-wide built-in roles, and roles
\* that were deleted (TenantWideRoleTemplateIDs).
LEMMA WidsAreNow ==
    ASSUME RolesTypeOK, RolesKnown, NEW u
    PROVE  /\ TenantWideRoleTemplateIDs(u) \subseteq BuiltIn \cup deletedDefs
           /\ TenantWideRoleTemplateIDs(u) \cap BuiltIn = WidsNow(u)
           /\ TenantWideRoleTemplateIDs(u) \subseteq BuiltIn \cup Ids
<1>1. DefIds \cap BuiltIn = {}
  BY RolesAssumptions DEF RolesTypeOK, RoleDef, DefIds
<1>2. \A x : x \in TenantWideRoleTemplateIDs(u) <=>
                 /\ \E a \in roleAssigns : a.role = x /\ a.principal = u /\ a.scope = Everywhere
                 /\ x \notin DefIds
  BY DEF TenantWideRoleTemplateIDs
<1>3. \A a \in roleAssigns : a.role \in BuiltIn \cup DefIds \cup deletedDefs
  BY DEF RolesKnown
<1>4. deletedDefs \subseteq Ids
  BY DEF RolesTypeOK
<1> QED BY <1>1, <1>2, <1>3, <1>4 DEF WidsNow

LEMMA MeansWhatItSays ==
    ASSUME NEW def \in [access: Nat, id: Nat, refresh: Nat], NEW k
    PROVE  LifetimeFrom(def, k) = Means(def, k) /\ LifetimeFrom(def, k) \in Nat
<1>1. def.access \in Nat /\ def.id \in Nat /\ Configured.access \in Nat /\ Configured.id \in Nat
  BY LifetimesAssumptions
<1> QED BY <1>1 DEF LifetimeFrom, Means

\* The lifetime that is read is that of an assigned policy or of an oldest
\* default (EffectiveTokenLifetimes, lifetimesFor).
LEMMA LifetimesAreNow ==
    ASSUME LifetimesTypeOK, NEW c, NEW k
    PROVE  /\ \A def \in AssignedLifetimes(c) :
                  LifetimeFrom(def, k) \in OwnNow(c, k) /\ LifetimeFrom(def, k) \in Nat
           /\ AssignedLifetimes(c) = {} => OwnNow(c, k) = {}
           /\ \A def \in DefaultLifetimes :
                  LifetimeFrom(def, k) \in DefaultNow(k) /\ LifetimeFrom(def, k) \in Nat
<1>1. \A p \in policies : p.def \in [access: Nat, id: Nat, refresh: Nat] /\ p.at \in Nat /\ p.default \in BOOLEAN
  BY LifetimesAssumptions DEF LifetimesTypeOK, Policy
<1>2. \A p \in policies : LifetimeFrom(p.def, k) = Means(p.def, k) /\ LifetimeFrom(p.def, k) \in Nat
  BY <1>1, MeansWhatItSays
<1>3. ASSUME NEW def \in AssignedLifetimes(c)
      PROVE  LifetimeFrom(def, k) \in OwnNow(c, k) /\ LifetimeFrom(def, k) \in Nat
  <2>1. PICK p \in policies : <<c, p.id>> \in inForce /\ def = p.def
    BY <1>3 DEF AssignedLifetimes, AppPolicies
  <2> QED BY <1>2, <2>1 DEF OwnNow
<1>4. AssignedLifetimes(c) = {} => OwnNow(c, k) = {}
  BY DEF AssignedLifetimes, AppPolicies, OwnNow
<1>5. ASSUME NEW def \in DefaultLifetimes
      PROVE  LifetimeFrom(def, k) \in DefaultNow(k) /\ LifetimeFrom(def, k) \in Nat
  <2>1. CASE Defaults = {}
    <3>1. def = Unset
      BY <2>1, <1>5 DEF DefaultLifetimes
    <3>2. \A p \in policies : ~p.default
      BY <2>1 DEF Defaults
    <3>3. LifetimeFrom(def, k) = IF k = "id" THEN Configured.id ELSE Configured.access
      BY <3>1 DEF Unset, LifetimeFrom
    <3>4. Configured.access \in Nat /\ Configured.id \in Nat
      BY LifetimesAssumptions
    <3> QED BY <3>2, <3>3, <3>4 DEF DefaultNow
  <2>2. CASE Defaults # {}
    <3>1. PICK p \in policies : /\ p.default /\ def = p.def
                                /\ \A q \in policies : q.default => p.at <= q.at
      BY <2>2, <1>5 DEF DefaultLifetimes, OldestDefaults, Defaults
    <3>2. ~\E older \in policies : older.default /\ older.at < p.at
      BY <1>1, <3>1
    <3>3. Means(p.def, k) \in DefaultNow(k)
      BY <3>1, <3>2 DEF DefaultNow
    <3> QED BY <1>2, <3>1, <3>3
  <2> QED BY <2>1, <2>2
<1> QED BY <1>3, <1>4, <1>5

-----------------------------------------------------------------------------
\* What the history does

LEMMA NewTyped ==
    /\ AnApp \in Apps /\ NoMint \in Mint /\ NoMint.kind = "none"
    /\ \A c \in ClaimConfigs, a \in Apps : NewToken(c, a) \in Token
    /\ NoToken \in Token /\ Nothing \in Seen
<1>1. AnApp \in Apps
  BY MintingAssumptions DEF AnApp
<1>2. "None" \in ClaimConfigs
  BY MintingAssumptions
<1>3. NoMint \in Mint /\ NoMint.kind = "none"
  BY <1>1, <1>2 DEF NoMint, Mint
<1>4. \A c \in ClaimConfigs, a \in Apps : NewToken(c, a) \in Token
  BY DEF NewToken, Token
<1>5. Nothing \in Seen
  BY DEF Nothing, Seen
<1> QED BY <1>1, <1>2, <1>3, <1>4, <1>5 DEF NoToken

LEMMA CurrentTyped ==
    ASSUME NEW r, (mint[r] \in Mint)', LifetimesTypeOK'
    PROVE  Current(mint[r])' \in Seen
<1>1. \A p \in policies' : p.def \in [access: Nat, id: Nat, refresh: Nat]
  BY LifetimesAssumptions DEF LifetimesTypeOK, Policy
<1>2. \A p \in policies' : \A k : Means(p.def, k) \in Nat
  BY <1>1, MeansWhatItSays
<1>3. Configured.access \in Nat /\ Configured.id \in Nat
  BY LifetimesAssumptions
<1>4. (OwnNow(mint[r].client, mint[r].kind) \subseteq Nat)'
  BY <1>2 DEF OwnNow
<1>5. (DefaultNow(mint[r].kind) \subseteq Nat)'
  BY <1>2, <1>3 DEF DefaultNow
<1>6. (ScopesNow(mint[r].client, IF mint[r].aud = Graph THEN mint[r].client ELSE mint[r].aud,
                 mint[r].user, mint[r].scopes) \in SUBSET Scopes)'
  BY DEF ScopesNow, Mint
<1>7. (RolesNow(mint[r].client, mint[r].aud) \in SUBSET RoleValues)' /\ (ManagedNow(mint[r].aud) \in SUBSET RoleValues)'
  BY DEF RolesNow, ManagedNow
<1>8. (GroupsNow(mint[r].user) \in SUBSET Groups)' /\ (WidsNow(mint[r].user) \in SUBSET BuiltIn)'
  BY DEF GroupsNow, WidsNow
<1>9. /\ (Answer(mint[r].kind = "app" /\ AssignedNow(mint[r].client, mint[r].aud) # {}) \in SUBSET {"some", "none"})'
      /\ (Answer(OwnNow(mint[r].client, mint[r].kind) # {}) \in SUBSET {"some", "none"})'
  BY DEF Answer
<1>10. ({x \in {"foreign"} : mint[r].kind = "app" /\ ForeignNow(mint[r].client, mint[r].aud)} \in
            SUBSET {"some", "none", "foreign"})'
  OBVIOUS
<1> QED BY <1>4, <1>5, <1>6, <1>7, <1>8, <1>9, <1>10 DEF Current, Seen

LEMMA CoversSelf == \A s : Covers(s, s)
  BY DEF Covers

\* The history after a step: it holds what is in force then, and what it held
\* before while the same token is being minted.
LEMMA WatchCovers ==
    ASSUME Watch, NEW r \in Minters, Active(r)'
    PROVE  /\ Covers(seen'[r], Current(mint[r])')
           /\ Active(r) /\ mint'[r].kind = mint[r].kind => Covers(seen'[r], seen[r])
<1> DEFINE now == Current(mint[r])'
<1>1. seen'[r] = IF Active(r) /\ mint[r].kind = mint'[r].kind THEN Join(seen[r], now) ELSE now
  BY DEF Watch
<1> HIDE DEF now
<1>2. Covers(Join(seen[r], now), now) /\ Covers(Join(seen[r], now), seen[r])
  BY DEF Join, Covers
<1>3. Covers(seen'[r], now)
  BY <1>1, <1>2, CoversSelf
<1>4. Active(r) /\ mint'[r].kind = mint[r].kind => Covers(seen'[r], seen[r])
  BY <1>1, <1>2
<1> QED BY <1>3, <1>4 DEF now

LEMMA JoinTyped ==
    ASSUME NEW s \in Seen, NEW t \in Seen
    PROVE  Join(s, t) \in Seen
  BY DEF Join, Seen

LEMMA WatchTyped ==
    ASSUME Watch, seen \in [Minters -> Seen], mint' \in [Minters -> Mint], LifetimesTypeOK'
    PROVE  seen' \in [Minters -> Seen]
<1> SUFFICES ASSUME NEW r \in Minters
             PROVE  (IF ~Active(r)' THEN Nothing
                     ELSE IF Active(r) /\ mint[r].kind = mint'[r].kind
                     THEN Join(seen[r], Current(mint[r])')
                     ELSE Current(mint[r])') \in Seen
  BY DEF Watch
<1>1. Current(mint[r])' \in Seen
  BY CurrentTyped
<1>2. Join(seen[r], Current(mint[r])') \in Seen
  BY <1>1, JoinTyped
<1> QED BY <1>1, <1>2, NewTyped

-----------------------------------------------------------------------------
\* Agreement with a growing history

LEMMA AllowedGrows ==
    ASSUME NEW s, NEW s2, Covers(s2, s)
    PROVE  Allowed(s) \subseteq Allowed(s2)
  BY DEF Allowed, Covers

LEMMA AgreementLasts ==
    ASSUME NEW l, NEW m, NEW t, NEW s, NEW s2, NEW d, NEW d2,
           Agrees(l, m, t, s, d), Covers(s2, s), d \subseteq d2
    PROVE  Agrees(l, m, t, s2, d2)
<1>1. ScopesAgree(l, m, t, s2)
  BY DEF Agrees, ScopesAgree, Covers
<1>2. RolesAgree(l, m, t, s2)
  BY DEF Agrees, RolesAgree, Covers
<1>3. GroupsAgree(l, m, t, s2)
  BY DEF Agrees, GroupsAgree, Covers
<1>4. WidsAgree(l, m, t, s2, d2)
  BY DEF Agrees, WidsAgree, Covers
<1>5. LifetimesAgree(l, m, t, s2)
  BY AllowedGrows DEF Agrees, LifetimesAgree, Covers
<1> QED BY <1>1, <1>2, <1>3, <1>4, <1>5 DEF Agrees

\* At its first statements a request owes nothing to the history.
Fresh == {"new", "done", "resolve", "lifetime", "assigned", "managed"}

LEMMA FreshAgrees ==
    ASSUME NEW l \in Fresh, NEW m, NEW t, NEW s, NEW d, ResourceKnown(l, m, t), Unread(l, t)
    PROVE  Agrees(l, m, t, s, d)
<1>1. ScopesAgree(l, m, t, s) /\ RolesAgree(l, m, t, s)
  BY DEF ScopesAgree, RolesAgree, Fresh
<1>2. GroupsAgree(l, m, t, s) /\ WidsAgree(l, m, t, s, d)
  BY DEF GroupsAgree, WidsAgree, Fresh
<1>3. LifetimesAgree(l, m, t, s)
  BY DEF LifetimesAgree, Fresh
<1> QED BY <1>1, <1>2, <1>3 DEF Agrees

\* A request that does not move keeps agreeing.
LEMMA OthersAgree ==
    ASSUME MintingInv, Watch, NEW r \in Minters, deletedDefs \subseteq deletedDefs',
           pc'[r] = pc[r], mint'[r] = mint[r], token'[r] = token[r]
    PROVE  (Agrees(pc[r], mint[r], token[r], seen[r], deletedDefs))'
<1>1. Agrees(pc[r], mint[r], token[r], seen[r], deletedDefs)
  BY DEF MintingInv, ClaimsAgree
<1>2. CASE Active(r)
  <2>1. Active(r)'
    BY <1>2 DEF Active
  <2>2. Covers(seen'[r], seen[r])
    BY <1>2, <2>1, WatchCovers
  <2> QED BY <1>1, <2>2, AgreementLasts
<1>3. CASE ~Active(r)
  <2>1. pc[r] \in Fresh
    BY <1>3 DEF MintingInv, TypeOK, Stages, Active, Fresh
  <2>2. ResourceKnown(pc[r], mint[r], token[r]) /\ Unread(pc[r], token[r])
    BY <1>1 DEF Agrees
  <2> QED BY <2>1, <2>2, FreshAgrees
<1> QED BY <1>2, <1>3

-----------------------------------------------------------------------------
\* Requests that change the tables

\* What is left to show of such a step
LEMMA WriterKeeps ==
    ASSUME MintingInv, Watch, UNCHANGED <<mint, token>>,
           pc' \in [Requests -> Labels], \A x \in Minters : pc'[x] = pc[x],
           TenantTypeOK', ConsentTypeOK', RolesTypeOK', LifetimesTypeOK',
           (gmc \in [Apps -> ClaimConfigs])',
           RolesKnown', OnePolicyEach', deletedDefs \subseteq deletedDefs'
    PROVE  MintingInv'
<1>1. seen' \in [Minters -> Seen]
  <2>1. seen \in [Minters -> Seen] /\ mint' \in [Minters -> Mint]
    BY DEF MintingInv, TypeOK
  <2> QED BY <2>1, WatchTyped
<1>2. TypeOK'
  <2>1. mint' \in [Minters -> Mint] /\ token' \in [Minters -> Token]
    BY DEF MintingInv, TypeOK
  <2>2. (\A r \in Minters : pc[r] \in Stages(mint[r].kind))'
    <3>1. \A r \in Minters : pc[r] \in Stages(mint[r].kind)
      BY DEF MintingInv, TypeOK
    <3> QED BY <3>1
  <2> QED BY <1>1, <2>1, <2>2 DEF TypeOK
<1>3. ClaimsAgree'
  <2> SUFFICES ASSUME NEW r \in Minters
               PROVE  /\ (Agrees(pc[r], mint[r], token[r], seen[r], deletedDefs))'
                      /\ (Active(r) => Covers(seen[r], Current(mint[r])))'
    BY DEF ClaimsAgree
  <2>1. (Agrees(pc[r], mint[r], token[r], seen[r], deletedDefs))'
    BY OthersAgree
  <2>2. Active(r)' => Covers(seen'[r], Current(mint[r])')
    BY WatchCovers
  <2> QED BY <2>1, <2>2
<1> QED BY <1>2, <1>3 DEF MintingInv

LEMMA MoveMoves ==
    ASSUME MintingInv, NEW r \in Writers, NEW l \in Labels, pc' = [pc EXCEPT ![r] = l]
    PROVE  /\ pc' \in [Requests -> Labels] /\ \A x \in Minters : pc'[x] = pc[x]
           /\ \A x \in Writers : pc'[x] = IF x = r THEN l ELSE pc[x]
<1>1. pc \in [Requests -> Labels] /\ r \in Requests /\ Writers \subseteq Requests /\ Minters \subseteq Requests
  BY DEF MintingInv, TypeOK, Requests
<1>2. r \notin Minters
  BY TenantAssumptions
<1> QED BY <1>1, <1>2

\* A handler of one statement moves its own request to the end.
LEMMA ServeMoves ==
    ASSUME MintingInv, NEW r \in Writers, Serve(r)
    PROVE  /\ pc' \in [Requests -> Labels] /\ \A x \in Minters : pc'[x] = pc[x]
           /\ \A x \in Writers : pc'[x] = pc[x] \/ pc'[x] = "done"
<1>1. "done" \in Labels
  BY DEF Labels
<1>2. pc' = [pc EXCEPT ![r] = "done"]
  BY DEF Serve
<1>3. /\ pc' \in [Requests -> Labels] /\ \A x \in Minters : pc'[x] = pc[x]
      /\ \A x \in Writers : pc'[x] = IF x = r THEN "done" ELSE pc[x]
  BY <1>1, <1>2, MoveMoves
<1> QED BY <1>3

\* The tables of Roles when only requests end
LEMMA RolesStay ==
    ASSUME MintingInv, UNCHANGED rolesVars, \A x \in Writers : pc'[x] = pc[x] \/ pc'[x] = "done"
    PROVE  RolesTypeOK' /\ RolesKnown' /\ deletedDefs \subseteq deletedDefs'
<1>1. RolesTypeOK /\ RolesKnown
  BY DEF MintingInv, TypeOK
<1>2. RolesTypeOK'
  BY <1>1 DEF RolesTypeOK, rolesVars
<1>3. RolesKnown'
  BY <1>1 DEF RolesKnown, rolesVars, DefIds
<1> QED BY <1>2, <1>3 DEF rolesVars

LEMMA ConsentStay ==
    ASSUME MintingInv, UNCHANGED consentVars
    PROVE  ConsentTypeOK'
  BY DEF MintingInv, TypeOK, ConsentTypeOK, consentVars

LEMMA TenantStay ==
    ASSUME MintingInv, UNCHANGED tenantVars
    PROVE  TenantTypeOK'
  BY DEF MintingInv, TypeOK, TenantTypeOK, tenantVars

LEMMA LifetimesStay ==
    ASSUME MintingInv, UNCHANGED lifetimeVars
    PROVE  LifetimesTypeOK' /\ OnePolicyEach'
  BY DEF MintingInv, TypeOK, LifetimesTypeOK, OnePolicyEach, lifetimeVars

LEMMA MintVarsStay ==
    ASSUME MintingInv, UNCHANGED mintVars
    PROVE  UNCHANGED <<mint, token>> /\ (gmc \in [Apps -> ClaimConfigs])'
  BY DEF MintingInv, TypeOK, mintVars

LEMMA TenantKeeps ==
    ASSUME MintingInv, Watch, TenantNext, UNCHANGED <<consentVars, rolesVars, mintVars>>
    PROVE  MintingInv'
<1>1. PICK r \in Writers :
        /\ Serve(r)
        /\ \/ /\ \E u \in Users : DeleteUser(r, u) \/ RestoreUser(r, u)
              /\ UNCHANGED lifetimeVars
           \/ \E a \in Apps : DeleteApp(r, a) /\ LifetimesDropApp(a)
           \/ /\ \E a \in Apps : RestoreApp(r, a)
              /\ UNCHANGED lifetimeVars
           \/ /\ \E g \in Groups, u \in Users : AddMember(r, g, u) \/ RemoveMember(r, g, u)
              /\ UNCHANGED lifetimeVars
  BY DEF TenantNext, DeleteUser, RestoreUser, DeleteApp, RestoreApp, AddMember, RemoveMember
<1>2. TenantTypeOK
  BY DEF MintingInv, TypeOK
<1>3. TenantTypeOK'
  <2>1. CASE \E u \in Users : DeleteUser(r, u) \/ RestoreUser(r, u)
    BY <1>2, <2>1 DEF TenantTypeOK, DeleteUser, RestoreUser
  <2>2. CASE \E a \in Apps : DeleteApp(r, a) \/ RestoreApp(r, a)
    BY <1>2, <2>2 DEF TenantTypeOK, DeleteApp, RestoreApp
  <2>3. CASE \E g \in Groups, u \in Users : AddMember(r, g, u) \/ RemoveMember(r, g, u)
    BY <1>2, <2>3 DEF TenantTypeOK, AddMember, RemoveMember
  <2> QED BY <1>1, <2>1, <2>2, <2>3
<1>4. LifetimesTypeOK' /\ OnePolicyEach'
  <2>1. CASE UNCHANGED lifetimeVars
    BY <2>1, LifetimesStay
  <2>2. CASE \E a \in Apps : LifetimesDropApp(a)
    BY <2>2 DEF MintingInv, TypeOK, LifetimesTypeOK, OnePolicyEach, LifetimesDropApp
  <2> QED BY <1>1, <2>1, <2>2
<1>5. /\ pc' \in [Requests -> Labels] /\ \A x \in Minters : pc'[x] = pc[x]
      /\ \A x \in Writers : pc'[x] = pc[x] \/ pc'[x] = "done"
  BY <1>1, ServeMoves
<1> QED BY <1>3, <1>4, <1>5, RolesStay, ConsentStay, MintVarsStay, WriterKeeps

LEMMA ConsentKeeps ==
    ASSUME MintingInv, Watch, ConsentNext, UNCHANGED <<tenantVars, rolesVars, lifetimeVars, mintVars>>
    PROVE  MintingInv'
<1>0. ConsentTypeOK /\ Writers \subseteq Ids
  BY DEF MintingInv, TypeOK, Ids
<1>1. PICK r \in Writers :
        /\ Serve(r)
        /\ \/ \E a \in Apps, s \in Scopes, on \in BOOLEAN : AddScope(r, a, s, on)
           \/ \E x \in scopeRows, on \in BOOLEAN : PatchScope(r, x, on)
           \/ \E x \in scopeRows : DeleteScope(r, x)
           \/ \E a \in Apps, v \in RoleValues, f \in BOOLEAN : AddRole(r, a, v, f)
           \/ \E x \in appRoles, on, f \in BOOLEAN : PatchRole(r, x, on, f)
           \/ \E x \in appRoles : DeleteRole(r, x)
           \/ \E c \in Clients, a \in Apps, p \in Users \cup {Everyone}, S \in SUBSET Scopes :
                  CreateOAuth2Grant(r, c, a, p, S)
           \/ \E g \in grants : DeleteOAuth2Grant(r, g)
           \/ \E p \in Users \cup Clients, a \in Apps,
                 x \in {y.id : y \in appRoles} \cup {DefaultAccess} :
                  CreateAppRoleAssignment(r, p, a, x)
           \/ \E x \in assigns : DeleteAppRoleAssignment(r, x)
  BY DEF ConsentNext, AddScope, PatchScope, DeleteScope, AddRole, PatchRole, DeleteRole,
         CreateOAuth2Grant, DeleteOAuth2Grant, CreateAppRoleAssignment, DeleteAppRoleAssignment
<1>2. ConsentTypeOK'
  <2>1. CASE \E a \in Apps, s \in Scopes, on \in BOOLEAN : AddScope(r, a, s, on)
    BY <1>0, <2>1 DEF ConsentTypeOK, AddScope, AddScopeRow, AppScope
  <2>2. CASE \E x \in scopeRows, on \in BOOLEAN : PatchScope(r, x, on)
    <3>1. PICK x \in scopeRows, on \in BOOLEAN : PatchScope(r, x, on)
      BY <2>2
    <3>2. [x EXCEPT !.on = on] \in AppScope
      BY <1>0 DEF ConsentTypeOK, AppScope
    <3> QED BY <1>0, <3>1, <3>2 DEF ConsentTypeOK, PatchScope, UpdateScope
  <2>3. CASE \E x \in scopeRows : DeleteScope(r, x)
    BY <1>0, <2>3 DEF ConsentTypeOK, DeleteScope
  <2>4. CASE \E a \in Apps, v \in RoleValues, f \in BOOLEAN : AddRole(r, a, v, f)
    <3>1. PICK a \in Apps, v \in RoleValues, f \in BOOLEAN : AddRole(r, a, v, f)
      BY <2>4
    <3>2. [id |-> r, app |-> a, value |-> v, on |-> TRUE, forApps |-> f] \in AppRole
      BY <1>0 DEF AppRole
    <3> QED BY <1>0, <3>1, <3>2 DEF ConsentTypeOK, AddRole, AddRoleRow
  <2>5. CASE \E x \in appRoles, on, f \in BOOLEAN : PatchRole(r, x, on, f)
    <3>1. PICK x \in appRoles, on \in BOOLEAN, f \in BOOLEAN : PatchRole(r, x, on, f)
      BY <2>5
    <3>2. [x EXCEPT !.on = on, !.forApps = f] \in AppRole
      BY <1>0 DEF ConsentTypeOK, AppRole
    <3> QED BY <1>0, <3>1, <3>2 DEF ConsentTypeOK, PatchRole, UpdateRole
  <2>6. CASE \E x \in appRoles : DeleteRole(r, x)
    BY <1>0, <2>6 DEF ConsentTypeOK, DeleteRole
  <2>7. CASE \E c \in Clients, a \in Apps, p \in Users \cup {Everyone}, S \in SUBSET Scopes :
                 CreateOAuth2Grant(r, c, a, p, S)
    <3>1. PICK c \in Clients, a \in Apps, p \in Users \cup {Everyone}, S \in SUBSET Scopes :
                 CreateOAuth2Grant(r, c, a, p, S)
      BY <2>7
    <3>2. [id |-> r, client |-> c, resource |-> a, principal |-> p, scope |-> S] \in OAuth2PermissionGrant
      BY <1>0, TenantAssumptions DEF OAuth2PermissionGrant
    <3> QED BY <1>0, <3>1, <3>2 DEF ConsentTypeOK, CreateOAuth2Grant, InsertGrant
  <2>8. CASE \E g \in grants : DeleteOAuth2Grant(r, g)
    BY <1>0, <2>8 DEF ConsentTypeOK, DeleteOAuth2Grant
  <2>9. CASE \E p \in Users \cup Clients, a \in Apps,
                x \in {y.id : y \in appRoles} \cup {DefaultAccess} :
                 CreateAppRoleAssignment(r, p, a, x)
    <3>1. PICK p \in Users \cup Clients, a \in Apps,
                x \in {y.id : y \in appRoles} \cup {DefaultAccess} :
                 CreateAppRoleAssignment(r, p, a, x)
      BY <2>9
    <3>2. x \in Ids \cup {DefaultAccess} /\ p \in Users \cup Apps
      BY <1>0, <3>1, TenantAssumptions DEF ConsentTypeOK, AppRole
    <3> QED BY <1>0, <3>1, <3>2 DEF ConsentTypeOK, CreateAppRoleAssignment, InsertAssignment, AppRoleAssignment
  <2>10. CASE \E x \in assigns : DeleteAppRoleAssignment(r, x)
    BY <1>0, <2>10 DEF ConsentTypeOK, DeleteAppRoleAssignment
  <2> QED BY <1>1, <2>1, <2>2, <2>3, <2>4, <2>5, <2>6, <2>7, <2>8, <2>9, <2>10
<1>3. /\ pc' \in [Requests -> Labels] /\ \A x \in Minters : pc'[x] = pc[x]
      /\ \A x \in Writers : pc'[x] = pc[x] \/ pc'[x] = "done"
  BY <1>1, ServeMoves
<1> QED BY <1>2, <1>3, RolesStay, TenantStay, LifetimesStay, MintVarsStay, WriterKeeps

LEMMA LifetimesKeeps ==
    ASSUME MintingInv, Watch, LifetimesNext, UNCHANGED <<tenantVars, consentVars, rolesVars, mintVars>>
    PROVE  MintingInv'
<1>0. LifetimesTypeOK /\ OnePolicyEach /\ Writers \subseteq Ids
  BY DEF MintingInv, TypeOK, Ids
<1>1. PICK r \in Writers :
        /\ Serve(r)
        /\ \/ \E d \in Definitions, default \in BOOLEAN, at \in Seconds : CreateTLP(r, d, default, at)
           \/ \E id \in PolicyIds : DeleteTLP(r, id)
           \/ \E a \in Apps, id \in PolicyIds : AssignTLP(r, a, id)
           \/ \E x \in inForce : UnassignTLP(r, x)
  BY DEF LifetimesNext, CreateTLP, DeleteTLP, AssignTLP, UnassignTLP
<1>2. LifetimesTypeOK' /\ OnePolicyEach'
  <2>1. CASE \E d \in Definitions, default \in BOOLEAN, at \in Seconds : CreateTLP(r, d, default, at)
    BY <1>0, <2>1 DEF LifetimesTypeOK, OnePolicyEach, CreateTLP, CreateTokenLifetimePolicy, Policy
  <2>2. CASE \E id \in PolicyIds : DeleteTLP(r, id)
    BY <1>0, <2>2 DEF LifetimesTypeOK, OnePolicyEach, DeleteTLP, DeleteTokenLifetimePolicy, InForceWithout
  <2>3. CASE \E a \in Apps, id \in PolicyIds : AssignTLP(r, a, id)
    <3>1. PICK a \in Apps, id \in PolicyIds : AssignTLP(r, a, id)
      BY <2>3
    <3>2. id \in Ids /\ <<a, id>>[1] = a
      BY <1>0 DEF LifetimesTypeOK, Policy, PolicyIds
    <3>3. policies' = policies /\ inForce' = {x \in inForce : x[1] # a} \cup {<<a, id>>}
      BY <3>1 DEF AssignTLP, Reassigned
    <3>4. LifetimesTypeOK'
      BY <1>0, <3>2, <3>3 DEF LifetimesTypeOK
    <3>5. OnePolicyEach'
      BY <1>0, <3>2, <3>3 DEF OnePolicyEach
    <3> QED BY <3>4, <3>5
  <2>4. CASE \E x \in inForce : UnassignTLP(r, x)
    BY <1>0, <2>4 DEF LifetimesTypeOK, OnePolicyEach, UnassignTLP
  <2> QED BY <1>1, <2>1, <2>2, <2>3, <2>4
<1>3. /\ pc' \in [Requests -> Labels] /\ \A x \in Minters : pc'[x] = pc[x]
      /\ \A x \in Writers : pc'[x] = pc[x] \/ pc'[x] = "done"
  BY <1>1, ServeMoves
<1> QED BY <1>2, <1>3, RolesStay, TenantStay, ConsentStay, MintVarsStay, WriterKeeps

LEMMA PatchAppKeeps ==
    ASSUME MintingInv, Watch, NEW r \in Writers, NEW a \in Apps, NEW c \in ClaimConfigs, PatchApp(r, a, c)
    PROVE  MintingInv'
<1>1. UNCHANGED <<tenantVars, consentVars, rolesVars, lifetimeVars, mint, token>>
  BY DEF PatchApp, tables
<1>2. (gmc \in [Apps -> ClaimConfigs])'
  BY DEF MintingInv, TypeOK, PatchApp
<1>3. /\ pc' \in [Requests -> Labels] /\ \A x \in Minters : pc'[x] = pc[x]
      /\ \A x \in Writers : pc'[x] = pc[x] \/ pc'[x] = "done"
  BY ServeMoves DEF PatchApp
<1> QED BY <1>1, <1>2, <1>3, RolesStay, TenantStay, ConsentStay, LifetimesStay, WriterKeeps

\* The role of an assignment stays known when roles are added or deleted.
LEMMA RolesKeeps ==
    ASSUME MintingInv, Watch, RolesNext, UNCHANGED <<tenantVars, consentVars, lifetimeVars, mintVars>>
    PROVE  MintingInv'
<1> DEFINE Known == BuiltIn \cup DefIds \cup deletedDefs
<1>0. RolesTypeOK /\ RolesKnown /\ Writers \subseteq Ids /\ TenantTypeOK
  BY DEF MintingInv, TypeOK, Ids
<1>p. pc \in [Requests -> Labels]
  BY DEF MintingInv, TypeOK
\* a step that leaves roles and assignments alone, or adds to the roles
<1>1. ASSUME NEW r \in Writers, Serve(r), roleAssigns' \subseteq roleAssigns, pending' = pending,
             deletedDefs' = deletedDefs, roleDefs' \subseteq RoleDef, DefIds \subseteq DefIds',
             (units \subseteq Ids)', (unitMembers \subseteq UnitMember)'
      PROVE  MintingInv'
  <2>1. /\ pc' \in [Requests -> Labels] /\ \A x \in Minters : pc'[x] = pc[x]
        /\ \A x \in Writers : pc'[x] = pc[x] \/ pc'[x] = "done"
    BY <1>1, ServeMoves
  <2>2. RolesTypeOK'
    BY <1>0, <1>1, <2>1 DEF RolesTypeOK
  <2>3. RolesKnown'
    BY <1>0, <1>1, <2>1 DEF RolesKnown
  <2> QED BY <1>1, <2>1, <2>2, <2>3, TenantStay, ConsentStay, LifetimesStay, MintVarsStay, WriterKeeps
<1>2. ASSUME NEW r \in Writers, NEW on \in BOOLEAN, CreateRoleDefinition(r, on)
      PROVE  MintingInv'
  <2>1. roleDefs' = roleDefs \cup {[id |-> r, on |-> on]}
    BY <1>2 DEF CreateRoleDefinition
  <2>2. roleDefs' \subseteq RoleDef /\ DefIds \subseteq DefIds'
    BY <1>0, <2>1 DEF RolesTypeOK, RoleDef, DefIds
  <2> QED BY <1>0, <1>1, <1>2, <2>2 DEF CreateRoleDefinition, RolesTypeOK, unitVars
<1>3. ASSUME NEW r \in Writers, NEW d \in roleDefs, NEW on \in BOOLEAN, UpdateRoleDefinition(r, d, on)
      PROVE  MintingInv'
  <2> DEFINE e == [d EXCEPT !.on = on]
  <2>1. e \in RoleDef /\ e.id = d.id
    BY <1>0 DEF RolesTypeOK, RoleDef
  <2>2. roleDefs' = {IF x.id = e.id THEN e ELSE x : x \in roleDefs}
    BY <1>3 DEF UpdateRoleDefinition, Redefined
  <2> HIDE DEF e
  <2>3. roleDefs' \subseteq RoleDef
    BY <1>0, <2>1, <2>2 DEF RolesTypeOK
  <2>4. \A x \in roleDefs : \E y \in roleDefs' : y.id = x.id
    BY <2>1, <2>2
  <2>5. DefIds \subseteq DefIds'
    BY <2>4 DEF DefIds
  <2> QED BY <1>0, <1>1, <1>3, <2>3, <2>5 DEF UpdateRoleDefinition, RolesTypeOK, unitVars
<1>4. ASSUME NEW r \in Writers, NEW d \in roleDefs, DeleteCustomRoleDefinition(r, d)
      PROVE  MintingInv'
  <2>1. /\ pc' \in [Requests -> Labels] /\ \A x \in Minters : pc'[x] = pc[x]
        /\ \A x \in Writers : pc'[x] = pc[x] \/ pc'[x] = "done"
    BY <1>4, ServeMoves DEF DeleteCustomRoleDefinition
  <2>2. /\ roleDefs' = roleDefs \ {d} /\ roleAssigns' \subseteq roleAssigns /\ pending' = pending
        /\ deletedDefs' = deletedDefs \cup {d.id} /\ UNCHANGED <<units, unitMembers>>
    BY <1>4 DEF DeleteCustomRoleDefinition, AssignmentsWithout, unitVars
  <2>3. d.id \in Ids
    BY <1>0 DEF RolesTypeOK, RoleDef
  <2>4. RolesTypeOK'
    BY <1>0, <2>1, <2>2, <2>3 DEF RolesTypeOK
  <2>5. DefIds \subseteq DefIds' \cup {d.id}
    BY <2>2 DEF DefIds
  <2>6. RolesKnown'
    BY <1>0, <2>1, <2>2, <2>5 DEF RolesKnown
  <2> QED BY <2>1, <2>2, <2>4, <2>6, TenantStay, ConsentStay, LifetimesStay, MintVarsStay, WriterKeeps
<1>5. ASSUME NEW r \in Writers, NEW x \in BuiltIn \cup DefIds, NEW u \in Users,
             NEW s \in {Everywhere} \cup units, CheckRoleAssignment(r, x, u, s)
      PROVE  MintingInv'
  <2> DEFINE row == [id |-> r, role |-> x, principal |-> u, scope |-> s]
  <2>1. row \in RoleAssignment /\ row.role = x
    BY <1>0 DEF RolesTypeOK, RoleAssignment, RoleDef, DefIds
  <2>2. /\ pc' = [pc EXCEPT ![r] = "createRoleAssignment"] /\ pending' = [pending EXCEPT ![r] = row]
        /\ UNCHANGED <<roleDefs, roleAssigns, units, unitMembers, deletedDefs>>
    BY <1>5 DEF CheckRoleAssignment, Start, unitVars
  <2>3. "createRoleAssignment" \in Labels
    BY DEF Labels
  <2>4. /\ pc' \in [Requests -> Labels] /\ \A y \in Minters : pc'[y] = pc[y]
        /\ \A y \in Writers : pc'[y] = IF y = r THEN "createRoleAssignment" ELSE pc[y]
    BY <2>2, <2>3, MoveMoves, ZenonT(60)
  <2> HIDE DEF row
  <2>5. /\ pending' \in [Writers -> {None} \cup RoleAssignment \cup UnitMember]
        /\ \A y \in Writers : pending'[y] = IF y = r THEN row ELSE pending[y]
    BY <1>0, <2>1, <2>2 DEF RolesTypeOK
  <2>6. RolesTypeOK'
    BY <1>0, <2>1, <2>2, <2>4, <2>5 DEF RolesTypeOK
  <2>7. RolesKnown'
    BY <1>0, <2>1, <2>2, <2>4, <2>5 DEF RolesKnown, DefIds
  <2> QED BY <2>2, <2>4, <2>6, <2>7, TenantStay, ConsentStay, LifetimesStay, MintVarsStay, WriterKeeps
<1>6. ASSUME NEW r \in Writers, CreateDirectoryRoleAssignment(r)
      PROVE  MintingInv'
  <2>1. /\ pc[r] = "createRoleAssignment" /\ pc' = [pc EXCEPT ![r] = "done"]
        /\ roleAssigns' = roleAssigns \cup {pending[r]} /\ pending' = [pending EXCEPT ![r] = None]
        /\ UNCHANGED <<roleDefs, units, unitMembers, deletedDefs>>
    BY <1>6 DEF CreateDirectoryRoleAssignment, Step, unitVars
  <2>2. pending[r] \in RoleAssignment /\ pending[r].role \in Known
    BY <1>0, <2>1 DEF RolesTypeOK, RolesKnown
  <2>3. "done" \in Labels
    BY DEF Labels
  <2>4. /\ pc' \in [Requests -> Labels] /\ \A y \in Minters : pc'[y] = pc[y]
        /\ \A y \in Writers : pc'[y] = IF y = r THEN "done" ELSE pc[y]
    BY <2>1, <2>3, MoveMoves, ZenonT(60)
  <2>5. /\ pending' \in [Writers -> {None} \cup RoleAssignment \cup UnitMember]
        /\ \A y \in Writers : pending'[y] = IF y = r THEN None ELSE pending[y]
    BY <1>0, <2>1 DEF RolesTypeOK
  <2>6. RolesTypeOK'
    BY <1>0, <2>1, <2>2, <2>4, <2>5 DEF RolesTypeOK
  <2>7. RolesKnown'
    BY <1>0, <2>1, <2>2, <2>4, <2>5 DEF RolesKnown, DefIds
  <2> QED BY <2>1, <2>4, <2>6, <2>7, TenantStay, ConsentStay, LifetimesStay, MintVarsStay, WriterKeeps
<1>7. ASSUME NEW r \in Writers, NEW n \in units, NEW m \in Users \cup Groups, CheckUnitMember(r, n, m)
      PROVE  MintingInv'
  <2> DEFINE row == [unit |-> n, member |-> m]
  <2>1. row \in UnitMember
    BY <1>0 DEF RolesTypeOK, UnitMember
  <2>2. /\ pc' = [pc EXCEPT ![r] = "addAdminUnitMember"] /\ pending' = [pending EXCEPT ![r] = row]
        /\ UNCHANGED <<roleDefs, roleAssigns, units, unitMembers, deletedDefs>>
    BY <1>7 DEF CheckUnitMember, Start, unitVars
  <2>3. "addAdminUnitMember" \in Labels
    BY DEF Labels
  <2>4. /\ pc' \in [Requests -> Labels] /\ \A y \in Minters : pc'[y] = pc[y]
        /\ \A y \in Writers : pc'[y] = IF y = r THEN "addAdminUnitMember" ELSE pc[y]
    BY <2>2, <2>3, MoveMoves, ZenonT(60)
  <2> HIDE DEF row
  <2>5. /\ pending' \in [Writers -> {None} \cup RoleAssignment \cup UnitMember]
        /\ \A y \in Writers : pending'[y] = IF y = r THEN row ELSE pending[y]
    BY <1>0, <2>1, <2>2 DEF RolesTypeOK
  <2>6. RolesTypeOK'
    BY <1>0, <2>1, <2>2, <2>4, <2>5 DEF RolesTypeOK
  <2>7. RolesKnown'
    BY <1>0, <2>2, <2>4, <2>5 DEF RolesKnown, DefIds
  <2> QED BY <2>2, <2>4, <2>6, <2>7, TenantStay, ConsentStay, LifetimesStay, MintVarsStay, WriterKeeps
<1>8. ASSUME NEW r \in Writers, AddAdminUnitMember(r)
      PROVE  MintingInv'
  <2>1. /\ pc[r] = "addAdminUnitMember" /\ pc' = [pc EXCEPT ![r] = "done"]
        /\ pending' = [pending EXCEPT ![r] = None] /\ unitMembers' \subseteq unitMembers \cup {pending[r]}
        /\ UNCHANGED <<roleDefs, roleAssigns, units, deletedDefs>>
    BY <1>8 DEF AddAdminUnitMember, Step
  <2>2. pending[r] \in UnitMember
    BY <1>0, <2>1 DEF RolesTypeOK
  <2>3. "done" \in Labels
    BY DEF Labels
  <2>4. /\ pc' \in [Requests -> Labels] /\ \A y \in Minters : pc'[y] = pc[y]
        /\ \A y \in Writers : pc'[y] = IF y = r THEN "done" ELSE pc[y]
    BY <2>1, <2>3, MoveMoves, ZenonT(60)
  <2>5. /\ pending' \in [Writers -> {None} \cup RoleAssignment \cup UnitMember]
        /\ \A y \in Writers : pending'[y] = IF y = r THEN None ELSE pending[y]
    BY <1>0, <2>1 DEF RolesTypeOK
  <2>6. RolesTypeOK'
    BY <1>0, <2>1, <2>2, <2>4, <2>5 DEF RolesTypeOK
  <2>7. RolesKnown'
    BY <1>0, <2>1, <2>4, <2>5 DEF RolesKnown, DefIds
  <2> QED BY <2>1, <2>4, <2>6, <2>7, TenantStay, ConsentStay, LifetimesStay, MintVarsStay, WriterKeeps
<1>9. ASSUME NEW r \in Writers, NEW a \in roleAssigns, DeleteRoleAssignment(r, a)
      PROVE  MintingInv'
  BY <1>0, <1>1, <1>9 DEF DeleteRoleAssignment, RolesTypeOK, DefIds, unitVars
<1>10. ASSUME NEW r \in Writers, CreateAdministrativeUnit(r)
       PROVE  MintingInv'
  BY <1>0, <1>1, <1>10 DEF CreateAdministrativeUnit, RolesTypeOK, DefIds
<1>11. ASSUME NEW r \in Writers, NEW n \in units, DeleteAdministrativeUnit(r, n)
       PROVE  MintingInv'
  BY <1>0, <1>1, <1>11 DEF DeleteAdministrativeUnit, UnitMembersWithout, RolesTypeOK, DefIds
<1>12. ASSUME NEW r \in Writers, NEW m \in unitMembers, RemoveAdminUnitMember(r, m)
       PROVE  MintingInv'
  BY <1>0, <1>1, <1>12 DEF RemoveAdminUnitMember, RolesTypeOK, DefIds
<1> QED BY <1>2, <1>3, <1>4, <1>5, <1>6, <1>7, <1>8, <1>9, <1>10, <1>11, <1>12 DEF RolesNext

-----------------------------------------------------------------------------
\* Requests that mint

\* What is left to show of such a step: its request goes to l with m and t.
LEMMA MinterKeeps ==
    ASSUME MintingInv, Watch, NEW r \in Minters, NEW l \in Labels, NEW m \in Mint, NEW t \in Token,
           pc' = [pc EXCEPT ![r] = l], SetMint(r, m), SetToken(r, t), UNCHANGED <<tables, gmc>>,
           l \in Stages(m.kind), Agrees(l, m, t, seen[r], deletedDefs),
           l \in Fresh \/ (Active(r) /\ m.kind = mint[r].kind)
    PROVE  MintingInv'
<1>t. /\ pc \in [Requests -> Labels] /\ mint \in [Minters -> Mint] /\ token \in [Minters -> Token]
      /\ seen \in [Minters -> Seen] /\ \A x \in Minters : pc[x] \in Stages(mint[x].kind)
  BY DEF MintingInv, TypeOK
<1>1. /\ mint' \in [Minters -> Mint] /\ token' \in [Minters -> Token] /\ pc' \in [Requests -> Labels]
      /\ mint'[r] = m /\ token'[r] = t /\ pc'[r] = l
      /\ \A x \in Minters \ {r} : mint'[x] = mint[x] /\ token'[x] = token[x] /\ pc'[x] = pc[x]
      /\ \A x \in Writers : pc'[x] = pc[x]
  BY <1>t, TenantAssumptions DEF SetMint, SetToken, Requests
<1>2. /\ TenantTypeOK' /\ ConsentTypeOK' /\ LifetimesTypeOK' /\ OnePolicyEach'
      /\ RolesTypeOK' /\ RolesKnown' /\ deletedDefs' = deletedDefs
  <2>1. UNCHANGED <<tenantVars, consentVars, rolesVars, lifetimeVars>>
    BY DEF tables
  <2>2. deletedDefs' = deletedDefs
    BY <2>1 DEF rolesVars
  <2> QED BY <1>1, <2>1, <2>2, TenantStay, ConsentStay, LifetimesStay, RolesStay
<1>3. (gmc \in [Apps -> ClaimConfigs])'
  BY DEF MintingInv, TypeOK
<1>4. seen' \in [Minters -> Seen]
  BY <1>t, <1>1, <1>2, WatchTyped
<1>5. (\A x \in Minters : pc[x] \in Stages(mint[x].kind))'
  <2> SUFFICES ASSUME NEW x \in Minters PROVE pc'[x] \in Stages(mint'[x].kind)
    OBVIOUS
  <2>1. CASE x = r
    BY <1>1, <2>1
  <2>2. CASE x # r
    BY <1>t, <1>1, <2>2
  <2> QED BY <2>1, <2>2
<1>6. TypeOK'
  BY <1>1, <1>2, <1>3, <1>4, <1>5 DEF TypeOK
<1>7. Agrees(l, m, t, seen'[r], deletedDefs)
  <2>1. CASE l \in Fresh
    BY <2>1, FreshAgrees DEF Agrees
  <2>2. CASE l \notin Fresh
    <3>1. m.kind # "none" /\ l # "resolve"
      BY <2>2 DEF Stages, Fresh
    <3>2. Active(r)' /\ Active(r) /\ mint'[r].kind = mint[r].kind
      BY <1>1, <2>2, <3>1 DEF Active
    <3>3. Covers(seen'[r], seen[r])
      BY <3>2, WatchCovers
    <3> QED BY <3>3, AgreementLasts
  <2> QED BY <2>1, <2>2
<1>8. ClaimsAgree'
  <2> SUFFICES ASSUME NEW x \in Minters
               PROVE  /\ (Agrees(pc[x], mint[x], token[x], seen[x], deletedDefs))'
                      /\ (Active(x) => Covers(seen[x], Current(mint[x])))'
    BY DEF ClaimsAgree
  <2>1. (Agrees(pc[x], mint[x], token[x], seen[x], deletedDefs))'
    <3>1. CASE x = r
      BY <1>1, <1>2, <1>7, <3>1
    <3>2. CASE x # r
      BY <1>1, <1>2, <3>2, OthersAgree
    <3> QED BY <3>1, <3>2
  <2>2. Active(x)' => Covers(seen'[x], Current(mint[x])')
    BY WatchCovers
  <2> QED BY <2>1, <2>2
<1> QED BY <1>2, <1>6, <1>8 DEF MintingInv

\* The facts about a request that reads a claim
LEMMA ReaderFacts ==
    ASSUME MintingInv, NEW r \in Minters
    PROVE  /\ mint[r] \in Mint /\ token[r] \in Token /\ pc[r] \in Stages(mint[r].kind)
           /\ Agrees(pc[r], mint[r], token[r], seen[r], deletedDefs)
           /\ Active(r) => Covers(seen[r], Current(mint[r]))
           /\ mint = [mint EXCEPT ![r] = mint[r]] /\ token = [token EXCEPT ![r] = token[r]]
           /\ ConsentTypeOK /\ RolesTypeOK /\ LifetimesTypeOK /\ RolesKnown /\ TenantTypeOK
           /\ gmc \in [Apps -> ClaimConfigs]
<1>1. mint \in [Minters -> Mint] /\ token \in [Minters -> Token]
  BY DEF MintingInv, TypeOK
<1> QED BY <1>1 DEF MintingInv, TypeOK, ClaimsAgree

\* A new token has no claims yet.
LEMMA NewTokenUnread ==
    ASSUME NEW c, NEW a, NEW l
    PROVE  Unread(l, NewToken(c, a)) /\ NewToken(c, a).res = a
  BY DEF Unread, NewToken

LEMMA BeginKeeps ==
    ASSUME MintingInv, Watch, NEW r \in Minters, NEW client \in Apps, NEW user \in Users,
           NEW aud \in Apps \cup {Graph}, NEW scopes \in SUBSET Scopes, NEW openid \in BOOLEAN,
           Begin(r, client, user, aud, scopes, openid)
    PROVE  MintingInv'
<1> DEFINE m == [kind |-> "access", client |-> client, user |-> user, aud |-> aud,
                 todo |-> scopes, scopes |-> scopes, openid |-> openid, own |-> gmc[client]]
           t == NewToken(gmc[client], client)
<1>1. gmc[client] \in ClaimConfigs
  BY ReaderFacts
<1>2. m \in Mint /\ m.kind = "access" /\ t \in Token
  BY <1>1, NewTyped DEF Mint
<1>3. Unread("resolve", t)
  BY NewTokenUnread
<1>4. /\ pc' = [pc EXCEPT ![r] = "resolve"] /\ SetMint(r, m) /\ SetToken(r, t)
      /\ UNCHANGED <<tables, gmc>>
  BY DEF Begin, Start
<1> HIDE DEF m, t
<1>5. ResourceKnown("resolve", m, t) /\ "resolve" \in Fresh /\ "resolve" \in Labels /\ "resolve" \in Stages(m.kind)
  BY <1>2 DEF ResourceKnown, Fresh, Labels, Stages
<1>6. Agrees("resolve", m, t, seen[r], deletedDefs)
  BY <1>3, <1>5, FreshAgrees
<1> QED BY <1>2, <1>4, <1>5, <1>6, MinterKeeps

\* The end of a request
LEMMA EndKeeps ==
    ASSUME MintingInv, Watch, NEW r \in Minters, pc' = [pc EXCEPT ![r] = "done"],
           SetMint(r, NoMint), SetToken(r, NoToken), UNCHANGED <<tables, gmc>>
    PROVE  MintingInv'
<1>1. NoMint \in Mint /\ NoMint.kind = "none" /\ NoToken \in Token
  BY NewTyped
<1>2. Unread("done", NoToken)
  BY NewTokenUnread DEF NoToken
<1>3. ResourceKnown("done", NoMint, NoToken) /\ "done" \in Fresh /\ "done" \in Labels /\ "done" \in Stages(NoMint.kind)
  BY <1>1 DEF ResourceKnown, Fresh, Labels, Stages
<1>4. Agrees("done", NoMint, NoToken, seen[r], deletedDefs)
  BY <1>2, <1>3, FreshAgrees
<1> QED BY <1>1, <1>3, <1>4, MinterKeeps

LEMMA ResolveKeeps ==
    ASSUME MintingInv, Watch, NEW r \in Minters, (\E s \in Scopes : ResolveScope(r, s)) \/ Resolved(r)
    PROVE  MintingInv'
<1> DEFINE q == mint[r]
           t == token[r]
<1>0. /\ q \in Mint /\ t \in Token /\ pc[r] \in Stages(q.kind)
      /\ Agrees(pc[r], q, t, seen[r], deletedDefs)
      /\ mint = [mint EXCEPT ![r] = q] /\ token = [token EXCEPT ![r] = t]
  BY ReaderFacts
<1>1. pc[r] = "resolve"
  BY DEF ResolveScope, Resolved, Step
<1>2. q.kind = "access"
  <2>1. q.kind \in {"none", "access", "id", "app", "managed"}
    BY <1>0 DEF Mint
  <2> QED BY <1>0, <1>1, <2>1 DEF Stages
<1>3. Unread("resolve", t)
  BY <1>0, <1>1 DEF Agrees
<1>4. ASSUME NEW s \in Scopes, Resolves(q.aud, s), Step(r, "resolve", "resolve"),
             SetMint(r, [q EXCEPT !.todo = q.todo \ {s}]), UNCHANGED token, UNCHANGED <<tables, gmc>>
      PROVE  MintingInv'
  <2> DEFINE rest == q.todo \ {s}
             m == [q EXCEPT !.todo = rest]
  <2>1. rest \in SUBSET Scopes
    BY <1>0 DEF Mint
  <2> HIDE DEF rest
  <2>2. m \in Mint /\ m.kind = "access"
    BY <1>0, <1>2, <2>1 DEF Mint
  <2>3. SetMint(r, m) /\ SetToken(r, t) /\ pc' = [pc EXCEPT ![r] = "resolve"]
    BY <1>0, <1>4 DEF rest, SetToken, Step
  <2> HIDE DEF m, t
  <2>4. ResourceKnown("resolve", m, t) /\ "resolve" \in Fresh /\ "resolve" \in Labels /\ "resolve" \in Stages(m.kind)
    BY <2>2 DEF ResourceKnown, Fresh, Labels, Stages
  <2>5. Agrees("resolve", m, t, seen[r], deletedDefs)
    BY <1>3, <2>4, FreshAgrees
  <2> QED BY <1>0, <1>4, <2>2, <2>3, <2>4, <2>5, MinterKeeps
<1>5. ASSUME NEW s \in Scopes, Step(r, "resolve", "done"), SetMint(r, NoMint), SetToken(r, NoToken),
             UNCHANGED <<tables, gmc>>
      PROVE  MintingInv'
  BY <1>5, EndKeeps DEF Step
<1>6. CASE Resolved(r)
  <2>1. /\ SetMint(r, q) /\ SetToken(r, t) /\ pc' = [pc EXCEPT ![r] = "lifetime"]
        /\ UNCHANGED <<tables, gmc>>
    BY <1>0, <1>6 DEF Resolved, SetMint, SetToken, Step, mintVars
  <2> HIDE DEF q, t
  <2>2. ResourceKnown("lifetime", q, t) /\ "lifetime" \in Fresh /\ "lifetime" \in Labels /\ "lifetime" \in Stages(q.kind)
    BY <1>2 DEF ResourceKnown, Fresh, Labels, Stages
  <2>3. Unread("lifetime", t)
    BY <1>3 DEF Unread
  <2>4. Agrees("lifetime", q, t, seen[r], deletedDefs)
    BY <2>2, <2>3, FreshAgrees
  <2> QED BY <1>0, <2>1, <2>2, <2>4, MinterKeeps
<1>7. CASE \E s \in Scopes : ResolveScope(r, s)
  <2>1. PICK s \in Scopes : ResolveScope(r, s)
    BY <1>7
  <2> QED BY <2>1, <1>4, <1>5 DEF ResolveScope
<1> QED BY <1>6, <1>7

\* A lifetime that the history allows keeps the agreement.
LEMMA TookAgrees ==
    ASSUME NEW m \in Mint, NEW t \in Token, NEW s, NEW d, NEW l \in LifetimeReads, NEW p,
           p = l \/ p = DefaultOf(l), p \in Stages(m.kind), Agrees(p, m, t, s, d),
           NEW sec \in Nat, sec \in Allowed(s)
    PROVE  /\ TookLifetime(t, l, sec) \in Token
           /\ After(l, m.kind) \in Labels /\ After(l, m.kind) \in Stages(m.kind)
           /\ Agrees(After(l, m.kind), m, TookLifetime(t, l, sec), s, d)
<1>k. m.kind \in {"none", "access", "id", "app", "managed"}
  BY DEF Mint
<1>1. CASE l = "lifetime"
  <2> DEFINE t2 == [t EXCEPT !.life = sec]
  <2>1. t2 \in Token /\ t2.life = sec /\ t2.groups = t.groups /\ t2.over = t.over /\ t2.wids = t.wids
    BY DEF Token
  <2>2. p \in {"lifetime", "lifetimeDefault"}
    BY <1>1 DEF DefaultOf
  <2>3. m.kind \in {"access", "id"}
    BY <1>k, <2>2 DEF Stages
  <2>4. t.groups = {} /\ ~t.over /\ t.wids = {}
    BY <2>2 DEF Agrees, Unread
  <2>5. TookLifetime(t, l, sec) = t2
    BY <1>1 DEF TookLifetime
  <2> HIDE DEF t2
  <2>6. ASSUME NEW l2, (l2 = "groups" /\ m.kind = "id") \/ (l2 = "resource" /\ m.kind = "access")
        PROVE  Agrees(l2, m, t2, s, d) /\ l2 \in Labels /\ l2 \in Stages(m.kind)
    <3>1. l2 \in Labels /\ l2 \in Stages(m.kind)
      BY <2>6 DEF Labels, Stages
    <3>2. ResourceKnown(l2, m, t2) /\ Unread(l2, t2)
      BY <2>1, <2>4, <2>6 DEF ResourceKnown, Unread
    <3>3. ScopesAgree(l2, m, t2, s) /\ RolesAgree(l2, m, t2, s)
      BY <2>6 DEF ScopesAgree, RolesAgree
    <3>4. GroupsAgree(l2, m, t2, s) /\ WidsAgree(l2, m, t2, s, d)
      BY <2>6 DEF GroupsAgree, WidsAgree
    <3>5. LifetimesAgree(l2, m, t2, s)
      BY <2>1, <2>6 DEF LifetimesAgree
    <3> QED BY <3>1, <3>2, <3>3, <3>4, <3>5 DEF Agrees
  <2>7. After(l, m.kind) = IF m.kind = "id" THEN "groups" ELSE "resource"
    BY <1>1 DEF After
  <2> QED BY <2>1, <2>3, <2>5, <2>6, <2>7
<1>2. CASE l = "expires"
  <2> DEFINE t2 == [t EXCEPT !.said = sec]
  <2>1. /\ t2 \in Token /\ t2.said = sec /\ t2.life = t.life /\ t2.scp = t.scp /\ t2.res = t.res /\ t2.conf = t.conf
        /\ t2.groups = t.groups /\ t2.over = t.over /\ t2.wids = t.wids
    BY DEF Token
  <2>2. p \in {"expires", "expiresDefault"}
    BY <1>2 DEF DefaultOf
  <2>3. m.kind = "access"
    BY <1>k, <2>2 DEF Stages
  <2>4. TookLifetime(t, l, sec) = t2 /\ After(l, m.kind) = "send"
    BY <1>2 DEF TookLifetime, After
  <2> HIDE DEF t2
  <2>5. "send" \in Labels /\ "send" \in Stages(m.kind)
    BY <2>3 DEF Labels, Stages
  <2>6. ResourceKnown("send", m, t2) /\ Unread("send", t2)
    BY <2>3 DEF ResourceKnown, Unread
  <2>7. ScopesAgree("send", m, t2, s) /\ RolesAgree("send", m, t2, s)
    BY <2>1, <2>2, <2>3 DEF Agrees, ScopesAgree, RolesAgree
  <2>8. GroupsAgree("send", m, t2, s)
    BY <2>1, <2>2, <2>3 DEF Agrees, GroupsAgree
  <2>9. WidsAgree("send", m, t2, s, d)
    BY <2>1, <2>2, <2>3 DEF Agrees, WidsAgree
  <2>10. LifetimesAgree("send", m, t2, s)
    BY <2>1, <2>2, <2>3 DEF Agrees, LifetimesAgree
  <2> QED BY <2>1, <2>4, <2>5, <2>6, <2>7, <2>8, <2>9, <2>10 DEF Agrees
<1>3. CASE l = "appLifetime"
  <2> DEFINE t2 == [t EXCEPT !.life = sec, !.said = sec]
  <2>1. t2 \in Token /\ t2.life = sec /\ t2.said = sec /\ t2.res = t.res /\ t2.roles = t.roles
    BY DEF Token
  <2>2. p \in {"appLifetime", "appLifetimeDefault"}
    BY <1>3 DEF DefaultOf
  <2>3. m.kind \in {"app", "managed"}
    BY <1>k, <2>2 DEF Stages
  <2>4. TookLifetime(t, l, sec) = t2 /\ After(l, m.kind) = "send"
    BY <1>3 DEF TookLifetime, After
  <2> HIDE DEF t2
  <2>5. "send" \in Labels /\ "send" \in Stages(m.kind)
    BY <2>3 DEF Labels, Stages
  <2>6. ResourceKnown("send", m, t2) /\ Unread("send", t2)
    BY <2>1, <2>3 DEF Agrees, ResourceKnown, Unread
  <2>7. ScopesAgree("send", m, t2, s) /\ RolesAgree("send", m, t2, s)
    BY <2>1, <2>2, <2>3 DEF Agrees, ScopesAgree, RolesAgree
  <2>8. GroupsAgree("send", m, t2, s) /\ WidsAgree("send", m, t2, s, d)
    BY <2>3 DEF GroupsAgree, WidsAgree
  <2>9. LifetimesAgree("send", m, t2, s)
    BY <2>1 DEF LifetimesAgree
  <2> QED BY <2>1, <2>4, <2>5, <2>6, <2>7, <2>8, <2>9 DEF Agrees
<1> QED BY <1>1, <1>2, <1>3 DEF LifetimeReads

\* Going on to the organization's default, because the app has no policy
LEMMA DefaultAgrees ==
    ASSUME NEW m \in Mint, NEW t, NEW s, NEW d, NEW l \in LifetimeReads, l \in Stages(m.kind),
           Agrees(l, m, t, s, d), "none" \in s.own
    PROVE  /\ DefaultOf(l) \in Labels /\ DefaultOf(l) \in Stages(m.kind)
           /\ Agrees(DefaultOf(l), m, t, s, d)
<1> DEFINE e == DefaultOf(l)
<1>1. \/ l = "lifetime" /\ e = "lifetimeDefault"
      \/ l = "expires" /\ e = "expiresDefault"
      \/ l = "appLifetime" /\ e = "appLifetimeDefault"
  BY DEF DefaultOf, LifetimeReads
<1>k. m.kind \in {"none", "access", "id", "app", "managed"}
  BY DEF Mint
<1> HIDE DEF e
<1>2. e \in Labels /\ e \in Stages(m.kind)
  BY <1>k, <1>1 DEF Labels, Stages
<1>3. ResourceKnown(e, m, t) /\ Unread(e, t)
  BY <1>1 DEF Agrees, ResourceKnown, Unread
<1>4. ScopesAgree(e, m, t, s) /\ RolesAgree(e, m, t, s)
  BY <1>1 DEF Agrees, ScopesAgree, RolesAgree
<1>5. GroupsAgree(e, m, t, s) /\ WidsAgree(e, m, t, s, d)
  BY <1>1 DEF Agrees, GroupsAgree, WidsAgree
<1>6. LifetimesAgree(e, m, t, s)
  BY <1>1 DEF Agrees, LifetimesAgree
<1> QED BY <1>2, <1>3, <1>4, <1>5, <1>6 DEF Agrees, e

LEMMA LifetimeReadKeeps ==
    ASSUME MintingInv, Watch, NEW r \in Minters, NEW l \in LifetimeReads,
           ReadAssignedPolicy(r, l) \/ ReadDefaultPolicy(r, l)
    PROVE  MintingInv'
<1> DEFINE q == mint[r]
           t == token[r]
           s == seen[r]
<1>0. /\ q \in Mint /\ t \in Token /\ pc[r] \in Stages(q.kind)
      /\ Agrees(pc[r], q, t, s, deletedDefs)
      /\ mint = [mint EXCEPT ![r] = q] /\ token = [token EXCEPT ![r] = t]
      /\ Active(r) => Covers(s, Current(q))
      /\ LifetimesTypeOK
  BY ReaderFacts
<1>1. pc[r] = l \/ pc[r] = DefaultOf(l)
  BY DEF ReadAssignedPolicy, ReadDefaultPolicy, Step
<1>2. Active(r)
  <2>1. pc[r] \notin {"new", "done", "resolve"}
    BY <1>1 DEF LifetimeReads, DefaultOf
  <2> QED BY <1>0, <2>1 DEF Active, Stages
<1>3. /\ OwnNow(q.client, q.kind) \subseteq s.lifes /\ DefaultNow(q.kind) \subseteq s.default
      /\ Answer(OwnNow(q.client, q.kind) # {}) \subseteq s.own
  <2>1. Covers(s, Current(q))
    BY <1>0, <1>2
  <2> HIDE DEF q, s
  <2> QED BY <2>1 DEF Covers, Current
<1>4. SetMint(r, q) /\ UNCHANGED <<tables, gmc>>
  BY <1>0 DEF ReadAssignedPolicy, ReadDefaultPolicy, SetMint
<1> HIDE DEF q, t, s
<1>5. ASSUME NEW sec \in Nat, sec \in Allowed(s), SetToken(r, TookLifetime(t, l, sec)),
             pc' = [pc EXCEPT ![r] = After(l, q.kind)]
      PROVE  MintingInv'
  <2> DEFINE t2 == TookLifetime(t, l, sec)
             l2 == After(l, q.kind)
  <2>1. t2 \in Token /\ l2 \in Labels /\ l2 \in Stages(q.kind) /\ Agrees(l2, q, t2, s, deletedDefs)
    BY <1>0, <1>1, <1>5, TookAgrees
  <2>2. SetToken(r, t2) /\ pc' = [pc EXCEPT ![r] = l2]
    BY <1>5
  <2> HIDE DEF t2, l2
  <2> QED BY <1>0, <1>2, <1>4, <2>1, <2>2, MinterKeeps DEF q, s
<1>6. ASSUME NEW def \in AssignedLifetimes(q.client), pc' = [pc EXCEPT ![r] = After(l, q.kind)],
             SetToken(r, TookLifetime(t, l, LifetimeFrom(def, q.kind)))
      PROVE  MintingInv'
  <2>1. LifetimeFrom(def, q.kind) \in OwnNow(q.client, q.kind) /\ LifetimeFrom(def, q.kind) \in Nat
    BY <1>0, LifetimesAreNow
  <2>2. LifetimeFrom(def, q.kind) \in Allowed(s)
    BY <1>3, <2>1 DEF Allowed
  <2> QED BY <1>5, <1>6, <2>1, <2>2
<1>7. ASSUME AssignedLifetimes(q.client) = {}, pc[r] = l, pc' = [pc EXCEPT ![r] = DefaultOf(l)],
             UNCHANGED token
      PROVE  MintingInv'
  <2>1. "none" \in s.own
    BY <1>0, <1>3, <1>7, LifetimesAreNow DEF Answer
  <2>2. DefaultOf(l) \in Labels /\ DefaultOf(l) \in Stages(q.kind) /\ Agrees(DefaultOf(l), q, t, s, deletedDefs)
    BY <1>0, <1>7, <2>1, DefaultAgrees
  <2>3. SetToken(r, t)
    BY <1>0, <1>7 DEF SetToken
  <2> QED BY <1>0, <1>2, <1>4, <1>7, <2>2, <2>3, MinterKeeps DEF q, s
<1>8. ASSUME NEW def \in DefaultLifetimes, pc[r] = DefaultOf(l), pc' = [pc EXCEPT ![r] = After(l, q.kind)],
             SetToken(r, TookLifetime(t, l, LifetimeFrom(def, q.kind)))
      PROVE  MintingInv'
  <2>1. LifetimeFrom(def, q.kind) \in DefaultNow(q.kind) /\ LifetimeFrom(def, q.kind) \in Nat
    BY <1>0, LifetimesAreNow
  <2>2. DefaultOf(l) \in {"lifetimeDefault", "expiresDefault", "appLifetimeDefault"}
    BY DEF DefaultOf, LifetimeReads
  <2>3. "none" \in s.own
    BY <1>0, <1>8, <2>2 DEF Agrees, LifetimesAgree
  <2>4. LifetimeFrom(def, q.kind) \in Allowed(s)
    BY <1>3, <2>1, <2>3 DEF Allowed
  <2> QED BY <1>5, <1>8, <2>1, <2>4
<1> QED BY <1>6, <1>7, <1>8 DEF ReadAssignedPolicy, ReadDefaultPolicy, Step, q, t

LEMMA FindResourceKeeps ==
    ASSUME MintingInv, Watch, NEW r \in Minters, FindResource(r)
    PROVE  MintingInv'
<1> DEFINE q == mint[r]
           t == token[r]
           s == seen[r]
<1>0. /\ q \in Mint /\ t \in Token /\ pc[r] \in Stages(q.kind)
      /\ Agrees(pc[r], q, t, s, deletedDefs) /\ mint = [mint EXCEPT ![r] = q]
      /\ gmc \in [Apps -> ClaimConfigs] /\ apps \subseteq Apps
  BY ReaderFacts DEF TenantTypeOK
<1>1. pc[r] = "resource"
  BY DEF FindResource, Step
<1>2. q.kind = "access" /\ q.client \in Apps /\ q.own \in ClaimConfigs
  <2>1. q.kind \in {"none", "access", "id", "app", "managed"}
    BY <1>0 DEF Mint
  <2> QED BY <1>0, <1>1, <2>1 DEF Stages, Mint
<1>3. Active(r)
  BY <1>1, <1>2 DEF Active
<1>4. SetMint(r, q) /\ pc' = [pc EXCEPT ![r] = "consent"] /\ UNCHANGED <<tables, gmc>>
  BY <1>0 DEF FindResource, SetMint, Step
<1>5. ASSUME NEW a \in Apps, NEW c \in ClaimConfigs, SetToken(r, [t EXCEPT !.res = a, !.conf = c]),
             q.aud = Graph => a = q.client
      PROVE  MintingInv'
  <2> DEFINE t2 == [t EXCEPT !.res = a, !.conf = c]
  <2>1. SetToken(r, t2)
    BY <1>5
  <2> HIDE DEF q, t, s
  <2>2. /\ t2 \in Token /\ t2.res = a /\ t2.life = t.life
        /\ t2.groups = t.groups /\ t2.over = t.over /\ t2.wids = t.wids
    BY <1>0 DEF Token
  <2> HIDE DEF t2
  <2>3. "consent" \in Labels /\ "consent" \in Stages(q.kind)
    BY <1>2 DEF Labels, Stages
  <2>4. ResourceKnown("consent", q, t2) /\ Unread("consent", t2)
    BY <1>0, <1>1, <1>2, <1>5, <2>2 DEF Agrees, ResourceKnown, Unread
  <2>5. ScopesAgree("consent", q, t2, s) /\ RolesAgree("consent", q, t2, s)
    BY <1>2 DEF ScopesAgree, RolesAgree
  <2>6. GroupsAgree("consent", q, t2, s) /\ WidsAgree("consent", q, t2, s, deletedDefs)
    BY DEF GroupsAgree, WidsAgree
  <2>7. LifetimesAgree("consent", q, t2, s)
    BY <1>0, <1>1, <2>2 DEF Agrees, LifetimesAgree
  <2>8. Agrees("consent", q, t2, s, deletedDefs)
    BY <2>4, <2>5, <2>6, <2>7 DEF Agrees
  <2> QED BY <1>0, <1>3, <1>4, <2>1, <2>2, <2>3, <2>8, MinterKeeps DEF q, s
<1>6. CASE q.aud \in apps
  <2>1. q.aud \in Apps /\ gmc[q.aud] \in ClaimConfigs /\ q.aud # Graph
    BY <1>0, <1>6, ConsentAssumptions
  <2>2. SetToken(r, [t EXCEPT !.res = q.aud, !.conf = gmc[q.aud]])
    BY <1>6 DEF FindResource
  <2> QED BY <1>5, <2>1, <2>2
<1>7. CASE q.aud \notin apps
  <2>1. SetToken(r, [t EXCEPT !.res = q.client, !.conf = q.own])
    BY <1>7 DEF FindResource
  <2> QED BY <1>2, <1>5, <2>1
<1> QED BY <1>6, <1>7

LEMMA ReadConsentKeeps ==
    ASSUME MintingInv, Watch, NEW r \in Minters, ReadConsent(r)
    PROVE  MintingInv'
<1> DEFINE q == mint[r]
           t == token[r]
           s == seen[r]
           v == Scp(q.client, t.res, q.user, q.scopes)
           t2 == [t EXCEPT !.scp = v]
<1>0. /\ q \in Mint /\ t \in Token /\ pc[r] \in Stages(q.kind)
      /\ Agrees(pc[r], q, t, s, deletedDefs) /\ mint = [mint EXCEPT ![r] = q]
      /\ Active(r) => Covers(s, Current(q))
  BY ReaderFacts
<1>1. pc[r] = "consent"
  BY DEF ReadConsent, Step
<1>2. q.kind = "access" /\ q.scopes \in SUBSET Scopes
  <2>1. q.kind \in {"none", "access", "id", "app", "managed"}
    BY <1>0 DEF Mint
  <2> QED BY <1>0, <1>1, <2>1 DEF Stages, Mint
<1>3. Active(r)
  BY <1>1, <1>2 DEF Active
<1>4. SetMint(r, q) /\ SetToken(r, t2) /\ pc' = [pc EXCEPT ![r] = "groups"] /\ UNCHANGED <<tables, gmc>>
  BY <1>0 DEF ReadConsent, SetMint, Step
<1> HIDE DEF q, t, s
<1>5. v = ScopesNow(q.client, t.res, q.user, q.scopes)
  BY ScpIsNow
<1>6. v \in SUBSET Scopes
  BY <1>2, <1>5 DEF ScopesNow
<1>7. q.aud \in {Graph, t.res} => v \in s.scp
  <2>1. ScopesNow(q.client, IF q.aud = Graph THEN q.client ELSE q.aud, q.user, q.scopes) \in s.scp
    BY <1>0, <1>2, <1>3 DEF Covers, Current
  <2>2. q.aud = Graph => t.res = q.client
    BY <1>0, <1>1 DEF Agrees, ResourceKnown
  <2> QED BY <1>5, <2>1, <2>2
<1> HIDE DEF v
<1>8. /\ t2 \in Token /\ t2.scp = v /\ t2.res = t.res /\ t2.life = t.life
      /\ t2.groups = t.groups /\ t2.over = t.over /\ t2.wids = t.wids
  BY <1>0, <1>6 DEF Token
<1> HIDE DEF t2
<1>9. "groups" \in Labels /\ "groups" \in Stages(q.kind)
  BY <1>2 DEF Labels, Stages
<1>10. ResourceKnown("groups", q, t2) /\ Unread("groups", t2)
  BY <1>0, <1>1, <1>2, <1>8 DEF Agrees, ResourceKnown, Unread
<1>11. ScopesAgree("groups", q, t2, s) /\ RolesAgree("groups", q, t2, s)
  BY <1>2, <1>7, <1>8 DEF ScopesAgree, RolesAgree
<1>12. GroupsAgree("groups", q, t2, s) /\ WidsAgree("groups", q, t2, s, deletedDefs)
  BY DEF GroupsAgree, WidsAgree
<1>13. LifetimesAgree("groups", q, t2, s)
  BY <1>0, <1>1, <1>8 DEF Agrees, LifetimesAgree
<1>14. Agrees("groups", q, t2, s, deletedDefs)
  BY <1>10, <1>11, <1>12, <1>13 DEF Agrees
<1> QED BY <1>0, <1>3, <1>4, <1>8, <1>9, <1>14, MinterKeeps DEF q, s

\* The groups and the roles are read last: the other claims stay as they are.
LEMMA SigningAgrees ==
    ASSUME NEW m \in Mint, NEW t, NEW t2, NEW s, NEW d, NEW l \in {"groups", "wids"}, NEW l2,
           l \in Stages(m.kind), Agrees(l, m, t, s, d),
           t2.scp = t.scp, t2.res = t.res, t2.life = t.life,
           l2 = "wids" \/ l2 = AfterSigning(m.kind)
    PROVE  /\ m.kind \in {"access", "id"} /\ l2 \in Labels /\ l2 \in Stages(m.kind)
           /\ ResourceKnown(l2, m, t2) /\ ScopesAgree(l2, m, t2, s)
           /\ RolesAgree(l2, m, t2, s) /\ LifetimesAgree(l2, m, t2, s)
<1>k. m.kind \in {"none", "access", "id", "app", "managed"}
  BY DEF Mint
<1>1. m.kind \in {"access", "id"}
  BY <1>k DEF Stages
<1>2. l2 = "wids" \/ (l2 = "send" /\ m.kind = "id") \/ (l2 = "expires" /\ m.kind = "access")
  BY <1>1 DEF AfterSigning
<1>3. l2 \in Labels /\ l2 \in Stages(m.kind)
  BY <1>1, <1>2 DEF Labels, Stages
<1>4. ResourceKnown(l2, m, t2) /\ RolesAgree(l2, m, t2, s)
  BY <1>1, <1>2 DEF ResourceKnown, RolesAgree
<1>5. ScopesAgree(l2, m, t2, s)
  BY <1>2 DEF Agrees, ScopesAgree
<1>6. LifetimesAgree(l2, m, t2, s)
  BY <1>2 DEF Agrees, LifetimesAgree
<1> QED BY <1>1, <1>3, <1>4, <1>5, <1>6

LEMMA ReadGroupsKeeps ==
    ASSUME MintingInv, Watch, NEW r \in Minters, ReadGroups(r)
    PROVE  MintingInv'
<1> DEFINE q == mint[r]
           t == token[r]
           s == seen[r]
           gs == IF t.conf = "None" THEN {} ELSE ListGroupsForUser(q.user)
<1>0. /\ q \in Mint /\ t \in Token /\ pc[r] \in Stages(q.kind)
      /\ Agrees(pc[r], q, t, s, deletedDefs) /\ mint = [mint EXCEPT ![r] = q]
      /\ Active(r) => Covers(s, Current(q))
  BY ReaderFacts
<1>1. pc[r] = "groups"
  BY DEF ReadGroups, Step
<1>2. q.kind \in {"access", "id"}
  <2>1. q.kind \in {"none", "access", "id", "app", "managed"}
    BY <1>0 DEF Mint
  <2> QED BY <1>0, <1>1, <2>1 DEF Stages
<1>3. Active(r)
  BY <1>1, <1>2 DEF Active
<1>4. SetMint(r, q) /\ UNCHANGED <<tables, gmc>>
  BY <1>0 DEF ReadGroups, SetMint
<1>5. \/ /\ Overage(gs) /\ pc' = [pc EXCEPT ![r] = AfterSigning(q.kind)]
         /\ SetToken(r, [t EXCEPT !.over = TRUE])
      \/ /\ ~Overage(gs) /\ pc' = [pc EXCEPT ![r] = "wids"]
         /\ SetToken(r, [t EXCEPT !.groups = gs])
  BY DEF ReadGroups, Step
<1> HIDE DEF q, t, s
<1>6. gs \in SUBSET Groups /\ (t.conf # "None" => gs \in s.groups)
  <2>1. ListGroupsForUser(q.user) = GroupsNow(q.user)
    BY DEF ListGroupsForUser, GroupsNow
  <2>2. GroupsNow(q.user) \in s.groups
    BY <1>0, <1>2, <1>3 DEF Covers, Current
  <2> QED BY <2>1, <2>2 DEF GroupsNow
<1> HIDE DEF gs
<1>7. Cardinality(gs) \in Nat
  <2>1. IsFiniteSet(gs)
    BY <1>6, MintingAssumptions, FS_Subset
  <2> QED BY <2>1, FS_CardinalityType
<1>8. t.groups = {} /\ ~t.over /\ t.wids = {}
  BY <1>0, <1>1 DEF Agrees, Unread
<1>9. CASE Overage(gs)
  <2> DEFINE t2 == [t EXCEPT !.over = TRUE]
             l2 == AfterSigning(q.kind)
  <2>1. /\ t2 \in Token /\ t2.over /\ t2.scp = t.scp /\ t2.res = t.res /\ t2.life = t.life
        /\ t2.conf = t.conf /\ t2.groups = t.groups /\ t2.wids = t.wids
    BY <1>0 DEF Token
  <2>2. SetToken(r, t2) /\ pc' = [pc EXCEPT ![r] = l2]
    BY <1>5, <1>9
  <2>3. l2 \in {"send", "expires"}
    BY DEF AfterSigning
  <2>4. l2 = "wids" \/ l2 = AfterSigning(q.kind)
    OBVIOUS
  <2> HIDE DEF t2, l2
  <2>5. /\ l2 \in Labels /\ l2 \in Stages(q.kind)
        /\ ResourceKnown(l2, q, t2) /\ ScopesAgree(l2, q, t2, s)
        /\ RolesAgree(l2, q, t2, s) /\ LifetimesAgree(l2, q, t2, s)
    BY <1>0, <1>1, <2>1, <2>4, SigningAgrees
  <2>6. Unread(l2, t2)
    BY <2>3 DEF Unread
  <2>7. GroupsAgree(l2, q, t2, s)
    BY <1>6, <1>8, <1>9, <2>1 DEF GroupsAgree, Overage
  <2>8. WidsAgree(l2, q, t2, s, deletedDefs)
    BY <2>1 DEF WidsAgree
  <2>9. Agrees(l2, q, t2, s, deletedDefs)
    BY <2>5, <2>6, <2>7, <2>8 DEF Agrees
  <2> QED BY <1>0, <1>3, <1>4, <2>1, <2>2, <2>5, <2>9, MinterKeeps DEF q, s
<1>10. CASE ~Overage(gs)
  <2> DEFINE t2 == [t EXCEPT !.groups = gs]
  <2>1. /\ t2 \in Token /\ t2.groups = gs /\ t2.scp = t.scp /\ t2.res = t.res /\ t2.life = t.life
        /\ t2.conf = t.conf /\ t2.over = t.over /\ t2.wids = t.wids
    BY <1>0, <1>6 DEF Token
  <2>2. SetToken(r, t2) /\ pc' = [pc EXCEPT ![r] = "wids"]
    BY <1>5, <1>10
  <2> HIDE DEF t2
  <2>3. /\ "wids" \in Labels /\ "wids" \in Stages(q.kind)
        /\ ResourceKnown("wids", q, t2) /\ ScopesAgree("wids", q, t2, s)
        /\ RolesAgree("wids", q, t2, s) /\ LifetimesAgree("wids", q, t2, s)
    BY <1>0, <1>1, <2>1, SigningAgrees
  <2>4. Unread("wids", t2)
    BY <1>8, <2>1 DEF Unread
  <2>5. Cardinality(gs) <= Limit
    BY <1>7, <1>10, MintingAssumptions DEF Overage
  <2>6. GroupsAgree("wids", q, t2, s)
    BY <1>6, <1>8, <2>1, <2>5 DEF GroupsAgree
  <2>7. WidsAgree("wids", q, t2, s, deletedDefs)
    BY DEF WidsAgree
  <2>8. Agrees("wids", q, t2, s, deletedDefs)
    BY <2>3, <2>4, <2>6, <2>7 DEF Agrees
  <2> QED BY <1>0, <1>3, <1>4, <2>1, <2>2, <2>3, <2>8, MinterKeeps DEF q, s
<1> QED BY <1>9, <1>10

LEMMA ReadWidsKeeps ==
    ASSUME MintingInv, Watch, NEW r \in Minters, ReadWids(r)
    PROVE  MintingInv'
<1> DEFINE q == mint[r]
           t == token[r]
           s == seen[r]
           v == IF t.conf \in {"DirectoryRole", "All"} THEN TenantWideRoleTemplateIDs(q.user) ELSE {}
           t2 == [t EXCEPT !.wids = v]
           l2 == AfterSigning(q.kind)
<1>0. /\ q \in Mint /\ t \in Token /\ pc[r] \in Stages(q.kind)
      /\ Agrees(pc[r], q, t, s, deletedDefs) /\ mint = [mint EXCEPT ![r] = q]
      /\ Active(r) => Covers(s, Current(q))
      /\ RolesTypeOK /\ RolesKnown
  BY ReaderFacts
<1>1. pc[r] = "wids"
  BY DEF ReadWids, Step
<1>2. q.kind \in {"access", "id"}
  <2>1. q.kind \in {"none", "access", "id", "app", "managed"}
    BY <1>0 DEF Mint
  <2> QED BY <1>0, <1>1, <2>1 DEF Stages
<1>3. Active(r)
  BY <1>1, <1>2 DEF Active
<1>4. SetMint(r, q) /\ SetToken(r, t2) /\ pc' = [pc EXCEPT ![r] = l2] /\ UNCHANGED <<tables, gmc>>
  BY <1>0 DEF ReadWids, SetMint, Step
<1> HIDE DEF q, t, s
<1>5. WidsNow(q.user) \in s.wids
  BY <1>0, <1>2, <1>3 DEF Covers, Current
<1>6. /\ v \in SUBSET (BuiltIn \cup Ids)
      /\ t.conf \in {"DirectoryRole", "All"} => v \subseteq BuiltIn \cup deletedDefs /\ v \cap BuiltIn \in s.wids
  <2>1. /\ TenantWideRoleTemplateIDs(q.user) \subseteq BuiltIn \cup deletedDefs
        /\ TenantWideRoleTemplateIDs(q.user) \cap BuiltIn = WidsNow(q.user)
        /\ TenantWideRoleTemplateIDs(q.user) \subseteq BuiltIn \cup Ids
    BY <1>0, WidsAreNow
  <2> QED BY <1>5, <2>1
<1> HIDE DEF v
<1>7. /\ t2 \in Token /\ t2.wids = v /\ t2.scp = t.scp /\ t2.res = t.res /\ t2.life = t.life
      /\ t2.conf = t.conf /\ t2.over = t.over /\ t2.groups = t.groups
  BY <1>0, <1>6 DEF Token
<1>8. l2 \in {"send", "expires"}
  BY DEF AfterSigning
<1>9. l2 = "wids" \/ l2 = AfterSigning(q.kind)
  OBVIOUS
<1> HIDE DEF t2, l2
<1>10. /\ l2 \in Labels /\ l2 \in Stages(q.kind)
       /\ ResourceKnown(l2, q, t2) /\ ScopesAgree(l2, q, t2, s)
       /\ RolesAgree(l2, q, t2, s) /\ LifetimesAgree(l2, q, t2, s)
  <2>1. q \in Mint /\ "wids" \in Stages(q.kind) /\ Agrees("wids", q, t, s, deletedDefs)
    BY <1>0, <1>1
  <2>2. t2.scp = t.scp /\ t2.res = t.res /\ t2.life = t.life
    BY <1>7
  <2> QED BY <1>9, <2>1, <2>2, SigningAgrees
<1>11. Unread(l2, t2)
  BY <1>8 DEF Unread
<1>12. ~t.over
  BY <1>0, <1>1 DEF Agrees, Unread
<1>13. GroupsAgree(l2, q, t2, s)
  BY <1>0, <1>1, <1>2, <1>7, <1>12 DEF Agrees, GroupsAgree
<1>14. WidsAgree(l2, q, t2, s, deletedDefs)
  BY <1>6, <1>7 DEF WidsAgree
<1>15. Agrees(l2, q, t2, s, deletedDefs)
  BY <1>10, <1>11, <1>13, <1>14 DEF Agrees
<1> QED BY <1>0, <1>3, <1>4, <1>7, <1>10, <1>15, MinterKeeps DEF q, s

\* Starting an ID token, an app-only token or a managed identity's token
LEMMA FreshKeeps ==
    ASSUME MintingInv, Watch, NEW r \in Minters, NEW m \in Mint, NEW l \in {"lifetime", "assigned", "managed"},
           NEW c \in ClaimConfigs, NEW a \in Apps,
           pc' = [pc EXCEPT ![r] = l], SetMint(r, m), SetToken(r, NewToken(c, a)), UNCHANGED <<tables, gmc>>,
           \/ l = "lifetime" /\ m.kind = "id"
           \/ l = "assigned" /\ m.kind = "app" /\ m.aud = a
           \/ l = "managed" /\ m.kind = "managed"
    PROVE  MintingInv'
<1> DEFINE t == NewToken(c, a)
<1>1. t \in Token /\ t.res = a /\ Unread(l, t)
  BY NewTyped, NewTokenUnread
<1> HIDE DEF t
<1>2. ResourceKnown(l, m, t) /\ l \in Fresh /\ l \in Labels /\ l \in Stages(m.kind)
  BY <1>1 DEF ResourceKnown, Fresh, Labels, Stages
<1>3. Agrees(l, m, t, seen[r], deletedDefs)
  BY <1>1, <1>2, FreshAgrees
<1> QED BY <1>1, <1>2, <1>3, MinterKeeps DEF t

LEMMA StartsKeep ==
    ASSUME MintingInv, Watch, NEW r \in Minters,
           \/ StartIDToken(r)
           \/ \E c \in Clients, a \in Apps : GrantClientCredentials(r, c, a)
           \/ \E c \in Clients, a \in Apps \cup {Graph} : handleMSIToken(r, c, a)
    PROVE  MintingInv'
<1>0. NoMint \in Mint /\ AnApp \in Apps /\ "None" \in ClaimConfigs
  BY NewTyped, MintingAssumptions
<1>1. CASE StartIDToken(r)
  <2> DEFINE m == [NoMint EXCEPT !.kind = "id", !.client = mint[r].client, !.user = mint[r].user,
                                 !.own = mint[r].own]
  <2>1. mint[r] \in Mint
    BY ReaderFacts
  <2>2. m \in Mint /\ m.kind = "id" /\ mint[r].own \in ClaimConfigs /\ mint[r].client \in Apps
    BY <1>0, <2>1 DEF Mint
  <2>3. /\ SetMint(r, m) /\ SetToken(r, NewToken(mint[r].own, mint[r].client))
        /\ pc' = [pc EXCEPT ![r] = "lifetime"] /\ UNCHANGED <<tables, gmc>>
    BY <1>1 DEF StartIDToken, Step
  <2> HIDE DEF m
  <2> QED BY <2>2, <2>3, FreshKeeps
<1>2. ASSUME NEW c \in Clients, NEW a \in Apps, GrantClientCredentials(r, c, a)
      PROVE  MintingInv'
  <2> DEFINE m == [NoMint EXCEPT !.kind = "app", !.client = c, !.aud = a]
  <2>1. m \in Mint /\ m.kind = "app" /\ m.aud = a
    BY <1>0, TenantAssumptions DEF Mint
  <2>2. /\ SetMint(r, m) /\ SetToken(r, NewToken("None", a))
        /\ pc' = [pc EXCEPT ![r] = "assigned"] /\ UNCHANGED <<tables, gmc>>
    BY <1>2 DEF GrantClientCredentials, Start
  <2> HIDE DEF m
  <2> QED BY <1>0, <2>1, <2>2, FreshKeeps
<1>3. ASSUME NEW c \in Clients, NEW a \in Apps \cup {Graph}, handleMSIToken(r, c, a)
      PROVE  MintingInv'
  <2> DEFINE m == [NoMint EXCEPT !.kind = "managed", !.client = c, !.aud = a]
  <2>1. m \in Mint /\ m.kind = "managed"
    BY <1>0, TenantAssumptions DEF Mint
  <2>2. /\ SetMint(r, m) /\ SetToken(r, NewToken("None", AnApp))
        /\ pc' = [pc EXCEPT ![r] = "managed"] /\ UNCHANGED <<tables, gmc>>
    BY <1>3 DEF handleMSIToken, Start, NoToken
  <2> HIDE DEF m
  <2> QED BY <1>0, <2>1, <2>2, FreshKeeps
<1> QED BY <1>1, <1>2, <1>3

\* An app-only token's next statement, when what it reads of the roles agrees
LEMMA RolesReadKeeps ==
    ASSUME MintingInv, Watch, NEW r \in Minters, NEW t \in Token, NEW l \in {"fallback", "appLifetime"},
           mint[r].kind \in {"app", "managed"},
           pc' = [pc EXCEPT ![r] = l], SetToken(r, t), UNCHANGED <<tables, gmc, mint>>,
           mint[r].kind = "app" \/ l = "fallback" => t.res = mint[r].aud,
           mint[r].kind = "app" /\ l = "fallback" => "none" \in seen[r].has,
           l = "appLifetime" => \/ {"some", "none"} \subseteq seen[r].has
                                \/ "foreign" \in seen[r].has
                                \/ t.roles \in seen[r].roles
    PROVE  MintingInv'
<1> DEFINE q == mint[r]
           s == seen[r]
<1>0. q \in Mint /\ mint = [mint EXCEPT ![r] = q] /\ pc[r] \in Stages(q.kind)
  BY ReaderFacts
<1>1. Active(r) /\ SetMint(r, q)
  BY <1>0 DEF Active, Stages, SetMint
<1>2. q.kind \in {"app", "managed"}
  OBVIOUS
<1>3. ResourceKnown(l, q, t)
  BY <1>2 DEF ResourceKnown
<1>4. RolesAgree(l, q, t, s)
  BY <1>2 DEF RolesAgree
<1> HIDE DEF q, s
<1>5. l \in Labels /\ l \in Stages(q.kind) /\ Unread(l, t)
  BY <1>2 DEF Labels, Stages, Unread
<1>6. ScopesAgree(l, q, t, s) /\ GroupsAgree(l, q, t, s)
  BY <1>2 DEF ScopesAgree, GroupsAgree
<1>7. WidsAgree(l, q, t, s, deletedDefs) /\ LifetimesAgree(l, q, t, s)
  BY <1>2 DEF WidsAgree, LifetimesAgree
<1>8. Agrees(l, q, t, s, deletedDefs)
  BY <1>3, <1>4, <1>5, <1>6, <1>7 DEF Agrees
<1> QED BY <1>0, <1>1, <1>5, <1>8, MinterKeeps DEF q, s

LEMMA RoleStepsKeep ==
    ASSUME MintingInv, Watch, NEW r \in Minters, ReadAssigned(r) \/ ReadFallback(r) \/ findResourceApp(r)
    PROVE  MintingInv'
<1> DEFINE q == mint[r]
           t == token[r]
           s == seen[r]
<1>0. /\ q \in Mint /\ t \in Token /\ pc[r] \in Stages(q.kind) /\ ConsentTypeOK
      /\ Agrees(pc[r], q, t, s, deletedDefs) /\ token = [token EXCEPT ![r] = t]
      /\ Active(r) => Covers(s, Current(q))
      /\ apps \subseteq Apps
  BY ReaderFacts DEF TenantTypeOK
<1>1. pc[r] \in {"assigned", "fallback", "managed"}
  BY DEF ReadAssigned, ReadFallback, findResourceApp, Step
<1>2. /\ q.kind \in {"app", "managed"}
      /\ pc[r] = "assigned" => q.kind = "app"
      /\ pc[r] = "managed" => q.kind = "managed"
  <2>1. q.kind \in {"none", "access", "id", "app", "managed"}
    BY <1>0 DEF Mint
  <2> QED BY <1>0, <1>1, <2>1 DEF Stages
<1>3. /\ q.kind = "app" => /\ RolesNow(q.client, q.aud) \in s.roles
                           /\ (IF AssignedNow(q.client, q.aud) # {} THEN "some" ELSE "none") \in s.has
                           /\ ForeignNow(q.client, q.aud) => "foreign" \in s.has
      /\ q.kind = "managed" => ManagedNow(q.aud) \in s.roles
  <2>1. Covers(s, Current(q))
    BY <1>0, <1>1, <1>2 DEF Active
  <2> HIDE DEF q, s
  <2> QED BY <1>2, <2>1 DEF Covers, Current, Answer
<1>4. q.kind = "app" \/ pc[r] = "fallback" => t.res = q.aud
  BY <1>0, <1>2 DEF Agrees, ResourceKnown
<1>5. UNCHANGED <<tables, gmc, mint>>
  BY DEF ReadAssigned, ReadFallback, findResourceApp
<1>6. \A a : EnabledAppRoleValues(a) \in SUBSET RoleValues
  BY <1>0 DEF EnabledAppRoleValues, LiveRoles, ConsentTypeOK, AppRole
<1>7. CASE ReadAssigned(r)
  <2>1. pc[r] = "assigned" /\ q.kind = "app" /\ t.res = q.aud
    BY <1>2, <1>4, <1>7 DEF ReadAssigned, Step
  <2>2. CASE HasAssignment(q.client, t.res)
    <3> DEFINE v == AssignedAppRoleValues(q.client, t.res)
               t2 == [t EXCEPT !.roles = v]
    <3>1. SetToken(r, t2) /\ pc' = [pc EXCEPT ![r] = "appLifetime"]
      BY <1>7, <2>2 DEF ReadAssigned, Step
    <3>2. ForeignNow(q.client, q.aud) \/ v = RolesNow(q.client, q.aud)
      BY <1>0, <2>1, <2>2, RolesAreNow
    <3>3. "foreign" \in s.has \/ v \in s.roles
      BY <1>3, <2>1, <3>2
    <3>4. v \in SUBSET RoleValues
      BY <1>0 DEF AssignedAppRoleValues, LiveRoles, ConsentTypeOK, AppRole
    <3> HIDE DEF v
    <3>5. t2 \in Token /\ t2.roles = v /\ t2.res = t.res
      BY <1>0, <3>4 DEF Token
    <3> HIDE DEF t2
    <3> QED BY <1>2, <1>5, <2>1, <3>1, <3>3, <3>5, RolesReadKeeps
  <2>3. CASE ~HasAssignment(q.client, t.res)
    <3>1. SetToken(r, t) /\ pc' = [pc EXCEPT ![r] = "fallback"]
      BY <1>0, <1>7, <2>3 DEF ReadAssigned, Step, SetToken
    <3>2. "none" \in s.has
      BY <1>3, <2>1, <2>3, HasIsNow
    <3> QED BY <1>0, <1>2, <1>5, <2>1, <3>1, <3>2, RolesReadKeeps
  <2> QED BY <2>2, <2>3
<1>8. CASE ReadFallback(r)
  <2> DEFINE v == EnabledAppRoleValues(t.res)
             t2 == [t EXCEPT !.roles = v]
  <2>1. pc[r] = "fallback" /\ t.res = q.aud
    BY <1>4, <1>8 DEF ReadFallback, Step
  <2>2. SetToken(r, t2) /\ pc' = [pc EXCEPT ![r] = "appLifetime"]
    BY <1>8 DEF ReadFallback, Step
  <2>3. v \in SUBSET RoleValues
    BY <1>6
  <2>4. {"some", "none"} \subseteq s.has \/ v \in s.roles
    <3>1. CASE q.kind = "managed"
      BY <1>0, <1>3, <2>1, <3>1, RolesAreNow
    <3>2. CASE q.kind = "app" /\ ~HasAssignment(q.client, q.aud)
      BY <1>0, <1>3, <2>1, <3>2, RolesAreNow
    <3>3. CASE q.kind = "app" /\ HasAssignment(q.client, q.aud)
      <4>1. "none" \in s.has
        BY <1>0, <2>1, <3>3 DEF Agrees, RolesAgree
      <4>2. "some" \in s.has
        BY <1>3, <3>3, HasIsNow
      <4> QED BY <4>1, <4>2
    <3> QED BY <1>2, <3>1, <3>2, <3>3
  <2> HIDE DEF v
  <2>5. t2 \in Token /\ t2.roles = v /\ t2.res = t.res
    BY <1>0, <2>3 DEF Token
  <2> HIDE DEF t2
  <2> QED BY <1>2, <1>5, <2>1, <2>2, <2>4, <2>5, RolesReadKeeps
<1>9. CASE findResourceApp(r)
  <2>1. pc[r] = "managed" /\ q.kind = "managed" /\ t.roles = {}
    BY <1>0, <1>2, <1>9 DEF findResourceApp, Step, Agrees, Unread
  <2>2. CASE q.aud \in apps
    <3> DEFINE t2 == [t EXCEPT !.res = q.aud]
    <3>1. SetToken(r, t2) /\ pc' = [pc EXCEPT ![r] = "fallback"]
      BY <1>9, <2>2 DEF findResourceApp, Step
    <3>2. q.aud \in Apps
      BY <1>0, <2>2
    <3>3. t2 \in Token /\ t2.res = q.aud
      BY <1>0, <3>2 DEF Token
    <3> HIDE DEF t2
    <3> QED BY <1>2, <1>5, <2>1, <3>1, <3>3, RolesReadKeeps
  <2>3. CASE q.aud \notin apps
    <3>1. SetToken(r, t) /\ pc' = [pc EXCEPT ![r] = "appLifetime"]
      BY <1>0, <1>9, <2>3 DEF findResourceApp, Step, SetToken
    <3>2. ManagedNow(q.aud) = {}
      BY <1>0, <2>3, RolesAreNow
    <3>3. t.roles \in s.roles
      BY <1>3, <2>1, <3>2
    <3> QED BY <1>0, <1>2, <1>5, <2>1, <3>1, <3>3, RolesReadKeeps
  <2> QED BY <2>2, <2>3
<1> QED BY <1>7, <1>8, <1>9

LEMMA RespondKeeps ==
    ASSUME MintingInv, Watch, NEW r \in Minters, Respond(r)
    PROVE  MintingInv'
  BY EndKeeps DEF Respond, Step

-----------------------------------------------------------------------------

LEMMA MintingInvInit == Init => MintingInv
<1> SUFFICES ASSUME Init PROVE MintingInv
  OBVIOUS
<1>1. TypeOK
  <2>1. TenantTypeOK
    BY TenantAssumptions DEF Init, TenantInit, TenantTypeOK
  <2>2. ConsentTypeOK
    BY ConsentAssumptions DEF Init, ConsentInit, ConsentTypeOK
  <2>3. pc \in [Requests -> Labels] /\ \A r \in Requests : pc[r] = "new"
    BY DEF Init, TenantInit, Labels
  <2>4. RolesTypeOK
    BY <2>3, RolesAssumptions DEF Init, RolesInit, RolesTypeOK, Requests
  <2>5. LifetimesTypeOK
    BY LifetimesAssumptions DEF Init, LifetimesInit, LifetimesTypeOK
  <2>6. gmc \in [Apps -> ClaimConfigs]
    BY MintingAssumptions DEF Init
  <2>7. mint \in [Minters -> Mint] /\ token \in [Minters -> Token] /\ seen \in [Minters -> Seen]
    BY NewTyped DEF Init
  <2>8. \A r \in Minters : pc[r] \in Stages(mint[r].kind)
    BY <2>3, NewTyped DEF Init, Stages, Requests
  <2> QED BY <2>1, <2>2, <2>3, <2>4, <2>5, <2>6, <2>7, <2>8 DEF TypeOK
<1>2. RolesKnown
  BY DEF Init, RolesInit, RolesKnown, TenantInit, Requests
<1>3. OnePolicyEach
  BY DEF Init, LifetimesInit, OnePolicyEach
<1>4. ClaimsAgree
  <2> SUFFICES ASSUME NEW r \in Minters
               PROVE  /\ Agrees(pc[r], mint[r], token[r], seen[r], deletedDefs)
                      /\ Active(r) => Covers(seen[r], Current(mint[r]))
    BY DEF ClaimsAgree
  <2>1. pc[r] = "new" /\ mint[r] = NoMint /\ token[r] = NoToken /\ NoMint.kind = "none"
    BY NewTyped DEF Init, TenantInit, Requests
  <2>2. ResourceKnown("new", NoMint, NoToken) /\ "new" \in Fresh
    BY <2>1 DEF ResourceKnown, Fresh
  <2>3. Unread("new", NoToken)
    BY NewTokenUnread DEF NoToken
  <2>4. Agrees("new", NoMint, NoToken, seen[r], deletedDefs)
    BY <2>2, <2>3, FreshAgrees
  <2>5. ~Active(r)
    BY <2>1 DEF Active
  <2> QED BY <2>1, <2>4, <2>5
<1> QED BY <1>1, <1>2, <1>3, <1>4 DEF MintingInv

LEMMA MintingInvStep == MintingInv /\ [Next]_vars => MintingInv'
<1> SUFFICES ASSUME MintingInv, [Next]_vars PROVE MintingInv'
  OBVIOUS
<1>1. CASE Next
  <2>0. Watch
    BY <1>1 DEF Next
  <2>1. CASE TenantNext /\ UNCHANGED <<consentVars, rolesVars, mintVars>>
    BY <2>0, <2>1, TenantKeeps
  <2>2. CASE ConsentNext /\ UNCHANGED <<tenantVars, rolesVars, lifetimeVars, mintVars>>
    BY <2>0, <2>2, ConsentKeeps
  <2>3. CASE RolesNext /\ UNCHANGED <<tenantVars, consentVars, lifetimeVars, mintVars>>
    BY <2>0, <2>3, RolesKeeps
  <2>4. CASE LifetimesNext /\ UNCHANGED <<tenantVars, consentVars, rolesVars, mintVars>>
    BY <2>0, <2>4, LifetimesKeeps
  <2>5. CASE MintNext
    <3>1. PICK r \in Minters :
            \/ \E c \in Clients, u \in Users, a \in Apps \cup {Graph}, S \in SUBSET Scopes, o \in BOOLEAN :
                   Begin(r, c, u, a, S, o)
            \/ (\E s \in Scopes : ResolveScope(r, s)) \/ Resolved(r)
            \/ \E l \in LifetimeReads : ReadAssignedPolicy(r, l) \/ ReadDefaultPolicy(r, l)
            \/ FindResource(r) \/ ReadConsent(r) \/ ReadGroups(r) \/ ReadWids(r)
            \/ StartIDToken(r) \/ Respond(r)
            \/ \E c \in Clients, a \in Apps : GrantClientCredentials(r, c, a)
            \/ ReadAssigned(r) \/ ReadFallback(r) \/ findResourceApp(r)
            \/ \E c \in Clients, a \in Apps \cup {Graph} : handleMSIToken(r, c, a)
      BY <2>5 DEF MintNext, GrantPassword, GrantOnBehalfOf
    <3>2. CASE \E c \in Clients, u \in Users, a \in Apps \cup {Graph}, S \in SUBSET Scopes, o \in BOOLEAN :
                   Begin(r, c, u, a, S, o)
      BY <2>0, <3>2, BeginKeeps, TenantAssumptions
    <3>3. CASE \E l \in LifetimeReads : ReadAssignedPolicy(r, l) \/ ReadDefaultPolicy(r, l)
      BY <2>0, <3>3, LifetimeReadKeeps
    <3>4. CASE StartIDToken(r) \/ (\E c \in Clients, a \in Apps : GrantClientCredentials(r, c, a))
               \/ (\E c \in Clients, a \in Apps \cup {Graph} : handleMSIToken(r, c, a))
      BY <2>0, <3>4, StartsKeep
    <3>5. CASE (\E s \in Scopes : ResolveScope(r, s)) \/ Resolved(r)
      BY <2>0, <3>5, ResolveKeeps
    <3>6. CASE FindResource(r) \/ ReadConsent(r)
      BY <2>0, <3>6, FindResourceKeeps, ReadConsentKeeps
    <3>7. CASE ReadGroups(r) \/ ReadWids(r)
      BY <2>0, <3>7, ReadGroupsKeeps, ReadWidsKeeps
    <3>8. CASE Respond(r)
      BY <2>0, <3>8, RespondKeeps
    <3>9. CASE ReadAssigned(r) \/ ReadFallback(r) \/ findResourceApp(r)
      BY <2>0, <3>9, RoleStepsKeep
    <3> QED BY <3>1, <3>2, <3>3, <3>4, <3>5, <3>6, <3>7, <3>8, <3>9
  <2>6. CASE \E r \in Writers, a \in Apps, c \in ClaimConfigs : PatchApp(r, a, c)
    BY <2>0, <2>6, PatchAppKeeps
  <2> QED BY <1>1, <2>1, <2>2, <2>3, <2>4, <2>5, <2>6 DEF Next
<1>2. CASE UNCHANGED vars
  <2>1. UNCHANGED <<pc, users, apps, members, scopeRows, appRoles, grants, assigns>>
    BY <1>2 DEF vars, tenantVars, consentVars
  <2>2. UNCHANGED <<roleDefs, roleAssigns, units, unitMembers, pending, deletedDefs>>
    BY <1>2 DEF vars, rolesVars
  <2>3. UNCHANGED <<policies, inForce, gmc, mint, token, seen>>
    BY <1>2 DEF vars, lifetimeVars, mintVars
  <2>4. TypeOK'
    BY <2>1, <2>2, <2>3 DEF MintingInv, TypeOK, TenantTypeOK, ConsentTypeOK, RolesTypeOK, LifetimesTypeOK
  <2>5. RolesKnown' /\ OnePolicyEach'
    BY <2>1, <2>2, <2>3 DEF MintingInv, RolesKnown, OnePolicyEach, DefIds
  <2>6. ASSUME NEW r \in Minters PROVE Current(mint[r])' = Current(mint[r])
    BY <2>1, <2>2, <2>3 DEF Current, ScopesNow, RolesNow, ForeignNow, AssignedNow, ManagedNow, GroupsNow, WidsNow,
                            OwnNow, DefaultNow
  <2>7. ClaimsAgree'
    BY <2>1, <2>2, <2>3, <2>6 DEF MintingInv, ClaimsAgree, Active
  <2> QED BY <2>4, <2>5, <2>7 DEF MintingInv
<1> QED BY <1>1, <1>2

LEMMA MintingInvHolds == Spec => []MintingInv
<1> QED BY MintingInvInit, MintingInvStep, PTL DEF Spec

\* The tables, requests and history keep their types, and every request is at
\* a statement that its kind of token has.
THEOREM TypeCorrect == Spec => []TypeOK
<1>1. MintingInv => TypeOK
  BY DEF MintingInv
<1> QED BY <1>1, MintingInvHolds, PTL

\* The scp of an access token is what the consent grants allowed its user at
\* some moment of the request (mintAccessDelegated, ConsentedScopes), for any
\* number of requests that change grants meanwhile.
THEOREM ScopesAreInForce == Spec => []ScopesInForce
<1>1. MintingInv => ScopesInForce
  BY DEF MintingInv, ClaimsAgree, Agrees, ScopesAgree, ScopesInForce, Signed
<1> QED BY <1>1, MintingInvHolds, PTL

\* The roles of an app-only token are the resource's roles that assignments, or
\* without any its enabled ones, gave the client at some moment of the request,
\* unless the first assignment came or the last one went meanwhile or one is of
\* another app's role
\* (grantClientCredentials, handleMSIToken).
THEOREM RolesAreInForce == Spec => []RolesInForce
<1>1. MintingInv => RolesInForce
  <2> SUFFICES ASSUME MintingInv, NEW r \in Minters, Signed(r), mint[r].kind \in {"app", "managed"},
                      ~({"some", "none"} \subseteq seen[r].has), "foreign" \notin seen[r].has
               PROVE  token[r].roles \in seen[r].roles
    BY DEF RolesInForce
  <2>1. pc[r] \in Stages(mint[r].kind) /\ RolesAgree(pc[r], mint[r], token[r], seen[r])
    BY DEF MintingInv, TypeOK, ClaimsAgree, Agrees
  <2>2. pc[r] = "send"
    BY <2>1 DEF Stages, Signed
  <2> QED BY <2>1, <2>2 DEF RolesAgree
<1> QED BY <1>1, MintingInvHolds, PTL

\* Groups, overage marker and directory roles of a user's token are those of
\* some moment of the request (applyTokenConfig), for any number of groups,
\* any limit and any race of assignments with deletions.
THEOREM DirectoryClaimsAreInForce == Spec => []DirectoryClaimsInForce
<1>1. MintingInv => DirectoryClaimsInForce
  <2> SUFFICES ASSUME MintingInv, NEW r \in Minters, Signed(r), mint[r].kind \in {"access", "id"},
                      token[r].conf # "None"
               PROVE  IF token[r].over
                      THEN /\ token[r].groups = {} /\ token[r].wids = {}
                           /\ \E gs \in seen[r].groups : Cardinality(gs) > Limit
                      ELSE /\ token[r].groups \in seen[r].groups /\ Cardinality(token[r].groups) <= Limit
                           /\ token[r].conf \in {"DirectoryRole", "All"} =>
                                  token[r].wids \ deletedDefs \in seen[r].wids
    BY DEF DirectoryClaimsInForce
  <2>1. /\ GroupsAgree(pc[r], mint[r], token[r], seen[r])
        /\ WidsAgree(pc[r], mint[r], token[r], seen[r], deletedDefs)
    BY DEF MintingInv, ClaimsAgree, Agrees
  <2>2. /\ token[r].over => /\ token[r].groups = {} /\ token[r].wids = {}
                            /\ \E gs \in seen[r].groups : Cardinality(gs) > Limit
        /\ ~token[r].over => token[r].groups \in seen[r].groups /\ Cardinality(token[r].groups) <= Limit
    BY <2>1 DEF GroupsAgree, Signed
  <2>3. ASSUME ~token[r].over, token[r].conf \in {"DirectoryRole", "All"}
        PROVE  token[r].wids \ deletedDefs \in seen[r].wids
    <3>1. token[r].wids \subseteq BuiltIn \cup deletedDefs /\ token[r].wids \cap BuiltIn \in seen[r].wids
      BY <2>1, <2>3 DEF WidsAgree, Signed
    <3>2. deletedDefs \cap BuiltIn = {}
      BY RolesAssumptions DEF MintingInv, TypeOK, RolesTypeOK
    <3>3. token[r].wids \ deletedDefs = token[r].wids \cap BuiltIn
      BY <3>1, <3>2
    <3> QED BY <3>1, <3>3
  <2> QED BY <2>2, <2>3
<1> QED BY <1>1, MintingInvHolds, PTL

\* An app has one lifetime policy at most, and the lifetime of a token and its
\* expires_in are each those of a policy, or of the default, that was in force
\* at some moment of the request (lifetimesFor, AssignTokenLifetimePolicy).
THEOREM LifetimesAreInForce == Spec => []LifetimesInForce
<1>1. MintingInv => LifetimesInForce
  <2> SUFFICES ASSUME MintingInv
               PROVE  /\ \A x, y \in inForce : x[1] = y[1] => x = y
                      /\ \A r \in Minters :
                             /\ Signed(r) => token[r].life \in Allowed(seen[r])
                             /\ pc[r] = "send" /\ mint[r].kind # "id" => token[r].said \in Allowed(seen[r])
    BY DEF LifetimesInForce, Allowed
  <2>1. \A x, y \in inForce : x[1] = y[1] => x = y
    BY DEF MintingInv, OnePolicyEach
  <2>2. ASSUME NEW r \in Minters PROVE LifetimesAgree(pc[r], mint[r], token[r], seen[r])
    BY DEF MintingInv, ClaimsAgree, Agrees
  <2> QED BY <2>1, <2>2 DEF LifetimesAgree, Signed
<1> QED BY <1>1, MintingInvHolds, PTL
=============================================================================
