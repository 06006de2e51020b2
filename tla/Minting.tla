------------------------------ MODULE Minting -------------------------------
(***************************************************************************)
(* Minting tokens from the tables of Consent, Roles and Lifetimes while    *)
(* Graph and admin requests change them: ResolveDelegatedScopes,           *)
(* BuildDelegatedResponse, mintAccessDelegated, mintIDToken and            *)
(* applyTokenConfig for a password or On-Behalf-Of grant, and the roles of *)
(* grantClientCredentials (identity/ropc.go, obo.go, token.go, scopes.go,  *)
(* msi.go, tokens/service.go).  Every claim is read by a statement of its  *)
(* own, so a token may show the directory at several moments.              *)
(***************************************************************************)
EXTENDS Consent, Roles, Lifetimes

CONSTANTS
    Limit,          \* groupOverageLimit
    ClaimConfigs    \* values of groupMembershipClaims

ASSUME MintingAssumptions ==
    /\ Limit \in Nat
    /\ IsFiniteSet(Groups)
    /\ Apps # {}
    /\ ClaimConfigs \subseteq {"None", "SecurityGroup", "DirectoryRole", "All"}
    /\ {"None", "All"} \subseteq ClaimConfigs

VARIABLES
    gmc,        \* app_registrations.group_membership_claims
    mint,       \* what the token being minted was asked for
    token,      \* its claims, and what they are read by
    seen        \* history: what was in force while a token was being minted

mintVars == <<gmc, mint, token>>
vars == <<pc, tenantVars, consentVars, rolesVars, lifetimeVars, mintVars, seen>>
tables == <<tenantVars, consentVars, rolesVars, lifetimeVars>>

\* todo: scopes that are not resolved yet; own: the client's token
\* configuration when its row was read
Mint == [kind: {"none", "access", "id", "app", "managed"},
         client: Apps, user: Users \cup {None}, aud: Apps \cup {Graph},
         todo: SUBSET Scopes, scopes: SUBSET Scopes, openid: BOOLEAN,
         own: ClaimConfigs]

\* conf and res: the token configuration that applies, and the resource app
Token == [conf: ClaimConfigs, res: Apps,
          life: Nat, said: Nat, scp: SUBSET Scopes,
          groups: SUBSET Groups, over: BOOLEAN, wids: SUBSET (BuiltIn \cup Ids),
          roles: SUBSET RoleValues]

AnApp == CHOOSE a \in Apps : TRUE
NoMint == [kind |-> "none", client |-> AnApp, user |-> None, aud |-> Graph,
           todo |-> {}, scopes |-> {}, openid |-> FALSE, own |-> "None"]
NewToken(c, a) == [conf |-> c, res |-> a, life |-> 0, said |-> 0, scp |-> {},
                   groups |-> {}, over |-> FALSE, wids |-> {}, roles |-> {}]
NoToken == NewToken("None", AnApp)

SetMint(r, m) == mint' = [mint EXCEPT ![r] = m]
SetToken(r, t) == token' = [token EXCEPT ![r] = t]

-----------------------------------------------------------------------------
\* Starting a token

\* The client's row is read once; its token configuration is kept from here.
Begin(r, client, user, aud, scopes, openid) ==
    /\ Start(r, "resolve")
    /\ client \in apps /\ user \in users
    /\ SetMint(r, [kind |-> "access", client |-> client, user |-> user, aud |-> aud,
                   todo |-> scopes, scopes |-> scopes, openid |-> openid,
                   own |-> gmc[client]])
    /\ SetToken(r, NewToken(gmc[client], client))
    /\ UNCHANGED <<tables, gmc>>

\* grantResourceOwnerPassword, after the client and the password are verified
GrantPassword(r, client, user, aud, scopes, openid) ==
    Begin(r, client, user, aud, scopes, openid)

\* grantOnBehalfOf: the assertion is an access token of the user addressed to
\* the client.
GrantOnBehalfOf(r, client, user, aud, scopes, openid) ==
    Begin(r, client, user, aud, scopes, openid)

\* ResolveDelegatedScopes, scope by scope; one that is not registered ends
\* the request.
ResolveScope(r, s) ==
    /\ s \in mint[r].todo
    /\ \/ /\ Resolves(mint[r].aud, s)
          /\ Step(r, "resolve", "resolve")
          /\ SetMint(r, [mint[r] EXCEPT !.todo = mint[r].todo \ {s}])
          /\ UNCHANGED token
       \/ /\ ~Resolves(mint[r].aud, s)
          /\ Step(r, "resolve", "done")
          /\ SetMint(r, NoMint) /\ SetToken(r, NoToken)
    /\ UNCHANGED <<tables, gmc>>

Resolved(r) ==
    /\ mint[r].todo = {}
    /\ Step(r, "resolve", "lifetime")
    /\ UNCHANGED <<tables, mintVars>>

-----------------------------------------------------------------------------
\* mintAccessDelegated and, with openid, mintIDToken

\* lifetimesFor is read for exp and a second time for the response's
\* expires_in; an app-only token takes both from one read.
LifetimeReads == {"lifetime", "expires", "appLifetime"}

DefaultOf(l) == CASE l = "lifetime" -> "lifetimeDefault"
                  [] l = "expires" -> "expiresDefault"
                  [] l = "appLifetime" -> "appLifetimeDefault"

After(l, kind) ==
    CASE l # "lifetime" -> "send"
      [] l = "lifetime" /\ kind = "id" -> "groups"
      [] l = "lifetime" /\ kind # "id" -> "resource"

TookLifetime(t, l, sec) ==
    CASE l = "lifetime" -> [t EXCEPT !.life = sec]
      [] l = "expires" -> [t EXCEPT !.said = sec]
      [] l = "appLifetime" -> [t EXCEPT !.life = sec, !.said = sec]

\* EffectiveTokenLifetimes: the policy assigned to the client ...
ReadAssignedPolicy(r, l) ==
    /\ \/ \E def \in AssignedLifetimes(mint[r].client) :
             /\ Step(r, l, After(l, mint[r].kind))
             /\ SetToken(r, TookLifetime(token[r], l, LifetimeFrom(def, mint[r].kind)))
       \/ /\ AssignedLifetimes(mint[r].client) = {}
          /\ Step(r, l, DefaultOf(l))
          /\ UNCHANGED token
    /\ UNCHANGED <<tables, gmc, mint>>

\* ... or, in a second statement, the organization's default
ReadDefaultPolicy(r, l) ==
    /\ \E def \in DefaultLifetimes :
          /\ Step(r, DefaultOf(l), After(l, mint[r].kind))
          /\ SetToken(r, TookLifetime(token[r], l, LifetimeFrom(def, mint[r].kind)))
    /\ UNCHANGED <<tables, gmc, mint>>

\* The resource app, for its token configuration and its consent grants: the
\* client itself when the audience is Graph or is no app any more.
FindResource(r) ==
    /\ Step(r, "resource", "consent")
    /\ SetToken(r, IF mint[r].aud \in apps
                   THEN [token[r] EXCEPT !.res = mint[r].aud, !.conf = gmc[mint[r].aud]]
                   ELSE [token[r] EXCEPT !.res = mint[r].client, !.conf = mint[r].own])
    /\ UNCHANGED <<tables, gmc, mint>>

ReadConsent(r) ==
    /\ Step(r, "consent", "groups")
    /\ SetToken(r, [token[r] EXCEPT
           !.scp = Scp(mint[r].client, token[r].res, mint[r].user, mint[r].scopes)])
    /\ UNCHANGED <<tables, gmc, mint>>

\* Mutant: the marker already at the limit.
OverageAtLimit(gs) == Cardinality(gs) >= Limit

\* len(groups) > limit
Overage(gs) == Cardinality(gs) > Limit

\* The token is signed; BuildDelegatedResponse goes on with the response.
AfterSigning(kind) == IF kind = "id" THEN "send" ELSE "expires"

\* applyTokenConfig's groups; with an overage it returns without the roles.
\* The optional claim "groups" asks for them as "SecurityGroup" does.
ReadGroups(r) ==
    LET gs == IF token[r].conf = "None" THEN {} ELSE ListGroupsForUser(mint[r].user)
    IN  /\ \/ /\ Overage(gs)
              /\ Step(r, "groups", AfterSigning(mint[r].kind))
              /\ SetToken(r, [token[r] EXCEPT !.over = TRUE])
           \/ /\ ~Overage(gs)
              /\ Step(r, "groups", "wids")
              /\ SetToken(r, [token[r] EXCEPT !.groups = gs])
        /\ UNCHANGED <<tables, gmc, mint>>

ReadWids(r) ==
    /\ Step(r, "wids", AfterSigning(mint[r].kind))
    /\ SetToken(r, [token[r] EXCEPT !.wids = IF token[r].conf \in {"DirectoryRole", "All"}
                                             THEN TenantWideRoleTemplateIDs(mint[r].user)
                                             ELSE {}])
    /\ UNCHANGED <<tables, gmc, mint>>

\* mintIDToken, from the client's row of the request's start
StartIDToken(r) ==
    /\ mint[r].kind = "access" /\ mint[r].openid
    /\ Step(r, "send", "lifetime")
    /\ SetMint(r, [NoMint EXCEPT !.kind = "id", !.client = mint[r].client,
                                 !.user = mint[r].user, !.own = mint[r].own])
    /\ SetToken(r, NewToken(mint[r].own, mint[r].client))
    /\ UNCHANGED <<tables, gmc>>

Respond(r) ==
    /\ ~(mint[r].kind = "access" /\ mint[r].openid)
    /\ Step(r, "send", "done")
    /\ SetMint(r, NoMint) /\ SetToken(r, NoToken)
    /\ UNCHANGED <<tables, gmc>>

-----------------------------------------------------------------------------
\* grantClientCredentials, after the client is authenticated

GrantClientCredentials(r, client, resource) ==
    /\ Start(r, "assigned")
    /\ client \in apps /\ resource \in apps
    /\ SetMint(r, [NoMint EXCEPT !.kind = "app", !.client = client, !.aud = resource])
    /\ SetToken(r, NewToken("None", resource))
    /\ UNCHANGED <<tables, gmc>>

\* Assignments for the pair decide; the fallback is a second statement.
ReadAssigned(r) ==
    LET c == mint[r].client
        a == token[r].res
    IN  /\ \/ /\ HasAssignment(c, a)
              /\ Step(r, "assigned", "appLifetime")
              /\ SetToken(r, [token[r] EXCEPT !.roles = AssignedAppRoleValues(c, a)])
           \/ /\ ~HasAssignment(c, a)
              /\ Step(r, "assigned", "fallback")
              /\ UNCHANGED token
        /\ UNCHANGED <<tables, gmc, mint>>

ReadFallback(r) ==
    /\ Step(r, "fallback", "appLifetime")
    /\ SetToken(r, [token[r] EXCEPT !.roles = EnabledAppRoleValues(token[r].res)])
    /\ UNCHANGED <<tables, gmc, mint>>

\* handleMSIToken: an identity the platform vouches for gets every enabled
\* role for applications of the resource, assigned or not, and none of a
\* resource that is no app.
handleMSIToken(r, client, resource) ==
    /\ Start(r, "managed")
    /\ client \in apps
    /\ SetMint(r, [NoMint EXCEPT !.kind = "managed", !.client = client, !.aud = resource])
    /\ SetToken(r, NoToken)
    /\ UNCHANGED <<tables, gmc>>

findResourceApp(r) ==
    /\ \/ /\ mint[r].aud \in apps
          /\ Step(r, "managed", "fallback")
          /\ SetToken(r, [token[r] EXCEPT !.res = mint[r].aud])
       \/ /\ mint[r].aud \notin apps
          /\ Step(r, "managed", "appLifetime")
          /\ UNCHANGED token
    /\ UNCHANGED <<tables, gmc, mint>>

\* patchApp of the admin API
PatchApp(r, a, c) ==
    /\ Serve(r)
    /\ a \in apps /\ gmc[a] # c
    /\ gmc' = [gmc EXCEPT ![a] = c]
    /\ UNCHANGED <<tables, mint, token>>

-----------------------------------------------------------------------------
\* What a token should say, from the tables alone

ScopesNow(c, a, u, S) ==
    {s \in S : \/ \A g \in grants : ~(g.client = c /\ g.resource = a)
               \/ \E g \in grants : /\ g.client = c /\ g.resource = a
                                    /\ g.principal = Everyone \/ g.principal = u
                                    /\ s \in g.scope}

AssignedNow(c, a) == {x.role : x \in {y \in assigns : y.principal = c /\ y.resource = a}}

\* "the set of assigned app-role values on the resource"
RolesNow(c, a) ==
    {v \in RoleValues : \E x \in appRoles : /\ x.app = a /\ a \in apps /\ x.value = v
        /\ IF AssignedNow(c, a) = {} THEN x.on /\ x.forApps
           ELSE x.id \in AssignedNow(c, a)}

\* The pair was given a role that another app declares.
ForeignNow(c, a) ==
    \E x \in appRoles : x.app \in apps \ {a} /\ x.id \in AssignedNow(c, a)

ManagedNow(a) ==
    {v \in RoleValues : \E x \in appRoles : /\ x.app = a /\ a \in apps /\ x.value = v
                                              /\ x.on /\ x.forApps}

GroupsNow(u) == {g \in Groups : u \in users /\ <<g, u>> \in members}

WidsNow(u) == {b \in BuiltIn : \E a \in roleAssigns :
                  a.role = b /\ a.principal = u /\ a.scope = Everywhere}

\* What a policy means for a token of this kind
Means(def, kind) ==
    LET set == IF kind = "id" THEN def.id ELSE def.access
    IN  IF set # 0 THEN set ELSE IF kind = "id" THEN Configured.id ELSE Configured.access

\* The lifetimes of the policies assigned to app a, and of the oldest defaults
OwnNow(a, kind) == {Means(p.def, kind) : p \in {q \in policies : <<a, q.id>> \in inForce}}
DefaultNow(kind) ==
    IF \A p \in policies : ~p.default
    THEN {IF kind = "id" THEN Configured.id ELSE Configured.access}
    ELSE {Means(p.def, kind) : p \in {q \in policies :
             q.default /\ ~\E older \in policies : older.default /\ older.at < q.at}}

\* Whether a pair had assignments ("foreign": among them one of another app's
\* role), or an app a policy: of each which answers were right at some moment
Answer(b) == IF b THEN {"some"} ELSE {"none"}

Nothing == [scp |-> {}, roles |-> {}, has |-> {}, groups |-> {}, wids |-> {},
            lifes |-> {}, own |-> {}, default |-> {}]

\* The values the tables give the token that was asked for by m
Current(m) ==
    [scp |-> IF m.kind = "access"
             THEN {ScopesNow(m.client, IF m.aud = Graph THEN m.client ELSE m.aud, m.user, m.scopes)}
             ELSE {},
     roles |-> CASE m.kind = "app" -> {RolesNow(m.client, m.aud)}
                 [] m.kind = "managed" -> {ManagedNow(m.aud)}
                 [] OTHER -> {},
     has |-> Answer(m.kind = "app" /\ AssignedNow(m.client, m.aud) # {}) \cup
                {x \in {"foreign"} : m.kind = "app" /\ ForeignNow(m.client, m.aud)},
     groups |-> IF m.kind \in {"access", "id"} THEN {GroupsNow(m.user)} ELSE {},
     wids |-> IF m.kind \in {"access", "id"} THEN {WidsNow(m.user)} ELSE {},
     lifes |-> OwnNow(m.client, m.kind),
     own |-> Answer(OwnNow(m.client, m.kind) # {}),
     default |-> DefaultNow(m.kind)]

Join(s, t) == [scp |-> s.scp \cup t.scp, roles |-> s.roles \cup t.roles,
               has |-> s.has \cup t.has, groups |-> s.groups \cup t.groups,
               wids |-> s.wids \cup t.wids, lifes |-> s.lifes \cup t.lifes,
               own |-> s.own \cup t.own, default |-> s.default \cup t.default]

\* The claims are being read
Active(r) == mint[r].kind # "none" /\ pc[r] # "resolve"

\* seen' is what was in force at any moment since the token's first read.
Watch ==
    seen' = [r \in Minters |->
                IF ~Active(r)' THEN Nothing
                ELSE IF Active(r) /\ mint[r].kind = mint'[r].kind
                THEN Join(seen[r], Current(mint[r])')
                ELSE Current(mint[r])']

-----------------------------------------------------------------------------

Init ==
    /\ TenantInit /\ ConsentInit /\ RolesInit /\ LifetimesInit
    /\ gmc = [a \in Apps |-> "All"]
    /\ mint = [r \in Minters |-> NoMint]
    /\ token = [r \in Minters |-> NoToken]
    /\ seen = [r \in Minters |-> Nothing]

TenantNext ==
    \E r \in Writers :
        \/ /\ \E u \in Users : DeleteUser(r, u) \/ RestoreUser(r, u)
           /\ UNCHANGED lifetimeVars
        \/ \E a \in Apps : DeleteApp(r, a) /\ LifetimesDropApp(a)
        \/ /\ \E a \in Apps : RestoreApp(r, a)
           /\ UNCHANGED lifetimeVars
        \/ /\ \E g \in Groups, u \in Users : AddMember(r, g, u) \/ RemoveMember(r, g, u)
           /\ UNCHANGED lifetimeVars

MintNext ==
    \E r \in Minters :
        \/ \E c \in Clients, u \in Users, a \in Apps \cup {Graph}, S \in SUBSET Scopes \ {{}}, o \in BOOLEAN :
               GrantPassword(r, c, u, a, S, o) \/ GrantOnBehalfOf(r, c, u, a, S, o)
        \/ \E s \in Scopes : ResolveScope(r, s)
        \/ Resolved(r)
        \/ \E l \in LifetimeReads : ReadAssignedPolicy(r, l) \/ ReadDefaultPolicy(r, l)
        \/ FindResource(r)
        \/ ReadConsent(r)
        \/ ReadGroups(r)
        \/ ReadWids(r)
        \/ StartIDToken(r)
        \/ Respond(r)
        \/ \E c \in Clients, a \in Apps : GrantClientCredentials(r, c, a)
        \/ ReadAssigned(r)
        \/ ReadFallback(r)
        \/ \E c \in Clients, a \in Apps \cup {Graph} : handleMSIToken(r, c, a)
        \/ findResourceApp(r)

Next ==
    /\ \/ TenantNext /\ UNCHANGED <<consentVars, rolesVars, mintVars>>
       \/ ConsentNext /\ UNCHANGED <<tenantVars, rolesVars, lifetimeVars, mintVars>>
       \/ RolesNext /\ UNCHANGED <<tenantVars, consentVars, lifetimeVars, mintVars>>
       \/ LifetimesNext /\ UNCHANGED <<tenantVars, consentVars, rolesVars, mintVars>>
       \/ MintNext
       \/ \E r \in Writers, a \in Apps, c \in ClaimConfigs : PatchApp(r, a, c)
    /\ Watch

Spec == Init /\ [][Next]_vars

-----------------------------------------------------------------------------
\* Properties

Signed(r) == pc[r] \in {"expires", "expiresDefault", "send"}

\* The scp of an access token is, from the moment it is read, what the consent
\* grants allowed its user at some moment of the request (mintAccessDelegated
\* and ConsentedScopes): no grant for another user, client or resource and no
\* half-made change widens it.  Only a token whose resource app was deleted
\* during the request is judged by the client's own grants.
ScopesInForce ==
    \A r \in Minters :
        /\ Signed(r) \/ pc[r] \in {"groups", "wids"}
        /\ mint[r].kind = "access" /\ mint[r].aud \in {Graph, token[r].res}
        => token[r].scp \in seen[r].scp

\* The roles of a signed app-only token are the resource's roles that the
\* assignments, or without any its enabled roles, gave the client at some
\* moment of the request (grantClientCredentials); a managed identity's are the
\* enabled roles of some moment (handleMSIToken).  Left out are a pair that got
\* its first assignment, or lost its last, during the request, and one that was
\* assigned a role of another app.
RolesInForce ==
    \A r \in Minters :
        /\ Signed(r) /\ mint[r].kind \in {"app", "managed"}
        /\ ~({"some", "none"} \subseteq seen[r].has) /\ "foreign" \notin seen[r].has
        => token[r].roles \in seen[r].roles

\* The same of every pair whose assignments did not come or go: "the roles claim
\* is the set of assigned app-role values on the resource".
RolesOfTheResource ==
    \A r \in Minters :
        /\ Signed(r) /\ mint[r].kind = "app"
        /\ ~({"some", "none"} \subseteq seen[r].has)
        => token[r].roles \in seen[r].roles

\* A signed token of a user carries either all the user's groups of some
\* moment of the request, at most Limit of them, or the overage marker and
\* neither groups nor roles, and then the user did have more than Limit
\* groups; and its wids are the user's tenant-wide built-in roles of some
\* moment, apart from an assignment that raced the deletion of its custom role
\* (applyTokenConfig, TenantWideRoleTemplateIDs).
DirectoryClaimsInForce ==
    \A r \in Minters :
        LET t == token[r]
        IN  Signed(r) /\ mint[r].kind \in {"access", "id"} /\ t.conf # "None" =>
            IF t.over
            THEN /\ t.groups = {} /\ t.wids = {}
                 /\ \E gs \in seen[r].groups : Cardinality(gs) > Limit
            ELSE /\ t.groups \in seen[r].groups /\ Cardinality(t.groups) <= Limit
                 /\ t.conf \in {"DirectoryRole", "All"} => t.wids \ deletedDefs \in seen[r].wids

\* An app has one lifetime policy at most, and the lifetime of a signed token
\* and the expires_in of its response are each those of the app's policy at
\* some moment of the request or, if it had none at some moment, those of the
\* organization's default, or the configured ones where the policy sets none
\* (lifetimesFor, AssignTokenLifetimePolicy).
LifetimesInForce ==
    /\ \A x, y \in inForce : x[1] = y[1] => x = y
    /\ \A r \in Minters :
           LET s == seen[r]
               allowed == s.lifes \cup (IF "none" \in s.own THEN s.default ELSE {})
           IN  /\ Signed(r) => token[r].life \in allowed
               /\ pc[r] = "send" /\ mint[r].kind # "id" => token[r].said \in allowed

-----------------------------------------------------------------------------
\* Why they hold

Seen == [scp: SUBSET SUBSET Scopes, roles: SUBSET SUBSET RoleValues,
         has: SUBSET {"some", "none", "foreign"}, groups: SUBSET SUBSET Groups,
         wids: SUBSET SUBSET BuiltIn, lifes: SUBSET Nat,
         own: SUBSET {"some", "none"}, default: SUBSET Nat]

Labels == {"new", "done", "createRoleAssignment", "addAdminUnitMember", "resolve",
           "lifetime", "lifetimeDefault", "resource", "consent", "groups", "wids",
           "expires", "expiresDefault", "send", "assigned", "fallback", "managed",
           "appLifetime", "appLifetimeDefault"}

\* Where a request for a token of each kind can be
Stages(kind) ==
    CASE kind = "none" -> {"new", "done"}
      [] kind = "access" -> {"resolve", "lifetime", "lifetimeDefault", "resource", "consent",
                             "groups", "wids", "expires", "expiresDefault", "send"}
      [] kind = "id" -> {"lifetime", "lifetimeDefault", "groups", "wids", "send"}
      [] kind = "app" -> {"assigned", "fallback", "appLifetime", "appLifetimeDefault", "send"}
      [] kind = "managed" -> {"managed", "fallback", "appLifetime", "appLifetimeDefault", "send"}

\* The tables, the requests and the history keep their types.
TypeOK ==
    /\ pc \in [Requests -> Labels]
    /\ TenantTypeOK /\ ConsentTypeOK /\ RolesTypeOK /\ LifetimesTypeOK
    /\ gmc \in [Apps -> ClaimConfigs]
    /\ mint \in [Minters -> Mint]
    /\ token \in [Minters -> Token]
    /\ seen \in [Minters -> Seen]
    /\ \A r \in Minters : pc[r] \in Stages(mint[r].kind)

\* An assignment, made or about to be made, is of a built-in role or of a
\* custom role that exists or existed.
RolesKnown ==
    LET known == BuiltIn \cup DefIds \cup deletedDefs
    IN  /\ \A a \in roleAssigns : a.role \in known
        /\ \A r \in Writers : pc[r] = "createRoleAssignment" => pending[r].role \in known

OnePolicyEach == \A x, y \in inForce : x[1] = y[1] => x = y

\* The history holds what is in force now.
Covers(s, now) ==
    /\ now.scp \subseteq s.scp /\ now.roles \subseteq s.roles /\ now.has \subseteq s.has
    /\ now.groups \subseteq s.groups /\ now.wids \subseteq s.wids
    /\ now.lifes \subseteq s.lifes /\ now.own \subseteq s.own /\ now.default \subseteq s.default

\* For a request at l for m, with the token t so far: which app is the
\* resource, and which claims are not read yet
ResourceKnown(l, m, t) ==
    /\ m.kind = "app" \/ (m.kind = "managed" /\ l = "fallback") => t.res = m.aud
    /\ l = "consent" /\ m.aud = Graph => t.res = m.client

Unread(l, t) ==
    /\ l = "managed" => t.roles = {}
    /\ l \in {"resolve", "lifetime", "lifetimeDefault", "resource", "consent", "groups"} => t.groups = {}
    /\ l \in {"resolve", "lifetime", "lifetimeDefault", "resource", "consent", "groups", "wids"} =>
           ~t.over /\ t.wids = {}

\* Each claim that is read agrees with the history s.
ScopesAgree(l, m, t, s) ==
    /\ l \in {"groups", "wids", "expires", "expiresDefault", "send"}
    /\ m.kind = "access" /\ m.aud \in {Graph, t.res}
    => t.scp \in s.scp

RolesAgree(l, m, t, s) ==
    /\ m.kind = "app" /\ l = "fallback" => "none" \in s.has
    /\ m.kind \in {"app", "managed"} /\ l \in {"appLifetime", "appLifetimeDefault", "send"} =>
           {"some", "none"} \subseteq s.has \/ "foreign" \in s.has \/ t.roles \in s.roles

GroupsAgree(l, m, t, s) ==
    /\ l \in {"wids", "expires", "expiresDefault", "send"}
    /\ m.kind \in {"access", "id"} /\ t.conf # "None"
    => IF t.over THEN /\ t.groups = {} /\ t.wids = {}
                      /\ \E gs \in s.groups : Cardinality(gs) > Limit
       ELSE t.groups \in s.groups /\ Cardinality(t.groups) <= Limit

WidsAgree(l, m, t, s, deleted) ==
    /\ l \in {"expires", "expiresDefault", "send"}
    /\ m.kind \in {"access", "id"} /\ t.conf \in {"DirectoryRole", "All"} /\ ~t.over
    => t.wids \subseteq BuiltIn \cup deleted /\ t.wids \cap BuiltIn \in s.wids

Allowed(s) == s.lifes \cup (IF "none" \in s.own THEN s.default ELSE {})
LifetimesAgree(l, m, t, s) ==
    /\ l \in {"lifetimeDefault", "expiresDefault", "appLifetimeDefault"} => "none" \in s.own
    /\ l \in {"resource", "consent", "groups", "wids", "expires", "expiresDefault", "send"} =>
           t.life \in Allowed(s)
    /\ l = "send" /\ m.kind # "id" => t.said \in Allowed(s)

Agrees(l, m, t, s, deleted) ==
    /\ ResourceKnown(l, m, t) /\ Unread(l, t)
    /\ ScopesAgree(l, m, t, s) /\ RolesAgree(l, m, t, s)
    /\ GroupsAgree(l, m, t, s) /\ WidsAgree(l, m, t, s, deleted)
    /\ LifetimesAgree(l, m, t, s)

ClaimsAgree ==
    \A r \in Minters : /\ Agrees(pc[r], mint[r], token[r], seen[r], deletedDefs)
                       /\ Active(r) => Covers(seen[r], Current(mint[r]))

MintingInv == TypeOK /\ RolesKnown /\ OnePolicyEach /\ ClaimsAgree
=============================================================================
