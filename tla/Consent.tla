------------------------------ MODULE Consent -------------------------------
(***************************************************************************)
(* Delegated consent and application permissions: the scopes and roles an  *)
(* app registration exposes (store/apps.go, admin/groups_apps.go), the     *)
(* oauth2PermissionGrants and appRoleAssignments of Graph                  *)
(* (store/consent.go, graph/consent.go), and what a token request reads of *)
(* them.                                                                   *)
(*                                                                         *)
(* An app registration is its own service principal.  Grants and           *)
(* assignments have no foreign keys: they outlive what they name.          *)
(***************************************************************************)
EXTENDS Tenant

CONSTANTS
    Scopes,         \* names of delegated scopes
    RoleValues,     \* values of app roles
    Everyone,       \* consentType AllPrincipals
    DefaultAccess,  \* ZeroGUID, the assignment without a role
    OldScopes,      \* scopes and app roles from before
    OldRoles,
    Graph           \* the audience of Microsoft Graph

AppScope == [id: Ids, app: Apps, value: Scopes, on: BOOLEAN]
AppRole == [id: Ids, app: Apps, value: RoleValues, on: BOOLEAN, forApps: BOOLEAN]
OAuth2PermissionGrant ==
    [id: Ids, client: Apps, resource: Apps,
     principal: Users \cup {Everyone}, scope: SUBSET Scopes]
AppRoleAssignment ==
    [id: Ids, principal: Users \cup Apps, resource: Apps,
     role: Ids \cup {DefaultAccess}]

ASSUME ConsentAssumptions ==
    /\ Everyone \notin Users
    /\ DefaultAccess \notin Ids
    /\ Graph \notin Apps
    /\ OldScopes \subseteq AppScope /\ OldRoles \subseteq AppRole

VARIABLES
    scopeRows,  \* app_scopes
    appRoles,   \* app_roles
    grants,     \* oauth2_permission_grants
    assigns     \* app_role_assignments

consentVars == <<scopeRows, appRoles, grants, assigns>>

ConsentTypeOK ==
    /\ scopeRows \subseteq AppScope
    /\ appRoles \subseteq AppRole
    /\ grants \subseteq OAuth2PermissionGrant
    /\ assigns \subseteq AppRoleAssignment

ConsentInit ==
    /\ scopeRows = OldScopes
    /\ appRoles = OldRoles
    /\ grants = {} /\ assigns = {}

-----------------------------------------------------------------------------
\* The statements of store/apps.go: the rows of a deleted app are gone and
\* come back with it.

ListScopes(a) == {x \in scopeRows : x.app = a /\ a \in apps}
ListRoles(a) == {x \in appRoles : x.app = a /\ a \in apps}

\* UNIQUE (app_id, value)
AddScopeRow(row) ==
    IF \E x \in scopeRows : x.app = row.app /\ x.value = row.value
    THEN scopeRows ELSE scopeRows \cup {row}
AddRoleRow(row) ==
    IF \E x \in appRoles : x.app = row.app /\ x.value = row.value
    THEN appRoles ELSE appRoles \cup {row}

\* UPDATE ... WHERE app_id = ? AND id = ?
UpdateScope(row) ==
    {IF row.id = x.id /\ x \in ListScopes(row.app) THEN row ELSE x : x \in scopeRows}
UpdateRole(row) ==
    {IF row.id = x.id /\ x \in ListRoles(row.app) THEN row ELSE x : x \in appRoles}

-----------------------------------------------------------------------------
\* The admin API: scopes and roles an app exposes

AddScope(r, a, s, on) ==
    /\ Serve(r)
    /\ a \in apps
    /\ scopeRows' = AddScopeRow([id |-> r, app |-> a, value |-> s, on |-> on])
    /\ UNCHANGED <<appRoles, grants, assigns>>

\* patchScope changes the copy it has read, from the body or not at all, and
\* writes all of it: what the row holds afterwards may be anything.
PatchScope(r, x, on) ==
    /\ Serve(r)
    /\ x \in ListScopes(x.app)
    /\ scopeRows' = UpdateScope([x EXCEPT !.on = on])
    /\ UNCHANGED <<appRoles, grants, assigns>>

DeleteScope(r, x) ==
    /\ Serve(r)
    /\ x \in ListScopes(x.app)
    /\ scopeRows' = scopeRows \ {x}
    /\ UNCHANGED <<appRoles, grants, assigns>>

AddRole(r, a, v, forApps) ==
    /\ Serve(r)
    /\ a \in apps
    /\ appRoles' = AddRoleRow([id |-> r, app |-> a, value |-> v, on |-> TRUE,
                               forApps |-> forApps])
    /\ UNCHANGED <<scopeRows, grants, assigns>>

PatchRole(r, x, on, forApps) ==
    /\ Serve(r)
    /\ x \in ListRoles(x.app)
    /\ appRoles' = UpdateRole([x EXCEPT !.on = on, !.forApps = forApps])
    /\ UNCHANGED <<scopeRows, grants, assigns>>

DeleteRole(r, x) ==
    /\ Serve(r)
    /\ x \in ListRoles(x.app)
    /\ appRoles' = appRoles \ {x}
    /\ UNCHANGED <<scopeRows, grants, assigns>>

-----------------------------------------------------------------------------
\* Consent

\* The INSERTs of store/consent.go: no foreign key names what they refer to.
InsertGrant(g) == grants \cup {g}
InsertAssignment(x) == assigns \cup {x}

\* createOAuth2Grant: neither the client, the resource nor the principal is
\* looked up.
CreateOAuth2Grant(r, client, resource, principal, scope) ==
    /\ Serve(r)
    /\ scope # {}
    /\ grants' = InsertGrant([id |-> r, client |-> client, resource |-> resource,
                              principal |-> principal, scope |-> scope])
    /\ UNCHANGED <<scopeRows, appRoles, assigns>>

DeleteOAuth2Grant(r, g) ==
    /\ Serve(r)
    /\ g \in grants
    /\ grants' = grants \ {g}
    /\ UNCHANGED <<scopeRows, appRoles, assigns>>

\* createAppRoleAssignment; its look-up of the principal only chooses the
\* principalType that is shown.
CreateAppRoleAssignment(r, principal, resource, role) ==
    /\ Serve(r)
    /\ assigns' = InsertAssignment([id |-> r, principal |-> principal,
                                    resource |-> resource, role |-> role])
    /\ UNCHANGED <<scopeRows, appRoles, grants>>

DeleteAppRoleAssignment(r, x) ==
    /\ Serve(r)
    /\ x \in assigns
    /\ assigns' = assigns \ {x}
    /\ UNCHANGED <<scopeRows, appRoles, grants>>

-----------------------------------------------------------------------------
\* What a token request reads

\* appExposesScope of the app findResourceApp returns; Graph and the bare
\* scope names need no registration.
AppExposesScope(a, s) == \E x \in ListScopes(a) : x.value = s /\ x.on
Resolves(aud, s) == aud = Graph \/ AppExposesScope(aud, s)

\* Mutant: a Principal grant counts for every user.
ConsentToAnybody(client, resource, user) ==
    UNION {g.scope : g \in {x \in grants : x.client = client /\ x.resource = resource}}

\* The scopes of ConsentedScopes
ConsentedScopes(client, resource, user) ==
    UNION {g.scope : g \in {x \in grants : /\ x.client = client
                                           /\ x.resource = resource
                                           /\ x.principal \in {Everyone, user}}}

\* hasGrant of ConsentedScopes
HasGrant(client, resource) ==
    \E g \in grants : g.client = client /\ g.resource = resource

\* scp: without any grant for the pair everything is consented to.
Scp(client, resource, user, scopes) ==
    IF HasGrant(client, resource)
    THEN scopes \cap ConsentedScopes(client, resource, user)
    ELSE scopes

\* hasAssignment of AssignedAppRoleValues
HasAssignment(principal, resource) ==
    \E x \in assigns : x.principal = principal /\ x.resource = resource

\* Rows of app_roles that exist: an app's roles go with it and come back.
LiveRoles == {x \in appRoles : x \in ListRoles(x.app)}

\* Mutant: the assignments of every resource count.
AssignedAnywhere(principal, resource) ==
    {x.value : x \in {y \in LiveRoles : \E z \in assigns :
        z.principal = principal /\ z.role = y.id}}

\* AssignedAppRoleValues: the join is on the role's id alone, whatever app
\* the role belongs to and whether it is enabled.
AssignedAppRoleValues(principal, resource) ==
    {x.value : x \in {y \in LiveRoles : \E z \in assigns :
        z.principal = principal /\ z.resource = resource /\ z.role = y.id}}

\* The fallback: every enabled Application role of the resource
EnabledAppRoleValues(resource) ==
    {x.value : x \in {y \in LiveRoles : y.app = resource /\ y.on /\ y.forApps}}

-----------------------------------------------------------------------------

ConsentNext ==
    \E r \in Writers :
        \/ \E a \in Apps, s \in Scopes, on \in BOOLEAN : AddScope(r, a, s, on)
        \/ \E x \in scopeRows, on \in BOOLEAN : PatchScope(r, x, on)
        \/ \E x \in scopeRows : DeleteScope(r, x)
        \/ \E a \in Apps, v \in RoleValues, f \in BOOLEAN : AddRole(r, a, v, f)
        \/ \E x \in appRoles, on, f \in BOOLEAN : PatchRole(r, x, on, f)
        \/ \E x \in appRoles : DeleteRole(r, x)
        \/ \E c \in Clients, a \in Apps, p \in Users \cup {Everyone}, S \in SUBSET Scopes :
               CreateOAuth2Grant(r, c, a, p, S)
        \/ \E g \in grants : DeleteOAuth2Grant(r, g)
        \/ \E p \in Users \cup Clients, a \in Apps,
              x \in {y.id : y \in appRoles} \cup {DefaultAccess} :
               CreateAppRoleAssignment(r, p, a, x)
        \/ \E x \in assigns : DeleteAppRoleAssignment(r, x)
=============================================================================
