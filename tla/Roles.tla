------------------------------- MODULE Roles --------------------------------
(***************************************************************************)
(* Directory roles: role assignments of built-in and tenant-authored       *)
(* roles, administrative units (store/roles.go, store/customrole.go,       *)
(* store/adminunit.go and their handlers in graph/), and the wids a token  *)
(* carries.                                                                *)
(*                                                                         *)
(* Only the unit of a membership and nothing of an assignment is a foreign *)
(* key: the handlers look up what they name in a statement of its own.     *)
(***************************************************************************)
EXTENDS Tenant

CONSTANTS
    BuiltIn,        \* builtInRoleDefinitions
    OldDefs,        \* custom roles and units from before
    OldUnits,
    Everywhere      \* directory_scope_id "/"

RoleDef == [id: Ids, on: BOOLEAN]
RoleAssignment == [id: Ids, role: BuiltIn \cup Ids, principal: Users,
                   scope: {Everywhere} \cup Ids]
UnitMember == [unit: Ids, member: Users \cup Groups]

ASSUME RolesAssumptions ==
    /\ BuiltIn \cap Ids = {}
    /\ Everywhere \notin Ids
    /\ OldDefs \subseteq RoleDef /\ OldUnits \subseteq Ids

VARIABLES
    roleDefs,   \* custom_role_definitions, each with its isEnabled
    roleAssigns,\* directory_role_assignments
    units,      \* administrative_units
    unitMembers,\* administrative_unit_members
    pending,    \* the row a request is about to write
    deletedDefs \* history: ids of deleted custom roles

rolesVars == <<roleDefs, roleAssigns, units, unitMembers, pending, deletedDefs>>
unitVars == <<units, unitMembers>>

DefIds == {d.id : d \in roleDefs}

RolesTypeOK ==
    /\ roleDefs \subseteq RoleDef
    /\ roleAssigns \subseteq RoleAssignment
    /\ units \subseteq Ids
    /\ unitMembers \subseteq UnitMember
    /\ pending \in [Writers -> {None} \cup RoleAssignment \cup UnitMember]
    /\ \A r \in Writers : /\ pc[r] = "createRoleAssignment" => pending[r] \in RoleAssignment
                          /\ pc[r] = "addAdminUnitMember" => pending[r] \in UnitMember
    /\ deletedDefs \subseteq Ids

RolesInit ==
    /\ roleDefs = OldDefs
    /\ roleAssigns = {} /\ units = OldUnits /\ unitMembers = {}
    /\ pending = [r \in Writers |-> None]
    /\ deletedDefs = {}

-----------------------------------------------------------------------------
\* Tenant-authored roles

CreateRoleDefinition(r, on) ==
    /\ Serve(r)
    /\ roleDefs' = roleDefs \cup {[id |-> r, on |-> on]}
    /\ UNCHANGED <<roleAssigns, unitVars, pending, deletedDefs>>

\* UpdateCustomRoleDefinition
Redefined(d) == {IF x.id = d.id THEN d ELSE x : x \in roleDefs}

\* updateRoleDefinition refuses a built-in role; it changes the copy it has
\* read and writes all of it.
UpdateRoleDefinition(r, d, on) ==
    /\ Serve(r)
    /\ d \in roleDefs
    /\ roleDefs' = Redefined([d EXCEPT !.on = on])
    /\ UNCHANGED <<roleAssigns, unitVars, pending, deletedDefs>>

\* What DeleteCustomRoleDefinition's transaction leaves of the assignments
AssignmentsWithout(d) == {a \in roleAssigns : a.role # d.id}

DeleteCustomRoleDefinition(r, d) ==
    /\ Serve(r)
    /\ d \in roleDefs
    /\ roleDefs' = roleDefs \ {d}
    /\ roleAssigns' = AssignmentsWithout(d)
    /\ deletedDefs' = deletedDefs \cup {d.id}
    /\ UNCHANGED <<unitVars, pending>>

-----------------------------------------------------------------------------
\* Assignments

\* createRoleAssignment looks a role that is not built in up ...
CheckRoleAssignment(r, role, principal, scope) ==
    /\ Start(r, "createRoleAssignment")
    /\ role \in BuiltIn \cup DefIds
    /\ pending' = [pending EXCEPT ![r] = [id |-> r, role |-> role,
                                          principal |-> principal, scope |-> scope]]
    /\ UNCHANGED <<roleDefs, roleAssigns, unitVars, deletedDefs>>

\* ... and inserts the row in a statement of its own.
CreateDirectoryRoleAssignment(r) ==
    /\ Step(r, "createRoleAssignment", "done")
    /\ roleAssigns' = roleAssigns \cup {pending[r]}
    /\ pending' = [pending EXCEPT ![r] = None]
    /\ UNCHANGED <<roleDefs, unitVars, deletedDefs>>

DeleteRoleAssignment(r, a) ==
    /\ Serve(r)
    /\ a \in roleAssigns
    /\ roleAssigns' = roleAssigns \ {a}
    /\ UNCHANGED <<roleDefs, unitVars, pending, deletedDefs>>

\* TenantWideRoleTemplateIDs: the custom roles that exist are taken out.
TenantWideRoleTemplateIDs(u) ==
    {a.role : a \in {x \in roleAssigns : x.principal = u /\ x.scope = Everywhere}} \ DefIds

-----------------------------------------------------------------------------
\* Administrative units

CreateAdministrativeUnit(r) ==
    /\ Serve(r)
    /\ units' = units \cup {r}
    /\ UNCHANGED <<roleDefs, roleAssigns, unitMembers, pending, deletedDefs>>

\* ON DELETE CASCADE of au_id
UnitMembersWithout(n) == {m \in unitMembers : m.unit # n}

DeleteAdministrativeUnit(r, n) ==
    /\ Serve(r)
    /\ n \in units
    /\ units' = units \ {n}
    /\ unitMembers' = UnitMembersWithout(n)
    /\ UNCHANGED <<roleDefs, roleAssigns, pending, deletedDefs>>

\* AddAdminUnitMember looks the unit and the user or group up ...
CheckUnitMember(r, n, m) ==
    /\ Start(r, "addAdminUnitMember")
    /\ n \in units /\ m \in users \cup Groups
    /\ pending' = [pending EXCEPT ![r] = [unit |-> n, member |-> m]]
    /\ UNCHANGED <<roleDefs, roleAssigns, unitVars, deletedDefs>>

\* ... and inserts under the foreign key of the unit.
AddAdminUnitMember(r) ==
    /\ Step(r, "addAdminUnitMember", "done")
    /\ unitMembers' = IF pending[r].unit \in units THEN unitMembers \cup {pending[r]}
                      ELSE unitMembers
    /\ pending' = [pending EXCEPT ![r] = None]
    /\ UNCHANGED <<roleDefs, roleAssigns, units, deletedDefs>>

RemoveAdminUnitMember(r, m) ==
    /\ Serve(r)
    /\ m \in unitMembers
    /\ unitMembers' = unitMembers \ {m}
    /\ UNCHANGED <<roleDefs, roleAssigns, units, pending, deletedDefs>>

-----------------------------------------------------------------------------

RolesNext ==
    \E r \in Writers :
        \/ \E on \in BOOLEAN : CreateRoleDefinition(r, on)
        \/ \E d \in roleDefs, on \in BOOLEAN : UpdateRoleDefinition(r, d, on)
        \/ \E d \in roleDefs : DeleteCustomRoleDefinition(r, d)
        \/ \E x \in BuiltIn \cup DefIds, u \in Users, s \in {Everywhere} \cup units :
               CheckRoleAssignment(r, x, u, s)
        \/ CreateDirectoryRoleAssignment(r)
        \/ \E a \in roleAssigns : DeleteRoleAssignment(r, a)
        \/ CreateAdministrativeUnit(r)
        \/ \E n \in units : DeleteAdministrativeUnit(r, n)
        \/ \E n \in units, m \in Users \cup Groups : CheckUnitMember(r, n, m)
        \/ AddAdminUnitMember(r)
        \/ \E m \in unitMembers : RemoveAdminUnitMember(r, m)
=============================================================================
