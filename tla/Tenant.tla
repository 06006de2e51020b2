------------------------------- MODULE Tenant -------------------------------
(***************************************************************************)
(* What the modules about permissions share: the requests in flight and    *)
(* the part of the directory that tokens are minted from, that is users,   *)
(* app registrations and group memberships (store/directory.go,            *)
(* store/apps.go, store/deleted.go, as the Graph handlers call them).      *)
(* Directory models the same rows with their recycle bin in detail; here a *)
(* deleted row's memberships stay in members, which is the snapshot that   *)
(* its restore re-adds.                                                    *)
(*                                                                         *)
(* Every request is served once, and a writer is the identifier of the row *)
(* it inserts (NewGUID draws no value twice).                              *)
(***************************************************************************)
EXTENDS Naturals, FiniteSets

CONSTANTS
    Writers,    \* bound: the Graph and admin requests of a behaviour
    Minters,    \* bound: its token requests
    OldIds,     \* ids of rows from before
    Users, Apps, Groups,
    OldMembers, \* group memberships from before
    Clients,    \* the apps that ask for tokens
    None

ASSUME TenantAssumptions ==
    /\ None \notin Writers \cup OldIds \cup Users \cup Apps \cup Groups
    /\ Writers \cap Minters = {} /\ Writers \cap OldIds = {}
    /\ Clients \subseteq Apps
    /\ OldMembers \subseteq Groups \X Users
    /\ Users \cap Apps = {} /\ Users \cap Groups = {}

VARIABLES
    pc,         \* the next statement of each request
    users,      \* live users
    apps,       \* live app registrations
    members     \* group_members, with the snapshots of deleted users

Requests == Writers \cup Minters
Ids == Writers \cup OldIds

tenantVars == <<users, apps, members>>

TenantTypeOK ==
    /\ users \subseteq Users /\ apps \subseteq Apps
    /\ members \subseteq Groups \X Users

\* A handler of a single statement or transaction
Serve(r) == pc[r] = "new" /\ pc' = [pc EXCEPT ![r] = "done"]

\* A handler of several statements, and the next of them
Start(r, l) == pc[r] = "new" /\ pc' = [pc EXCEPT ![r] = l]
Step(r, l, m) == pc[r] = l /\ pc' = [pc EXCEPT ![r] = m]

\* ListGroupsForUser
ListGroupsForUser(u) == {g \in Groups : u \in users /\ <<g, u>> \in members}

TenantInit ==
    /\ pc = [r \in Requests |-> "new"]
    /\ users = Users /\ apps = Apps
    /\ members = OldMembers

\* SoftDeleteUser and SoftDeleteApp
DeleteUser(r, u) ==
    /\ Serve(r)
    /\ u \in users
    /\ users' = users \ {u}
    /\ UNCHANGED <<apps, members>>

DeleteApp(r, a) ==
    /\ Serve(r)
    /\ a \in apps
    /\ apps' = apps \ {a}
    /\ UNCHANGED <<users, members>>

\* RestoreDeletedItem
RestoreUser(r, u) ==
    /\ Serve(r)
    /\ u \notin users
    /\ users' = users \cup {u}
    /\ UNCHANGED <<apps, members>>

RestoreApp(r, a) ==
    /\ Serve(r)
    /\ a \notin apps
    /\ apps' = apps \cup {a}
    /\ UNCHANGED <<users, members>>

AddMember(r, g, u) ==
    /\ Serve(r)
    /\ u \in users /\ <<g, u>> \notin members
    /\ members' = members \cup {<<g, u>>}
    /\ UNCHANGED <<users, apps>>

RemoveMember(r, g, u) ==
    /\ Serve(r)
    /\ u \in users /\ <<g, u>> \in members
    /\ members' = members \ {<<g, u>>}
    /\ UNCHANGED <<users, apps>>
=============================================================================
