----------------------------- MODULE Directory ------------------------------
(***************************************************************************)
(* The directory of users, groups and app registrations with its recycle   *)
(* bin: store/directory.go, store/apps.go, store/deleted.go, store/seed.go *)
(* and store/export.go, as the Graph, admin and SCIM handlers   *)
(* call them.                                                              *)
(*                                                                         *)
(* A handler runs several statements, and only some of them inside a       *)
(* transaction: an update reads the whole row and writes it back, a soft   *)
(* delete takes its snapshot before its transaction, a restore reads the   *)
(* snapshot before its own, and an app's ID URI is looked up before it is  *)
(* written.  Requests interleave between these steps.  Of a row only the   *)
(* column that must be unique is kept.  What a deletion does to sessions   *)
(* and grants is in the modules of those tables.                           *)
(***************************************************************************)
EXTENDS Naturals

CONSTANTS
    Users, Groups, Apps,            \* ids
    Upns,                           \* users.user_principal_name
    Uris,                           \* app_registrations.app_id_uri
    SeedUser, SeedGroup, SeedUpn,   \* the seed, cut down to a user in a group
    Requests,
    Files,                          \* the snapshots that clients import
    None,
    Retention,      \* DeletedItemRetentionSeconds
    MaxNow          \* bound: the clock runs from 0 to MaxNow

ASSUME DirectoryAssumptions ==
    /\ SeedUser \in Users /\ SeedGroup \in Groups /\ SeedUpn \in Upns
    /\ Users \cap Groups = {} /\ Users \cap Apps = {} /\ Groups \cap Apps = {}
    /\ Upns \cap Uris = {} /\ None \notin Upns \cup Uris
    /\ Retention \in Nat \ {0} /\ MaxNow \in Nat

VARIABLES
    live,       \* ids with a row in users, groups or app_registrations
    key,        \* the UPN of a user's row, the ID URI of an app's
    members,    \* group_members
    bin,        \* deleted_items
    req,        \* requests in flight, with what they have read
    now,        \* Store.Now()
    born,       \* history: ids ever given to an object
    gone,       \* history: ids deleted for good
    reseeded,   \* history: ids seeded or imported again while in the recycle bin
    cut         \* history: memberships that a soft delete took away and recorded

tables == <<live, key, members, bin>>
history == <<born, gone, reseeded, cut>>
vars == <<live, key, members, bin, req, now, born, gone, reseeded, cut>>

Objects == Users \cup Groups \cup Apps
Edges == Groups \X Users
Keys == Upns \cup Uris \cup {None}

\* The seed's ids are fixed; NewGUID never draws one of them.
Seeds == {SeedUser, SeedGroup}

BinItem == [held: BOOLEAN, key: Keys, edges: SUBSET Edges, at: 0..MaxNow]

Request == [pc: {"idle", "insert", "uri", "write", "edges", "delete", "restore", "seed"},
            obj: Objects, key: Keys, edges: SUBSET Edges]

\* DirectorySnapshot: an export taken here or by another emulator, of one
\* moment or, as an export is read table by table, of several.
Snapshot == [rows: SUBSET Objects, key: [Objects -> Keys], edges: SUBSET Edges]

ASSUME FilesAssumption ==
    \A f \in Files : f \in Snapshot /\ \A u \in Users \cap f.rows : f.key[u] \in Upns

NoItem == [held |-> FALSE, key |-> None, edges |-> {}, at |-> 0]
Idle == [pc |-> "idle", obj |-> SeedUser, key |-> None, edges |-> {}]

Begin(r, pc, o, k, es) ==
    /\ req[r].pc = "idle"
    /\ req' = [req EXCEPT ![r] = [pc |-> pc, obj |-> o, key |-> k, edges |-> es]]

Finish(r) == req' = [req EXCEPT ![r] = Idle]

\* Another row of the same table has the key.
Taken(o, k) == k # None /\ \E p \in live \ {o} : key[p] = k

Ends(e) == {e[1], e[2]}

EdgesOf(o) == {e \in members : o \in Ends(e)}

\* The foreign keys of group_members
ForeignKeys(es, ids) == \A e \in es : Ends(e) \subseteq ids

\* DELETE of a row; the schema's ON DELETE CASCADE removes its edges.
Delete(o) ==
    /\ live' = live \ {o}
    /\ key' = [key EXCEPT ![o] = None]
    /\ members' = members \ EdgesOf(o)

-----------------------------------------------------------------------------
\* Creating and changing objects

\* CreateUser under the UNIQUE constraint on the UPN, and CreateGroup: POST
\* users and groups of Graph, admin and SCIM, POST invitations.
Create(o, k) ==
    /\ o \notin born \cup Seeds
    /\ k \in (IF o \in Users THEN Upns ELSE {None})
    /\ ~Taken(o, k)
    /\ live' = live \cup {o}
    /\ key' = [key EXCEPT ![o] = k]
    /\ born' = born \cup {o}
    /\ UNCHANGED <<members, bin, req, now, gone, reseeded, cut>>

\* CreateApp looks the URI up, then inserts the row under a new id.
CheckNewApp(r, uri) ==
    /\ uri # None => \A p \in live : key[p] # uri
    /\ Begin(r, "insert", SeedUser, uri, {})
    /\ UNCHANGED <<tables, now, history>>

InsertApp(r, a) ==
    /\ req[r].pc = "insert"
    /\ a \notin born
    /\ live' = live \cup {a}
    /\ key' = [key EXCEPT ![a] = req[r].key]
    /\ born' = born \cup {a}
    /\ Finish(r)
    /\ UNCHANGED <<members, bin, now, gone, reseeded, cut>>

\* A PATCH or PUT reads the row and changes its copy; the redemption of an
\* invitation does the same and keeps the UPN.
ReadUser(r, u, upn) ==
    /\ u \in live
    /\ Begin(r, "write", u, upn, {})
    /\ UNCHANGED <<tables, now, history>>

ReadApp(r, a, uri) ==
    /\ a \in live
    /\ Begin(r, "uri", a, uri, {})
    /\ UNCHANGED <<tables, now, history>>

\* appIDURITaken, a conflict or not
CheckUri(r) ==
    /\ req[r].pc = "uri"
    /\ IF Taken(req[r].obj, req[r].key) THEN Finish(r)
       ELSE req' = [req EXCEPT ![r].pc = "write"]
    /\ UNCHANGED <<tables, now, history>>

\* Mutant: the schema's UNIQUE on user_principal_name is gone.
WriteUnconstrained(o, k) == o \in live

\* UpdateUser and UpdateApp: UPDATE and requireRow; the UPN has a UNIQUE
\* constraint, the ID URI has none.
CanWrite(o, k) == o \in live /\ (o \in Users => ~Taken(o, k))

WriteRow(r) ==
    /\ req[r].pc = "write"
    /\ key' = IF CanWrite(req[r].obj, req[r].key)
              THEN [key EXCEPT ![req[r].obj] = req[r].key] ELSE key
    /\ Finish(r)
    /\ UNCHANGED <<live, members, bin, now, history>>

\* AddGroupMember: the look-ups before it only choose the error, the foreign
\* keys refuse an edge without both ends.
AddGroupMember(g, u) ==
    /\ ForeignKeys({<<g, u>>}, live)
    /\ members' = members \cup {<<g, u>>}
    /\ UNCHANGED <<live, key, bin, req, now, history>>

RemoveGroupMember(g, u) ==
    /\ members' = members \ {<<g, u>>}
    /\ UNCHANGED <<live, key, bin, req, now, history>>

\* DeleteUser, DeleteGroup and DeleteApp of the admin API and of SCIM.
HardDelete(o) ==
    /\ o \in live
    /\ Delete(o)
    /\ gone' = IF bin[o].held THEN gone ELSE gone \cup {o}
    /\ UNCHANGED <<bin, req, now, born, reseeded, cut>>

-----------------------------------------------------------------------------
\* Soft delete: DELETE of Graph

SoftDeleteRead(r, o) ==
    /\ o \in live
    /\ Begin(r, "edges", o, key[o], {})
    /\ UNCHANGED <<tables, now, history>>

\* ListGroupsForUser or ListGroupMembers; an app's sub-resources are part of
\* its row here.
SoftDeleteEdges(r) ==
    /\ req[r].pc = "edges"
    /\ req' = [req EXCEPT ![r].pc = "delete", ![r].edges = EdgesOf(req[r].obj)]
    /\ UNCHANGED <<tables, now, history>>

\* The snapshot, stamped with the time of the transaction
RecycledRow(r) == [held |-> TRUE, key |-> req[r].key, edges |-> req[r].edges, at |-> now]

\* The transaction: DELETE with requireRow, then insertDeletedTx, which fails
\* on the primary key and takes the DELETE back.
CanRecycle(o) == o \in live /\ ~bin[o].held

SoftDeleteCommit(r) ==
    /\ req[r].pc = "delete"
    /\ LET o == req[r].obj IN
       IF CanRecycle(o)
       THEN /\ Delete(o)
            /\ bin' = [bin EXCEPT ![o] = RecycledRow(r)]
            /\ cut' = cut \cup (EdgesOf(o) \cap req[r].edges)
       ELSE UNCHANGED <<tables, cut>>
    /\ Finish(r)
    /\ UNCHANGED <<now, born, gone, reseeded>>

-----------------------------------------------------------------------------
\* The recycle bin

Expired(o) == bin[o].held /\ bin[o].at + Retention <= now

\* DELETE of the bin's rows S
Drop(S) ==
    /\ bin' = [o \in Objects |-> IF o \in S THEN NoItem ELSE bin[o]]
    /\ gone' = gone \cup {o \in S : bin[o].held /\ o \notin live}

\* ListDeletedItems and GetDeletedItem: purgeExpired comes before the read.
ListDeleted ==
    /\ Drop({o \in Objects : Expired(o)})
    /\ UNCHANGED <<live, key, members, req, now, born, reseeded, cut>>

PurgeDeleted(o) ==
    /\ Drop({p \in Objects : p = o \/ Expired(p)})
    /\ UNCHANGED <<live, key, members, req, now, born, reseeded, cut>>

\* RestoreDeletedItem reads the item after a purge ...
RestoreRead(r, o) ==
    /\ bin[o].held /\ ~Expired(o)
    /\ Drop({p \in Objects : Expired(p)})
    /\ Begin(r, "restore", o, bin[o].key, bin[o].edges)
    /\ UNCHANGED <<live, key, members, now, born, reseeded, cut>>

\* Mutant: the item's DELETE is not checked with requireRow.
RestoreUnchecked(o, k) == o \notin live /\ (o \in Users => ~Taken(o, k))

\* ... and inserts the row, re-adds the edges whose other end exists and drops
\* the item with requireRow, all or nothing.
CanRestore(o, k) == o \notin live /\ (o \in Users => ~Taken(o, k)) /\ bin[o].held

\* Mutant: a group's members are looked up among the groups.
ReattachedFromGroups(o, es) == {e \in es : e[1] \in live /\ o # e[1]}

\* reattachMembersTx
Reattached(o, es) == {e \in es : Ends(e) \subseteq live \cup {o}}

\* What a restore of o with the edges es may leave out: an edge whose other end
\* is away, and one of an item that took the place of the item that was read.
LeftOut(o, es) == {e \in bin[o].edges : ~(Ends(e) \subseteq live \cup {o})} \cup (bin[o].edges \ es)

RestoreCommit(r) ==
    /\ req[r].pc = "restore"
    /\ LET o == req[r].obj
           es == Reattached(o, req[r].edges) IN
       IF CanRestore(o, req[r].key) /\ ForeignKeys(es, live \cup {o})
       THEN /\ live' = live \cup {o}
            /\ key' = [key EXCEPT ![o] = req[r].key]
            /\ members' = members \cup es
            /\ bin' = [bin EXCEPT ![o] = NoItem]
            /\ cut' = cut \ (members' \cup LeftOut(o, req[r].edges))
       ELSE UNCHANGED <<tables, cut>>
    /\ Finish(r)
    /\ UNCHANGED <<now, born, gone, reseeded>>

-----------------------------------------------------------------------------
\* Seed, reset and import

\* A taken UPN leaves the user out, and the foreign key of the membership
\* then fails the whole transaction.
SeedFails == SeedUser \notin live /\ Taken(SeedUser, SeedUpn)

\* INSERT OR IGNORE of every seeded row
SeedTx ==
    /\ ~SeedFails
    /\ live' = live \cup Seeds
    /\ key' = IF SeedUser \in live THEN key ELSE [key EXCEPT ![SeedUser] = SeedUpn]
    /\ members' = members \cup {<<SeedGroup, SeedUser>>}
    /\ born' = born \cup Seeds
    /\ gone' = gone \ Seeds
    /\ reseeded' = reseeded \cup {o \in Seeds \ live : bin[o].held}
    /\ cut' = {e \in cut : Ends(e) \cap (Seeds \ live) = {}}
    /\ UNCHANGED <<bin, now>>

\* At boot, and POST seed.
Seed == SeedTx /\ UNCHANGED req

\* Reset empties the tables in one transaction, the recycle bin not among
\* them, and seeds in a second one.
ResetTables(r, reseed) ==
    /\ req[r].pc = "idle"
    /\ live' = {} /\ members' = {}
    /\ key' = [o \in Objects |-> None]
    /\ gone' = gone \cup {o \in live : ~bin[o].held}
    /\ req' = IF reseed THEN [req EXCEPT ![r].pc = "seed"] ELSE req
    /\ UNCHANGED <<bin, now, born, reseeded, cut>>

ResetSeed(r) ==
    /\ req[r].pc = "seed"
    /\ \/ SeedTx
       \/ SeedFails /\ UNCHANGED <<tables, now, history>>
    /\ Finish(r)

\* The UNIQUE constraint and the foreign keys, any of which fails the whole
\* transaction.
CanImport(f) ==
    /\ \A u, v \in Users \cap f.rows : f.key[u] = f.key[v] => u = v
    /\ ForeignKeys(f.edges, f.rows)

\* ImportDirectory replaces the tables in one transaction; the recycle bin is
\* not among them here either.
ImportDirectory(f) ==
    /\ CanImport(f)
    /\ live' = f.rows /\ members' = f.edges
    /\ key' = [o \in Objects |-> IF o \in f.rows THEN f.key[o] ELSE None]
    /\ born' = born \cup f.rows
    /\ gone' = (gone \cup {o \in live : ~bin[o].held}) \ f.rows
    /\ reseeded' = reseeded \cup {o \in f.rows \ live : bin[o].held}
    /\ cut' = {e \in cut : Ends(e) \cap (f.rows \ live) = {}}
    /\ UNCHANGED <<bin, req, now>>

Tick ==
    /\ now < MaxNow
    /\ now' = now + 1
    /\ UNCHANGED <<tables, req, history>>

-----------------------------------------------------------------------------

Init ==
    /\ live = {} /\ members = {}
    /\ key = [o \in Objects |-> None]
    /\ bin = [o \in Objects |-> NoItem]
    /\ req = [r \in Requests |-> Idle]
    /\ now = 0
    /\ born = {} /\ gone = {} /\ reseeded = {} /\ cut = {}

Next ==
    \/ \E o \in Users \cup Groups, k \in Upns \cup {None} : Create(o, k)
    \/ \E r \in Requests, k \in Uris \cup {None} : CheckNewApp(r, k)
    \/ \E r \in Requests, a \in Apps : InsertApp(r, a)
    \/ \E r \in Requests, u \in Users, k \in Upns : ReadUser(r, u, k)
    \/ \E r \in Requests, a \in Apps, k \in Uris \cup {None} : ReadApp(r, a, k)
    \/ \E r \in Requests : CheckUri(r)
    \/ \E r \in Requests : WriteRow(r)
    \/ \E g \in Groups, u \in Users : AddGroupMember(g, u)
    \/ \E g \in Groups, u \in Users : RemoveGroupMember(g, u)
    \/ \E o \in Objects : HardDelete(o)
    \/ \E r \in Requests, o \in Objects : SoftDeleteRead(r, o)
    \/ \E r \in Requests : SoftDeleteEdges(r)
    \/ \E r \in Requests : SoftDeleteCommit(r)
    \/ ListDeleted
    \/ \E o \in Objects : PurgeDeleted(o)
    \/ \E r \in Requests, o \in Objects : RestoreRead(r, o)
    \/ \E r \in Requests : RestoreCommit(r)
    \/ Seed
    \/ \E r \in Requests, reseed \in BOOLEAN : ResetTables(r, reseed)
    \/ \E r \in Requests : ResetSeed(r)
    \/ \E f \in Files : ImportDirectory(f)
    \/ Tick

Spec == Init /\ [][Next]_vars

-----------------------------------------------------------------------------
\* Properties

\* The tables, the requests and the history have their types.
TypeOK ==
    /\ live \subseteq Objects
    /\ key \in [Objects -> Keys]
    /\ members \subseteq Edges
    /\ bin \in [Objects -> BinItem]
    /\ req \in [Requests -> Request]
    /\ now \in 0..MaxNow
    /\ born \subseteq Objects /\ gone \subseteq Objects /\ reseeded \subseteq Objects
    /\ cut \subseteq Edges

\* Every object ever created is live, in the recycle bin or deleted for good,
\* and exactly one of these: no overlap of deletes, restores, purges, expiry
\* and resets loses an object, and only the seed and an import bring back one
\* that is gone; only they make an id live that is in the recycle bin.
EveryObjectAccounted ==
    \A o \in Objects :
        /\ o \in gone <=> o \in born /\ o \notin live /\ ~bin[o].held
        /\ o \in live \/ bin[o].held => o \in born
        /\ o \in live /\ bin[o].held => o \in reseeded

\* No two live users have the same UPN, whatever was renamed, recycled,
\* restored, seeded or imported meanwhile.
UpnUnique ==
    \A u, v \in Users \cap live : key[u] = key[v] => u = v

\* A membership, restored ones included, names a live group and a live user:
\* what the foreign keys give to every reader of the table.
MembersLive == ForeignKeys(members, live)

\* "group memberships are restored (memberships to groups that still exist)",
\* and a group's members likewise: a membership that a soft delete took away and
\* recorded is never missing once its user and its group are both live again,
\* in whatever order the two were deleted, restored, expired or purged.  Left
\* out is what a restore cannot bring back (LeftOut) and an end that a seed or
\* an import made live.
MembershipsReturn == \A e \in cut : ~(Ends(e) \subseteq live)

\* "with the relationships captured at delete time": a restore brings back the
\* memberships of the item it takes out of the recycle bin.
RestoresTheItem ==
    [][\A o \in Objects :
          bin[o].held /\ o \notin live /\ o \in live' /\ ~bin'[o].held
              => members' \ members = {e \in bin[o].edges : Ends(e) \subseteq live'}]_vars

\* "Non-null appIdUri must be unique (409) for .default resolution": the
\* look-up of an app by its ID URI has one answer.
AppIdUriUnique ==
    \A a, b \in Apps \cap live : key[a] # None /\ key[a] = key[b] => a = b
=============================================================================
