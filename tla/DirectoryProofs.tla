--------------------------- MODULE DirectoryProofs --------------------------
(***************************************************************************)
(* Proofs about Directory, for any number of users, groups, apps, names    *)
(* and concurrent requests.                                                *)
(***************************************************************************)
EXTENDS Directory, TLAPS

(* The constants that the types and the reset need. *)
LEMMA IdleTypes ==
    /\ Idle \in Request /\ NoItem \in BinItem
    /\ Seeds \subseteq Objects
BY DirectoryAssumptions DEF Idle, NoItem, Request, BinItem, Seeds, Objects, Keys, Edges

(* Begin and Finish leave well-typed requests. *)
LEMMA BeginType ==
    ASSUME req \in [Requests -> Request], NEW r \in Requests,
           NEW pc \in {"insert", "uri", "write", "edges", "delete", "restore"},
           NEW o \in Objects, NEW k \in Keys, NEW es \in SUBSET Edges,
           Begin(r, pc, o, k, es)
    PROVE  req' \in [Requests -> Request]
BY DEF Begin, Request

LEMMA FinishType ==
    ASSUME req \in [Requests -> Request], NEW r \in Requests, Finish(r)
    PROVE  req' \in [Requests -> Request]
BY IdleTypes DEF Finish

(* Dropping rows of the recycle bin keeps its type. *)
LEMMA DropType ==
    ASSUME TypeOK, NEW S \in SUBSET Objects, Drop(S)
    PROVE  bin' \in [Objects -> BinItem] /\ gone' \subseteq Objects
BY IdleTypes DEF Drop, TypeOK

(* One DELETE keeps the types of the tables it touches. *)
LEMMA DeleteType ==
    ASSUME TypeOK, NEW o \in Objects, Delete(o)
    PROVE  live' \subseteq Objects /\ key' \in [Objects -> Keys] /\ members' \subseteq Edges
BY DEF Delete, TypeOK, Keys

(* A restore commits as a whole or changes no table. *)
Restores(r) ==
    /\ CanRestore(req[r].obj, req[r].key)
    /\ ForeignKeys(Reattached(req[r].obj, req[r].edges), live \cup {req[r].obj})

LEMMA RestoreEither ==
    ASSUME NEW r, RestoreCommit(r)
    PROVE  /\ Restores(r) =>
                 /\ live' = live \cup {req[r].obj}
                 /\ key' = [key EXCEPT ![req[r].obj] = req[r].key]
                 /\ members' = members \cup Reattached(req[r].obj, req[r].edges)
                 /\ bin' = [bin EXCEPT ![req[r].obj] = NoItem]
                 /\ cut' = cut \ (members' \cup LeftOut(req[r].obj, req[r].edges))
           /\ ~Restores(r) => UNCHANGED <<live, key, members, bin, cut>>
BY DEF RestoreCommit, Restores, tables

(* Every step of every handler preserves the types. *)
LEMMA TypeStep == TypeOK /\ [Next]_vars => TypeOK'
<1> SUFFICES ASSUME TypeOK, [Next]_vars PROVE TypeOK'
  OBVIOUS
<1> USE DirectoryAssumptions, IdleTypes
<1>1. ASSUME NEW o \in Users \cup Groups, NEW k \in Upns \cup {None}, Create(o, k)
      PROVE TypeOK'
  BY <1>1 DEF TypeOK, Create, Objects, Keys
<1>2. ASSUME NEW r \in Requests, NEW k \in Uris \cup {None}, CheckNewApp(r, k)
      PROVE TypeOK'
  <2>1. req' \in [Requests -> Request]
    BY <1>2, BeginType, SeedUser \in Objects, k \in Keys
       DEF CheckNewApp, TypeOK, Objects, Keys
  <2> QED BY <1>2, <2>1 DEF TypeOK, CheckNewApp, tables, history
<1>3. ASSUME NEW r \in Requests, NEW a \in Apps, InsertApp(r, a)
      PROVE TypeOK'
  <2>1. req[r].key \in Keys
    BY DEF TypeOK, Request
  <2>2. req' \in [Requests -> Request]
    BY <1>3, FinishType DEF InsertApp, TypeOK
  <2> QED BY <1>3, <2>1, <2>2 DEF TypeOK, InsertApp, Objects
<1>4. ASSUME NEW r \in Requests, NEW u \in Users, NEW k \in Upns, ReadUser(r, u, k)
      PROVE TypeOK'
  <2>1. req' \in [Requests -> Request]
    BY <1>4, BeginType, u \in Objects, k \in Keys DEF ReadUser, TypeOK, Objects, Keys
  <2> QED BY <1>4, <2>1 DEF TypeOK, ReadUser, tables, history
<1>5. ASSUME NEW r \in Requests, NEW a \in Apps, NEW k \in Uris \cup {None}, ReadApp(r, a, k)
      PROVE TypeOK'
  <2>1. req' \in [Requests -> Request]
    BY <1>5, BeginType, a \in Objects, k \in Keys DEF ReadApp, TypeOK, Objects, Keys
  <2> QED BY <1>5, <2>1 DEF TypeOK, ReadApp, tables, history
<1>6. ASSUME NEW r \in Requests, CheckUri(r)
      PROVE TypeOK'
  <2>1. req' \in [Requests -> Request]
    <3>1. CASE Taken(req[r].obj, req[r].key)
      BY <1>6, <3>1, FinishType DEF CheckUri, TypeOK
    <3>2. CASE ~Taken(req[r].obj, req[r].key)
      BY <1>6, <3>2 DEF CheckUri, TypeOK, Request
    <3> QED BY <3>1, <3>2
  <2> QED BY <1>6, <2>1 DEF TypeOK, CheckUri, tables, history
<1>7. ASSUME NEW r \in Requests, WriteRow(r)
      PROVE TypeOK'
  <2>1. req[r].key \in Keys
    BY DEF TypeOK, Request
  <2>2. req' \in [Requests -> Request]
    BY <1>7, FinishType DEF WriteRow, TypeOK
  <2> QED BY <1>7, <2>1, <2>2 DEF TypeOK, WriteRow, history
<1>8. ASSUME NEW g \in Groups, NEW u \in Users, AddGroupMember(g, u)
      PROVE TypeOK'
  BY <1>8 DEF TypeOK, AddGroupMember, history, Edges
<1>9. ASSUME NEW g \in Groups, NEW u \in Users, RemoveGroupMember(g, u)
      PROVE TypeOK'
  BY <1>9 DEF TypeOK, RemoveGroupMember, history
<1>10. ASSUME NEW o \in Objects, HardDelete(o)
       PROVE TypeOK'
  BY <1>10, DeleteType DEF TypeOK, HardDelete
<1>11. ASSUME NEW r \in Requests, NEW o \in Objects, SoftDeleteRead(r, o)
       PROVE TypeOK'
  <2>1. req' \in [Requests -> Request]
    BY <1>11, BeginType, key[o] \in Keys DEF SoftDeleteRead, TypeOK
  <2> QED BY <1>11, <2>1 DEF TypeOK, SoftDeleteRead, tables, history
<1>12. ASSUME NEW r \in Requests, SoftDeleteEdges(r)
       PROVE TypeOK'
  <2>1. EdgesOf(req[r].obj) \subseteq Edges
    BY DEF TypeOK, EdgesOf
  <2>2. req' \in [Requests -> Request]
    BY <1>12, <2>1 DEF SoftDeleteEdges, TypeOK, Request
  <2> QED BY <1>12, <2>2 DEF TypeOK, SoftDeleteEdges, tables, history
<1>13. ASSUME NEW r \in Requests, SoftDeleteCommit(r)
       PROVE TypeOK'
  <2> DEFINE o == req[r].obj
  <2>1. o \in Objects /\ req[r].key \in Keys /\ req[r].edges \in SUBSET Edges
    BY DEF TypeOK, Request
  <2>2. req' \in [Requests -> Request]
    BY <1>13, FinishType DEF SoftDeleteCommit, TypeOK
  <2>3. CASE CanRecycle(o)
    <3>1. Delete(o) /\ bin' = [bin EXCEPT ![o] = RecycledRow(r)]
      BY <1>13, <2>3 DEF SoftDeleteCommit
    <3>2. bin' \in [Objects -> BinItem]
      BY <2>1, <3>1 DEF TypeOK, BinItem, RecycledRow
    <3>3. cut' \subseteq Edges
      BY <1>13, <2>1, <2>3 DEF TypeOK, SoftDeleteCommit
    <3> QED BY <1>13, <2>1, <2>2, <3>1, <3>2, <3>3, DeleteType DEF TypeOK, SoftDeleteCommit
  <2>4. CASE ~CanRecycle(o)
    BY <1>13, <2>2, <2>4 DEF TypeOK, SoftDeleteCommit, tables
  <2> QED BY <2>3, <2>4
<1>14. CASE ListDeleted
  BY <1>14, DropType DEF TypeOK, ListDeleted
<1>15. ASSUME NEW o \in Objects, PurgeDeleted(o)
       PROVE TypeOK'
  BY <1>15, DropType DEF TypeOK, PurgeDeleted
<1>16. ASSUME NEW r \in Requests, NEW o \in Objects, RestoreRead(r, o)
       PROVE TypeOK'
  <2>1. bin[o].key \in Keys /\ bin[o].edges \in SUBSET Edges
    BY DEF TypeOK, BinItem
  <2>2. req' \in [Requests -> Request]
    BY <1>16, <2>1, BeginType DEF RestoreRead, TypeOK
  <2>3. bin' \in [Objects -> BinItem] /\ gone' \subseteq Objects
    BY <1>16, DropType DEF RestoreRead
  <2> QED BY <1>16, <2>2, <2>3 DEF TypeOK, RestoreRead
<1>17. ASSUME NEW r \in Requests, RestoreCommit(r)
       PROVE TypeOK'
  <2>1. req[r].obj \in Objects /\ req[r].key \in Keys /\ req[r].edges \in SUBSET Edges
    BY DEF TypeOK, Request
  <2>2. req' \in [Requests -> Request]
    BY <1>17, FinishType DEF RestoreCommit, TypeOK
  <2>3. CASE Restores(r)
    <3>1. bin' \in [Objects -> BinItem]
      BY <1>17, <2>1, <2>3, RestoreEither DEF TypeOK
    <3>2. key' \in [Objects -> Keys]
      BY <1>17, <2>1, <2>3, RestoreEither DEF TypeOK
    <3>3. live' \subseteq Objects /\ members' \subseteq Edges /\ cut' \subseteq Edges
      BY <1>17, <2>1, <2>3, RestoreEither DEF TypeOK, Reattached
    <3> QED BY <1>17, <2>2, <3>1, <3>2, <3>3 DEF TypeOK, RestoreCommit
  <2>4. CASE ~Restores(r)
    BY <1>17, <2>2, <2>4, RestoreEither DEF TypeOK, RestoreCommit
  <2> QED BY <2>3, <2>4
<1>18. ASSUME SeedTx
       PROVE /\ live' \subseteq Objects /\ key' \in [Objects -> Keys] /\ members' \subseteq Edges
             /\ bin' \in [Objects -> BinItem] /\ now' \in 0..MaxNow
             /\ born' \subseteq Objects /\ gone' \subseteq Objects /\ reseeded' \subseteq Objects
             /\ cut' \subseteq Edges
  <2>1. SeedUpn \in Keys /\ SeedUser \in Objects
    BY DEF Keys, Objects
  <2>2. key' \in [Objects -> Keys]
    BY <1>18, <2>1 DEF SeedTx, TypeOK
  <2>3. members' \subseteq Edges
    BY <1>18 DEF SeedTx, TypeOK, Edges
  <2>4. bin' \in [Objects -> BinItem] /\ now' \in 0..MaxNow
    BY <1>18 DEF SeedTx, TypeOK
  <2>5. /\ live' \subseteq Objects
        /\ born' \subseteq Objects /\ gone' \subseteq Objects /\ reseeded' \subseteq Objects
        /\ cut' \subseteq Edges
    BY <1>18 DEF SeedTx, TypeOK
  <2> QED BY <2>2, <2>3, <2>4, <2>5
<1>19. CASE Seed
  BY <1>18, <1>19 DEF TypeOK, Seed
<1>20. ASSUME NEW r \in Requests, NEW reseed \in BOOLEAN, ResetTables(r, reseed)
       PROVE TypeOK'
  <2>1. req' \in [Requests -> Request]
    BY <1>20 DEF ResetTables, TypeOK, Request
  <2> QED BY <1>20, <2>1 DEF TypeOK, ResetTables, Keys
<1>21. ASSUME NEW r \in Requests, ResetSeed(r)
       PROVE TypeOK'
  <2>1. req' \in [Requests -> Request]
    BY <1>21, FinishType DEF ResetSeed, TypeOK
  <2> QED BY <1>18, <1>21, <2>1 DEF TypeOK, ResetSeed, tables, history
<1>22. CASE Tick
  BY <1>22 DEF TypeOK, Tick, tables, history
<1>23. ASSUME NEW f \in Files, ImportDirectory(f)
       PROVE TypeOK'
  <2>1. /\ f.rows \subseteq Objects /\ f.edges \subseteq Edges
        /\ \A o \in Objects : f.key[o] \in Keys
    BY FilesAssumption DEF Snapshot
  <2>2. key' \in [Objects -> Keys]
    BY <1>23, <2>1 DEF ImportDirectory, Keys
  <2> QED BY <1>23, <2>1, <2>2 DEF TypeOK, ImportDirectory
<1>24. CASE UNCHANGED vars
  BY <1>24 DEF TypeOK, vars
<1> QED
  BY <1>1, <1>2, <1>3, <1>4, <1>5, <1>6, <1>7, <1>8, <1>9, <1>10, <1>11, <1>12, <1>13,
     <1>14, <1>15, <1>16, <1>17, <1>19, <1>20, <1>21, <1>22, <1>23, <1>24 DEF Next

(* The rows, the recycle bin, the requests in flight and the history always *)
(* have their types.                                                        *)
THEOREM TypeCorrect == Spec => []TypeOK
<1>1. Init => TypeOK
  BY IdleTypes, DirectoryAssumptions DEF Init, TypeOK, Keys
<1> QED BY <1>1, TypeStep, PTL DEF Spec

-----------------------------------------------------------------------------
\* The steps that only read, and time

Looks ==
    \/ \E r \in Requests, k \in Uris \cup {None} : CheckNewApp(r, k)
    \/ \E r \in Requests, u \in Users, k \in Upns : ReadUser(r, u, k)
    \/ \E r \in Requests, a \in Apps, k \in Uris \cup {None} : ReadApp(r, a, k)
    \/ \E r \in Requests : CheckUri(r)
    \/ \E r \in Requests, o \in Objects : SoftDeleteRead(r, o)
    \/ \E r \in Requests : SoftDeleteEdges(r)
    \/ Tick

(* Reading a row, looking a URI up and collecting edges change no table. *)
LEMMA LooksQuiet ==
    ASSUME Looks
    PROVE  UNCHANGED <<live, key, members, bin, born, gone, reseeded, cut>>
BY DEF Looks, CheckNewApp, ReadUser, ReadApp, CheckUri, SoftDeleteRead, SoftDeleteEdges,
       Tick, tables, history

-----------------------------------------------------------------------------
\* Memberships

(* A DELETE takes every edge of its row with it. *)
LEMMA DeleteMembers ==
    ASSUME MembersLive, NEW o, Delete(o)
    PROVE  MembersLive'
BY DEF MembersLive, ForeignKeys, Ends, Delete, EdgesOf

(* Every step keeps the memberships between live groups and live users: the *)
(* transactions and the foreign keys do it, not the look-ups before them.   *)
LEMMA MembersStep == TypeOK /\ MembersLive /\ [Next]_vars => MembersLive'
<1> SUFFICES ASSUME TypeOK, MembersLive, [Next]_vars PROVE MembersLive'
  OBVIOUS
<1>1. ASSUME NEW g \in Groups, NEW u \in Users, AddGroupMember(g, u)
      PROVE MembersLive'
  BY <1>1 DEF MembersLive, ForeignKeys, AddGroupMember
<1>2. ASSUME NEW g \in Groups, NEW u \in Users, RemoveGroupMember(g, u)
      PROVE MembersLive'
  BY <1>2 DEF MembersLive, ForeignKeys, RemoveGroupMember
<1>3. ASSUME NEW o \in Objects, HardDelete(o)
      PROVE MembersLive'
  BY <1>3, DeleteMembers DEF HardDelete
<1>4. ASSUME NEW r \in Requests, SoftDeleteCommit(r)
      PROVE MembersLive'
  <2>1. CASE CanRecycle(req[r].obj)
    BY <1>4, <2>1, DeleteMembers DEF SoftDeleteCommit
  <2>2. CASE ~CanRecycle(req[r].obj)
    BY <1>4, <2>2 DEF SoftDeleteCommit, MembersLive, tables
  <2> QED BY <2>1, <2>2
<1>5. ASSUME NEW r \in Requests, RestoreCommit(r)
      PROVE MembersLive'
  <2>1. CASE Restores(r)
    BY <1>5, <2>1, RestoreEither DEF Restores, MembersLive, ForeignKeys
  <2>2. CASE ~Restores(r)
    BY <1>5, <2>2, RestoreEither DEF MembersLive
  <2> QED BY <2>1, <2>2
<1>6. ASSUME SeedTx PROVE MembersLive'
  BY <1>6 DEF SeedTx, MembersLive, ForeignKeys, Ends, Seeds
<1>7. ASSUME NEW r \in Requests, NEW reseed \in BOOLEAN, ResetTables(r, reseed)
      PROVE MembersLive'
  BY <1>7 DEF ResetTables, MembersLive, ForeignKeys
<1>8. ASSUME NEW r \in Requests, ResetSeed(r)
      PROVE MembersLive'
  BY <1>6, <1>8 DEF ResetSeed, MembersLive, tables
<1>9. ASSUME UNCHANGED members, live \subseteq live'
      PROVE MembersLive'
  BY <1>9 DEF MembersLive, ForeignKeys
<1>10. ASSUME NEW o \in Users \cup Groups, NEW k \in Upns \cup {None}, Create(o, k)
       PROVE MembersLive'
  BY <1>9, <1>10 DEF Create
<1>11. ASSUME NEW r \in Requests, NEW a \in Apps, InsertApp(r, a)
       PROVE MembersLive'
  BY <1>9, <1>11 DEF InsertApp
<1>12. ASSUME Looks PROVE MembersLive'
  BY <1>9, <1>12, LooksQuiet
<1>13. ASSUME \/ \E r \in Requests : WriteRow(r)
              \/ ListDeleted
              \/ \E o \in Objects : PurgeDeleted(o)
              \/ \E r \in Requests, o \in Objects : RestoreRead(r, o)
              \/ UNCHANGED vars
       PROVE MembersLive'
  BY <1>9, <1>13 DEF WriteRow, ListDeleted, PurgeDeleted, RestoreRead, vars
<1>14. ASSUME NEW f \in Files, ImportDirectory(f)
       PROVE MembersLive'
  BY <1>14 DEF ImportDirectory, CanImport, MembersLive
<1> QED
  BY <1>1, <1>2, <1>3, <1>4, <1>5, <1>6, <1>7, <1>8, <1>9, <1>10, <1>11, <1>12, <1>13,
     <1>14 DEF Next, Looks, Seed

(* Whatever is deleted, recycled, restored, seeded and reset at once, a     *)
(* membership never names a group or a user that is not there.              *)
THEOREM MembersAlwaysLive == Spec => []MembersLive
<1>1. Init => MembersLive
  BY DEF Init, MembersLive, ForeignKeys
<1> QED BY <1>1, MembersStep, TypeCorrect, PTL DEF Spec

-----------------------------------------------------------------------------
\* Objects between the tables and the recycle bin

(* Dropping rows of the recycle bin keeps every object accounted for: those *)
(* that are not live are gone from then on.                                 *)
LEMMA DropAccounted ==
    ASSUME TypeOK, EveryObjectAccounted, NEW S \in SUBSET Objects, Drop(S),
           UNCHANGED <<live, born, reseeded>>
    PROVE  EveryObjectAccounted'
<1> SUFFICES ASSUME NEW o \in Objects
             PROVE  /\ o \in gone' <=> o \in born' /\ o \notin live' /\ ~bin'[o].held
                    /\ o \in live' \/ bin'[o].held => o \in born'
                    /\ o \in live' /\ bin'[o].held => o \in reseeded'
  BY DEF EveryObjectAccounted
<1>1. bin'[o] = IF o \in S THEN NoItem ELSE bin[o]
  BY DEF Drop
<1>2. o \in gone' <=> o \in gone \/ (o \in S /\ bin[o].held /\ o \notin live)
  BY DEF Drop
<1>3. NoItem.held = FALSE
  BY DEF NoItem
<1> QED BY <1>1, <1>2, <1>3 DEF EveryObjectAccounted

(* Every step keeps every object in one place. *)
LEMMA AccountedStep ==
    TypeOK /\ EveryObjectAccounted /\ [Next]_vars => EveryObjectAccounted'
<1> SUFFICES ASSUME TypeOK, EveryObjectAccounted, [Next]_vars PROVE EveryObjectAccounted'
  OBVIOUS
<1>1. ASSUME NEW o \in Users \cup Groups, NEW k \in Upns \cup {None}, Create(o, k)
      PROVE EveryObjectAccounted'
  BY <1>1 DEF Create, EveryObjectAccounted, Objects
<1>2. ASSUME NEW r \in Requests, NEW a \in Apps, InsertApp(r, a)
      PROVE EveryObjectAccounted'
  BY <1>2 DEF InsertApp, EveryObjectAccounted, Objects
<1>3. ASSUME NEW o \in Objects, HardDelete(o)
      PROVE EveryObjectAccounted'
  BY <1>3 DEF HardDelete, Delete, EveryObjectAccounted
<1>4. ASSUME NEW r \in Requests, SoftDeleteCommit(r)
      PROVE EveryObjectAccounted'
  <2> DEFINE o == req[r].obj
  <2>1. CASE CanRecycle(o)
    <3>1. /\ live' = live \ {o} /\ UNCHANGED <<born, gone, reseeded>>
          /\ bin' = [bin EXCEPT ![o] = RecycledRow(r)]
      BY <1>4, <2>1 DEF SoftDeleteCommit, Delete
    <3>2. o \in Objects /\ o \in live /\ ~bin[o].held
      BY <2>1 DEF CanRecycle, TypeOK
    <3>3. bin'[o].held /\ \A p \in Objects \ {o} : bin'[p] = bin[p]
      BY <3>1, <3>2 DEF TypeOK, RecycledRow
    <3> HIDE DEF o
    <3> QED BY <3>1, <3>2, <3>3 DEF EveryObjectAccounted
  <2>2. CASE ~CanRecycle(o)
    BY <1>4, <2>2 DEF SoftDeleteCommit, EveryObjectAccounted, tables
  <2> QED BY <2>1, <2>2
<1>5. ASSUME NEW r \in Requests, RestoreCommit(r)
      PROVE EveryObjectAccounted'
  <2> DEFINE o == req[r].obj
  <2>1. CASE Restores(r)
    <3>1. /\ live' = live \cup {o} /\ UNCHANGED <<born, gone, reseeded>>
          /\ bin' = [bin EXCEPT ![o] = NoItem]
      BY <1>5, <2>1, RestoreEither DEF RestoreCommit
    <3>2. o \in Objects /\ o \notin live /\ bin[o].held
      BY <2>1 DEF Restores, CanRestore, TypeOK, Request
    <3>3. ~bin'[o].held /\ \A p \in Objects \ {o} : bin'[p] = bin[p]
      BY <3>1, <3>2 DEF TypeOK, NoItem
    <3> HIDE DEF o
    <3> QED BY <3>1, <3>2, <3>3 DEF EveryObjectAccounted
  <2>2. CASE ~Restores(r)
    BY <1>5, <2>2, RestoreEither DEF RestoreCommit, EveryObjectAccounted
  <2> QED BY <2>1, <2>2
<1>6. CASE ListDeleted
  BY <1>6, DropAccounted DEF ListDeleted
<1>7. ASSUME NEW o \in Objects, PurgeDeleted(o)
      PROVE EveryObjectAccounted'
  BY <1>7, DropAccounted DEF PurgeDeleted
<1>8. ASSUME NEW r \in Requests, NEW o \in Objects, RestoreRead(r, o)
      PROVE EveryObjectAccounted'
  BY <1>8, DropAccounted DEF RestoreRead
<1>9. ASSUME SeedTx PROVE EveryObjectAccounted'
  BY <1>9 DEF SeedTx, EveryObjectAccounted
<1>10. ASSUME NEW r \in Requests, NEW reseed \in BOOLEAN, ResetTables(r, reseed)
       PROVE EveryObjectAccounted'
  BY <1>10 DEF ResetTables, EveryObjectAccounted
<1>11. ASSUME UNCHANGED <<live, bin, born, gone, reseeded>>
       PROVE EveryObjectAccounted'
  BY <1>11 DEF EveryObjectAccounted
<1>12. ASSUME NEW r \in Requests, ResetSeed(r)
       PROVE EveryObjectAccounted'
  BY <1>9, <1>11, <1>12 DEF ResetSeed, tables, history
<1>13. ASSUME Looks PROVE EveryObjectAccounted'
  BY <1>11, <1>13, LooksQuiet
<1>14. ASSUME \/ \E r \in Requests : WriteRow(r)
              \/ \E g \in Groups, u \in Users : AddGroupMember(g, u)
              \/ \E g \in Groups, u \in Users : RemoveGroupMember(g, u)
              \/ UNCHANGED vars
       PROVE EveryObjectAccounted'
  BY <1>11, <1>14 DEF WriteRow, AddGroupMember, RemoveGroupMember, vars, history
<1>15. ASSUME NEW f \in Files, ImportDirectory(f)
       PROVE EveryObjectAccounted'
  BY <1>15 DEF ImportDirectory, EveryObjectAccounted
<1> QED
  BY <1>1, <1>2, <1>3, <1>4, <1>5, <1>6, <1>7, <1>8, <1>9, <1>10, <1>12, <1>13, <1>14,
     <1>15 DEF Next, Looks, Seed

(* No overlap of soft deletes, restores, purges, expiry, hard deletes and   *)
(* resets loses an object or brings back one that was deleted for good.     *)
THEOREM ObjectsAlwaysAccounted == Spec => []EveryObjectAccounted
<1>1. Init => EveryObjectAccounted
  BY DEF Init, EveryObjectAccounted, NoItem
<1> QED BY <1>1, AccountedStep, TypeCorrect, PTL DEF Spec

-----------------------------------------------------------------------------
\* Memberships that a soft delete recorded

\* A recorded membership is held by the recycle bin, in the item of an end that
\* is away, or that end is not in the bin any more and does not come back.
CutHeld ==
    \A e \in cut : \E o \in Ends(e) :
        o \notin live /\ o \in born /\ (bin[o].held => e \in bin[o].edges)

(* Both ends of a membership are objects. *)
LEMMA EndTypes ==
    ASSUME TypeOK, NEW e \in cut
    PROVE  Ends(e) \subseteq Objects
BY DEF TypeOK, Ends, Edges, Objects

(* What neither restores, recycles nor makes live an id that was given away *)
(* before keeps the recorded memberships held.                              *)
LEMMA CutKept ==
    ASSUME TypeOK, CutHeld,
           cut' \subseteq cut, born \subseteq born',
           \A e \in cut' : \A o \in Ends(e) \ live : o \in born => o \notin live',
           \A o \in Objects : bin'[o] = bin[o] \/ bin'[o].held = FALSE
    PROVE  CutHeld'
<1> SUFFICES ASSUME NEW e \in cut'
             PROVE  \E o \in Ends(e) :
                       o \notin live' /\ o \in born' /\ (bin'[o].held => e \in bin'[o].edges)
  BY DEF CutHeld, Ends
<1>1. PICK o \in Ends(e) : o \notin live /\ o \in born /\ (bin[o].held => e \in bin[o].edges)
  BY DEF CutHeld
<1>2. o \in Objects
  BY EndTypes
<1> QED BY <1>1, <1>2

(* Every step keeps each recorded membership held by the item of one end. *)
LEMMA CutStep ==
    TypeOK /\ EveryObjectAccounted /\ CutHeld /\ [Next]_vars => CutHeld'
<1> SUFFICES ASSUME TypeOK, EveryObjectAccounted, CutHeld, [Next]_vars PROVE CutHeld'
  OBVIOUS
<1>1. ASSUME NEW o \in Users \cup Groups, NEW k \in Upns \cup {None}, Create(o, k)
      PROVE CutHeld'
  BY <1>1, CutKept DEF Create
<1>2. ASSUME NEW r \in Requests, NEW a \in Apps, InsertApp(r, a)
      PROVE CutHeld'
  BY <1>2, CutKept DEF InsertApp
<1>3. ASSUME NEW o \in Objects, HardDelete(o)
      PROVE CutHeld'
  BY <1>3, CutKept DEF HardDelete, Delete
<1>4. ASSUME NEW r \in Requests, SoftDeleteCommit(r)
      PROVE CutHeld'
  <2> DEFINE o == req[r].obj
  <2>1. CASE CanRecycle(o)
    <3>1. /\ live' = live \ {o} /\ born' = born
          /\ bin' = [bin EXCEPT ![o] = RecycledRow(r)]
          /\ cut' = cut \cup (EdgesOf(o) \cap req[r].edges)
      BY <1>4, <2>1 DEF SoftDeleteCommit, Delete
    <3>2. o \in Objects /\ o \in live /\ o \in born
      BY <2>1 DEF CanRecycle, TypeOK, EveryObjectAccounted
    <3>3. bin'[o].edges = req[r].edges /\ \A p \in Objects \ {o} : bin'[p] = bin[p]
      BY <3>1, <3>2 DEF TypeOK, RecycledRow
    <3> HIDE DEF o
    <3>4. ASSUME NEW e \in cut
          PROVE  \E p \in Ends(e) :
                    p \notin live' /\ p \in born' /\ (bin'[p].held => e \in bin'[p].edges)
      <4>1. PICK p \in Ends(e) :
                 p \notin live /\ p \in born /\ (bin[p].held => e \in bin[p].edges)
        BY DEF CutHeld
      <4>2. p \in Objects \ {o}
        BY <3>2, <4>1, EndTypes
      <4> QED BY <3>1, <3>3, <4>1, <4>2
    <3>5. ASSUME NEW e \in EdgesOf(o) \cap req[r].edges
          PROVE  o \in Ends(e) /\ o \notin live' /\ o \in born' /\ e \in bin'[o].edges
      BY <3>1, <3>2, <3>3 DEF EdgesOf
    <3> QED BY <3>1, <3>4, <3>5 DEF CutHeld, Ends
  <2>2. CASE ~CanRecycle(o)
    BY <1>4, <2>2 DEF SoftDeleteCommit, CutHeld, tables
  <2> QED BY <2>1, <2>2
<1>5. ASSUME NEW r \in Requests, RestoreCommit(r)
      PROVE CutHeld'
  <2> DEFINE o == req[r].obj
  <2>1. CASE Restores(r)
    <3>1. /\ live' = live \cup {o} /\ born' = born
          /\ bin' = [bin EXCEPT ![o] = NoItem]
          /\ members' = members \cup Reattached(o, req[r].edges)
          /\ cut' = cut \ (members' \cup LeftOut(o, req[r].edges))
      BY <1>5, <2>1, RestoreEither DEF RestoreCommit
    <3>2. o \in Objects /\ bin[o].held
      BY <2>1 DEF Restores, CanRestore, TypeOK, Request
    <3>3. \A p \in Objects \ {o} : bin'[p] = bin[p]
      BY <3>1, <3>2 DEF TypeOK
    <3> HIDE DEF o
    <3>4. \A e \in cut' : e \in cut /\ e \notin bin[o].edges
      BY <3>1 DEF LeftOut, Reattached
    <3> SUFFICES ASSUME NEW e \in cut'
                 PROVE  \E p \in Ends(e) : p \notin live' /\ p \in born'
                                          /\ (bin'[p].held => e \in bin'[p].edges)
      BY DEF CutHeld, Ends
    <3>5. PICK p \in Ends(e) : p \notin live /\ p \in born /\ (bin[p].held => e \in bin[p].edges)
      BY <3>4 DEF CutHeld
    <3>6. p \in Objects \ {o}
      BY <3>2, <3>4, <3>5, EndTypes
    <3> QED BY <3>1, <3>3, <3>5, <3>6
  <2>2. CASE ~Restores(r)
    BY <1>5, <2>2, RestoreEither DEF RestoreCommit, CutHeld
  <2> QED BY <2>1, <2>2
<1>6. ASSUME NEW S \in SUBSET Objects, Drop(S)
      PROVE  \A o \in Objects : bin'[o] = bin[o] \/ bin'[o].held = FALSE
  BY <1>6 DEF Drop, NoItem
<1>7. CASE ListDeleted
  BY <1>6, <1>7, CutKept DEF ListDeleted
<1>8. ASSUME NEW o \in Objects, PurgeDeleted(o)
      PROVE CutHeld'
  BY <1>6, <1>8, CutKept DEF PurgeDeleted
<1>9. ASSUME NEW r \in Requests, NEW o \in Objects, RestoreRead(r, o)
      PROVE CutHeld'
  BY <1>6, <1>9, CutKept DEF RestoreRead
<1>10. ASSUME SeedTx PROVE CutHeld'
  BY <1>10, CutKept DEF SeedTx
<1>11. ASSUME NEW r \in Requests, NEW reseed \in BOOLEAN, ResetTables(r, reseed)
       PROVE CutHeld'
  BY <1>11, CutKept DEF ResetTables
<1>12. ASSUME UNCHANGED <<live, bin, born, cut>> PROVE CutHeld'
  BY <1>12 DEF CutHeld
<1>13. ASSUME NEW r \in Requests, ResetSeed(r)
       PROVE CutHeld'
  BY <1>10, <1>12, <1>13 DEF ResetSeed, tables, history
<1>14. ASSUME Looks PROVE CutHeld'
  BY <1>12, <1>14, LooksQuiet
<1>15. ASSUME \/ \E r \in Requests : WriteRow(r)
              \/ \E g \in Groups, u \in Users : AddGroupMember(g, u)
              \/ \E g \in Groups, u \in Users : RemoveGroupMember(g, u)
              \/ UNCHANGED vars
       PROVE CutHeld'
  BY <1>12, <1>15 DEF WriteRow, AddGroupMember, RemoveGroupMember, vars, history
<1>16. ASSUME NEW f \in Files, ImportDirectory(f)
       PROVE CutHeld'
  BY <1>16, CutKept DEF ImportDirectory
<1> QED
  BY <1>1, <1>2, <1>3, <1>4, <1>5, <1>7, <1>8, <1>9, <1>10, <1>11, <1>13, <1>14, <1>15,
     <1>16 DEF Next, Looks, Seed

(* No recorded membership is missing once its user and its group are both   *)
(* live again, in whatever order they were deleted, restored and purged.    *)
THEOREM MembershipsAlwaysReturn == Spec => []MembershipsReturn
<1>1. Init => CutHeld
  BY DEF Init, CutHeld
<1>2. CutHeld => MembershipsReturn
  BY DEF CutHeld, MembershipsReturn
<1> QED BY <1>1, <1>2, CutStep, TypeCorrect, ObjectsAlwaysAccounted, PTL DEF Spec

-----------------------------------------------------------------------------
\* UPNs

\* A UPN comes from a create, a read of a live row or the recycle bin, so it
\* is never the empty key the UNIQUE constraint does not see.
KeysKnown ==
    /\ \A u \in Users \cap live : key[u] \in Upns
    /\ \A u \in Users : bin[u].held => bin[u].key \in Upns
    /\ \A r \in Requests :
          /\ req[r].obj \in Users /\ req[r].pc \in {"write", "edges", "delete", "restore"}
                => req[r].key \in Upns
          /\ req[r].pc = "uri" => req[r].obj \in Apps

\* The inductive invariant of UpnUnique
UpnInv == UpnUnique /\ KeysKnown

(* What the UNIQUE constraint checks, for a key that is a UPN. *)
LEMMA NotTaken ==
    ASSUME NEW o, NEW k \in Upns, ~Taken(o, k)
    PROVE  \A p \in live \ {o} : key[p] # k
BY DirectoryAssumptions DEF Taken

(* A row written with a UPN nobody else has keeps the UPNs unique. *)
LEMMA KeyWritten ==
    ASSUME TypeOK, UpnUnique, NEW o \in Objects, NEW k \in Keys,
           o \in Users => k \in Upns /\ ~Taken(o, k),
           key' = [key EXCEPT ![o] = k],
           live' \subseteq live \cup {o}
    PROVE  UpnUnique'
<1> SUFFICES ASSUME NEW u \in Users \cap live', NEW v \in Users \cap live', key'[u] = key'[v]
             PROVE  u = v
  BY DEF UpnUnique
<1>1. \A p \in Objects : key'[p] = IF p = o THEN k ELSE key[p]
  BY DEF TypeOK
<1>2. u \in Objects /\ v \in Objects
  BY DEF Objects
<1>3. CASE u = o /\ v # o
  BY <1>1, <1>2, <1>3, NotTaken
<1>4. CASE v = o /\ u # o
  BY <1>1, <1>2, <1>4, NotTaken
<1>5. CASE u # o /\ v # o
  BY <1>1, <1>2, <1>5 DEF UpnUnique
<1> QED BY <1>3, <1>4, <1>5

(* The UPNs stay unique when rows only go away. *)
LEMMA KeyRemoved ==
    ASSUME UpnUnique, live' \subseteq live,
           \A p \in live' : key'[p] = key[p]
    PROVE  UpnUnique'
BY DEF UpnUnique

(* Every step preserves what is known of the keys. *)
LEMMA KeysStep == TypeOK /\ KeysKnown /\ [Next]_vars => KeysKnown'
<1> SUFFICES ASSUME TypeOK, KeysKnown, [Next]_vars PROVE KeysKnown'
  OBVIOUS
<1> USE DirectoryAssumptions
<1>1. ASSUME NEW o \in Users \cup Groups, NEW k \in Upns \cup {None}, Create(o, k)
      PROVE KeysKnown'
  BY <1>1 DEF Create, KeysKnown, TypeOK, Objects
<1>2. ASSUME NEW r \in Requests, NEW k \in Uris \cup {None}, CheckNewApp(r, k)
      PROVE KeysKnown'
  BY <1>2 DEF CheckNewApp, Begin, KeysKnown, TypeOK, tables
<1>3. ASSUME NEW r \in Requests, NEW a \in Apps, InsertApp(r, a)
      PROVE KeysKnown'
  BY <1>3 DEF InsertApp, Finish, Idle, KeysKnown, TypeOK, Objects
<1>4. ASSUME NEW r \in Requests, NEW u \in Users, NEW k \in Upns, ReadUser(r, u, k)
      PROVE KeysKnown'
  BY <1>4 DEF ReadUser, Begin, KeysKnown, TypeOK, tables
<1>5. ASSUME NEW r \in Requests, NEW a \in Apps, NEW k \in Uris \cup {None}, ReadApp(r, a, k)
      PROVE KeysKnown'
  BY <1>5 DEF ReadApp, Begin, KeysKnown, TypeOK, tables
<1>6. ASSUME NEW r \in Requests, CheckUri(r)
      PROVE KeysKnown'
  BY <1>6 DEF CheckUri, Finish, Idle, KeysKnown, TypeOK, Request, tables
<1>7. ASSUME NEW r \in Requests, WriteRow(r)
      PROVE KeysKnown'
  BY <1>7 DEF WriteRow, CanWrite, Finish, Idle, KeysKnown, TypeOK, Objects
<1>8. ASSUME NEW o \in Objects, HardDelete(o)
      PROVE KeysKnown'
  BY <1>8 DEF HardDelete, Delete, KeysKnown, TypeOK, Objects
<1>9. ASSUME NEW r \in Requests, NEW o \in Objects, SoftDeleteRead(r, o)
      PROVE KeysKnown'
  BY <1>9 DEF SoftDeleteRead, Begin, KeysKnown, TypeOK, tables
<1>10. ASSUME NEW r \in Requests, SoftDeleteEdges(r)
       PROVE KeysKnown'
  BY <1>10 DEF SoftDeleteEdges, KeysKnown, TypeOK, Request, tables
<1>11. ASSUME NEW r \in Requests, SoftDeleteCommit(r)
       PROVE KeysKnown'
  BY <1>11 DEF SoftDeleteCommit, RecycledRow, Delete, Finish, Idle, KeysKnown, TypeOK,
                Objects, tables
<1>12. ASSUME NEW S \in SUBSET Objects, Drop(S)
       PROVE \A u \in Users : bin'[u].held => bin'[u].key \in Upns
  BY <1>12 DEF Drop, NoItem, KeysKnown, Objects
<1>13. CASE ListDeleted
  BY <1>12, <1>13 DEF ListDeleted, KeysKnown
<1>14. ASSUME NEW o \in Objects, PurgeDeleted(o)
       PROVE KeysKnown'
  BY <1>12, <1>14 DEF PurgeDeleted, KeysKnown
<1>15. ASSUME NEW r \in Requests, NEW o \in Objects, RestoreRead(r, o)
       PROVE KeysKnown'
  <2>1. \A u \in Users : bin'[u].held => bin'[u].key \in Upns
    BY <1>12, <1>15 DEF RestoreRead
  <2> QED BY <1>15, <2>1 DEF RestoreRead, Begin, KeysKnown, TypeOK
<1>16. ASSUME NEW r \in Requests, RestoreCommit(r)
       PROVE KeysKnown'
  <2>1. \A s \in Requests : req'[s] = IF s = r THEN Idle ELSE req[s]
    BY <1>16 DEF RestoreCommit, Finish, TypeOK
  <2>2. req[r].obj \in Objects
    BY DEF TypeOK, Request
  <2>3. req[r].obj \in Users => req[r].key \in Upns
    BY <1>16 DEF RestoreCommit, KeysKnown
  <2>4. CASE Restores(r)
    BY <1>16, <2>1, <2>2, <2>3, <2>4, RestoreEither
       DEF Idle, NoItem, KeysKnown, TypeOK, Objects
  <2>5. CASE ~Restores(r)
    BY <1>16, <2>1, <2>5, RestoreEither DEF Idle, KeysKnown
  <2> QED BY <2>4, <2>5
<1>17. ASSUME SeedTx
       PROVE \A u \in Users \cap live' : key'[u] \in Upns
  BY <1>17 DEF SeedTx, KeysKnown, TypeOK, Seeds, Objects
<1>18. CASE Seed
  BY <1>17, <1>18 DEF Seed, SeedTx, KeysKnown
<1>19. ASSUME NEW r \in Requests, NEW reseed \in BOOLEAN, ResetTables(r, reseed)
       PROVE KeysKnown'
  BY <1>19 DEF ResetTables, KeysKnown, TypeOK, Request
<1>20. ASSUME NEW r \in Requests, ResetSeed(r)
       PROVE KeysKnown'
  BY <1>17, <1>20 DEF ResetSeed, SeedTx, Finish, Idle, KeysKnown, TypeOK, tables
<1>21. ASSUME \/ \E g \in Groups, u \in Users : AddGroupMember(g, u)
              \/ \E g \in Groups, u \in Users : RemoveGroupMember(g, u)
              \/ Tick
              \/ UNCHANGED vars
       PROVE KeysKnown'
  BY <1>21 DEF AddGroupMember, RemoveGroupMember, Tick, vars, tables, KeysKnown
<1>22. ASSUME NEW f \in Files, ImportDirectory(f)
       PROVE KeysKnown'
  <2>1. \A u \in Users \cap f.rows : f.key[u] \in Upns
    BY FilesAssumption
  <2> QED BY <1>22, <2>1 DEF ImportDirectory, KeysKnown, Objects
<1> QED
  BY <1>1, <1>2, <1>3, <1>4, <1>5, <1>6, <1>7, <1>8, <1>9, <1>10, <1>11, <1>13, <1>14,
     <1>15, <1>16, <1>18, <1>19, <1>20, <1>21, <1>22 DEF Next

(* Every step keeps the UPNs of live users apart. *)
LEMMA UpnStep == TypeOK /\ UpnInv /\ [Next]_vars => UpnUnique'
<1> SUFFICES ASSUME TypeOK, UpnUnique, KeysKnown, [Next]_vars PROVE UpnUnique'
  BY DEF UpnInv
<1> USE DirectoryAssumptions
<1>1. ASSUME NEW o \in Users \cup Groups, NEW k \in Upns \cup {None}, Create(o, k)
      PROVE UpnUnique'
  <2>1. o \in Objects /\ k \in Keys /\ (o \in Users => k \in Upns)
    BY <1>1 DEF Create, Objects, Keys
  <2> QED BY <1>1, <2>1, KeyWritten DEF Create
<1>2. ASSUME NEW r \in Requests, NEW a \in Apps, InsertApp(r, a)
      PROVE UpnUnique'
  <2>1. a \in Objects /\ req[r].key \in Keys /\ a \notin Users
    BY DEF Objects, TypeOK, Request
  <2> QED BY <1>2, <2>1, KeyWritten DEF InsertApp
<1>3. ASSUME NEW r \in Requests, WriteRow(r)
      PROVE UpnUnique'
  <2>1. /\ req[r].obj \in Objects /\ req[r].key \in Keys
        /\ req[r].obj \in Users => req[r].key \in Upns
    BY <1>3 DEF WriteRow, KeysKnown, TypeOK, Request
  <2>2. CASE CanWrite(req[r].obj, req[r].key)
    BY <1>3, <2>1, <2>2, KeyWritten DEF WriteRow, CanWrite
  <2>3. CASE ~CanWrite(req[r].obj, req[r].key)
    BY <1>3, <2>3, KeyRemoved DEF WriteRow
  <2> QED BY <2>2, <2>3
<1>4. ASSUME NEW o \in Objects, Delete(o)
      PROVE UpnUnique'
  BY <1>4, KeyRemoved DEF Delete, TypeOK
<1>5. ASSUME NEW r \in Requests, SoftDeleteCommit(r)
      PROVE UpnUnique'
  <2>1. req[r].obj \in Objects
    BY DEF TypeOK, Request
  <2>2. CASE CanRecycle(req[r].obj)
    BY <1>4, <1>5, <2>1, <2>2 DEF SoftDeleteCommit
  <2>3. CASE ~CanRecycle(req[r].obj)
    BY <1>5, <2>3, KeyRemoved DEF SoftDeleteCommit, tables
  <2> QED BY <2>2, <2>3
<1>6. ASSUME NEW r \in Requests, RestoreCommit(r)
      PROVE UpnUnique'
  <2>1. /\ req[r].obj \in Objects /\ req[r].key \in Keys
        /\ req[r].obj \in Users => req[r].key \in Upns
    BY <1>6 DEF RestoreCommit, KeysKnown, TypeOK, Request
  <2>2. CASE Restores(r)
    BY <1>6, <2>1, <2>2, RestoreEither, KeyWritten DEF Restores, CanRestore
  <2>3. CASE ~Restores(r)
    BY <1>6, <2>3, RestoreEither, KeyRemoved
  <2> QED BY <2>2, <2>3
<1>7. ASSUME SeedTx PROVE UpnUnique'
  <2>1. CASE SeedUser \in live
    BY <1>7, <2>1 DEF SeedTx, Seeds, UpnUnique
  <2>2. CASE SeedUser \notin live
    <3>1. ~Taken(SeedUser, SeedUpn) /\ key' = [key EXCEPT ![SeedUser] = SeedUpn]
      BY <1>7, <2>2 DEF SeedTx, SeedFails
    <3>2. \A p \in Users : p # SeedUser => key'[p] = key[p] /\ (p \in live' => p \in live)
      BY <1>7, <3>1 DEF SeedTx, Seeds, TypeOK, Objects
    <3>3. key'[SeedUser] = SeedUpn
      BY <3>1 DEF TypeOK, Objects
    <3>4. \A p \in Users \cap live' : p # SeedUser => key'[p] # key'[SeedUser]
      BY <3>1, <3>2, <3>3, NotTaken
    <3> QED BY <3>2, <3>4 DEF UpnUnique
  <2> QED BY <2>1, <2>2
<1>8. ASSUME NEW r \in Requests, NEW reseed \in BOOLEAN, ResetTables(r, reseed)
      PROVE UpnUnique'
  BY <1>8 DEF ResetTables, UpnUnique
<1>9. ASSUME UNCHANGED <<live, key>> PROVE UpnUnique'
  BY <1>9 DEF UpnUnique
<1>10. ASSUME NEW r \in Requests, ResetSeed(r)
       PROVE UpnUnique'
  BY <1>7, <1>9, <1>10 DEF ResetSeed, tables
<1>11. ASSUME Looks PROVE UpnUnique'
  BY <1>9, <1>11, LooksQuiet
<1>12. ASSUME \/ ListDeleted
              \/ \E o \in Objects : PurgeDeleted(o)
              \/ \E r \in Requests, o \in Objects : RestoreRead(r, o)
              \/ \E g \in Groups, u \in Users : AddGroupMember(g, u)
              \/ \E g \in Groups, u \in Users : RemoveGroupMember(g, u)
              \/ UNCHANGED vars
       PROVE UpnUnique'
  BY <1>9, <1>12 DEF ListDeleted, PurgeDeleted, RestoreRead, AddGroupMember,
                     RemoveGroupMember, vars
<1>13. ASSUME NEW f \in Files, ImportDirectory(f)
       PROVE UpnUnique'
  BY <1>13 DEF ImportDirectory, CanImport, UpnUnique, Objects
<1> QED
  BY <1>1, <1>2, <1>3, <1>4, <1>5, <1>6, <1>7, <1>8, <1>10, <1>11, <1>12, <1>13
     DEF Next, Looks, Seed, HardDelete

(* Two live users never share a UPN, whatever order renames, deletes,       *)
(* restores, seeds and resets commit in.                                    *)
THEOREM UpnsAlwaysUnique == Spec => []UpnUnique
<1>1. Init => UpnInv
  BY DirectoryAssumptions
     DEF Init, UpnInv, UpnUnique, KeysKnown, NoItem, Idle, Objects
<1>2. TypeOK /\ UpnInv /\ [Next]_vars => UpnInv'
  BY UpnStep, KeysStep DEF UpnInv
<1>3. UpnInv => UpnUnique
  BY DEF UpnInv
<1> QED BY <1>1, <1>2, <1>3, TypeCorrect, PTL DEF Spec
=============================================================================
