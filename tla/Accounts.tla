------------------------------ MODULE Accounts ------------------------------
(***************************************************************************)
(* Users and groups as the three write surfaces change them: the admin API *)
(* (admin/admin.go, groups_apps.go), Graph (graph/writes.go,               *)
(* invitations.go, passwordreset.go) and the SCIM service provider         *)
(* (scim/resources.go, mapping.go, store/scimext.go).                      *)
(*                                                                         *)
(* A handler reads the whole row, changes it in memory and writes it back; *)
(* SCIM adds statements for the members and the externalId, which lives in *)
(* a table of its own.  Every statement is a step, so that of concurrent   *)
(* requests.  A body is a partial row; a body that a handler turns down    *)
(* before its first write changes nothing and is left out, as are custom   *)
(* security attributes.  The recycle bin is the subject of Directory.      *)
(***************************************************************************)
EXTENDS Integers, Sequences, FiniteSets

CONSTANTS
    Users, Groups,
    Row0, Ext0,     \* the row and the externalId of each object at the start
    Patches,        \* bodies of the admin and Graph requests, partial rows
    UserOps,        \* Operations of a SCIM PATCH of a user
    GroupOps,       \* Operations of a SCIM PATCH of a group
    ExternalIds,    \* what SCIM clients send as externalId, "" if nothing
    Values,         \* attribute values and externalIds, "" for none
    Requests        \* bound: write requests, each served once

Objects == Users \cup Groups

\* "profile" stands for the attributes that need no more than copying.
UserAttrs == {"upn", "profile", "active", "password", "state"}
GroupAttrs == {"profile", "description"}
Attrs(o) == IF o \in Users THEN UserAttrs ELSE GroupAttrs

Verbs == {"add", "replace", "remove"}

\* Operations of a SCIM PATCH
UserOp == [op: Verbs, path: {"upn", "profile", "active", "externalId"}, value: Values]
GroupOp == [op: Verbs, path: {"profile", "externalId"}, value: Values]
               \cup [op: Verbs, path: {"members"}, value: SUBSET Users]

ASSUME AccountsAssumptions ==
    /\ Users # {} /\ Users \cap Groups = {}
    /\ \A o \in Objects : Row0[o] \in [Attrs(o) -> Values]
    /\ \A p \in Patches : DOMAIN p \subseteq UserAttrs \cup GroupAttrs /\ \A a \in DOMAIN p : p[a] \in Values
    /\ {"", "true", "reset", "PendingAcceptance", "Accepted"} \subseteq Values
    /\ "" \in ExternalIds /\ ExternalIds \subseteq Values /\ Ext0 \in [Objects -> ExternalIds]
    /\ UserOps \subseteq Seq(UserOp) /\ GroupOps \subseteq Seq(GroupOp)

VARIABLES
    live,       \* the objects that have a row
    fresh,      \* ids that have not been drawn yet
    rows,
    members,    \* group_members
    extid,      \* scim_external_ids, "" without a row
    reqs,       \* requests in flight
    since,      \* history: attributes changed by others since a request read its row
    touched,    \* history: users whose membership others changed since it was listed
    foreign     \* history: objects deleted outside SCIM, or under another request

tables == <<live, fresh, rows, members, extid>>
history == <<since, touched, foreign>>
accountVars == <<tables, reqs, history>>

NoRow == [a \in {} |-> ""]

\* named: the attributes it sets; after, back: where it goes on once its row,
\* or its members, are written
NewRequest == [pc |-> "new", obj |-> CHOOSE o \in Objects : TRUE, row |-> NoRow, named |-> {},
               ext |-> "", ops |-> <<>>, todo |-> {}, want |-> {}, after |-> "done", back |-> "setext"]

Done == [NewRequest EXCEPT !.pc = "done"]

InFlight(w) == reqs[w].pc \notin {"new", "done"}

Goto(w, q) == reqs' = [reqs EXCEPT ![w] = q]

Begins(w) == reqs[w].pc = "new"
At(w, l) == reqs[w].pc = l

-----------------------------------------------------------------------------
\* Rows

\* Mutant: what the body does not name is cleared.
ClearOthers(row, p) == [a \in DOMAIN row |-> IF a \in DOMAIN p THEN p[a] ELSE ""]

\* applyUserBody, and the same in Graph: a body changes what it names.
Override(row, p) == [a \in DOMAIN row |-> IF a \in DOMAIN p THEN p[a] ELSE row[a]]

\* applyTo: a PUT clears the profile it does not carry; userName and active stay.
Replacing(p) == [a \in (DOMAIN p \cap {"upn", "active"}) \cup {"profile"} |->
                    IF a \in DOMAIN p THEN p[a] ELSE ""]

\* UNIQUE user_principal_name
UpnTaken(o, row) == o \in Users /\ \E v \in (live \cap Users) \ {o} : rows[v].upn = row.upn

\* Others learn that attributes of o have changed.
Noted(o, A, w) == [v \in Requests |-> IF v # w /\ InFlight(v) /\ reqs[v].obj = o
                                      THEN since[v] \cup A ELSE since[v]]

\* Others learn that the membership of users in group g has changed.
Moved(g, S, w) == [v \in Requests |-> IF v # w /\ InFlight(v) /\ reqs[v].obj = g
                                      THEN touched[v] \cup S ELSE touched[v]]

-----------------------------------------------------------------------------
\* Creating and deleting

\* INSERT, then what q says; ids are random, so that only a name can be taken
InsertRow(w, o, row, q) ==
    /\ Begins(w) /\ o \in fresh
    /\ fresh' = fresh \ {o}
    /\ IF UpnTaken(o, row)
       THEN Goto(w, Done) /\ UNCHANGED <<live, rows, touched>>
       ELSE /\ live' = live \cup {o}
            /\ rows' = [rows EXCEPT ![o] = row]
            /\ Goto(w, q)
            /\ touched' = [v \in Requests |-> touched[v] \cup ({o} \cap Users)]
    /\ UNCHANGED <<members, extid, since, foreign>>

\* createUser of the admin API
CreateUser(w, u, p) == InsertRow(w, u, Override(Row0[u], p), Done)

\* createUser of Graph: the same but for the bodies
GraphCreateUser(w, u, p) == InsertRow(w, u, Override(Row0[u], p), Done)

\* createInvitation
CreateInvitation(w, u) == InsertRow(w, u, Override(Row0[u], [state |-> "PendingAcceptance"]), Done)

\* createUser of SCIM
ScimCreateUser(w, u, p, ext) ==
    InsertRow(w, u, Override(Row0[u], Replacing(p)),
           IF ext = "" THEN Done ELSE [NewRequest EXCEPT !.pc = "setext", !.obj = u, !.ext = ext])

\* createGroup of the admin API and of Graph
CreateGroup(w, g) == InsertRow(w, g, Row0[g], Done)

GraphCreateGroup(w, g) == InsertRow(w, g, Row0[g], Done)

\* createGroup of SCIM adds the members, one after the other.
ScimCreateGroup(w, g, ext, want) ==
    InsertRow(w, g, Override(Row0[g], [description |-> ""]),
           [NewRequest EXCEPT !.pc = "members", !.obj = g, !.ext = ext,
                !.todo = {<<"add", u>> : u \in want}, !.back = IF ext = "" THEN "done" ELSE "setext"])

\* The row goes, and by cascade its memberships; then what q says.
DeleteRow(w, o, q) ==
    /\ Begins(w)
    /\ IF o \notin live THEN Goto(w, Done) /\ UNCHANGED <<live, rows, members, touched, foreign>>
       ELSE /\ live' = live \ {o}
            /\ rows' = [rows EXCEPT ![o] = NoRow]
            /\ members' = {m \in members : o \notin {m[1], m[2]}}
            /\ touched' = [v \in Requests |-> touched[v] \cup ({o} \cap Users)]
            /\ foreign' = IF q = Done \/ \E v \in Requests \ {w} : InFlight(v) /\ reqs[v].obj = o
                          THEN foreign \cup {o} ELSE foreign
            /\ Goto(w, q)
    /\ UNCHANGED <<fresh, extid, since>>

\* deleteUser and deleteGroup of the admin API
DeleteUser(w, u) == DeleteRow(w, u, Done)

DeleteGroup(w, g) == DeleteRow(w, g, Done)

\* Graph moves users and groups to the recycle bin (see Directory).
SoftDelete(w, o) == DeleteRow(w, o, Done)

\* deleteUser and deleteGroup of SCIM: only they drop the externalId, next.
ScimDeleteUser(w, u) == DeleteRow(w, u, [NewRequest EXCEPT !.pc = "dropext", !.obj = u])

ScimDeleteGroup(w, g) == DeleteRow(w, g, [NewRequest EXCEPT !.pc = "dropext", !.obj = g])

\* Mutant: the mapping outlives its resource.
KeepExternalID(w) == At(w, "dropext") /\ Goto(w, Done) /\ UNCHANGED <<tables, history>>

DeleteExternalID(w) ==
    /\ At(w, "dropext") /\ Goto(w, Done)
    /\ extid' = [extid EXCEPT ![reqs[w].obj] = ""]
    /\ UNCHANGED <<live, fresh, rows, members, history>>

-----------------------------------------------------------------------------
\* Updating: read the row, change it, write it back

\* The request reads the row and goes on with q, in which the row is changed.
ReadRow(w, o, q) ==
    /\ Begins(w)
    /\ Goto(w, IF o \notin live THEN Done ELSE [q EXCEPT !.obj = o])
    /\ since' = [since EXCEPT ![w] = {}]
    /\ UNCHANGED <<tables, touched, foreign>>

Writing(o, p) == [NewRequest EXCEPT !.pc = "update", !.row = Override(rows[o], p), !.named = DOMAIN p]

\* patchUser of the admin API; "null" as password clears it.
PatchUser(w, u, p) == DOMAIN p \subseteq UserAttrs /\ ReadRow(w, u, Writing(u, p))

\* updateUser of Graph, which cannot clear a password
UpdateUser(w, u, p) ==
    /\ DOMAIN p \subseteq UserAttrs /\ ("password" \in DOMAIN p => p.password # "")
    /\ ReadRow(w, u, Writing(u, p))

\* patchGroup of the admin API, updateGroup of Graph
PatchGroup(w, g, p) == DOMAIN p \subseteq GroupAttrs /\ ReadRow(w, g, Writing(g, p))

UpdateGroup(w, g, p) == DOMAIN p \subseteq GroupAttrs /\ ReadRow(w, g, Writing(g, p))

ResetPassword(w, u) == ReadRow(w, u, Writing(u, [password |-> "reset"]))

\* redeemInvitation takes any user and writes unless it has accepted already.
RedeemInvitation(w, u) ==
    ReadRow(w, u, IF u \in live /\ rows[u].state = "Accepted" THEN Done
                  ELSE Writing(u, [state |-> "Accepted"]))

\* PUT
ReplaceUser(w, u, p, ext) ==
    /\ DOMAIN p \subseteq UserAttrs
    /\ ReadRow(w, u, [Writing(u, Replacing(p)) EXCEPT !.ext = ext, !.after = "setext"])

ReplaceGroup(w, g, p, ext, want) ==
    /\ DOMAIN p = {"profile"}
    /\ ReadRow(w, g, [Writing(g, p) EXCEPT !.ext = ext, !.want = want, !.after = "list"])

\* patchUser and patchGroup of SCIM read the externalId next.
ScimPatchUser(w, u, ops) ==
    ReadRow(w, u, [NewRequest EXCEPT !.pc = "ext", !.row = rows[u], !.ops = ops, !.after = "setext"])

ScimPatchGroup(w, g, ops) ==
    ReadRow(w, g, [NewRequest EXCEPT !.pc = "ext", !.row = rows[g], !.ops = ops,
                       !.after = "setext", !.back = "ops"])

ReadExternalID(w) ==
    /\ At(w, "ext")
    /\ Goto(w, [reqs[w] EXCEPT !.pc = "ops", !.ext = extid[reqs[w].obj]])
    /\ UNCHANGED <<tables, history>>

ValueOrEmpty(op) == IF op.op = "remove" THEN "" ELSE op.value

\* setUserAttr: removing active resets it, removing userName does nothing.
ApplyUserOp(q, op) ==
    CASE op.path = "externalId" -> [q EXCEPT !.ext = ValueOrEmpty(op)]
      [] op.path = "upn" /\ op.op = "remove" -> q
      [] OTHER -> [q EXCEPT !.named = @ \cup {op.path},
                      !.row = Override(@, [a \in {op.path} |->
                          IF a = "active" /\ op.op = "remove" THEN "true" ELSE ValueOrEmpty(op)])]

\* applyGroupOp: the members are changed at once, one statement each; a remove
\* without a value empties the group.
ApplyGroupOp(q, op) ==
    CASE op.path = "externalId" -> [q EXCEPT !.ext = ValueOrEmpty(op)]
      [] op.path = "profile" /\ op.op = "remove" -> q
      [] op.path = "profile" /\ op.op # "remove" ->
             [q EXCEPT !.named = @ \cup {"profile"}, !.row = Override(@, [profile |-> op.value])]
      [] op.path = "members" ->
             LET S == IF op.op = "remove" /\ op.value = {}
                      THEN {u \in Users : <<q.obj, u>> \in members} ELSE op.value
                              verb == IF op.op = "remove" THEN "remove" ELSE "add"
             IN  [q EXCEPT !.pc = "members", !.todo = {<<verb, u>> : u \in S}]

ApplyOps(w) ==
    LET q == reqs[w] IN
    /\ At(w, "ops")
    /\ Goto(w, CASE q.ops = <<>> -> [q EXCEPT !.pc = "update"]
                 [] q.ops # <<>> /\ q.obj \in Users -> ApplyUserOp([q EXCEPT !.ops = Tail(@)], Head(q.ops))
                 [] OTHER -> ApplyGroupOp([q EXCEPT !.ops = Tail(@)], Head(q.ops)))
    /\ UNCHANGED <<tables, history>>

\* UPDATE users or groups: the whole row, unless it is gone or the name taken
WriteRow(w) ==
    LET q == reqs[w] IN
    /\ At(w, "update")
    /\ IF q.obj \notin live \/ UpnTaken(q.obj, q.row)
       THEN Goto(w, Done) /\ UNCHANGED <<rows, since>>
       ELSE /\ rows' = [rows EXCEPT ![q.obj] = q.row]
            /\ since' = Noted(q.obj, {a \in Attrs(q.obj) : q.row[a] # rows[q.obj][a]}, w)
            /\ Goto(w, IF q.after = "done" THEN Done ELSE [q EXCEPT !.pc = q.after])
    /\ UNCHANGED <<live, fresh, members, extid, touched, foreign>>

\* Mutant: members that the body does not carry are kept.
AddsOnly(have, want) == {<<"add", u>> : u \in want \ have}

\* replaceGroup's reconciliation
Reconciled(have, want) == {<<"remove", u>> : u \in have \ want} \cup {<<"add", u>> : u \in want \ have}

ListGroupMembers(w) ==
    LET q == reqs[w] IN
    /\ At(w, "list")
    /\ Goto(w, [q EXCEPT !.pc = "members",
                         !.todo = Reconciled({u \in Users : <<q.obj, u>> \in members}, q.want)])
    /\ touched' = [touched EXCEPT ![w] = {}]
    /\ UNCHANGED <<tables, since, foreign>>

\* AddGroupMember checks both ends, and so do the foreign keys.
WithMember(g, u) == IF {g, u} \subseteq live THEN members \cup {<<g, u>>} ELSE members

WithoutMember(g, u) == members \ {<<g, u>>}

\* One member after the other; those to remove come first.
ChangeMember(w) ==
    LET q == reqs[w] IN
    /\ At(w, "members") /\ q.todo # {}
    /\ \E t \in q.todo :
          /\ t[1] = "add" => \A x \in q.todo : x[1] = "add"
          /\ Goto(w, [q EXCEPT !.todo = @ \ {t}])
          /\ members' = IF t[1] = "add" THEN WithMember(q.obj, t[2]) ELSE WithoutMember(q.obj, t[2])
          /\ touched' = IF members' = members THEN touched ELSE Moved(q.obj, {t[2]}, w)
    /\ UNCHANGED <<live, fresh, rows, extid, since, foreign>>

MembersChanged(w) ==
    /\ At(w, "members") /\ reqs[w].todo = {}
    /\ Goto(w, [reqs[w] EXCEPT !.pc = reqs[w].back])
    /\ UNCHANGED <<tables, history>>

\* The statement knows nothing of the resource's row.
SetExternalID(w) ==
    /\ At(w, "setext") /\ Goto(w, Done)
    /\ extid' = [extid EXCEPT ![reqs[w].obj] = reqs[w].ext]
    /\ UNCHANGED <<live, fresh, rows, members, history>>

ChangeMembership(w, g, u, new) ==
    /\ Begins(w) /\ Goto(w, Done)
    /\ members' = new
    /\ touched' = IF members' = members THEN touched ELSE Moved(g, {u}, w)
    /\ UNCHANGED <<live, fresh, rows, extid, since, foreign>>

AddMember(w, g, u) == ChangeMembership(w, g, u, WithMember(g, u))

RemoveMember(w, g, u) == ChangeMembership(w, g, u, WithoutMember(g, u))

-----------------------------------------------------------------------------
\* Reading

\* FindByExternalID returns the first row; which one is the database's choice.
FindByExternalID(S, e) == {o \in S : extid[o] = e}

\* The answers that listUsers may give to the filter externalId eq e
ListUsers(e) == {{u} \cap live : u \in FindByExternalID(Users, e)}

-----------------------------------------------------------------------------
AccountsInit ==
    /\ fresh \in {{}} \cup {{o} : o \in Objects}
    /\ live = Objects \ fresh
    /\ rows = [o \in Objects |-> IF o \in live THEN Row0[o] ELSE NoRow]
    /\ members = {<<g, CHOOSE u \in Users : TRUE>> : g \in Groups} \cap (live \X live)
    /\ extid = [o \in Objects |-> IF o \in live THEN Ext0[o] ELSE ""]
    /\ reqs = [w \in Requests |-> NewRequest]
    /\ since = [w \in Requests |-> {}] /\ touched = [w \in Requests |-> {}] /\ foreign = {}

BeginCreate(w) ==
    \/ \E u \in Users, p \in Patches :
           /\ DOMAIN p \subseteq UserAttrs
           /\ \/ CreateUser(w, u, p) \/ GraphCreateUser(w, u, p)
              \/ \E ext \in ExternalIds : ScimCreateUser(w, u, p, ext)
    \/ \E u \in Users : CreateInvitation(w, u)
    \/ \E g \in Groups : CreateGroup(w, g) \/ GraphCreateGroup(w, g)
    \/ \E g \in Groups, ext \in ExternalIds, want \in SUBSET Users : ScimCreateGroup(w, g, ext, want)

BeginUpdate(w) ==
    \/ \E u \in Users, p \in Patches : PatchUser(w, u, p) \/ UpdateUser(w, u, p)
    \/ \E g \in Groups, p \in Patches : PatchGroup(w, g, p) \/ UpdateGroup(w, g, p)
    \/ \E u \in Users : ResetPassword(w, u) \/ RedeemInvitation(w, u)
    \/ \E u \in Users, p \in Patches, ext \in ExternalIds : ReplaceUser(w, u, p, ext)
    \/ \E g \in Groups, p \in Patches, ext \in ExternalIds, want \in SUBSET Users :
           ReplaceGroup(w, g, p, ext, want)
    \/ \E u \in Users, ops \in UserOps : ScimPatchUser(w, u, ops)
    \/ \E g \in Groups, ops \in GroupOps : ScimPatchGroup(w, g, ops)

BeginRequest(w) ==
    \/ BeginCreate(w) \/ BeginUpdate(w)
    \/ \E u \in Users : DeleteUser(w, u) \/ ScimDeleteUser(w, u)
    \/ \E g \in Groups : DeleteGroup(w, g) \/ ScimDeleteGroup(w, g)
    \/ \E o \in Objects : SoftDelete(w, o)
    \/ \E g \in Groups, u \in Users : AddMember(w, g, u) \/ RemoveMember(w, g, u)

\* The statements after the first
GoOn(w) ==
    \/ ReadExternalID(w) \/ ApplyOps(w) \/ WriteRow(w) \/ ListGroupMembers(w)
    \/ ChangeMember(w) \/ MembersChanged(w) \/ SetExternalID(w) \/ DeleteExternalID(w)

-----------------------------------------------------------------------------
\* Properties

\* An update touches an attribute its request does not name only if another
\* request changed that attribute after this one had read the row: of requests
\* that do not overlap, none undoes another's work, on whatever surface
\* (UpdateUser and UpdateGroup write the whole row).
UpdatesLostOnlyToOverlap ==
    [][\A w \in Requests :
          LET q == reqs[w] IN
          At(w, "update") /\ q.obj \in live /\ reqs'[w] # q =>
              \A a \in Attrs(q.obj) \ (q.named \cup since[w]) :
                  rows'[q.obj][a] = rows[q.obj][a]]_accountVars

\* "membership becomes exactly the submitted set" (replaceGroup), apart from
\* users whose membership or existence another request changed meanwhile, and
\* although the set is applied one statement at a time.
MembershipExact ==
    \A w \in Requests :
        LET q == reqs[w] IN
        At(w, "setext") /\ q.after = "list" /\ q.obj \in live =>
            \A u \in Users \ touched[w] : <<q.obj, u>> \in members <=> u \in q.want \cap live

\* "a provisioning client that lost its local mapping must be able to look one
\* up" (listUsers): the externalId of a live user finds a user, whichever row the
\* database returns first, as long as every deletion came through SCIM, is over,
\* and met no other request on the same resource.
CorrelationFinds ==
    foreign = {} /\ (\A w \in Requests : ~At(w, "dropext")) =>
        \A u \in Users \cap live : extid[u] # "" => {} \notin ListUsers(extid[u])

-----------------------------------------------------------------------------
\* Types and inductive strengthenings, checked by TLC and used by the proofs

Request == [pc: {"new", "done", "ext", "ops", "update", "list", "members", "setext", "dropext"},
            obj: Objects, row: [UserAttrs -> Values] \cup [GroupAttrs -> Values] \cup {NoRow},
            named: SUBSET (UserAttrs \cup GroupAttrs), ext: Values, ops: Seq(UserOp \cup GroupOp),
            todo: SUBSET ({"add", "remove"} \X Users), want: SUBSET Users,
            after: {"done", "setext", "list"}, back: {"done", "setext", "ops"}]

\* The request holds a row that it has read and not written yet.
Reads(w) == reqs[w].pc \in {"ext", "ops", "update"} \/ (At(w, "members") /\ reqs[w].back = "ops")

\* The request is a PUT of a group that has listed the members.
Reconciles(w) == reqs[w].pc \in {"members", "setext"} /\ reqs[w].after = "list"

AccountsTypeOK ==
    /\ live \subseteq Objects /\ fresh \subseteq Objects /\ live \cap fresh = {}
    /\ rows \in [Objects -> [UserAttrs -> Values] \cup [GroupAttrs -> Values] \cup {NoRow}]
    /\ \A o \in live : rows[o] \in [Attrs(o) -> Values]
    /\ members \subseteq (live \cap Groups) \X (live \cap Users)
    /\ extid \in [Objects -> Values]
    /\ reqs \in [Requests -> Request]
    /\ \A w \in Requests : Reads(w) =>
          /\ reqs[w].row \in [Attrs(reqs[w].obj) -> Values]
          /\ reqs[w].ops \in IF reqs[w].obj \in Users THEN Seq(UserOp) ELSE Seq(GroupOp)
    /\ since \in [Requests -> SUBSET (UserAttrs \cup GroupAttrs)]
    /\ touched \in [Requests -> SUBSET Users] /\ foreign \subseteq Objects

\* What a request works on has been there.
OnceThere == \A w \in Requests : InFlight(w) => reqs[w].obj \notin fresh

\* The row in memory is the one in the table, but for what the request sets and
\* what others have set since.
RowsRead ==
    \A w \in Requests : Reads(w) /\ reqs[w].obj \in live =>
        \A a \in Attrs(reqs[w].obj) \ (reqs[w].named \cup since[w]) :
            reqs[w].row[a] = rows[reqs[w].obj][a]

\* What a PUT has still to do makes the members the submitted ones.
MembersDue ==
    \A w \in Requests :
        LET q == reqs[w] IN
        /\ q.after = "list" => q.back = "setext" /\ q.obj \in Groups /\ q.pc \notin {"ext", "ops"}
        /\ At(w, "members") => q.obj \in Groups
        /\ At(w, "list") => q.after = "list"
        /\ Reconciles(w) /\ At(w, "setext") => q.todo = {}
        /\ Reconciles(w) /\ q.obj \in live => \A u \in Users \ touched[w] :
              /\ <<"add", u>> \in q.todo => u \in q.want /\ <<q.obj, u>> \notin members
              /\ <<"remove", u>> \in q.todo => u \notin q.want
              /\ {<<"add", u>>, <<"remove", u>>} \cap q.todo = {} =>
                    (<<q.obj, u>> \in members <=> u \in q.want \cap live)

\* A mapping whose user is gone is about to go as well.
MappingsDue ==
    foreign = {} =>
        /\ \A w \in Requests : InFlight(w) /\ ~At(w, "dropext") => reqs[w].obj \in live
        /\ \A u \in Users \ live : extid[u] # "" => \E w \in Requests : At(w, "dropext") /\ reqs[w].obj = u

AccountsInv == AccountsTypeOK /\ OnceThere /\ RowsRead /\ MembersDue /\ MappingsDue
=============================================================================
