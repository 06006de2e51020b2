---------------------------- MODULE Provisioning ----------------------------
(***************************************************************************)
(* The outbound SCIM provisioning client: scim/provision.go.               *)
(*                                                                         *)
(* POST scim/sync lists the users, probes each one at the target and       *)
(* creates, updates or deprovisions it there.  An incremental sync skips   *)
(* the users whose updated_at lies before the watermark, the start of the  *)
(* last sync, in whole seconds.  There is one watermark, whatever target   *)
(* the last sync went to.  Meanwhile the directory changes, another target *)
(* is set, and a target, a remote service, may fail.  The clock is not set *)
(* back here.                                                              *)
(***************************************************************************)
EXTENDS Naturals

CONSTANTS
    Users,
    Targets,        \* endpoints an administrator may set
    NoTarget,
    Syncs,          \* concurrent sync requests
    Writers,        \* concurrent requests that update users
    MayFail,        \* whether requests to the target may fail
    MaxVersion,     \* bound: how often a user's attributes change
    MaxNow          \* bound: the clock runs from 1 to MaxNow

ASSUME ProvisioningAssumptions ==
    /\ Users # {} /\ NoTarget \notin Targets /\ MayFail \in BOOLEAN
    /\ MaxVersion \in Nat \ {0} /\ MaxNow \in Nat \ {0}

VARIABLES
    users,      \* users and their rows in the recycle bin; version is displayName
    remote,     \* the users of each target, correlated by userName
    target,     \* Provisioner.target
    watermark,  \* Provisioner.watermark
    syncs,      \* sync requests in flight
    writes,     \* UpdateUser calls between their time stamp and their UPDATE
    now,        \* Store.Now(), whole seconds
    late,       \* history: users whose last change carries an earlier second
                \* than the one it was committed in
    restored,   \* history: users restored from the recycle bin and not written since
    vouched,    \* history: targets that were sent all there was to send before
                \* the watermark
    failed,     \* history: <<target, user>> where a request failed, until a sync
                \* that met no other got through
    crossed,    \* history: <<target, user>> sent while another sync to the target
                \* was under way, until a sync that met no other sent it
    met         \* history: syncs that have met another one to their target

sent == <<failed, crossed>>
history == <<late, restored, vouched, sent, met>>
provisioningVars == <<users, remote, target, watermark, syncs, writes, now, history>>

Versions == 1..MaxVersion

UserRow == [exists: BOOLEAN, enabled: BOOLEAN, version: Versions, updated: 1..MaxNow]

RemoteUser == [present: BOOLEAN, active: BOOLEAN, version: Versions]
RemoteUsers == [Users -> RemoteUser]
Pairs == Targets \X Users

\* A row of the listing that a sync works through
Listed == [user: Users, row: UserRow]

\* whole (history): the users this sync skips were sent to its target before.
Sync == [pc: {"idle", "marks", "list", "users", "send"}, to: Targets \cup {NoTarget},
         incremental: BOOLEAN, whole: BOOLEAN, wm: 0..MaxNow, start: 0..MaxNow,
         todo: SUBSET Listed, cur: SUBSET Listed, found: BOOLEAN]

Write == [pc: {"idle", "commit"}, create: BOOLEAN, user: Users, enabled: BOOLEAN, at: 0..MaxNow]

FirstRow == [exists |-> TRUE, enabled |-> TRUE, version |-> 1, updated |-> 1]
AbsentUser == [present |-> FALSE, active |-> FALSE, version |-> 1]
NoSync == [pc |-> "idle", to |-> NoTarget, incremental |-> FALSE, whole |-> FALSE,
           wm |-> 0, start |-> 0, todo |-> {}, cur |-> {}, found |-> FALSE]
NoWrite == [pc |-> "idle", create |-> FALSE, user |-> CHOOSE u \in Users : TRUE,
            enabled |-> FALSE, at |-> 0]

-----------------------------------------------------------------------------
\* POST scim/sync

\* The other syncs to the same target.
Others(s, t) == {r \in Syncs \ {s} : syncs[r].pc # "idle" /\ syncs[r].to = t}

\* Sync reads the target, which it keeps ...
StartSync(s, incremental) ==
    /\ syncs[s].pc = "idle"
    /\ target # NoTarget
    /\ syncs' = [syncs EXCEPT ![s] =
                   [NoSync EXCEPT !.pc = "marks", !.to = target, !.incremental = incremental]]
    /\ met' = IF Others(s, target) = {} THEN met \ {s} ELSE met \cup {s} \cup Others(s, target)
    /\ UNCHANGED <<users, remote, target, watermark, writes, now, late, restored, vouched, sent>>

\* ... and then the watermark and the clock.
ReadMarks(s) ==
    /\ syncs[s].pc = "marks"
    /\ syncs' = [syncs EXCEPT ![s] =
                   [@ EXCEPT !.pc = "list", !.wm = watermark, !.start = now,
                             !.whole = ~syncs[s].incremental \/ syncs[s].to \in vouched]]
    /\ UNCHANGED <<users, remote, target, watermark, writes, now, history>>

ListUsers(s) ==
    /\ syncs[s].pc = "list"
    /\ syncs' = [syncs EXCEPT ![s] =
                   [@ EXCEPT !.pc = "users",
                             !.todo = {[user |-> u, row |-> users[u]] : u \in {v \in Users : users[v].exists}}]]
    /\ UNCHANGED <<users, remote, target, watermark, writes, now, history>>

\* Mutant: a change in the watermark's own second counts as seen.
SkippedInclusive(q, x) == q.incremental /\ x.row.updated <= q.wm

\* The users an incremental sync leaves alone.
Skipped(q, x) == q.incremental /\ x.row.updated < q.wm

\* probeUser: a target that fails looks like one without the user.
ProbeUser(s, x) ==
    LET q == syncs[s] IN
    /\ q.pc = "users"
    /\ x \in q.todo
    /\ \/ /\ Skipped(q, x)
          /\ syncs' = [syncs EXCEPT ![s].todo = @ \ {x}]
       \/ /\ ~Skipped(q, x)
          /\ \E found \in {remote[q.to][x.user].present} \cup (IF MayFail THEN {FALSE} ELSE {}) :
                syncs' = [syncs EXCEPT ![s] =
                            [q EXCEPT !.pc = "send", !.todo = @ \ {x}, !.cur = {x}, !.found = found]]
    /\ UNCHANGED <<users, remote, target, watermark, writes, now, history>>

\* What the target stores: POST creates an absent user and is refused for a
\* present one, PATCH changes active and, unless it deprovisions, the rest.
Provisioned(r, row, found) ==
    CASE ~found /\ row.enabled /\ ~r.present -> [present |-> TRUE, active |-> TRUE, version |-> row.version]
      [] found /\ ~row.enabled -> [r EXCEPT !.active = FALSE]
      [] found /\ row.enabled -> [r EXCEPT !.active = TRUE, !.version = row.version]
      [] OTHER -> r

\* A pair is doubtful from what went wrong until what made up for it.
Doubt(S, p, wrong, mended) == IF wrong THEN S \cup {p} ELSE IF mended THEN S \ {p} ELSE S

\* Create, deprovision, update or nothing, from the row listed at the start.
SendUser(s) ==
    LET q == syncs[s] IN
    /\ q.pc = "send"
    /\ \E x \in q.cur, fails \in (IF MayFail THEN BOOLEAN ELSE {FALSE}) :
          LET r == remote[q.to][x.user]
              p == <<q.to, x.user>>
          IN  /\ remote' = IF fails THEN remote
                           ELSE [remote EXCEPT ![q.to][x.user] = Provisioned(r, x.row, q.found)]
              /\ failed' = Doubt(failed, p, fails \/ q.found # r.present, s \notin met)
              /\ crossed' = Doubt(crossed, p, Others(s, q.to) # {}, s \notin met)
    /\ syncs' = [syncs EXCEPT ![s] = [@ EXCEPT !.pc = "users", !.cur = {}, !.found = FALSE]]
    /\ UNCHANGED <<users, target, watermark, writes, now, late, restored, vouched, met>>

\* The watermark becomes the start of this sync, whatever failed and whatever
\* target it went to.
FinishSync(s) ==
    /\ syncs[s].pc = "users"
    /\ syncs[s].todo = {}
    /\ watermark' = syncs[s].start
    /\ vouched' = IF syncs[s].whole THEN {syncs[s].to} ELSE {}
    /\ syncs' = [syncs EXCEPT ![s] = NoSync]
    /\ met' = met \ {s}
    /\ UNCHANGED <<users, remote, target, writes, now, late, restored, sent>>

\* The target changes, the watermark stays.  A sync under way keeps the target
\* it has read.
SetTarget(t) ==
    /\ target' = t
    /\ UNCHANGED <<users, remote, watermark, syncs, writes, now, history>>

ClearTarget ==
    /\ target' = NoTarget
    /\ UNCHANGED <<users, remote, watermark, syncs, writes, now, history>>

-----------------------------------------------------------------------------
\* The directory

\* createUser and UpdateUser stamp updated_at before their statement gets the
\* connection. A user created anew takes the name of a deleted one.
StampWrite(w, u, enabled) ==
    /\ writes[w].pc = "idle"
    /\ users[u].version < MaxVersion
    /\ writes' = [writes EXCEPT ![w] =
                    [pc |-> "commit", create |-> ~users[u].exists, user |-> u,
                     enabled |-> enabled, at |-> now]]
    /\ UNCHANGED <<users, remote, target, watermark, syncs, now, history>>

\* The UPDATE finds its row, the INSERT finds the name free; otherwise they fail.
CommitWrite(w) ==
    LET q == writes[w] IN
    /\ q.pc = "commit"
    /\ \/ /\ users[q.user].exists # q.create /\ users[q.user].version < MaxVersion
          /\ users' = [users EXCEPT ![q.user] =
                         [exists |-> TRUE, enabled |-> q.enabled, version |-> @.version + 1,
                          updated |-> q.at]]
          /\ late' = IF q.at < now THEN late \cup {q.user} ELSE late \ {q.user}
          /\ restored' = restored \ {q.user}
       \/ /\ users[q.user].exists = q.create \/ users[q.user].version = MaxVersion
          /\ UNCHANGED <<users, late, restored>>
    /\ writes' = [writes EXCEPT ![w] = NoWrite]
    /\ UNCHANGED <<remote, target, watermark, syncs, now, vouched, sent, met>>

DeleteUser(u) ==
    /\ users[u].exists
    /\ users' = [users EXCEPT ![u].exists = FALSE]
    /\ UNCHANGED <<remote, target, watermark, syncs, writes, now, history>>

\* restoreUserTx inserts the row as it was deleted, its updated_at included.
RestoreUser(u) ==
    /\ ~users[u].exists
    /\ users' = [users EXCEPT ![u].exists = TRUE]
    /\ restored' = restored \cup {u}
    /\ UNCHANGED <<remote, target, watermark, syncs, writes, now, late, vouched, sent, met>>

\* Requests die; the target, the log and the watermark were in memory.
Restart ==
    /\ syncs' = [s \in Syncs |-> NoSync]
    /\ writes' = [w \in Writers |-> NoWrite]
    /\ target' = NoTarget
    /\ watermark' = 0
    /\ vouched' = Targets
    /\ failed' = {} /\ crossed' = {} /\ met' = {}
    /\ UNCHANGED <<users, remote, now, late, restored>>

ClockTick ==
    /\ now < MaxNow
    /\ now' = now + 1
    /\ UNCHANGED <<users, remote, target, watermark, syncs, writes, history>>

-----------------------------------------------------------------------------
ProvisioningInit ==
    /\ users = [u \in Users |-> FirstRow]
    /\ remote = [t \in Targets |-> [u \in Users |-> AbsentUser]]
    /\ target = NoTarget
    /\ watermark = 0
    /\ syncs = [s \in Syncs |-> NoSync]
    /\ writes = [w \in Writers |-> NoWrite]
    /\ now = 1
    /\ late = {} /\ restored = {}
    /\ vouched = Targets
    /\ failed = {} /\ crossed = {} /\ met = {}

ProvisioningNext ==
    \/ \E s \in Syncs, incremental \in BOOLEAN : StartSync(s, incremental)
    \/ \E s \in Syncs : ReadMarks(s) \/ ListUsers(s) \/ SendUser(s) \/ FinishSync(s)
    \/ \E s \in Syncs : \E x \in syncs[s].todo : ProbeUser(s, x)
    \/ \E t \in Targets : SetTarget(t)
    \/ ClearTarget
    \/ \E w \in Writers, u \in Users, enabled \in BOOLEAN : StampWrite(w, u, enabled)
    \/ \E w \in Writers : CommitWrite(w)
    \/ \E u \in Users : DeleteUser(u) \/ RestoreUser(u)
    \/ ClockTick \/ Restart

ProvisioningSpec == ProvisioningInit /\ [][ProvisioningNext]_provisioningVars

-----------------------------------------------------------------------------
\* Properties

ProvisioningTypeOK ==
    /\ users \in [Users -> UserRow]
    /\ remote \in [Targets -> RemoteUsers]
    /\ target \in Targets \cup {NoTarget}
    /\ watermark \in 0..now
    /\ syncs \in [Syncs -> Sync]
    /\ \A s \in Syncs : syncs[s].start <= now /\ syncs[s].wm <= now
    /\ \A s \in Syncs : syncs[s].to = NoTarget => syncs[s].pc = "idle"
    /\ writes \in [Writers -> Write]
    /\ \A w \in Writers : writes[w].pc = "commit" => writes[w].at \in 1..now
    /\ now \in 1..MaxNow
    /\ late \subseteq Users /\ restored \subseteq Users
    /\ vouched \subseteq Targets /\ met \subseteq Syncs
    /\ failed \subseteq Pairs /\ crossed \subseteq Pairs

\* The target agrees with the directory about a user.
Synced(t, u) ==
    LET r == remote[t][u] IN
    IF users[u].enabled THEN r.present /\ r.active /\ r.version = users[u].version ELSE ~r.active

\* The row of user u is older than second n.
Older(u, n) == users[u].exists /\ users[u].updated < n

\* Incremental syncs to the target will skip the user from now on, and the
\* target is wrong.
Lost(t, u) == Older(u, watermark) /\ ~Synced(t, u)

\* The users whose row carries the second in which it came to be ...
Dated == Users \ (late \cup restored)

\* ... and of whom nothing is amiss at the target.
Trusted(t) == {u \in Dated : <<t, u>> \notin failed \cup crossed}

\* No change that incremental syncs will skip is missing at the target that the
\* watermark stands for, whether it came before, during or after the listing of
\* a sync and in whatever second (Sync's watermark and its strict comparison),
\* whatever targets were set meanwhile and whatever syncs ran to other targets.
\* A user whose request failed, or whom two overlapping syncs sent (Sync holds no
\* lock), is claimed again once a sync that met no other has sent it.
NothingSkippedIsLost == \A t \in vouched : \A u \in Trusted(t) : ~Lost(t, u)

\* Does not hold (in no run): SetTarget keeps the watermark, so the incremental
\* syncs to a target set after a sync skip the users it never had.
NothingIsLostAtTheTarget ==
    target # NoTarget => \A u \in Trusted(target) : ~Lost(target, u)

-----------------------------------------------------------------------------
\* Inductive strengthenings, checked by TLC and used by the proofs

Running(s) == syncs[s].pc \in {"list", "users", "send"}
Works(s) == syncs[s].pc \in {"users", "send"}
Ahead(s) == syncs[s].todo \cup syncs[s].cur

\* One user is being sent, at "send" only; the watermark a sync has read is
\* behind it; and a user who is not at a target is not active there.
SendsInOrder ==
    /\ \A s \in Syncs : \A x, y \in syncs[s].cur : x = y
    /\ \A s \in Syncs : syncs[s].pc # "send" => syncs[s].cur = {}
    /\ \A s \in Syncs : ~Works(s) => syncs[s].todo = {}
    /\ \A s \in Syncs : syncs[s].wm <= syncs[s].start
    /\ \A t \in Targets, u \in Users : remote[t][u].active => remote[t][u].present

\* A user a sync has found is there.
ProbesHold ==
    \A s \in Syncs : \A x \in syncs[s].cur : syncs[s].found => remote[syncs[s].to][x.user].present

\* A listed row is the row in the table, or that one was written since.
ListingsCurrent ==
    \A s \in Syncs : \A x \in Ahead(s) :
        x.user \in Dated /\ Older(x.user, syncs[s].start) => x.row = users[x.user]

\* What a sync that has come past user u, or the one whose watermark it has
\* read, was to send has arrived.
Arrived(s, u) ==
    /\ syncs[s].incremental /\ Older(u, syncs[s].wm) => Synced(syncs[s].to, u)
    /\ Works(s) /\ Older(u, syncs[s].start) =>
          Synced(syncs[s].to, u) \/ \E x \in Ahead(s) : x.user = u

PassedAreSynced ==
    \A s \in Syncs : Running(s) /\ syncs[s].whole => \A u \in Trusted(syncs[s].to) : Arrived(s, u)

\* Nobody is skipped at a target on the strength of a moment that a sync under
\* way to it does not reach ...
MarksBehind ==
    \A t \in Syncs : Running(t) /\ syncs[t].to \in vouched =>
        \A u \in Trusted(syncs[t].to) : Older(u, watermark) => Older(u, syncs[t].start)

\* ... nor has been passed there by another sync.
Reached(s, t, u) ==
    /\ syncs[s].incremental /\ Older(u, syncs[s].wm) => Older(u, syncs[t].start)
    /\ Works(s) /\ Older(u, syncs[s].start) =>
          Older(u, syncs[t].start) \/ \E x \in Ahead(s) : x.user = u

PassedBehind ==
    \A s, t \in Syncs :
        s # t /\ Running(s) /\ Running(t) /\ syncs[s].to = syncs[t].to /\ syncs[s].whole =>
        \A u \in Trusted(syncs[t].to) : Reached(s, t, u)

\* Syncs to one target that overlap have met; the watermark of a target is not
\* ahead of a sync to it that has met no other.
Meetings ==
    /\ \A s \in Syncs : syncs[s].pc # "idle" /\ s \notin met => Others(s, syncs[s].to) = {}
    /\ \A s \in Syncs :
          Running(s) /\ s \notin met /\ syncs[s].to \in vouched => watermark <= syncs[s].start

SyncInv ==
    /\ ProvisioningTypeOK /\ SendsInOrder /\ ProbesHold /\ ListingsCurrent
    /\ PassedAreSynced /\ MarksBehind /\ PassedBehind /\ Meetings /\ NothingSkippedIsLost
=============================================================================
