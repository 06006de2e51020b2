------------------------------ MODULE Passkeys ------------------------------
(***************************************************************************)
(* Passkeys (identity/webauthn.go, store/webauthn.go): the two ceremonies, *)
(* each a begin and a finish request that meet in the map waSess under the *)
(* id of a cookie, while the users they are about are renamed and deleted  *)
(* (Accounts).                                                             *)
(*                                                                         *)
(* The library go-webauthn checks the signatures; it is modelled by what   *)
(* the handlers rely on.  A ceremony may be finished more than once: a     *)
(* browser sends its cookie as often as it likes.                          *)
(***************************************************************************)
EXTENDS Accounts

CONSTANTS
    Keys, Keys0,    \* credential ids, and those that are registered at the start
    Ceremonies,     \* bound: ids that storeCeremony draws
    Finishes,       \* bound: finish requests, each served once
    Begun,          \* ceremonies under way at the start, with their kind
    MaxCount,       \* bound: signatures of an authenticator
    Budget          \* bound: requests of a behaviour, ceremonies begun included

ASSUME PasskeysAssumptions ==
    /\ DOMAIN Begun \subseteq Ceremonies /\ \A c \in DOMAIN Begun : Begun[c] \in {"register", "assert"}
    /\ Ceremonies # {} /\ Keys # {} /\ Keys0 \subseteq Keys
    /\ MaxCount \in Nat /\ Budget \in Nat

VARIABLES
    passkeys,   \* webauthn_credentials: owner and sign_count
    waSess,     \* the ceremonies under way
    begun,      \* what the browser is to do with each ceremony: "register", "assert"
    fins,       \* finish requests in flight
    signed,     \* how often each authenticator has signed, NotMade before it is made
    outcomes,   \* history: what each ceremony has led to
    stale       \* history: finish requests that another one's counter has overtaken

keyVars == <<passkeys, waSess, begun, fins, signed, outcomes, stale>>
passkeysVars == <<accountVars, keyVars>>

NoKey == [user |-> CHOOSE u \in Users : TRUE, count |-> 0, stored |-> FALSE]
NoSession == [kind |-> "none", user |-> CHOOSE u \in Users : TRUE, allowed |-> {}]

\* c: its cookie; key, count: the authenticator's answer; user: whom the look-ups
\* have found; new: the counter to store
NewFinish == [pc |-> "new", c |-> CHOOSE c \in Ceremonies : TRUE, key |-> CHOOSE k \in Keys : TRUE,
              count |-> 0, user |-> CHOOSE u \in Users : TRUE, upn |-> "", sess |-> NoSession, new |-> 0]

FinDone == [NewFinish EXCEPT !.pc = "done"]

NotMade == -1

KeysOf(u) == {k \in Keys : passkeys[k].stored /\ passkeys[k].user = u}

Fin(f, q) == fins' = [fins EXCEPT ![f] = q]

-----------------------------------------------------------------------------
\* Begin: BeginRegistration or BeginLogin for the user of that name

\* The user found by name, if any
GetUserByUPN(n) == {u \in live \cap Users : rows[u].upn = n}

\* storeCeremony
StoreCeremony(c, sess) ==
    /\ begun[c] = "none"
    /\ begun' = [begun EXCEPT ![c] = sess.kind]
    /\ waSess' = [waSess EXCEPT ![c] = sess]
    /\ UNCHANGED <<passkeys, fins, signed, outcomes, stale>>

RegisterBegin(c, u) == u \in live /\ StoreCeremony(c, [kind |-> "register", user |-> u, allowed |-> {}])

AssertBegin(c, u) ==
    /\ u \in live /\ KeysOf(u) # {}
    /\ StoreCeremony(c, [kind |-> "assert", user |-> u, allowed |-> KeysOf(u)])

-----------------------------------------------------------------------------
\* FinishRequest

\* The browser has the authenticator make a new key, whose id is random, or sign
\* with one that it has; the request is on its way.
SignChallenge(f, c, k) ==
    /\ fins[f].pc = "new" /\ signed[k] < MaxCount
    /\ begun[c] = IF signed[k] = NotMade THEN "register" ELSE "assert"
    /\ signed' = [signed EXCEPT ![k] = @ + 1]
    /\ Fin(f, [NewFinish EXCEPT !.pc = "take", !.c = c, !.key = k, !.count = signed[k] + 1])
    /\ UNCHANGED <<passkeys, waSess, begun, outcomes, stale>>

\* Mutant: the ceremony stays in the map.
LoadCeremony(c) == waSess

\* LoadAndDelete
LoadAndDelete(c) == [waSess EXCEPT ![c] = NoSession]

TakeCeremony(f) ==
    LET q == fins[f]  sess == waSess[q.c] IN
    /\ q.pc = "take"
    /\ waSess' = LoadAndDelete(q.c)
    /\ Fin(f, CASE sess.kind = "none" -> FinDone
                [] sess.kind = "register" -> [q EXCEPT !.pc = "register", !.sess = sess]
                [] sess.kind = "assert" -> [q EXCEPT !.pc = "byid", !.sess = sess])
    /\ UNCHANGED <<passkeys, begun, signed, outcomes, stale>>

\* handleWebAuthnRegisterFinish: GetUser, FinishRegistration, then the insert
RegisterUser(f) ==
    LET q == fins[f] IN
    /\ q.pc = "register"
    /\ Fin(f, IF q.sess.user \in live THEN [q EXCEPT !.pc = "insert"] ELSE FinDone)
    /\ UNCHANGED <<passkeys, waSess, begun, signed, outcomes, stale>>

\* The id is unused and, by the foreign key, its user still there.
AddWebAuthnCredential(f) ==
    LET q == fins[f]
        ok == ~passkeys[q.key].stored /\ q.sess.user \in live
    IN  /\ q.pc = "insert" /\ Fin(f, FinDone)
        /\ passkeys' = IF ok THEN [passkeys EXCEPT ![q.key] = [user |-> q.sess.user, count |-> q.count, stored |-> TRUE]]
                       ELSE passkeys
        /\ outcomes' = IF ok THEN outcomes \cup {<<q.c, f>>} ELSE outcomes
        /\ UNCHANGED <<waSess, begun, signed, stale>>

\* loadWAUserByID looks the user up by id and then, through its name, again.
LoadWAUserByID(f) ==
    LET q == fins[f] IN
    /\ q.pc = "byid"
    /\ Fin(f, IF q.sess.user \in live THEN [q EXCEPT !.pc = "byupn", !.upn = rows[q.sess.user].upn]
              ELSE FinDone)
    /\ UNCHANGED <<passkeys, waSess, begun, signed, outcomes, stale>>

LoadWAUser(f) ==
    LET q == fins[f]  found == GetUserByUPN(q.upn) IN
    /\ q.pc = "byupn"
    /\ IF found = {} THEN Fin(f, FinDone)
       ELSE \E u \in found : Fin(f, [q EXCEPT !.pc = "creds", !.user = u])
    /\ UNCHANGED <<passkeys, waSess, begun, signed, outcomes, stale>>

\* FinishLogin: the session is the user's, the user still has every passkey that
\* was allowed, and one of those has signed.
FinishLogin(q) ==
    /\ q.sess.user = q.user
    /\ q.sess.allowed \subseteq KeysOf(q.user)
    /\ q.key \in q.sess.allowed

\* Mutant: the counter is whatever the authenticator says.
CountAsSent(stored, count) == count

\* UpdateCounter: a counter that does not advance is kept, with a warning that
\* nobody looks at.
UpdateCounter(stored, count) == IF count > stored THEN count ELSE stored

ListCredentials(f) ==
    LET q == fins[f] IN
    /\ q.pc = "creds"
    /\ Fin(f, IF FinishLogin(q)
              THEN [q EXCEPT !.pc = "count", !.new = UpdateCounter(passkeys[q.key].count, q.count)]
              ELSE FinDone)
    /\ stale' = stale \ {f}
    /\ UNCHANGED <<passkeys, waSess, begun, signed, outcomes>>

\* An error is ignored; a key that is gone is not written.
UpdateSignCount(f) ==
    LET q == fins[f] IN
    /\ q.pc = "count" /\ Fin(f, [q EXCEPT !.pc = "session"])
    /\ passkeys' = IF passkeys[q.key].stored THEN [passkeys EXCEPT ![q.key].count = q.new] ELSE passkeys
    /\ stale' = stale \cup {g \in Finishes \ {f} : fins[g].pc = "count" /\ fins[g].key = q.key}
    /\ UNCHANGED <<waSess, begun, signed, outcomes>>

\* handleWebAuthnAssertFinish ends with createSession, which fails if the user is
\* gone.
AssertFinish(f) ==
    LET q == fins[f] IN
    /\ q.pc = "session" /\ Fin(f, FinDone)
    /\ outcomes' = IF q.user \in live THEN outcomes \cup {<<q.c, f>>} ELSE outcomes
    /\ UNCHANGED <<passkeys, waSess, begun, signed, stale>>

\* deleteFido2Method
DeleteFido2Method(u, k) ==
    /\ k \in KeysOf(u)
    /\ passkeys' = [passkeys EXCEPT ![k] = NoKey]
    /\ UNCHANGED <<waSess, begun, fins, signed, outcomes, stale>>

\* A deleted user takes its passkeys along.
Cascade ==
    /\ passkeys' = [k \in Keys |-> IF passkeys[k].stored /\ passkeys[k].user \notin live' THEN NoKey ELSE passkeys[k]]
    /\ UNCHANGED <<waSess, begun, fins, signed, outcomes, stale>>

-----------------------------------------------------------------------------
\* One user has passkeys and has begun ceremonies.
PasskeysInit ==
    /\ AccountsInit
    /\ \E u \in live \cap Users :
          /\ passkeys = [k \in Keys |-> IF k \in Keys0 THEN [user |-> u, count |-> 0, stored |-> TRUE] ELSE NoKey]
          /\ begun = [c \in Ceremonies |-> IF c \in DOMAIN Begun THEN Begun[c] ELSE "none"]
          /\ waSess = [c \in Ceremonies |->
                 IF c \notin DOMAIN Begun THEN NoSession
                 ELSE [kind |-> Begun[c], user |-> u, allowed |-> IF Begun[c] = "assert" THEN Keys0 ELSE {}]]
    /\ fins = [f \in Finishes |-> NewFinish]
    /\ signed = [k \in Keys |-> IF k \in Keys0 THEN 0 ELSE NotMade]
    /\ outcomes = {} /\ stale = {}

\* Requests begun so far, apart from the ceremonies under way at the start
Spent == Cardinality({w \in Requests : reqs[w].pc # "new"}) + Cardinality({f \in Finishes : fins[f].pc # "new"})
             + Cardinality({c \in Ceremonies \ DOMAIN Begun : begun[c] # "none"})

FinishStep(f) ==
    \/ TakeCeremony(f) \/ RegisterUser(f) \/ AddWebAuthnCredential(f)
    \/ LoadWAUserByID(f) \/ LoadWAUser(f) \/ ListCredentials(f) \/ UpdateSignCount(f) \/ AssertFinish(f)

KeysNext ==
    \/ \E c \in Ceremonies, u \in Users : Spent < Budget /\ (RegisterBegin(c, u) \/ AssertBegin(c, u))
    \/ \E f \in Finishes, c \in Ceremonies, k \in Keys : Spent < Budget /\ SignChallenge(f, c, k)
    \/ \E f \in Finishes : FinishStep(f)
    \/ \E u \in Users, k \in Keys : DeleteFido2Method(u, k)

PasskeysNext ==
    \/ \E w \in Requests : Spent < Budget /\ BeginRequest(w) /\ Cascade
    \/ \E w \in Requests : GoOn(w) /\ UNCHANGED keyVars
    \/ KeysNext /\ UNCHANGED accountVars

PasskeysSpec == PasskeysInit /\ [][PasskeysNext]_passkeysVars

-----------------------------------------------------------------------------
\* Properties

\* A ceremony makes at most one session or one passkey, however often its finish
\* request is sent and however the requests overlap (takeCeremony).
CeremonyUsedOnce == \A c \in Ceremonies, f, g \in Finishes :
                        <<c, f>> \in outcomes /\ <<c, g>> \in outcomes => f = g

\* "Update the stored sign count (clone/replay detection input)": the counter of
\* a passkey goes back only if two sign-ins with it overlap, the one that stores
\* the lower counter having read the row before the other one wrote it.  Answers
\* that arrive out of order are not enough.
CounterOnlyBackByOverlap ==
    [][\A f \in Finishes : fins[f].pc = "count" /\ f \notin stale =>
          \A k \in Keys : passkeys'[k].stored /\ passkeys[k].stored /\ fins'[f].pc = "session"
                              => passkeys'[k].count >= passkeys[k].count]_passkeysVars

-----------------------------------------------------------------------------
\* Types and inductive strengthenings, checked by TLC and used by the proofs

Session == [kind: {"none", "register", "assert"}, user: Users, allowed: SUBSET Keys]

FinishRequest == [pc: {"new", "take", "register", "insert", "byid", "byupn", "creds", "count", "session", "done"},
           c: Ceremonies, key: Keys, count: Nat, user: Users, upn: Values, sess: Session, new: Nat]

KeysTypeOK ==
    /\ passkeys \in [Keys -> [user: Users, count: Nat, stored: BOOLEAN]]
    /\ waSess \in [Ceremonies -> Session]
    /\ begun \in [Ceremonies -> {"none", "register", "assert"}]
    /\ fins \in [Finishes -> FinishRequest]
    /\ signed \in [Keys -> {NotMade} \cup Nat]
    /\ outcomes \subseteq Ceremonies \X Finishes /\ stale \subseteq Finishes

\* FinishRequest request f has taken ceremony c out of the map.
Taken(f, c) ==
    \/ <<c, f>> \in outcomes
    \/ fins[f].pc \notin {"new", "take", "done"} /\ fins[f].c = c

\* A ceremony is in the map or taken by one request, and what is in the map is
\* what the browser was asked for.
TakenOnce ==
    /\ \A c \in Ceremonies : waSess[c].kind \in {"none", begun[c]}
    /\ \A c \in Ceremonies, f \in Finishes : Taken(f, c) => begun[c] # "none" /\ waSess[c].kind = "none"
    /\ \A c \in Ceremonies, f, g \in Finishes : Taken(f, c) /\ Taken(g, c) => f = g

\* FinishRequest request f brings key k as a new one.
Registers(f, k) == fins[f].pc \in {"take", "register", "insert"} /\ fins[f].count = 0 /\ fins[f].key = k

\* A key is registered once, before it signs anybody in, and a counter that is
\* about to be stored is behind only if another one has been stored meanwhile.
CountersDue ==
    /\ \A f \in Finishes : fins[f].pc \notin {"new", "done"} => signed[fins[f].key] # NotMade
    /\ \A k \in Keys : passkeys[k].stored => signed[k] # NotMade
    /\ \A f \in Finishes : fins[f].pc = "take" =>
          begun[fins[f].c] = IF fins[f].count = 0 THEN "register" ELSE "assert"
    /\ \A f \in Finishes : fins[f].pc \in {"register", "insert"} => fins[f].count = 0
    /\ \A f, g \in Finishes, k \in Keys : Registers(f, k) /\ Registers(g, k) => f = g
    /\ \A f, g \in Finishes, k \in Keys : Registers(f, k) =>
          ~passkeys[k].stored /\ ~(fins[g].pc = "count" /\ fins[g].key = k)
    /\ \A f \in Finishes : fins[f].pc = "count" /\ f \notin stale /\ passkeys[fins[f].key].stored =>
          fins[f].new >= passkeys[fins[f].key].count

KeysInv == KeysTypeOK /\ TakenOnce /\ CountersDue
=============================================================================
