-------------------------- MODULE OperationsProofs --------------------------
(***************************************************************************)
(* What surrounds an exchange, for every number of requests, every         *)
(* capacity of the rings and every configuration: the rings implement      *)
(* bounded logs, the log does not call a failure a success, what a token   *)
(* exchange meets was in force while it was served, and the clock does not *)
(* jump.  And Provisioning: what incremental syncs skip has reached the    *)
(* target.                                                                 *)
(***************************************************************************)
EXTENDS Operations, SequenceTheorems, Provisioning, TLAPS

-----------------------------------------------------------------------------
\* The rings

\* A position is its own remainder, however many rounds are added to it.
LEMMA Remainders ==
    ASSUME NEW a \in 0..Cap-1
    PROVE  /\ a % Cap = a
           /\ (a + Cap) % Cap = a
           /\ (a + Cap * 2) % Cap = a
BY RecorderAssumptions

\* Where the entry written k writes ago is found: before the next slot, or by
\* going around (List).
LEMMA IndexValue ==
    ASSUME NEW S, NEW r \in Ring(S), NEW k \in 0..Cap-1
    PROVE  /\ Index(r, k) \in 0..Cap-1
           /\ k < r.next => Index(r, k) = r.next - 1 - k
           /\ k >= r.next => Index(r, k) = r.next - 1 - k + Cap
<1>t. Cap \in Nat /\ Cap > 0 /\ r.next \in 0..Cap-1
  BY RecorderAssumptions DEF Ring
<1>1. CASE k < r.next
  <2>1. PICK a \in 0..Cap-1 : a = r.next - 1 - k
    BY <1>1, <1>t
  <2>2. (a + Cap) % Cap = a
    BY Remainders
  <2>3. r.next - 1 - k + Cap = a + Cap
    BY <2>1, <1>t
  <2> QED BY <1>1, <2>1, <2>2, <2>3, <1>t DEF Index
<1>2. CASE k >= r.next
  <2>1. PICK a \in 0..Cap-1 : a = r.next - 1 - k + Cap
    BY <1>2, <1>t
  <2>2. a % Cap = a
    BY Remainders
  <2> QED BY <1>2, <2>1, <2>2, <1>t DEF Index
<1> QED BY <1>1, <1>2, <1>t

\* The directory's recorder counts back from two rounds on, to the same slot.
LEMMA ChangeIndex ==
    ASSUME NEW S, NEW r \in Ring(S), NEW k \in 0..Cap-1
    PROVE  (r.next - 1 - k + Cap * 2) % Cap = Index(r, k)
<1>t. Cap \in Nat /\ Cap > 0 /\ r.next \in 0..Cap-1
  BY RecorderAssumptions DEF Ring
<1>i. PICK a \in 0..Cap-1 : a = Index(r, k)
  BY IndexValue
<1>r. (a + Cap) % Cap = a /\ (a + Cap * 2) % Cap = a
  BY Remainders
<1>1. CASE k < r.next
  <2>1. r.next - 1 - k + Cap * 2 = a + Cap * 2
    BY <1>1, <1>i, <1>t, IndexValue
  <2> QED BY <2>1, <1>r, <1>i
<1>2. CASE k >= r.next
  <2>1. r.next - 1 - k + Cap * 2 = a + Cap
    BY <1>2, <1>i, <1>t, IndexValue
  <2> QED BY <2>1, <1>r, <1>i
<1> QED BY <1>1, <1>2, <1>t

\* How much a ring holds
LEMMA HeldValue ==
    ASSUME NEW S, NEW r \in Ring(S)
    PROVE  Held(r) \in 0..Cap
BY RecorderAssumptions DEF Ring, Held

\* What a listing is: as many entries as are held and wanted, newest first, each
\* of them an event.
LEMMA ListValue ==
    ASSUME NEW S, NEW r \in Ring(S), NEW n \in Nat, FilledInOrder(r),
           NEW m, m = IF n > 0 /\ n < Held(r) THEN n ELSE Held(r)
    PROVE  /\ m \in 0..Held(r)
           /\ List(r, n) \in Seq(S) /\ Len(List(r, n)) = m
           /\ \A i \in 1..m : List(r, n)[i] = r.buf[Index(r, i - 1)] /\ List(r, n)[i] \in S \ {NoEvent}
<1>t. /\ Cap \in Nat /\ Cap > 0 /\ r.next \in 0..Cap-1 /\ r.full \in BOOLEAN
      /\ r.buf \in [0..Cap-1 -> S \cup {NoEvent}]
  BY RecorderAssumptions DEF Ring
<1>1. Held(r) \in 0..Cap
  BY HeldValue
<1>2. m \in 0..Held(r)
  BY <1>1, <1>t
<1>3. List(r, n) = [i \in 1..m |-> r.buf[Index(r, i - 1)]]
  BY DEF List
<1>4. ASSUME NEW i \in 1..m
      PROVE  r.buf[Index(r, i - 1)] \in S \ {NoEvent}
  <2>1. PICK k \in 0..Cap-1 : k = i - 1 /\ k < Held(r)
    BY <1>1, <1>2, <1>t
  <2>i. Index(r, k) \in 0..Cap-1 /\ (k < r.next => Index(r, k) = r.next - 1 - k)
    BY IndexValue
  <2>2. PICK a \in 0..Cap-1 : a = Index(r, k) /\ (k < r.next => a < r.next)
    BY <2>i, <2>1, <1>t
  <2>3. r.full \/ a < r.next
    BY <2>1, <2>2 DEF Held
  <2>4. r.buf[a] # NoEvent
    BY <2>3 DEF FilledInOrder
  <2> QED BY <2>1, <2>2, <2>4, <1>t
<1>5. List(r, n) \in [1..m -> S]
  BY <1>3, <1>4
<1>6. m \in Nat
  BY <1>1, <1>2, <1>t
<1>7. List(r, n) \in Seq(S)
  BY <1>5, <1>6
<1>8. Len(List(r, n)) = m
  BY <1>5, <1>6, <1>7, LenProperties
<1> QED BY <1>2, <1>3, <1>4, <1>7, <1>8

\* Both recorders list alike, although they walk and cut differently.
LEMMA ListsAlike ==
    ASSUME NEW S, NEW r \in Ring(S), NEW n \in Nat
    PROVE  ListChanges(r, n) = List(r, n)
<1>1. Held(r) \in 0..Cap /\ Cap \in Nat
  BY HeldValue, RecorderAssumptions
<1>2. PICK m \in 0..Cap : m = IF n > 0 /\ n < Held(r) THEN n ELSE Held(r)
  BY <1>1
<1>3. m = IF n <= 0 \/ n > Held(r) THEN Held(r) ELSE n
  BY <1>1, <1>2
<1>4. List(r, n) = [i \in 1..m |-> r.buf[Index(r, i - 1)]]
  BY <1>2 DEF List
<1>5. ListChanges(r, n) = [i \in 1..m |-> r.buf[(r.next - 1 - (i - 1) + Cap * 2) % Cap]]
  BY <1>3 DEF ListChanges
<1>6. ASSUME NEW i \in 1..m
      PROVE  (r.next - 1 - (i - 1) + Cap * 2) % Cap = Index(r, i - 1)
  <2>1. PICK k \in 0..Cap-1 : k = i - 1
    BY <1>1
  <2> QED BY <2>1, ChangeIndex
<1> QED BY <1>4, <1>5, <1>6

\* Recording is the same in both recorders.
LEMMA RecordsAlike ==
    ASSUME NEW r, NEW e
    PROVE  RecordChange(r, e) = Record(r, e)
BY DEF Record, RecordChange

\* What recording does: the next slot is written, and the position moves on and
\* wraps around.
LEMMA RecordEffect ==
    ASSUME NEW S, NEW r \in Ring(S), NEW e \in S
    PROVE  /\ Record(r, e) \in Ring(S)
           /\ \A i \in 0..Cap-1 : Record(r, e).buf[i] = IF i = r.next THEN e ELSE r.buf[i]
           /\ r.next + 1 < Cap => Record(r, e).next = r.next + 1 /\ (Record(r, e).full <=> r.full)
           /\ r.next + 1 >= Cap => Record(r, e).next = 0 /\ Record(r, e).full
<1>t. /\ Cap \in Nat /\ Cap > 0 /\ r.next \in 0..Cap-1
      /\ r.buf \in [0..Cap-1 -> S \cup {NoEvent}] /\ r.full \in BOOLEAN
  BY RecorderAssumptions DEF Ring
<1>0. 0 + Cap = Cap /\ (0 + Cap) % Cap = 0
  BY Remainders, <1>t
<1>1. PICK n \in 0..Cap-1 : /\ n = (r.next + 1) % Cap
                            /\ r.next + 1 < Cap => n = r.next + 1
                            /\ r.next + 1 >= Cap => n = 0
  <2>1. CASE r.next + 1 < Cap
    <3>1. PICK a \in 0..Cap-1 : a = r.next + 1
      BY <2>1, <1>t
    <3>2. a % Cap = a
      BY Remainders
    <3> QED BY <2>1, <3>1, <3>2, <1>t
  <2>2. CASE r.next + 1 >= Cap
    <3>1. r.next + 1 = Cap
      BY <2>2, <1>t
    <3>2. 0 \in 0..Cap-1 /\ 0 = (r.next + 1) % Cap /\ ~(r.next + 1 < Cap)
      BY <3>1, <1>0, <1>t
    <3> QED BY <3>2
  <2> QED BY <2>1, <2>2, <1>t
<1>2. PICK b : b = [r.buf EXCEPT ![r.next] = e]
  OBVIOUS
<1>3. b \in [0..Cap-1 -> S \cup {NoEvent}] /\ \A i \in 0..Cap-1 : b[i] = IF i = r.next THEN e ELSE r.buf[i]
  BY <1>2, <1>t
<1>4. PICK f \in BOOLEAN : f <=> r.full \/ n = 0
  BY <1>t
<1>5. Record(r, e) = [buf |-> b, next |-> n, full |-> f]
  BY <1>1, <1>2, <1>4, <1>t DEF Record
<1>6. Record(r, e) \in Ring(S)
  BY <1>5, <1>3 DEF Ring
<1> QED BY <1>1, <1>3, <1>4, <1>5, <1>6, <1>t

\* The slots stay filled in order.
LEMMA RecordInOrder ==
    ASSUME NEW S, NEW r \in Ring(S), NEW e \in S, NoEvent \notin S, FilledInOrder(r)
    PROVE  FilledInOrder(Record(r, e))
<1>t. /\ Cap \in Nat /\ Cap > 0 /\ r.next \in 0..Cap-1 /\ r.full \in BOOLEAN
  BY RecorderAssumptions DEF Ring
<1>1. e # NoEvent
  OBVIOUS
<1> PICK q : q = Record(r, e)
  OBVIOUS
<1>2. /\ \A i \in 0..Cap-1 : q.buf[i] = IF i = r.next THEN e ELSE r.buf[i]
      /\ r.next + 1 < Cap => q.next = r.next + 1 /\ (q.full <=> r.full)
      /\ r.next + 1 >= Cap => q.next = 0 /\ q.full
  BY RecordEffect
<1>3. \A i \in 0..Cap-1 : q.buf[i] # NoEvent <=> q.full \/ i < q.next
  BY <1>1, <1>2, <1>t DEF FilledInOrder
<1> QED BY <1>3 DEF FilledInOrder
\* After recording, the entries count back from the new one.
LEMMA IndexAfterRecord ==
    ASSUME NEW S, NEW r \in Ring(S), NEW e \in S, NEW q \in Ring(S), q = Record(r, e)
    PROVE  /\ q.buf[Index(q, 0)] = e
           /\ \A k \in 0..Cap-2 : q.buf[Index(q, k + 1)] = r.buf[Index(r, k)]
           /\ Held(q) = IF Held(r) < Cap THEN Held(r) + 1 ELSE Cap
<1>t. /\ Cap \in Nat /\ Cap > 0 /\ r.next \in 0..Cap-1 /\ r.full \in BOOLEAN
      /\ q.next \in 0..Cap-1 /\ q.full \in BOOLEAN
  BY RecorderAssumptions DEF Ring
<1>e. /\ \A i \in 0..Cap-1 : q.buf[i] = IF i = r.next THEN e ELSE r.buf[i]
      /\ r.next + 1 < Cap => q.next = r.next + 1 /\ (q.full <=> r.full)
      /\ r.next + 1 >= Cap => q.next = 0 /\ q.full
  BY RecordEffect
<1>1. q.buf[Index(q, 0)] = e
  <2>1. /\ 0 < q.next => Index(q, 0) = q.next - 1 - 0
        /\ 0 >= q.next => Index(q, 0) = q.next - 1 - 0 + Cap
    BY IndexValue, <1>t
  <2>2. Index(q, 0) = r.next
    BY <2>1, <1>e, <1>t
  <2> QED BY <2>2, <1>e, <1>t
<1>2. ASSUME NEW k \in 0..Cap-2
      PROVE  q.buf[Index(q, k + 1)] = r.buf[Index(r, k)]
  <2>1. k \in 0..Cap-1 /\ k + 1 \in 0..Cap-1
    BY <1>t
  <2>2. /\ k < r.next => Index(r, k) = r.next - 1 - k
        /\ k >= r.next => Index(r, k) = r.next - 1 - k + Cap
        /\ Index(r, k) \in 0..Cap-1
    BY <2>1, IndexValue
  <2>3. PICK j \in 0..Cap-1 : j = k + 1
    BY <2>1
  <2>4. /\ j < q.next => Index(q, j) = q.next - 1 - j
        /\ j >= q.next => Index(q, j) = q.next - 1 - j + Cap
    BY IndexValue
  <2>5. Index(q, j) = Index(r, k)
    <3>1. CASE r.next + 1 < Cap
      BY <3>1, <2>1, <2>2, <2>3, <2>4, <1>e, <1>t
    <3>2. CASE r.next + 1 >= Cap
      <4>1. r.next = Cap - 1 /\ q.next = 0
        BY <3>2, <1>e, <1>t
      <4> QED BY <4>1, <2>1, <2>2, <2>3, <2>4, <1>t
    <3> QED BY <3>1, <3>2, <1>t
  <2>6. Index(r, k) # r.next
    BY <2>2, <1>t
  <2> QED BY <2>2, <2>3, <2>5, <2>6, <1>e
<1>3. Held(q) = IF Held(r) < Cap THEN Held(r) + 1 ELSE Cap
  <2>1. CASE r.full
    BY <2>1, <1>e, <1>t DEF Held
  <2>2. CASE ~r.full
    BY <2>2, <1>e, <1>t DEF Held
  <2> QED BY <2>1, <2>2
<1> QED BY <1>1, <1>2, <1>3

\* Recording puts the new entry before the others and drops the oldest of more
\* than Cap.
LEMMA ListAfterRecord ==
    ASSUME NEW S, NEW r \in Ring(S), NEW e \in S, NoEvent \notin S, FilledInOrder(r),
           NEW L, L = List(r, 0)
    PROVE  List(Record(r, e), 0) =
               SubSeq(<<e>> \o L, 1, IF Len(<<e>> \o L) < Cap THEN Len(<<e>> \o L) ELSE Cap)
<1>t. Cap \in Nat /\ Cap > 0
  BY RecorderAssumptions
<1>h. Held(r) \in 0..Cap
  BY HeldValue
<1>q. PICK q \in Ring(S) : q = Record(r, e) /\ FilledInOrder(q)
  BY RecordEffect, RecordInOrder
<1>1. /\ L \in Seq(S) /\ Len(L) = Held(r)
      /\ \A i \in 1..Held(r) : L[i] = r.buf[Index(r, i - 1)]
  BY ListValue
<1>2. /\ List(q, 0) \in Seq(S) /\ Len(List(q, 0)) = Held(q)
      /\ \A i \in 1..Held(q) : List(q, 0)[i] = q.buf[Index(q, i - 1)]
  BY ListValue, <1>q
<1>3. /\ q.buf[Index(q, 0)] = e
      /\ \A k \in 0..Cap-2 : q.buf[Index(q, k + 1)] = r.buf[Index(r, k)]
      /\ Held(q) = IF Held(r) < Cap THEN Held(r) + 1 ELSE Cap
  BY IndexAfterRecord, <1>q
<1>4. PICK t : t = <<e>> \o L
  OBVIOUS
<1>5. /\ t \in Seq(S) /\ Len(t) = Held(r) + 1
      /\ \A i \in 1..Held(r) + 1 : t[i] = IF i <= 1 THEN e ELSE L[i - 1]
  <2>1. <<e>> \in Seq(S) /\ Len(<<e>>) = 1 /\ <<e>>[1] = e
    OBVIOUS
  <2>2. /\ <<e>> \o L \in Seq(S)
        /\ Len(<<e>> \o L) = Len(<<e>>) + Len(L)
        /\ \A i \in 1..Len(<<e>>) + Len(L) : (<<e>> \o L)[i] =
              IF i <= Len(<<e>>) THEN <<e>>[i] ELSE L[i - Len(<<e>>)]
    BY <2>1, <1>1, ConcatProperties
  <2> QED BY <2>1, <2>2, <1>1, <1>4, <1>h, <1>t
<1>6. PICK m \in 1..Cap : m = (IF Len(t) < Cap THEN Len(t) ELSE Cap) /\ m = Held(q) /\ m <= Held(r) + 1
  BY <1>3, <1>5, <1>h, <1>t
<1>7. \A i \in 1..m : t[i] \in S
  BY <1>5, <1>6, <1>h, <1>t, ElementOfSeq
<1>8. /\ SubSeq(t, 1, m) \in Seq(S) /\ Len(SubSeq(t, 1, m)) = m
      /\ \A i \in 1..m : SubSeq(t, 1, m)[i] = t[i]
  BY <1>6, <1>7, <1>t, SubSeqProperties
<1>9. ASSUME NEW i \in 1..m
      PROVE  List(q, 0)[i] = SubSeq(t, 1, m)[i]
  <2>1. CASE i = 1
    BY <2>1, <1>2, <1>3, <1>5, <1>6, <1>8, <1>h, <1>t
  <2>2. CASE i # 1
    <3>1. PICK k \in 0..Cap-2 : k + 1 = i - 1 /\ k = i - 2
      BY <2>2, <1>6, <1>t
    <3>2. List(q, 0)[i] = r.buf[Index(r, k)]
      BY <3>1, <1>2, <1>3, <1>6
    <3>3. i - 1 \in 1..Held(r) /\ i - 1 - 1 = k
      BY <2>2, <3>1, <1>6, <1>h, <1>t
    <3>4. L[i - 1] = r.buf[Index(r, k)]
      BY <3>3, <1>1
    <3>5. t[i] = L[i - 1]
      BY <2>2, <1>5, <1>6, <1>h, <1>t
    <3> QED BY <3>2, <3>4, <3>5, <1>8
  <2> QED BY <2>1, <2>2
<1>10. List(q, 0) = SubSeq(t, 1, m)
  BY <1>2, <1>6, <1>8, <1>9, SeqEqual
<1> QED BY <1>10, <1>q, <1>4, <1>6

\* A limit gives the newest entries.
LEMMA ListCut ==
    ASSUME NEW S, NEW r \in Ring(S), NoEvent \notin S, FilledInOrder(r), NEW n \in Nat, n > 0
    PROVE  List(r, n) = SubSeq(List(r, 0), 1, IF Len(List(r, 0)) < n THEN Len(List(r, 0)) ELSE n)
<1>h. Held(r) \in 0..Cap /\ Cap \in Nat
  BY HeldValue, RecorderAssumptions
<1>1. PICK L : L = List(r, 0)
  OBVIOUS
<1>2. /\ L \in Seq(S) /\ Len(L) = Held(r)
      /\ \A i \in 1..Held(r) : L[i] = r.buf[Index(r, i - 1)] /\ L[i] \in S
  BY ListValue, <1>1
<1>3. PICK m \in 0..Held(r) : m = IF n < Held(r) THEN n ELSE Held(r)
  BY <1>h
<1>4. /\ List(r, n) \in Seq(S) /\ Len(List(r, n)) = m
      /\ \A i \in 1..m : List(r, n)[i] = r.buf[Index(r, i - 1)]
  BY ListValue, <1>3
<1>5. m = IF Len(L) < n THEN Len(L) ELSE n
  BY <1>2, <1>3, <1>h
<1>6. \A i \in 1..m : L[i] \in S
  BY <1>2, <1>3, <1>h
<1>7. /\ SubSeq(L, 1, m) \in Seq(S) /\ Len(SubSeq(L, 1, m)) = m
      /\ \A i \in 1..m : SubSeq(L, 1, m)[i] = L[i]
  BY <1>3, <1>6, <1>h, SubSeqProperties
<1>8. \A i \in 1..m : List(r, n)[i] = SubSeq(L, 1, m)[i]
  BY SMTT(30), <1>2, <1>3, <1>4, <1>7, <1>h
<1>9. List(r, n) = SubSeq(L, 1, m)
  BY <1>4, <1>7, <1>8, SeqEqual
<1> QED BY <1>9, <1>1, <1>5

-----------------------------------------------------------------------------
\* What the steps do

\* A step of exchange x, and of nothing else: it goes on to m.
Serves(x, m) ==
    /\ pc' = [pc EXCEPT ![x] = m] /\ m \in Labels
    /\ xchg' \in [Exchanges -> Exchange]
    /\ \A y \in Exchanges : y # x => xchg'[y] = xchg[y]
    /\ UNCHANGED <<clockVars, configs, rings, body>>

\* The exchanges are records of their type.
LEMMA ExchangeTyped ==
    ASSUME TypeOK, NEW x \in Exchanges
    PROVE  /\ xchg[x] \in Exchange
           /\ xchg[x].ext \in Optional(Allowed)
           /\ xchg[x].access \subseteq Claims /\ xchg[x].id \subseteq Claims
           /\ xchg[x].outcome \in Outcomes
           /\ xchg[x].location \in {None, "plain", "error="}
BY DEF TypeOK, Exchange

\* A step that changes no exchange
LEMMA PlainServes ==
    ASSUME TypeOK, NEW x \in Exchanges, NEW m \in Labels,
           pc' = [pc EXCEPT ![x] = m], UNCHANGED <<clockVars, configs, rings, body, xchg>>
    PROVE  Serves(x, m)
BY DEF TypeOK, Serves

\* A response sets the outcome and the Location, and drops the allow-list.
LEMMA RespondEffect ==
    ASSUME TypeOK, NEW x \in Exchanges, NEW l, NEW o \in Outcomes,
           NEW u \in {None, "plain", "error="}, Respond(x, l, o, u)
    PROVE  /\ pc[x] = l /\ Serves(x, "record")
           /\ xchg'[x].outcome = o /\ xchg'[x].location = u /\ xchg'[x].ext = {}
           /\ xchg'[x].access = xchg[x].access /\ xchg'[x].id = xchg[x].id
<1>1. xchg[x] \in Exchange
  BY ExchangeTyped
<1>2. PICK q : q = [xchg[x] EXCEPT !.outcome = o, !.location = u, !.ext = {}]
  OBVIOUS
<1>3. /\ q \in Exchange /\ q.outcome = o /\ q.location = u /\ q.ext = {}
      /\ q.access = xchg[x].access /\ q.id = xchg[x].id
  BY <1>1, <1>2 DEF Exchange, Optional
<1>4. xchg \in [Exchanges -> Exchange] /\ xchg' = [xchg EXCEPT ![x] = q]
  BY <1>2 DEF TypeOK, Respond
<1>5. xchg' \in [Exchanges -> Exchange] /\ xchg'[x] = q /\ \A y \in Exchanges : y # x => xchg'[y] = xchg[y]
  BY <1>3, <1>4
<1>6. pc[x] = l /\ pc' = [pc EXCEPT ![x] = "record"] /\ UNCHANGED <<clockVars, configs, rings, body>>
  BY DEF Respond, Step
<1> QED BY <1>3, <1>5, <1>6 DEF Serves, Labels

\* A page, or an answer in JSON, has no Location.
LEMMA AnswerEffect ==
    ASSUME TypeOK, NEW x \in Exchanges, NEW l, NEW o \in Outcomes, Answer(x, l, o)
    PROVE  /\ pc[x] = l /\ Serves(x, "record")
           /\ xchg'[x].outcome = o /\ xchg'[x].location = None /\ xchg'[x].ext = {}
           /\ xchg'[x].access = xchg[x].access /\ xchg'[x].id = xchg[x].id
BY RespondEffect DEF Answer

\* A request to the authorize endpoint is answered at once, with a page or an
\* error for the app, or its result is put together.
LEMMA AuthorizeEffect ==
    ASSUME TypeOK, NEW x \in AuthorizeExchanges,
           HandleAuthorize(x) \/ HandleSignInSubmit(x) \/ HandleConsentDecision(x)
    PROVE  /\ x \in Exchanges /\ pc[x] = "new"
           /\ \/ /\ xchg' = xchg
                 /\ Serves(x, "issue") \/ Serves(x, "id")
              \/ /\ Serves(x, "record") /\ Fits(x, xchg'[x])
                 /\ xchg'[x].outcome \notin {"fault", "ok"} /\ xchg'[x].ext = {}
                 /\ xchg'[x].access = xchg[x].access /\ xchg'[x].id = xchg[x].id
<1>x. x \in Exchanges /\ x \notin TokenExchanges
  BY OperationsAssumptions DEF Exchanges
<1>1. CASE IssueCode(x)
  <2>1. PICK m \in {"issue", "id"} : Step(x, "new", m)
    BY <1>1 DEF IssueCode
  <2>2. UNCHANGED <<clockVars, configs, rings, body, xchg>> /\ m \in Labels
    BY <1>1 DEF IssueCode, Labels
  <2>3. Serves(x, m) /\ pc[x] = "new"
    BY <2>1, <2>2, <1>x, PlainServes DEF Step
  <2> QED BY <2>1, <2>2, <2>3, <1>x
<1>2. ASSUME NEW o \in {"refused", "prompt", "retry", "told"}, NEW u \in {None, "error="},
             o # "told" => u = None, Respond(x, "new", o, u)
      PROVE  /\ pc[x] = "new" /\ Serves(x, "record") /\ Fits(x, xchg'[x])
             /\ xchg'[x].outcome \notin {"fault", "ok"} /\ xchg'[x].ext = {}
             /\ xchg'[x].access = xchg[x].access /\ xchg'[x].id = xchg[x].id
  <2>1. o \in Outcomes /\ u \in {None, "plain", "error="}
    BY <1>2 DEF Outcomes
  <2>2. /\ pc[x] = "new" /\ Serves(x, "record")
        /\ xchg'[x].outcome = o /\ xchg'[x].location = u /\ xchg'[x].ext = {}
        /\ xchg'[x].access = xchg[x].access /\ xchg'[x].id = xchg[x].id
    BY <2>1, <1>2, <1>x, RespondEffect
  <2>3. Fits(x, xchg'[x])
    BY <2>2, <1>2, <1>x DEF Fits, None
  <2> QED BY <2>2, <2>3, <1>2
<1>3. CASE DeliverAuthorizeError(x)
  <2>1. PICK u \in {None, "error="} : Respond(x, "new", "told", u)
    BY <1>3 DEF DeliverAuthorizeError, Locations
  <2> QED BY <2>1, <1>2, <1>x
<1>4. ASSUME NEW o \in {"refused", "prompt", "retry"}, Answer(x, "new", o)
      PROVE  /\ pc[x] = "new" /\ Serves(x, "record") /\ Fits(x, xchg'[x])
             /\ xchg'[x].outcome \notin {"fault", "ok"} /\ xchg'[x].ext = {}
             /\ xchg'[x].access = xchg[x].access /\ xchg'[x].id = xchg[x].id
  BY <1>4, <1>2 DEF Answer
<1> QED BY <1>x, <1>1, <1>3, <1>4 DEF HandleAuthorize, HandleSignInSubmit, HandleConsentDecision

\* The result of the authorize endpoint, unless its ID token could not be made
LEMMA DeliverEffect ==
    ASSUME TypeOK, NEW x \in Exchanges, DeliverAuthorizeResult(x)
    PROVE  /\ x \notin TokenExchanges
           /\ \E o \in {"refused", "ok"}, u \in {None, "plain", "error="} : Respond(x, "issue", o, u)
<1>1. x \notin TokenExchanges
  BY OperationsAssumptions DEF DeliverAuthorizeResult
<1>2. "refused" \in {"refused", "ok"} /\ "ok" \in {"refused", "ok"} /\ None \in {None, "plain", "error="}
  OBVIOUS
<1>3. CASE Answer(x, "issue", "refused")
  BY <1>1, <1>2, <1>3 DEF Answer
<1>4. CASE \E u \in Locations("ok") : Respond(x, "issue", "ok", u)
  <2>1. Locations("ok") = {None, "plain", "error="}
    BY DEF Locations
  <2> QED BY <1>1, <1>2, <1>4, <2>1
<1> QED BY <1>3, <1>4 DEF DeliverAuthorizeResult

\* handleToken: an error is decided on only if one is armed, and work is begun
\* only if none is certain.
LEMMA HandleTokenEffect ==
    ASSUME TypeOK, NEW x \in TokenExchanges, HandleToken(x)
    PROVE  /\ pc[x] = "new" /\ xchg' = xchg
           /\ \E m \in {"sleep, fail", "fail", "sleep, grant", "grant"} :
                 /\ Serves(x, m)
                 /\ m \in {"sleep, fail", "fail"} => faults.error
                 /\ m \in {"sleep, grant", "grant"} => ~(faults.error /\ faults.p # "between")
<1>1. PICK fire \in TokenFault(faults) :
          Step(x, "new", IF faults.latency THEN (IF fire THEN "sleep, fail" ELSE "sleep, grant")
                         ELSE IF fire THEN "fail" ELSE "grant")
  BY DEF HandleToken
<1>2. faults.p \in {"0", "between", "1"} /\ faults.error \in BOOLEAN /\ faults.latency \in BOOLEAN
  BY DEF TypeOK, FaultConfig
<1>3. /\ fire \in BOOLEAN
      /\ fire => faults.error
      /\ ~fire => ~(faults.error /\ faults.p # "between")
  BY <1>1, <1>2 DEF TokenFault
<1>4. UNCHANGED <<clockVars, configs, rings, body, xchg>> /\ x \in Exchanges
  BY DEF HandleToken, Exchanges
<1>5. PICK m : m = IF faults.latency THEN (IF fire THEN "sleep, fail" ELSE "sleep, grant")
                   ELSE IF fire THEN "fail" ELSE "grant"
  OBVIOUS
<1>6. /\ m \in {"sleep, fail", "fail", "sleep, grant", "grant"} /\ m \in Labels
      /\ m \in {"sleep, fail", "fail"} => fire
      /\ m \in {"sleep, grant", "grant"} => ~fire
  BY <1>2, <1>3, <1>5 DEF Labels
<1>7. pc[x] = "new" /\ pc' = [pc EXCEPT ![x] = m]
  BY <1>1, <1>5 DEF Step
<1>8. Serves(x, m)
  BY <1>4, <1>6, <1>7, PlainServes
<1> QED BY <1>3, <1>4, <1>6, <1>7, <1>8

\* The two tokens that are enriched, one after the other
LEMMA KindsValue ==
    ASSUME NEW k \in Kinds
    PROVE  /\ (k[1] = "access" /\ k[2] = "id") \/ (k[1] = "id" /\ k[2] = "issue")
           /\ k[2] \in Labels /\ Calling(k[1]) \in Labels
<1>1. CASE k = <<"access", "id">>
  <2>1. k[1] = "access" /\ k[2] = "id"
    BY <1>1
  <2> QED BY <2>1 DEF Labels, Calling
<1>2. CASE k = <<"id", "issue">>
  <2>1. k[1] = "id" /\ k[2] = "issue"
    BY <1>2
  <2> QED BY <2>1 DEF Labels, Calling
<1> QED BY <1>1, <1>2 DEF Kinds

\* Enrich goes past the webhook or calls it with the allow-list in force.
LEMMA EnrichEffect ==
    ASSUME TypeOK, NEW x \in Exchanges, NEW k \in Kinds, Enrich(x, k[1], k[2])
    PROVE  /\ pc[x] = k[1]
           /\ \/ Serves(x, k[2]) /\ xchg' = xchg
              \/ /\ Serves(x, Calling(k[1])) /\ ext # {} /\ xchg'[x].ext = ext
                 /\ xchg'[x].access = xchg[x].access /\ xchg'[x].id = xchg[x].id
                 /\ xchg'[x].outcome = xchg[x].outcome
<1>0. x \in Exchanges /\ UNCHANGED <<clockVars, configs, rings, body>>
  BY DEF Enrich
<1>k. k[2] \in Labels /\ Calling(k[1]) \in Labels
  BY KindsValue
<1>1. CASE ext = {}
  <2>1. pc[x] = k[1] /\ pc' = [pc EXCEPT ![x] = k[2]] /\ UNCHANGED xchg
    BY <1>1 DEF Enrich, Step
  <2> QED BY <2>1, <1>0, <1>k, PlainServes
<1>2. CASE ext # {}
  <2>1. pc[x] = k[1] /\ pc' = [pc EXCEPT ![x] = Calling(k[1])] /\ xchg' = [xchg EXCEPT ![x].ext = ext]
    BY <1>2 DEF Enrich, Step
  <2>2. PICK q : q = [xchg[x] EXCEPT !.ext = ext]
    OBVIOUS
  <2>3. xchg[x] \in Exchange /\ ext \in Optional(Allowed) /\ xchg \in [Exchanges -> Exchange]
    BY <1>0, ExchangeTyped DEF TypeOK
  <2>4. /\ q \in Exchange /\ q.ext = ext /\ q.outcome = xchg[x].outcome
        /\ q.access = xchg[x].access /\ q.id = xchg[x].id
    BY <2>2, <2>3 DEF Exchange
  <2>5. xchg' = [xchg EXCEPT ![x] = q]
    BY <2>1, <2>2
  <2>6. xchg' \in [Exchanges -> Exchange] /\ xchg'[x] = q /\ \A y \in Exchanges : y # x => xchg'[y] = xchg[y]
    BY <2>3, <2>4, <2>5, <1>0
  <2>7. Serves(x, Calling(k[1]))
    BY <2>1, <2>6, <1>0, <1>k DEF Serves
  <2> QED BY <2>1, <2>4, <2>6, <2>7, <1>2
<1> QED BY <1>1, <1>2

\* A call that fails leaves the token without claims.
LEMMA InvokeFailsEffect ==
    ASSUME TypeOK, NEW x \in Exchanges, NEW k \in Kinds, InvokeFails(x, k[1], k[2])
    PROVE  /\ pc[x] = Calling(k[1]) /\ Serves(x, k[2])
           /\ xchg'[x].ext = {} /\ xchg'[x].outcome = xchg[x].outcome
           /\ xchg'[x].access = xchg[x].access /\ xchg'[x].id = xchg[x].id
<1>0. x \in Exchanges /\ UNCHANGED <<clockVars, configs, rings, body>>
  BY DEF InvokeFails
<1>k. k[2] \in Labels
  BY KindsValue
<1>1. pc[x] = Calling(k[1]) /\ pc' = [pc EXCEPT ![x] = k[2]] /\ xchg' = [xchg EXCEPT ![x].ext = {}]
  BY DEF InvokeFails, Step
<1>2. PICK q : q = [xchg[x] EXCEPT !.ext = {}]
  OBVIOUS
<1>3. xchg[x] \in Exchange /\ xchg \in [Exchanges -> Exchange]
  BY <1>0, ExchangeTyped DEF TypeOK
<1>4. /\ q \in Exchange /\ q.ext = {} /\ q.outcome = xchg[x].outcome
      /\ q.access = xchg[x].access /\ q.id = xchg[x].id
  BY <1>2, <1>3 DEF Exchange, Optional
<1>5. xchg' = [xchg EXCEPT ![x] = q]
  BY <1>1, <1>2
<1>6. xchg' \in [Exchanges -> Exchange] /\ xchg'[x] = q /\ \A y \in Exchanges : y # x => xchg'[y] = xchg[y]
  BY <1>3, <1>4, <1>5, <1>0
<1> QED BY <1>0, <1>1, <1>4, <1>6, <1>k DEF Serves

\* An answer adds, to the token it was asked for, what the allow-list lets pass.
LEMMA InvokeAnsweredEffect ==
    ASSUME TypeOK, NEW x \in Exchanges, NEW k \in Kinds, NEW A \in Answers,
           InvokeAnswered(x, k[1], k[2], A)
    PROVE  /\ pc[x] = Calling(k[1]) /\ Serves(x, k[2])
           /\ xchg'[x].ext = {} /\ xchg'[x].outcome = xchg[x].outcome
           /\ xchg'[x].access \in {xchg[x].access, Merge(UNION xchg[x].ext, A)}
           /\ xchg'[x].id \in {xchg[x].id, Merge(UNION xchg[x].ext, A)}
<1> PICK C : C = Merge(UNION xchg[x].ext, A)
  OBVIOUS
<1>0. x \in Exchanges /\ UNCHANGED <<clockVars, configs, rings, body>>
  BY DEF InvokeAnswered
<1>k. k[2] \in Labels
  BY KindsValue
<1>c. C \subseteq Claims
  BY OperationsAssumptions DEF Merge
<1>1. pc[x] = Calling(k[1]) /\ pc' = [pc EXCEPT ![x] = k[2]] /\ xchg' = [xchg EXCEPT ![x] = WithClaims(xchg[x], k[1], C)]
  BY DEF InvokeAnswered, Step
<1>2. PICK q : q = WithClaims(xchg[x], k[1], C)
  OBVIOUS
<1>3. xchg[x] \in Exchange /\ xchg \in [Exchanges -> Exchange]
  BY <1>0, ExchangeTyped DEF TypeOK
<1>4. /\ q \in Exchange /\ q.ext = {} /\ q.outcome = xchg[x].outcome
      /\ q.access = xchg[x].access \/ q.access = C
      /\ q.id = xchg[x].id \/ q.id = C
  <2>1. CASE k[1] = "access"
    BY <2>1, <1>2, <1>3, <1>c DEF Exchange, Optional, WithClaims
  <2>2. CASE k[1] # "access"
    BY <2>2, <1>2, <1>3, <1>c DEF Exchange, Optional, WithClaims
  <2> QED BY <2>1, <2>2
<1>6. xchg' \in [Exchanges -> Exchange] /\ xchg'[x] = q /\ \A y \in Exchanges : y # x => xchg'[y] = xchg[y]
  BY <1>1, <1>2, <1>3, <1>4, <1>0
<1> QED BY <1>0, <1>1, <1>4, <1>6, <1>k DEF Serves

-----------------------------------------------------------------------------
\* Type correctness

\* TypeOK without the history
StateTyped ==
    /\ topic \in {"faults", "ext", "audit", "clock"}
    /\ ClockTypeOK
    /\ pc \in [Requests -> Labels]
    /\ faults \in FaultConfig /\ ext \in Optional(Allowed)
    /\ signIns \in Ring(Event) /\ changes \in Ring(Change)
    /\ body \in [Admins -> ClockRequest]
    /\ xchg \in [Exchanges -> Exchange]

\* The values the state starts from are well typed.
LEMMA BlanksTyped ==
    /\ NoExchange \in Exchange
    /\ NoFaults \in FaultConfig
    /\ NoRequest \in ClockRequest
    /\ NewRecorder \in Ring(Event)
    /\ {} \in Optional(Allowed)
<1>1. NoExchange \in Exchange
  BY DEF NoExchange, Exchange, Outcomes, Optional, None
<1>2. NoFaults \in FaultConfig
  BY DEF NoFaults, FaultConfig
<1>3. NoRequest \in ClockRequest
  BY DEF NoRequest, ClockRequest, None
<1>4. NewRecorder \in Ring(Event)
  BY RecorderAssumptions DEF NewRecorder, Ring
<1>5. {} \in Optional(Allowed)
  BY DEF Optional
<1> QED BY <1>1, <1>2, <1>3, <1>4, <1>5

\* A step that moves a request to a label of its own
LEMMA StepTyped ==
    ASSUME TypeOK, NEW r \in Requests, NEW l, NEW m \in Labels, Step(r, l, m)
    PROVE  pc' \in [Requests -> Labels] /\ pc[r] = l /\ pc'[r] = m
BY DEF TypeOK, Step

\* A step of an exchange keeps the types.
LEMMA ServesTyped ==
    ASSUME TypeOK, UNCHANGED topic, NEW x \in Exchanges, NEW m, Serves(x, m)
    PROVE  StateTyped'
<1>1. pc' \in [Requests -> Labels]
  BY DEF TypeOK, Serves, Requests
<1>2. xchg' \in [Exchanges -> Exchange]
  BY DEF Serves
<1> QED BY <1>1, <1>2 DEF TypeOK, StateTyped, Serves, clockVars, configs, rings, ClockTypeOK

\* Admin requests and the passing of time keep the types.
LEMMA AdminTyped ==
    ASSUME TypeOK, UNCHANGED topic, AdminNext \/ TimePasses
    PROVE  StateTyped'
<1> USE BlanksTyped
<1>t. /\ real \in 0..MaxReal /\ MaxReal \in Nat /\ offset \in Int /\ frozen \in BOOLEAN /\ frozenAt \in Int
      /\ pc \in [Requests -> Labels] /\ body \in [Admins -> ClockRequest]
      /\ Now \in Int
  BY ClockAssumptions DEF TypeOK, ClockTypeOK, Now
<1>1. CASE TimePasses
  BY <1>1, <1>t DEF TimePasses, Tick, TypeOK, StateTyped, configs, rings, ClockTypeOK
<1>2. ASSUME NEW r \in Admins,
             \/ topic = "faults" /\ (ClearFaults(r) \/ \E c \in FaultConfigs : SetFaults(r, c))
             \/ topic = "ext" /\ (DeleteCustomExtension(r) \/ \E A \in Allowed : SetCustomExtension(r, A))
             \/ topic = "audit" /\ ClearAudit(r)
             \/ topic = "clock" /\ (ResetClock(r) \/ \E q \in ClockRequests : SetClock(r, q))
             \/ ApplyOffset(r) \/ ApplyAdvance(r) \/ ApplyFreeze(r)
      PROVE  StateTyped'
  <2>r. r \in Requests /\ "done" \in Labels /\ "offset" \in Labels /\ "advance" \in Labels /\ "freeze" \in Labels
    BY DEF Requests, Labels
  <2>1. CASE ClearFaults(r)
    BY <2>1, <2>r, StepTyped DEF ClearFaults, TypeOK, StateTyped, clockVars, rings, ClockTypeOK
  <2>2. ASSUME NEW c \in FaultConfigs, SetFaults(r, c) PROVE StateTyped'
    BY <2>2, <2>r, StepTyped, OperationsAssumptions
       DEF SetFaults, TypeOK, StateTyped, clockVars, rings, ClockTypeOK
  <2>3. CASE DeleteCustomExtension(r)
    BY <2>3, <2>r, StepTyped DEF DeleteCustomExtension, TypeOK, StateTyped, clockVars, rings, ClockTypeOK
  <2>4. ASSUME NEW A \in Allowed, SetCustomExtension(r, A) PROVE StateTyped'
    BY <2>4, <2>r, StepTyped
       DEF SetCustomExtension, TypeOK, StateTyped, clockVars, rings, ClockTypeOK, Optional
  <2>5. CASE ClearAudit(r)
    BY <2>5, <2>r, StepTyped DEF ClearAudit, Clear, TypeOK, StateTyped, clockVars, configs, ClockTypeOK
  <2>6. CASE ResetClock(r)
    <3>1. ClockTypeOK'
      <4>1. offset' = 0 /\ frozen' = FALSE /\ frozenAt' = 0 /\ real' = real
        BY <2>6 DEF ResetClock, Reset
      <4>2. frozen' \in BOOLEAN
        BY <4>1
      <4> QED BY <4>1, <4>2, <1>t DEF ClockTypeOK
    <3> QED BY <2>6, <2>r, <3>1, StepTyped DEF ResetClock, TypeOK, StateTyped, configs, rings
  <2>7. ASSUME NEW q \in ClockRequests, SetClock(r, q) PROVE StateTyped'
    BY <2>7, <2>r, StepTyped, OperationsAssumptions
       DEF SetClock, TypeOK, StateTyped, clockVars, configs, rings, ClockTypeOK
  <2>8. CASE ApplyOffset(r)
    <3>1. \A s \in body[r].offset : s \in Int
      BY <1>t DEF ClockRequest
    <3>2. ClockTypeOK'
      BY <2>8, <3>1, <1>t DEF ApplyOffset, SetOffset, ClockTypeOK, clockVars
    <3> QED BY <2>8, <2>r, <3>2, StepTyped DEF ApplyOffset, TypeOK, StateTyped, configs, rings
  <2>9. CASE ApplyAdvance(r)
    <3>1. \A s \in body[r].advance : s \in Int
      BY <1>t DEF ClockRequest
    <3>2. ClockTypeOK'
      BY <2>9, <3>1, <1>t DEF ApplyAdvance, Advance, ClockTypeOK, clockVars
    <3> QED BY <2>9, <2>r, <3>2, StepTyped DEF ApplyAdvance, TypeOK, StateTyped, configs, rings
  <2>10. CASE ApplyFreeze(r)
    <3>1. body[r].freeze \in {None, "freeze", "unfreeze"}
      BY <1>t DEF ClockRequest
    <3>2. UNCHANGED clockVars \/ Freeze \/ Unfreeze
      BY <2>10, <3>1 DEF ApplyFreeze, None
    <3>3. ClockTypeOK'
      <4>1. CASE UNCHANGED clockVars
        BY <4>1, <1>t DEF ClockTypeOK, clockVars
      <4>2. CASE Freeze
        BY <4>2, <1>t DEF Freeze, ClockTypeOK
      <4>3. CASE Unfreeze
        <5>1. frozenAt - real \in Int
          BY <1>t
        <5> QED BY <4>3, <5>1, <1>t DEF Unfreeze, ClockTypeOK
      <4> QED BY <3>2, <4>1, <4>2, <4>3
    <3>4. body' \in [Admins -> ClockRequest]
      BY <2>10, <1>t DEF ApplyFreeze
    <3> QED BY <2>10, <2>r, <3>3, <3>4, StepTyped DEF ApplyFreeze, TypeOK, StateTyped, configs, rings
  <2> QED BY <1>2, <2>1, <2>2, <2>3, <2>4, <2>5, <2>6, <2>7, <2>8, <2>9, <2>10
<1> QED BY <1>1, <1>2 DEF AdminNext

\* The steps of an exchange up to its response
Work(x) ==
    \/ x \in TokenExchanges /\ HandleToken(x)
    \/ /\ x \in AuthorizeExchanges
       /\ HandleAuthorize(x) \/ HandleSignInSubmit(x) \/ HandleConsentDecision(x)
    \/ Sleep(x) \/ InjectedError(x) \/ Grant(x) \/ Issue(x) \/ DeliverAuthorizeResult(x)
    \/ \E k \in Kinds :
           \/ Enrich(x, k[1], k[2]) \/ InvokeFails(x, k[1], k[2])
           \/ \E A \in Answers : InvokeAnswered(x, k[1], k[2], A)

\* The steps of exchanges and Graph writes, by what they do
LEMMA ExchangeCases ==
    ASSUME ExchangeNext
    PROVE  \/ \E x \in Exchanges : Work(x)
           \/ \E x \in Exchanges : Audited(x)
           \/ \E g \in GraphWrites : GraphChange(g) \/ RecordDirectoryChange(g)
<1>1. ASSUME NEW x \in TokenExchanges, HandleToken(x) PROVE x \in Exchanges /\ Work(x)
  BY <1>1 DEF Work, Exchanges
<1>2. ASSUME NEW x \in AuthorizeExchanges,
             HandleAuthorize(x) \/ HandleSignInSubmit(x) \/ HandleConsentDecision(x)
      PROVE  x \in Exchanges /\ Work(x)
  BY <1>2 DEF Work, Exchanges
<1>3. ASSUME NEW x \in Exchanges, Handle(x) PROVE Work(x) \/ Audited(x)
  BY <1>3 DEF Work, Handle
<1>4. ASSUME NEW x \in Exchanges, NEW k \in Kinds, NEW A \in Answers, InvokeAnswered(x, k[1], k[2], A)
      PROVE  Work(x)
  BY <1>4 DEF Work
<1> QED BY <1>1, <1>2, <1>3, <1>4 DEF ExchangeNext

\* They serve the exchange and nothing else, and a response is one that fits it.
LEMMA WorkServes ==
    ASSUME TypeOK, NEW x \in Exchanges, Work(x)
    PROVE  /\ pc[x] \notin {"record", "done"}
           /\ \E m : Serves(x, m) /\ m # "done" /\ (m = "record" => Fits(x, xchg'[x]))
<1> DEFINE P == /\ pc[x] \notin {"record", "done"}
                /\ \E m : Serves(x, m) /\ m # "done" /\ (m = "record" => Fits(x, xchg'[x]))
<1>r. ASSUME pc[x] \notin {"record", "done"}, Serves(x, "record"),
             xchg'[x].outcome \in {"fault", "refused", "ok"}
      PROVE  P
  <2>1. Fits(x, xchg'[x])
    BY <1>r DEF Fits, None
  <2> QED BY <2>1, <1>r
<1>o. /\ "fault" \in Outcomes /\ "refused" \in Outcomes /\ "ok" \in Outcomes
      /\ None \in {None, "plain", "error="}
  BY DEF Outcomes
<1>m. ASSUME NEW m \in Labels \ {"record", "done"}, pc[x] \notin {"record", "done"}, Serves(x, m)
      PROVE  P
  BY <1>m
<1> SUFFICES P
  OBVIOUS
<1> HIDE DEF P
<1>1. ASSUME x \in TokenExchanges, HandleToken(x) PROVE P
  <2>1. /\ pc[x] = "new"
        /\ \E m \in {"sleep, fail", "fail", "sleep, grant", "grant"} : Serves(x, m)
    BY <1>1, HandleTokenEffect
  <2>2. \A m \in {"sleep, fail", "fail", "sleep, grant", "grant"} : m \in Labels \ {"record", "done"}
    BY DEF Labels
  <2> QED BY <2>1, <2>2, <1>m
<1>2. CASE Sleep(x)
  <2>1. PICK m \in {"fail", "grant"} :
            /\ pc[x] \notin {"record", "done"} /\ pc' = [pc EXCEPT ![x] = m]
            /\ UNCHANGED <<clockVars, configs, rings, body, xchg>>
    BY <1>2 DEF Sleep, Step
  <2>2. m \in Labels \ {"record", "done"}
    BY DEF Labels
  <2>3. Serves(x, m)
    BY <2>1, <2>2, PlainServes
  <2> QED BY <2>1, <2>2, <2>3, <1>m
<1>3. CASE InjectedError(x)
  <2>1. pc[x] = "fail" /\ Serves(x, "record") /\ xchg'[x].outcome = "fault"
    BY <1>3, <1>o, AnswerEffect DEF InjectedError
  <2> QED BY <2>1, <1>r
<1>4. CASE Grant(x)
  <2>1. CASE Answer(x, "grant", "refused")
    <3>1. pc[x] = "grant" /\ Serves(x, "record") /\ xchg'[x].outcome = "refused"
      BY <2>1, <1>o, AnswerEffect
    <3> QED BY <3>1, <1>r
  <2>2. CASE Step(x, "grant", "access") /\ UNCHANGED <<clockVars, configs, rings, body, xchg>>
    <3>1. /\ pc[x] \notin {"record", "done"} /\ "access" \in Labels \ {"record", "done"}
          /\ pc' = [pc EXCEPT ![x] = "access"]
      BY <2>2 DEF Labels, Step
    <3>2. Serves(x, "access")
      BY <2>2, <3>1, PlainServes
    <3> QED BY <3>1, <3>2, <1>m
  <2> QED BY <1>4, <2>1, <2>2 DEF Grant
<1>5. CASE Issue(x)
  <2>1. pc[x] = "issue" /\ Serves(x, "record") /\ xchg'[x].outcome = "ok"
    BY <1>5, <1>o, AnswerEffect DEF Issue
  <2> QED BY <2>1, <1>r
<1>6. CASE DeliverAuthorizeResult(x)
  <2>1. PICK o \in {"refused", "ok"}, u \in {None, "plain", "error="} : Respond(x, "issue", o, u)
    BY <1>6, DeliverEffect
  <2>2. o \in Outcomes
    BY DEF Outcomes
  <2>3. pc[x] = "issue" /\ Serves(x, "record") /\ xchg'[x].outcome = o
    BY <2>1, <2>2, RespondEffect
  <2> QED BY <2>3, <1>r
<1>7. ASSUME x \in AuthorizeExchanges,
             HandleAuthorize(x) \/ HandleSignInSubmit(x) \/ HandleConsentDecision(x)
      PROVE  P
  <2>1. /\ pc[x] = "new"
        /\ \/ Serves(x, "issue") \/ Serves(x, "id")
           \/ Serves(x, "record") /\ Fits(x, xchg'[x])
    BY <1>7, AuthorizeEffect
  <2>2. "issue" \in Labels \ {"record", "done"} /\ "id" \in Labels \ {"record", "done"}
    BY DEF Labels
  <2> QED BY <2>1, <2>2, <1>m DEF P
<1>8. ASSUME NEW k \in Kinds,
             \/ Enrich(x, k[1], k[2]) \/ InvokeFails(x, k[1], k[2])
             \/ \E A \in Answers : InvokeAnswered(x, k[1], k[2], A)
      PROVE  P
  <2>1. /\ k[1] \in {"access", "id"} /\ k[2] \in Labels \ {"record", "done"}
        /\ Calling(k[1]) \in Labels \ {"record", "done"}
    BY KindsValue DEF Calling, Labels
  <2>2. pc[x] \in {k[1], Calling(k[1])} /\ (Serves(x, k[2]) \/ Serves(x, Calling(k[1])))
    BY <1>8, EnrichEffect, InvokeFailsEffect, InvokeAnsweredEffect
  <2>3. pc[x] \notin {"record", "done"}
    BY <2>1, <2>2
  <2> QED BY <2>1, <2>2, <2>3, <1>m
<1> QED BY <1>1, <1>2, <1>3, <1>4, <1>5, <1>6, <1>7, <1>8 DEF Work

\* Exchanges and Graph writes keep the types.
LEMMA ExchangeStepTyped ==
    ASSUME TypeOK, UNCHANGED topic, ExchangeNext
    PROVE  StateTyped'
<1> USE BlanksTyped
<1>1. ASSUME NEW x \in Exchanges, Work(x) PROVE StateTyped'
  BY <1>1, WorkServes, ServesTyped
<1>3. ASSUME NEW x \in Exchanges, Audited(x) PROVE StateTyped'
  <2>1. signIns' = Record(signIns, [id |-> x, ok |-> Succeeded(x, xchg[x])])
    BY <1>3 DEF Audited
  <2>2. [id |-> x, ok |-> Succeeded(x, xchg[x])] \in Event
    <3>1. Succeeded(x, xchg[x]) \in BOOLEAN
      BY DEF Succeeded
    <3> QED BY <3>1 DEF Event
  <2>3. signIns' \in Ring(Event)
    BY <2>1, <2>2, RecordEffect DEF TypeOK
  <2>4. pc' \in [Requests -> Labels]
    BY <1>3 DEF Audited, Step, TypeOK, Requests, Labels
  <2> QED BY <1>3, <2>3, <2>4 DEF Audited, TypeOK, StateTyped, clockVars, configs, ClockTypeOK
<1>4. ASSUME NEW g \in GraphWrites, GraphChange(g) PROVE StateTyped'
  <2>1. pc' \in [Requests -> Labels]
    BY <1>4 DEF GraphChange, Step, TypeOK, Requests, Labels
  <2> QED BY <1>4, <2>1 DEF GraphChange, TypeOK, StateTyped, clockVars, configs, rings, ClockTypeOK
<1>5. ASSUME NEW g \in GraphWrites, RecordDirectoryChange(g) PROVE StateTyped'
  <2>1. pc' \in [Requests -> Labels]
    BY <1>5 DEF RecordDirectoryChange, Step, TypeOK, Requests, Labels
  <2>2. [id |-> g, ok |-> TRUE] \in Change
    BY DEF Change
  <2>3. changes' \in Ring(Change)
    BY <1>5, <2>2, RecordEffect, RecordsAlike DEF RecordDirectoryChange, TypeOK
  <2> QED BY <1>5, <2>1, <2>3 DEF RecordDirectoryChange, TypeOK, StateTyped, clockVars, configs, ClockTypeOK
<1> QED BY <1>1, <1>3, <1>4, <1>5, ExchangeCases

\* What is in force can be remembered.
LEMMA ForceTyped ==
    ASSUME NEW c \in FaultConfig, NEW E \in Optional(Allowed)
    PROVE  {<<"armed", c.error>>, <<"certain", c.error /\ c.p # "between">>}
               \cup {<<"allow", A>> : A \in E} \subseteq Facts
<1>1. PICK a \in BOOLEAN : a = c.error
  BY DEF FaultConfig
<1>2. PICK b \in BOOLEAN : b = (c.error /\ c.p # "between")
  OBVIOUS
<1>3. \A A \in E : A \in Allowed
  BY DEF Optional
<1>4. <<"armed", a>> \in Facts /\ <<"certain", b>> \in Facts
  BY DEF Facts
<1>5. \A A \in E : <<"allow", A>> \in Facts
  BY <1>3 DEF Facts
<1> QED BY <1>1, <1>2, <1>4, <1>5

\* Each step of the specification keeps every variable in its type.
LEMMA TypeStep == ASSUME TypeOK, [Next]_vars PROVE TypeOK'
<1>1. CASE Next
  <2>1. StateTyped'
    BY <1>1, AdminTyped, ExchangeStepTyped DEF Next
  <2>2. InForce \subseteq Facts
    BY ForceTyped DEF InForce, TypeOK
  <2>3. InForce' \subseteq Facts
    BY <2>1, ForceTyped DEF InForce, StateTyped
  <2>4. \A x \in Exchanges : seen[x] \in SUBSET Facts
    BY DEF TypeOK
  <2>5. Watch
    BY <1>1 DEF Next
  <2>6. seen' \in [Exchanges -> SUBSET Facts]
    BY <2>2, <2>3, <2>4, <2>5 DEF Watch
  <2> QED BY <2>1, <2>6 DEF StateTyped, TypeOK
<1>2. CASE UNCHANGED vars
  BY <1>2 DEF vars, clockVars, configs, rings, TypeOK, ClockTypeOK
<1> QED BY <1>1, <1>2

\* The state starts well typed, with rings that are filled in order.
LEMMA TypeInit == ASSUME Init PROVE TypeOK /\ RingsInOrder
<1> USE BlanksTyped
<1>1. PICK s \in Starts : signIns = s[1] /\ changes = s[2]
  BY DEF Init
<1>2. signIns \in Earlier /\ changes \in Earlier
  BY <1>1, OperationsAssumptions
<1>3. ASSUME NEW r \in Earlier PROVE r \in Ring(Event) /\ r \in Ring(Change) /\ FilledInOrder(r)
  <2>1. r \in Ring([id: Old, ok: {TRUE}])
    BY DEF Earlier
  <2>2. [id: Old, ok: {TRUE}] \subseteq Event /\ [id: Old, ok: {TRUE}] \subseteq Change
    BY DEF Event, Change
  <2>3. r \in Ring(Event) /\ r \in Ring(Change)
    BY <2>1, <2>2 DEF Ring
  <2>4. FilledInOrder(r)
    <3>1. Cap \in Nat /\ r.next \in 0..Cap-1 /\ r.full \in BOOLEAN
      BY <2>1, RecorderAssumptions DEF Ring
    <3>2. \A i \in 0..Cap-1 : r.buf[i] = NoEvent <=> ~r.full /\ i >= r.next
      BY DEF Earlier
    <3> QED BY <3>1, <3>2 DEF FilledInOrder
  <2> QED BY <2>3, <2>4
<1>4. ClockTypeOK
  <2>1. real = 0 /\ offset = 0 /\ frozen = FALSE /\ frozenAt = 0
    BY DEF Init, ClockInit
  <2>2. frozen \in BOOLEAN
    BY <2>1
  <2> QED BY <2>1, <2>2, ClockAssumptions DEF ClockTypeOK
<1>5. pc \in [Requests -> Labels]
  BY DEF Init, Labels
<1>6. seen \in [Exchanges -> SUBSET Facts]
  BY DEF Init
<1> QED BY <1>2, <1>3, <1>4, <1>5, <1>6 DEF Init, TypeOK, RingsInOrder

\* The rings, requests, exchanges and history always hold what their types say.
THEOREM TypeCorrect == Spec => []TypeOK
<1>1. Init => TypeOK
  BY TypeInit
<1>2. TypeOK /\ [Next]_vars => TypeOK'
  BY TypeStep
<1> QED BY <1>1, <1>2, PTL DEF Spec

-----------------------------------------------------------------------------
\* The logs

\* Neither ring changes, no admin request of the logs is served, and exchanges
\* that are over stay as they are; none is over whose response does not fit.
Quiet ==
    /\ UNCHANGED rings
    /\ topic = "audit" => \A r \in Admins : pc'[r] = pc[r]
    /\ \A x \in Exchanges : pc[x] = "done" => pc'[x] = "done" /\ xchg'[x] = xchg[x]
    /\ \A x \in Exchanges : \/ pc'[x] = pc[x] /\ xchg'[x] = xchg[x]
                            \/ pc'[x] \in {"record", "done"} => Fits(x, xchg'[x])

\* Exchange x is logged, truthfully.
Logs(x, ok) ==
    /\ pc[x] = "record" /\ pc' = [pc EXCEPT ![x] = "done"]
    /\ signIns' = Record(signIns, [id |-> x, ok |-> ok])
    /\ Truthful(x, ok)
    /\ UNCHANGED <<changes, xchg>>

\* A step of an exchange that is not over yet
LEMMA ServesQuiet ==
    ASSUME TypeOK, NEW x \in Exchanges, NEW m, Serves(x, m), pc[x] # "done",
           m \in {"record", "done"} => Fits(x, xchg'[x])
    PROVE  Quiet
<1>1. \A r \in Admins : r \in Requests /\ r # x
  BY OperationsAssumptions DEF Requests
<1>2. \A r \in Requests : r # x => pc'[r] = pc[r]
  BY DEF Serves, TypeOK
<1>3. \A y \in Exchanges : y \in Requests
  BY DEF Requests
<1>4. pc'[x] = m
  BY <1>3 DEF Serves, TypeOK
<1> QED BY <1>1, <1>2, <1>3, <1>4 DEF Serves, Quiet

\* A response that fits is judged truthfully.
LEMMA SucceededTruthful ==
    ASSUME TypeOK, NEW x \in Exchanges, NEW ok \in BOOLEAN, ok <=> Succeeded(x, xchg[x]), Fits(x, xchg[x])
    PROVE  Truthful(x, ok)
<1>1. xchg[x].outcome \in Outcomes /\ xchg[x].location \in {None, "plain", "error="}
  BY ExchangeTyped
<1>2. x \in TokenExchanges \/ x \in AuthorizeExchanges
  BY DEF Exchanges
<1> QED BY <1>1, <1>2 DEF Truthful, Succeeded, Fits, Outcomes

\* What a step means for the logs, and that admin requests keep to their topic
LEMMA LogCases ==
    ASSUME TypeOK, AdminsOnTopic, ResponsesFit, Next
    PROVE  /\ \/ Quiet
              \/ \E x \in Exchanges, ok \in BOOLEAN : Logs(x, ok)
              \/ \E r \in Admins : topic = "audit" /\ ClearAudit(r)
              \/ \E g \in GraphWrites : RecordDirectoryChange(g)
           /\ AdminsOnTopic'
<1>n. topic' = topic
  BY DEF Next
<1>d. /\ \A r \in Admins : r \in Requests /\ r \notin Exchanges /\ r \notin GraphWrites
      /\ \A x \in Exchanges : x \in Requests /\ x \notin Admins /\ x \notin GraphWrites
      /\ \A g \in GraphWrites : g \in Requests
  BY OperationsAssumptions DEF Requests
<1>p. pc \in [Requests -> Labels]
  BY DEF TypeOK
<1>1. CASE TimePasses
  BY <1>1, <1>n DEF TimePasses, Quiet, AdminsOnTopic
<1>2. ASSUME NEW r \in Admins,
             \/ topic = "faults" /\ (ClearFaults(r) \/ \E c \in FaultConfigs : SetFaults(r, c))
             \/ topic = "ext" /\ (DeleteCustomExtension(r) \/ \E A \in Allowed : SetCustomExtension(r, A))
      PROVE  Quiet /\ AdminsOnTopic'
  <2>1. pc' = [pc EXCEPT ![r] = "done"] /\ UNCHANGED <<rings, xchg>> /\ topic # "audit"
    BY <1>2 DEF ClearFaults, SetFaults, DeleteCustomExtension, SetCustomExtension, Step
  <2>2. \A s \in Requests : pc'[s] = IF s = r THEN "done" ELSE pc[s]
    BY <2>1, <1>p, <1>d
  <2> QED BY <2>1, <2>2, <1>d, <1>n DEF Quiet, AdminsOnTopic
<1>3. ASSUME NEW r \in Admins, topic = "audit" /\ ClearAudit(r)
      PROVE  AdminsOnTopic'
  BY <1>3, <1>p, <1>d, <1>n DEF ClearAudit, Step, AdminsOnTopic
<1>4. ASSUME NEW r \in Admins,
             \/ topic = "clock" /\ (ResetClock(r) \/ \E q \in ClockRequests : SetClock(r, q))
             \/ ApplyOffset(r) \/ ApplyAdvance(r) \/ ApplyFreeze(r)
      PROVE  Quiet /\ AdminsOnTopic'
  <2>1. topic = "clock"
    BY <1>4 DEF AdminsOnTopic, ApplyOffset, ApplyAdvance, ApplyFreeze, Step
  <2>2. PICK m : pc' = [pc EXCEPT ![r] = m] /\ UNCHANGED <<rings, xchg>>
    BY <1>4 DEF ResetClock, SetClock, ApplyOffset, ApplyAdvance, ApplyFreeze, Step
  <2>3. \A s \in Requests : s # r => pc'[s] = pc[s]
    BY <2>2, <1>p, <1>d
  <2> QED BY <2>1, <2>2, <2>3, <1>d, <1>n DEF Quiet, AdminsOnTopic
<1>5. ASSUME NEW x \in Exchanges, NEW m, Serves(x, m), pc[x] # "done",
             m \in {"record", "done"} => Fits(x, xchg'[x])
      PROVE  Quiet /\ AdminsOnTopic'
  <2>1. Quiet
    BY <1>5, ServesQuiet
  <2>2. \A s \in Requests : s # x => pc'[s] = pc[s]
    BY <1>5, <1>p DEF Serves
  <2> QED BY <2>1, <2>2, <1>d, <1>n DEF AdminsOnTopic
<1>6. ASSUME NEW x \in Exchanges, Audited(x)
      PROVE  (\E ok \in BOOLEAN : Logs(x, ok)) /\ AdminsOnTopic'
  <2>1. signIns' = Record(signIns, [id |-> x, ok |-> Succeeded(x, xchg[x])])
    BY <1>6 DEF Audited
  <2>2. PICK ok \in BOOLEAN : ok = Succeeded(x, xchg[x])
    BY DEF Succeeded
  <2>3. Truthful(x, ok)
    <3>1. Fits(x, xchg[x])
      BY <1>6 DEF Audited, Step, ResponsesFit
    <3> QED BY <2>2, <3>1, SucceededTruthful
  <2>4. Logs(x, ok)
    BY <1>6, <2>1, <2>2, <2>3 DEF Audited, Step, Logs
  <2>5. \A s \in Requests : s # x => pc'[s] = pc[s]
    BY <1>6, <1>p DEF Audited, Step
  <2> QED BY <2>4, <2>5, <1>d, <1>n DEF AdminsOnTopic
<1>7. ASSUME NEW g \in GraphWrites, GraphChange(g)
      PROVE  Quiet /\ AdminsOnTopic'
  <2>1. \A s \in Requests : s # g => pc'[s] = pc[s]
    BY <1>7, <1>p DEF GraphChange, Step
  <2> QED BY <1>7, <2>1, <1>d, <1>n DEF GraphChange, Quiet, AdminsOnTopic
<1>8. ASSUME NEW g \in GraphWrites, RecordDirectoryChange(g)
      PROVE  AdminsOnTopic'
  <2>1. \A s \in Requests : s # g => pc'[s] = pc[s]
    BY <1>8, <1>p DEF RecordDirectoryChange, Step
  <2> QED BY <2>1, <1>d, <1>n DEF AdminsOnTopic
<1>9. ASSUME NEW x \in Exchanges, Work(x)
      PROVE  Quiet /\ AdminsOnTopic'
  BY <1>9, <1>5, WorkServes
<1>10. CASE AdminNext
  BY <1>10, <1>2, <1>3, <1>4 DEF AdminNext
<1>11. CASE ExchangeNext
  BY <1>11, <1>6, <1>7, <1>8, <1>9, ExchangeCases
<1> QED BY <1>1, <1>10, <1>11 DEF Next

\* Recording keeps what the log says of exchanges true.
LEMMA LoggedStep ==
    ASSUME RingInv, NEW x \in Exchanges, NEW ok \in BOOLEAN, Logs(x, ok), TypeOK'
    PROVE  FilledInOrder(signIns') /\ OutcomesLogged'
<1>t. /\ TypeOK /\ signIns \in Ring(Event) /\ FilledInOrder(signIns) /\ NoEvent \notin Event
      /\ Cap \in Nat /\ signIns.next \in 0..Cap-1
  BY OperationsAssumptions, RecorderAssumptions DEF RingInv, RingsInOrder, TypeOK, Ring
<1>0. [id |-> x, ok |-> ok] \in Event
  BY DEF Event
<1>1. PICK e \in Event : e = [id |-> x, ok |-> ok] /\ e.id = x /\ e.ok = ok
  BY <1>0
<1>2. signIns' = Record(signIns, e)
  BY <1>1 DEF Logs
<1>3. FilledInOrder(signIns')
  BY <1>1, <1>2, <1>t, RecordInOrder
<1>4. \A i \in 0..Cap-1 : signIns'.buf[i] = IF i = signIns.next THEN e ELSE signIns.buf[i]
  BY <1>1, <1>2, <1>t, RecordEffect
<1>5. \A y \in Exchanges : /\ xchg'[y] = xchg[y] /\ (pc[y] = "done" => pc'[y] = "done")
                           /\ y = x => pc'[y] = "done"
  BY <1>t DEF Logs, TypeOK, Requests
<1>6. ASSUME NEW i \in 0..Cap-1, signIns'.buf[i] # NoEvent, signIns'.buf[i].id \in Exchanges
      PROVE  pc'[signIns'.buf[i].id] = "done" /\ Truthful(signIns'.buf[i].id, signIns'.buf[i].ok)
  <2>1. CASE i = signIns.next
    <3>1. signIns'.buf[i] = e
      BY <2>1, <1>4
    <3>2. Truthful(x, ok)
      BY DEF Logs
    <3> QED BY <3>1, <3>2, <1>1, <1>5
  <2>2. CASE i # signIns.next
    <3>1. signIns'.buf[i] = signIns.buf[i]
      BY <2>2, <1>4
    <3>2. pc[signIns.buf[i].id] = "done" /\ Truthful(signIns.buf[i].id, signIns.buf[i].ok)
      BY <3>1, <1>6 DEF RingInv, OutcomesLogged
    <3> QED BY <3>1, <3>2, <1>5, <1>6
  <2> QED BY <2>1, <2>2
<1>7. \A y \in Exchanges : \A b : Truthful(y, b)' <=> Truthful(y, b)
  BY DEF Logs, Truthful
<1>8. OutcomesLogged'
  BY <1>6, <1>7 DEF OutcomesLogged
<1> QED BY <1>3, <1>8

\* Each step keeps the rings in order and what they say true.
LEMMA RingStep == ASSUME RingInv, [Next]_vars PROVE RingInv'
<1>t. TypeOK /\ TypeOK'
  BY TypeStep DEF RingInv
<1>1. CASE UNCHANGED vars
  BY <1>1, <1>t DEF vars, rings, RingInv, RingsInOrder, AdminsOnTopic, ResponsesFit, OutcomesLogged, Truthful
<1>2. CASE Next
  <2>c. /\ \/ Quiet
           \/ \E x \in Exchanges, ok \in BOOLEAN : Logs(x, ok)
           \/ \E r \in Admins : topic = "audit" /\ ClearAudit(r)
           \/ \E g \in GraphWrites : RecordDirectoryChange(g)
        /\ AdminsOnTopic'
    BY <1>2, LogCases DEF RingInv
  <2>1. CASE Quiet
    <3>1. RingsInOrder'
      BY <2>1 DEF Quiet, rings, RingInv, RingsInOrder
    <3>2. ResponsesFit'
      BY <2>1 DEF Quiet, RingInv, ResponsesFit
    <3>4. OutcomesLogged'
      <4>1. signIns' = signIns
        BY <2>1 DEF Quiet, rings
      <4>2. \A i \in 0..Cap-1 : signIns'.buf[i] # NoEvent /\ signIns'.buf[i].id \in Exchanges
                => /\ pc'[signIns'.buf[i].id] = "done"
                   /\ pc[signIns.buf[i].id] = "done" /\ Truthful(signIns.buf[i].id, signIns.buf[i].ok)
                   /\ xchg'[signIns.buf[i].id] = xchg[signIns.buf[i].id]
        BY <2>1, <4>1 DEF RingInv, OutcomesLogged, Quiet
      <4> QED BY <4>1, <4>2 DEF OutcomesLogged, Truthful
    <3> QED BY <3>1, <3>2, <3>4, <2>c, <1>t DEF RingInv
  <2>2. ASSUME NEW x \in Exchanges, NEW ok \in BOOLEAN, Logs(x, ok) PROVE RingInv'
    <3>1. FilledInOrder(signIns') /\ OutcomesLogged'
      BY <2>2, <1>t, LoggedStep
    <3>2. changes' = changes /\ FilledInOrder(changes)
      BY <2>2 DEF Logs, RingInv, RingsInOrder
    <3>3. RingsInOrder'
      BY <3>1, <3>2 DEF RingsInOrder
    <3>4. \A y \in Exchanges : xchg'[y] = xchg[y] /\ (pc'[y] = pc[y] \/ pc[y] = "record")
      BY <2>2, <1>t DEF Logs, TypeOK, Requests
    <3>5. ResponsesFit'
      BY <3>4 DEF RingInv, ResponsesFit
    <3> QED BY <3>1, <3>3, <3>5, <2>c, <1>t DEF RingInv
  <2>3. ASSUME NEW r \in Admins, topic = "audit" /\ ClearAudit(r) PROVE RingInv'
    <3>1. signIns' = NewRecorder /\ changes' = changes /\ FilledInOrder(changes)
      BY <2>3 DEF ClearAudit, Clear, RingInv, RingsInOrder
    <3>2. FilledInOrder(NewRecorder) /\ \A i \in 0..Cap-1 : NewRecorder.buf[i] = NoEvent
      BY RecorderAssumptions DEF FilledInOrder, NewRecorder
    <3>3. RingsInOrder'
      BY <3>1, <3>2 DEF RingsInOrder
    <3>4. OutcomesLogged'
      BY <3>1, <3>2 DEF OutcomesLogged
    <3>5. \A y \in Exchanges : xchg'[y] = xchg[y] /\ pc'[y] = pc[y]
      BY <2>3, <1>t, OperationsAssumptions DEF ClearAudit, Step, TypeOK, Requests
    <3>6. ResponsesFit'
      BY <3>5 DEF RingInv, ResponsesFit
    <3> QED BY <3>3, <3>4, <3>6, <2>c, <1>t DEF RingInv
  <2>4. ASSUME NEW g \in GraphWrites, RecordDirectoryChange(g) PROVE RingInv'
    <3>1. PICK e \in Change : e = [id |-> g, ok |-> TRUE]
      BY DEF Change
    <3>2. changes' = Record(changes, e) /\ UNCHANGED <<signIns, xchg>>
      BY <2>4, <3>1, RecordsAlike DEF RecordDirectoryChange
    <3>3. FilledInOrder(changes')
      BY <3>1, <3>2, <1>t, RecordInOrder, OperationsAssumptions DEF TypeOK, RingInv, RingsInOrder
    <3>4. RingsInOrder'
      BY <3>2, <3>3 DEF RingInv, RingsInOrder
    <3>5. \A x \in Exchanges : pc'[x] = pc[x]
      BY <2>4, <1>t, OperationsAssumptions DEF RecordDirectoryChange, Step, TypeOK, Requests
    <3>6. OutcomesLogged'
      BY <3>2, <3>5 DEF RingInv, OutcomesLogged, Truthful
    <3>7. ResponsesFit'
      BY <3>2, <3>5 DEF RingInv, ResponsesFit
    <3> QED BY <3>4, <3>6, <3>7, <2>c, <1>t DEF RingInv
  <2> QED BY <2>c, <2>1, <2>2, <2>3, <2>4
<1> QED BY <1>1, <1>2

\* The rings start in order, without a word about the exchanges to come.
LEMMA RingInit == ASSUME Init PROVE RingInv
<1>1. TypeOK /\ RingsInOrder
  BY TypeInit
<1>2. AdminsOnTopic
  BY DEF Init, AdminsOnTopic, Requests
<1>3. PICK s \in Starts : signIns = s[1]
  BY DEF Init
<1>4. signIns \in Ring([id: Old, ok: {TRUE}])
  BY <1>3, OperationsAssumptions DEF Earlier
<1>5. \A i \in 0..Cap-1 : signIns.buf[i] # NoEvent => signIns.buf[i].id \in Old
  BY <1>4 DEF Ring
<1>6. OutcomesLogged
  BY <1>5, OperationsAssumptions DEF OutcomesLogged, Requests
<1>7. ResponsesFit
  BY DEF Init, ResponsesFit, Requests
<1> QED BY <1>1, <1>2, <1>6, <1>7 DEF RingInv

\* RingInv holds throughout.
LEMMA RingInvariant == Spec => []RingInv
<1>1. Init => RingInv
  BY RingInit
<1>2. RingInv /\ [Next]_vars => RingInv'
  BY RingStep
<1> QED BY <1>1, <1>2, PTL DEF Spec

\* The sign-in log agrees with what clients got, as far as the middleware can
\* tell: a refusal, a fault or an error in a redirect is never called a success,
\* nor a granted request a failure (audited), however many entries the ring has
\* overwritten and whatever is cleared in between.
THEOREM LogIsTruthfulHolds == Spec => []LogIsTruthful
<1>1. ASSUME RingInv PROVE LogIsTruthful
  <2>t. signIns \in Ring(Event) /\ FilledInOrder(signIns) /\ Held(signIns) \in 0..Cap /\ Cap \in Nat
    BY <1>1, HeldValue, RecorderAssumptions DEF RingInv, TypeOK, RingsInOrder
  <2>1. PICK L : L = List(signIns, 0)
    OBVIOUS
  <2>2. /\ L \in Seq(Event) /\ Len(L) = Held(signIns)
        /\ \A i \in 1..Held(signIns) : L[i] = signIns.buf[Index(signIns, i - 1)] /\ L[i] # NoEvent
    BY <2>t, <2>1, ListValue
  <2>3. DOMAIN L = 1..Held(signIns)
    BY <2>2, LenProperties
  <2>4. ASSUME NEW i \in 1..Held(signIns), L[i].id \in Exchanges
        PROVE  Truthful(L[i].id, L[i].ok)
    <3>1. PICK k \in 0..Cap-1 : k = i - 1
      BY <2>t
    <3>2. PICK a \in 0..Cap-1 : a = Index(signIns, k)
      BY <2>t, IndexValue
    <3>3. L[i] = signIns.buf[a]
      BY <2>2, <3>1, <3>2
    <3> QED BY <3>3, <2>2, <2>4, <1>1 DEF RingInv, OutcomesLogged
  <2> QED BY <2>1, <2>3, <2>4 DEF LogIsTruthful
<1> QED BY <1>1, RingInvariant, PTL

-----------------------------------------------------------------------------
\* The rings implement logs

\* A ring starts as a log of at most Cap events.
LEMMA ListBounded ==
    ASSUME NEW S, NEW r \in Ring(S), FilledInOrder(r)
    PROVE  List(r, 0) \in UNION {[1..n -> S] : n \in 0..Cap}
<1>1. Held(r) \in 0..Cap /\ List(r, 0) \in Seq(S) /\ Len(List(r, 0)) = Held(r)
  BY HeldValue, ListValue
<1>2. List(r, 0) \in [1..Held(r) -> S]
  BY <1>1, LenProperties
<1> QED BY <1>1, <1>2

\* A ring that is cleared lists nothing.
LEMMA ListCleared == List(NewRecorder, 0) = <<>>
<1>1. Held(NewRecorder) = 0
  BY DEF Held, NewRecorder
<1>2. List(NewRecorder, 0) = [i \in 1..0 |-> NewRecorder.buf[Index(NewRecorder, i - 1)]]
  BY <1>1 DEF List
<1> QED BY <1>2

\* Every step appends to the sign-in log, clears it on request, or leaves it alone.
LEMMA SignInsStep ==
    ASSUME RingInv, [Next]_vars
    PROVE  [SignIns!Next]_(SignIns!vars)
<1>t. /\ TypeOK /\ signIns \in Ring(Event) /\ FilledInOrder(signIns) /\ NoEvent \notin Event
      /\ pc \in [Requests -> Labels]
      /\ \A r \in Admins : r \in Requests /\ r \notin Exchanges /\ r \notin GraphWrites
  BY OperationsAssumptions DEF RingInv, RingsInOrder, TypeOK, Requests
<1>1. CASE UNCHANGED vars
  BY <1>1 DEF vars, rings, SignIns!vars
<1>2. CASE Next
  <2>n. topic' = topic
    BY <1>2 DEF Next
  <2>c. \/ Quiet
        \/ \E x \in Exchanges, ok \in BOOLEAN : Logs(x, ok)
        \/ \E r \in Admins : topic = "audit" /\ ClearAudit(r)
        \/ \E g \in GraphWrites : RecordDirectoryChange(g)
    BY <1>2, LogCases DEF RingInv
  <2>1. CASE Quiet
    <3>1. signIns' = signIns
      BY <2>1 DEF Quiet, rings
    <3>2. {r \in Admins : topic' = "audit" /\ pc'[r] = "done"} = {r \in Admins : topic = "audit" /\ pc[r] = "done"}
      BY <2>1, <2>n DEF Quiet
    <3> QED BY <3>1, <3>2 DEF SignIns!vars
  <2>2. ASSUME NEW x \in Exchanges, NEW ok \in BOOLEAN, Logs(x, ok)
        PROVE  [SignIns!Next]_(SignIns!vars)
    <3>1. PICK e \in Event : e = [id |-> x, ok |-> ok]
      BY DEF Event
    <3>2. signIns' = Record(signIns, e)
      BY <2>2, <3>1 DEF Logs
    <3>3. \A r \in Admins : pc'[r] = pc[r]
      BY <2>2, <1>t DEF Logs
    <3>4. {r \in Admins : topic' = "audit" /\ pc'[r] = "done"} = {r \in Admins : topic = "audit" /\ pc[r] = "done"}
      BY <3>3, <2>n
    <3>5. List(signIns', 0) = SignIns!Newest(<<e>> \o List(signIns, 0), Cap)
      BY ZenonT(60), <3>1, <3>2, <1>t, ListAfterRecord DEF SignIns!Newest
    <3>6. SignIns!Append1(e)
      BY <3>4, <3>5 DEF SignIns!Append1
    <3> QED BY <3>1, <3>6 DEF SignIns!Next
  <2>3. ASSUME NEW r \in Admins, topic = "audit" /\ ClearAudit(r)
        PROVE  [SignIns!Next]_(SignIns!vars)
    <3>1. pc[r] = "new" /\ pc'[r] = "done" /\ signIns' = NewRecorder
      BY <2>3, <1>t DEF ClearAudit, Clear, Step
    <3>2. List(signIns', 0) = <<>>
      BY <3>1, ListCleared
    <3>3. {s \in Admins : topic' = "audit" /\ pc'[s] = "done"} # {s \in Admins : topic = "audit" /\ pc[s] = "done"}
      BY <3>1, <2>3, <2>n
    <3>4. SignIns!Clear
      BY <3>2, <3>3 DEF SignIns!Clear
    <3> QED BY <3>4 DEF SignIns!Next
  <2>4. ASSUME NEW g \in GraphWrites, RecordDirectoryChange(g)
        PROVE  [SignIns!Next]_(SignIns!vars)
    <3>1. signIns' = signIns
      BY <2>4 DEF RecordDirectoryChange
    <3>2. \A r \in Admins : pc'[r] = pc[r]
      BY <2>4, <1>t DEF RecordDirectoryChange, Step
    <3>3. {r \in Admins : topic' = "audit" /\ pc'[r] = "done"} = {r \in Admins : topic = "audit" /\ pc[r] = "done"}
      BY <3>2, <2>n
    <3> QED BY <3>1, <3>3 DEF SignIns!vars
  <2> QED BY <2>c, <2>1, <2>2, <2>3, <2>4
<1> QED BY <1>1, <1>2

\* Every step appends to the log of directory changes or leaves it alone: nothing
\* clears it.
LEMMA ChangesStep ==
    ASSUME RingInv, [Next]_vars
    PROVE  [Changes!Next]_(Changes!vars)
<1>t. /\ TypeOK /\ changes \in Ring(Change) /\ FilledInOrder(changes) /\ NoEvent \notin Change
  BY OperationsAssumptions DEF RingInv, RingsInOrder, TypeOK
<1>1. CASE changes' = changes
  BY <1>1 DEF Changes!vars
<1>2. ASSUME NEW g \in GraphWrites, RecordDirectoryChange(g)
      PROVE  [Changes!Next]_(Changes!vars)
  <2>1. PICK e \in Change : e = [id |-> g, ok |-> TRUE]
    BY DEF Change
  <2>2. changes' = Record(changes, e)
    BY <1>2, <2>1, RecordsAlike DEF RecordDirectoryChange
  <2>3. Record(changes, e) \in Ring(Change)
    BY <1>t, RecordEffect
  <2>4. ListChanges(changes', 0) = List(changes', 0) /\ ListChanges(changes, 0) = List(changes, 0)
    BY <2>2, <2>3, <1>t, ListsAlike
  <2>5. List(changes', 0) = Changes!Newest(<<e>> \o List(changes, 0), Cap)
    BY <2>2, <1>t, ListAfterRecord DEF Changes!Newest
  <2>6. Changes!Append1(e)
    BY <2>4, <2>5 DEF Changes!Append1
  <2> QED BY <2>6 DEF Changes!Next
<1>3. CASE UNCHANGED vars
  BY <1>3, <1>1 DEF vars, rings
<1>4. CASE Next
  <2>c. \/ Quiet
        \/ \E x \in Exchanges, ok \in BOOLEAN : Logs(x, ok)
        \/ \E r \in Admins : topic = "audit" /\ ClearAudit(r)
        \/ \E g \in GraphWrites : RecordDirectoryChange(g)
    BY <1>4, LogCases DEF RingInv
  <2>1. changes' = changes \/ \E g \in GraphWrites : RecordDirectoryChange(g)
    BY <2>c DEF Quiet, rings, Logs, ClearAudit
  <2> QED BY <2>1, <1>1, <1>2
<1> QED BY <1>3, <1>4

\* Both listings honour their limit.
LEMMA LimitsHonoured == ASSUME RingInv PROVE LimitGivesNewest
<1>t. /\ signIns \in Ring(Event) /\ FilledInOrder(signIns) /\ NoEvent \notin Event
      /\ changes \in Ring(Change) /\ FilledInOrder(changes) /\ NoEvent \notin Change
      /\ Cap \in Nat
  BY OperationsAssumptions, RecorderAssumptions DEF RingInv, RingsInOrder, TypeOK
<1>1. ASSUME NEW n \in 0..Cap + 1
      PROVE  /\ n = 0 \/ List(signIns, n) = SignIns!Newest(List(signIns, 0), n)
             /\ ListChanges(changes, n) = List(changes, n) /\ ListChanges(changes, 0) = List(changes, 0)
             /\ n = 0 \/ List(changes, n) = SignIns!Newest(List(changes, 0), n)
             /\ \A i \in DOMAIN List(signIns, n) : List(signIns, n)[i] # NoEvent
  <2>n. n \in Nat
    BY <1>t
  <2>1. n = 0 \/ List(signIns, n) = SignIns!Newest(List(signIns, 0), n)
    BY <2>n, <1>t, ListCut DEF SignIns!Newest
  <2>2. n = 0 \/ List(changes, n) = SignIns!Newest(List(changes, 0), n)
    BY <2>n, <1>t, ListCut DEF SignIns!Newest
  <2>3. ListChanges(changes, n) = List(changes, n) /\ ListChanges(changes, 0) = List(changes, 0)
    BY <2>n, <1>t, ListsAlike
  <2>4. List(signIns, n) \in Seq(Event)
    BY <2>n, <1>t, ListValue
  <2>5. \A i \in DOMAIN List(signIns, n) : List(signIns, n)[i] \in Event
    BY <2>4, LenProperties
  <2> QED BY <2>1, <2>2, <2>3, <2>5, <1>t
<1> QED BY <1>1 DEF LimitGivesNewest

\* Both rings implement a log of the most recent Cap events, newest first, for
\* every capacity, before and after they wrap around and after they are cleared,
\* and a limit gives the newest entries (Recorder and DirectoryRecorder).
THEOREM RingsImplementLogsHolds == Spec => RingsImplementLogs
<1>1. Init => SignIns!Init /\ Changes!Init
  <2> SUFFICES ASSUME Init PROVE SignIns!Init /\ Changes!Init
    OBVIOUS
  <2>1. /\ signIns \in Ring(Event) /\ FilledInOrder(signIns)
        /\ changes \in Ring(Change) /\ FilledInOrder(changes)
    BY TypeInit DEF TypeOK, RingsInOrder
  <2>2. List(signIns, 0) \in UNION {[1..n -> Event] : n \in 0..Cap}
    BY <2>1, ListBounded
  <2>3. List(changes, 0) \in UNION {[1..n -> Change] : n \in 0..Cap}
    BY <2>1, ListBounded
  <2>4. ListChanges(changes, 0) = List(changes, 0)
    BY <2>1, ListsAlike
  <2>5. {r \in Admins : topic = "audit" /\ pc[r] = "done"} = {}
    BY DEF Init, Requests
  <2> QED BY <2>2, <2>3, <2>4, <2>5 DEF SignIns!Init, Changes!Init
<1>2. RingInv /\ [Next]_vars => [SignIns!Next]_(SignIns!vars) /\ [Changes!Next]_(Changes!vars)
  BY SignInsStep, ChangesStep
<1>3. RingInv => LimitGivesNewest
  BY LimitsHonoured
<1> QED BY <1>1, <1>2, <1>3, RingInvariant, PTL DEF Spec, RingsImplementLogs, SignIns!Spec, Changes!Spec

-----------------------------------------------------------------------------
\* What was in force while an exchange was served

\* Claims that an extension added to a token of x
ClaimsFor(x, C) ==
    /\ C \cap Protected = {}
    /\ C # {} => \E A \in Allowed : <<"allow", A>> \in seen[x] /\ (A = {} \/ C \subseteq A)

\* ForceInv for one exchange
ForceFor(x) ==
    /\ pc[x] = "new" => xchg[x] = NoExchange
    /\ pc[x] \in {"sleep, fail", "fail"} => <<"armed", TRUE>> \in seen[x]
    /\ x \in TokenExchanges /\ pc[x] \in Working => <<"certain", FALSE>> \in seen[x]
    /\ pc[x] \in {"call, access", "call, id"} => xchg[x].ext # {}
    /\ \A A \in xchg[x].ext : <<"allow", A>> \in seen[x]
    /\ xchg[x].outcome = "fault" => <<"armed", TRUE>> \in seen[x]
    /\ x \in TokenExchanges /\ xchg[x].outcome = "ok" => <<"certain", FALSE>> \in seen[x]
    /\ ClaimsFor(x, xchg[x].access)
    /\ ClaimsFor(x, xchg[x].id)

\* The history only grows while an exchange is served, by what is in force.
LEMMA SeenGrows ==
    ASSUME TypeOK, Watch, NEW x \in Exchanges, pc'[x] # "new"
    PROVE  /\ pc[x] = "new" => seen'[x] = InForce
           /\ pc[x] # "new" => seen[x] \subseteq seen'[x]
           /\ pc[x] \notin {"new", "record", "done"} => InForce' \subseteq seen'[x]
<1>1. CASE pc[x] = "new"
  BY <1>1 DEF Watch
<1>2. CASE pc[x] \in {"record", "done"}
  BY <1>2 DEF Watch
<1>3. CASE pc[x] \notin {"new", "record", "done"}
  BY <1>3 DEF Watch
<1> QED BY <1>1, <1>2, <1>3

\* Claims stay covered as the history grows.
LEMMA ClaimsKept ==
    ASSUME NEW x \in Exchanges, NEW C, ClaimsFor(x, C), seen[x] \subseteq seen'[x]
    PROVE  /\ C \cap Protected = {}
           /\ C # {} => \E A \in Allowed : <<"allow", A>> \in seen'[x] /\ (A = {} \/ C \subseteq A)
BY DEF ClaimsFor

\* An exchange starts without claims and outcome.
LEMMA NoExchangeFields ==
    /\ NoExchange.ext = {} /\ NoExchange.outcome = "none"
    /\ NoExchange.access = {} /\ NoExchange.id = {}
BY DEF NoExchange, None

\* An exchange that does not move is not affected.
LEMMA BystanderSafe ==
    ASSUME TypeOK, Watch, NEW x \in Exchanges, ForceFor(x), pc'[x] = pc[x], xchg'[x] = xchg[x]
    PROVE  ForceFor(x)'
<1>1. CASE pc[x] = "new"
  <2>1. xchg'[x] = NoExchange
    BY <1>1 DEF ForceFor
  <2>2. xchg'[x].ext = {} /\ xchg'[x].outcome = "none" /\ xchg'[x].access = {} /\ xchg'[x].id = {}
    BY <2>1, NoExchangeFields
  <2> QED BY <1>1, <2>1, <2>2 DEF ForceFor, ClaimsFor, Working
<1>2. CASE pc[x] # "new"
  <2>1. seen[x] \subseteq seen'[x]
    BY <1>2, SeenGrows
  <2>2. ClaimsFor(x, xchg[x].access)' /\ ClaimsFor(x, xchg[x].id)'
    BY <2>1, ClaimsKept DEF ForceFor, ClaimsFor
  <2> QED BY <2>1, <2>2 DEF ForceFor
<1> QED BY <1>1, <1>2

\* A step of x that leaves its claims alone and goes on to m
LEMMA MoverSafe ==
    ASSUME TypeOK, Watch, NEW x \in Exchanges, NEW m, ForceFor(x), pc'[x] = m,
           pc[x] # "new", m # "new",
           m \in {"sleep, fail", "fail"} => pc[x] \in {"sleep, fail", "fail"},
           m \in Working => pc[x] \in Working,
           m \in {"call, access", "call, id"} => xchg'[x].ext # {},
           \A A \in xchg'[x].ext : <<"allow", A>> \in seen'[x],
           xchg'[x].outcome = "fault" => xchg[x].outcome = "fault" \/ pc[x] = "fail",
           xchg'[x].outcome = "ok" => xchg[x].outcome = "ok" \/ pc[x] = "issue",
           ClaimsFor(x, xchg[x].access)', ClaimsFor(x, xchg[x].id)'
    PROVE  ForceFor(x)'
<1>1. seen[x] \subseteq seen'[x]
  BY SeenGrows
<1> QED BY <1>1 DEF ForceFor, Working

\* The steps of an exchange keep ForceFor.
LEMMA WorkSafe ==
    ASSUME TypeOK, Watch, NEW x \in Exchanges, ForceFor(x), Work(x)
    PROVE  ForceFor(x)'
<1>x. x \in Exchanges /\ x \in Requests /\ pc \in [Requests -> Labels]
  BY DEF Requests, TypeOK
<1>o. "fault" \in Outcomes /\ "refused" \in Outcomes /\ "ok" \in Outcomes
  BY DEF Outcomes
<1>p. ASSUME NEW m, Serves(x, m) PROVE pc'[x] = m
  BY <1>p, <1>x DEF Serves
<1>k. ASSUME pc'[x] # "new", pc[x] # "new", xchg'[x].access = xchg[x].access, xchg'[x].id = xchg[x].id
      PROVE  ClaimsFor(x, xchg[x].access)' /\ ClaimsFor(x, xchg[x].id)'
  <2>1. seen[x] \subseteq seen'[x]
    BY <1>k, SeenGrows
  <2> QED BY <1>k, <2>1, ClaimsKept DEF ForceFor, ClaimsFor
<1>1. ASSUME x \in TokenExchanges, HandleToken(x) PROVE ForceFor(x)'
  <2>1. PICK m \in {"sleep, fail", "fail", "sleep, grant", "grant"} :
            /\ Serves(x, m) /\ pc[x] = "new" /\ xchg' = xchg
            /\ m \in {"sleep, fail", "fail"} => faults.error
            /\ m \in {"sleep, grant", "grant"} => ~(faults.error /\ faults.p # "between")
    BY <1>1, HandleTokenEffect
  <2>2. pc'[x] = m
    BY <2>1, <1>p
  <2>3. seen'[x] = InForce
    BY <2>1, <2>2, SeenGrows
  <2>4. faults.error \in BOOLEAN
    BY DEF TypeOK, FaultConfig
  <2>5. m \in {"sleep, fail", "fail"} => <<"armed", TRUE>> \in seen'[x]
    <3>1. faults.error => faults.error = TRUE
      BY <2>4
    <3> QED BY <2>1, <2>3, <3>1 DEF InForce
  <2>6. m \in {"sleep, grant", "grant"} => <<"certain", FALSE>> \in seen'[x]
    <3>1. ~(faults.error /\ faults.p # "between") => (faults.error /\ faults.p # "between") = FALSE
      OBVIOUS
    <3> QED BY <2>1, <2>3, <3>1 DEF InForce
  <2>7. xchg'[x] = NoExchange
    BY <2>1 DEF ForceFor
  <2>8. xchg'[x].ext = {} /\ xchg'[x].outcome = "none" /\ xchg'[x].access = {} /\ xchg'[x].id = {}
    BY <2>7, NoExchangeFields
  <2> QED BY <2>1, <2>2, <2>5, <2>6, <2>8 DEF ForceFor, ClaimsFor, Working
<1>2. CASE Sleep(x)
  <2>1. /\ xchg' = xchg
        /\ \/ pc[x] = "sleep, fail" /\ pc'[x] = "fail"
           \/ pc[x] = "sleep, grant" /\ pc'[x] = "grant"
    BY <1>2, <1>x DEF Sleep, Step
  <2>2. \A A \in xchg'[x].ext : <<"allow", A>> \in seen'[x]
    BY <2>1, SeenGrows DEF ForceFor
  <2> QED BY <2>1, <2>2, <1>k, MoverSafe DEF Working
<1>3. ASSUME NEW l, NEW o \in Outcomes, NEW u \in {None, "plain", "error="}, Respond(x, l, o, u),
             l # "new", o = "fault" => l = "fail", o = "ok" => l = "issue"
      PROVE  ForceFor(x)'
  <2>1. /\ pc[x] = l /\ Serves(x, "record") /\ xchg'[x].outcome = o /\ xchg'[x].ext = {}
        /\ xchg'[x].access = xchg[x].access /\ xchg'[x].id = xchg[x].id
    BY <1>3, <1>x, RespondEffect
  <2>2. pc'[x] = "record"
    BY <2>1, <1>p
  <2>3. ClaimsFor(x, xchg[x].access)' /\ ClaimsFor(x, xchg[x].id)'
    BY <2>1, <2>2, <1>3, <1>k
  <2> QED BY <2>1, <2>2, <2>3, <1>3, MoverSafe DEF Working
<1>4. CASE Grant(x)
  <2>1. CASE Answer(x, "grant", "refused")
    BY <2>1, <1>3, <1>o DEF Answer
  <2>2. CASE Step(x, "grant", "access") /\ UNCHANGED <<clockVars, configs, rings, body, xchg>>
    <3>1. pc[x] = "grant" /\ pc'[x] = "access" /\ xchg' = xchg
      BY <2>2, <1>x DEF Step
    <3>2. \A A \in xchg'[x].ext : <<"allow", A>> \in seen'[x]
      BY <3>1, SeenGrows DEF ForceFor
    <3> QED BY <3>1, <3>2, <1>k, MoverSafe DEF Working
  <2> QED BY <1>4, <2>1, <2>2 DEF Grant
<1>5. ASSUME NEW k \in Kinds, Enrich(x, k[1], k[2]) PROVE ForceFor(x)'
  <2>k. \/ k[1] = "access" /\ k[2] = "id" /\ Calling(k[1]) = "call, access"
        \/ k[1] = "id" /\ k[2] = "issue" /\ Calling(k[1]) = "call, id"
    BY KindsValue DEF Calling
  <2>e. /\ pc[x] = k[1]
        /\ \/ Serves(x, k[2]) /\ xchg' = xchg
           \/ /\ Serves(x, Calling(k[1])) /\ ext # {} /\ xchg'[x].ext = ext
              /\ xchg'[x].access = xchg[x].access /\ xchg'[x].id = xchg[x].id
              /\ xchg'[x].outcome = xchg[x].outcome
    BY <1>5, EnrichEffect
  <2>1. CASE Serves(x, k[2]) /\ xchg' = xchg
    <3>1. pc'[x] = k[2]
      BY <2>1, <1>p
    <3>2. \A A \in xchg'[x].ext : <<"allow", A>> \in seen'[x]
      BY <2>k, <2>e, <2>1, <3>1, SeenGrows DEF ForceFor
    <3>3. ClaimsFor(x, xchg[x].access)' /\ ClaimsFor(x, xchg[x].id)'
      BY <2>k, <2>e, <2>1, <3>1, <1>k
    <3> QED BY <2>k, <2>e, <2>1, <3>1, <3>2, <3>3, MoverSafe DEF Working
  <2>2. CASE /\ Serves(x, Calling(k[1])) /\ ext # {} /\ xchg'[x].ext = ext
             /\ xchg'[x].access = xchg[x].access /\ xchg'[x].id = xchg[x].id
             /\ xchg'[x].outcome = xchg[x].outcome
    <3>1. pc'[x] = Calling(k[1])
      BY <2>2, <1>p
    <3>2. InForce' \subseteq seen'[x] /\ ext' = ext
      BY <2>k, <2>e, <2>2, <3>1, SeenGrows DEF Serves, configs
    <3>3. \A A \in xchg'[x].ext : <<"allow", A>> \in seen'[x]
      BY <2>2, <3>2 DEF InForce
    <3>4. ClaimsFor(x, xchg[x].access)' /\ ClaimsFor(x, xchg[x].id)'
      BY <2>k, <2>e, <2>2, <3>1, <1>k
    <3> QED BY <2>k, <2>e, <2>2, <3>1, <3>3, <3>4, MoverSafe DEF Working
  <2> QED BY <2>e, <2>1, <2>2
<1>6. ASSUME NEW k \in Kinds, InvokeFails(x, k[1], k[2]) PROVE ForceFor(x)'
  <2>k. \/ k[1] = "access" /\ k[2] = "id" /\ Calling(k[1]) = "call, access"
        \/ k[1] = "id" /\ k[2] = "issue" /\ Calling(k[1]) = "call, id"
    BY KindsValue DEF Calling
  <2>1. /\ pc[x] = Calling(k[1]) /\ Serves(x, k[2])
        /\ xchg'[x].ext = {} /\ xchg'[x].outcome = xchg[x].outcome
        /\ xchg'[x].access = xchg[x].access /\ xchg'[x].id = xchg[x].id
    BY <1>6, InvokeFailsEffect
  <2>2. pc'[x] = k[2]
    BY <2>1, <1>p
  <2>3. ClaimsFor(x, xchg[x].access)' /\ ClaimsFor(x, xchg[x].id)'
    BY <2>k, <2>1, <2>2, <1>k
  <2> QED BY <2>k, <2>1, <2>2, <2>3, MoverSafe DEF Working
<1>7. ASSUME NEW k \in Kinds, NEW A \in Answers, InvokeAnswered(x, k[1], k[2], A) PROVE ForceFor(x)'
  <2>k. \/ k[1] = "access" /\ k[2] = "id" /\ Calling(k[1]) = "call, access"
        \/ k[1] = "id" /\ k[2] = "issue" /\ Calling(k[1]) = "call, id"
    BY KindsValue DEF Calling
  <2> DEFINE C == Merge(UNION xchg[x].ext, A)
  <2>1. /\ pc[x] = Calling(k[1]) /\ Serves(x, k[2])
        /\ xchg'[x].ext = {} /\ xchg'[x].outcome = xchg[x].outcome
        /\ xchg'[x].access \in {xchg[x].access, C}
        /\ xchg'[x].id \in {xchg[x].id, C}
    BY <1>7, InvokeAnsweredEffect
  <2>2. pc'[x] = k[2]
    BY <2>1, <1>p
  <2>3. seen[x] \subseteq seen'[x]
    BY <2>k, <2>1, <2>2, SeenGrows
  <2>4. PICK L \in Allowed : xchg[x].ext = {L}
    <3>1. xchg[x].ext # {}
      BY <2>k, <2>1 DEF ForceFor
    <3> QED BY <3>1, <1>x, ExchangeTyped DEF Optional
  <2>5. <<"allow", L>> \in seen'[x]
    BY <2>3, <2>4 DEF ForceFor
  <2>6. UNION xchg[x].ext = L
    BY <2>4
  <2>7. C \cap Protected = {} /\ (L = {} \/ C \subseteq L)
    BY <2>6 DEF Merge
  <2> HIDE DEF C
  <2>8. ClaimsFor(x, xchg[x].access)'
    <3>1. CASE xchg'[x].access = C
      BY <3>1, <2>5, <2>7 DEF ClaimsFor
    <3>2. CASE xchg'[x].access = xchg[x].access
      BY <3>2, <2>3, ClaimsKept DEF ForceFor, ClaimsFor
    <3> QED BY <2>1, <3>1, <3>2
  <2>9. ClaimsFor(x, xchg[x].id)'
    <3>1. CASE xchg'[x].id = C
      BY <3>1, <2>5, <2>7 DEF ClaimsFor
    <3>2. CASE xchg'[x].id = xchg[x].id
      BY <3>2, <2>3, ClaimsKept DEF ForceFor, ClaimsFor
    <3> QED BY <2>1, <3>1, <3>2
  <2> QED BY <2>k, <2>1, <2>2, <2>8, <2>9, MoverSafe DEF Working
<1>8. CASE InjectedError(x)
  BY <1>8, <1>3, <1>o DEF InjectedError, Answer
<1>9. CASE Issue(x)
  BY <1>9, <1>3, <1>o DEF Issue, Answer
<1>10. CASE DeliverAuthorizeResult(x)
  <2>1. PICK o \in {"refused", "ok"}, u \in {None, "plain", "error="} : Respond(x, "issue", o, u)
    BY <1>10, DeliverEffect
  <2>2. o \in Outcomes
    BY DEF Outcomes
  <2> QED BY <2>1, <2>2, <1>3
<1>11. ASSUME x \in AuthorizeExchanges,
              HandleAuthorize(x) \/ HandleSignInSubmit(x) \/ HandleConsentDecision(x)
       PROVE  ForceFor(x)'
  <2>1. x \notin TokenExchanges /\ pc[x] = "new"
    BY <1>11, OperationsAssumptions, AuthorizeEffect
  <2>2. xchg[x].ext = {} /\ xchg[x].outcome = "none" /\ xchg[x].access = {} /\ xchg[x].id = {}
    BY <2>1, NoExchangeFields DEF ForceFor
  <2>3. /\ pc'[x] \in {"issue", "id", "record"}
        /\ xchg'[x].ext = {} /\ xchg'[x].outcome # "fault" /\ xchg'[x].access = {} /\ xchg'[x].id = {}
    <3>1. CASE xchg' = xchg /\ (Serves(x, "issue") \/ Serves(x, "id"))
      BY <3>1, <2>2, <1>p
    <3>2. CASE /\ Serves(x, "record")
               /\ xchg'[x].outcome \notin {"fault", "ok"} /\ xchg'[x].ext = {}
               /\ xchg'[x].access = xchg[x].access /\ xchg'[x].id = xchg[x].id
      BY <3>2, <2>2, <1>p
    <3> QED BY <1>11, <3>1, <3>2, AuthorizeEffect
  <2> QED BY <2>1, <2>3 DEF ForceFor, ClaimsFor
<1> QED BY <1>1, <1>2, <1>4, <1>5, <1>6, <1>7, <1>8, <1>9, <1>10, <1>11 DEF Work

\* Each step keeps ForceFor of every exchange, whichever request it serves.
LEMMA ForceStep ==
    ASSUME TypeOK, [Next]_vars, NEW x \in Exchanges, ForceFor(x)
    PROVE  ForceFor(x)'
<1>x. x \in Exchanges /\ x \in Requests /\ x \notin Admins /\ x \notin GraphWrites
  BY OperationsAssumptions DEF Requests
<1>p. pc \in [Requests -> Labels]
  BY DEF TypeOK
<1>1. CASE UNCHANGED vars
  BY <1>1 DEF vars, ForceFor, ClaimsFor
<1>2. CASE Next
  <2>w. Watch
    BY <1>2 DEF Next
  <2>b. ASSUME pc'[x] = pc[x], xchg'[x] = xchg[x] PROVE ForceFor(x)'
    BY <2>b, <2>w, BystanderSafe
  <2>1. CASE TimePasses
    BY <2>1, <2>b DEF TimePasses
  <2>2. CASE AdminNext
    <3>1. PICK r \in Admins, m \in {"done", "offset", "advance", "freeze"} : pc' = [pc EXCEPT ![r] = m] /\ xchg' = xchg
      BY <2>2 DEF AdminNext, ClearFaults, SetFaults, DeleteCustomExtension, SetCustomExtension, ClearAudit,
                  ResetClock, SetClock, ApplyOffset, ApplyAdvance, ApplyFreeze, Step
    <3>2. pc'[x] = pc[x]
      BY <3>1, <1>x, <1>p
    <3> QED BY <3>1, <3>2, <2>b
  <2>3. CASE ExchangeNext
    <3>s. ASSUME NEW y \in Exchanges, NEW m, Serves(y, m), y # x PROVE ForceFor(x)'
      <4>1. pc'[x] = pc[x] /\ xchg'[x] = xchg[x]
        BY <3>s, <1>x, <1>p DEF Serves
      <4> QED BY <4>1, <2>b
    <3>1. ASSUME NEW y \in Exchanges, Work(y) PROVE ForceFor(x)'
      <4>1. CASE y = x
        BY <3>1, <4>1, <2>w, WorkSafe
      <4>2. CASE y # x
        BY <3>1, <4>2, <3>s, WorkServes
      <4> QED BY <4>1, <4>2
    <3>3. ASSUME NEW y \in Exchanges, Audited(y) PROVE ForceFor(x)'
      <4>1. pc[y] = "record" /\ pc' = [pc EXCEPT ![y] = "done"] /\ xchg' = xchg
        BY <3>3 DEF Audited, Step
      <4>2. CASE y # x
        BY <4>1, <4>2, <1>x, <1>p, <2>b
      <4>3. CASE y = x
        <5>1. pc[x] = "record" /\ pc'[x] = "done" /\ xchg'[x] = xchg[x]
          BY <4>1, <4>3, <1>x, <1>p
        <5>2. seen[x] \subseteq seen'[x]
          BY <5>1, <2>w, SeenGrows
        <5>3. ClaimsFor(x, xchg[x].access)' /\ ClaimsFor(x, xchg[x].id)'
          BY <5>1, <5>2, ClaimsKept DEF ForceFor, ClaimsFor
        <5>4. \A A \in xchg'[x].ext : <<"allow", A>> \in seen'[x]
          BY <5>1, <5>2 DEF ForceFor
        <5> QED BY <5>1, <5>3, <5>4, <2>w, MoverSafe DEF Working
      <4> QED BY <4>2, <4>3
    <3>4. ASSUME NEW g \in GraphWrites, GraphChange(g) \/ RecordDirectoryChange(g) PROVE ForceFor(x)'
      <4>1. PICK m : pc' = [pc EXCEPT ![g] = m] /\ xchg' = xchg
        BY <3>4 DEF GraphChange, RecordDirectoryChange, Step
      <4>2. pc'[x] = pc[x]
        BY <4>1, <1>x, <1>p
      <4> QED BY <4>1, <4>2, <2>b
    <3> QED BY <2>3, <3>1, <3>3, <3>4, ExchangeCases
  <2> QED BY <1>2, <2>1, <2>2, <2>3 DEF Next
<1> QED BY <1>1, <1>2

\* ForceFor of every exchange holds throughout.
LEMMA ForceInvariant == Spec => [](\A x \in Exchanges : ForceFor(x))
<1>1. Init => \A x \in Exchanges : ForceFor(x)
  <2> SUFFICES ASSUME Init, NEW x \in Exchanges PROVE ForceFor(x)
    OBVIOUS
  <2>1. pc[x] = "new" /\ xchg[x] = NoExchange
    BY DEF Init, Requests
  <2>2. xchg[x].ext = {} /\ xchg[x].outcome = "none" /\ xchg[x].access = {} /\ xchg[x].id = {}
    BY <2>1, NoExchangeFields
  <2> QED BY <2>1, <2>2 DEF ForceFor, ClaimsFor, Working
<1>2. TypeOK /\ (\A x \in Exchanges : ForceFor(x)) /\ [Next]_vars
          => (\A x \in Exchanges : ForceFor(x))'
  <2> SUFFICES ASSUME TypeOK, \A x \in Exchanges : ForceFor(x), [Next]_vars,
                      NEW x \in Exchanges
               PROVE  ForceFor(x)'
    OBVIOUS
  <2> QED BY ForceStep
<1> QED BY <1>1, <1>2, TypeCorrect, PTL DEF Spec

\* An injected error was armed while the exchange was served, and no token is
\* issued while a certain fault is armed all along, a probability of zero
\* included (TokenFault), for any number of overlapping exchanges and changes.
THEOREM FaultsInForceHolds == Spec => []FaultsInForce
<1>1. (\A x \in Exchanges : ForceFor(x)) => FaultsInForce
  BY DEF ForceFor, FaultsInForce, Exchanges
<1> QED BY <1>1, ForceInvariant, PTL

\* An extension adds to a token, be it issued by the token endpoint or an ID token
\* of the authorize endpoint, only claims that a registration in force during the
\* exchange allows, and never a protected one (Invoke, enrich).
THEOREM ExtensionKeptInBoundsHolds == Spec => []ExtensionKeptInBounds
<1>1. (\A x \in Exchanges : ForceFor(x)) => ExtensionKeptInBounds
  BY DEF ForceFor, ClaimsFor, ExtensionKeptInBounds
<1> QED BY <1>1, ForceInvariant, PTL

-----------------------------------------------------------------------------
\* The clock

\* A step of the clock does what its request says and nothing else to the time.
LEMMA ClockStep ==
    ASSUME TypeOK, Next
    PROVE  /\ \A r \in Admins : pc[r] = "freeze" /\ pc'[r] = "done" => Now' = Now
           /\ \A r \in Admins : pc[r] = "advance" /\ pc'[r] = "freeze"
                  => \A s \in body[r].advance : Now' = Now + s
           /\ frozen /\ real' # real => Now' = Now
<1>t. /\ real \in Int /\ offset \in Int /\ frozen \in BOOLEAN /\ frozenAt \in Int
      /\ pc \in [Requests -> Labels] /\ body \in [Admins -> ClockRequest]
      /\ \A r \in Admins : r \in Requests
  BY ClockAssumptions DEF TypeOK, ClockTypeOK, Requests
<1>1. CASE TimePasses
  BY <1>1, <1>t DEF TimePasses, Tick, Now
<1> DEFINE P == /\ \A r \in Admins : pc[r] = "freeze" /\ pc'[r] = "done" => Now' = Now
                /\ \A r \in Admins : pc[r] = "advance" /\ pc'[r] = "freeze"
                       => \A s \in body[r].advance : Now' = Now + s
                /\ frozen /\ real' # real => Now' = Now
<1>2. ASSUME NEW r \in Requests, NEW l, NEW m, Step(r, l, m), real' = real, l \notin {"freeze", "advance"}
      PROVE  P
  <2>1. \A s \in Requests : pc'[s] = pc[s] \/ pc[s] = l
    BY <1>2, <1>t DEF Step
  <2> QED BY <1>2, <2>1, <1>t
<1>3. ASSUME NEW r \in Admins, ApplyFreeze(r) PROVE P
  <2>1. \A s \in Requests : s # r => pc'[s] = pc[s]
    BY <1>3, <1>t DEF ApplyFreeze, Step
  <2>2. pc[r] = "freeze"
    BY <1>3 DEF ApplyFreeze, Step
  <2>3. body[r].freeze \in {None, "freeze", "unfreeze"}
    BY <1>t DEF ClockRequest
  <2>4. UNCHANGED clockVars \/ Freeze \/ Unfreeze
    BY <1>3, <2>3 DEF ApplyFreeze, None
  <2>5. Now' = Now /\ real' = real
    <3>1. CASE UNCHANGED clockVars
      BY <3>1 DEF clockVars, Now
    <3>2. CASE Freeze
      <4>1. frozen' /\ frozenAt' = Now /\ real' = real
        BY <3>2 DEF Freeze
      <4> QED BY <4>1 DEF Now
    <3>3. CASE Unfreeze
      <4>1. ~frozen' /\ real' = real /\ offset' = IF frozen THEN frozenAt - real ELSE offset
        BY <3>3 DEF Unfreeze
      <4>2. Now' = real + offset'
        BY <4>1 DEF Now
      <4>3. CASE frozen
        BY <4>1, <4>2, <4>3, <1>t DEF Now
      <4>4. CASE ~frozen
        BY <4>1, <4>2, <4>4, <1>t DEF Now
      <4> QED BY <4>1, <4>3, <4>4
    <3> QED BY <2>4, <3>1, <3>2, <3>3
  <2> QED BY <2>1, <2>2, <2>5, <1>t
<1>4. ASSUME NEW r \in Admins, ApplyAdvance(r) PROVE P
  <2>1. \A s \in Requests : s # r => pc'[s] = pc[s]
    BY <1>4, <1>t DEF ApplyAdvance, Step
  <2>2. pc[r] = "advance" /\ pc'[r] = "freeze"
    BY <1>4, <1>t DEF ApplyAdvance, Step
  <2>3. real' = real
    BY <1>4 DEF ApplyAdvance, Advance, clockVars
  <2>4. \A s \in body[r].advance : Now' = Now + s
    <3>1. \A s \in body[r].advance : s \in Int
      BY <1>t DEF ClockRequest
    <3>2. \A s, t \in body[r].advance : s = t
      BY <1>t DEF ClockRequest
    <3>3. ASSUME NEW s \in body[r].advance PROVE Advance(s)
      BY <1>4, <3>2 DEF ApplyAdvance
    <3>4. ASSUME NEW s \in body[r].advance PROVE Now' = Now + s
      <4>1. s \in Int /\ Advance(s)
        BY <3>1, <3>3
      <4>2. CASE frozen
        <5>1. frozen' /\ frozenAt' = frozenAt + s
          BY <4>1, <4>2 DEF Advance
        <5> QED BY <4>2, <5>1 DEF Now
      <4>3. CASE ~frozen
        <5>1. ~frozen' /\ offset' = offset + s /\ real' = real
          BY <4>1, <4>3 DEF Advance
        <5> QED BY <4>1, <4>3, <5>1, <1>t DEF Now
      <4> QED BY <4>2, <4>3
    <3> QED BY <3>4
  <2> QED BY <2>1, <2>2, <2>3, <2>4, <1>t
<1>5. CASE AdminNext
  <2>r. \A r \in Admins : r \in Requests
    BY <1>t
  <2>1. PICK r \in Admins :
            \/ ApplyFreeze(r) \/ ApplyAdvance(r)
            \/ /\ real' = real
               /\ Step(r, "new", "done") \/ Step(r, "new", "offset") \/ Step(r, "offset", "advance")
    BY <1>5 DEF AdminNext, ClearFaults, SetFaults, DeleteCustomExtension, SetCustomExtension, ClearAudit,
                ResetClock, SetClock, ApplyOffset, SetOffset, Reset, clockVars
  <2> HIDE DEF P
  <2>2. P
    BY <2>1, <2>r, <1>2, <1>3, <1>4
  <2> QED BY <2>2 DEF P
<1>6. CASE ExchangeNext
  <2>s. ASSUME NEW x \in Exchanges, NEW m, Serves(x, m) PROVE P
    <3>1. \A r \in Admins : pc'[r] = pc[r]
      BY <2>s, <1>t, OperationsAssumptions DEF Serves
    <3> QED BY <2>s, <3>1, <1>t DEF Serves, clockVars
  <2>1. ASSUME NEW x \in Exchanges, Work(x) PROVE P
    <3> HIDE DEF P
    <3> QED BY <2>1, <2>s, WorkServes
  <2>2. ASSUME NEW x \in Exchanges, Audited(x) PROVE P
    <3>1. Step(x, "record", "done") /\ real' = real /\ x \in Requests
      BY <2>2 DEF Audited, clockVars, Requests
    <3> HIDE DEF P
    <3> QED BY <3>1, <1>2
  <2>3. ASSUME NEW g \in GraphWrites, GraphChange(g) \/ RecordDirectoryChange(g) PROVE P
    <3>1. PICK l \in {"new", "record"}, m \in {"record", "done"} : Step(g, l, m) /\ real' = real
      BY <2>3 DEF GraphChange, RecordDirectoryChange, clockVars
    <3>2. g \in Requests
      BY DEF Requests
    <3> HIDE DEF P
    <3> QED BY <3>1, <3>2, <1>2
  <2> HIDE DEF P
  <2>4. P
    BY <1>6, <2>1, <2>2, <2>3, ExchangeCases
  <2> QED BY <2>4 DEF P
<1> QED BY <1>1, <1>5, <1>6 DEF Next

\* Freezing and resuming never make time jump, advancing moves it by exactly what
\* was asked for, and a frozen clock stands still, in whatever order the fields
\* of several requests are applied (clock.go: "keeping continuity (no jump)").
THEOREM ClockContinuousHolds == Spec => ClockContinuous
<1> DEFINE A == /\ \A r \in Admins : pc[r] = "freeze" /\ pc'[r] = "done" => Now' = Now
                /\ \A r \in Admins : pc[r] = "advance" /\ pc'[r] = "freeze"
                       => \A s \in body[r].advance : Now' = Now + s
                /\ frozen /\ real' # real => Now' = Now
<1>1. TypeOK /\ [Next]_vars => [A]_vars
  BY ClockStep
<1>2. ClockContinuous <=> [][A]_vars
  BY DEF ClockContinuous
<1> HIDE DEF A
<1> QED BY <1>1, <1>2, TypeCorrect, PTL DEF Spec

(***************************************************************************)
(* Proofs about Provisioning: types, and that what incremental syncs skip  *)
(* has reached the target, for any number of users, syncs and writers.     *)
(***************************************************************************)

-----------------------------------------------------------------------------
\* Types

\* A sync that has begun, or goes on, is a sync.
LEMMA SyncTyped ==
    ASSUME NEW q \in Sync, NEW l \in {"idle", "marks", "list", "users", "send"},
           NEW todo \in SUBSET Listed, NEW cur \in SUBSET Listed, NEW found \in BOOLEAN
    PROVE  [q EXCEPT !.pc = l, !.todo = todo, !.cur = cur, !.found = found] \in Sync
BY DEF Sync

\* The initial state of a sync.
LEMMA NoSyncTyped ==
    /\ NoSync \in Sync /\ NoSync.pc = "idle" /\ NoSync.todo = {} /\ NoSync.cur = {}
    /\ NoSync.start = 0 /\ NoSync.wm = 0
BY ProvisioningAssumptions DEF NoSync, Sync

LEMMA NoWriteTyped == NoWrite \in Write /\ NoWrite.pc = "idle"
BY ProvisioningAssumptions DEF NoWrite, Write

\* What a target holds of a user it provisions is a user of the target.
LEMMA ProvisionedTyped ==
    ASSUME NEW r \in RemoteUser, NEW row \in UserRow, NEW found \in BOOLEAN
    PROVE  Provisioned(r, row, found) \in RemoteUser
BY DEF Provisioned, RemoteUser, UserRow

\* One pair more or less is in doubt.
LEMMA DoubtTyped ==
    ASSUME NEW P, NEW S \in SUBSET P, NEW p \in P, NEW wrong, NEW mended
    PROVE  Doubt(S, p, wrong, mended) \in SUBSET P
BY DEF Doubt
-----------------------------------------------------------------------------
\* What the steps of a sync do, field by field

\* Only sync s moves.
Moves(s) ==
    /\ syncs' \in [Syncs -> Sync]
    /\ \A t \in Syncs \ {s} : syncs'[t] = syncs[t]

\* It keeps what it has read at its start.
SameMarks(s) ==
    /\ syncs'[s].to = syncs[s].to /\ syncs'[s].incremental = syncs[s].incremental
    /\ syncs'[s].whole = syncs[s].whole
    /\ syncs'[s].wm = syncs[s].wm /\ syncs'[s].start = syncs[s].start

LEMMA StartEffect ==
    ASSUME ProvisioningTypeOK, NEW s \in Syncs, NEW i \in BOOLEAN, StartSync(s, i)
    PROVE  /\ Moves(s) /\ syncs[s].pc = "idle" /\ target \in Targets
           /\ syncs'[s].pc = "marks" /\ syncs'[s].todo = {} /\ syncs'[s].cur = {}
           /\ syncs'[s].to = target /\ syncs'[s].wm = 0 /\ syncs'[s].start = 0
<1>1. syncs \in [Syncs -> Sync] /\ target \in Targets
  BY DEF ProvisioningTypeOK, StartSync
<1> DEFINE q == [NoSync EXCEPT !.pc = "marks", !.to = target, !.incremental = i]
<1>3. syncs' = [syncs EXCEPT ![s] = q] /\ syncs[s].pc = "idle"
  BY DEF StartSync
<1>4. q = [NoSync EXCEPT !.pc = "marks", !.to = target, !.incremental = i]
  OBVIOUS
<1> HIDE DEF q
<1>2. /\ q.pc = "marks" /\ q.to = target
      /\ q.wm = 0 /\ q.start = 0 /\ q.todo = {} /\ q.cur = {}
  BY <1>4 DEF NoSync
<1>5. q \in Sync
  BY <1>1, <1>4, NoSyncTyped DEF Sync
<1> QED BY <1>1, <1>2, <1>3, <1>5 DEF Moves

LEMMA MarksEffect ==
    ASSUME ProvisioningTypeOK, NEW s \in Syncs, ReadMarks(s)
    PROVE  /\ Moves(s) /\ syncs[s].pc = "marks"
           /\ syncs'[s].pc = "list" /\ syncs'[s].todo = syncs[s].todo /\ syncs'[s].cur = syncs[s].cur
           /\ syncs'[s].to = syncs[s].to /\ syncs'[s].incremental = syncs[s].incremental
           /\ syncs'[s].wm = watermark /\ syncs'[s].start = now
           /\ syncs'[s].whole <=> ~syncs[s].incremental \/ syncs[s].to \in vouched
<1>1. syncs \in [Syncs -> Sync] /\ watermark \in 0..MaxNow /\ now \in 0..MaxNow
  BY ProvisioningAssumptions DEF ProvisioningTypeOK
<1> DEFINE w == ~syncs[s].incremental \/ syncs[s].to \in vouched
           q == [syncs[s] EXCEPT !.pc = "list", !.wm = watermark, !.start = now, !.whole = w]
<1>2. w \in BOOLEAN
  OBVIOUS
<1>3. syncs' = [syncs EXCEPT ![s] = q] /\ syncs[s].pc = "marks"
  BY DEF ReadMarks
<1> HIDE DEF w
<1>4. /\ q \in Sync /\ q.pc = "list" /\ q.todo = syncs[s].todo /\ q.cur = syncs[s].cur
      /\ q.to = syncs[s].to /\ q.incremental = syncs[s].incremental
      /\ q.wm = watermark /\ q.start = now /\ q.whole = w
  BY <1>1, <1>2 DEF Sync
<1> HIDE DEF q
<1>5. Moves(s) /\ syncs'[s] = q
  BY <1>1, <1>3, <1>4 DEF Moves
<1>6. w <=> ~syncs[s].incremental \/ syncs[s].to \in vouched
  BY DEF w
<1> QED BY <1>3, <1>4, <1>5, <1>6

LEMMA ListEffect ==
    ASSUME ProvisioningTypeOK, NEW s \in Syncs, ListUsers(s)
    PROVE  /\ Moves(s) /\ SameMarks(s) /\ syncs[s].pc = "list"
           /\ syncs'[s].pc = "users" /\ syncs'[s].cur = syncs[s].cur
           /\ syncs'[s].todo = {[user |-> u, row |-> users[u]] : u \in {v \in Users : users[v].exists}}
<1>1. syncs \in [Syncs -> Sync] /\ users \in [Users -> UserRow]
  BY DEF ProvisioningTypeOK
<1> DEFINE all == {[user |-> u, row |-> users[u]] : u \in {v \in Users : users[v].exists}}
           q == [syncs[s] EXCEPT !.pc = "users", !.todo = all]
<1>2. all \subseteq Listed
  BY <1>1 DEF Listed
<1>3. syncs' = [syncs EXCEPT ![s] = q] /\ syncs[s].pc = "list"
  BY DEF ListUsers
<1> HIDE DEF all
<1>4. /\ q \in Sync /\ q.pc = "users" /\ q.todo = all /\ q.cur = syncs[s].cur
      /\ q.to = syncs[s].to /\ q.incremental = syncs[s].incremental /\ q.whole = syncs[s].whole
      /\ q.wm = syncs[s].wm /\ q.start = syncs[s].start
  BY <1>1, <1>2 DEF Sync
<1> HIDE DEF q
<1>5. Moves(s) /\ syncs'[s] = q
  BY <1>1, <1>3, <1>4 DEF Moves
<1> QED BY <1>3, <1>4, <1>5 DEF all, SameMarks

\* A user is skipped ...
LEMMA SkipEffect ==
    ASSUME ProvisioningTypeOK, NEW s \in Syncs, NEW x, syncs' = [syncs EXCEPT ![s].todo = @ \ {x}]
    PROVE  /\ Moves(s) /\ SameMarks(s)
           /\ syncs'[s].pc = syncs[s].pc /\ syncs'[s].cur = syncs[s].cur
           /\ syncs'[s].todo = syncs[s].todo \ {x} /\ syncs'[s].found = syncs[s].found
<1>1. syncs \in [Syncs -> Sync]
  BY DEF ProvisioningTypeOK
<1> DEFINE q == [syncs[s] EXCEPT !.todo = @ \ {x}]
<1>2. /\ q \in Sync /\ q.pc = syncs[s].pc /\ q.cur = syncs[s].cur /\ q.todo = syncs[s].todo \ {x}
      /\ q.to = syncs[s].to /\ q.incremental = syncs[s].incremental /\ q.whole = syncs[s].whole
      /\ q.found = syncs[s].found /\ q.wm = syncs[s].wm /\ q.start = syncs[s].start
  BY <1>1 DEF Sync
<1>3. syncs' = [syncs EXCEPT ![s] = q]
  BY <1>1
<1> HIDE DEF q
<1> QED BY <1>1, <1>2, <1>3 DEF Moves, SameMarks

\* ... or probed.
LEMMA ProbeEffect ==
    ASSUME ProvisioningTypeOK, NEW s \in Syncs, NEW x \in syncs[s].todo, NEW found \in BOOLEAN,
           syncs' = [syncs EXCEPT ![s] = [syncs[s] EXCEPT !.pc = "send", !.todo = @ \ {x}, !.cur = {x}, !.found = found]]
    PROVE  /\ Moves(s) /\ SameMarks(s)
           /\ syncs'[s].pc = "send" /\ syncs'[s].cur = {x}
           /\ syncs'[s].todo = syncs[s].todo \ {x} /\ syncs'[s].found = found
<1>1. syncs \in [Syncs -> Sync]
  BY DEF ProvisioningTypeOK
<1>2. {x} \in SUBSET Listed
  BY <1>1 DEF Sync
<1> DEFINE q == [syncs[s] EXCEPT !.pc = "send", !.todo = @ \ {x}, !.cur = {x}, !.found = found]
<1>3. /\ q \in Sync /\ q.pc = "send" /\ q.cur = {x} /\ q.todo = syncs[s].todo \ {x}
      /\ q.to = syncs[s].to /\ q.incremental = syncs[s].incremental /\ q.whole = syncs[s].whole
      /\ q.found = found /\ q.wm = syncs[s].wm /\ q.start = syncs[s].start
  BY <1>1, <1>2 DEF Sync
<1>4. syncs' = [syncs EXCEPT ![s] = q]
  BY <1>1
<1> HIDE DEF q
<1> QED BY <1>1, <1>3, <1>4 DEF Moves, SameMarks

LEMMA SentEffect ==
    ASSUME ProvisioningTypeOK, NEW s \in Syncs, SendUser(s)
    PROVE  /\ Moves(s) /\ SameMarks(s) /\ syncs[s].pc = "send"
           /\ syncs'[s].pc = "users" /\ syncs'[s].cur = {} /\ syncs'[s].todo = syncs[s].todo
<1>1. syncs \in [Syncs -> Sync]
  BY DEF ProvisioningTypeOK
<1> DEFINE q == [syncs[s] EXCEPT !.pc = "users", !.cur = {}, !.found = FALSE]
<1>2. /\ q \in Sync /\ q.pc = "users" /\ q.cur = {} /\ q.todo = syncs[s].todo
      /\ q.to = syncs[s].to /\ q.incremental = syncs[s].incremental /\ q.whole = syncs[s].whole
      /\ q.wm = syncs[s].wm /\ q.start = syncs[s].start
  BY <1>1 DEF Sync
<1>3. syncs' = [syncs EXCEPT ![s] = q] /\ syncs[s].pc = "send"
  BY DEF SendUser
<1> HIDE DEF q
<1> QED BY <1>1, <1>2, <1>3 DEF Moves, SameMarks

\* A sync under way goes to a target.
LEMMA TargetsKnown ==
    ASSUME ProvisioningTypeOK
    PROVE  \A s \in Syncs : syncs[s].pc # "idle" => syncs[s].to \in Targets
<1>1. /\ syncs \in [Syncs -> Sync]
      /\ \A s \in Syncs : syncs[s].to = NoTarget => syncs[s].pc = "idle"
  BY DEF ProvisioningTypeOK
<1> QED BY <1>1 DEF Sync

\* The request goes to one user of the target, or fails.
LEMMA RequestEffect ==
    ASSUME ProvisioningTypeOK, NEW s \in Syncs, SendUser(s)
    PROVE  \E x \in syncs[s].cur, fails \in BOOLEAN :
              /\ remote' = IF fails THEN remote
                           ELSE [remote EXCEPT ![syncs[s].to][x.user] =
                                   Provisioned(remote[syncs[s].to][x.user], x.row, syncs[s].found)]
              /\ failed' = Doubt(failed, <<syncs[s].to, x.user>>,
                                 fails \/ syncs[s].found # remote[syncs[s].to][x.user].present, s \notin met)
              /\ crossed' = Doubt(crossed, <<syncs[s].to, x.user>>, Others(s, syncs[s].to) # {}, s \notin met)
<1>1. (IF MayFail THEN BOOLEAN ELSE {FALSE}) \subseteq BOOLEAN
  OBVIOUS
<1> QED BY <1>1 DEF SendUser

LEMMA FinishEffect ==
    ASSUME ProvisioningTypeOK, NEW s \in Syncs, FinishSync(s)
    PROVE  /\ Moves(s) /\ syncs[s].pc = "users" /\ syncs[s].todo = {}
           /\ syncs'[s].pc = "idle" /\ syncs'[s].todo = {} /\ syncs'[s].cur = {}
           /\ syncs'[s].start = 0 /\ syncs'[s].wm = 0
<1>1. syncs \in [Syncs -> Sync]
  BY DEF ProvisioningTypeOK
<1>2. syncs' = [syncs EXCEPT ![s] = NoSync] /\ syncs[s].pc = "users" /\ syncs[s].todo = {}
  BY DEF FinishSync
<1> QED BY <1>1, <1>2, NoSyncTyped DEF Moves

-----------------------------------------------------------------------------
\* Type correctness

\* Syncs that are typed stay so when the marks of the one that moves are no
\* later than now and it goes to a target.
LEMMA MarksTyped ==
    ASSUME ProvisioningTypeOK, NEW s \in Syncs, Moves(s),
           syncs'[s].start <= now, syncs'[s].wm <= now, now' = now,
           syncs'[s].pc = "idle" \/ syncs'[s].to \in Targets
    PROVE  /\ \A r \in Syncs : syncs'[r].start <= now' /\ syncs'[r].wm <= now'
           /\ \A r \in Syncs : syncs'[r].to = NoTarget => syncs'[r].pc = "idle"
<1>1. /\ \A r \in Syncs : syncs[r].start <= now /\ syncs[r].wm <= now
      /\ \A r \in Syncs : syncs[r].to = NoTarget => syncs[r].pc = "idle"
      /\ \A r \in Syncs : r # s => syncs'[r] = syncs[r]
  BY DEF ProvisioningTypeOK, Moves
<1> QED BY <1>1, ProvisioningAssumptions

LEMMA SyncTypeStep == ASSUME ProvisioningTypeOK, [ProvisioningNext]_provisioningVars PROVE ProvisioningTypeOK'
<1> USE ProvisioningAssumptions
<1>t. /\ users \in [Users -> UserRow] /\ remote \in [Targets -> RemoteUsers]
      /\ target \in Targets \cup {NoTarget}
      /\ watermark \in 0..now /\ syncs \in [Syncs -> Sync] /\ writes \in [Writers -> Write]
      /\ now \in 1..MaxNow
      /\ \A s \in Syncs : syncs[s].start <= now /\ syncs[s].wm <= now
      /\ \A s \in Syncs : syncs[s].to = NoTarget => syncs[s].pc = "idle"
      /\ late \subseteq Users /\ restored \subseteq Users
      /\ vouched \subseteq Targets /\ met \subseteq Syncs
      /\ failed \subseteq Pairs /\ crossed \subseteq Pairs
      /\ \A w \in Writers : writes[w].pc = "commit" => writes[w].at \in 1..now
  BY DEF ProvisioningTypeOK
<1>g. \A s \in Syncs : syncs[s].pc # "idle" => syncs[s].to \in Targets
  BY TargetsKnown
<1>l. \A s \in Syncs : /\ \A x \in Ahead(s) : x \in Listed /\ x.user \in Users /\ x.row \in UserRow
                       /\ syncs[s].found \in BOOLEAN /\ syncs[s].start \in 0..MaxNow
  BY <1>t DEF Ahead, Sync, Listed
<1>1. ASSUME NEW s \in Syncs, NEW i \in BOOLEAN, StartSync(s, i) PROVE ProvisioningTypeOK'
  <2>1. /\ Moves(s) /\ syncs'[s].start <= now /\ syncs'[s].wm <= now /\ syncs'[s].to \in Targets
    BY <1>1, <1>t, StartEffect
  <2>2. UNCHANGED <<users, remote, target, watermark, writes, now, late, restored, vouched, failed, crossed>>
    BY <1>1 DEF StartSync, sent
  <2>3. met' \subseteq Syncs
    BY <1>1, <1>t DEF StartSync, Others
  <2> QED BY <1>t, <2>1, <2>2, <2>3, MarksTyped DEF ProvisioningTypeOK, Moves
<1>2. ASSUME NEW s \in Syncs, ReadMarks(s) \/ ListUsers(s) PROVE ProvisioningTypeOK'
  <2>1. /\ Moves(s) /\ syncs'[s].start <= now /\ syncs'[s].wm <= now /\ syncs'[s].to \in Targets
    <3>1. CASE ReadMarks(s)
      BY <3>1, <1>t, <1>g, MarksEffect
    <3>2. CASE ListUsers(s)
      BY <3>2, <1>t, <1>g, ListEffect DEF SameMarks
    <3> QED BY <1>2, <3>1, <3>2
  <2>2. UNCHANGED <<users, remote, target, watermark, writes, now, late, restored, vouched, failed, crossed, met>>
    BY <1>2 DEF ReadMarks, ListUsers, history, sent
  <2> QED BY <1>t, <2>1, <2>2, MarksTyped DEF ProvisioningTypeOK, Moves
<1>3. ASSUME NEW s \in Syncs, NEW x \in syncs[s].todo, ProbeUser(s, x) PROVE ProvisioningTypeOK'
  <2>1. /\ syncs[s].pc = "users"
        /\ UNCHANGED <<users, remote, target, watermark, writes, now, late, restored, vouched, failed, crossed, met>>
    BY <1>3 DEF ProbeUser, history, sent
  <2>2. x.user \in Users /\ syncs[s].to \in Targets /\ remote[syncs[s].to][x.user].present \in BOOLEAN
    BY <1>t, <1>g, <1>l, <2>1 DEF RemoteUsers, RemoteUser, Ahead
  <2>3. Moves(s) /\ SameMarks(s)
    <3>1. CASE syncs' = [syncs EXCEPT ![s].todo = @ \ {x}]
      BY <3>1, SkipEffect
    <3>2. ASSUME NEW found \in BOOLEAN,
                 syncs' = [syncs EXCEPT ![s] =
                             [syncs[s] EXCEPT !.pc = "send", !.todo = @ \ {x}, !.cur = {x}, !.found = found]]
          PROVE  Moves(s) /\ SameMarks(s)
      BY <3>2, ProbeEffect
    <3>3. {remote[syncs[s].to][x.user].present} \cup (IF MayFail THEN {FALSE} ELSE {}) \subseteq BOOLEAN
      BY <2>2
    <3> QED BY <1>3, <3>1, <3>2, <3>3 DEF ProbeUser
  <2>4. syncs'[s].start <= now /\ syncs'[s].wm <= now /\ syncs'[s].to \in Targets
    BY <1>t, <2>2, <2>3 DEF SameMarks
  <2> QED BY <1>t, <2>1, <2>3, <2>4, MarksTyped DEF ProvisioningTypeOK, Moves
<1>4. ASSUME NEW s \in Syncs, SendUser(s) PROVE ProvisioningTypeOK'
  <2>1. UNCHANGED <<users, target, watermark, writes, now, late, restored, vouched, met>>
    BY <1>4 DEF SendUser
  <2>2. PICK x \in syncs[s].cur, fails \in BOOLEAN :
          /\ remote' = IF fails THEN remote
                       ELSE [remote EXCEPT ![syncs[s].to][x.user] =
                               Provisioned(remote[syncs[s].to][x.user], x.row, syncs[s].found)]
          /\ failed' = Doubt(failed, <<syncs[s].to, x.user>>,
                             fails \/ syncs[s].found # remote[syncs[s].to][x.user].present, s \notin met)
          /\ crossed' = Doubt(crossed, <<syncs[s].to, x.user>>, Others(s, syncs[s].to) # {}, s \notin met)
    BY <1>4, RequestEffect
  <2>3. x.user \in Users /\ x.row \in UserRow /\ syncs[s].found \in BOOLEAN /\ syncs[s].to \in Targets
    BY <1>4, <1>g, <1>l DEF Ahead, SendUser
  <2>4. remote' \in [Targets -> RemoteUsers]
    <3>1. remote[syncs[s].to] \in [Users -> RemoteUser] /\ remote[syncs[s].to][x.user] \in RemoteUser
      BY <1>t, <2>3 DEF RemoteUsers
    <3> DEFINE p == Provisioned(remote[syncs[s].to][x.user], x.row, syncs[s].found)
    <3>2. p \in RemoteUser
      BY <2>3, <3>1, ProvisionedTyped
    <3>3. remote' = remote \/ remote' = [remote EXCEPT ![syncs[s].to][x.user] = p]
      BY <2>2
    <3> HIDE DEF p
    <3>4. [remote[syncs[s].to] EXCEPT ![x.user] = p] \in RemoteUsers
      BY <2>3, <3>1, <3>2 DEF RemoteUsers
    <3> QED BY <1>t, <2>3, <3>3, <3>4
  <2>5. failed' \subseteq Pairs /\ crossed' \subseteq Pairs
    <3>1. <<syncs[s].to, x.user>> \in Pairs
      BY <2>3 DEF Pairs
    <3> QED BY <1>t, <2>2, <3>1, DoubtTyped
  <2>6. Moves(s) /\ SameMarks(s)
    BY <1>4, SentEffect
  <2>7. syncs'[s].start <= now /\ syncs'[s].wm <= now /\ syncs'[s].to \in Targets
    BY <1>t, <2>3, <2>6 DEF SameMarks
  <2> QED BY <1>t, <2>1, <2>4, <2>5, <2>6, <2>7, MarksTyped DEF ProvisioningTypeOK, Moves
<1>5. ASSUME NEW s \in Syncs, FinishSync(s) PROVE ProvisioningTypeOK'
  <2>1. UNCHANGED <<users, remote, target, writes, now, late, restored, failed, crossed>>
    BY <1>5 DEF FinishSync, sent
  <2>2. /\ Moves(s) /\ syncs'[s].start <= now /\ syncs'[s].wm <= now /\ syncs'[s].pc = "idle"
    BY <1>5, <1>t, FinishEffect
  <2>3. watermark' \in 0..now
    BY <1>5, <1>t, <1>l DEF FinishSync
  <2>4. vouched' \subseteq Targets /\ met' \subseteq Syncs
    BY <1>5, <1>t, <1>g DEF FinishSync
  <2> QED BY <1>t, <2>1, <2>2, <2>3, <2>4, MarksTyped DEF ProvisioningTypeOK, Moves
<1>6. ASSUME (\E t \in Targets : SetTarget(t)) \/ ClearTarget PROVE ProvisioningTypeOK'
  BY <1>6, <1>t DEF SetTarget, ClearTarget, ProvisioningTypeOK, history, sent
<1>7. ASSUME NEW w \in Writers, NEW u \in Users, NEW enabled \in BOOLEAN, StampWrite(w, u, enabled)
      PROVE  ProvisioningTypeOK'
  <2>1. [pc |-> "commit", create |-> ~users[u].exists, user |-> u, enabled |-> enabled, at |-> now] \in Write
    BY <1>t DEF Write, UserRow
  <2>2. /\ writes' \in [Writers -> Write]
        /\ \A v \in Writers : writes'[v].pc = "commit" => writes'[v].at \in 1..now
    BY <1>7, <1>t, <2>1 DEF StampWrite
  <2>3. UNCHANGED <<users, remote, target, watermark, syncs, now, late, restored, vouched, failed, crossed, met>>
    BY <1>7 DEF StampWrite, history, sent
  <2> QED BY <1>t, <2>2, <2>3 DEF ProvisioningTypeOK
<1>8. ASSUME NEW w \in Writers, CommitWrite(w) PROVE ProvisioningTypeOK'
  <2> DEFINE q == writes[w]
  <2>1. /\ writes' \in [Writers -> Write]
        /\ \A v \in Writers : writes'[v].pc = "commit" => writes'[v].at \in 1..now
        /\ UNCHANGED <<remote, target, watermark, syncs, now, vouched, failed, crossed, met>>
    BY <1>8, <1>t, NoWriteTyped DEF CommitWrite, sent
  <2>2. q \in Write /\ q.user \in Users /\ q.enabled \in BOOLEAN /\ q.at \in 0..MaxNow
    BY <1>t DEF Write
  <2>3. CASE users' = users /\ late' = late /\ restored' = restored
    BY <1>t, <2>1, <2>3 DEF ProvisioningTypeOK
  <2>4. CASE /\ users[q.user].version < MaxVersion
             /\ users' = [users EXCEPT ![q.user] =
                            [exists |-> TRUE, enabled |-> q.enabled, version |-> @.version + 1, updated |-> q.at]]
             /\ late' = (IF q.at < now THEN late \cup {q.user} ELSE late \ {q.user})
             /\ restored' = restored \ {q.user}
    <3>1. q.at \in 1..MaxNow
      BY <1>8, <1>t DEF CommitWrite
    <3>2. users[q.user].version + 1 \in Versions
      BY <1>t, <2>2, <2>4 DEF UserRow, Versions
    <3>3. users' \in [Users -> UserRow]
      BY <1>t, <2>2, <2>4, <3>1, <3>2 DEF UserRow
    <3>4. late' \subseteq Users /\ restored' \subseteq Users
      BY <1>t, <2>2, <2>4
    <3> QED BY <1>t, <2>1, <3>3, <3>4 DEF ProvisioningTypeOK
  <2> QED BY <1>8, <2>3, <2>4 DEF CommitWrite
<1>9. ASSUME NEW u \in Users, DeleteUser(u) \/ RestoreUser(u) PROVE ProvisioningTypeOK'
  <2>1. users' \in [Users -> UserRow] /\ restored' \subseteq Users
    <3>1. \A b \in BOOLEAN : [users[u] EXCEPT !.exists = b] \in UserRow
      BY <1>t DEF UserRow
    <3>2. \E b \in BOOLEAN : users' = [users EXCEPT ![u] = [users[u] EXCEPT !.exists = b]]
      BY <1>9, <1>t DEF DeleteUser, RestoreUser
    <3> QED BY <1>9, <1>t, <3>1, <3>2 DEF DeleteUser, RestoreUser, history, sent
  <2> QED BY <1>9, <1>t, <2>1 DEF DeleteUser, RestoreUser, ProvisioningTypeOK, history, sent
<1>10. ASSUME ClockTick PROVE ProvisioningTypeOK'
  <2>1. /\ now' \in 1..MaxNow /\ now' = now + 1
        /\ UNCHANGED <<users, remote, target, watermark, syncs, writes, late, restored, vouched, failed, crossed, met>>
    BY <1>10, <1>t DEF ClockTick, history, sent
  <2>2. \A s \in Syncs : /\ syncs[s].start \in Nat /\ syncs[s].wm \in Nat
    BY <1>t DEF Sync
  <2> QED BY <1>t, <2>1, <2>2 DEF ProvisioningTypeOK
<1>11. ASSUME Restart PROVE ProvisioningTypeOK'
  <2>1. syncs' \in [Syncs -> Sync] /\ \A s \in Syncs : /\ syncs'[s].start = 0 /\ syncs'[s].wm = 0
                                                        /\ syncs'[s].pc = "idle"
    BY <1>11, NoSyncTyped DEF Restart
  <2>2. /\ writes' \in [Writers -> Write]
        /\ \A v \in Writers : writes'[v].pc = "commit" => writes'[v].at \in 1..now
    BY <1>11, NoWriteTyped DEF Restart
  <2>3. /\ target' = NoTarget /\ watermark' = 0 /\ vouched' = Targets
        /\ failed' = {} /\ crossed' = {} /\ met' = {}
        /\ UNCHANGED <<users, remote, now, late, restored>>
    BY <1>11 DEF Restart
  <2> QED BY <1>t, <2>1, <2>2, <2>3 DEF ProvisioningTypeOK
<1>12. CASE UNCHANGED provisioningVars
  BY <1>12, <1>t DEF provisioningVars, history, sent, ProvisioningTypeOK
<1> QED BY <1>1, <1>2, <1>3, <1>4, <1>5, <1>6, <1>7, <1>8, <1>9, <1>10, <1>11, <1>12 DEF ProvisioningNext

LEMMA InitTyped == ASSUME ProvisioningInit PROVE ProvisioningTypeOK
<1> USE ProvisioningAssumptions
<1>1. FirstRow \in UserRow /\ AbsentUser \in RemoteUser
  BY DEF FirstRow, UserRow, Versions, AbsentUser, RemoteUser
<1>2. syncs \in [Syncs -> Sync] /\ \A s \in Syncs : syncs[s].start = 0 /\ syncs[s].wm = 0 /\ syncs[s].pc = "idle"
  BY NoSyncTyped DEF ProvisioningInit
<1>3. writes \in [Writers -> Write] /\ \A w \in Writers : writes[w].pc # "commit"
  BY NoWriteTyped DEF ProvisioningInit
<1>4. users \in [Users -> UserRow] /\ remote \in [Targets -> RemoteUsers]
  BY <1>1 DEF ProvisioningInit, RemoteUsers
<1>5. /\ target = NoTarget /\ watermark = 0 /\ now = 1 /\ vouched = Targets
      /\ late = {} /\ restored = {} /\ failed = {} /\ crossed = {} /\ met = {}
  BY DEF ProvisioningInit
<1> QED BY <1>2, <1>3, <1>4, <1>5 DEF ProvisioningTypeOK

\* Types (store/directory.go, scim/provision.go).
THEOREM ProvisioningTyped == ProvisioningSpec => []ProvisioningTypeOK
<1>1. ProvisioningInit => ProvisioningTypeOK
  BY InitTyped
<1>2. ProvisioningTypeOK /\ [ProvisioningNext]_provisioningVars => ProvisioningTypeOK'
  BY SyncTypeStep
<1> QED BY <1>1, <1>2, PTL DEF ProvisioningSpec

-----------------------------------------------------------------------------
\* Nothing that is skipped is lost

\* The numbers and rows the steps below compare.
LEMMA Numbers ==
    ASSUME ProvisioningTypeOK
    PROVE  /\ now \in Nat /\ watermark \in Nat /\ watermark <= now
           /\ \A s \in Syncs : /\ syncs[s].start \in Nat /\ syncs[s].start <= now
                               /\ syncs[s].wm \in Nat /\ syncs[s].wm <= now
           /\ \A u \in Users : users[u].updated \in Nat
BY ProvisioningAssumptions DEF ProvisioningTypeOK, Sync, UserRow

LEMMA TrustedAreUsers == \A t : Trusted(t) \subseteq Dated /\ Dated \subseteq Users
BY DEF Trusted, Dated

\* A step of a sync that only works off its listing leaves what the others rely on.
LEMMA FrameKeeps ==
    ASSUME SyncInv, NEW s \in Syncs, Moves(s), SameMarks(s), Running(s), Running(s)',
           UNCHANGED <<users, remote, watermark, now, late, restored, vouched, failed, crossed, met>>
    PROVE  /\ \A r \in Syncs : SameMarks(r) /\ (Running(r)' <=> Running(r))
           /\ \A r \in Syncs : Trusted(syncs[r].to)' = Trusted(syncs[r].to)
           /\ \A u : Older(u, watermark)' <=> Older(u, watermark)
           /\ \A u : \A r \in Syncs : /\ Older(u, syncs[r].wm)' <=> Older(u, syncs[r].wm)
                                      /\ Older(u, syncs[r].start)' <=> Older(u, syncs[r].start)
           /\ \A u : \A r \in Syncs : Synced(syncs[r].to, u)' <=> Synced(syncs[r].to, u)
           /\ Dated' = Dated /\ MarksBehind' /\ Meetings' /\ NothingSkippedIsLost'
<1>1. \A r \in Syncs : SameMarks(r) /\ (Running(r)' <=> Running(r))
  BY DEF Moves, SameMarks, Running
<1>2. \A r \in Syncs : /\ syncs'[r].to = syncs[r].to /\ syncs'[r].wm = syncs[r].wm
                       /\ syncs'[r].start = syncs[r].start
  BY <1>1 DEF SameMarks
<1>3. Dated' = Dated /\ \A t : Trusted(t)' = Trusted(t)
  BY DEF Trusted, Dated
<1>4. \A r \in Syncs : Trusted(syncs[r].to)' = Trusted(syncs[r].to)
  BY <1>2 DEF Trusted, Dated
<1>5. /\ \A u : Older(u, watermark)' <=> Older(u, watermark)
      /\ \A u : \A r \in Syncs : /\ Older(u, syncs[r].wm)' <=> Older(u, syncs[r].wm)
                                 /\ Older(u, syncs[r].start)' <=> Older(u, syncs[r].start)
  BY <1>2 DEF Older
<1>6. /\ \A t, u : Synced(t, u)' <=> Synced(t, u)
      /\ \A u : \A r \in Syncs : Synced(syncs[r].to, u)' <=> Synced(syncs[r].to, u)
  BY <1>2 DEF Synced
<1>7. MarksBehind'
  BY <1>1, <1>2, <1>4, <1>5 DEF SyncInv, MarksBehind
<1>8. Meetings'
  <2>1. \A r \in Syncs : syncs'[r].pc = "idle" <=> syncs[r].pc = "idle"
    BY DEF Moves, Running
  <2>2. \A r \in Syncs : Others(r, syncs[r].to)' = Others(r, syncs[r].to)
    BY <1>2, <2>1 DEF Others
  <2> QED BY <1>1, <1>2, <2>1, <2>2 DEF SyncInv, Meetings
<1>9. NothingSkippedIsLost'
  BY <1>3, <1>5, <1>6 DEF SyncInv, NothingSkippedIsLost, Lost
<1> QED BY <1>1, <1>3, <1>4, <1>5, <1>6, <1>7, <1>8, <1>9

\* A sync that starts makes itself known to those it meets.
LEMMA StartKeeps ==
    ASSUME SyncInv, NEW s \in Syncs, NEW i \in BOOLEAN, StartSync(s, i), ProvisioningTypeOK'
    PROVE  SyncInv'
<1>1. /\ Moves(s) /\ syncs[s].pc = "idle"
      /\ syncs'[s].pc = "marks" /\ syncs'[s].todo = {} /\ syncs'[s].cur = {}
      /\ syncs'[s].to = target /\ syncs'[s].wm = 0 /\ syncs'[s].start = 0
  BY StartEffect DEF SyncInv
<1>2. /\ UNCHANGED <<users, remote, watermark, now, late, restored, vouched, failed, crossed>>
      /\ met' = IF Others(s, target) = {} THEN met \ {s} ELSE met \cup {s} \cup Others(s, target)
  BY DEF StartSync, sent
<1>m. \A r \in Syncs : r # s => syncs'[r] = syncs[r]
  BY <1>1 DEF Moves
<1>k. /\ Dated' = Dated /\ \A t : Trusted(t)' = Trusted(t)
      /\ \A r \in Syncs : Running(r)' => r # s /\ Running(r) /\ Trusted(syncs[r].to)' = Trusted(syncs[r].to)
  BY <1>1, <1>2, <1>m DEF Trusted, Dated, Running
<1>3. SendsInOrder'
  BY <1>1, <1>2, <1>m DEF SyncInv, SendsInOrder, Works
<1>4. ProbesHold'
  BY <1>1, <1>2, <1>m DEF SyncInv, ProbesHold
<1>5. ListingsCurrent'
  BY <1>1, <1>2, <1>m, <1>k DEF SyncInv, ListingsCurrent, Ahead, Older
<1>6. PassedAreSynced'
  BY <1>2, <1>m, <1>k DEF SyncInv, PassedAreSynced, Arrived, Ahead, Older, Works, Synced
<1>7. MarksBehind'
  BY <1>2, <1>m, <1>k DEF SyncInv, MarksBehind, Older
<1>8. PassedBehind'
  BY <1>2, <1>m, <1>k DEF SyncInv, PassedBehind, Reached, Ahead, Older, Works
<1>9. Meetings'
  <2>1. Others(s, target)' = Others(s, target)
    BY <1>1, <1>m DEF Others, StartSync
  <2>2. ASSUME NEW r \in Syncs, syncs'[r].pc # "idle", r \notin met'
        PROVE  Others(r, syncs[r].to)' = {}
    <3>1. CASE r = s
      <4>1. Others(s, target) = {}
        BY <1>2, <2>2, <3>1
      <4> QED BY <1>1, <1>m, <3>1, <4>1 DEF Others
    <3>2. CASE r # s
      <4>1. r \notin Others(s, target) /\ r \notin met
        BY <1>2, <2>2, <3>2
      <4>2. syncs[r].to # target /\ syncs'[r] = syncs[r]
        BY <1>m, <2>2, <3>2, <4>1 DEF Others
      <4>3. Others(r, syncs[r].to) = {}
        BY <2>2, <4>1, <4>2 DEF SyncInv, Meetings
      <4> QED BY <1>1, <1>m, <4>2, <4>3 DEF Others
    <3> QED BY <3>1, <3>2
  <2>3. ASSUME NEW r \in Syncs, Running(r)', r \notin met', syncs'[r].to \in vouched'
        PROVE  watermark' <= syncs'[r].start
    <3>1. r # s /\ Running(r) /\ syncs'[r] = syncs[r]
      BY <1>k, <1>m, <2>3
    <3>2. r \notin met
      BY <1>2, <2>3, <3>1
    <3> QED BY <1>2, <2>3, <3>1, <3>2 DEF SyncInv, Meetings
  <2> QED BY <2>2, <2>3 DEF Meetings
<1>10. NothingSkippedIsLost'
  BY <1>2, <1>k DEF SyncInv, NothingSkippedIsLost, Lost, Older, Synced
<1> QED BY <1>3, <1>4, <1>5, <1>6, <1>7, <1>8, <1>9, <1>10 DEF SyncInv

\* A sync that has read the watermark and the clock has everything behind it.
LEMMA ReadKeeps ==
    ASSUME SyncInv, NEW s \in Syncs, ReadMarks(s), ProvisioningTypeOK'
    PROVE  SyncInv'
<1>1. /\ Moves(s) /\ syncs[s].pc = "marks" /\ syncs'[s].pc = "list"
      /\ syncs'[s].todo = syncs[s].todo /\ syncs'[s].cur = syncs[s].cur
      /\ syncs'[s].to = syncs[s].to /\ syncs'[s].incremental = syncs[s].incremental
      /\ syncs'[s].wm = watermark /\ syncs'[s].start = now
      /\ syncs'[s].whole <=> ~syncs[s].incremental \/ syncs[s].to \in vouched
  BY MarksEffect DEF SyncInv
<1>2. UNCHANGED <<users, remote, watermark, now, late, restored, vouched, failed, crossed, met>>
  BY DEF ReadMarks, history, sent
<1>n. /\ now \in Nat /\ watermark \in Nat /\ watermark <= now
      /\ \A r \in Syncs : syncs[r].start \in Nat /\ syncs[r].start <= now /\ syncs[r].wm \in Nat /\ syncs[r].wm <= now
      /\ \A u \in Users : users[u].updated \in Nat
  BY Numbers DEF SyncInv
<1>m. \A r \in Syncs : r # s => syncs'[r] = syncs[r]
  BY <1>1 DEF Moves
<1>c. syncs[s].todo = {} /\ syncs[s].cur = {} /\ ~Works(s)'
  BY <1>1 DEF SyncInv, SendsInOrder, Works
<1>k. /\ Dated' = Dated /\ Dated \subseteq Users
      /\ \A t : Trusted(t)' = Trusted(t) /\ Trusted(t) \subseteq Dated
      /\ \A r \in Syncs : syncs'[r].to = syncs[r].to /\ Trusted(syncs[r].to)' = Trusted(syncs[r].to)
      /\ \A t, u : Synced(t, u)' <=> Synced(t, u)
      /\ \A r \in Syncs : r # s => (Running(r)' <=> Running(r)) /\ (Works(r)' <=> Works(r)) /\ Ahead(r)' = Ahead(r)
  BY <1>1, <1>2, <1>m DEF Trusted, Dated, Running, Works, Ahead, Synced
<1>o. \A u \in Users : \A n : Older(u, n)' <=> Older(u, n)
  BY <1>2 DEF Older
<1>l. \A u \in Users : \A n \in Nat : n <= now /\ Older(u, n) => Older(u, now)
  BY <1>n DEF Older
<1>3. SendsInOrder'
  BY <1>1, <1>2, <1>m, <1>n, <1>c DEF SyncInv, SendsInOrder, Works
<1>4. ProbesHold'
  BY <1>1, <1>2, <1>m, <1>c DEF SyncInv, ProbesHold
<1>5. ListingsCurrent'
  <2>1. Ahead(s)' = {}
    BY <1>1, <1>c DEF Ahead
  <2> QED BY <1>2, <1>m, <1>k, <2>1 DEF SyncInv, ListingsCurrent, Older
<1>6. PassedAreSynced'
  <2> SUFFICES ASSUME NEW r \in Syncs, Running(r)', syncs'[r].whole, NEW u \in Trusted(syncs[r].to)'
               PROVE  Arrived(r, u)'
    BY DEF PassedAreSynced
  <2>1. CASE r = s
    <3>1. ASSUME syncs[s].incremental, Older(u, watermark) PROVE Synced(syncs[s].to, u)
      BY <1>1, <1>k, <2>1, <3>1 DEF SyncInv, NothingSkippedIsLost, Lost
    <3> QED BY <1>1, <1>2, <1>c, <2>1, <3>1 DEF Arrived, Older, Synced
  <2>2. CASE r # s
    <3>1. Arrived(r, u)
      BY <1>m, <1>k, <2>2 DEF SyncInv, PassedAreSynced
    <3> QED BY <1>2, <1>m, <1>k, <2>2, <3>1 DEF Arrived, Older, Synced
  <2> QED BY <2>1, <2>2
<1>7. MarksBehind'
  <2> SUFFICES ASSUME NEW t \in Syncs, Running(t)', syncs'[t].to \in vouched', NEW u \in Trusted(syncs[t].to)',
                      Older(u, watermark)'
               PROVE  Older(u, syncs[t].start)'
    BY DEF MarksBehind
  <2>1. u \in Users /\ u \in Trusted(syncs[t].to) /\ Older(u, watermark)
    BY <1>2, <1>k DEF Older
  <2>2. CASE t = s
    BY <1>1, <1>2, <1>n, <1>l, <2>1, <2>2 DEF Older
  <2>3. CASE t # s
    BY <1>2, <1>m, <1>k, <2>1, <2>3 DEF SyncInv, MarksBehind, Older
  <2> QED BY <2>2, <2>3
<1>8. PassedBehind'
  <2> SUFFICES ASSUME NEW r \in Syncs, NEW t \in Syncs, r # t, Running(r)', Running(t)',
                      syncs'[r].to = syncs'[t].to, syncs'[r].whole, NEW u \in Trusted(syncs[t].to)'
               PROVE  Reached(r, t, u)'
    BY DEF PassedBehind
  <2>0. u \in Users /\ u \in Trusted(syncs[t].to) /\ syncs[r].to = syncs[t].to
    BY <1>k
  <2>1. CASE r = s
    <3>1. ASSUME syncs[s].incremental, Older(u, watermark) PROVE Older(u, syncs[t].start)
      BY <1>1, <1>m, <1>k, <2>0, <2>1, <3>1 DEF SyncInv, MarksBehind
    <3> QED BY <1>1, <1>2, <1>m, <1>c, <2>1, <3>1 DEF Reached, Older
  <2>2. CASE t = s
    <3>1. /\ Older(u, syncs[r].wm) => Older(u, now)
          /\ Older(u, syncs[r].start) => Older(u, now)
      BY <1>n, <1>l, <2>0
    <3> QED BY <1>1, <1>2, <1>m, <2>2, <3>1 DEF Reached, Older
  <2>3. CASE r # s /\ t # s
    <3>1. Reached(r, t, u)
      BY <1>m, <1>k, <2>0, <2>3 DEF SyncInv, PassedBehind
    <3> QED BY <1>2, <1>m, <1>k, <2>3, <3>1 DEF Reached, Older
  <2> QED BY <2>1, <2>2, <2>3
<1>9. Meetings'
  <2>1. \A r \in Syncs : syncs'[r].pc = "idle" <=> syncs[r].pc = "idle"
    BY <1>1, <1>m
  <2>2. \A r \in Syncs : Others(r, syncs[r].to)' = Others(r, syncs[r].to)
    BY <1>k, <2>1 DEF Others
  <2>3. ASSUME NEW r \in Syncs, Running(r)', r \notin met', syncs'[r].to \in vouched'
        PROVE  watermark' <= syncs'[r].start
    <3>1. CASE r = s
      BY <1>1, <1>2, <1>n, <3>1
    <3>2. CASE r # s
      BY <1>2, <1>m, <1>k, <2>3, <3>2 DEF SyncInv, Meetings
    <3> QED BY <3>1, <3>2
  <2> QED BY <1>2, <2>1, <2>2, <2>3 DEF SyncInv, Meetings
<1>10. NothingSkippedIsLost'
  BY <1>2, <1>k DEF SyncInv, NothingSkippedIsLost, Lost, Older
<1> QED BY <1>3, <1>4, <1>5, <1>6, <1>7, <1>8, <1>9, <1>10 DEF SyncInv

\* A listing holds every user there is.
LEMMA ListKeeps ==
    ASSUME SyncInv, NEW s \in Syncs, ListUsers(s), ProvisioningTypeOK'
    PROVE  SyncInv'
<1>1. /\ Moves(s) /\ SameMarks(s) /\ syncs[s].pc = "list"
      /\ syncs'[s].pc = "users" /\ syncs'[s].cur = syncs[s].cur
      /\ syncs'[s].todo = {[user |-> u, row |-> users[u]] : u \in {v \in Users : users[v].exists}}
  BY ListEffect DEF SyncInv
<1>2. UNCHANGED <<users, remote, watermark, now, late, restored, vouched, failed, crossed, met>>
  BY DEF ListUsers, history, sent
<1>m. \A r \in Syncs : r # s => syncs'[r] = syncs[r]
  BY <1>1 DEF Moves
<1>c. syncs[s].cur = {} /\ Running(s) /\ Running(s)'
  BY <1>1 DEF SyncInv, SendsInOrder, Running
<1>f. /\ \A r \in Syncs : SameMarks(r) /\ (Running(r)' <=> Running(r))
      /\ \A r \in Syncs : Trusted(syncs[r].to)' = Trusted(syncs[r].to)
      /\ \A u : \A r \in Syncs : /\ Older(u, syncs[r].wm)' <=> Older(u, syncs[r].wm)
                                 /\ Older(u, syncs[r].start)' <=> Older(u, syncs[r].start)
      /\ \A u : \A r \in Syncs : Synced(syncs[r].to, u)' <=> Synced(syncs[r].to, u)
      /\ Dated' = Dated /\ MarksBehind' /\ Meetings' /\ NothingSkippedIsLost'
  BY <1>1, <1>2, <1>c, FrameKeeps
<1>a. /\ \A x \in Ahead(s)' : x.row = users[x.user]
      /\ \A u \in Users : users[u].exists => \E x \in Ahead(s)' : x.user = u
  <2>1. Ahead(s)' = {[user |-> u, row |-> users[u]] : u \in {v \in Users : users[v].exists}}
    BY <1>1, <1>c DEF Ahead
  <2>2. ASSUME NEW u \in Users, users[u].exists
        PROVE  \E x \in Ahead(s)' : x.user = u
    <3>1. [user |-> u, row |-> users[u]] \in Ahead(s)'
      BY <2>1, <2>2
    <3>2. [user |-> u, row |-> users[u]].user = u
      OBVIOUS
    <3> QED BY <3>1, <3>2
  <2>3. ASSUME NEW x \in Ahead(s)'
        PROVE  x.row = users[x.user]
    BY <2>1
  <2> QED BY <2>2, <2>3
<1>3. SendsInOrder'
  BY <1>1, <1>2, <1>m, <1>c DEF SyncInv, SendsInOrder, Works, SameMarks
<1>4. ProbesHold'
  BY <1>1, <1>2, <1>m, <1>c DEF SyncInv, ProbesHold
<1>5. ListingsCurrent'
  <2> SUFFICES ASSUME NEW r \in Syncs, NEW x \in Ahead(r)', x.user \in Dated', Older(x.user, syncs[r].start)'
               PROVE  x.row = users'[x.user]
    BY DEF ListingsCurrent
  <2>1. CASE r = s
    BY <1>a, <1>2, <2>1
  <2>2. CASE r # s
    BY <1>2, <1>m, <1>f, <2>2 DEF SyncInv, ListingsCurrent, Ahead
  <2> QED BY <2>1, <2>2
<1>6. PassedAreSynced'
  <2> SUFFICES ASSUME NEW r \in Syncs, Running(r)', syncs'[r].whole, NEW u \in Trusted(syncs[r].to)'
               PROVE  Arrived(r, u)'
    BY DEF PassedAreSynced
  <2>1. Arrived(r, u)
    BY <1>f DEF SyncInv, PassedAreSynced, SameMarks
  <2>2. CASE r = s
    <3>1. Older(u, syncs[s].start)' => \E x \in Ahead(s)' : x.user = u
      BY <1>2, <1>a, <1>f, <2>2, TrustedAreUsers DEF Older
    <3> QED BY <1>f, <2>1, <2>2, <3>1 DEF Arrived, SameMarks
  <2>3. CASE r # s
    <3>1. Ahead(r)' = Ahead(r) /\ (Works(r)' <=> Works(r))
      BY <1>m, <2>3 DEF Ahead, Works
    <3> QED BY <1>f, <2>1, <2>3, <3>1 DEF Arrived, SameMarks
  <2> QED BY <2>2, <2>3
<1>7. PassedBehind'
  <2> SUFFICES ASSUME NEW r \in Syncs, NEW t \in Syncs, r # t, Running(r)', Running(t)',
                      syncs'[r].to = syncs'[t].to, syncs'[r].whole, NEW u \in Trusted(syncs[t].to)'
               PROVE  Reached(r, t, u)'
    BY DEF PassedBehind
  <2>1. Reached(r, t, u) /\ u \in Trusted(syncs[t].to)
    BY <1>f DEF SyncInv, PassedBehind, SameMarks
  <2>2. CASE r = s
    <3>1. Older(u, syncs[s].start)' => \E x \in Ahead(s)' : x.user = u
      BY <1>2, <1>a, <2>1, <2>2, TrustedAreUsers DEF Older
    <3> QED BY <1>f, <2>1, <2>2, <3>1 DEF Reached, SameMarks
  <2>3. CASE r # s
    <3>1. Ahead(r)' = Ahead(r) /\ (Works(r)' <=> Works(r))
      BY <1>m, <2>3 DEF Ahead, Works
    <3> QED BY <1>f, <2>1, <2>3, <3>1 DEF Reached, SameMarks
  <2> QED BY <2>2, <2>3
<1> QED BY <1>3, <1>4, <1>5, <1>6, <1>7, <1>f DEF SyncInv

\* A user who is skipped has an old row, which has arrived.
LEMMA SkipKeeps ==
    ASSUME SyncInv, NEW s \in Syncs, NEW x \in syncs[s].todo, Skipped(syncs[s], x), ProvisioningTypeOK',
           syncs[s].pc = "users", syncs' = [syncs EXCEPT ![s].todo = @ \ {x}],
           UNCHANGED <<users, remote, watermark, now, late, restored, vouched, failed, crossed, met>>
    PROVE  SyncInv'
<1>1. /\ Moves(s) /\ SameMarks(s) /\ syncs'[s].pc = "users" /\ syncs'[s].cur = syncs[s].cur
      /\ syncs'[s].todo = syncs[s].todo \ {x} /\ syncs'[s].found = syncs[s].found
  BY SkipEffect DEF SyncInv
<1>c. Running(s) /\ Running(s)'
  BY <1>1 DEF Running
<1>f. /\ \A r \in Syncs : SameMarks(r) /\ (Running(r)' <=> Running(r))
      /\ \A r \in Syncs : Trusted(syncs[r].to)' = Trusted(syncs[r].to)
      /\ \A u : \A r \in Syncs : /\ Older(u, syncs[r].wm)' <=> Older(u, syncs[r].wm)
                                 /\ Older(u, syncs[r].start)' <=> Older(u, syncs[r].start)
      /\ \A u : \A r \in Syncs : Synced(syncs[r].to, u)' <=> Synced(syncs[r].to, u)
      /\ Dated' = Dated /\ MarksBehind' /\ Meetings' /\ NothingSkippedIsLost'
  BY <1>1, <1>c, FrameKeeps
<1>m. \A r \in Syncs : /\ syncs'[r].cur = syncs[r].cur /\ syncs'[r].found = syncs[r].found
                       /\ syncs'[r].pc = syncs[r].pc
  BY <1>1 DEF Moves
<1>w. \A r \in Syncs : Works(r)' <=> Works(r)
  BY <1>m DEF Works
<1>a. \A r \in Syncs : Ahead(r)' \subseteq Ahead(r) /\ \A y \in Ahead(r) : y \in Ahead(r)' \/ (r = s /\ y = x)
  BY <1>1 DEF Ahead, Moves
<1>x. /\ syncs[s].incremental
      /\ \A u \in Dated : x.user = u /\ Older(u, syncs[s].start) => Older(u, syncs[s].wm)
  <2>1. \A u \in Dated : x.user = u /\ Older(u, syncs[s].start) => x.row = users[u]
    BY DEF SyncInv, ListingsCurrent, Ahead
  <2> QED BY <2>1 DEF Older, Skipped
<1>3. SendsInOrder'
  <2>1. \A r \in Syncs : ~Works(r) => syncs'[r].todo = {}
    BY <1>1 DEF SyncInv, SendsInOrder, Works, Moves
  <2> QED BY <1>f, <1>m, <1>w, <2>1 DEF SyncInv, SendsInOrder, SameMarks
<1>4. ProbesHold'
  BY <1>f, <1>m DEF SyncInv, ProbesHold, SameMarks
<1>5. ListingsCurrent'
  BY <1>a, <1>f DEF SyncInv, ListingsCurrent
<1>6. PassedAreSynced'
  <2> SUFFICES ASSUME NEW r \in Syncs, Running(r)', syncs'[r].whole, NEW u \in Trusted(syncs[r].to)'
               PROVE  Arrived(r, u)'
    BY DEF PassedAreSynced
  <2>1. Arrived(r, u) /\ u \in Dated
    BY <1>f, TrustedAreUsers DEF SyncInv, PassedAreSynced, SameMarks
  <2> QED BY <1>a, <1>f, <1>w, <1>x, <2>1 DEF Arrived, SameMarks
<1>7. PassedBehind'
  <2> SUFFICES ASSUME NEW r \in Syncs, NEW t \in Syncs, r # t, Running(r)', Running(t)',
                      syncs'[r].to = syncs'[t].to, syncs'[r].whole, NEW u \in Trusted(syncs[t].to)'
               PROVE  Reached(r, t, u)'
    BY DEF PassedBehind
  <2>1. Reached(r, t, u) /\ u \in Dated
    BY <1>f, TrustedAreUsers DEF SyncInv, PassedBehind, SameMarks
  <2> QED BY <1>a, <1>f, <1>w, <1>x, <2>1 DEF Reached, SameMarks
<1> QED BY <1>3, <1>4, <1>5, <1>6, <1>7, <1>f DEF SyncInv

\* Who is probed is still ahead, and who is found is there.
LEMMA ProbeKeeps ==
    ASSUME SyncInv, NEW s \in Syncs, NEW x \in syncs[s].todo, NEW found \in BOOLEAN, ProvisioningTypeOK',
           syncs[s].pc = "users", found => remote[syncs[s].to][x.user].present,
           syncs' = [syncs EXCEPT ![s] = [syncs[s] EXCEPT !.pc = "send", !.todo = @ \ {x}, !.cur = {x}, !.found = found]],
           UNCHANGED <<users, remote, watermark, now, late, restored, vouched, failed, crossed, met>>
    PROVE  SyncInv'
<1>1. /\ Moves(s) /\ SameMarks(s) /\ syncs'[s].pc = "send" /\ syncs'[s].cur = {x}
      /\ syncs'[s].todo = syncs[s].todo \ {x} /\ syncs'[s].found = found
  BY ProbeEffect DEF SyncInv
<1>c. syncs[s].cur = {} /\ Running(s) /\ Running(s)'
  BY <1>1 DEF SyncInv, SendsInOrder, Running
<1>f. /\ \A r \in Syncs : SameMarks(r) /\ (Running(r)' <=> Running(r))
      /\ \A r \in Syncs : Trusted(syncs[r].to)' = Trusted(syncs[r].to)
      /\ \A u : \A r \in Syncs : /\ Older(u, syncs[r].wm)' <=> Older(u, syncs[r].wm)
                                 /\ Older(u, syncs[r].start)' <=> Older(u, syncs[r].start)
      /\ \A u : \A r \in Syncs : Synced(syncs[r].to, u)' <=> Synced(syncs[r].to, u)
      /\ Dated' = Dated /\ MarksBehind' /\ Meetings' /\ NothingSkippedIsLost'
  BY <1>1, <1>c, FrameKeeps
<1>m. \A r \in Syncs : r # s => syncs'[r] = syncs[r]
  BY <1>1 DEF Moves
<1>a. \A r \in Syncs : Ahead(r)' = Ahead(r) /\ (Works(r)' <=> Works(r))
  <2>1. Ahead(s)' = Ahead(s) /\ Works(s)' /\ Works(s)
    BY <1>1, <1>c DEF Ahead, Works
  <2> QED BY <1>m, <2>1 DEF Ahead, Works
<1>3. SendsInOrder'
  BY <1>1, <1>f, <1>m, <1>c DEF SyncInv, SendsInOrder, Works, SameMarks
<1>4. ProbesHold'
  BY <1>1, <1>m DEF SyncInv, ProbesHold, SameMarks
<1>5. ListingsCurrent'
  BY <1>a, <1>f DEF SyncInv, ListingsCurrent
<1>6. PassedAreSynced'
  <2> SUFFICES ASSUME NEW r \in Syncs, Running(r)', syncs'[r].whole, NEW u \in Trusted(syncs[r].to)'
               PROVE  Arrived(r, u)'
    BY DEF PassedAreSynced
  <2>1. Arrived(r, u)
    BY <1>f DEF SyncInv, PassedAreSynced, SameMarks
  <2> QED BY <1>a, <1>f, <2>1 DEF Arrived, SameMarks
<1>7. PassedBehind'
  BY <1>a, <1>f DEF SyncInv, PassedBehind, Reached, SameMarks
<1> QED BY <1>3, <1>4, <1>5, <1>6, <1>7, <1>f DEF SyncInv

\* A sync that is through has sent everybody with a row older than its start,
\* which becomes the watermark of its target, if it has skipped nobody in vain.
LEMMA FinishKeeps ==
    ASSUME SyncInv, NEW s \in Syncs, FinishSync(s), ProvisioningTypeOK'
    PROVE  SyncInv'
<1>1. /\ Moves(s) /\ syncs[s].pc = "users" /\ syncs[s].todo = {}
      /\ syncs'[s].pc = "idle" /\ syncs'[s].todo = {} /\ syncs'[s].cur = {}
      /\ syncs'[s].start = 0 /\ syncs'[s].wm = 0
  BY FinishEffect DEF SyncInv
<1>2. /\ watermark' = syncs[s].start /\ met' = met \ {s}
      /\ \A t \in vouched' : syncs[s].whole /\ t = syncs[s].to
      /\ UNCHANGED <<users, remote, now, late, restored, failed, crossed>>
  BY DEF FinishSync, sent
<1>m. \A r \in Syncs : r # s => syncs'[r] = syncs[r]
  BY <1>1 DEF Moves
<1>a. Ahead(s) = {} /\ Works(s) /\ Running(s)
  BY <1>1 DEF SyncInv, SendsInOrder, Ahead, Works, Running
<1>k. /\ Dated' = Dated /\ \A t : Trusted(t)' = Trusted(t)
      /\ \A t, u : Synced(t, u)' <=> Synced(t, u)
      /\ \A r \in Syncs : Running(r)' => r # s /\ Running(r) /\ Trusted(syncs[r].to)' = Trusted(syncs[r].to)
  BY <1>1, <1>2, <1>m DEF Trusted, Dated, Running, Synced
<1>3. SendsInOrder'
  BY <1>1, <1>2, <1>m DEF SyncInv, SendsInOrder, Works
<1>4. ProbesHold'
  BY <1>1, <1>2, <1>m DEF SyncInv, ProbesHold
<1>5. ListingsCurrent'
  BY <1>1, <1>2, <1>m, <1>k DEF SyncInv, ListingsCurrent, Ahead, Older
<1>6. PassedAreSynced'
  BY <1>2, <1>m, <1>k DEF SyncInv, PassedAreSynced, Arrived, Ahead, Older, Works, Synced
<1>7. MarksBehind'
  <2> SUFFICES ASSUME NEW t \in Syncs, Running(t)', syncs'[t].to \in vouched', NEW u \in Trusted(syncs[t].to)',
                      Older(u, watermark)'
               PROVE  Older(u, syncs[t].start)'
    BY DEF MarksBehind
  <2>1. t # s /\ Running(t) /\ syncs'[t] = syncs[t] /\ u \in Trusted(syncs[t].to)
    BY <1>m, <1>k
  <2>2. syncs[s].whole /\ syncs[s].to = syncs[t].to /\ Older(u, syncs[s].start)
    BY <1>2, <2>1 DEF Older
  <2>3. Reached(s, t, u)
    BY <1>a, <2>1, <2>2 DEF SyncInv, PassedBehind
  <2> QED BY <1>2, <1>a, <2>1, <2>2, <2>3 DEF Reached, Older
<1>8. PassedBehind'
  BY <1>2, <1>m, <1>k DEF SyncInv, PassedBehind, Reached, Ahead, Older, Works
<1>9. Meetings'
  <2>1. ASSUME NEW r \in Syncs, syncs'[r].pc # "idle", r \notin met'
        PROVE  /\ r # s /\ syncs'[r] = syncs[r] /\ Others(r, syncs[r].to) = {}
               /\ Others(r, syncs[r].to)' = {}
    <3>1. r # s /\ syncs'[r] = syncs[r] /\ r \notin met
      BY <1>1, <1>2, <1>m, <2>1
    <3>2. Others(r, syncs[r].to) = {}
      BY <2>1, <3>1 DEF SyncInv, Meetings
    <3> QED BY <1>1, <1>m, <3>1, <3>2 DEF Others
  <2>2. ASSUME NEW r \in Syncs, Running(r)', r \notin met', syncs'[r].to \in vouched'
        PROVE  FALSE
    <3>1. syncs'[r].pc # "idle"
      BY <2>2 DEF Running
    <3>2. r # s /\ syncs[r].to = syncs[s].to /\ Others(r, syncs[r].to) = {}
      BY <1>2, <2>1, <2>2, <3>1
    <3> QED BY <1>1, <3>2 DEF Others
  <2> QED BY <2>1, <2>2 DEF Meetings
<1>10. NothingSkippedIsLost'
  <2> SUFFICES ASSUME NEW t \in vouched', NEW u \in Trusted(t)', Older(u, watermark)'
               PROVE  Synced(t, u)'
    BY DEF NothingSkippedIsLost, Lost
  <2>1. syncs[s].whole /\ t = syncs[s].to /\ u \in Trusted(t) /\ Older(u, syncs[s].start)
    BY <1>2, <1>k DEF Older
  <2>2. Arrived(s, u)
    BY <1>a, <2>1 DEF SyncInv, PassedAreSynced
  <2> QED BY <1>a, <1>k, <2>1, <2>2 DEF Arrived
<1> QED BY <1>3, <1>4, <1>5, <1>6, <1>7, <1>8, <1>9, <1>10 DEF SyncInv

\* A target agrees with the row it was sent, when the probe was right.
LEMMA SentAgrees ==
    ASSUME NEW r \in RemoteUser, NEW row \in UserRow, NEW found \in BOOLEAN, r.active => r.present
    PROVE  LET p == Provisioned(r, row, found)
           IN  /\ found = r.present => IF row.enabled THEN p.present /\ p.active /\ p.version = row.version
                                                      ELSE ~p.active
               /\ r.present => p.present
               /\ (found => r.present) => (p.active => p.present)
BY DEF Provisioned, RemoteUser, UserRow

\* What a request does at the target: the user it is about may change there, and
\* agrees with the listed row when the probe was right and nothing failed.
LEMMA RequestKeeps ==
    ASSUME SyncInv, NEW s \in Syncs, NEW x \in syncs[s].cur, NEW fails \in BOOLEAN,
           syncs[s].to \in Targets, x.user \in Users, x.row \in UserRow, syncs[s].found \in BOOLEAN,
           remote' = IF fails THEN remote
                     ELSE [remote EXCEPT ![syncs[s].to][x.user] =
                             Provisioned(remote[syncs[s].to][x.user], x.row, syncs[s].found)]
    PROVE  /\ \A t \in Targets, u \in Users :
                 /\ t # syncs[s].to \/ u # x.user => remote'[t][u] = remote[t][u]
                 /\ remote[t][u].present => remote'[t][u].present
                 /\ remote'[t][u].active => remote'[t][u].present
           /\ ~fails /\ syncs[s].found = remote[syncs[s].to][x.user].present =>
                LET p == remote'[syncs[s].to][x.user]
                IN  IF x.row.enabled THEN p.present /\ p.active /\ p.version = x.row.version ELSE ~p.active
<1>t. /\ remote \in [Targets -> RemoteUsers]
      /\ \A t \in Targets, u \in Users : remote[t][u].active => remote[t][u].present
      /\ syncs[s].found => remote[syncs[s].to][x.user].present
  BY DEF SyncInv, ProvisioningTypeOK, SendsInOrder, ProbesHold
<1>1. \A t \in Targets : remote[t] \in [Users -> RemoteUser]
  BY <1>t DEF RemoteUsers
<1> DEFINE p == Provisioned(remote[syncs[s].to][x.user], x.row, syncs[s].found)
<1>2. /\ remote[syncs[s].to][x.user].present => p.present
      /\ p.active => p.present
      /\ syncs[s].found = remote[syncs[s].to][x.user].present =>
           IF x.row.enabled THEN p.present /\ p.active /\ p.version = x.row.version ELSE ~p.active
  <2>1. /\ remote[syncs[s].to][x.user] \in RemoteUser
        /\ remote[syncs[s].to][x.user].active => remote[syncs[s].to][x.user].present
    BY <1>1, <1>t
  <2> QED BY <1>t, <2>1, SentAgrees
<1>3. remote' = IF fails THEN remote ELSE [remote EXCEPT ![syncs[s].to][x.user] = p]
  OBVIOUS
<1> HIDE DEF p
<1>4. CASE fails
  BY <1>3, <1>4, <1>t
<1>5. CASE ~fails
  <2>1. remote' = [remote EXCEPT ![syncs[s].to][x.user] = p]
    BY <1>3, <1>5
  <2>2. /\ remote'[syncs[s].to][x.user] = p
        /\ \A t \in Targets, u \in Users : t # syncs[s].to \/ u # x.user => remote'[t][u] = remote[t][u]
    BY <1>1, <1>t, <2>1
  <2> QED BY <1>2, <1>5, <1>t, <2>2
<1> QED BY <1>4, <1>5

\* Who has been sent is at the target as listed, unless the request failed or
\* another sync to the target was under way; a sync that has met no other also
\* settles what was in doubt before.
LEMMA SendKeeps ==
    ASSUME SyncInv, NEW s \in Syncs, SendUser(s), ProvisioningTypeOK'
    PROVE  SyncInv'
<1> DEFINE to == syncs[s].to
<1>t. /\ users \in [Users -> UserRow] /\ syncs \in [Syncs -> Sync] /\ to \in Targets /\ vouched \subseteq Targets
      /\ \A r \in Syncs : Running(r) => syncs[r].to \in Targets
  <2>1. \A r \in Syncs : syncs[r].pc # "idle" => syncs[r].to \in Targets
    BY TargetsKnown DEF SyncInv
  <2> QED BY <2>1 DEF SyncInv, ProvisioningTypeOK, SendUser, Running
<1>1. /\ Moves(s) /\ SameMarks(s) /\ syncs[s].pc = "send" /\ syncs'[s].pc = "users"
      /\ syncs'[s].cur = {} /\ syncs'[s].todo = syncs[s].todo
  BY SentEffect DEF SyncInv
<1>2. UNCHANGED <<users, watermark, now, late, restored, vouched, met>>
  BY DEF SendUser
<1>3. PICK x \in syncs[s].cur, fails \in BOOLEAN :
        /\ remote' = IF fails THEN remote
                     ELSE [remote EXCEPT ![to][x.user] = Provisioned(remote[to][x.user], x.row, syncs[s].found)]
        /\ failed' = Doubt(failed, <<to, x.user>>, fails \/ syncs[s].found # remote[to][x.user].present, s \notin met)
        /\ crossed' = Doubt(crossed, <<to, x.user>>, Others(s, to) # {}, s \notin met)
  BY RequestEffect DEF SyncInv
<1>x. /\ x.user \in Users /\ x.row \in UserRow /\ syncs[s].found \in BOOLEAN
      /\ \A y \in syncs[s].cur : y = x
  BY <1>t DEF Sync, Listed, SyncInv, SendsInOrder
<1>m. \A r \in Syncs : /\ r # s => syncs'[r] = syncs[r]
                       /\ SameMarks(r) /\ (Works(r)' <=> Works(r)) /\ (Running(r)' <=> Running(r))
  BY <1>1 DEF Moves, SameMarks, Works, Running
<1>w. Works(s) /\ Running(s) /\ s \in Syncs
  BY <1>1 DEF Works, Running
<1>r. /\ \A t \in Targets, u \in Users :
            /\ t # to \/ u # x.user => remote'[t][u] = remote[t][u]
            /\ remote[t][u].present => remote'[t][u].present
            /\ remote'[t][u].active => remote'[t][u].present
      /\ ~fails /\ syncs[s].found = remote[to][x.user].present =>
           LET p == remote'[to][x.user]
           IN  IF x.row.enabled THEN p.present /\ p.active /\ p.version = x.row.version ELSE ~p.active
  BY <1>3, <1>t, <1>x, RequestKeeps
<1>a. \A r \in Syncs : Ahead(r)' \subseteq Ahead(r) /\ \A y \in Ahead(r) : y \in Ahead(r)' \/ (r = s /\ y = x)
  <2>1. Ahead(s)' = syncs[s].todo /\ Ahead(s) = syncs[s].todo \cup syncs[s].cur
    BY <1>1 DEF Ahead
  <2>2. \A r \in Syncs : r # s => Ahead(r)' = Ahead(r)
    BY <1>m DEF Ahead
  <2> QED BY <1>x, <2>1, <2>2
<1>o. \A u : /\ Older(u, watermark)' <=> Older(u, watermark)
             /\ \A r \in Syncs : /\ Older(u, syncs[r].wm)' <=> Older(u, syncs[r].wm)
                                 /\ Older(u, syncs[r].start)' <=> Older(u, syncs[r].start)
  BY <1>m, <1>2 DEF Older, SameMarks
<1>u. Dated' = Dated /\ \A t : Trusted(t) \subseteq Users /\ Trusted(t)' \subseteq Dated
  BY <1>2 DEF Trusted, Dated
<1>b. \A t \in Targets, u \in Users : t # to \/ u # x.user =>
        (u \in Trusted(t)' <=> u \in Trusted(t)) /\ (Synced(t, u)' <=> Synced(t, u))
  <2>1. \A t, u : t # to \/ u # x.user => <<t, u>> # <<to, x.user>>
    OBVIOUS
  <2>2. \A t, u : t # to \/ u # x.user =>
          (<<t, u>> \in failed' <=> <<t, u>> \in failed) /\ (<<t, u>> \in crossed' <=> <<t, u>> \in crossed)
    BY <1>3, <2>1 DEF Doubt
  <2>3. \A t, u : t # to \/ u # x.user => (u \in Trusted(t)' <=> u \in Trusted(t))
    BY <1>u, <2>2 DEF Trusted
  <2>4. \A t \in Targets, u \in Users : t # to \/ u # x.user => (Synced(t, u)' <=> Synced(t, u))
    BY <1>2, <1>r DEF Synced
  <2> QED BY <2>3, <2>4
<1>n. /\ watermark \in Nat /\ \A r \in Syncs : syncs[r].start \in Nat /\ syncs[r].wm \in Nat
      /\ \A u \in Users : users[u].updated \in Nat
      /\ syncs[s].wm <= syncs[s].start
  BY Numbers DEF SyncInv, SendsInOrder
<1>c. ASSUME NEW t \in Targets, t = to, x.user \in Trusted(t)'
      PROVE  /\ \A r \in Syncs : r # s /\ Running(r) => syncs[r].to # to
             /\ Older(x.user, syncs[s].start) => Synced(t, x.user)'
             /\ to \in vouched /\ Older(x.user, watermark) => Older(x.user, syncs[s].start)
  <2>1. /\ x.user \in Dated /\ <<to, x.user>> \notin failed' /\ <<to, x.user>> \notin crossed'
    BY <1>c, <1>u DEF Trusted
  <2>2. /\ ~fails /\ syncs[s].found = remote[to][x.user].present /\ Others(s, to) = {}
        /\ s \in met => <<to, x.user>> \notin failed /\ <<to, x.user>> \notin crossed
    BY <1>3, <2>1 DEF Doubt
  <2>3. \A r \in Syncs : r # s /\ Running(r) => syncs[r].to # to
    BY <2>2 DEF Others, Running
  <2>4. ASSUME Older(x.user, syncs[s].start) PROVE Synced(t, x.user)'
    <3>1. x.row = users[x.user]
      BY <2>1, <2>4 DEF SyncInv, ListingsCurrent, Ahead
    <3>2. LET p == remote'[to][x.user]
          IN  IF x.row.enabled THEN p.present /\ p.active /\ p.version = x.row.version ELSE ~p.active
      BY <1>r, <2>2
    <3> QED BY <1>2, <1>c, <3>1, <3>2 DEF Synced
  <2>5. ASSUME to \in vouched, Older(x.user, watermark) PROVE Older(x.user, syncs[s].start)
    <3>1. CASE s \in met
      <4>1. x.user \in Trusted(to)
        BY <2>1, <2>2, <3>1 DEF Trusted
      <4> QED BY <1>w, <2>5, <4>1 DEF SyncInv, MarksBehind
    <3>2. CASE s \notin met
      <4>1. watermark <= syncs[s].start
        BY <1>w, <2>5, <3>2 DEF SyncInv, Meetings
      <4> QED BY <1>n, <1>x, <2>5, <4>1 DEF Older
    <3> QED BY <3>1, <3>2
  <2> QED BY <2>3, <2>4, <2>5
<1>e. Older(x.user, syncs[s].wm) => Older(x.user, syncs[s].start)
  BY <1>n, <1>x DEF Older
<1>4. SendsInOrder'
  <2>1. \A r \in Syncs : \A y, z \in syncs'[r].cur : y = z
    BY <1>1, <1>m DEF SyncInv, SendsInOrder
  <2>2. \A r \in Syncs : syncs'[r].pc # "send" => syncs'[r].cur = {}
    BY <1>1, <1>m DEF SyncInv, SendsInOrder
  <2>3. \A r \in Syncs : ~Works(r)' => syncs'[r].todo = {}
    BY <1>1, <1>m, <1>w DEF SyncInv, SendsInOrder
  <2>4. \A r \in Syncs : syncs'[r].wm <= syncs'[r].start
    BY <1>m DEF SyncInv, SendsInOrder, SameMarks
  <2> QED BY <1>r, <2>1, <2>2, <2>3, <2>4 DEF SendsInOrder
<1>5. ProbesHold'
  <2> SUFFICES ASSUME NEW r \in Syncs, NEW y \in syncs'[r].cur, syncs'[r].found
               PROVE  remote'[syncs'[r].to][y.user].present
    BY DEF ProbesHold
  <2>1. r # s /\ syncs'[r] = syncs[r]
    BY <1>1, <1>m
  <2>2. Running(r) /\ y.user \in Users
    BY <1>t, <2>1 DEF Sync, Listed, SyncInv, SendsInOrder, Running
  <2>3. remote[syncs[r].to][y.user].present
    BY <2>1 DEF SyncInv, ProbesHold
  <2> QED BY <1>r, <1>t, <2>1, <2>2, <2>3
<1>6. ListingsCurrent'
  BY <1>2, <1>a, <1>u, <1>o DEF SyncInv, ListingsCurrent
<1>7. PassedAreSynced'
  <2> SUFFICES ASSUME NEW r \in Syncs, Running(r)', syncs'[r].whole, NEW u \in Trusted(syncs[r].to)'
               PROVE  Arrived(r, u)'
    BY DEF PassedAreSynced
  <2>0. Running(r) /\ syncs[r].whole /\ syncs'[r].to = syncs[r].to /\ syncs'[r].incremental = syncs[r].incremental
    BY <1>m DEF SameMarks
  <2>1. u \in Users /\ syncs[r].to \in Targets /\ u \in Trusted(syncs[r].to)'
    BY <1>t, <1>u, <2>0 DEF Trusted, Dated
  <2>2. CASE syncs[r].to = to /\ u = x.user
    <3>0. \A t \in Targets : t = to /\ u \in Trusted(t)' =>
            r = s /\ (Older(u, syncs[s].start) => Synced(t, u)')
      BY <1>c, <2>0, <2>2
    <3>1. r = s /\ (Older(u, syncs[s].start) => Synced(syncs[r].to, u)')
      BY <2>0, <2>1, <2>2, <3>0
    <3> QED BY <1>e, <1>o, <2>0, <2>2, <3>1 DEF Arrived
  <2>3. CASE syncs[r].to # to \/ u # x.user
    <3>1. u \in Trusted(syncs[r].to) /\ (Synced(syncs[r].to, u)' <=> Synced(syncs[r].to, u))
      BY <1>b, <2>0, <2>1, <2>3
    <3>2. Arrived(r, u)
      BY <2>0, <3>1 DEF SyncInv, PassedAreSynced
    <3> QED BY <1>a, <1>m, <1>o, <2>0, <2>3, <3>1, <3>2 DEF Arrived
  <2> QED BY <2>2, <2>3
<1>8. MarksBehind'
  <2> SUFFICES ASSUME NEW t \in Syncs, Running(t)', syncs'[t].to \in vouched', NEW u \in Trusted(syncs[t].to)',
                      Older(u, watermark)'
               PROVE  Older(u, syncs[t].start)'
    BY DEF MarksBehind
  <2>0. Running(t) /\ syncs'[t].to = syncs[t].to /\ syncs[t].to \in vouched /\ Older(u, watermark)
    BY <1>2, <1>m, <1>o DEF SameMarks
  <2>1. u \in Users /\ syncs[t].to \in Targets /\ u \in Trusted(syncs[t].to)'
    BY <1>t, <1>u, <2>0 DEF Trusted, Dated
  <2>2. CASE syncs[t].to = to /\ u = x.user
    <3>0. \A d \in Targets : d = to /\ u \in Trusted(d)' => t = s /\ Older(u, syncs[s].start)
      BY <1>c, <2>0, <2>2
    <3>1. t = s /\ Older(u, syncs[s].start)
      BY <2>0, <2>1, <2>2, <3>0
    <3> QED BY <1>o, <3>1
  <2>3. CASE syncs[t].to # to \/ u # x.user
    BY <1>b, <1>o, <2>0, <2>1, <2>3 DEF SyncInv, MarksBehind
  <2> QED BY <2>2, <2>3
<1>9. PassedBehind'
  <2> SUFFICES ASSUME NEW r \in Syncs, NEW t \in Syncs, r # t, Running(r)', Running(t)',
                      syncs'[r].to = syncs'[t].to, syncs'[r].whole, NEW u \in Trusted(syncs[t].to)'
               PROVE  Reached(r, t, u)'
    BY DEF PassedBehind
  <2>0. /\ Running(r) /\ Running(t) /\ syncs[r].to = syncs[t].to /\ syncs[r].whole
        /\ syncs'[t].to = syncs[t].to /\ syncs'[r].incremental = syncs[r].incremental
    BY <1>m DEF SameMarks
  <2>1. u \in Users /\ syncs[t].to \in Targets /\ u \in Trusted(syncs[t].to)'
    BY <1>t, <1>u, <2>0 DEF Trusted, Dated
  <2>2. CASE syncs[t].to = to /\ u = x.user
    <3>1. \A d \in Targets : d = to /\ u \in Trusted(d)' => r = s /\ t = s
      BY <1>c, <2>0, <2>2
    <3> QED BY <2>0, <2>1, <2>2, <3>1
  <2>3. CASE syncs[t].to # to \/ u # x.user
    <3>1. u \in Trusted(syncs[t].to)
      BY <1>b, <2>0, <2>1, <2>3
    <3>2. Reached(r, t, u)
      BY <2>0, <3>1 DEF SyncInv, PassedBehind
    <3> QED BY <1>a, <1>m, <1>o, <2>0, <2>3, <3>2 DEF Reached
  <2> QED BY <2>2, <2>3
<1>10. Meetings'
  <2>1. \A r \in Syncs : syncs'[r].pc = "idle" <=> syncs[r].pc = "idle"
    BY <1>1, <1>m
  <2>2. \A r \in Syncs : syncs'[r].to = syncs[r].to /\ syncs'[r].start = syncs[r].start
    BY <1>m DEF SameMarks
  <2>3. \A r \in Syncs : Others(r, syncs[r].to)' = Others(r, syncs[r].to)
    BY <2>1, <2>2 DEF Others
  <2> QED BY <1>2, <1>m, <2>1, <2>2, <2>3 DEF SyncInv, Meetings
<1>11. NothingSkippedIsLost'
  <2> SUFFICES ASSUME NEW t \in vouched, NEW u \in Trusted(t)', Older(u, watermark)
               PROVE  Synced(t, u)'
    BY <1>2, <1>o DEF NothingSkippedIsLost, Lost
  <2>1. t \in Targets /\ u \in Users
    BY <1>t, <1>u DEF Trusted, Dated
  <2>2. CASE t = to /\ u = x.user
    BY <1>c, <2>1, <2>2
  <2>3. CASE t # to \/ u # x.user
    BY <1>b, <2>1, <2>3 DEF SyncInv, NothingSkippedIsLost, Lost
  <2> QED BY <2>2, <2>3
<1> QED BY <1>4, <1>5, <1>6, <1>7, <1>8, <1>9, <1>10, <1>11 DEF SyncInv

\* A row that changes disappears, is written in the present second, or belongs
\* to a user of whom nothing is claimed.
LEMMA ChangeKeeps ==
    ASSUME SyncInv, ProvisioningTypeOK', UNCHANGED <<remote, watermark, syncs, now, vouched, failed, crossed, met>>,
           \A u \in Dated' : \/ u \in Dated /\ users'[u] = users[u]
                             \/ ~users'[u].exists
                             \/ users'[u].updated = now
    PROVE  SyncInv'
<1>n. /\ now \in Nat /\ watermark \in Nat /\ watermark <= now
      /\ \A r \in Syncs : syncs[r].start \in Nat /\ syncs[r].start <= now /\ syncs[r].wm \in Nat /\ syncs[r].wm <= now
  BY Numbers DEF SyncInv
<1>o. ASSUME NEW u \in Dated', NEW n \in Nat, n <= now, users'[u].exists, users'[u].updated < n
      PROVE  u \in Dated /\ users'[u] = users[u] /\ Older(u, n)
  BY <1>n, <1>o DEF Older
<1>t. \A t : \A u \in Trusted(t)' : u \in Dated' /\ (u \in Dated => u \in Trusted(t))
  BY DEF Trusted
<1>y. \A t, u : users'[u] = users[u] => (Synced(t, u)' <=> Synced(t, u))
  BY DEF Synced
<1>b. \A u, n : users'[u] = users[u] => (Older(u, n)' <=> Older(u, n))
  BY DEF Older
<1>w. \A u \in Dated' : Older(u, watermark)' => u \in Dated /\ users'[u] = users[u] /\ Older(u, watermark)
  BY <1>n, <1>o DEF Older
<1>s. \A u \in Dated', r \in Syncs : Older(u, syncs[r].start)' =>
        u \in Dated /\ users'[u] = users[u] /\ Older(u, syncs[r].start)
  BY <1>n, <1>o DEF Older
<1>m. \A u \in Dated', r \in Syncs : Older(u, syncs[r].wm)' =>
        u \in Dated /\ users'[u] = users[u] /\ Older(u, syncs[r].wm)
  BY <1>n, <1>o DEF Older
<1>k. \A r \in Syncs : Ahead(r)' = Ahead(r) /\ (Works(r)' <=> Works(r)) /\ (Running(r)' <=> Running(r))
  BY DEF Ahead, Works, Running
<1>1. SendsInOrder' /\ ProbesHold'
  BY DEF SyncInv, SendsInOrder, ProbesHold, Works
<1>2. ListingsCurrent'
  BY <1>s, <1>k DEF SyncInv, ListingsCurrent
<1>3. PassedAreSynced'
  <2> SUFFICES ASSUME NEW r \in Syncs, Running(r)', syncs[r].whole, NEW u \in Trusted(syncs[r].to)'
               PROVE  Arrived(r, u)'
    BY DEF PassedAreSynced
  <2>1. u \in Dated' /\ (u \in Dated => u \in Trusted(syncs[r].to))
    BY <1>t DEF Trusted
  <2>2. u \in Dated => Arrived(r, u)
    BY <1>k, <2>1 DEF SyncInv, PassedAreSynced
  <2>3. users'[u] = users[u] => (Synced(syncs[r].to, u)' <=> Synced(syncs[r].to, u))
    BY DEF Synced
  <2> QED BY <1>s, <1>m, <1>k, <2>1, <2>2, <2>3 DEF Arrived
<1>4. MarksBehind'
  <2> SUFFICES ASSUME NEW t \in Syncs, Running(t)', syncs[t].to \in vouched, NEW u \in Trusted(syncs[t].to)',
                      Older(u, watermark)'
               PROVE  Older(u, syncs[t].start)'
    BY DEF MarksBehind
  <2>1. u \in Dated' /\ (u \in Dated => u \in Trusted(syncs[t].to))
    BY <1>t DEF Trusted
  <2>2. u \in Trusted(syncs[t].to) /\ users'[u] = users[u] /\ Older(u, watermark)
    BY <1>w, <2>1
  <2>3. Older(u, syncs[t].start)
    BY <1>k, <2>2 DEF SyncInv, MarksBehind
  <2> QED BY <2>2, <2>3 DEF Older
<1>5. PassedBehind'
  <2> SUFFICES ASSUME NEW r \in Syncs, NEW t \in Syncs, r # t, Running(r)', Running(t)',
                      syncs[r].to = syncs[t].to, syncs[r].whole, NEW u \in Trusted(syncs[t].to)'
               PROVE  Reached(r, t, u)'
    BY DEF PassedBehind
  <2>1. u \in Dated' /\ (u \in Dated => u \in Trusted(syncs[t].to))
    BY <1>t DEF Trusted
  <2>2. u \in Dated => Reached(r, t, u)
    BY <1>k, <2>1 DEF SyncInv, PassedBehind
  <2>3. users'[u] = users[u] => (Older(u, syncs[t].start)' <=> Older(u, syncs[t].start))
    BY DEF Older
  <2> QED BY <1>s, <1>m, <1>k, <2>1, <2>2, <2>3 DEF Reached
<1>6. Meetings'
  BY DEF SyncInv, Meetings, Others, Running
<1>7. NothingSkippedIsLost'
  <2> SUFFICES ASSUME NEW t \in vouched, NEW u \in Trusted(t)', Older(u, watermark)'
               PROVE  Synced(t, u)'
    BY DEF NothingSkippedIsLost, Lost
  <2> QED BY <1>t, <1>w, <1>y DEF SyncInv, NothingSkippedIsLost, Lost
<1> QED BY <1>1, <1>2, <1>3, <1>4, <1>5, <1>6, <1>7 DEF SyncInv

LEMMA SyncStep == ASSUME SyncInv, [ProvisioningNext]_provisioningVars PROVE SyncInv'
<1>t. /\ ProvisioningTypeOK /\ ProvisioningTypeOK'
  BY SyncTypeStep DEF SyncInv
<1>u. /\ users \in [Users -> UserRow] /\ remote \in [Targets -> RemoteUsers] /\ writes \in [Writers -> Write]
      /\ syncs \in [Syncs -> Sync] /\ now \in Nat
      /\ \A w \in Writers : writes[w].pc = "commit" => writes[w].at \in 1..now
  BY <1>t, ProvisioningAssumptions DEF ProvisioningTypeOK
<1>1. ASSUME NEW s \in Syncs, NEW i \in BOOLEAN, StartSync(s, i) PROVE SyncInv'
  BY <1>t, <1>1, StartKeeps
<1>2. ASSUME NEW s \in Syncs, ReadMarks(s) \/ ListUsers(s) PROVE SyncInv'
  BY <1>t, <1>2, ReadKeeps, ListKeeps
<1>3. ASSUME NEW s \in Syncs, NEW x \in syncs[s].todo, ProbeUser(s, x) PROVE SyncInv'
  <2>1. /\ syncs[s].pc = "users"
        /\ UNCHANGED <<users, remote, watermark, now, late, restored, vouched, failed, crossed, met>>
    BY <1>3 DEF ProbeUser, history, sent
  <2>2. CASE Skipped(syncs[s], x) /\ syncs' = [syncs EXCEPT ![s].todo = @ \ {x}]
    BY <1>t, <2>1, <2>2, SkipKeeps
  <2>3. ASSUME NEW found \in {remote[syncs[s].to][x.user].present} \cup (IF MayFail THEN {FALSE} ELSE {}),
               syncs' = [syncs EXCEPT ![s] =
                           [syncs[s] EXCEPT !.pc = "send", !.todo = @ \ {x}, !.cur = {x}, !.found = found]]
        PROVE  SyncInv'
    <3>1. remote[syncs[s].to][x.user].present \in BOOLEAN
      <4>1. x.user \in Users /\ syncs[s].to \in Targets
        BY <1>t, <1>u, <2>1, TargetsKnown DEF Sync, Listed
      <4>2. remote[syncs[s].to] \in [Users -> RemoteUser]
        BY <1>u, <4>1 DEF RemoteUsers
      <4> QED BY <4>1, <4>2 DEF RemoteUser
    <3>2. found \in BOOLEAN /\ (found => remote[syncs[s].to][x.user].present)
      BY <3>1
    <3> QED BY <1>t, <2>1, <2>3, <3>2, ProbeKeeps
  <2> QED BY <1>3, <2>2, <2>3 DEF ProbeUser
<1>4. ASSUME NEW s \in Syncs, SendUser(s) PROVE SyncInv'
  BY <1>t, <1>4, SendKeeps
<1>5. ASSUME NEW s \in Syncs, FinishSync(s) PROVE SyncInv'
  BY <1>t, <1>5, FinishKeeps
<1>6. ASSUME NEW w \in Writers, CommitWrite(w) PROVE SyncInv'
  <2> DEFINE q == writes[w]
  <2>1. UNCHANGED <<remote, watermark, syncs, now, vouched, failed, crossed, met>>
    BY <1>6 DEF CommitWrite, sent
  <2>2. q.user \in Users /\ q.at \in Nat /\ q.at <= now
    BY <1>6, <1>u DEF CommitWrite, Write
  <2>3. CASE users' = users /\ late' = late /\ restored' = restored
    BY <1>t, <2>1, <2>3, ChangeKeeps DEF Dated
  <2>4. CASE /\ users' = [users EXCEPT ![q.user] =
                            [exists |-> TRUE, enabled |-> q.enabled, version |-> @.version + 1, updated |-> q.at]]
             /\ late' = IF q.at < now THEN late \cup {q.user} ELSE late \ {q.user}
             /\ restored' = restored \ {q.user}
    <3>1. ASSUME NEW u \in Dated'
          PROVE  (u \in Dated /\ users'[u] = users[u]) \/ users'[u].updated = now
      <4>1. CASE u = q.user
        BY <1>u, <2>2, <2>4, <4>1 DEF Dated
      <4>2. CASE u # q.user
        BY <1>u, <2>1, <2>2, <2>4, <4>2 DEF Dated
      <4> QED BY <4>1, <4>2
    <3> QED BY <1>t, <2>1, <3>1, ChangeKeeps
  <2> QED BY <1>6, <2>3, <2>4 DEF CommitWrite
<1>7. ASSUME NEW v \in Users, DeleteUser(v) PROVE SyncInv'
  <2>1. UNCHANGED <<remote, watermark, syncs, now, late, restored, vouched, failed, crossed, met>>
    BY <1>7 DEF DeleteUser, history, sent
  <2>2. \A u \in Dated' : (u \in Dated /\ users'[u] = users[u]) \/ ~users'[u].exists
    <3>1. \A u \in Users : u # v => users'[u] = users[u]
      BY <1>7, <1>u DEF DeleteUser
    <3>2. ~users'[v].exists
      BY <1>7, <1>u DEF DeleteUser, UserRow
    <3> QED BY <2>1, <3>1, <3>2 DEF Dated
  <2> QED BY <1>t, <2>1, <2>2, ChangeKeeps
<1>8. ASSUME NEW v \in Users, RestoreUser(v) PROVE SyncInv'
  <2>1. /\ UNCHANGED <<remote, watermark, syncs, now, late, vouched, failed, crossed, met>>
        /\ restored' = restored \cup {v}
    BY <1>8 DEF RestoreUser, sent
  <2>2. \A u \in Dated' : u \in Dated /\ users'[u] = users[u]
    BY <1>8, <1>u, <2>1 DEF RestoreUser, Dated
  <2> QED BY <1>t, <2>1, <2>2, ChangeKeeps
<1>9. CASE Restart
  <2>1. /\ \A s \in Syncs : syncs'[s] = NoSync
        /\ watermark' = 0 /\ remote' = remote /\ users' = users
    BY <1>9 DEF Restart
  <2>2. \A s \in Syncs : /\ syncs'[s].pc = "idle" /\ syncs'[s].todo = {} /\ syncs'[s].cur = {}
                         /\ syncs'[s].wm = 0 /\ syncs'[s].start = 0
    BY <2>1, NoSyncTyped
  <2>3. SendsInOrder'
    BY <2>1, <2>2 DEF SyncInv, SendsInOrder, Works
  <2>4. ProbesHold' /\ ListingsCurrent'
    BY <2>2 DEF ProbesHold, ListingsCurrent, Ahead
  <2>5. PassedAreSynced' /\ MarksBehind' /\ PassedBehind' /\ Meetings'
    BY <2>2 DEF PassedAreSynced, MarksBehind, PassedBehind, Meetings, Running
  <2>6. NothingSkippedIsLost'
    <3>1. \A t : \A u \in Trusted(t)' : u \in Users /\ users[u].updated \in Nat
      BY <1>t, Numbers DEF Trusted, Dated
    <3> QED BY <2>1, <3>1 DEF NothingSkippedIsLost, Lost, Older
  <2> QED BY <1>t, <2>3, <2>4, <2>5, <2>6 DEF SyncInv
<1>10. CASE UNCHANGED <<users, remote, watermark, syncs, late, restored, vouched, failed, crossed, met>>
  BY <1>t, <1>10 DEF SyncInv, SendsInOrder, ProbesHold, ListingsCurrent, PassedAreSynced, Arrived, MarksBehind,
                     PassedBehind, Reached, Meetings, Others, NothingSkippedIsLost, Lost, Trusted, Dated, Older,
                     Synced, Ahead, Works, Running
<1>11. ASSUME (\E t \in Targets : SetTarget(t)) \/ ClearTarget \/ ClockTick PROVE SyncInv'
  BY <1>10, <1>11 DEF SetTarget, ClearTarget, ClockTick, history, sent
<1>12. ASSUME NEW w \in Writers, NEW u \in Users, NEW enabled \in BOOLEAN, StampWrite(w, u, enabled)
       PROVE  SyncInv'
  BY <1>10, <1>12 DEF StampWrite, history, sent
<1>13. CASE UNCHANGED provisioningVars
  BY <1>10, <1>13 DEF provisioningVars, history, sent
<1> QED BY <1>1, <1>2, <1>3, <1>4, <1>5, <1>6, <1>7, <1>8, <1>9, <1>11, <1>12, <1>13 DEF ProvisioningNext

\* No change that incremental syncs will skip is missing at the target the
\* watermark stands for, for any number of syncs, writers, users and targets that
\* are set in turn (Provisioner.Sync and SetTarget, scim/provision.go).
THEOREM SkippedSafe == ProvisioningSpec => []NothingSkippedIsLost
<1>1. ProvisioningInit => SyncInv
  <2> SUFFICES ASSUME ProvisioningInit PROVE SyncInv
    OBVIOUS
  <2>1. ProvisioningTypeOK
    BY InitTyped
  <2>2. \A s \in Syncs : /\ syncs[s].pc = "idle" /\ syncs[s].todo = {} /\ syncs[s].cur = {}
                         /\ syncs[s].wm = 0 /\ syncs[s].start = 0
    BY NoSyncTyped DEF ProvisioningInit
  <2>3. \A t \in Targets, u \in Users : ~remote[t][u].active
    BY DEF ProvisioningInit, AbsentUser
  <2>4. SendsInOrder
    BY <2>2, <2>3 DEF SendsInOrder
  <2>5. ProbesHold /\ ListingsCurrent /\ PassedAreSynced /\ MarksBehind /\ PassedBehind /\ Meetings
    BY <2>2 DEF ProbesHold, ListingsCurrent, PassedAreSynced, MarksBehind, PassedBehind, Meetings, Ahead, Running
  <2>6. NothingSkippedIsLost
    <3>1. watermark = 0
      BY DEF ProvisioningInit
    <3>2. \A t : \A u \in Trusted(t) : users[u].updated \in Nat
      BY <2>1, Numbers DEF Trusted, Dated
    <3> QED BY <3>1, <3>2 DEF NothingSkippedIsLost, Lost, Older
  <2> QED BY <2>1, <2>4, <2>5, <2>6 DEF SyncInv
<1>2. SyncInv /\ [ProvisioningNext]_provisioningVars => SyncInv'
  BY SyncStep
<1>3. SyncInv => NothingSkippedIsLost
  BY DEF SyncInv
<1> QED BY <1>1, <1>2, <1>3, PTL DEF ProvisioningSpec
=============================================================================
