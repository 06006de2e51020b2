------------------------------ MODULE Recorder ------------------------------
(***************************************************************************)
(* The two ring buffers behind the logs: Recorder of audit/audit.go        *)
(* (sign-ins) and DirectoryRecorder of audit/directory.go (directory       *)
(* changes).  Each operation runs under the buffer's own mutex.            *)
(***************************************************************************)
EXTENDS Integers, Sequences

CONSTANTS
    Cap,        \* capacity of a ring
    NoEvent     \* the zero value of an entry

ASSUME RecorderAssumptions == Cap \in Nat \ {0}

Ring(Events) == [buf: [0..Cap-1 -> Events \cup {NoEvent}], next: 0..Cap-1, full: BOOLEAN]

\* New, NewDirectoryRecorder
NewRecorder == [buf |-> [i \in 0..Cap-1 |-> NoEvent], next |-> 0, full |-> FALSE]
NewDirectoryRecorder == [buf |-> [i \in 0..Cap-1 |-> NoEvent], next |-> 0, full |-> FALSE]

\* Mutant: wrapping around is not remembered.
RecordForgets(r, e) ==
    [buf |-> [r.buf EXCEPT ![r.next] = e], next |-> (r.next + 1) % Cap, full |-> FALSE]

Record(r, e) ==
    LET n == (r.next + 1) % Cap
    IN  [buf |-> [r.buf EXCEPT ![r.next] = e], next |-> n, full |-> r.full \/ n = 0]

RecordChange(r, e) ==
    LET n == (r.next + 1) % Cap
    IN  [buf |-> [r.buf EXCEPT ![r.next] = e], next |-> n, full |-> r.full \/ n = 0]

Held(r) == IF r.full THEN Cap ELSE r.next

\* The i-th entry counted back from the most recent write, from 0
Index(r, i) == (r.next - 1 - i + Cap) % Cap

\* List: the walk breaks off at the limit, if there is one.
List(r, limit) ==
    [i \in 1..(IF limit > 0 /\ limit < Held(r) THEN limit ELSE Held(r)) |-> r.buf[Index(r, i - 1)]]

\* List of the directory's recorder: the limit is first cut to what is held.
ListChanges(r, limit) ==
    [i \in 1..(IF limit <= 0 \/ limit > Held(r) THEN Held(r) ELSE limit) |->
        r.buf[(r.next - 1 - (i - 1) + Cap * 2) % Cap]]

Clear(r) == NewRecorder
=============================================================================
