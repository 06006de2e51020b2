------------------------------ MODULE EventLog ------------------------------
(***************************************************************************)
(* What an in-memory log of the emulator promises (audit/audit.go and      *)
(* audit/directory.go): the most recent Cap events since it was last       *)
(* cleared, newest first.                                                  *)
(***************************************************************************)
EXTENDS Naturals, Sequences

CONSTANTS Events, Cap
VARIABLES
    log,
    clears      \* the requests that have cleared it

vars == <<log, clears>>

Newest(s, n) == SubSeq(s, 1, IF Len(s) < n THEN Len(s) ELSE n)

\* The logs a process may have when it is first looked at
Init == log \in UNION {[1..n -> Events] : n \in 0..Cap} /\ clears = {}

Append1(e) == log' = Newest(<<e>> \o log, Cap) /\ UNCHANGED clears

\* A log loses its entries only on request.
Clear == log' = <<>> /\ clears' # clears

Next == Clear \/ \E e \in Events : Append1(e)

Spec == Init /\ [][Next]_vars
=============================================================================
