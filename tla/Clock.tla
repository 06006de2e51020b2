------------------------------- MODULE Clock --------------------------------
(***************************************************************************)
(* The controllable clock (clock/clock.go) that every time stamp of the    *)
(* emulator is read from.  Each operation runs under the clock's mutex.    *)
(***************************************************************************)
EXTENDS Integers

CONSTANT MaxReal    \* bound on real time

ASSUME ClockAssumptions == MaxReal \in Nat

VARIABLES
    real,       \* real time
    offset, frozen, frozenAt

clockVars == <<real, offset, frozen, frozenAt>>

ClockTypeOK == real \in 0..MaxReal /\ offset \in Int /\ frozen \in BOOLEAN /\ frozenAt \in Int

Now == IF frozen THEN frozenAt ELSE real + offset

ClockInit == real = 0 /\ offset = 0 /\ frozen = FALSE /\ frozenAt = 0

SetOffset(s) == offset' = s /\ frozen' = FALSE /\ UNCHANGED <<real, frozenAt>>

Advance(s) ==
    /\ IF frozen THEN frozenAt' = frozenAt + s /\ UNCHANGED offset
       ELSE offset' = offset + s /\ UNCHANGED frozenAt
    /\ UNCHANGED <<real, frozen>>

Freeze ==
    /\ frozenAt' = Now
    /\ frozen' = TRUE
    /\ UNCHANGED <<real, offset>>

\* Mutant: time resumes where it would be had it never been frozen.
UnfreezeJumps == frozen' = FALSE /\ UNCHANGED <<real, offset, frozenAt>>

Unfreeze ==
    /\ offset' = IF frozen THEN frozenAt - real ELSE offset
    /\ frozen' = FALSE
    /\ UNCHANGED <<real, frozenAt>>

Reset == offset' = 0 /\ frozen' = FALSE /\ frozenAt' = 0 /\ UNCHANGED real

\* Real time passes.
Tick ==
    /\ real < MaxReal
    /\ real' = real + 1
    /\ UNCHANGED <<offset, frozen, frozenAt>>
=============================================================================
