--------------------------- MODULE MCProvisioning ---------------------------
(* Provisioning instantiated for TLC. *)
EXTENDS Provisioning, TLC

Symmetry == Permutations(Syncs) \cup Permutations(Writers) \cup Permutations(Targets)

\* Bound: while both syncs are under way, they go to the target that is set,
\* nothing has happened at another and no row carries an early second, or they go
\* to two targets, no user has changed and no request has failed.  What one sync
\* at a time does to two targets is not bounded, and the proof of SkippedSafe has
\* no such bound.
Overlap ==
    \/ \E s \in Syncs : syncs[s].pc = "idle"
    \/ /\ \A s \in Syncs : syncs[s].to = target
       /\ \A t \in Targets \ {target}, u \in Users : ~remote[t][u].present /\ <<t, u>> \notin failed
       /\ late = {} /\ restored = {}
    \/ /\ \E s \in Syncs : syncs[s].to = target
       /\ failed \cup crossed = {} /\ restored = {}
       /\ writes = [w \in Writers |-> NoWrite] /\ \A u \in Users : users[u] = FirstRow
=============================================================================
