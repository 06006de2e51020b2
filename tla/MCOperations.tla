---------------------------- MODULE MCOperations ----------------------------
(* Operations instantiated for TLC. *)
EXTENDS Operations, TLC

\* Sign-ins that are full, with the next slot in the middle, beside changes one
\* short of full: events overwrite, fill up and wrap around, and a cleared ring
\* fills again.
MCStarts == {<<r, q>> \in Earlier \X Earlier : r.full /\ r.next = 1 /\ ~q.full /\ q.next = 1}

MCFaultConfigs == {[error |-> TRUE, latency |-> FALSE, p |-> "0"],
                   [error |-> TRUE, latency |-> TRUE, p |-> "between"]}

MCClockRequests == {[offset |-> {2}, advance |-> {}, freeze |-> "freeze"],
                    [offset |-> {}, advance |-> {1}, freeze |-> "unfreeze"],
                    [offset |-> {}, advance |-> {}, freeze |-> "freeze"]}
=============================================================================
