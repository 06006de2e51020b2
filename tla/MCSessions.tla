----------------------------- MODULE MCSessions -----------------------------
(* Sessions instantiated for TLC. *)
EXTENDS Sessions, TLC

Symmetry == Permutations(Requests) \cup Permutations(Sids)
=============================================================================
