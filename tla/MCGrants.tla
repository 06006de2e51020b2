------------------------------ MODULE MCGrants ------------------------------
(***************************************************************************)
(* Small instances of Grants.  The opaque values and the requests are      *)
(* interchangeable, so their permutations are a sound symmetry for the     *)
(* invariants checked.                                                     *)
(***************************************************************************)
EXTENDS Grants, TLC

Symmetry == Permutations(Codes) \cup Permutations(Tokens) \cup Permutations(Requests)
=============================================================================
