--------------------------- MODULE MCSigningKeys ----------------------------
(* SigningKeys instantiated for TLC. *)
EXTENDS SigningKeys

\* One value the handler refuses, one that publishes nothing, one that does.
MCGraces == {-1, 0, 1}
=============================================================================
