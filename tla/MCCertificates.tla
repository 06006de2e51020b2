--------------------------- MODULE MCCertificates ---------------------------
(* Certificates instantiated for TLC. *)
EXTENDS Certificates, TLC
=============================================================================
