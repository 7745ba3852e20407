---------------------------- MODULE MCOtaUpdate ----------------------------
(* OtaUpdate for TLC. *)
EXTENDS OtaUpdate
=============================================================================
