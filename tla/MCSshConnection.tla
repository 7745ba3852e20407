-------------------------- MODULE MCSshConnection --------------------------
(* SshConnection for TLC. *)
EXTENDS SshConnection

MCOutputs == {[out |-> 5, err |-> 0], [out |-> 1, err |-> 1], [out |-> 0, err |-> 5]}
=============================================================================
