------------------------ MODULE MCWorkloadIdentity ------------------------
(* WorkloadIdentity with the constants of its .cfg files. *)
EXTENDS WorkloadIdentity
=============================================================================
