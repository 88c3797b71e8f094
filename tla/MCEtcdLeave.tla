---------------------------- MODULE MCEtcdLeave ----------------------------
(* The leave and its queue have no sets to instantiate: the constants are in the .cfg files. *)
EXTENDS LeaveQueue
=============================================================================
