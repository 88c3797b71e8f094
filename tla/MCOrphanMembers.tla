---- MODULE MCOrphanMembers ----
(* The instance of OrphanMembers that TLC checks. *)
EXTENDS OrphanMembers
====
