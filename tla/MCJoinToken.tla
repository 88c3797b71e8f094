---- MODULE MCJoinToken ----
(* The instance of JoinToken that TLC checks. *)
EXTENDS JoinToken
====
