---------------------------- MODULE SafeEviction ----------------------------
(***************************************************************************)
(* What the etcd-leave handshake promises about the eviction of one        *)
(* control-plane member, with none of its mechanism.  The eviction is held *)
(* by a hook.  It is released once, either silently, and then the member   *)
(* is not a joined member of etcd at that moment, or with a warning that   *)
(* the member may be left behind.  Only a released Machine is terminated.  *)
(***************************************************************************)
VARIABLES held,       \* the pre-terminate hook is on the Machine
          membership, \* "out", "in" or "removed" (never "in" again)
          warned,     \* the release was one that admits an orphan
          gone        \* CAPI has terminated the VM

vars == <<held, membership, warned, gone>>

Init == /\ held = TRUE /\ warned = FALSE /\ gone = FALSE
        /\ membership \in {"out", "in"}

\* The node joins etcd; a VM that is gone cannot.
Join == /\ membership = "out" /\ ~gone
        /\ membership' = "in"
        /\ UNCHANGED <<held, warned, gone>>

\* The member leaves etcd or is removed from it.
Leave == /\ membership = "in"
         /\ membership' = "removed"
         /\ UNCHANGED <<held, warned, gone>>

ReleaseSilently == /\ held /\ membership # "in"
                   /\ held' = FALSE
                   /\ UNCHANGED <<membership, warned, gone>>

ReleaseWarned == /\ held
                 /\ held' = FALSE /\ warned' = TRUE
                 /\ UNCHANGED <<membership, gone>>

Terminate == /\ ~held /\ ~gone
             /\ gone' = TRUE
             /\ UNCHANGED <<held, membership, warned>>

Next == Join \/ Leave \/ ReleaseSilently \/ ReleaseWarned \/ Terminate

Spec == Init /\ [][Next]_vars
=============================================================================
