--------------------------- MODULE MCControlPlane ---------------------------
(* Bounds for the runs of ControlPlane: what a behaviour may spend. *)
EXTENDS ControlPlane

Spending(bootstrap, edit, delete, fail, abandon, unreported, lag) ==
  [b \in Spends |-> CASE b = "bootstrap" -> bootstrap
                      [] b = "edit" -> edit [] b = "delete" -> delete
                      [] b = "fail" -> fail [] b = "abandon" -> abandon
                      [] b = "unreported" -> unreported [] b = "lag" -> lag]

\* An operator deletes only in an established control plane.
Quiet        == {Spending(1, 2, 0, 0, 0, 0, 0), Spending(0, 2, 1, 0, 0, 0, 0)}
\* Or with a wait for the cache that gives up.
QuietOrLag   == Quiet \cup {Spending(0, 1, 0, 0, 0, 0, 1)}
Everything   == {Spending(1, 2, 1, 1, 1, 1, 0)}
AfterDeletes == {Spending(0, 1, 2, 1, 0, 0, 0)}
=============================================================================
