---------------------------- MODULE MCSSHFallback ----------------------------
(* What nodes push and workers fetch, for the runs of SSHFallback. *)
EXTENDS SSHFallback

File(ca, flaws, expired) == [flaws |-> flaws, ca |-> ca, server |-> 0, expired |-> expired]

SomePushes == {File(1, {}, FALSE), File(2, {}, FALSE), File(1, {}, TRUE), File(1, {"user"}, FALSE)}
SomeLegacy == {File(2, {}, FALSE), File(1, {"user", "structure"}, FALSE), File(1, {"structure"}, FALSE)}
SomeFiles  == {File(2, {}, FALSE), File(1, {"structure"}, FALSE)}

\* Another KCP's job while this one's node stays silent.
BusyPool == {[enabled |-> TRUE, ref |-> TRUE, events |-> 1, stops |-> 0]}

Budget(on, ref, e, s) == [enabled |-> on, ref |-> ref, events |-> e, stops |-> s]
SomeBudgets == {Budget(FALSE, TRUE, 3, 0), Budget(FALSE, TRUE, 2, 1), Budget(FALSE, FALSE, 2, 0),
                Budget(TRUE, TRUE, 1, 0), Budget(TRUE, TRUE, 0, 1)}
=============================================================================
