---------------------------- MODULE MCLifecycle ----------------------------
(* Where the behaviours of Lifecycle start, and what may disturb each. *)
EXTENDS Lifecycle

Quiet == [faults |-> 0, lags |-> 0, restarts |-> 0, machines |-> 0, deletes |-> 0,
          pauses |-> 0, edits |-> 0, clusters |-> 0]

NewKCP(n) == [stage |-> "live", finalizer |-> FALSE, label |-> FALSE, paused |-> FALSE,
              replicas |-> n, t |-> Nil, meta |-> 0, error |-> NoError]
OldKCP(n) == [NewKCP(n) EXCEPT !.finalizer = TRUE, !.label = TRUE]
Live == [stage |-> "live", hook |-> TRUE, t |-> Nil, meta |-> 0]

Scenario(k, up, allowed) ==
  [kcp |-> k, machines |-> [n \in Names |-> IF n \in up THEN Live ELSE Absent],
   template |-> TRUE, cluster |-> [stage |-> "live", paused |-> FALSE], budget |-> allowed,
   foreign |-> {}, world |-> [undrainable |-> {}, timeouts |-> {}]]

\* A first Machine: beside objects that have the names it draws, with calls that
\* fail, a KCP that is deleted early, a Cluster that is late or goes first.
Founding ==
  { [Scenario(NewKCP(1), {}, [Quiet EXCEPT !.faults = 2, !.deletes = 1]) EXCEPT
       !.foreign = {<<1, "infra">>, <<2, "config">>}],
    [Scenario(NewKCP(1), {}, [Quiet EXCEPT !.faults = 1, !.restarts = 1, !.deletes = 1]) EXCEPT
       !.foreign = {<<1, "machine">>}],
    [Scenario(NewKCP(1), {}, [Quiet EXCEPT !.deletes = 1, !.clusters = 1, !.pauses = 4]) EXCEPT
       !.cluster = [stage |-> "absent", paused |-> FALSE]],
    Scenario(NewKCP(1), {}, [Quiet EXCEPT !.lags = 1, !.deletes = 1, !.restarts = 1]),
    [Scenario(NewKCP(1), {}, Quiet) EXCEPT !.foreign = {<<n, "infra">> : n \in 1..3}] }

\* An established HA control plane: a Machine missing, one being deleted, edits of
\* the template, a deletion beside all of it.
Running ==
  { Scenario(OldKCP(3), {1, 2}, [Quiet EXCEPT !.machines = 1]),
    Scenario(OldKCP(3), {1}, [Quiet EXCEPT !.deletes = 1]),
    Scenario(OldKCP(1), {1, 2}, [Quiet EXCEPT !.deletes = 1, !.machines = 1, !.faults = 1]),
    Scenario(OldKCP(1), {1}, [Quiet EXCEPT !.deletes = 1, !.machines = 1, !.pauses = 4]),
    [Scenario(OldKCP(1), {1, 2}, [Quiet EXCEPT !.edits = 1, !.machines = 1, !.faults = 1]) EXCEPT
       !.world = [undrainable |-> {1}, timeouts |-> {Nil, {-1}, {2}, {5}}]],
    [Scenario(OldKCP(1), {1}, [Quiet EXCEPT !.edits = 2, !.deletes = 1]) EXCEPT
       !.world = [undrainable |-> {1}, timeouts |-> {{2}, {5}}]] }

LateTemplate == {[Scenario(NewKCP(1), {}, Quiet) EXCEPT !.template = FALSE]}
SomeScenarios == Founding \cup Running \cup LateTemplate
=============================================================================
