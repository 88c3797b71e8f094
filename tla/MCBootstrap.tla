----------------------------- MODULE MCBootstrap -----------------------------
(* The KairosConfigs of the runs of Bootstrap: one for each way through the    *)
(* controller, with the disturbances that way has to withstand.                *)
EXTENDS Bootstrap, TLC

Good == [initialized |-> TRUE, ref |-> "listed", kubeconfig |-> "endpoint", ca |-> "absent"]
Internal == [Good EXCEPT !.kubeconfig = "internal", !.ca = "same"]
Unanchored == [Good EXCEPT !.kubeconfig = "internal"]
NotUp == [initialized |-> FALSE, ref |-> "none", kubeconfig |-> "absent", ca |-> "absent"]

NoRole == [owner |-> "absent", rules |-> {}]
\* An older release's rules: every Secret by wildcard, one Secret only, or by name with
\* more verbs.
Broad == {Rule("secrets", {}, {"*"}), Rule("vmi", {"push"}, {"get"})}
Lesser == {Rule("secrets", {"push"}, {"get", "patch"})}
Named == {Rule("secrets", {"join", "contract", "push"}, {"get", "patch"}), Rule("*", {"etcd"}, {"patch", "update"})}

Quiet == [restarts |-> 0, losses |-> 0, lags |-> 0, pauses |-> 0, wipes |-> 0, deletes |-> 0,
          swaps |-> 0, outages |-> 0, delays |-> 0, overlaps |-> 0]

Config(role, dist, kind, join) ==
  [role |-> role, dist |-> dist, kind |-> kind, join |-> join, password |-> FALSE,
   orderly |-> TRUE, joins |-> TRUE, prompt |-> FALSE, controlPlanes |-> {}]

Scenario(c, given, allowed) ==
  [spec |-> c, deps |-> given, budget |-> allowed, cp |-> Good, role |-> NoRole, owned |-> TRUE,
   secrets |-> [n \in Names |-> Absent], dsn |-> NoName, name |-> NoName]

All == {"password", "token", "staging", "lb"}
Kubeadm(prompt) == [Config("worker", "kubeadm", "VSphere", "none") EXCEPT !.prompt = prompt]
Worker(dist, kind) == Config("worker", dist, kind, "none")
Data(mine) == [has |-> {"endpoint", "token"}, token |-> None, mine |-> mine]

\* Control planes: everything may be late, the cache lags, the manager restarts.
ControlPlaneScenarios ==
  { Scenario(Config("control-plane", "k0s", "VSphere", "join"), {}, [Quiet EXCEPT !.lags = 1]),
    Scenario(Config("control-plane", "k3s", "KubeVirt", "init"), {"staging"}, [Quiet EXCEPT !.restarts = 1]),
    Scenario(Config("control-plane", "k3s", "Docker", "single"), {"token"}, [Quiet EXCEPT !.pauses = 1, !.losses = 1]),
    Scenario([Config("control-plane", "k0s", "Metal3", "join") EXCEPT !.orderly = FALSE], {"staging"},
             [Quiet EXCEPT !.wipes = 1]),
    Scenario([Config("control-plane", "k0s", "VSphere", "single") EXCEPT !.password = TRUE], {"staging", "password"},
             [Quiet EXCEPT !.deletes = 1, !.lags = 1]),
    [Scenario(Config("control-plane", "k0s", "KubeVirt", "init"), All, [Quiet EXCEPT !.restarts = 1]) EXCEPT
       !.role = [owner |-> "cluster", rules |-> Broad], !.owned = FALSE],
    [Scenario(Config("control-plane", "k3s", "VSphere", "join"), All, [Quiet EXCEPT !.restarts = 1]) EXCEPT
       !.role = [owner |-> "config", rules |-> Named]],
    [Scenario(Config("control-plane", "k3s", "VSphere", "single"), All,
              [Quiet EXCEPT !.restarts = 1, !.overlaps = 1]) EXCEPT !.role = [owner |-> "cluster", rules |-> Lesser]],
    Scenario([Config("control-plane", "k3s", "Docker", "single") EXCEPT !.password = TRUE], {}, Quiet),
    [Scenario(Config("control-plane", "k0s", "VSphere", "single"), All, Quiet) EXCEPT
       !.secrets = [n \in Names |-> IF n = "kc" THEN Data(FALSE) ELSE Absent]] }

\* Workers of k0s and k3s.
WorkerScenarios ==
  { Scenario(Worker("k0s", "Fleet"), {}, [Quiet EXCEPT !.losses = 1, !.deletes = 1]),
    Scenario([Worker("k3s", "Other") EXCEPT !.orderly = FALSE], {"token"}, Quiet),
    Scenario([Worker("k3s", "VSphere") EXCEPT !.password = TRUE], {"token"}, Quiet),
    [Scenario(Worker("k0s", "VSphere"), All, [Quiet EXCEPT !.lags = 1]) EXCEPT
       !.secrets = [n \in Names |-> Data(TRUE)], !.dsn = "old", !.name = "kc"],
    [Scenario(Worker("k0s", "VSphere"), All, [Quiet EXCEPT !.wipes = 1, !.lags = 1]) EXCEPT
       !.secrets = [n \in Names |-> IF n = "old" THEN Data(TRUE) ELSE Absent], !.name = "old"] }

\* kubeadm workers: one late check, a lapsed token, an unreachable or an untrusted
\* workload cluster, a node that never joins, data deleted after the join, data on
\* record that carries no token.
KubeadmScenarios ==
  { [Scenario(Kubeadm(FALSE), All, Quiet) EXCEPT
       !.secrets = [n \in Names |-> IF n = "kc" THEN Data(TRUE) ELSE Absent], !.name = "kc"],
    Scenario(Kubeadm(TRUE), All, [Quiet EXCEPT !.delays = 1, !.lags = 1]),
    Scenario(Kubeadm(TRUE), All, [Quiet EXCEPT !.delays = 1, !.restarts = 1, !.losses = 1]),
    Scenario([Kubeadm(TRUE) EXCEPT !.joins = FALSE], All, [Quiet EXCEPT !.delays = 1]),
    Scenario(Kubeadm(FALSE), All, [Quiet EXCEPT !.delays = 3, !.outages = 1]),
    Scenario(Kubeadm(FALSE), All, [Quiet EXCEPT !.wipes = 1, !.deletes = 1]),
    Scenario([Kubeadm(FALSE) EXCEPT !.controlPlanes = {NotUp}, !.orderly = FALSE, !.joins = FALSE], All,
             [Quiet EXCEPT !.swaps = 1, !.deletes = 1]),
    [Scenario([Kubeadm(FALSE) EXCEPT !.controlPlanes = {Good, Unanchored, Internal}], All,
              [Quiet EXCEPT !.swaps = 3]) EXCEPT !.cp = NotUp] }

SomeScenarios == ControlPlaneScenarios \union WorkerScenarios \union KubeadmScenarios

\* The kubeadm scenarios are among those that HeldTokensAreKept is about.
ASSUME KeptTokens == TokenScenarios
=============================================================================
