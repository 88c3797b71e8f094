------------------------------ MODULE Bootstrap ------------------------------
(***************************************************************************)
(* The KairosConfig controller: when it renders the bootstrap data of one  *)
(* Machine, what it waits for and how it is woken again, how it keeps the  *)
(* data up to date without changing its name, and the life of a kubeadm    *)
(* worker's token.                                                         *)
(*                                                                         *)
(* The infrastructure provider copies the bootstrap Secret into the VM     *)
(* once, when it creates it. A pass reads the KairosConfig from a cache    *)
(* that may lag, does its work in up to four steps, and patches what it    *)
(* changed when it ends; between the steps the rest of the world moves, or *)
(* the manager stops. A pass runs only when something queued it: a watch   *)
(* that fires, or a requeue the last pass asked for.                       *)
(***************************************************************************)
EXTENDS KubeadmJoin, NodePushRole

CONSTANT Scenarios    \* the KairosConfigs and Machines of the instance, and what may happen to them

VARIABLES
  spec,       \* the KairosConfig's spec and its Machine's infrastructure kind
  cluster,    \* the Cluster: provisioned, its endpoint, paused
  deps,       \* what others have published for a render to use
  machine,    \* the Machine: owns the config, its Secret name, providerID, Node
  infra,      \* the infrastructure machine
  vm,         \* the render the VM was created from
  age,        \* recheck intervals since the Machine was created, up to one past the cap
  status,     \* the KairosConfig's status
  seen,       \* the cached copy a pass reads
  secrets,    \* bootstrap Secrets by name
  userdata,   \* the copy CAPK makes for its VM
  object,     \* the KairosConfig: present, being deleted, gone
  pass,       \* the pass in progress
  queued,     \* the workqueue holds the KairosConfig
  timers,     \* requeues asked for
  budget      \* what may still go wrong

bootVars == <<spec, cluster, deps, machine, infra, vm, age, status, seen, secrets,
              userdata, object, pass, queued, timers, budget>>
vars == <<bootVars, joinVars, roleVars>>

\* The name a new Secret gets, and one an older release chose.
Names == {"kc", "old"}
NoName == "none"

\* A render carries `has' of what it may need, and a kubeadm worker's token.
Ingredients == {"endpoint", "providerID", "password", "token", "push", "lb"}
Renders == [has: SUBSET Ingredients, token: 0..MaxTokens, mine: BOOLEAN]
Absent == [has |-> {}, token |-> None, mine |-> FALSE]

Waits == {"none", "infrastructure", "failed", "push", "cap", "true"}
Statuses == [name: Names \union {NoName}, token: 0..MaxTokens, ready: BOOLEAN, created: BOOLEAN,
             failed: BOOLEAN, cond: Waits]
NewStatus == [name |-> NoName, token |-> None, ready |-> FALSE, created |-> FALSE,
              failed |-> FALSE, cond |-> "none"]

\* "soon" is the requeues of a few seconds and an error's backoff, "recheck" those
\* on the token's clock.
Requeues == {"soon", "recheck"}
Passes == [pc: {"idle", "render", "write", "patch"}, base: Statuses, st: Statuses,
           has: SUBSET Ingredients, token: 0..MaxTokens, more: Requeues \union {"none"},
           dsn: Names \union {NoName}]
Idle == [pc |-> "idle", base |-> NewStatus, st |-> NewStatus, has |-> {}, token |-> None,
         more |-> "none", dsn |-> NoName]

Clusters == [provisioned: BOOLEAN, endpoint: BOOLEAN, paused: BOOLEAN]
Machines == [owns: BOOLEAN, dsn: Names \union {NoName}, providerID: BOOLEAN, nodeRef: BOOLEAN]
Infras == [made: BOOLEAN, ready: BOOLEAN, providerID: BOOLEAN]
Published == {"password", "token", "staging", "lb"}
Specs == [role: {"control-plane", "worker"}, dist: {"k0s", "k3s", "kubeadm"},
          kind: {"VSphere", "KubeVirt", "Metal3", "Fleet", "Docker", "Other"},
          join: {"none", "single", "init", "join"}, password: BOOLEAN, orderly: BOOLEAN,
          joins: BOOLEAN, prompt: BOOLEAN, controlPlanes: SUBSET ControlPlanes]
Budgets == [restarts: Nat, losses: Nat, lags: Nat, pauses: Nat, wipes: Nat, deletes: Nat,
            swaps: Nat, outages: Nat, delays: Nat, overlaps: Nat]

ASSUME ScenarioAssumption ==
  Scenarios \subseteq [spec: Specs, deps: SUBSET Published, budget: Budgets, cp: ControlPlanes,
                       role: Roles, owned: BOOLEAN, secrets: [Names -> Renders],
                       dsn: Names \union {NoName}, name: Names \union {NoName}]

ControlPlaneRole == spec.role = "control-plane"
KubeadmWorker == spec.role = "worker" /\ spec.dist = "kubeadm"
isKubevirtMachine == spec.kind = "KubeVirt"
isMetal3Machine == spec.kind = "Metal3"
isFleetMachine == spec.kind = "Fleet"
OwnsProviderID == isMetal3Machine \/ isFleetMachine
supportsManagementEndpoint == spec.kind # "Docker"
Pushes == ControlPlaneRole /\ supportsManagementEndpoint

\* The infrastructure kinds whose machines the controller watches.
optionalInfraWatches == {"VSphere", "KubeVirt", "Metal3"}

\* What the node cannot do without, and cannot get later.
Needs ==
  (IF ControlPlaneRole \/ spec.dist = "k3s" THEN {"endpoint"} ELSE {})
    \union (IF spec.password THEN {"password"} ELSE {})
    \union (IF Pushes THEN {"push"} ELSE {})
    \union (IF ControlPlaneRole /\ isKubevirtMachine THEN {"lb"} ELSE {})
    \union (IF ~KubeadmWorker /\ (~ControlPlaneRole \/ spec.join = "join") THEN {"token"} ELSE {})

\* The names on record are of Secrets that this controller wrote, with what the node
\* needs, or that are gone; a kubeadm worker's may have lost its token, while no Machine
\* has taken it.
OnRecord ==
  /\ \A n \in Names : secrets[n].token = None /\ (secrets[n].mine => Needs \subseteq secrets[n].has)
  /\ \A n \in {machine.dsn, status.name} \ {NoName} : secrets[n] = Absent \/ secrets[n].mine
  /\ KubeadmWorker => \A n \in Names : secrets[n].mine => n = status.name /\ machine.dsn = NoName
  /\ (\E n \in Names : "push" \in secrets[n].has) => PushGrants \subseteq Permits(nodeRole.rules)

Init ==
  /\ \E s \in Scenarios :
       /\ spec = s.spec /\ budget = s.budget /\ deps = s.deps /\ cp = s.cp
       /\ nodeRole = s.role /\ migrator = NoWork
       /\ secrets = s.secrets
       /\ machine = [owns |-> s.owned, dsn |-> s.dsn, providerID |-> FALSE, nodeRef |-> FALSE]
       /\ infra = [made |-> FALSE, ready |-> FALSE, providerID |-> FALSE]
       /\ status = [NewStatus EXCEPT !.name = s.name] /\ seen = status
  /\ OnRecord
  /\ cluster = [provisioned |-> FALSE, endpoint |-> FALSE, paused |-> FALSE]
  /\ vm = Absent /\ age = 0 /\ userdata = "absent" /\ object = "present"
  /\ pass = Idle /\ queued = TRUE /\ timers = {}
  /\ reachable = TRUE /\ tokens = {} /\ left = [t \in TokenIDs |-> 0] /\ minted = 0

-----------------------------------------------------------------------------
(* A pass                                                                  *)

\* The pass is over but for the deferred patch of the working copy s.
Finish(s, more) == pass' = [pass EXCEPT !.pc = "patch", !.base = seen, !.st = s, !.more = more]
Conclude(s, more) == pass' = [pass EXCEPT !.pc = "patch", !.st = s, !.more = more]

\* Reconcile on an error of reconcileBootstrapData: recorded, and not retried.
Failed(s) == [s EXCEPT !.cond = "failed", !.failed = TRUE, !.ready = FALSE]
Succeeded(s) == [s EXCEPT !.cond = "true", !.failed = FALSE]

\* Mutant: no recheck once a node has joined, although a token is on record.
RecheckUntilJoined(s) == IF KubeadmWorker /\ ~machine.nodeRef THEN "recheck" ELSE "none"

\* When the kubeadm token must be looked at again.
kubeadmTokenRecheck(s) ==
  IF KubeadmWorker /\ (~machine.nodeRef \/ s.token # None) THEN "recheck" ELSE "none"

\* The status of a config whose data is written; on KubeVirt the pass also waits
\* for CAPK's copy, and repairs it, before it calls the data done.
Done(s) == [s EXCEPT !.ready = TRUE, !.created = TRUE]
sanitizeCapkUserdataSecret ==
  userdata' = IF isKubevirtMachine /\ userdata = "raw" THEN "clean" ELSE userdata
AwaitsUserdata == isKubevirtMachine /\ userdata = "absent"
AfterData(s) == IF AwaitsUserdata THEN Done(s) ELSE Succeeded(Done(s))
AfterDataMore(s) == IF AwaitsUserdata THEN "soon" ELSE kubeadmTokenRecheck(s)

StartsPass == pass.pc = "idle" /\ queued /\ queued' = FALSE

\* Paused, or not yet owned by a Machine: the next watch event brings it back.
SkipPass ==
  /\ StartsPass /\ object = "present"
  /\ ~machine.owns \/ cluster.paused
  /\ Finish(seen, "none")
  /\ UNCHANGED <<spec, cluster, deps, machine, infra, vm, age, status, seen, secrets, userdata,
                 object, timers, budget, joinVars, roleVars>>

Reconciles == StartsPass /\ object = "present" /\ machine.owns /\ ~cluster.paused

\* Mutant: an endpoint that is not published yet is not waited for.
EndpointNotAwaited == cluster.provisioned

ClusterReady == cluster.provisioned /\ (ControlPlaneRole => cluster.endpoint)

\* Nothing is rendered before the Cluster has what the render bakes in.
WaitForInfrastructure ==
  /\ Reconciles /\ ~ClusterReady
  /\ Finish([seen EXCEPT !.cond = "infrastructure"], "none")
  /\ UNCHANGED <<spec, cluster, deps, machine, infra, vm, age, status, seen, secrets, userdata,
                 object, timers, budget, joinVars, roleVars>>

\* The infrastructure machine's own field is read for the kinds the code knows.
getProviderID ==
  machine.providerID \/ (infra.providerID /\ spec.kind \in {"VSphere", "KubeVirt", "Docker"})
currentProviderID == ~OwnsProviderID /\ getProviderID

\* Mutant: the providerID is waited for before the infrastructure has its data.
AwaitsAnyProviderID == ~OwnsProviderID /\ ~getProviderID

\* Ready but without a providerID: it is imminent. Not ready: the bootstrap data
\* is what it waits for.
waitForInfraProviderID == ~OwnsProviderID /\ ~getProviderID /\ infra.made /\ infra.ready

WaitForProviderID ==
  /\ Reconciles /\ ClusterReady /\ waitForInfraProviderID
  /\ Finish(seen, "soon")
  /\ UNCHANGED <<spec, cluster, deps, machine, infra, vm, age, status, seen, secrets, userdata,
                 object, timers, budget, joinVars, roleVars>>

ReconcilesData == Reconciles /\ ClusterReady /\ ~waitForInfraProviderID

\* The status follows the name the Machine has; the other Secret goes.
Misaligned == machine.dsn # NoName /\ seen.name # NoName /\ machine.dsn # seen.name
\* Mutant: the Secret that goes is the one the Machine names.
MachinesSecretGoes == IF Misaligned THEN [secrets EXCEPT ![machine.dsn] = Absent] ELSE secrets

AlignedSecrets == IF Misaligned THEN [secrets EXCEPT ![seen.name] = Absent] ELSE secrets
HasData == seen.name # NoName /\ ~Misaligned /\ secrets[seen.name] # Absent

ToRender(s) == pass' = [pass EXCEPT !.pc = "render", !.base = seen, !.st = s, !.dsn = machine.dsn]

\* No Secret is on record, or the one on record is gone: render.
NoData ==
  /\ ReconcilesData /\ ~HasData
  /\ secrets' = AlignedSecrets
  /\ ToRender([seen EXCEPT !.name = NoName])
  /\ UNCHANGED <<spec, cluster, deps, machine, infra, vm, age, status, seen, userdata, object,
                 timers, budget, joinVars, roleVars>>

renderCarriesProviderID(r) == "providerID" \in r.has

\* Mutant: the kinds whose nodes set their own providerID are not excepted here.
LacksAnyProviderID == getProviderID /\ ~renderCarriesProviderID(secrets[seen.name])

\* The Machine has a providerID that the stored render does not carry.
LacksProviderID == currentProviderID /\ ~renderCarriesProviderID(secrets[seen.name])

\* The data is there: render it again, or confirm it.
Settle(s, regenerate) ==
  IF regenerate
    THEN ToRender(s) /\ UNCHANGED userdata
    ELSE sanitizeCapkUserdataSecret /\ Finish(AfterData(s), AfterDataMore(s))

KeepData ==
  /\ ReconcilesData /\ HasData
  /\ ~KubeadmWorker \/ (machine.nodeRef /\ seen.token = None)
  /\ Settle(seen, LacksProviderID)
  /\ UNCHANGED <<spec, cluster, deps, machine, infra, vm, age, status, seen, secrets, object,
                 timers, budget, joinVars, roleVars>>

-----------------------------------------------------------------------------
(* reconcileKubeadmWorkerToken                                             *)

TokenPass == ReconcilesData /\ HasData /\ KubeadmWorker
Verdict == trustedWorkloadClient(cluster.endpoint)

\* The node has joined: revoke, and forget the token even when the trust check
\* refuses; wait while the workload cluster cannot be reached.
RevokeJoined ==
  /\ TokenPass /\ machine.nodeRef /\ seen.token # None
  /\ \/ Verdict = "wait" /\ Finish(seen, "soon") /\ UNCHANGED <<userdata, tokens, left, minted>>
     \/ Verdict # "wait" /\ Settle([seen EXCEPT !.token = None], LacksProviderID)
        /\ IF Verdict = "ok" THEN RevokeWorkerToken(seen.token) ELSE UNCHANGED <<tokens, left, minted>>
  /\ UNCHANGED <<spec, cluster, deps, machine, infra, vm, age, status, seen, secrets, object,
                 timers, budget, cp, reachable, roleVars>>

CapExceeded == age > RefreshCap

\* The node has not joined in a day: say so, and extend no longer.
StopAtCap ==
  /\ TokenPass /\ ~machine.nodeRef /\ CapExceeded
  /\ Finish([seen EXCEPT !.cond = "cap"], "recheck")
  /\ UNCHANGED <<spec, cluster, deps, machine, infra, vm, age, status, seen, secrets, userdata,
                 object, timers, budget, joinVars, roleVars>>

\* The recorded token, or the one in the Secret when the record was lost.
bootstrapTokenIDFromBootstrapData(s) ==
  IF s.token = None /\ secrets[s.name].mine THEN [s EXCEPT !.token = secrets[s.name].token] ELSE s

\* Extend what the VM may hold; render again only when it no longer exists.
ExtendUnjoined ==
  /\ TokenPass /\ ~machine.nodeRef /\ ~CapExceeded
  /\ LET s == bootstrapTokenIDFromBootstrapData(seen)
     IN \/ s.token = None /\ ToRender(s) /\ UNCHANGED <<userdata, tokens, left, minted>>
        \/ /\ s.token # None /\ Verdict = "wait"
           /\ Finish(s, "soon") /\ UNCHANGED <<userdata, tokens, left, minted>>
        \/ /\ s.token # None /\ Verdict = "refused"
           /\ Finish(Failed(s), "none") /\ UNCHANGED <<userdata, tokens, left, minted>>
        \/ /\ s.token # None /\ Verdict = "ok" /\ s.token \notin tokens
           /\ ToRender(s) /\ UNCHANGED <<userdata, tokens, left, minted>>
        \/ /\ s.token # None /\ Verdict = "ok" /\ ExtendWorkerToken(s.token)
           /\ Settle(s, LacksProviderID)
  /\ UNCHANGED <<spec, cluster, deps, machine, infra, vm, age, status, seen, secrets, object,
                 timers, budget, cp, reachable, roleVars>>

-----------------------------------------------------------------------------
(* generateCloudConfigM                                                    *)

\* A k0s or k3s worker's token Secret, or the kubeadm trust check.
WorkerJoin ==
  IF spec.dist = "kubeadm" THEN Verdict
  ELSE IF "token" \notin deps THEN "wait"
  ELSE IF spec.dist = "k3s" /\ ~cluster.endpoint THEN "refused" ELSE "ok"

\* A referenced password Secret that is missing is an error, not a wait.
resolveUserPassword == spec.password => "password" \in deps

\* What a render finds as it goes: what others published, the endpoint, the
\* providerID, and a push token for the staging Secret.
Gathered ==
  (deps \ {"staging"})
    \union (IF cluster.endpoint THEN {"endpoint"} ELSE {})
    \union (IF currentProviderID THEN {"providerID"} ELSE {})
    \union (IF Pushes /\ "staging" \in deps THEN {"push"} ELSE {})

ToWrite(has, t) == pass' = [pass EXCEPT !.pc = "write", !.has = has, !.token = t]

\* The join material comes first: a render that fails after it leaves its token.
RenderWorker ==
  /\ pass.pc = "render" /\ ~ControlPlaneRole
  /\ \/ WorkerJoin = "wait" /\ Conclude(pass.st, "soon") /\ UNCHANGED <<tokens, left, minted>>
     \/ WorkerJoin = "refused" /\ Conclude(Failed(pass.st), "none") /\ UNCHANGED <<tokens, left, minted>>
     \/ /\ WorkerJoin = "ok"
        /\ \E t \in 0..MaxTokens :
             /\ IF KubeadmWorker THEN reuseOrMintBootstrapToken(pass.st.token, t)
                                 ELSE t = None /\ UNCHANGED <<tokens, left, minted>>
             /\ IF resolveUserPassword THEN ToWrite(Gathered, t)
                                       ELSE Conclude(Failed(pass.st), "none")
  /\ UNCHANGED <<spec, cluster, deps, machine, infra, vm, age, status, seen, secrets, userdata,
                 object, queued, timers, budget, cp, reachable, roleVars>>

\* The Secret the node may push to must be there before it gets a push token.
requireOwnedStaging == "staging" \in deps
MarkPushWait(s) == IF s.failed THEN s ELSE [s EXCEPT !.cond = "push"]

\* k3s gives every HA node the shared token; a k0s joiner needs the one issued
\* for it.
resolveControlPlaneJoinToken ==
  (spec.join = "join" \/ (spec.join = "init" /\ spec.dist = "k3s")) => "token" \in deps

\* A KubeVirt control plane is rendered with its load balancer's address.
getControlPlaneLBEndpoint == isKubevirtMachine => "lb" \in deps

\* The Role may already be brought up to date when a later lookup waits.
RenderControlPlane ==
  /\ pass.pc = "render" /\ ControlPlaneRole
  /\ \/ ~resolveUserPassword /\ Conclude(Failed(pass.st), "none") /\ UNCHANGED nodeRole
     \/ /\ resolveUserPassword /\ Pushes /\ ~requireOwnedStaging
        /\ Conclude(MarkPushWait(pass.st), "soon") /\ UNCHANGED nodeRole
     \/ /\ resolveUserPassword /\ Pushes /\ requireOwnedStaging /\ ~ResolvableRole
        /\ Conclude(Failed(pass.st), "none") /\ UNCHANGED nodeRole
     \/ /\ resolveUserPassword /\ (Pushes => requireOwnedStaging /\ ResolvableRole)
        /\ IF Pushes THEN ResolveRole(spec.dist) ELSE UNCHANGED nodeRole
        /\ IF getControlPlaneLBEndpoint /\ resolveControlPlaneJoinToken
             THEN ToWrite(Gathered, None)
             ELSE Conclude(pass.st, "soon")
  /\ UNCHANGED <<spec, cluster, deps, machine, infra, vm, age, status, seen, secrets, userdata,
                 object, queued, timers, budget, joinVars, migrator>>

\* The name the Machine had when the pass began, else the one in status, else the
\* config's own.
secretName ==
  CASE pass.dsn # NoName -> pass.dsn
    [] pass.dsn = NoName /\ pass.st.name # NoName -> pass.st.name
    [] OTHER -> "kc"

bootstrapSecretBelongsTo(r) == r = Absent \/ r.mine

WriteSecret ==
  /\ pass.pc = "write"
  /\ IF bootstrapSecretBelongsTo(secrets[secretName])
       THEN LET s == [pass.st EXCEPT !.name = secretName,
                                     !.token = IF KubeadmWorker THEN pass.token ELSE @]
            IN /\ secrets' = [secrets EXCEPT ![secretName] =
                                [has |-> pass.has, token |-> pass.token, mine |-> TRUE]]
               /\ sanitizeCapkUserdataSecret
               /\ Conclude(AfterData(s), AfterDataMore(s))
       ELSE Conclude(Failed(pass.st), "none") /\ UNCHANGED <<secrets, userdata>>
  /\ UNCHANGED <<spec, cluster, deps, machine, infra, vm, age, status, seen, object, queued,
                 timers, budget, joinVars, roleVars>>

\* The deferred patch carries the fields the pass changed, no others.
Patched == [f \in DOMAIN status |-> IF pass.st[f] # pass.base[f] THEN pass.st[f] ELSE status[f]]

\* The watch brings the change back, at once or, when the cache lags, later.
PatchStatus ==
  /\ pass.pc = "patch"
  /\ status' = Patched
  /\ timers' = timers \union ({pass.more} \ {"none"})
  /\ pass' = Idle
  /\ \/ seen' = Patched /\ queued' = (queued \/ Patched # seen) /\ UNCHANGED budget
     \/ /\ budget.lags > 0 /\ Patched # seen
        /\ budget' = [budget EXCEPT !.lags = @ - 1]
        /\ UNCHANGED <<seen, queued>>
  /\ UNCHANGED <<spec, cluster, deps, machine, infra, vm, age, secrets, userdata, object,
                 joinVars, roleVars>>

\* The patch fails: the pass ends in an error and is retried.
PatchFails ==
  /\ pass.pc = "patch" /\ budget.losses > 0
  /\ budget' = [budget EXCEPT !.losses = @ - 1]
  /\ timers' = timers \union {"soon"}
  /\ pass' = Idle
  /\ UNCHANGED <<spec, cluster, deps, machine, infra, vm, age, status, seen, secrets, userdata,
                 object, queued, joinVars, roleVars>>

\* The manager stops and starts again: the pass is lost, every object is queued,
\* and the migrator starts beside the controllers.
Restart ==
  /\ budget.restarts > 0 /\ object # "gone"
  /\ budget' = [budget EXCEPT !.restarts = @ - 1]
  /\ pass' = Idle /\ queued' = TRUE /\ timers' = {} /\ seen' = status
  /\ ListRoles
  /\ UNCHANGED <<spec, cluster, deps, machine, infra, vm, age, status, secrets, userdata,
                 object, joinVars, nodeRole>>

\* Rules that a render has rewritten since the list are overwritten.
Migrate ==
  /\ PatchRole
  /\ nodeRole.rules = migrator.rules \/ budget.overlaps > 0
  /\ UNCHANGED <<bootVars, joinVars>>

-----------------------------------------------------------------------------
(* Deletion                                                                *)

\* Best effort: only a workload cluster that passes the trust check is asked.
RevokesOnDelete == seen.token # None /\ KubeadmWorker /\ machine.owns /\ Verdict = "ok"
revokeKubeadmTokenOnDelete ==
  IF RevokesOnDelete THEN RevokeWorkerToken(seen.token) ELSE UNCHANGED <<tokens, left, minted>>

\* The Secret on record, if there is one, is gone.
deleteBootstrapSecret == (seen.name # NoName => secrets[seen.name] = Absent)

\* The Secret goes first, and the pass comes back for the finalizer.
DeleteSecret ==
  /\ StartsPass /\ object = "deleting" /\ ~deleteBootstrapSecret
  /\ revokeKubeadmTokenOnDelete
  /\ secrets' = [secrets EXCEPT ![seen.name] = Absent]
  /\ Finish(IF RevokesOnDelete THEN [seen EXCEPT !.token = None] ELSE seen, "soon")
  /\ UNCHANGED <<spec, cluster, deps, machine, infra, vm, age, status, seen, userdata, object,
                 timers, budget, cp, reachable, roleVars>>

\* Mutant: the finalizer is removed by a patch that no version guards.
UpdateUnguarded == TRUE

\* The update that removes the finalizer is refused when the copy is not current.
UpdateAccepted == seen = status

\* Mutant: the finalizer stays until the token could be revoked.
RemovesAfterRevoking ==
  /\ StartsPass /\ object = "deleting" /\ deleteBootstrapSecret
  /\ revokeKubeadmTokenOnDelete
  /\ object' = IF UpdateAccepted /\ (seen.token # None => Verdict # "wait") THEN "gone" ELSE object
  /\ timers' = IF object' = "gone" THEN timers ELSE timers \union {"soon"}
  /\ UNCHANGED <<spec, cluster, deps, machine, infra, vm, age, status, seen, secrets, userdata,
                 pass, budget, cp, reachable, roleVars>>

RemoveFinalizer ==
  /\ StartsPass /\ object = "deleting" /\ deleteBootstrapSecret
  /\ revokeKubeadmTokenOnDelete
  /\ object' = IF UpdateAccepted THEN "gone" ELSE object
  /\ timers' = IF UpdateAccepted THEN timers ELSE timers \union {"soon"}
  /\ UNCHANGED <<spec, cluster, deps, machine, infra, vm, age, status, seen, secrets, userdata,
                 pass, budget, cp, reachable, roleVars>>

-----------------------------------------------------------------------------
(* What wakes the controller                                               *)

\* The watch on KairosConfigs: the cache catches up, and the config is queued.
CacheSync ==
  /\ seen # status /\ object # "gone" /\ pass.pc = "idle"
  /\ seen' = status /\ queued' = TRUE
  /\ UNCHANGED <<spec, cluster, deps, machine, infra, vm, age, status, secrets, userdata,
                 object, pass, timers, budget, joinVars, roleVars>>

RequeueSoon ==
  /\ "soon" \in timers /\ object # "gone"
  /\ timers' = timers \ {"soon"} /\ queued' = TRUE
  /\ UNCHANGED <<spec, cluster, deps, machine, infra, vm, age, status, seen, secrets, userdata,
                 object, pass, budget, joinVars, roleVars>>

\* The controller has work to do that it has not got to.
Behind == queued \/ pass.pc # "idle" \/ "soon" \in timers \/ seen # status

\* machineToKairosConfig: every change of the Machine queues its config.
MachineChanges(m) == machine' = m /\ queued' = TRUE

-----------------------------------------------------------------------------
(* The rest of the management cluster, and the node (external)             *)

SetOwner ==
  /\ ~machine.owns /\ object = "present"
  /\ MachineChanges([machine EXCEPT !.owns = TRUE])
  /\ UNCHANGED <<spec, cluster, deps, infra, vm, age, status, seen, secrets, userdata, object,
                 pass, timers, budget, joinVars, roleVars>>

\* CAPI publishes the endpoint in the pass that reports the infrastructure
\* provisioned, for a provider that has it by then.
ProvisionCluster ==
  /\ ~cluster.provisioned
  /\ cluster' = [cluster EXCEPT !.provisioned = TRUE, !.endpoint = spec.orderly]
  /\ queued' = TRUE
  /\ UNCHANGED <<spec, deps, machine, infra, vm, age, status, seen, secrets, userdata, object,
                 pass, timers, budget, joinVars, roleVars>>

\* The Cluster predicate lets pauses and the provisioning through, not this.
PublishEndpoint ==
  /\ cluster.provisioned /\ ~cluster.endpoint
  /\ cluster' = [cluster EXCEPT !.endpoint = TRUE]
  /\ UNCHANGED <<spec, deps, machine, infra, vm, age, status, seen, secrets, userdata, object,
                 pass, queued, timers, budget, joinVars, roleVars>>

TogglePause ==
  /\ cluster.paused \/ budget.pauses > 0
  /\ cluster' = [cluster EXCEPT !.paused = ~@]
  /\ budget' = [budget EXCEPT !.pauses = IF cluster.paused THEN @ ELSE @ - 1]
  /\ queued' = TRUE
  /\ UNCHANGED <<spec, deps, machine, infra, vm, age, status, seen, secrets, userdata, object,
                 pass, timers, joinVars, roleVars>>

\* Only the controller-join token Secret of a control plane is watched.
Publish(d) ==
  /\ d \in Published \ deps
  /\ deps' = deps \union {d}
  /\ queued' = (queued \/ (d = "token" /\ ControlPlaneRole))
  /\ UNCHANGED <<spec, cluster, machine, infra, vm, age, status, seen, secrets, userdata,
                 object, pass, timers, budget, joinVars, roleVars>>

\* CAPI copies the name once the config reports its data.
MachineTakesSecret ==
  /\ machine.owns /\ machine.dsn = NoName /\ status.created /\ status.ready
  /\ object = "present"
  /\ MachineChanges([machine EXCEPT !.dsn = status.name])
  /\ UNCHANGED <<spec, cluster, deps, infra, vm, age, status, seen, secrets, userdata, object,
                 pass, timers, budget, joinVars, roleVars>>

CapkCopiesUserdata ==
  /\ isKubevirtMachine /\ machine.dsn # NoName /\ userdata = "absent"
  /\ secrets[machine.dsn] # Absent
  /\ userdata' = "raw" /\ queued' = TRUE
  /\ UNCHANGED <<spec, cluster, deps, machine, infra, vm, age, status, seen, secrets, object,
                 pass, timers, budget, joinVars, roleVars>>

InfraChanges(i) ==
  /\ infra' = i
  /\ queued' = (queued \/ spec.kind \in optionalInfraWatches)

\* The VM is created from the Secret the Machine names, as it is at that moment.
CreateVM ==
  /\ ~infra.made /\ machine.dsn # NoName /\ object = "present"
  /\ secrets[machine.dsn] # Absent
  /\ isKubevirtMachine => userdata # "absent"
  /\ vm' = secrets[machine.dsn]
  /\ InfraChanges([infra EXCEPT !.made = TRUE])
  /\ UNCHANGED <<spec, cluster, deps, machine, age, status, seen, secrets, userdata, object,
                 pass, timers, budget, joinVars, roleVars>>

\* Readiness and the providerID are published in either order.
InfraReports ==
  /\ infra.made
  /\ \/ ~infra.ready /\ InfraChanges([infra EXCEPT !.ready = TRUE])
     \/ ~infra.providerID /\ InfraChanges([infra EXCEPT !.providerID = TRUE])
  /\ UNCHANGED <<spec, cluster, deps, machine, vm, age, status, seen, secrets, userdata, object,
                 pass, timers, budget, joinVars, roleVars>>

MachineTakesProviderID ==
  /\ infra.ready /\ infra.providerID /\ ~machine.providerID
  /\ MachineChanges([machine EXCEPT !.providerID = TRUE])
  /\ UNCHANGED <<spec, cluster, deps, infra, vm, age, status, seen, secrets, userdata, object,
                 pass, timers, budget, joinVars, roleVars>>

\* The node boots with what its VM was given; a kubeadm node's token must be live.
NodeJoins ==
  /\ machine.providerID /\ ~machine.nodeRef /\ spec.joins
  /\ KubeadmWorker => vm.token # None /\ Live(vm.token)
  /\ MachineChanges([machine EXCEPT !.nodeRef = TRUE])
  /\ UNCHANGED <<spec, cluster, deps, infra, vm, age, status, seen, secrets, userdata, object,
                 pass, timers, budget, joinVars, roleVars>>

\* Somebody deletes the bootstrap Secret; no watch covers it.
SecretDeleted ==
  /\ budget.wipes > 0 /\ \E n \in Names : secrets[n].mine /\ secrets' = [secrets EXCEPT ![n] = Absent]
  /\ budget' = [budget EXCEPT !.wipes = @ - 1]
  /\ UNCHANGED <<spec, cluster, deps, machine, infra, vm, age, status, seen, userdata, object,
                 pass, queued, timers, joinVars, roleVars>>

DeleteConfig ==
  /\ budget.deletes > 0 /\ object = "present"
  /\ budget' = [budget EXCEPT !.deletes = @ - 1]
  /\ object' = "deleting" /\ queued' = TRUE
  /\ UNCHANGED <<spec, cluster, deps, machine, infra, vm, age, status, seen, secrets, userdata,
                 pass, timers, joinVars, roleVars>>

\* The control plane comes up, is replaced by something untrusted, or comes back.
ControlPlaneChanges ==
  /\ \E c \in spec.controlPlanes \ {cp} : cp' = c
  /\ budget.swaps > 0 /\ budget' = [budget EXCEPT !.swaps = @ - 1]
  /\ UNCHANGED <<spec, cluster, deps, machine, infra, vm, age, status, seen, secrets, userdata,
                 object, pass, queued, timers, reachable, tokens, left, minted, roleVars>>

ToggleReachable ==
  /\ ~reachable \/ budget.outages > 0
  /\ reachable' = ~reachable
  /\ budget' = [budget EXCEPT !.outages = IF reachable THEN @ - 1 ELSE @]
  /\ UNCHANGED <<spec, cluster, deps, machine, infra, vm, age, status, seen, secrets, userdata,
                 object, pass, queued, timers, cp, tokens, left, minted, roleVars>>

\* A recheck interval passes, with the controller caught up or late.
Tick ==
  /\ KubeadmWorker /\ object # "gone"
  /\ ~Behind \/ budget.delays > 0
  /\ budget' = [budget EXCEPT !.delays = IF Behind THEN @ - 1 ELSE @]
  /\ age' = IF CapExceeded THEN age ELSE age + 1
  /\ TokensAge
  /\ queued' = (queued \/ "recheck" \in timers)
  /\ timers' = timers \ {"recheck"}
  /\ UNCHANGED <<spec, cluster, deps, machine, infra, vm, status, seen, secrets, userdata,
                 object, pass, cp, reachable, tokens, minted, roleVars>>

Clean == TokenCleaner /\ UNCHANGED <<bootVars, roleVars>>

\* The controller has nothing to do.
Ended ==
  /\ pass.pc = "idle" /\ (object = "gone" \/ (~queued /\ "soon" \notin timers))
  /\ UNCHANGED vars

PassStep ==
  \/ SkipPass \/ WaitForInfrastructure \/ WaitForProviderID \/ NoData \/ KeepData
  \/ RevokeJoined \/ StopAtCap \/ ExtendUnjoined
  \/ RenderWorker \/ RenderControlPlane \/ WriteSecret \/ PatchStatus
  \/ DeleteSecret \/ RemoveFinalizer

Others ==
  \/ SetOwner \/ ProvisionCluster \/ PublishEndpoint
  \/ \E d \in Published : Publish(d)
  \/ MachineTakesSecret \/ CapkCopiesUserdata \/ CreateVM \/ InfraReports
  \/ MachineTakesProviderID \/ NodeJoins

Recovers ==
  (cluster.paused /\ TogglePause) \/ (~reachable /\ ToggleReachable) \/ (~cp.initialized /\ ControlPlaneChanges)

Next ==
  \/ PassStep \/ PatchFails \/ Restart \/ Migrate \/ CacheSync \/ RequeueSoon \/ Others
  \/ TogglePause \/ ToggleReachable \/ SecretDeleted \/ DeleteConfig \/ ControlPlaneChanges
  \/ Tick \/ Clean \/ Ended

Spec == Init /\ [][Next]_vars

\* The controller runs, its cache and its timers work, what others publish is
\* published in the end, the control plane comes up, pauses and outages end, and
\* time passes.
FairSpec ==
  Spec /\ WF_vars(PassStep) /\ WF_vars(CacheSync) /\ WF_vars(RequeueSoon)
       /\ WF_vars(Others) /\ WF_vars(Recovers) /\ WF_vars(Tick)

-----------------------------------------------------------------------------
(* Properties                                                              *)

\* An allowed control plane, whose kubeconfig the endpoint or <cluster>-ca vouches for.
Anchored(c) ==
  /\ c.initialized /\ c.ref = "listed" /\ c.ca \in {"absent", "same"}
  /\ c.kubeconfig = "endpoint" \/ (c.kubeconfig = "internal" /\ c.ca = "same")

\* Types, with the bounds of the instance.
WorldTypeOK ==
  /\ spec \in Specs /\ budget \in Budgets /\ cluster \in Clusters /\ deps \subseteq Published
  /\ machine \in Machines /\ infra \in Infras /\ vm \in Renders /\ age \in 0..(RefreshCap + 1)
  /\ userdata \in {"absent", "raw", "clean"}
ConfigTypeOK ==
  /\ status \in Statuses /\ seen \in Statuses /\ secrets \in [Names -> Renders] /\ pass \in Passes
  /\ object \in {"present", "deleting", "gone"} /\ queued \in BOOLEAN /\ timers \subseteq Requeues
TypeOK == KubeadmTypeOK /\ RoleTypeOK /\ WorldTypeOK /\ ConfigTypeOK

\* Whatever the order in which the Cluster, its Secrets and its load balancer
\* appear, the VM is created from a render of this controller that carries all it
\* needs: the node installs from the first bootstrap Secret it sees, and a later
\* render comes too late.
FirstRenderIsComplete ==
  vm # Absent => vm.mine /\ Needs \subseteq vm.has /\ (KubeadmWorker => vm.token # None)

\* A token in a VM whose node has not joined stays live up to the cap, although one
\* recheck may come a whole interval late and the manager may restart; and it is the
\* one that is recorded, and so the one that is extended and revoked: rendering again
\* must not leave the node with a token that nothing keeps alive
\* (reconcileKubeadmBootstrapToken, ensureBootstrapToken).
HeldTokenIsKept ==
  (object = "present" /\ ~machine.nodeRef /\ vm.token # None) =>
    /\ spec.prompt /\ age <= RefreshCap => Live(vm.token)
    /\ ~Behind /\ Live(vm.token) /\ status.token # None => status.token = vm.token

\* The finalizer outlives the Secret on record, also when a pass read a KairosConfig
\* that did not have its name yet.
FinalizerOutlivesSecret ==
  object = "gone" => status.name = NoName \/ secrets[status.name] = Absent

\* A node that was given a push token can use it, whichever KairosConfig of the
\* cluster and whichever manager start last rewrote the Role they share; unless a
\* migrator's patch overwrites a render that came after its list.
PushingNodeMayPush ==
  budget.overlaps = 0 /\ "push" \in vm.has => PushGrants \subseteq Permits(nodeRole.rules)

\* What has been handed out to push with: a token of the VM, of the stored data, or of the
\* render that is about to be stored.
PushInv ==
  budget.overlaps = 0
    /\ ((pass.pc = "write" /\ "push" \in pass.has) \/ (\E n \in Names : "push" \in secrets[n].has))
  => PushGrants \subseteq Permits(nodeRole.rules)

\* A Node has a providerID, which its infrastructure machine gave it; and a pass in
\* progress works on the copy it read, of an object that is there.
OrderInv ==
  /\ machine.nodeRef => machine.providerID
  /\ machine.providerID \/ infra.ready \/ infra.providerID => infra.made
  /\ IF pass.pc = "idle" THEN pass = Idle ELSE pass.base = seen /\ object # "gone"
  /\ pass.pc = "render" => ClusterReady

\* No name on record is of a Secret of somebody else. While the Machine has none, an
\* older release's name is only kept, never given, and it is on record as long as its
\* Secret is there or is about to be written; a Machine that takes a name while data is
\* rendered again takes the name of that data.
NameInv ==
  /\ \A n \in {machine.dsn, status.name, seen.name, pass.st.name} \ {NoName} :
       secrets[n] = Absent \/ secrets[n].mine
  /\ machine.dsn = NoName =>
       /\ "old" \in {status.name, pass.st.name} => seen.name = "old"
       /\ seen.name = "old" /\ (secrets["old"] # Absent \/ (pass.pc \in {"render", "write"} /\ pass.st.name = "old"))
            => status.name = "old" /\ (pass.pc # "idle" => pass.st.name = "old")
  /\ pass.pc \in {"render", "write"} /\ pass.st.name # NoName =>
       pass.st.name = seen.name /\ machine.dsn \in {NoName, seen.name}
  /\ pass.pc \in {"render", "write"} => pass.dsn \in {NoName, machine.dsn}

\* What is stored, or about to be, is complete but for a kubeadm token that was lost
\* before: then no Machine has the data, and a pass is still to find out.
DataInv ==
  /\ \A n \in Names : secrets[n].token <= minted /\ (secrets[n].mine => Needs \subseteq secrets[n].has)
  /\ pass.pc = "write" => /\ Needs \subseteq pass.has /\ pass.token <= minted
                          /\ KubeadmWorker => pass.token # None
  /\ KubeadmWorker => \A n \in Names : secrets[n].mine /\ secrets[n].token = None =>
       /\ machine.dsn = NoName /\ ~infra.made
       /\ \A s \in {status, seen} \union (IF pass.pc = "idle" THEN {} ELSE {pass.st}) :
            s.name = n /\ s.token = None /\ ~s.created

\* Why stored data is rendered again, from the decision to the write.
AgainInv ==
  pass.st.name # NoName /\ secrets[pass.st.name].mine =>
    /\ pass.pc = "render" =>
         \/ currentProviderID /\ ~renderCarriesProviderID(secrets[pass.st.name])
         \/ KubeadmWorker /\ pass.st.token = None /\ secrets[pass.st.name].token = None
         \/ KubeadmWorker /\ pass.st.token # None /\ pass.st.token \notin tokens
    /\ pass.pc = "write" =>
         secrets[pass.st.name].has # pass.has \/ secrets[pass.st.name].token # pass.token

\* What a KairosConfig owns is cleaned up before it goes (reconcileDelete), what its
\* node was promised is there (nodepush.Resolve), and what these and the first render
\* rest on.
ConfigInv ==
  /\ TypeOK /\ FinalizerOutlivesSecret /\ PushingNodeMayPush
  /\ PushInv /\ OrderInv /\ NameInv /\ DataInv /\ AgainInv

\* What the promise of a prompt check takes: at most one recheck is late, the workload
\* cluster is trusted and stays so, and nothing else that a render needs is in its way.
TimelyCheck(sp, b, c, given, stored) ==
  /\ b.delays <= 1 /\ b.pauses = 0 /\ b.swaps = 0 /\ b.outages = 0
  /\ Anchored(c)
  /\ sp.password => "password" \in given
  /\ \A n \in Names : bootstrapSecretBelongsTo(stored[n])

\* Every patch arrives and is seen by the next pass.
Lossless(b) == b.lags = 0 /\ b.losses = 0 /\ b.restarts = 0

\* The scenarios in which a kubeadm worker's token can be kept: the prompt ones may lose
\* patches, lag and restart, the others may be late, out of reach or paused.
TokenScenarios ==
  \A s \in Scenarios : s.spec.role = "worker" /\ s.spec.dist = "kubeadm" =>
    IF s.spec.prompt THEN TimelyCheck(s.spec, s.budget, s.cp, s.deps, s.secrets)
                     ELSE Lossless(s.budget)

AwaitsNode == object = "present" /\ ~machine.nodeRef

\* No record is of a token that was not minted, and one is minted only for a kubeadm
\* worker that has its Machine, in a Cluster that is provisioned.
MintedInv ==
  /\ \A t \in {vm.token, status.token, seen.token, pass.st.token} : t <= minted
  /\ minted > 0 => KubeadmWorker /\ machine.owns /\ cluster.provisioned /\ cluster.endpoint
  /\ pass.pc \in {"render", "write"} => machine.owns

\* While a prompt check waits for the node there is one token, with an interval left for
\* every check that may still be late and one more; two when the controller is caught up,
\* or about to be, and then the next check is on its clock.
SlackInv ==
  AwaitsNode /\ ~CapExceeded /\ minted > 0 =>
    /\ minted = 1 /\ tokens = {1} /\ left[1] >= 1 + budget.delays
    /\ ~Behind \/ pass.pc = "write" \/ (pass.pc = "patch" /\ pass.more = "recheck")
         => left[1] >= 2 + budget.delays
    /\ ~Behind => "recheck" \in timers
    /\ pass.pc = "patch" => pass.more # "none"

\* When no patch is lost, a token that exists and that the VM or a Secret holds is the one
\* on record, or in the pass that will record it.
RecordInv ==
  AwaitsNode =>
    /\ \A c \in {vm.token} \union {secrets[n].token : n \in Names} :
         c \in tokens => c = IF pass.pc = "idle" THEN status.token ELSE pass.st.token
    /\ pass.pc = "write" => pass.token = pass.st.token \/ pass.st.token \notin tokens

\* What HeldTokenIsKept rests on.
TokenInv ==
  /\ MintedInv
  /\ KubeadmWorker =>
       IF spec.prompt
         THEN TimelyCheck(spec, budget, cp, deps, secrets) /\ reachable /\ ~cluster.paused /\ SlackInv
         ELSE Lossless(budget) /\ seen = status /\ RecordInv

\* ... and, in the scenarios that allow it, the one token that exists is kept for the node
\* (reconcileKubeadmBootstrapToken).
BootstrapInv == ConfigInv /\ (TokenScenarios => TokenInv)

\* The Secret the Machine names is rewritten in place and never removed by the
\* controller while the KairosConfig is there, whatever name its status, or a
\* stale copy of it, holds.
KeepsReferencedSecret ==
  (machine.dsn # NoName /\ object = "present" /\ budget' = budget /\ secrets[machine.dsn] # Absent)
    => secrets'[machine.dsn] # Absent

\* Data that is on record is rendered again only when that changes it: no pass
\* finds a render to lack what its infrastructure kind can never give it, and
\* rewrites the same Secret at every event.
RegenerationAdds ==
  (pass.pc = "write" /\ pass'.pc = "patch" /\ pass.st.name # NoName /\ secrets[pass.st.name].mine)
    => secrets' # secrets

\* Tokens are minted, extended and revoked only in a workload cluster whose
\* kubeconfig is controlled by an allowed control plane and is anchored by the
\* Cluster's endpoint or by <cluster>-ca, at the time of that step.
TokensNeedAnAnchor ==
  (\E t \in TokenIDs : left'[t] > left[t] \/ (t \in tokens /\ t \notin tokens' /\ left[t] > 0))
    => Anchored(cp)

\* The migrator takes grants away from an older release's Role and adds none, and
\* leaves the patch grants that the running nodes push with: whether they were
\* given by name, for every Secret, or for every resource and verb. (What a render has
\* rewritten since the list is another matter: Migrate.)
MigrationOnlyNarrows ==
  migrator.pc = "listed" /\ migrator'.pc = "idle" /\ nodeRole.rules = migrator.rules =>
    /\ Permits(nodeRole'.rules) \subseteq Permits(nodeRole.rules)
    /\ Permits(nodeRole.rules) \intersect Permits({PushRule}) \subseteq Permits(nodeRole'.rules)

\* What a step may never do to what others rely on: the Secret the Machine names
\* (alignBootstrapSecretWithMachine), a render that is already right (Reconcile), a
\* workload cluster that is not anchored (verifyKubeconfig), and the Role of the
\* nodes that run (intersectNodePushRules).
StepsAreSafe ==
  [][KeepsReferencedSecret /\ RegenerationAdds /\ TokensNeedAnAnchor /\ MigrationOnlyNarrows]_vars

\* Unless an error or the end of the token's day is reported, or the provider
\* publishes its endpoint late, the Machine gets its bootstrap data: every wait is
\* ended by a watch or a requeue, and none is for what the data must bring about.
BootstrapDataArrives ==
  <>(machine.dsn # NoName \/ status.failed \/ status.cond = "cap" \/ ~spec.orderly \/ object # "present")

\* Once the node has joined, its token is revoked or given up, also when the data
\* was rendered again after it joined; and a deleted KairosConfig goes, whatever its
\* workload cluster does (kubeadmTokenRecheck, reconcileDelete).
TokenAndObjectEnd ==
  /\ <>[](KubeadmWorker /\ machine.nodeRef /\ object = "present" => status.token = None)
  /\ object = "deleting" ~> object = "gone"
=============================================================================
