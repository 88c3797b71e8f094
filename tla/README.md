# TLA+ verification of the Kairos Cluster API provider

This directory models the parts of the Kairos Cluster API provider whose
correctness depends on the order in which several actors move: the control-plane
and bootstrap controllers and their caches, Cluster API (CAPI), operators, the VMs
and their boot scripts, and the k0s and etcd of the workload cluster. The models
are checked with TLC on small instances; the theorems in the `*_proofs` modules are
checked by TLAPS for all values of the constants.

`PROJECT.json` is the index: components, runs, the source lines behind every
definition, the hazards and the properties that watch them, the mutants that show
each property can fail, the findings and the theorems.

## 1. The system and its parts

A management cluster runs CAPI and this provider. A `KairosControlPlane` (KCP)
object asks for 1, 3 or 5 control-plane Machines of one Kubernetes version; each
Machine has a `KairosConfig` from which a cloud-config is rendered, and boots a VM
that runs k0s or k3s (or, for workers, kubeadm). Highly available control planes
(more than one replica) keep an etcd whose membership must follow the Machines.

| Part | State it keeps | Operations | What makes it correct | Module |
|---|---|---|---|---|
| Scale and rollout (`kairoscontrolplane_controller.go`, `rollout.go`, `ha_etcd.go`, `machine_names.go`) | the Machines, read from a cache that lags; the etcd-status Secret; the KubeconfigReady condition | create a single / init / join Machine, delete one for a scale-down or a rollout, wait | one joiner at a time, one founder, etcd keeps its quorum, add before remove, convergence | `ControlPlane` |
| Life of a KCP (`kairoscontrolplane_controller.go`, `cleanup.go`, `machine_metadata.go`, `node_drain.go`) | finalizer, Cluster label, the three objects of each Machine, the status error | find the Cluster, pause, create under a fresh name and clean up, propagate, tear down | nothing is left behind, nothing of others is touched, deletion ends, failures show | `Lifecycle` |
| Etcd-leave handshake (`ha_leave*.go`) and the node's responder (`kairos-etcd-leave.sh`) | a pre-terminate hook and four stamps on the Machine, one entry in a ConfigMap of the workload cluster, the EtcdMember object; a marker under `/run` | request a leave, read an ack, delegate to k0s, give up with a warning; poll, leave, mark, ack | no silent release under a live member; every wait ends, or its failure shows | `EtcdLeave`, `LeaveQueue` |
| Node reporter (`push_etcd_status` in the templates) | nothing | one report per boot into the etcd-status Secret; nothing withdraws it | a report is true when made | `ControlPlane`, `OrphanMembers` (its effect) |
| Workload identity (`ha_identity.go`) | a pinned kube-system UID and a mismatch marker on the KCP, an in-memory recheck limit | pin, recheck, preflight, freeze, clear after a repin | no membership action through an apiserver of another cluster; a freeze lasts until an operator ends it | `WorkloadIdentity` |
| k0s controller join token (`ha_k0s_jointoken.go`, `k0sjointoken/`) | a bootstrap-token Secret in the workload cluster, one join-token Secret in the management cluster, two annotations per joiner | mint, store, verify, stamp, extend, remove; render | a joiner boots with its own, live token; every token lapses | `JoinToken` |
| Orphan members (`ha_etcd_orphans.go`) | a record of the removal that is under way | detect, record, ask k0s, follow, give up at the cap, hold scale and rollout | only members without a Machine are removed, quorum stays, the hold ends | `OrphanMembers` |
| Kubeconfig publication (`kubeconfig_publish.go`, `internal/kubeconfig`) | staging and contract Secrets, a CA pin | sanitize, pin, publish, neutralize, adopt | never publishes another cluster's kubeconfig; Ready is true | `KubeconfigPublish` |
| SSH fallback (`ssh_fallback_*.go`) | a worker pool and a channel of results, in memory | decide, enqueue, fetch, write, drain | its writes race with the publication without harm | `SSHFallback` |
| Bootstrap controller (`controllers/bootstrap/`) | bootstrap Secret, status, finalizer | wait for infrastructure and Secrets, render, align, regenerate, clean up | the VM boots from a complete render | `Bootstrap` |
| Kubeadm worker join (`kubeadm.go`) | a bootstrap token in the workload cluster | trust check, mint, reuse, extend, revoke | the token lives while the node boots, only anchored clusters are touched | `KubeadmJoin` |
| Node-push RBAC and its migrator (`management_endpoint_resolver.go`, `rbac_migrator.go`) | a Role per cluster | resolve at a render, narrow at a manager start | nodes can push, old grants only shrink | `NodePushRole` |
| Status and conditions, load balancer, templates, webhooks, secret cache, manager, KubeVirt environment | see `components` in PROJECT.json | derived values, idempotent writes, validation, text | - | not modelled |

How they interact: everything is level-triggered through the API server. The KCP
reconcile is single-threaded per object (controller-runtime never reconciles one
key twice at once) but it reads a cache, makes several calls to two API servers,
and can stop after each of them. It comes back only for a requeue, a returned error
or an event of a watched object. Nodes talk back through Secrets and a ConfigMap.
The KCP and the bootstrap controller share the join-token Secret and the KCP and
the SSH fallback the contract Secret and a condition. CAPI terminates a VM when the
last pre-terminate hook is off the Machine. k0s removes a member from etcd when the
node runs `k0s etcd leave` or when `spec.leave` of its EtcdMember is set.

What is hard in this code: decisions on stale reads (cache, etcd-status Secret,
ConfigMap entries of earlier nodes with the same name), stops between two writes,
acks that race with timeouts, members that join after their absence was observed,
two writers of one Secret or one condition, failures that leave nothing queued,
waits that must end although nothing answers, tokens that lapse while a machine
boots, and spec edits in the middle of a rollout. `hazards` lists each at its line.

## 2. Modules

| Module | Models | Composes / extends |
|---|---|---|
| `SafeEviction` | the abstract promise of the eviction of one member | - |
| `EtcdLeave` | the handshake for one deleting Machine: KCP pass, responder, k0s, CAPI, clocks | instantiates `SafeEviction` |
| `LeaveQueue` | what brings the passes of `EtcdLeave`: requeues, events, the failure on the status | extends `EtcdLeave` |
| `ControlPlane` | scale and rollout of the whole control plane, with cache, CAPI, VMs and etcd | uses the outcome of `EtcdLeave` as one step |
| `Lifecycle` | a KCP from its finalizer to its last Machine, pass by pass and call by call | uses the leave and the gates of a join as steps |
| `WorkloadIdentity` | the pin, the freeze and the checks before every membership action, with paths that move and operators that edit | - |
| `JoinToken` | the k0s controller-join token across both clusters and both controllers | - |
| `OrphanMembers` | the removal of members no Machine accounts for | takes the identity check from `WorkloadIdentity` as a pass that stops |
| `KubeconfigPublish` | staging, pin and contract Secret | - |
| `SSHFallback` | the fallback's reconciler, pool and drain beside the publication | extends `KubeconfigPublish` |
| `KubeadmJoin`, `NodePushRole` | the kubeadm token and its trust check; the Role and its migrator | - |
| `Bootstrap` | the KairosConfig controller | extends the previous two |
| `EtcdLeave_proofs`, `ControlPlane_proofs`, `WorkloadIdentity_proofs`, `JoinToken_proofs`, `OrphanMembers_proofs`, `SSHFallback_proofs`, `Lifecycle_proofs`, `Bootstrap_proofs` | theorems | each extends its module |
| `MC...` | the instances TLC runs: bounds, budgets, scenarios | each extends its module |

An operator introduced by a comment that starts with "Fault" or "Mutant" is a
plausible bug, kept next to the definition it would replace. No specification uses
them.

### EtcdLeave

One Machine that CAPI is deleting. `hook`, `requested`, `unreachable`,
`delegated`, `memberID` are the Machine's annotations; `cm`, `em`, `member` are
the ConfigMap entry, the EtcdMember and the real membership in the workload
cluster; `node`, `marker` are the responder script.

A pass of `reconcileMemberLeave` is cut where it talks to an API server. `pc` says
between which calls it is and `cmSeen`, `emSeen` what it has read. The others move
between the calls. A pass can stop at each cut (`PassFails`: a write error or a
controller restart), and the next one starts from the annotations alone, as the
code does. The exits of the code are one action each:

| Code | Action |
|---|---|
| distribution is not k0s | `ReleaseNotK0s` |
| `connectForLeave` answers / answers as another cluster / does not answer | `ConnectAnswered` / `ConnectForeign` / `ConnectUnanswered` |
| `inspectUnregisteredLeave` | `InspectUnreadable`, `InspectNotOurs`, `InspectNotFound`, `InspectNotJoined`, `InspectProceed` |
| forced sentinel write, then the stamp | `FirstRequest`, `ensureLeaveRequestedForced`, `stampLeaveRequestedAt` |
| later passes: ack, absent report, re-request | `ReleaseOnAck`, `ReleaseOnStatus`, `ensureLeaveRequested` |
| timed out: `delegateMemberLeave` | `DelegateNotOurs`, `DelegateUnreadable`, `DelegateInspect`, `DelegateLeave`, `DelegateConflict` |
| `stripEtcdLeaveHooks` on teardown | `stripEtcdLeaveHooks` |

Time is not counted: each bound of the code compares a stamp with the clock, so
the model has one flag per bound that may be raised at any moment once the stamp is
set. This covers every relation between the bounds.

Abstractions, each a statement about the outside world:

- The ConfigMap entry, the etcd-status key and the EtcdMember share one name
  (`leaveNodeName`). A same-named node of the past is represented by what it left
  in the ConfigMap; a same-named Machine of the present by `sharedName`.
- An EtcdMember appears when the member starts. A member that was added and has
  not started has none, which is the behaviour `docs/HIGH_AVAILABILITY.md` calls
  KD-78.
- Stamps parse. The code rewrites one that does not.
- The freeze changes between passes (`FreezeChanges`), or by the pass itself
  (`ConnectForeign`).
- `ReporterReliable` says whether a registered node always has its key in the
  etcd-status Secret. The push is best effort, so FALSE is what the templates
  promise, and what the run has; TRUE is what `ReleaseOnStatus` relies on. With
  FALSE the refinement counts a release on an absent report among those that may
  leave the member behind (`Warned`; see section 6).
- A write fails a bounded number of times (`MaxFaults`); the proofs have no bound.

In `EtcdLeave` a pass may start at any time, which is what the safety properties are
about. `LeaveQueue` adds when it does: `queued` is the KCP's key on the work queue,
`failure` the words `Reconcile` left in `status.failureMessage`. A pass that waits,
holds or finishes returns a RequeueAfter or patches the Machine, which is watched. A
pass whose sweep returns an error is recorded and returns `Result{}, nil`
(controller:433-443): new words make the status write an event, the same words write
nothing. Errors of one kind may or may not be in the same words (a dial error names a
port), so both happen. `OtherEvent` is any other change of a watched object.

### ControlPlane

A Machine is the number of its creation, so `sortMachinesOldestFirst` is the order
on numbers and `MachineName`'s guarantee of fresh names is built in. `api` is what
the API server has, `seen` what the controller's cache has. `CacheSync` brings the
cache up to date in one step, so `seen` is always some past state of `api` (with
the controller's own hook removals applied, as the code's patch does to its copy).
One reconcile is one step with at most one write, which is how `reconcileMachines`
and `reconcileRollout` end: every create and every delete returns.

| Code | Definition |
|---|---|
| the sweep of deleting Machines | `SweepPending`, `ReleaseHook` |
| `controlPlaneRoleForNewMachine` | same name |
| `initMachineJoinable`, `memberJoined` | same names |
| `createControlPlaneMachine` with `waitForMachineInCache` | same name; the wait that gives up is `Spend("lag")` |
| `canRemoveMember`, `etcdVotingHealthy`, `identityPreflight` | same names |
| scale-up, `selectMachineForDeletion` and scale-down | `ScaleUp`, `ScaleDown` |
| `reconcileRollout` | `RollingOut`, `RolloutSurge`, `RolloutDelete` |

The VMs found, add, start, register and report as separate steps, because etcd
counts a member from its `member add` on. `MemberLeaves` and `ReleaseHook` are the
outcome of `EtcdLeave`: the member has left while the hook is on, or the leave was
abandoned, or the release rested on the absence of an EtcdMember.

A delete needs an answer of kube-system through the endpoint, which needs etcd's
quorum (`identityPreflight`); with a Node among several Machines the pin it compares
with is taken, because the gate before it holds until then.

Taken as given: the control plane runs k0s; the pinned cluster answers as itself
(`WorkloadIdentity` has the rest) and the join token never holds (it only delays a
create); a create does not fail half-way (`Lifecycle`
has that); the etcd-status Secret can be read. `AddBeforeRemove` excepts a surge
Machine that a rollback made outdated while it boots (section 6).

### Lifecycle

`Reconcile` and `reconcileDelete` of one KCP, cut at their API calls. `kcp`,
`cluster`, `machines` are the API server's, `kseen`, `cseen`, `seen` the caches',
each brought up to date by its own `Sync`. `queued` is the workqueue: a requeue, a
returned error, or an event that reaches a cache raises it; the passes that end
with neither leave it down, which is what the liveness properties are about.

| Code | Definition |
|---|---|
| finalizer, Cluster lookup, label, pause | `Begin` to `NotPaused`; `UpdateConflict` |
| a name and three creates, `createdObjects.cleanup` | `CreateConfig`, `createInfrastructureMachine`, `CreateMachine`, `CreateFails`; `CleanupDeletes`, `CleanupFails`, `CleanupDone` |
| `waitForMachineInCache` | same name; `WaitGivesUp`, remembered in `past.unseen` |
| `reconcileNodeDrainTimeout`, `reconcileMachineMetadata` | same names |
| the sweep of deleting Machines | `LeaveWaits`, `LeaveDone`, `SweepDone` |
| `reconcileDelete` | `DeletionStarts`, `stripEtcdLeaveHooks`, `drainOwnedMachines`, `MachinesRemain`, `RemoveFinalizer`, `TeardownFails` |
| errors on the status | `RecordFailure`, `UpdateStatus`: an error is a kind and the name in its message, because an unchanged status raises no event |
| the watches | `SyncKCP`, `SyncCluster`, `SyncMachines` |

Abstractions: the deferred patch of `observedGeneration` is left out; a list is
worked in its order; the etcd leave and the join gates only hold a Machine or let
it go; the Cluster goes before the KCP only when the KCP is being deleted and has
no Machines; a KCP is not created again under its name. A drain deadline is a set
of at most one number, with the width of the code's field (`Bits` for 32). A scenario
starts with a KCP that is there and, when it has Machines, has its finalizer and its
label, because `Reconcile` gives both before the first create (`ScenarioAssumption`).
`pass.held` is an observer: the pass began on a pause that its caches show and that
lasts (`Holds`), and nobody has unpaused the Cluster since (`LetGo`).

### WorkloadIdentity

The two annotations of the KCP are kept three times: `obj` on the API server,
`cache` in the informer (`lag` says it is behind) and `kcp` in the reconcile
(`current` says it still is the last version). A patch carries the
resourceVersion of the copy, so it succeeds only if `current`; any edit ends that.
`serves` is the cluster each path leads to at this moment: the endpoint and the
members' addresses may move at any time, also while the reconcile reads them one
after the other. `checked` is the recheck limit, which lives in memory.

| Code | Action |
|---|---|
| `clearRepinnedIdentityFreeze`, the hold while frozen | `clearRepinnedIdentityFreeze`, `HoldFrozen`, `NothingToClear` |
| does an identity apply, is a pin or a recheck due | `GateOpen`, `GateHold`, `GateObserve` |
| `observeWorkloadIdentity` | `readWorkloadIdentity`, one path at a time |
| `pinWorkloadIdentity` | `PinUnanswered`, `PinDisagree`, `pinWorkloadIdentity` |
| the recheck | `RecheckAgrees`, `RecheckDisagrees` |
| etcd leave and orphan members | `connectVerified` at `sweep` and `orphan` |
| join-token maintenance | `MaintainTokens` |
| `identityPreflight`, the check before a mint | `identityPreflight` |
| what follows a check | `Act` |

`PatchFails` is a conflict or a failed write, at every patch. Observers, which no
guard reads: `moved` (the path moved since it was verified), `mismatch` (the
reconcile found a mismatch and went on) and `repinned`.

Abstractions:

- A read that fails is a path that is `Silent`.
- A marker written by hand that cannot be parsed is not modelled.
- `Act` stands for what changes the membership through a verified path. An
  abandoned leave releases a hook without one, by design (see `EtcdLeave`), and a
  create without a join token is gated and not verified.
- What `cluster` stands for changes between reconciles; the code reads it once.
- A reconcile may act while the server already has a freeze its copy does not
  show. `ActsOnPinnedCluster` says it then still acts on a verified path.

### JoinToken

`there` and `life` are the token Secrets of the workload cluster and what is left
of them, `slot` the one join-token Secret of the management cluster and `seen` its
cached copy, which the pass and the render read. A joiner goes from its KairosConfig
(`config`) over its Machine (`booting`) to `joined`, `deleting` and `gone`; `token`
and `marked` are the annotations of its KairosConfig, `data` the token in its
bootstrap data. A pass first maintains the tokens of the joiners it listed (extend,
clear, remove, mark), then admits a joiner (reuse or mint, store, verify,
KairosConfig, Machine); it can stop after each write, a create can fail.

Abstractions: one unit of time is the recheck interval and a pass takes none; the
Machines a pass works on are those it listed, so a Machine that changes meanwhile
changes afterwards; a KairosConfig is visible with its Machine; the cached copy
does not change while a pass holds it; a lapsed token may still be extended, as in
the code; the encoding of a token, and the k3s token, which is a static value of
the KCP, are not modelled. A token may serve a second joiner when the Machine of
the first is gone before the token's removal succeeded.

### OrphanMembers

A member is named by the Machine whose node runs it; the Machine may be gone (an
orphan), belong to another owner, or know the member by other names (`drift`). A
pass detects, then records (`rec` on the KCP, with an optimistic lock), asks
(`leave`), takes back, finishes or gives up, one API call per step. `new`, `judged`
and `given` are observers. A node reports once per boot, so the report of one that
dies stays, and `orphanRemovalBlocked` counts it.

Abstractions: no member has the Node name of another Machine; k0s clears
`spec.leave` when a node joins again; one `Tick` is the cap; a failed identity
check is a pass that stops; a rollout is one Machine that does not run
`spec.version`. After the cap the record goes and `spec.leave` stays: `given`
remembers it.

### KubeconfigPublish and SSHFallback

A kubeconfig is what the sanitizer tells apart: the first of its flaws in the order
of the checks, its CA, the server it names and whether it has expired. Copies carry
no resourceVersion; `cfresh` and `kfresh` say whether the contract Secret and the
KCP are still as the pass knows them. The pass of `reconcileKubeconfig` is cut at
every write; `SSHFallback` adds the sibling reconciler (read and decide, enqueue,
patch), the job (run, write, post), the channel and the drain (read, apply), all
concurrent.

Abstractions: the condition patches of the fallback compare the condition they
read, as CAPI's patch helper does, and the status update of the pass compares the
whole KCP; jobs of other KCPs hold slots only; the severity of a condition is left
out; whether the fallback is enabled and whether the Cluster refers to this KCP are
chosen per behaviour.

### Bootstrap, KubeadmJoin and NodePushRole

One KairosConfig with its Machine, Cluster, infrastructure and VM. A pass reads a
cached copy, renders, writes the Secret and patches the status (`pass.pc`); the
watches and the requeues that bring it back are explicit, and the periodic resync
of the cache is not counted on. A render is the set of what it carries. The VM
copies the Secret once.

A scenario may start with Secrets of an older release, under the name it chose. What
it may say is `OnRecord`: the names on the Machine and in the status are of Secrets
that this controller wrote with what the node needs, or that are gone; only a kubeadm
worker's data may lack its token, and then no Machine has taken it. A Secret of
somebody else may stand under any other name.

`KubeadmJoin` is the worker's token: `verifyTrustChain` decides over the control
plane's readiness, its kind, the owner, server and CA of its kubeconfig; tokens are
minted, reused, extended up to the cap and revoked. `NodePushRole` has the rules of
the Role nodes push with, and the migrator's list and patch. The patch is not guarded:
with `budget.overlaps` a render may come between the list and the patch, and is
overwritten. `PushingNodeMayPush` is about the behaviours where that does not happen
(with it, it is violated); everything else is stated and proved for both.

Abstractions: the providerID marker and the SSH stage checks are "providerID in the
render"; an unavailable management CA, the day a push token lives, MachinePools and
a missing version are left out; a foreign Secret is refused; garbage collection by
owner reference is Kubernetes'; the alignment with `dataSecretName` also removes
the old `-userdata` copy. One unit of time is the recheck interval, the token's life
is 3, the cap (288 intervals in the code) is 3.

What may go wrong while a worker holds a token is limited, per scenario, by
`TokenScenarios`. In the *prompt* scenarios the recheck comes in time but for one that
may be an interval late, and the workload cluster is trusted and can be reached; lags,
lost patches, restarts and wipes are not limited. In the others patches arrive, and
delays, outages, pauses and a cluster that is not trusted are not limited. The run
has an `ASSUME` that its scenarios are of this kind. The limit is a real one: in a
scenario that is neither, the second token of section 6 appears.

## 3. Runs

| Run | Checks | Shows |
|---|---|---|
| `leave` | `LeaveInv`, `NoLeaveDuringDrain`, `ImplementsSafeEviction`, `OrderedWrites`, `HookIsReleased` | no silent release under a live member; the handshake implements `SafeEviction`; every deletion that waits on the hook is released or frozen, whatever nodes, k0s and network do, unless no pass will look at it and its failure shows |
| `cp_spec` | `QuorumOnlyLostToAJoin`, `DeletesKeepHealthyMajority`, `AddBeforeRemove`, `Converges` | bring-up, scaling 3 and 5, rollout and rollback, one operator delete or a cache that lags: quorum is kept and the spec is reached |
| `cp_disturbed` | `ControlPlaneInv`, `OneJoinerAtATime`, `OneFounder` | the same with a node failure, an abandoned leave and a bad report, replicas 1 and 3 |
| `cp_stale_reports` (violation) | `DeletesKeepHealthyMajority` | dead and departed members are counted as healthy, while etcd has its quorum |
| `lifecycle` | `LifecycleInv`, `OthersAreLeftAlone`, `TeardownEnds`, `MachinesArriveOrFailureShows`, `DeadlineReaches` | creates that fail half-way, taken names, pauses, edits and deletions in the middle of any of it leave nothing behind and come to an end |
| `lifecycle_late_template` (violation) | `LateTemplateIsUsed` | an unchanged failure leaves nothing queued |
| `identity` | `IdentityInv`, `PinIsKept`, `FreezeIsSticky`, `ActsOnPinnedCluster`, `MismatchFreezes` | pin and freeze survive stale copies and racing operators, every action is on the pinned cluster, a lasting mismatch freezes if passes come |
| `join_token` | `JoinTokenInv`, `TokenOutlivesOutages`, `EveryTokenLapses` | a joiner has its own token, which outlives outages up to the cap; every token lapses |
| `orphans` | `OrphanInv`, `RemovalsAreSafe`, `EveryHoldEnds`, `OrphansGo` | only orphans are removed, with a majority left by the reports that count; holds end; orphans do not stay if checks come |
| `kubeconfig` | `FallbackInv`, `ReadyIsUsable`, `PublishedIsPinned`, `SecretSettles`, `ReadyIsReported` | two publishers, operators and nodes on one Secret and one condition |
| `kubeconfig_dialing` (violation) | `DialingEnds` | the condition stays at Dialing with no job |
| `bootstrap` | `BootstrapInv`, `FirstRenderIsComplete`, `HeldTokenIsKept`, `StepsAreSafe`, `BootstrapDataArrives`, `TokenAndObjectEnd` | the VM boots from a complete render, its token lives and is revoked, every wait ends |

Several properties are conjunctions of named parts, one run each being enough:
`JoinTokenInv` (`OneMachinePerToken`, `BootsWithItsToken`), `OrphanInv`
(`OutstandingIsRecorded`), `LifecycleInv` (`NoMachineOutlivesKCP`,
`FailedCreateLeavesNothing`), `BootstrapInv` (`FinalizerOutlivesSecret`,
`PushingNodeMayPush`), `StepsAreSafe` (`KeepsReferencedSecret`, `RegenerationAdds`,
`TokensNeedAnAnchor`, `MigrationOnlyNarrows`). The parts have mutants of their own.
The invariants among them, `FallbackInv` and `ControlPlaneInv` also carry the parts that
make them inductive (section 4), so that TLC checks exactly what the proofs use.

### Bounds and why they are enough

- `EtcdLeave` has one Machine and no unbounded state. `MaxFaults` bounds failed
  writes, restarts and freeze changes: one, at any point. (With two, one strikes a
  write and another its retry; the handshake passes with it too, and takes longer
  than a run should. The proofs have no bound.)
- `ControlPlane`: `MaxMachines` bounds the creations (17 in `cp_spec`, more than
  any behaviour in it creates; 5 in the others, enough for a full rollout step
  beside a replacement). `Budgets` bounds what operators and fate may do: two spec
  edits are an edit and its reversal, or a scale and a version; one delete, one
  failure, one abandoned leave, one bad report together in `cp_disturbed`; one edit, two
  deletes and one failure in `cp_stale_reports`, so that etcd shrinks with its quorum
  kept. A budget
  is a bound on a whole behaviour, so everything in it may fall at any point.
  `Replicas` is {3, 5} where the property is about quorum, {1, 3} where it is about
  roles. `Versions` is two values: the code only tests equality. Machines are not
  symmetric: their order matters to every selection.
- `Lifecycle`: twelve scenarios, each a start and a budget of faults, restarts,
  lags, pauses, edits and deletes. Six names and two attempts per pass let a pass
  run out of attempts and the next go on. `Bits` = 3 puts timeouts on both sides of
  the overflow.
- `WorkloadIdentity`: one member path beside the endpoint, because the code only
  asks whether some path disagrees; two UIDs, ours and another. `MaxEdits` = 2
  bounds edits and failed writes together: a re-pin and the removal of the marker,
  or an edit that races a patch and one that fails. Malformed UIDs are in the
  proofs, which have no bound.
- `JoinToken`: two joiners and two tokens (one can be reused wrongly), two server
  addresses (one can go stale); `TTL` and `RenewWithin` of 2 and a cap of 3 make
  each of extension, lapse in a long outage, revival and cap happen.
- `OrphanMembers`: four Machines, two of ours present, one foreign, one whose names
  may drift; two member IDs per node (a node that comes back); one event from
  outside and one pass cut short. `Replicas` has 2, which the webhook refuses: 2 and 3
  have the same majority, and with 2 the orphan is a third member. The same instance
  with the sizes the webhook admits (1 and 3, five Machines, three of ours present)
  has 851,744 states, was checked too, and takes longer than a run should.
- `SSHFallback`: two CAs, one endpoint that may be unknown, a pool of one so that it
  is full at once, and budgets that trade events against stops.
- `Bootstrap`: 23 scenarios, one for each way through the controller, each with the
  disturbances it has to withstand; three tokens.
- Deadlock is checked for `WorkloadIdentity` and `Bootstrap`, whose controllers
  always come back or end in a named state, and not for the others: an evicted
  Machine, a converged control plane and a spent budget are meant to stop.

### Fairness

- `LeaveQueue`: weak fairness of a pass *that is queued* and of one under way, of the
  teardown strip (`reconcileDelete` requeues and returns its errors), of CAPI and of
  the clocks. None of the node, of k0s, of events from outside or of any particular
  answer of the network: `ConnectUnanswered` is one of the ways the pass may go for
  ever. That passes keep coming is not assumed. `HookIsReleased` excepts a
  leave that, from some point on, no pass looks at and whose failure shows.
- `ControlPlane`: weak fairness of the reconcile, the cache, kubeconfig
  publication, CAPI's termination, and every VM's own progress. Convergence is
  about healthy VMs; there is no failure in that run's budget.
- `Lifecycle`: weak fairness of a pass *that is queued*, of each cache, of the
  Machine controller, and of a late Cluster or template. What brings a pass back is
  in the model, not in the fairness.
- `WorkloadIdentity`: weak fairness of a reconcile that has begun, of the cache, and of
  the end of the recheck interval. No fairness begins a reconcile: a steady control
  plane returns `Result{}` and nothing resyncs it (controller:890, 650).
  `MismatchFreezes` has "reconciles begin again and again" as its premise. None of the
  operators or the paths.
- `JoinToken`: weak fairness of a pass that has begun, strong fairness of time, which
  only goes by between passes. No pass need begin: tokens lapse without one.
- `OrphanMembers`: weak fairness of a pass that has begun or that has a record to
  follow (the hold requeues), strong fairness of time; k0s does what it is asked and
  nodes report. No fairness begins a check: `OrphansGo` has checks that come again and
  again as its premise. `EveryHoldEnds` needs no fairness of k0s or the reports: the cap ends
  the hold.
- `SSHFallback`: weak fairness of the KCP's pass, the sibling reconciler (its own
  cadence), the jobs (they have a time budget), the drain, and time.
- `Bootstrap`: weak fairness of a queued pass, its cache, its timers, of those who
  publish what it waits for, of the end of pauses and outages, and of time.

## 4. What is proved

- `LeaveInvariant`: `Spec => []LeaveInv`, with no assumption beyond the types of the
  constants. `SilentReleaseMeansLeft` is not inductive: that an ack is true when it
  is read depends on the forced write having removed a stale one (`AckInv`), which
  depends on the responder never acking without having left (`ResponderInv`);
  `Joined=False` is true because of `EtcdMemberInv`, and the delegation may use it
  because a leave is only requested of a node that had joined (`RequestInv`). Each
  part is stable only in the presence of the others.
- `EvictionRefinement` follows from `LeaveInv`, for both values of
  `ReporterReliable`; `SilentReleaseSafe`, that no silent release at all finds the
  member in etcd, assumes it. The refinement maps `hook`, `member`, `released` and `phase` to
  the four variables of `SafeEviction`, and every action to one of its steps or a
  stutter.
- `DrainComesFirst` (`Spec => []NoLeaveDuringDrain`) and `WritesKeepOrder`
  (`Spec => OrderedWrites`): no leave is asked for, acknowledged or delegated while
  CAPI drains, the forced write never erases an ack of this leave, and k0s is only
  asked for the member on record. Both rest on `OrderInv`: where a pass may be while
  nothing has been requested yet, and what the reads it carries imply.
- `QueueOnlyHoldsBack` (`QueueSpec => Spec`): with its work queue the handshake is still
  the handshake, so the theorems above hold for the controller as it is woken.
  `NothingWaitsInSilence` (`QueueSpec => []StrandedShows`): whenever no pass is to come,
  the failure shows. It is inductive, because every step that ends a pass either queues
  the next one or records its words.
- `CacheMissesNothing` (`Spec => []ControlPlaneInv`), for any number of Machines and
  versions and any budgets, lags included. The cache shows no deletion or Node the API
  server does not have, and misses no Machine while no `waitForMachineInCache` has
  given up (`CacheInv`). A Machine keeps its hook until the cache shows its deletion
  (`HookInv`), so what the cache has and does not show deleting exists. While no node
  fails, a member whose Machine exists runs an etcd (`VoterInv`). While no node fails
  and no wait gives up (`Calm`), a Node is one of a member that serves, until the cache
  shows its deletion, and a Machine is followed by another only once it has a Node or
  leaves (`TurnInv`): this is what makes the reports in the etcd-status Secret, which
  nobody withdraws, good enough for the Machines the cache shows.
- `FounderIsUnique` and `JoinersComeInTurn` assume that `waitForMachineInCache` never
  gives up (`CacheReliable`: no budget allows it). A create happens only when the cache
  shows no Machine (init) or only finished or deleting ones (join), and by
  `ControlPlaneInv` the API server then agrees; no other action adds a Machine or takes
  back a registration or a good report.
- `RolloutsAddFirst` (`Spec => AddBeforeRemove`) for control planes that are never
  scaled to one (`HighlyAvailable`; a single-node control plane is replaced without a
  surge), with no limit on lags, failures and deletes. The count of `reconcileRollout`
  is made on the cache; by `HookInv` and `CacheInv` each Machine in it is there, and the
  ones whose deletion the cache does not show yet are the only ones counted too many,
  which `AddBeforeRemove` says.
- `DeletesLeaveAMajority`: `DeletesKeepHealthyMajority` for `HighlyAvailable` control
  planes, as long as the state is `Calm` and at most a minority of the Machines in the
  cache is being deleted (`FewLeaving`). None of this can be dropped: with a failed node,
  or with more deletions pending, the reports of the dead and the departed are counted
  (`cp_stale_reports`), and scaling to one skips the guard (section 6).
- `QuorumSurvives`: `QuorumOnlyLostToAJoin` holds in every state in which no node has
  failed and more than half of the members have a Machine (`FewOrphans`). A member
  outlives its Machine when its leave is abandoned or its hook is released while it is
  added and not started. Nothing in the scale and rollout code bounds how often that
  happens; removing such members is the part of `OrphanMembers`.
- `IdentityInvariant`, `PinStays`, `FreezeStays`, `ActsVerified`: for any paths,
  UIDs and bound, with no further assumption. `PinIsKept` needs `CopyInv`: a copy
  that passes the lock is the object, so a pin is only written where there is none.
  `FreezeIsSticky` needs `MarkInv` too: the KCP drops a marker only when it differs
  from the pin, which without a re-pin it never does. `ActsOnPinnedCluster` follows
  from `GateInv`, which says what the gate has established at each later stage.
- `TokensAreTheirOwn` (`Spec => []JoinTokenInv`) and `TokensOutliveOutages`
  (`Spec => []TokenOutlivesOutages`), for any numbers of joiners and tokens and any
  lifetimes with `1 < RenewWithin <= TTL`. `JoinTokenInv` carries its own
  strengthening: what is held was issued (`IssuedInv`), so a minted token is new; the
  annotation is the ID of the token in the Secret and a cache that is not behind is
  right (`SecretInv`), so the lock protects a token that is not rendered yet; from
  the choice of a token to the Machine nothing else joins and no Machine has it
  (`AdmitInv`); the Secret is cleared only for a Machine that is done (`ClearInv`).
- `OutstandingRecorded` (`Spec => []OrphanInv`) and `OnlyOrphansGo`
  (`Spec => RemovalsAreSafe`), for any finite set of Machines, foreign or drifting, any
  replica counts with a greatest one, and any numbers of member IDs, events and stops
  (`OrphanAssumption`). That an outstanding removal is the recorded one is kept by a
  pass only because of what the pass established calls earlier: it follows the record,
  asks for the member it inspected while its reading is fresh, and drops a record only
  when nothing is outstanding under it (`PassInv`); and because a member that is asked
  to leave has an ID (`MemberInv`). That the rest keeps a reported majority is a fact about
  cardinalities, which is carried from the judgement to the removal while membership and
  the Machines stand (`JudgedInv`). It is a majority of members that run unless a node
  has died behind its report, which the property says and section 6 explains.
- `FallbackInvariant` (`Spec => []FallbackInv`), `ReadyKubeconfigIsUsable`
  (`Spec => ReadyIsUsable`) and `PinComesFirst` (`Spec => PublishedIsPinned`), for any
  kubeconfigs, CAs, servers and any size of the pool. `PublishInv` says what a pass has
  established at each of its writes: its copy of the pin is the KCP's, what it will
  write is clean and has that CA, what it will report ready is so unless the Secret was
  written since. Nobody but the pass writes the pin, which is why the concurrent job,
  drain and sibling reconciler leave it alone.
- `NothingIsLeftBehind` (`Spec => []LifecycleInv`) and `LeavesOthersAlone`
  (`Spec => OthersAreLeftAlone`), for any number of names (numbered from 1), attempts,
  width of the deadline field and scenarios (`LifecycleAssumption`,
  `ScenarioAssumption`). No Machine outlives its KCP because copies only ever lag
  (`ViewInv`: a live pass and a deletion do not both run after the finalizer has gone),
  and because a Machine is in the cache, or its own create still waits for it, or the
  wait gave up (`CountInv`), so that what the deletion counts is all there is. A failed
  create leaves nothing because what is under its name is its own (`CreateInv`).
  `HoldInv` carries a pause from the start of a pass to the point where it looks.
- `BootstrapHolds` (`Spec => []BootstrapInv`), `FirstRenderHolds`
  (`Spec => []FirstRenderIsComplete`) and `StepsStaySafe` (`Spec => StepsAreSafe`), for
  every set of scenarios of the right types, every bound on tokens and every cap. A
  render is complete when it is made, because a pass renders only when the Cluster is
  ready (`OrderInv`); but the VM copies what the Machine names, which a pass on a stale
  copy, a restart or an older release may have chosen. So the argument is on names and
  data: no name on the Machine, in the status, in the cache or in the pass is of
  somebody else's Secret, and while the Machine has none an older name is kept as long
  as its data is there (`NameInv`); what is stored under any name is complete, but for
  a kubeadm token that was lost before any Machine took the data (`DataInv`). That a
  rewrite changes something needs the reason of the decision to survive until the
  write (`AgainInv`): a known providerID stays known, a token that is gone stays gone.
  `PushInv` carries the grants of the Role from a render over the stored Secret to the
  VM. An earlier `NameInv`, which had the name always on record, held in every
  scenario then checked and was not inductive: a pass on a stale copy whose data
  somebody deleted may patch the name away, and the next one gives it back. A scenario
  with both disturbances has been added for it.
- `BootstrapHolds` also has `TokenInv`, for the scenarios of `TokenScenarios`, and from it
  `HeldTokensAreKept` follows. In a prompt scenario (`SlackInv`) a worker whose node has
  not joined has one token, with one interval left for every recheck that may still be
  late and one to spare; two to spare, and the next recheck on its clock, whenever the
  controller is not behind. A lost patch does not mint a second token, because the
  status is then empty and the token is found by its owner. In the others (`RecordInv`)
  the token that the VM or a Secret holds is on record, or in the pass that will record
  it. The theorem excepts a prompt scenario past the cap: nothing is extended there, so
  the token lapses, a wipe makes the next pass mint another, and if its patch is lost a
  third, of which one is not on record. TLC shows that run when `Bootstrap` is given
  these budgets.
- `MigrationNarrows` and `MigrationKeepsPush`: for every set of rules, the
  migrator's intersection permits nothing new and keeps the grants nodes push with.

Only model-checked:

- liveness, which needs fairness and ENABLED;
- what the assumptions above leave out and a run has: the quorum properties where a wait
  for the cache gives up or more than a minority leaves (`cp_spec`), and
  `HeldTokenIsKept` past the cap in the prompt scenarios (`bootstrap`).

## 5. Findings

Each is shown by a violation run and described, with the quoted documentation, in
PROJECT.json:

- the quorum guard counts reports of nodes that are gone and approves a delete that
  leaves one healthy member of three, although etcd had its quorum and the identity
  preflight was answered (`cp_stale_reports`);
- the fallback starts its job before the condition says Dialing, and sets it also
  when the pool dropped the job; a result that is drained first leaves Dialing
  behind for ever (`kubeconfig_dialing`);
- a pass that fails twice with the same message leaves nothing queued, so a
  KairosConfigTemplate that comes later is not noticed (`lifecycle_late_template`). The
  same return leaves an etcd leave unqueued; see section 6.

## 6. Observations

Seen in the models while they were built, recorded here for the maintainers, and
excluded by a stated assumption or exception rather than by a run:

- An absent etcd-status report is taken as proof of a leave (`ha_leave.go:399`),
  though the push is best effort: with `ReporterReliable = FALSE` a live member is
  released silently (`SilentReleaseMeansLeft` is then violated).
  `docs/HIGH_AVAILABILITY.md:140` relies on the report.
- An etcd leave whose sweep fails twice in the same words is not looked at again until
  something watched changes (controller:433-443), while `ha_leave_unregistered.go:55-56`
  says "so the reconcile requeues with backoff" and `ha_leave.go:305-311` that every
  such wait is bounded. `HookIsReleased` has this case as its exception, and
  `NothingWaitsInSilence` shows that the failure is then on the status.
- The recheck of the identity runs "at most once a minute, so a switch is noticed with
  no action pending" (`ha_identity.go:43-44`; `docs/HIGH_AVAILABILITY.md:233` counts on
  "the once-a-minute recheck"), but a steady control plane is not requeued
  (controller:890) and "the KCP has no resync" (650): a switch is noticed at the next
  event. controller-runtime's default resync, hours apart, is not counted on here.
- The search for orphan members has no schedule either (`ha_etcd_orphans.go:169-175`):
  an orphan that appears in a steady control plane, or one given up at the cap, is found
  at the next pass some event brings.
- A node that died behind a healthy report is counted by `orphanRemovalBlocked`
  (`ha_etcd_orphans.go:533-558`), as by `canRemoveMember`: removing an orphan can then
  cost etcd its quorum. `RemovalsAreSafe` has a dead node behind its report as its
  exception, whether it died before the judgement or after.
- A workload cluster that can be read but never written keeps a deletion waiting:
  the stamp follows the forced write, so no bound starts (`ha_leave.go:375`, against
  the comment at 306-311). `MaxFaults` excludes writes that fail for ever.
- A control plane scaled to one while a joiner boots deletes the joiner without the
  quorum guard and can lose its quorum (`ha_leave_unregistered.go:122`). `cp_spec`
  therefore scales between 3 and 5.
- A version rolled back during the surge makes the surge Machine outdated, and it
  is deleted after it joined (`rollout.go:122`). `AddBeforeRemove` excepts it.
- A mismatch met by the join-token maintenance holds the rest of the reconcile only
  if its marker could be written (`ha_k0s_jointoken.go:719`).
- A stored join token is reused on a cached read that another pass may already have
  replaced (`ha_k0s_jointoken.go:474`); `BootsWithItsToken` excepts `stale` tokens.
- A kubeadm token that lapsed, whose replacement's status write was lost, is
  replaced a second time: the lookup by owner is skipped when the status names a
  token (`kubeadm.go:315-321`, 350-358).
- A missing `userPasswordSecretRef` latches a failure with no requeue and no watch
  on the Secret (`kairosconfig_controller.go:323-327` says it does not latch).
  `BootstrapDataArrives` accepts any recorded failure as an end of the wait, this one
  included, as `MachinesArriveOrFailureShows` does for a KCP: they show that nothing
  waits in silence, not that a failure clears.
- The migrator lists and later patches a Role with no version to guard it, and can
  undo a render that came between for a moment (`docs/UPGRADING.md:592-597`).
- `nodeDrainTimeout` is not propagated once the KCP is being deleted
  (`docs/API_REFERENCE.md:379`); `DeadlineReaches` is about a KCP that is not.

## 7. Plan

Modelled so far: every component with a protocol of its own. What is left, in this
order:

1. The composition of `ControlPlane` with `OrphanMembers`, to replace `FewOrphans` by a
   bound on members that lose their Machine faster than the orphan removal takes them.
2. The composition of `JoinToken` with `Bootstrap`: today the former has the render
   of a joiner as one step, the latter the token as an ingredient.
3. The k3s branch of the reports, which only advises.

## 8. Not modelled, and why

Text rendering (cloud-config templates beyond the protocol scripts), validation
webhooks, the Service and Endpoints of the load balancer, status and conditions
other than `KubeconfigReady`, the secret cache's options, the manager's wiring and
the KubeVirt development environment: they keep no state of their own beyond an
idempotent write, or are pure input and output. `components` gives the reason for
each.
