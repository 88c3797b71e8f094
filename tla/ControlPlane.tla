---------------------------- MODULE ControlPlane ----------------------------
(***************************************************************************)
(* Scale and rollout of a k0s control plane: reconcileMachines and         *)
(* reconcileRollout of the KairosControlPlane controller (KCP), with the   *)
(* API server and its lagging cache, CAPI, the VMs and their etcd.         *)
(*                                                                         *)
(* A Machine is the number of its creation, so the order on numbers is     *)
(* sortMachinesOldestFirst and a name is never used twice.  A reconcile is *)
(* one step: it lists Machines from the cache (`seen', some past state of  *)
(* `api'), reads the etcd-status Secret and makes at most one write.  The  *)
(* leave of a member is abstracted to what EtcdLeave shows of it. The join *)
(* token and the identity gate are taken to be open here, but a delete     *)
(* needs an answer of the pinned cluster.                                  *)
(***************************************************************************)
EXTENDS Naturals, FiniteSets, FiniteSetsExt

CONSTANTS
  MaxMachines,   \* bound: how many Machines a behaviour may create
  Replicas,      \* values spec.replicas may have, of 1, 3 and 5 (webhook)
  Versions,      \* values spec.version may have
  MaxSurge,      \* spec.rolloutStrategy.rollingUpdate.maxSurge
  Established,   \* sizes the control plane may start with, all joined
  Budgets        \* bounds: how often the things in Spends may happen

Machine == 1..MaxMachines

\* What the budgets bound: starting from no Machine, a spec edit, an operator's
\* delete, a node failure, a leave given up, a bad etcd-status report,
\* waitForMachineInCache giving up.
Spends == {"bootstrap", "edit", "delete", "fail", "abandon", "unreported", "lag"}

ASSUME ControlPlaneAssumption ==
  /\ MaxMachines \in Nat /\ MaxSurge \in Nat
  /\ Replicas # {} /\ Replicas \subseteq {1, 3, 5}
  /\ Versions # {} /\ Versions \subseteq Nat
  /\ Established \subseteq 0..MaxMachines
  /\ Budgets \subseteq [Spends -> Nat]

VARIABLES
  replicas, version,  \* the KairosControlPlane spec
  created,            \* Machines created so far: 1..created
  role, ver,          \* of each Machine, fixed when it is created
  api,                \* the Machines as the API server has them
  seen,               \* the Machines as the controller's cache has them
  report,             \* the etcd-status Secret; a key is never removed
  kubeconfigReady,    \* the KCP condition
  stage,              \* of each VM's etcd
  voters,             \* the members of the workload cluster's etcd
  spent               \* how often each thing in Spends has happened

spec == <<replicas, version>>
made == <<created, role, ver>>
vars == <<spec, made, api, seen, report, kubeconfigReady, stage, voters, spent>>

\* What the Machine objects say: which exist, which have a DeletionTimestamp,
\* the etcd-leave hook, a NodeRef.
Objects == [live : SUBSET Machine, deleting : SUBSET Machine,
            hooked : SUBSET Machine, nodeRef : SUBSET Machine]

Role  == {"single", "init", "join"}
Stage == {"off", "booting", "added", "serving", "failed", "left"}

TypeOK ==
  /\ replicas \in Replicas /\ version \in Versions
  /\ created \in 0..MaxMachines
  /\ role \in [Machine -> Role] /\ ver \in [Machine -> Versions]
  /\ api \in Objects /\ seen \in Objects
  /\ report \in [Machine -> {"none", "ok", "bad"}]
  /\ kubeconfigReady \in BOOLEAN
  /\ stage \in [Machine -> Stage] /\ voters \in SUBSET Machine
  /\ spent \in [Spends -> Nat]

\* Nothing created yet, or a control plane of n Machines that have joined.
InitWith(n) ==
  /\ replicas \in Replicas /\ version \in Versions
  /\ n > 0 => replicas = n
  /\ created = n
  /\ role = [m \in Machine |-> IF replicas = 1 THEN "single"
                               ELSE IF m = 1 THEN "init" ELSE "join"]
  /\ ver = [m \in Machine |-> version]
  /\ api = [live |-> 1..n, deleting |-> {},
            hooked |-> IF replicas = 1 THEN {} ELSE 1..n, nodeRef |-> 1..n]
  /\ seen = api
  /\ report = [m \in Machine |-> IF m <= n /\ replicas > 1 THEN "ok" ELSE "none"]
  /\ kubeconfigReady = (n > 0)
  /\ stage = [m \in Machine |-> IF m <= n THEN "serving" ELSE "off"]
  /\ voters = 1..n
  /\ spent = [what \in Spends |-> IF what = "bootstrap" /\ n = 0 THEN 1 ELSE 0]

Init == \E n \in Established : InitWith(n)

\* Something happens that the budgets bound.
Spend(what) ==
  /\ spent' = [spent EXCEPT ![what] = @ + 1]
  /\ \E b \in Budgets : \A w \in Spends : spent'[w] <= b[w]

\* etcd serves, and with it the workload apiservers.
Serving == {m \in voters : stage[m] = "serving"}
HasQuorum == 2 * Cardinality(Serving) > Cardinality(voters)

-----------------------------------------------------------------------------
(***************************************************************************)
(* The KCP: one reconcileMachines that gets past the sweep, and what it    *)
(* decides from `seen' and `report'.                                       *)
(***************************************************************************)

\* A deleting Machine that still has the hook ends the reconcile.
SweepPending == seen.live \cap seen.deleting \cap seen.hooked # {}

\* machineMatchesVersion, and the split of the rolloutPlan
outdated == {m \in seen.live : ver[m] # version}
updated  == seen.live \ outdated

\* Fault: Machines being deleted are not counted as existing.
RoleIgnoringDeleting ==
  IF replicas <= 1 THEN "single"
  ELSE IF seen.live \subseteq seen.deleting THEN "init" ELSE "join"

controlPlaneRoleForNewMachine ==
  IF replicas <= 1 THEN "single" ELSE IF seen.live = {} THEN "init" ELSE "join"

\* k0s: a Node, and a healthy voting report of it.
memberJoined(m) == m \in seen.nodeRef /\ report[m] = "ok"

\* Fault: the gate looks at the init Machine only, not at earlier joiners.
JoinableByInitAlone ==
  LET init == Min(seen.live) IN
  /\ init \in seen.nodeRef
  /\ kubeconfigReady
  /\ report[init] = "ok"

initMachineJoinable ==
  LET init == Min(seen.live) IN
  /\ init \in seen.nodeRef
  /\ kubeconfigReady
  /\ report[init] = "ok"
  /\ \A m \in seen.live \ {init} : m \in seen.deleting \/ memberJoined(m)

\* The role decides; only a join waits for the gate.
MayCreate == controlPlaneRoleForNewMachine = "join" => initMachineJoinable

\* Fault: the create does not wait for the cache.
CreateWithoutWait ==
  LET m == created + 1 r == controlPlaneRoleForNewMachine IN
  /\ m \in Machine
  /\ created' = m
  /\ role' = [role EXCEPT ![m] = r] /\ ver' = [ver EXCEPT ![m] = version]
  /\ api' = [api EXCEPT !.live = @ \cup {m},
                        !.hooked = IF r = "single" THEN @ ELSE @ \cup {m}]
  /\ stage' = [stage EXCEPT ![m] = "booting"]
  /\ UNCHANGED <<spec, seen, report, kubeconfigReady, voters, spent>>

\* createControlPlaneMachine, ending in waitForMachineInCache.
createControlPlaneMachine ==
  LET m == created + 1 r == controlPlaneRoleForNewMachine IN
  /\ m \in Machine
  /\ created' = m
  /\ role' = [role EXCEPT ![m] = r] /\ ver' = [ver EXCEPT ![m] = version]
  /\ api' = [api EXCEPT !.live = @ \cup {m},
                        !.hooked = IF r = "single" THEN @ ELSE @ \cup {m}]
  /\ \/ seen' = api' /\ UNCHANGED spent
     \/ Spend("lag") /\ UNCHANGED seen
  /\ stage' = [stage EXCEPT ![m] = "booting"]
  /\ UNCHANGED <<spec, report, kubeconfigReady, voters>>

\* The healthy voting reports, whoever made them and whenever.
etcdVotingHealthy == {m \in Machine : report[m] = "ok"}

canRemoveMember(target) ==
  \/ replicas <= 1
  \/ target \notin seen.nodeRef
  \/ target \in seen.deleting     \* its phase is not Running
  \/ /\ report[target] # "none"
     /\ Cardinality(etcdVotingHealthy \ {target}) >= (replicas \div 2) + 1

\* A delete reads kube-system first, which needs etcd.  With a Node among several
\* Machines the identity is pinned: the gate before it holds until it is.
identityPreflight == seen.nodeRef # {} => HasQuorum

\* A Delete of an object that is gone is an error and changes nothing.
deleteControlPlaneMachine(target) ==
  /\ target \in api.live
  /\ api' = [api EXCEPT !.deleting = @ \cup {target}]
  /\ UNCHANGED <<spec, made, seen, report, kubeconfigReady, stage, voters, spent>>

ScaleUp ==
  /\ ~SweepPending /\ outdated = {}
  /\ Cardinality(seen.live) < replicas
  /\ MayCreate
  /\ createControlPlaneMachine

\* Fault: one Machine too many is removed.
ScaleDownTooFar ==
  /\ ~SweepPending /\ outdated = {}
  /\ Cardinality(seen.live) >= replicas
  /\ LET target == Max(seen.live) IN
     canRemoveMember(target) /\ identityPreflight /\ deleteControlPlaneMachine(target)

ScaleDown ==
  /\ ~SweepPending /\ outdated = {}
  /\ Cardinality(seen.live) > replicas
  /\ LET target == Max(seen.live) IN   \* selectMachineForDeletion
     canRemoveMember(target) /\ identityPreflight /\ deleteControlPlaneMachine(target)

\* A single-node control plane is never rolled out, and a rollout waits while
\* any Machine is being deleted.
RollingOut == /\ ~SweepPending /\ outdated # {}
              /\ replicas > 1
              /\ seen.live \cap seen.deleting = {}

RolloutSurge ==
  /\ RollingOut
  /\ Cardinality(seen.live) < replicas + MaxSurge
  /\ MayCreate
  /\ createControlPlaneMachine

\* Faults: an outdated Machine is removed before its replacement has joined;
\* the removal waits until as many updated Machines as desired have joined.
RolloutDeletesEarly ==
  /\ RollingOut
  /\ Cardinality(seen.live) >= replicas + MaxSurge
  /\ LET target == Min(outdated) IN
     canRemoveMember(target) /\ identityPreflight /\ deleteControlPlaneMachine(target)

RolloutDeletesLate ==
  /\ RollingOut
  /\ Cardinality(seen.live) >= replicas + MaxSurge
  /\ Cardinality(updated \cap seen.nodeRef) >= replicas
  /\ LET target == Min(outdated) IN
     canRemoveMember(target) /\ identityPreflight /\ deleteControlPlaneMachine(target)

RolloutDelete ==
  /\ RollingOut
  /\ Cardinality(seen.live) >= replicas + MaxSurge
  /\ Cardinality(seen.live) > replicas
  /\ updated \subseteq seen.nodeRef
  /\ LET target == Min(outdated) IN
     canRemoveMember(target) /\ identityPreflight /\ deleteControlPlaneMachine(target)

\* Fault: the hook is removed without waiting for the leave.
ReleaseWithoutLeave(m) ==
  /\ m \in seen.live \cap seen.deleting \cap seen.hooked
  /\ api' = [api EXCEPT !.hooked = @ \ {m}]
  /\ seen' = [seen EXCEPT !.hooked = @ \ {m}]
  /\ UNCHANGED <<spec, made, report, kubeconfigReady, stage, voters, spent>>

\* The sweep: reconcileMemberLeave removes the hook on evidence from the
\* pinned cluster (an answer needs quorum).  A member that was added and never
\* started has no EtcdMember, so it passes for none.
ReleaseHook(m) ==
  /\ m \in seen.live \cap seen.deleting \cap seen.hooked
  /\ \/ HasQuorum /\ (m \in voters => stage[m] = "added")
        /\ UNCHANGED spent
     \/ Spend("abandon")             \* every wait ran out: abandonMemberLeave
  /\ api' = [api EXCEPT !.hooked = @ \ {m}]
  /\ seen' = [seen EXCEPT !.hooked = @ \ {m}]
  /\ UNCHANGED <<spec, made, report, kubeconfigReady, stage, voters>>

-----------------------------------------------------------------------------
(***************************************************************************)
(* The management cluster around the KCP.                                  *)
(***************************************************************************)
CacheSync ==
  /\ seen # api
  /\ seen' = api
  /\ UNCHANGED <<spec, made, api, report, kubeconfigReady, stage, voters, spent>>

EditReplicas ==
  /\ Spend("edit")
  /\ \E n \in Replicas \ {replicas} : replicas' = n
  /\ UNCHANGED <<version, made, api, seen, report, kubeconfigReady, stage, voters>>

EditVersion ==
  /\ Spend("edit")
  /\ \E v \in Versions \ {version} : version' = v
  /\ UNCHANGED <<replicas, made, api, seen, report, kubeconfigReady, stage, voters>>

\* An operator or a MachineHealthCheck deletes a Machine.
OperatorDeletes(m) ==
  /\ m \in api.live \ api.deleting
  /\ Spend("delete")
  /\ api' = [api EXCEPT !.deleting = @ \cup {m}]
  /\ UNCHANGED <<spec, made, seen, report, kubeconfigReady, stage, voters>>

\* CAPI terminates the VM of a deleting Machine without hooks.
Terminated(m) ==
  /\ m \in api.live \cap api.deleting /\ m \notin api.hooked
  /\ api' = [live |-> api.live \ {m}, deleting |-> api.deleting \ {m},
             hooked |-> api.hooked, nodeRef |-> api.nodeRef \ {m}]
  /\ stage' = [stage EXCEPT ![m] = "off"]
  /\ UNCHANGED <<spec, made, seen, report, kubeconfigReady, voters, spent>>

\* reconcileKubeconfig publishes what a serving node pushed.
KubeconfigReady ==
  /\ ~kubeconfigReady /\ \E m \in voters : stage[m] = "serving"
  /\ kubeconfigReady' = TRUE
  /\ UNCHANGED <<spec, made, api, seen, report, stage, voters, spent>>

-----------------------------------------------------------------------------
(***************************************************************************)
(* The VMs.                                                                *)
(***************************************************************************)

\* A single or init node starts a cluster of its own.
NodeFounds(m) ==
  /\ stage[m] = "booting" /\ role[m] # "join"
  /\ stage' = [stage EXCEPT ![m] = "serving"]
  /\ voters' = {m}
  /\ UNCHANGED <<spec, made, api, seen, report, kubeconfigReady, spent>>

\* A joiner is added through the join API of a serving member...
NodeAdds(m) ==
  /\ stage[m] = "booting" /\ role[m] = "join"
  /\ HasQuorum
  /\ stage' = [stage EXCEPT ![m] = "added"]
  /\ voters' = voters \cup {m}
  /\ UNCHANGED <<spec, made, api, seen, report, kubeconfigReady, spent>>

\* ... and then starts its etcd.
NodeStarts(m) ==
  /\ stage[m] = "added"
  /\ stage' = [stage EXCEPT ![m] = "serving"]
  /\ UNCHANGED <<spec, made, api, seen, report, kubeconfigReady, voters, spent>>

NodeRegisters(m) ==
  /\ stage[m] = "serving" /\ HasQuorum
  /\ m \in api.live \ api.nodeRef
  /\ api' = [api EXCEPT !.nodeRef = @ \cup {m}]
  /\ UNCHANGED <<spec, made, seen, report, kubeconfigReady, stage, voters, spent>>

\* push_etcd_status runs once: k0s etcd member-list answered, or it did not.
NodeReports(m) ==
  /\ stage[m] = "serving" /\ report[m] = "none" /\ role[m] # "single"
  /\ \/ HasQuorum /\ report' = [report EXCEPT ![m] = "ok"] /\ UNCHANGED spent
     \/ Spend("unreported") /\ report' = [report EXCEPT ![m] = "bad"]
  /\ UNCHANGED <<spec, made, api, seen, kubeconfigReady, stage, voters>>

\* The leave the sweep asked for: by the node, or by k0s for a dead one.
MemberLeaves(m) ==
  /\ m \in seen.deleting \cap api.deleting \cap api.hooked
  /\ m \in voters /\ stage[m] \in {"serving", "failed"} /\ HasQuorum
  /\ voters' = voters \ {m}
  /\ stage' = [stage EXCEPT ![m] = "left"]
  /\ UNCHANGED <<spec, made, api, seen, report, kubeconfigReady, spent>>

NodeFails(m) ==
  /\ stage[m] = "serving"
  /\ Spend("fail")
  /\ stage' = [stage EXCEPT ![m] = "failed"]
  /\ UNCHANGED <<spec, made, api, seen, report, kubeconfigReady, voters>>

-----------------------------------------------------------------------------
Reconcile == \/ ScaleUp \/ ScaleDown \/ RolloutSurge \/ RolloutDelete
             \/ \E m \in Machine : ReleaseHook(m)

Node(m) == \/ NodeFounds(m) \/ NodeAdds(m) \/ NodeStarts(m) \/ NodeRegisters(m)
           \/ NodeReports(m) \/ MemberLeaves(m)

World == \/ CacheSync \/ EditReplicas \/ EditVersion \/ KubeconfigReady
         \/ \E m \in Machine : OperatorDeletes(m) \/ Terminated(m) \/ NodeFails(m)

Next == Reconcile \/ World \/ \E m \in Machine : Node(m)

Spec == Init /\ [][Next]_vars

(***************************************************************************)
(* Fairness: the KCP is requeued, its cache catches up, CAPI finishes      *)
(* deletions, and VMs boot and join.                                       *)
(***************************************************************************)
Fairness ==
  /\ WF_vars(Reconcile) /\ WF_vars(CacheSync) /\ WF_vars(KubeconfigReady)
  /\ \A m \in Machine : WF_vars(Node(m)) /\ WF_vars(Terminated(m))

FairSpec == Spec /\ Fairness

-----------------------------------------------------------------------------
(***************************************************************************)
(* Properties.                                                             *)
(***************************************************************************)

\* A joiner that has not finished joining.
Joining(m) == role[m] = "join" /\ ~(m \in api.nodeRef /\ report[m] = "ok")

(***************************************************************************)
(* Why the gates work on a cache that lags: the inductive invariant.       *)
(***************************************************************************)

\* Machines are numbered in the order they were created, and a cached Machine
\* may be gone but was created.
ObjectsInv == /\ api.live \subseteq 1..created /\ seen.live \subseteq 1..created
              /\ api.deleting \cup api.hooked \cup api.nodeRef \subseteq api.live
              /\ seen.deleting \cup seen.nodeRef \subseteq seen.live

\* The cache misses no Machine as long as every create has waited for it, and
\* what it shows of a Machine that still exists is true of it.
CacheInv == /\ spent["lag"] = 0 => api.live \subseteq seen.live
            /\ seen.deleting \cap api.live \subseteq api.deleting
            /\ seen.nodeRef \cap api.live \subseteq api.nodeRef

\* The hook keeps a Machine in existence until the cache shows its deletion.
HookInv == \A m \in 1..created : role[m] # "single" =>
             /\ m \in api.live => m \in api.hooked \cup seen.deleting
             /\ m \in seen.live => m \in api.live \cup seen.deleting

\* A VM runs only while its Machine exists.  While no node fails, a member of a
\* Machine that exists has an etcd, added or serving.
VoterInv == /\ voters \subseteq 1..created
            /\ \A m \in Machine : stage[m] # "off" => m \in api.live
            /\ spent["fail"] = 0 =>
                 \A m \in voters \cap api.live : stage[m] \in {"added", "serving"}

\* No node has failed and no wait for the cache has given up.
Calm == spent["fail"] = 0 /\ spent["lag"] = 0

\* Then an etcd that runs is a member of the cluster, a Node is one of a member
\* that serves until the cache shows its deletion, a founder without a Node is
\* alone, and a Machine is followed by another only once it has a Node.
TurnInv == Calm =>
  /\ \A m \in Machine : stage[m] \in {"added", "serving"} => m \in voters
  /\ \A m \in api.nodeRef :
       \/ stage[m] = "serving"
       \/ stage[m] = "left" /\ m \in seen.deleting
  /\ \A m \in api.live \ api.nodeRef :
       role[m] # "join" => api.live = {m} /\ seen.live = {m}
  /\ \A m, n \in api.live : m < n => m \in api.nodeRef \cup seen.deleting

\* The cache never makes the KCP miss a Machine (waitForMachineInCache) and
\* never shows it a deletion or a Node that is not there, and the Machines the
\* KCP takes to have joined are members: what the gates of
\* createControlPlaneMachine and of its deletes rest on.
ControlPlaneInv ==
  TypeOK /\ ObjectsInv /\ CacheInv /\ HookInv /\ VoterInv /\ TurnInv

\* Joiners are created in turn, never two at once, in scale-up and in rollouts
\* (initMachineJoinable; docs/HIGH_AVAILABILITY.md:75), although the gate is
\* evaluated on a cache that lags behind.
OneJoinerAtATime ==
  \A m, n \in api.live \ api.deleting : Joining(m) /\ Joining(n) => m = n

\* At most one Machine starts a cluster of its own: whatever is deleted and
\* however the replica count is edited, no second init or single Machine exists
\* beside the first (controlPlaneRoleForNewMachine).
OneFounder ==
  \A m, n \in api.live : role[m] # "join" /\ role[n] # "join" => m = n

\* While no node fails, etcd is without quorum only for the moment between the
\* `member add' of a joiner and its start: no order of scale-ups, scale-downs,
\* rollouts, spec edits and operator deletes leaves the cluster dead.
QuorumOnlyLostToAJoin ==
  \/ HasQuorum \/ voters \cap api.live = {}
  \/ \E m \in voters \cap api.live : stage[m] = "added"

\* The KCP deletes a Machine (an operator's delete is counted in `spent').
KCPDeletes(m) == m \in api'.deleting \ api.deleting /\ spent' = spent

\* Rollouts and scale-downs are quorum-safe (docs/HIGH_AVAILABILITY.md:138): a
\* delete leaves (N/2)+1 healthy voting members (canRemoveMember).
DeletesKeepHealthyMajority ==
  [][\A m \in Machine : KCPDeletes(m) /\ replicas > 1 =>
       Cardinality(Serving \ {m}) >= (replicas \div 2) + 1]_vars

\* A rollout adds before it removes (reconcileRollout; the surge Machine has to
\* register a Node before an outdated member is removed, says
\* docs/HIGH_AVAILABILITY.md:102): the Machines a delete leaves, registered and
\* not being deleted, are not fewer than desired, but for the ones whose
\* deletion the cache does not show yet.  Excepted is a surge Machine that
\* spec.version, edited back while it boots, has made outdated itself: the
\* rollout no longer waits for it.
AddBeforeRemove ==
  [][\A m \in Machine : KCPDeletes(m) /\ ver[m] # version
       /\ (\A n \in api.live : ver[n] # version => n \in api.nodeRef) =>
       Cardinality((api.live \cap api.nodeRef) \ (api.deleting \cup {m}))
         + Cardinality(api.deleting \ seen.deleting) >= replicas]_vars

\* The control plane converges on its spec: eventually it has the desired
\* number of Machines, all of the desired version, and stays there.
Converges == <>[](/\ Cardinality(api.live) = replicas
                  /\ api.deleting = {}
                  /\ \A m \in api.live : ver[m] = version /\ ~Joining(m))
=============================================================================
