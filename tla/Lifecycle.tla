------------------------------ MODULE Lifecycle ------------------------------
(***************************************************************************)
(* The life of a KairosControlPlane (KCP): Reconcile from the finalizer,   *)
(* the Cluster lookup and the pause to the creation of one Machine as      *)
(* three objects, and from the deletion of the KCP to the last finalizer.  *)
(*                                                                         *)
(* A pass reads the KCP, the Cluster and the Machines from caches that lag *)
(* (kseen, cseen, seen) and is cut at its API calls.  The KCP has no       *)
(* resync: `queued' is raised by a requeue, a returned error, or an event  *)
(* of a watched object reaching its cache, and by nothing else.            *)
(* Machines are created under fresh names, taken in order from Names.      *)
(* The etcd leave (EtcdLeave), the gates of a join (ControlPlane) and the  *)
(* Machine controller of Cluster API appear as far as they hold a Machine. *)
(***************************************************************************)
EXTENDS Integers, FiniteSets, FiniteSetsExt

CONSTANTS
  Names,       \* 1..n, in the order newControlPlaneMachineName draws them
  Attempts,    \* controlPlaneMachineNameAttempts
  Bits,        \* width of nodeDrainTimeoutSeconds (32 in the code)
  Scenarios    \* where a behaviour starts and what may disturb it

Nil == {}                         \* a timeout is unset, or the set of its seconds
Timeouts(S) == {t \in SUBSET S : \A x, y \in t : x = y}
MaxSeconds == 2^(Bits - 1) - 1

Reasons  == {"none", "patch", "template", "taken", "create", "infra", "machine", "cleanup", "wait"}
KCPs     == [stage : {"live", "deleting", "gone"}, finalizer : BOOLEAN, label : BOOLEAN,
             paused : BOOLEAN, replicas : Nat, t : Timeouts(Int), meta : {0, 1},
             error : Reasons \X (Names \cup {0})]
Clusters == [stage : {"absent", "live", "gone"}, paused : BOOLEAN]
Machines == [stage : {"absent", "live", "deleting", "drained"}, hook : BOOLEAN,
             t : Timeouts(0..MaxSeconds), meta : {0, 1}]

ASSUME LifecycleAssumption ==
  /\ Names = 1..Cardinality(Names) /\ Cardinality(Names) \in Nat
  /\ Attempts \in Nat \ {0} /\ Bits \in Nat \ {0, 1} /\ MaxSeconds \in Nat

\* A KCP that has Machines has been through Reconcile: it has its finalizer and its label.
ASSUME ScenarioAssumption ==
  \A s \in Scenarios :
    /\ s.kcp \in KCPs /\ s.cluster \in Clusters /\ s.machines \in [Names -> Machines]
    /\ s.template \in BOOLEAN /\ s.world.timeouts \subseteq Timeouts(Int)
    /\ s.kcp.stage # "gone"
    /\ (\E m \in Names : s.machines[m].stage # "absent") => s.kcp.finalizer /\ s.kcp.label

VARIABLES
  kcp, kseen,    \* the KCP: in the API, in the cache
  cluster, cseen,\* its Cluster
  machines, seen,\* the Machines: in the API, in the cache
  parts,         \* of each name, which of its KairosConfig and infrastructure Machine exist
  template,      \* the referenced KairosConfigTemplate exists
  queued,        \* a pass is due
  pass,          \* the pass that runs
  foreign,       \* objects of other owners, <<name, kind>>, whose names may be drawn
  used,          \* the names drawn
  budget,        \* what may still disturb the behaviour
  world,         \* undrainable Machines, the timeouts an edit chooses from
  past           \* observers: names of an attempt that could not be cleaned up,
                 \* Machines whose wait for the cache gave up

vars == <<kcp, kseen, cluster, cseen, machines, seen, parts, template, queued, pass, foreign,
          used, budget, world, past>>
caches == <<kseen, cseen, seen>>
apart == <<cluster, template, world>>
making == <<foreign, used, past>>

NoError == <<"none", 0>>
NoKCP == [stage |-> "absent"]
Absent == [stage |-> "absent", hook |-> FALSE, t |-> Nil, meta |-> 0]
Idle == [pc |-> "idle", my |-> NoKCP, todo |-> {}, left |-> {}, held |-> FALSE, name |-> 0,
         made |-> {}, tries |-> 0, error |-> "none"]

\* The steps of a pass, before and after it looks at the pause; of a create; of a deletion.
LookPCs   == {"finalizer", "lookup", "paused"}
CreatePCs == {"create", "infra", "machine", "cleanup", "wait"}
LivePCs   == LookPCs \cup CreatePCs \cup {"timeout", "metadata", "sweep", "fail", "status"}
GonePCs   == {"deletion", "strip", "drain", "release"}
Passes == [pc : {"idle"} \cup LivePCs \cup GonePCs, my : KCPs \cup {NoKCP}, todo : SUBSET Names,
           left : SUBSET Names, held : BOOLEAN, name : Names \cup {0},
           made : SUBSET {"config", "infra"}, tries : Nat, error : Reasons]

Exists(m) == machines[m].stage # "absent"
Deleting(r) == r.stage \in {"deleting", "drained"}

Init ==
  /\ \E s \in Scenarios :
       /\ kcp = s.kcp /\ machines = s.machines /\ template = s.template
       /\ cluster = s.cluster /\ budget = s.budget /\ world = s.world
       /\ foreign = s.foreign /\ used = {n \in Names : s.machines[n].stage # "absent"}
       /\ parts = [n \in Names |-> IF s.machines[n].stage = "absent" THEN {}
                                   ELSE {"config", "infra"}]
  /\ kseen = kcp /\ cseen = cluster /\ seen = machines
  /\ queued = TRUE /\ pass = Idle /\ past = [abandoned |-> {}, unseen |-> {}]

Spend(what) == budget[what] > 0 /\ budget' = [budget EXCEPT ![what] = @ - 1]

-----------------------------------------------------------------------------
(* How a pass ends                                                         *)

Goto(where) == pass' = [pass EXCEPT !.pc = where]
\* With nothing to bring it back, or with a requeue (a returned error, too).
Stop == pass' = Idle /\ UNCHANGED queued
Requeue == pass' = Idle /\ queued' = TRUE

\* An error of reconcileMachines goes to the status first.
FailPass(e) == pass' = [pass EXCEPT !.pc = "fail", !.error = e]

\* A write of the KCP under the resourceVersion the pass holds.
Current == kcp = pass.my
Write(k) == kcp' = k

-----------------------------------------------------------------------------
(* Reconcile, up to its Machines                                           *)

\* What the caches say of the pause of a KCP.
SaysPaused(k) == k.paused \/ (k.label /\ cseen.stage = "live" /\ cseen.paused)

\* Observer: the pass starts on a pause its caches show and that lasts; it is let go by
\* an edit of the Cluster's pause, unless the pass's own copy of the KCP is paused.
Holds(k) == SaysPaused(k) /\ (k.paused \/ (cluster.stage = "live" /\ cluster.paused))
LetGo == pass' = [pass EXCEPT !.held = @ /\ pass.my.paused]

Begin ==
  /\ pass.pc = "idle" /\ queued /\ queued' = FALSE
  /\ pass' = IF kseen.stage = "gone" THEN Idle
             ELSE [Idle EXCEPT
                     !.my = kseen, !.held = Holds(kseen),
                     !.pc = IF kseen.stage = "deleting" THEN "deletion"
                            ELSE IF kseen.finalizer THEN "lookup" ELSE "finalizer"]
  /\ UNCHANGED <<kcp, caches, apart, machines, parts, budget, making>>

AddFinalizer ==
  /\ pass.pc = "finalizer" /\ Current
  /\ Write([kcp EXCEPT !.finalizer = TRUE])
  /\ pass' = [pass EXCEPT !.pc = "lookup", !.my = kcp']
  /\ UNCHANGED <<caches, apart, machines, parts, budget, queued, making>>

\* The Cluster by the label, or by the reference it holds to the KCP.
ClusterByLabel == pass.my.label /\ cseen.stage = "live"
findClusterForControlPlane == ~pass.my.label /\ cseen.stage = "live"

ClusterFound ==
  /\ pass.pc = "lookup" /\ ClusterByLabel
  /\ Goto("paused")
  /\ UNCHANGED <<kcp, caches, apart, machines, parts, budget, queued, making>>

SetClusterLabel ==
  /\ pass.pc = "lookup" /\ findClusterForControlPlane /\ Current
  /\ Write([kcp EXCEPT !.label = TRUE])
  /\ Requeue
  /\ UNCHANGED <<caches, apart, machines, parts, budget, making>>

ClusterNotAvailable ==
  /\ pass.pc = "lookup" /\ ~ClusterByLabel /\ ~findClusterForControlPlane
  /\ Stop
  /\ UNCHANGED <<kcp, caches, apart, machines, parts, budget, making>>

\* A write under a resourceVersion that is no longer the KCP's.
UpdateConflict ==
  /\ ~Current
  /\ \/ pass.pc \in {"finalizer", "fail", "status"}
     \/ pass.pc = "release" /\ kcp.stage # "gone"
     \/ pass.pc = "lookup" /\ findClusterForControlPlane
  /\ Requeue
  /\ UNCHANGED <<kcp, caches, apart, machines, parts, budget, making>>

\* Mutant: a paused Cluster only stops a control plane that is not being deleted.
PausedUnlessDeleting == pass.my.stage # "deleting" /\ (cseen.paused \/ pass.my.paused)

\* annotations.IsPaused, and deletionPaused when the Cluster cannot be found.
IsPaused == SaysPaused(pass.my)

\* The Machines the cache shows; ours by owner reference.
Listed == {m \in Names : seen[m].stage # "absent"}

Paused ==
  /\ pass.pc \in {"paused", "deletion"} /\ IsPaused
  /\ Stop
  /\ UNCHANGED <<kcp, caches, apart, machines, parts, budget, making>>

-----------------------------------------------------------------------------
(* reconcileMachines                                                       *)

\* Mutant: the seconds are narrowed as they are.
WrappedSeconds(d) == {((x + 2^(Bits - 1)) % 2^Bits) - 2^(Bits - 1) : x \in d}

nodeDrainTimeoutSeconds(d) ==
  {IF x < 0 THEN 0 ELSE IF x > MaxSeconds THEN MaxSeconds ELSE x : x \in d}

NotPaused ==
  /\ pass.pc = "paused" /\ ~IsPaused
  /\ pass' = [pass EXCEPT
                !.pc = "timeout",
                !.todo = {m \in Listed : seen[m].t # nodeDrainTimeoutSeconds(pass.my.t)}]
  /\ UNCHANGED <<kcp, caches, apart, machines, parts, budget, queued, making>>

\* A list is worked through in its order.
NextOf(todo) == IF todo = {} THEN 0 ELSE Min(todo)

\* The next list of a pass: its members in turn, then on to the next step.
Over(where, next, todo) ==
  /\ pass.pc = where /\ pass.todo = {}
  /\ pass' = [pass EXCEPT !.pc = next, !.todo = todo]

\* Mutant: the deadline is only stamped on Machines that are not terminating.
PatchesOnlyLive(m) ==
  /\ machines' = IF Deleting(machines[m]) THEN machines
                 ELSE [machines EXCEPT ![m].t = nodeDrainTimeoutSeconds(pass.my.t)]

PatchTimeout(m) == machines' = [machines EXCEPT ![m].t = nodeDrainTimeoutSeconds(pass.my.t)]

reconcileNodeDrainTimeout(m) ==
  /\ pass.pc = "timeout" /\ m = NextOf(pass.todo) /\ Exists(m)
  /\ PatchTimeout(m)
  /\ pass' = [pass EXCEPT !.todo = @ \ {m}]
  /\ UNCHANGED <<kcp, caches, apart, parts, budget, queued, making>>

TimeoutsDone ==
  /\ Over("timeout", "metadata", {m \in Listed : seen[m].meta # pass.my.meta})
  /\ UNCHANGED <<kcp, caches, apart, machines, parts, budget, queued, making>>

\* Mutant: the metadata of the Machine is replaced by what the cache shows of it.
ReplacedMetadata(m) == [machines EXCEPT ![m].meta = pass.my.meta, ![m].hook = seen[m].hook]

\* The merge is additive: the patch holds the template's keys and no other.
MergedMetadata(m) == [machines EXCEPT ![m].meta = pass.my.meta]

reconcileMachineMetadata(m) ==
  /\ pass.pc = "metadata" /\ m = NextOf(pass.todo) /\ Exists(m)
  /\ machines' = MergedMetadata(m)
  /\ pass' = [pass EXCEPT !.todo = @ \ {m}]
  /\ UNCHANGED <<kcp, caches, apart, parts, budget, queued, making>>

MetadataDone ==
  /\ Over("metadata", "sweep", {m \in Listed : Deleting(seen[m]) /\ seen[m].hook})
  /\ UNCHANGED <<kcp, caches, apart, machines, parts, budget, queued, making>>

\* A Machine that is gone from the API fails its patch.
PatchNotFound(m) ==
  /\ pass.pc \in {"timeout", "metadata"} /\ m = NextOf(pass.todo) /\ ~Exists(m)
  /\ FailPass("patch")
  /\ UNCHANGED <<kcp, caches, apart, machines, parts, budget, queued, making>>

\* The etcd leave, which may take as long as its bounds (see EtcdLeave): it starts
\* at the pause after the drain, and until it is over the pass comes back for it.
LeaveWaits(m) ==
  /\ pass.pc = "sweep" /\ m = NextOf(pass.todo) /\ seen[m].stage # "drained"
  /\ Requeue
  /\ UNCHANGED <<kcp, caches, apart, machines, parts, budget, making>>

LeaveDone(m) ==
  /\ pass.pc = "sweep" /\ m = NextOf(pass.todo) /\ seen[m].stage = "drained"
  /\ machines' = IF Exists(m) THEN [machines EXCEPT ![m].hook = FALSE] ELSE machines
  /\ pass' = [pass EXCEPT !.todo = @ \ {m}]
  /\ UNCHANGED <<kcp, caches, apart, parts, budget, queued, making>>

SweepDone ==
  /\ Over("sweep", IF Cardinality(Listed) < pass.my.replicas THEN "create" ELSE "status", {})
  /\ UNCHANGED <<kcp, caches, apart, machines, parts, budget, queued, making>>

-----------------------------------------------------------------------------
(* createControlPlaneMachine: three objects under one fresh name           *)

Fresh == Names \ used
NewName == Min(Fresh)
Taken(what, n) == <<n, what>> \in foreign

\* The KairosConfigTemplate is read before anything is made.
TemplateMissing ==
  /\ pass.pc = "create" /\ ~template
  /\ FailPass("template")
  /\ UNCHANGED <<kcp, caches, apart, machines, parts, budget, queued, making>>

\* An attempt is over and has left `made' behind.
Cleanup(e, made) == pass' = [pass EXCEPT !.pc = "cleanup", !.error = e, !.made = made]

CreateConfig ==
  /\ pass.pc = "create" /\ template /\ Fresh # {}
  /\ used' = used \cup {NewName}
  /\ IF Taken("config", NewName)
     THEN /\ pass' = [pass EXCEPT !.pc = "cleanup", !.error = "taken", !.name = NewName,
                                  !.tries = @ + 1]
          /\ UNCHANGED parts
     ELSE /\ parts' = [parts EXCEPT ![NewName] = {"config"}]
          /\ pass' = [pass EXCEPT !.pc = "infra", !.name = NewName, !.made = {"config"},
                                  !.tries = @ + 1]
  /\ UNCHANGED <<kcp, caches, apart, machines, queued, budget, foreign, past>>

\* Mutant: the infrastructure Machine is recorded before its create is answered.
RecordedEarly == {"config", "infra"}

MadeBeforeInfra == {"config"}

createInfrastructureMachine ==
  /\ pass.pc = "infra"
  /\ IF Taken("infra", pass.name)
     THEN Cleanup("taken", MadeBeforeInfra) /\ UNCHANGED parts
     ELSE /\ parts' = [parts EXCEPT ![pass.name] = @ \cup {"infra"}]
          /\ pass' = [pass EXCEPT !.pc = "machine", !.made = {"config", "infra"}]
  /\ UNCHANGED <<kcp, caches, apart, machines, budget, queued, making>>

\* The hook is on every Machine of a k0s HA control plane.
NewMachine == [stage |-> "live", hook |-> pass.my.replicas > 1,
               t |-> nodeDrainTimeoutSeconds(pass.my.t), meta |-> pass.my.meta]

CreateMachine ==
  /\ pass.pc = "machine"
  /\ IF Taken("machine", pass.name)
     THEN Cleanup("taken", pass.made) /\ UNCHANGED machines
     ELSE /\ machines' = [machines EXCEPT ![pass.name] = NewMachine]
          /\ Goto("wait")
  /\ UNCHANGED <<kcp, caches, apart, parts, budget, queued, making>>

\* An API call of the attempt fails.
CreateFails ==
  /\ pass.pc \in {"create", "infra", "machine"} /\ template
  /\ Spend("faults")
  /\ Cleanup(pass.pc, pass.made)
  /\ UNCHANGED <<kcp, caches, apart, machines, parts, queued, making>>

\* The last object made is the first to go; a delete that fails leaves it there,
\* and no new name is tried then.
LastMade == IF "infra" \in pass.made THEN "infra" ELSE "config"

CleanupDeletes ==
  /\ pass.pc = "cleanup" /\ pass.made # {}
  /\ parts' = [parts EXCEPT ![pass.name] = @ \ {LastMade}]
  /\ foreign' = foreign \ {<<pass.name, LastMade>>}
  /\ pass' = [pass EXCEPT !.made = @ \ {LastMade}]
  /\ UNCHANGED <<kcp, caches, apart, machines, queued, budget, used, past>>

CleanupFails ==
  /\ pass.pc = "cleanup" /\ pass.made # {} /\ Spend("faults")
  /\ past' = [past EXCEPT !.abandoned = @ \cup {pass.name}]
  /\ pass' = [pass EXCEPT !.made = @ \ {LastMade}, !.error = "cleanup"]
  /\ UNCHANGED <<kcp, caches, apart, machines, parts, queued, foreign, used>>

\* Mutant: a failed attempt returns at once.
ReturnsAtOnce == TRUE

CleanedUp == pass.made = {}

CleanupDone ==
  /\ pass.pc = "cleanup" /\ CleanedUp
  /\ IF pass.error = "taken" /\ pass.tries < Attempts
     THEN pass' = [pass EXCEPT !.pc = "create", !.error = "none", !.made = {}]
     ELSE FailPass(pass.error)
  /\ UNCHANGED <<kcp, caches, apart, machines, parts, budget, queued, making>>

waitForMachineInCache ==
  /\ pass.pc = "wait" /\ seen[pass.name].stage # "absent"
  /\ Goto("status")
  /\ UNCHANGED <<kcp, caches, apart, machines, parts, budget, queued, making>>

WaitGivesUp ==
  /\ pass.pc = "wait" /\ seen[pass.name].stage = "absent"
  /\ Spend("lags")
  /\ past' = [past EXCEPT !.unseen = @ \cup {pass.name}]
  /\ FailPass("wait")
  /\ UNCHANGED <<kcp, caches, apart, machines, parts, queued, foreign, used>>

-----------------------------------------------------------------------------
(* The end of a pass that was not a deletion                               *)

\* Some messages name the Machine, whose name is new at every attempt.
Message(e) == <<e, IF e \in {"machine", "wait", "taken", "cleanup"} THEN pass.name ELSE 0>>

\* The failure is recorded and nil is returned: what queues the next pass is the
\* event of the status, if the status changed.
RecordFailure ==
  /\ pass.pc = "fail" /\ Current
  /\ Write([kcp EXCEPT !.error = Message(pass.error)])
  /\ Stop
  /\ UNCHANGED <<caches, apart, machines, parts, budget, making>>

UpdateStatus ==
  /\ pass.pc = "status" /\ Current
  /\ Write([kcp EXCEPT !.error = NoError])
  /\ Stop
  /\ UNCHANGED <<caches, apart, machines, parts, budget, making>>

-----------------------------------------------------------------------------
(* reconcileDelete                                                         *)

\* Both lists of a teardown need the cluster-name label.
DrainList == IF pass.my.label THEN Listed ELSE {}

\* Mutant: a Machine that is already being deleted keeps its hook.
StripLive == {m \in DrainList : seen[m].hook /\ ~Deleting(seen[m])}

StripList == {m \in DrainList : seen[m].hook}

DeletionStarts ==
  /\ pass.pc = "deletion" /\ ~IsPaused
  /\ pass' = [pass EXCEPT !.pc = "strip", !.todo = StripList]
  /\ UNCHANGED <<kcp, caches, apart, machines, parts, budget, queued, making>>

stripEtcdLeaveHooks(m) ==
  /\ pass.pc = "strip" /\ m = NextOf(pass.todo)
  /\ machines' = IF Exists(m) THEN [machines EXCEPT ![m].hook = FALSE] ELSE machines
  /\ pass' = [pass EXCEPT !.todo = @ \ {m}]
  /\ UNCHANGED <<kcp, caches, apart, parts, budget, queued, making>>

\* The drain lists again.  `left' is what it counts as remaining.
StripDone ==
  /\ pass.pc = "strip" /\ pass.todo = {}
  /\ pass' = [pass EXCEPT !.pc = "drain", !.left = DrainList,
                          !.todo = {m \in DrainList : ~Deleting(seen[m])}]
  /\ UNCHANGED <<kcp, caches, apart, machines, parts, budget, queued, making>>

drainOwnedMachines(m) ==
  /\ pass.pc = "drain" /\ m = NextOf(pass.todo)
  /\ machines' = IF machines[m].stage = "live" THEN [machines EXCEPT ![m].stage = "deleting"]
                 ELSE machines
  /\ pass' = [pass EXCEPT !.todo = @ \ {m}, !.left = IF Exists(m) THEN @ ELSE @ \ {m}]
  /\ UNCHANGED <<kcp, caches, apart, parts, budget, queued, making>>

\* Mutant: Machines that are already being deleted are not waited for.
WaitsForNewDeletes == {m \in pass.left : ~Deleting(seen[m])}

Remaining == pass.left

MachinesRemain ==
  /\ pass.pc = "drain" /\ pass.todo = {} /\ Remaining # {}
  /\ Requeue
  /\ UNCHANGED <<kcp, caches, apart, machines, parts, budget, making>>

DrainDone ==
  /\ pass.pc = "drain" /\ pass.todo = {} /\ Remaining = {}
  /\ Goto("release")
  /\ UNCHANGED <<kcp, caches, apart, machines, parts, budget, queued, making>>

RemoveFinalizer ==
  /\ pass.pc = "release" /\ Current
  /\ Write([kcp EXCEPT !.stage = "gone"])
  /\ Stop
  /\ UNCHANGED <<caches, apart, machines, parts, budget, making>>

AlreadyGone ==
  /\ pass.pc = "release" /\ kcp.stage = "gone"
  /\ Stop
  /\ UNCHANGED <<kcp, caches, apart, machines, parts, budget, making>>

\* A list, a patch or a delete of the teardown fails: the error is returned.
TeardownFails ==
  /\ pass.pc \in {"strip", "drain"} /\ Spend("faults")
  /\ Requeue
  /\ UNCHANGED <<kcp, caches, apart, machines, parts, making>>

\* A patch of a Machine fails.
PatchFails ==
  /\ pass.pc \in {"timeout", "metadata"} /\ pass.todo # {} /\ Spend("faults")
  /\ FailPass("patch")
  /\ UNCHANGED <<kcp, caches, apart, machines, parts, queued, making>>

-----------------------------------------------------------------------------
(* Watches, Cluster API, the operator                                      *)

\* For(KairosControlPlane), without a predicate: its own writes come back, too.
SyncKCP ==
  /\ kseen # kcp /\ kseen' = kcp /\ queued' = TRUE
  /\ UNCHANGED <<kcp, cseen, seen, apart, machines, parts, pass, budget, making>>

\* Mutant: no watch on the Cluster.
NoClusterWatch == queued

clusterToKairosControlPlane == TRUE

SyncCluster ==
  /\ cseen # cluster /\ cseen' = cluster /\ queued' = clusterToKairosControlPlane
  /\ UNCHANGED <<kcp, kseen, seen, apart, machines, parts, pass, budget, making>>

machineToKairosControlPlane == TRUE

SyncMachines ==
  /\ seen # machines /\ seen' = machines /\ queued' = machineToKairosControlPlane
  /\ UNCHANGED <<kcp, kseen, cseen, apart, machines, parts, pass, budget, making>>

\* The manager restarts: a pass that ran is cut off, and every object is listed.
Restart ==
  /\ Spend("restarts")
  /\ past' = IF pass.pc \in {"infra", "machine", "cleanup"}
             THEN [past EXCEPT !.abandoned = @ \cup {pass.name}] ELSE past
  /\ kseen' = kcp /\ cseen' = cluster /\ seen' = machines
  /\ pass' = Idle /\ queued' = TRUE
  /\ UNCHANGED <<kcp, apart, machines, parts, foreign, used>>

\* Cluster API drains the node; pods that cannot be evicted hold it until the
\* deadline on the Machine, if there is one.
HasDeadline(t) == \E x \in t : x > 0
Drain(m) ==
  /\ machines[m].stage = "deleting"
  /\ m \notin world.undrainable \/ HasDeadline(machines[m].t)
  /\ machines' = [machines EXCEPT ![m].stage = "drained"]
  /\ UNCHANGED <<kcp, caches, apart, parts, queued, pass, budget, making>>

\* Past the pre-terminate hook, the Machine goes with the objects it owns.
Terminate(m) ==
  /\ machines[m].stage = "drained" /\ ~machines[m].hook
  /\ machines' = [machines EXCEPT ![m] = Absent]
  /\ parts' = [parts EXCEPT ![m] = {}]
  /\ UNCHANGED <<kcp, caches, apart, queued, pass, budget, making>>

MachineDeleted(m) ==
  /\ machines[m].stage = "live" /\ Spend("machines")
  /\ machines' = [machines EXCEPT ![m].stage = "deleting"]
  /\ UNCHANGED <<kcp, caches, apart, parts, queued, pass, making>>

KCPDeleted ==
  /\ kcp.stage = "live" /\ Spend("deletes")
  /\ Write([kcp EXCEPT !.stage = IF kcp.finalizer THEN "deleting" ELSE "gone"])
  /\ UNCHANGED <<caches, apart, machines, parts, queued, pass, making>>

ClusterPauses ==
  /\ cluster.stage = "live" /\ Spend("pauses")
  /\ cluster' = [cluster EXCEPT !.paused = ~@] /\ LetGo
  /\ UNCHANGED <<kcp, caches, machines, parts, template, world, queued, making>>

KCPPauses ==
  /\ kcp.stage # "gone" /\ Spend("pauses")
  /\ Write([kcp EXCEPT !.paused = ~@])
  /\ UNCHANGED <<caches, apart, machines, parts, queued, pass, making>>

EditMachineTemplate ==
  /\ kcp.stage # "gone" /\ Spend("edits")
  /\ \E t \in world.timeouts : Write([kcp EXCEPT !.t = t, !.meta = 1 - @])
  /\ UNCHANGED <<caches, apart, machines, parts, queued, pass, making>>

\* The Cluster may come after the KCP.  It goes before it only when the KCP is on
\* its way out and no Machine is left: Cluster API waits for the control plane.
ClusterCreated ==
  /\ cluster.stage = "absent"
  /\ cluster' = [cluster EXCEPT !.stage = "live"]
  /\ UNCHANGED <<kcp, caches, machines, parts, template, world, queued, pass, budget, making>>

ClusterDeleted ==
  /\ cluster.stage = "live" /\ (\A m \in Names : ~Exists(m)) /\ Spend("clusters")
  /\ kseen.stage = "deleting" /\ pass.my.stage # "live"
  /\ cluster' = [stage |-> "gone", paused |-> FALSE] /\ LetGo
  /\ UNCHANGED <<kcp, caches, machines, parts, template, world, queued, making>>

TemplateCreated ==
  /\ ~template /\ template' = TRUE
  /\ UNCHANGED <<kcp, caches, cluster, world, machines, parts, queued, pass, budget, making>>

-----------------------------------------------------------------------------
Pass ==
  \/ Begin \/ AddFinalizer \/ ClusterFound \/ SetClusterLabel \/ ClusterNotAvailable
  \/ UpdateConflict \/ Paused \/ NotPaused \/ TimeoutsDone \/ MetadataDone \/ SweepDone
  \/ TemplateMissing \/ CreateConfig \/ createInfrastructureMachine \/ CreateMachine
  \/ CleanupDeletes \/ CleanupDone \/ waitForMachineInCache
  \/ RecordFailure \/ UpdateStatus
  \/ DeletionStarts \/ StripDone \/ MachinesRemain \/ DrainDone \/ RemoveFinalizer \/ AlreadyGone
  \/ \E m \in Names :
       \/ reconcileNodeDrainTimeout(m) \/ reconcileMachineMetadata(m) \/ PatchNotFound(m)
       \/ LeaveWaits(m) \/ LeaveDone(m) \/ stripEtcdLeaveHooks(m) \/ drainOwnedMachines(m)

Faults == CreateFails \/ CleanupFails \/ WaitGivesUp \/ TeardownFails \/ PatchFails \/ Restart

Sync == SyncKCP \/ SyncCluster \/ SyncMachines

CAPI == \E m \in Names : Drain(m) \/ Terminate(m)

Operator ==
  \/ KCPDeleted \/ ClusterPauses \/ KCPPauses \/ EditMachineTemplate
  \/ ClusterCreated \/ ClusterDeleted \/ TemplateCreated
  \/ \E m \in Names : MachineDeleted(m)

Next == Pass \/ Faults \/ Sync \/ CAPI \/ Operator

Spec == Init /\ [][Next]_vars

(***************************************************************************)
(* Fairness: a pass that is due runs and goes on, every watch delivers,    *)
(* Cluster API goes on with a deletion, and the manifests of a cluster are *)
(* applied to the end.                                                     *)
(***************************************************************************)
Fairness ==
  /\ WF_vars(Pass) /\ WF_vars(SyncKCP) /\ WF_vars(SyncCluster) /\ WF_vars(SyncMachines)
  /\ \A m \in Names : WF_vars(Drain(m)) /\ WF_vars(Terminate(m))
  /\ WF_vars(ClusterCreated) /\ WF_vars(TemplateCreated)

FairSpec == Spec /\ Fairness
-----------------------------------------------------------------------------
(***************************************************************************)
(* Properties.                                                             *)
(***************************************************************************)
PausedNow == cluster.paused \/ kcp.paused
Wanted == kcp.stage = "live" /\ cluster.stage = "live" /\ ~PausedNow
Count == Cardinality({m \in Names : Exists(m)})

\* The types of the state.
TypeOK ==
  /\ kcp \in KCPs /\ kseen \in KCPs /\ cluster \in Clusters /\ cseen \in Clusters
  /\ machines \in [Names -> Machines] /\ seen \in [Names -> Machines] /\ pass \in Passes
  /\ parts \in [Names -> SUBSET {"config", "infra"}] /\ used \subseteq Names
  /\ template \in BOOLEAN /\ queued \in BOOLEAN /\ world.timeouts \subseteq Timeouts(Int)
  /\ past \in [abandoned : SUBSET (Names \cup {0}), unseen : SUBSET Names]

\* The finalizer goes after the last Machine (reconcileDelete, KD-4), although the
\* drain counts what the cache shows: only a Machine whose wait for the cache gave
\* up can be missed.
NoMachineOutlivesKCP ==
  kcp.stage = "gone" => \A m \in Names : Exists(m) => m \in past.unseen

\* A failed create leaves nothing behind (createdObjects.cleanup), whichever of
\* its calls failed: between passes an object without its Machine is one whose
\* own delete failed, or whose pass was cut off.
FailedCreateLeavesNothing ==
  pass.pc = "idle" =>
    \A n \in Names : parts[n] # {} /\ ~Exists(n) => n \in past.abandoned

\* What a pass holds of the KCP only ever lags: a finalizer and a label once seen are
\* there, a deletion once seen goes on, and a KCP that went through its finalizer is
\* seen as live by nobody.
ViewInv ==
  /\ \A k \in {kseen, pass.my} :
       k.stage # "absent" => (k.finalizer => kcp.finalizer) /\ (k.label => kcp.label)
  /\ pass.pc = "idle" => pass.my = NoKCP
  /\ pass.pc \in LivePCs => pass.my.stage = "live"
  /\ pass.pc \in GonePCs => pass.my.stage = "deleting"
  /\ pass.pc \in LivePCs \ {"finalizer"} => pass.my.finalizer
  /\ pass.pc \in LivePCs \ {"finalizer", "lookup"} => pass.my.label
  /\ pass.my.stage = "deleting" => kseen.stage # "live"
  /\ kseen.stage # "live" => kcp.stage # "live"
  /\ kcp.stage = "gone" /\ kcp.finalizer => kseen.stage # "live" /\ pass.my.stage # "live"

\* A Machine is in the cache, or its create waits for that; what a deletion has counted
\* out is gone.
CountInv ==
  \A m \in Names : Exists(m) =>
    /\ kcp.finalizer /\ kcp.label
    /\ m \in past.unseen \/ seen[m].stage # "absent" \/ (pass.pc = "wait" /\ pass.name = m)
    /\ pass.pc = "drain" /\ pass.my.label => m \in past.unseen \/ m \in pass.left
    /\ pass.pc = "release" /\ pass.my.label => m \in past.unseen

\* What a create has made so far is its own, and is all there is under its name.
Making == pass.pc \in {"infra", "machine", "cleanup"}
CreateInv ==
  /\ \A n \in Names \ used : parts[n] = {} /\ ~Exists(n)
  /\ pass.pc \in {"infra", "machine", "wait"} => pass.name \in used
  /\ pass.pc \in {"infra", "machine"} => ~Exists(pass.name)
  /\ pass.pc \notin {"infra", "machine", "cleanup", "wait", "fail", "status"} => pass.made = {}
  /\ pass.pc = "infra" => pass.made = {"config"}
  /\ pass.pc = "cleanup" /\ pass.made # {} => pass.name \in Names
  /\ Making => \A k \in pass.made : <<pass.name, k>> \notin foreign
  /\ \A n \in Names : parts[n] # {} /\ ~Exists(n) =>
       n \in past.abandoned \/ (Making /\ n = pass.name /\ parts[n] \subseteq pass.made)

\* A pass that is held is before its look at the pause, and will see it.
HoldInv ==
  pass.held =>
    /\ pass.pc \in LookPCs \cup {"deletion"}
    /\ \/ pass.my.paused
       \/ pass.my.label /\ \A c \in {cluster, cseen} : c.stage = "live" /\ c.paused

\* Nothing is left behind, by a teardown or by a create (reconcileDelete,
\* createdObjects.cleanup), and what makes it so.
LifecycleInv ==
  /\ TypeOK /\ NoMachineOutlivesKCP /\ FailedCreateLeavesNothing
  /\ ViewInv /\ CountInv /\ CreateInv /\ HoldInv

\* A pass that starts on a paused control plane makes and deletes nothing, strips
\* no hook and releases no finalizer unless the Cluster is unpaused meanwhile
\* (Reconcile, deletionPaused).  An object that already had the drawn name is neither adopted
\* nor deleted (createControlPlaneMachineNamed).  A hook that was removed does not
\* come back: the merge of the metadata, made from a cached copy that may still show
\* it, leaves it alone (reconcileMachineMetadata).
OthersAreLeftAlone ==
  [][/\ pass.held /\ pass' # pass =>
          machines' = machines /\ parts' = parts /\ kcp'.stage = kcp.stage
     /\ foreign' = foreign
     /\ \A m \in Names : Exists(m) /\ ~machines[m].hook => ~machines'[m].hook]_vars

\* A deletion ends, from any state of its Machines, an etcd leave in flight
\* included, and resumes when it is unpaused (reconcileDelete,
\* stripEtcdLeaveHooks): unless a node cannot be drained and has no deadline.
TeardownEnds ==
  (/\ kcp.stage = "deleting" /\ ~PausedNow
   /\ \A m \in Names : Exists(m) => m \notin world.undrainable \/ HasDeadline(machines[m].t))
    ~> (kcp.stage = "gone" \/ PausedNow)

\* A missing Machine is created, or the failure is on the status (Reconcile).
MachinesArriveOrFailureShows ==
  (Wanted /\ Count < kcp.replicas)
    ~> (~Wanted \/ Count >= kcp.replicas \/ kcp.error # NoError)

\* What the drain of a Machine is to be bounded by: nothing for a timeout that is
\* unset, zero or negative, else the timeout, as far as the field can hold it.
AsAsked(m) ==
  IF HasDeadline(kcp.t) THEN machines[m].t = {Min({x, MaxSeconds}) : x \in kcp.t}
  ELSE ~HasDeadline(machines[m].t)

\* An edited nodeDrainTimeout reaches the Machines that exist, a draining one
\* included (reconcileNodeDrainTimeout; docs/API_REFERENCE.md:379), and is not
\* inverted by its conversion: while the KCP itself is not being deleted, or an
\* error is on its status.
DeadlineReaches ==
  \A m \in Names :
    (Wanted /\ Exists(m))
      ~> (~Wanted \/ ~Exists(m) \/ kcp.error # NoError \/ AsAsked(m))

\* A control plane whose KairosConfigTemplate comes late is created once it is
\* there ("a later reconcile resolves it once the template exists",
\* src/internal/controllers/controlplane/kairoscontrolplane_controller.go:376-377).
LateTemplateIsUsed == (Wanted /\ template) ~> (~Wanted \/ Count >= kcp.replicas)
=============================================================================
