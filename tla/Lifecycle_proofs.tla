-------------------------- MODULE Lifecycle_proofs --------------------------
(***************************************************************************)
(* The life of a KairosControlPlane, for any number of Machines, names,    *)
(* attempts and disturbances: LifecycleInv is inductive, and it gives      *)
(* OthersAreLeftAlone.                                                     *)
(***************************************************************************)
EXTENDS Lifecycle, WellFoundedInduction, TLAPS

-----------------------------------------------------------------------------
(* Facts about the operators                                               *)

\* A set of naturals has a least element.
LEMMA LeastElement == ASSUME NEW S \in SUBSET Nat, S # {} PROVE Min(S) \in S
<1> DEFINE R == OpToRel(<, Nat)
<1>1. \E x \in S : \A y \in S : ~(<<y, x>> \in R) BY NatLessThanWellFounded, WFMin
<1>2. \A x, y \in Nat : x < y => <<x, y>> \in R BY DEF OpToRel
<1> HIDE DEF R
<1>3. \A x, y \in Nat : x <= y \/ y < x OBVIOUS
<1>4. \E x \in S : \A y \in S : x <= y BY <1>1, <1>2, <1>3
<1> QED BY <1>4 DEF Min

\* Names are numbered from 1.
LEMMA NamesFacts == Names \subseteq Nat /\ 0 \notin Names
BY LifecycleAssumption

\* The name that is drawn is fresh.
LEMMA NewNameFacts == ASSUME Fresh # {} PROVE NewName \in Names /\ NewName \notin used
<1>1. Fresh \in SUBSET Nat BY NamesFacts DEF Fresh
<1>2. NewName \in Fresh BY <1>1, LeastElement DEF NewName
<1> QED BY <1>2 DEF Fresh

\* A timeout is narrowed to what its field can hold.
LEMMA Narrowed ==
  ASSUME NEW d \in Timeouts(Int) PROVE nodeDrainTimeoutSeconds(d) \in Timeouts(0..MaxSeconds)
<1> DEFINE N(x) == IF x < 0 THEN 0 ELSE IF x > MaxSeconds THEN MaxSeconds ELSE x
<1>1. d \subseteq Int /\ \A x, y \in d : x = y BY DEF Timeouts
<1>2. MaxSeconds \in Nat BY LifecycleAssumption
<1>3. \A x \in Int : N(x) \in 0..MaxSeconds BY <1>2
<1>4. nodeDrainTimeoutSeconds(d) = {N(x) : x \in d} BY DEF nodeDrainTimeoutSeconds
<1> HIDE DEF N
<1> QED BY <1>1, <1>3, <1>4 DEF Timeouts

\* The fields of a KCP.
LEMMA KCPFields ==
  ASSUME NEW k \in KCPs
  PROVE  /\ k.stage \in {"live", "deleting", "gone"} /\ k.finalizer \in BOOLEAN /\ k.label \in BOOLEAN
         /\ k.paused \in BOOLEAN /\ k.replicas \in Nat /\ k.t \in Timeouts(Int) /\ k.meta \in {0, 1}
         /\ k.error \in Reasons \X (Names \cup {0})
BY DEF KCPs

\* The fields of a pass.
LEMMA PassFields ==
  ASSUME pass \in Passes
  PROVE  /\ pass.pc \in {"idle"} \cup LivePCs \cup GonePCs /\ pass.my \in KCPs \cup {NoKCP}
         /\ pass.todo \subseteq Names /\ pass.left \subseteq Names /\ pass.held \in BOOLEAN
         /\ pass.name \in Names \cup {0} /\ pass.made \subseteq {"config", "infra"}
         /\ pass.tries \in Nat /\ pass.error \in Reasons
BY DEF Passes

\* The fields of a Machine.
LEMMA MachineFields ==
  ASSUME NEW r \in Machines
  PROVE  /\ r.stage \in {"absent", "live", "deleting", "drained"} /\ r.hook \in BOOLEAN
         /\ r.t \in Timeouts(0..MaxSeconds) /\ r.meta \in {0, 1}
BY DEF Machines

\* The record of a Machine that is not there.
LEMMA AbsentFacts == Absent \in Machines /\ Absent.stage = "absent" /\ Absent.hook = FALSE
<1>1. Nil \in Timeouts(0..MaxSeconds) BY DEF Nil, Timeouts
<1> QED BY <1>1 DEF Absent, Machines

\* The record of a pass that does not run.
LEMMA IdleFacts ==
  /\ Idle \in Passes /\ Idle.pc = "idle" /\ Idle.my = NoKCP /\ NoKCP.stage = "absent"
  /\ Idle.held = FALSE /\ Idle.made = {} /\ Idle.name = 0 /\ Idle.left = {} /\ Idle.todo = {}
BY DEF Idle, Passes, NoKCP, Reasons

\* The steps of a pass are distinct.
LEMMA PCs ==
  /\ LivePCs = {"finalizer", "lookup", "paused", "create", "infra", "machine", "cleanup", "wait",
                "timeout", "metadata", "sweep", "fail", "status"}
  /\ GonePCs = {"deletion", "strip", "drain", "release"}
  /\ LookPCs = {"finalizer", "lookup", "paused"}
BY DEF LivePCs, GonePCs, LookPCs, CreatePCs

\* What a pass that runs has read.
LEMMA MyFacts ==
  ASSUME TypeOK, ViewInv, pass.pc # "idle"
  PROVE  /\ pass.my \in KCPs
         /\ pass.pc \in LivePCs \/ pass.pc \in GonePCs
         /\ pass.my.finalizer => kcp.finalizer
         /\ pass.my.label => kcp.label
<1>1. pass.pc \in LivePCs \/ pass.pc \in GonePCs BY PassFields DEF TypeOK
<1>2. pass.my.stage \in {"live", "deleting"} BY <1>1 DEF ViewInv
<1>3. pass.my # NoKCP BY <1>2 DEF NoKCP
<1>4. pass.my \in KCPs BY <1>3, PassFields DEF TypeOK
<1> QED BY <1>1, <1>2, <1>4 DEF ViewInv

\* A KCP a pass works for is not gone.
LEMMA WorkingIsNotGone ==
  ASSUME TypeOK, ViewInv, pass.pc \in LivePCs \ {"finalizer"} PROVE kcp.stage # "gone" /\ kcp.finalizer
<1>1. pass.pc # "idle" BY PCs
<1> QED BY <1>1, MyFacts DEF ViewInv

-----------------------------------------------------------------------------
(* The steps of a pass                                                     *)

\* A step among the steps between the look at the pause and the create, with the stages of
\* the Machines as they were; a create that is over and has cleaned up is there, too.
LEMMA Works ==
  ASSUME LifecycleInv,
         pass.pc \in {"paused", "timeout", "metadata", "sweep", "create", "cleanup"}, ~pass.held,
         pass.made = {}, pass' \in Passes, pass'.my = pass.my, ~pass'.held, pass'.made = {},
         pass'.pc \in {"timeout", "metadata", "sweep", "create", "fail", "status"},
         machines' \in [Names -> Machines], \A m \in Names : machines'[m].stage = machines[m].stage,
         UNCHANGED <<kcp, caches, apart, parts, queued, making>>
  PROVE  LifecycleInv'
<1> USE PCs DEF caches, apart, making
<1>1. TypeOK' BY DEF LifecycleInv, TypeOK
<1>2. ViewInv' BY DEF LifecycleInv, ViewInv
<1>3. CountInv' BY DEF LifecycleInv, CountInv, Exists
<1>4. CreateInv' BY DEF LifecycleInv, CreateInv, Exists, Making
<1>5. NoMachineOutlivesKCP' BY DEF LifecycleInv, NoMachineOutlivesKCP, Exists
<1> QED BY <1>1, <1>2, <1>3, <1>4, <1>5 DEF LifecycleInv, FailedCreateLeavesNothing, HoldInv

\* A pass ends, and writes at most a status or the label.
LEMMA EndsInv ==
  ASSUME LifecycleInv, pass.pc \notin {"infra", "machine", "cleanup", "wait"},
         pass' = Idle, queued' \in BOOLEAN, kcp' \in KCPs, kcp'.stage = kcp.stage,
         kcp'.finalizer = kcp.finalizer, kcp.label => kcp'.label,
         UNCHANGED <<caches, apart, machines, parts, making>>
  PROVE  LifecycleInv'
<1> USE PCs, IdleFacts DEF caches, apart, making
<1>1. TypeOK' BY DEF LifecycleInv, TypeOK
<1>2. ViewInv' BY DEF LifecycleInv, ViewInv
<1>3. CountInv' BY DEF LifecycleInv, CountInv, Exists
<1>4. CreateInv' BY DEF LifecycleInv, CreateInv, Exists, Making
<1>5. NoMachineOutlivesKCP' BY DEF LifecycleInv, NoMachineOutlivesKCP, Exists
<1>6. FailedCreateLeavesNothing' BY <1>4 DEF CreateInv, FailedCreateLeavesNothing, Making
<1> QED BY <1>1, <1>2, <1>3, <1>4, <1>5, <1>6 DEF LifecycleInv, HoldInv

\* The steps that end a pass and write nothing, or the status, or the label.
LEMMA EndingInv ==
  ASSUME LifecycleInv,
         \/ ClusterNotAvailable \/ UpdateConflict \/ Paused \/ MachinesRemain \/ AlreadyGone
         \/ TeardownFails \/ RecordFailure \/ UpdateStatus \/ SetClusterLabel
         \/ \E m \in Names : LeaveWaits(m)
  PROVE  LifecycleInv'
<1>1. pass' = Idle /\ queued' \in BOOLEAN /\ UNCHANGED <<caches, apart, machines, parts, making>>
  BY DEF ClusterNotAvailable, UpdateConflict, Paused, MachinesRemain, AlreadyGone, TeardownFails,
     RecordFailure, UpdateStatus, SetClusterLabel, LeaveWaits, Stop, Requeue, LifecycleInv, TypeOK
<1>2. pass.pc \notin {"infra", "machine", "cleanup", "wait"}
  BY DEF ClusterNotAvailable, UpdateConflict, Paused, MachinesRemain, AlreadyGone, TeardownFails,
     RecordFailure, UpdateStatus, SetClusterLabel, LeaveWaits
<1> DEFINE Kept == /\ kcp' \in KCPs /\ kcp'.stage = kcp.stage /\ kcp'.finalizer = kcp.finalizer
                   /\ kcp.label => kcp'.label
<1>3. Kept
  <2>0. kcp \in KCPs BY DEF LifecycleInv, TypeOK
  <2>1. CASE UNCHANGED kcp BY <2>0, <2>1
  <2>2. ASSUME NEW e \in Reasons \X (Names \cup {0}), kcp' = [kcp EXCEPT !.error = e] PROVE Kept
    BY <2>0, <2>2 DEF KCPs
  <2>3. Message(pass.error) \in Reasons \X (Names \cup {0})
    BY PassFields DEF Message, LifecycleInv, TypeOK
  <2>4. NoError \in Reasons \X (Names \cup {0}) BY DEF NoError, Reasons
  <2>5. CASE SetClusterLabel BY <2>0, <2>5 DEF SetClusterLabel, Write, KCPs
  <2> QED BY <2>1, <2>2, <2>3, <2>4, <2>5 DEF ClusterNotAvailable, UpdateConflict, Paused,
      MachinesRemain,
         AlreadyGone, TeardownFails, RecordFailure, UpdateStatus, LeaveWaits, Write
<1> QED BY <1>1, <1>2, <1>3, EndsInv

\* A pass begins.
LEMMA BeginInv == ASSUME LifecycleInv, Begin PROVE LifecycleInv'
<1> USE PCs, IdleFacts DEF caches, apart, making
<1>0. TypeOK /\ ViewInv /\ kseen \in KCPs BY DEF LifecycleInv, TypeOK
<1>1. CASE kseen.stage = "gone"
  <2>1. queued' \in BOOLEAN /\ kcp' = kcp BY DEF Begin
  <2> QED BY <1>0, <1>1, <2>1, EndsInv, KCPFields DEF Begin, TypeOK
<1>2. CASE kseen.stage # "gone"
  <2> DEFINE pc == IF kseen.stage = "deleting" THEN "deletion"
                   ELSE IF kseen.finalizer THEN "lookup" ELSE "finalizer"
  <2>1. /\ pass' = [Idle EXCEPT !.my = kseen, !.held = Holds(kseen), !.pc = pc]
        /\ queued' = FALSE /\ pass.pc = "idle"
        /\ UNCHANGED <<kcp, caches, apart, machines, parts, budget, making>>
    BY <1>2 DEF Begin
  <2>2. pc \in LivePCs \cup GonePCs /\ Holds(kseen) \in BOOLEAN
    BY <1>0, KCPFields DEF Holds, SaysPaused
  <2>3. /\ pass' \in Passes /\ pass'.pc = pc /\ pass'.my = kseen /\ pass'.held = Holds(kseen)
        /\ pass'.made = {}
    <3> HIDE DEF pc
    <3>1. pass'.pc = pc /\ pass'.my = kseen /\ pass'.held = Holds(kseen) /\ pass'.made = {}
      BY <2>1, IdleFacts DEF Passes
    <3>2. pass' = [pc |-> pc, my |-> kseen, todo |-> {}, left |-> {}, held |-> Holds(kseen), name |-> 0,
                   made |-> {}, tries |-> 0, error |-> "none"]
      BY <2>1 DEF Idle
    <3>3. pass' \in Passes BY <1>0, <2>2, <3>2 DEF Passes, Reasons
    <3> QED BY <3>1, <3>3
  <2>4. TypeOK' BY <1>0, <2>1, <2>3 DEF TypeOK
  <2>5. kseen.stage \in {"live", "deleting"} BY <1>0, <1>2, KCPFields
  <2>6. ViewInv' BY <1>0, <2>1, <2>3, <2>5, <1>2 DEF ViewInv
  <2>7. CountInv' BY <2>1, <2>3 DEF LifecycleInv, CountInv, Exists
  <2>8. CreateInv' BY <2>1, <2>3 DEF LifecycleInv, CreateInv, Exists, Making
  <2>9. NoMachineOutlivesKCP' BY <2>1 DEF LifecycleInv, NoMachineOutlivesKCP, Exists
  <2>10. HoldInv'
    <3> SUFFICES ASSUME Holds(kseen)
                 PROVE  \/ kseen.paused
                        \/ kseen.label /\ \A c \in {cluster', cseen'} : c.stage = "live" /\ c.paused
      BY <2>3, <2>5 DEF HoldInv
    <3>1. UNCHANGED <<cluster, cseen>> BY <2>1
    <3> QED BY <3>1 DEF Holds, SaysPaused
  <2> QED BY <2>3, <2>4, <2>6, <2>7, <2>8, <2>9, <2>10 DEF LifecycleInv, FailedCreateLeavesNothing
<1> QED BY <1>1, <1>2

\* The finalizer is put on, and the pass goes on with the KCP as it is now.
LEMMA AddFinalizerInv == ASSUME LifecycleInv, AddFinalizer PROVE LifecycleInv'
<1> USE PCs DEF caches, apart, making
<1>0. /\ TypeOK /\ ViewInv /\ pass.pc = "finalizer" /\ pass.pc # "idle" /\ kcp = pass.my
      /\ kcp' = [kcp EXCEPT !.finalizer = TRUE]
      /\ UNCHANGED <<caches, apart, machines, parts, queued, making>>
  BY DEF LifecycleInv, AddFinalizer, Current, Write
<1>1. /\ kcp \in KCPs /\ kcp' \in KCPs /\ kcp'.finalizer /\ kcp'.stage = kcp.stage /\ kcp'.label = kcp.label
      /\ kcp'.paused = kcp.paused
  BY <1>0 DEF TypeOK, KCPs
<1>2. pass' = [pass EXCEPT !.pc = "lookup", !.my = kcp'] BY DEF AddFinalizer
<1>3. /\ pass' \in Passes /\ pass'.pc = "lookup" /\ pass'.my = kcp' /\ pass'.held = pass.held
      /\ pass'.made = pass.made /\ pass'.name = pass.name
  BY <1>0, <1>1, <1>2 DEF TypeOK, Passes
<1>4. TypeOK' BY <1>0, <1>1, <1>3 DEF TypeOK
<1>5. kcp.stage = "live" BY <1>0 DEF ViewInv
<1>6. ViewInv' BY <1>0, <1>1, <1>3, <1>5 DEF ViewInv
<1>7. CountInv' BY <1>0, <1>1, <1>3 DEF LifecycleInv, CountInv, Exists
<1>8. CreateInv' BY <1>0, <1>3 DEF LifecycleInv, CreateInv, Exists, Making
<1>9. NoMachineOutlivesKCP' BY <1>1, <1>5 DEF NoMachineOutlivesKCP
<1>10. HoldInv' BY <1>0, <1>1, <1>3 DEF LifecycleInv, HoldInv
<1> QED BY <1>3, <1>4, <1>6, <1>7, <1>8, <1>9, <1>10 DEF LifecycleInv, FailedCreateLeavesNothing

\* The Cluster is found by the label.
LEMMA ClusterFoundInv == ASSUME LifecycleInv, ClusterFound PROVE LifecycleInv'
<1> USE PCs DEF caches, apart, making
<1>0. /\ TypeOK /\ ViewInv /\ pass.pc = "lookup" /\ pass.my.label /\ pass' = [pass EXCEPT !.pc = "paused"]
      /\ UNCHANGED <<kcp, caches, apart, machines, parts, queued, making>>
  BY DEF LifecycleInv, ClusterFound, ClusterByLabel, Goto
<1>1. /\ pass' \in Passes /\ pass'.pc = "paused" /\ pass'.my = pass.my /\ pass'.held = pass.held
      /\ pass'.made = pass.made
  BY <1>0 DEF TypeOK, Passes
<1>2. TypeOK' BY <1>0, <1>1 DEF TypeOK
<1>3. ViewInv' BY <1>0, <1>1 DEF ViewInv
<1>4. CountInv' BY <1>0, <1>1 DEF LifecycleInv, CountInv, Exists
<1>5. CreateInv' BY <1>0, <1>1 DEF LifecycleInv, CreateInv, Exists, Making
<1>6. NoMachineOutlivesKCP' BY <1>0 DEF LifecycleInv, NoMachineOutlivesKCP, Exists
<1>7. HoldInv' BY <1>0, <1>1 DEF LifecycleInv, HoldInv
<1> QED BY <1>1, <1>2, <1>3, <1>4, <1>5, <1>6, <1>7 DEF LifecycleInv, FailedCreateLeavesNothing

\* A pass that gets past its look at the pause was not held.
LEMMA NotHeld ==
  ASSUME LifecycleInv, pass.pc \notin {"finalizer", "lookup"},
         pass.pc \in {"paused", "deletion"} => ~IsPaused
  PROVE  ~pass.held
BY PCs DEF LifecycleInv, HoldInv, IsPaused, SaysPaused

\* The steps between the look at the pause and the create that write no Machine.
LEMMA WorkingInv ==
  ASSUME LifecycleInv,
         \/ NotPaused \/ TimeoutsDone \/ MetadataDone \/ SweepDone \/ TemplateMissing \/ PatchFails
         \/ CleanupDone \/ \E m \in Names : PatchNotFound(m)
  PROVE  LifecycleInv'
<1> USE PCs
<1>0. /\ UNCHANGED <<kcp, caches, apart, machines, parts, queued, making>> /\ TypeOK /\ pass \in Passes
      /\ machines' \in [Names -> Machines]
  BY DEF NotPaused, TimeoutsDone, MetadataDone, SweepDone, TemplateMissing, PatchFails, CleanupDone,
     PatchNotFound, LifecycleInv, TypeOK
<1>1. /\ pass.pc \in {"paused", "timeout", "metadata", "sweep", "create", "cleanup"}
      /\ pass.pc = "paused" => ~IsPaused
      /\ pass.pc = "cleanup" => pass.made = {}
  BY DEF NotPaused, TimeoutsDone, MetadataDone, SweepDone, TemplateMissing, PatchFails, CleanupDone,
     PatchNotFound, Over, CleanedUp
<1>2. ~pass.held /\ pass.made = {} BY <1>1, NotHeld DEF LifecycleInv, CreateInv
<1> DEFINE Good == /\ pass' \in Passes /\ pass'.my = pass.my /\ pass'.held = pass.held /\ pass'.made = {}
                   /\ pass'.pc \in {"timeout", "metadata", "sweep", "create", "fail", "status"}
<1>3. ASSUME NEW e \in Reasons, FailPass(e) PROVE Good BY <1>0, <1>2, <1>3 DEF FailPass, Passes
<1>4. ASSUME NEW q \in {"timeout", "metadata", "sweep", "create", "status"}, NEW S \in SUBSET Names,
             pass' = [pass EXCEPT !.pc = q, !.todo = S]
      PROVE  Good
  BY <1>0, <1>2, <1>4 DEF Passes
<1>5. Listed \subseteq Names BY DEF Listed
<1>6. Good
  <2>6. CASE CleanupDone
    <3>1. pass.error \in Reasons BY <1>0, PassFields
    <3>2. CASE pass' = [pass EXCEPT !.pc = "create", !.error = "none", !.made = {}]
      BY <1>0, <3>2 DEF Passes, Reasons
    <3> QED BY <1>3, <2>6, <3>1, <3>2 DEF CleanupDone
  <2>7. CASE NotPaused \/ TimeoutsDone \/ MetadataDone \/ SweepDone
    <3>1. CASE NotPaused BY <1>4, <1>5, <3>1 DEF NotPaused
    <3>2. CASE TimeoutsDone BY <1>4, <1>5, <3>2 DEF TimeoutsDone, Over
    <3>3. CASE MetadataDone BY <1>4, <1>5, <3>3 DEF MetadataDone, Over
    <3>4. CASE SweepDone BY <1>4, <3>4 DEF SweepDone, Over
    <3> QED BY <2>7, <3>1, <3>2, <3>3, <3>4
  <2>8. CASE TemplateMissing \/ PatchFails \/ \E m \in Names : PatchNotFound(m)
    BY <1>3, <2>8 DEF TemplateMissing, PatchFails, PatchNotFound, Reasons
  <2> QED BY <2>6, <2>7, <2>8
<1> QED BY <1>0, <1>1, <1>2, <1>6, Works

\* The steps that patch a Machine: its deadline, its metadata, its hook.
LEMMA PatchingInv ==
  ASSUME LifecycleInv, NEW m \in Names,
         reconcileNodeDrainTimeout(m) \/ reconcileMachineMetadata(m) \/ LeaveDone(m)
  PROVE  LifecycleInv'
<1> USE PCs
<1>0. /\ UNCHANGED <<kcp, caches, apart, parts, queued, making>> /\ TypeOK /\ ViewInv /\ pass \in Passes
      /\ machines \in [Names -> Machines] /\ pass.pc \in {"timeout", "metadata", "sweep"}
      /\ pass' = [pass EXCEPT !.todo = @ \ {m}]
  BY DEF reconcileNodeDrainTimeout, reconcileMachineMetadata, LeaveDone, LifecycleInv, TypeOK
<1>1. ~pass.held /\ pass.made = {} BY <1>0, NotHeld DEF LifecycleInv, CreateInv
<1>2. /\ pass' \in Passes /\ pass'.my = pass.my /\ pass'.held = pass.held /\ pass'.made = pass.made
      /\ pass'.pc = pass.pc
  BY <1>0 DEF Passes
<1>3. /\ nodeDrainTimeoutSeconds(pass.my.t) \in Timeouts(0..MaxSeconds) /\ pass.my.meta \in {0, 1}
  BY <1>0, MyFacts, KCPFields, Narrowed
<1> DEFINE r == machines[m]
<1>4. PICK q \in Machines : q.stage = r.stage /\ machines' = [machines EXCEPT ![m] = q]
  <2>0. r \in Machines BY <1>0
  <2>1. CASE reconcileNodeDrainTimeout(m)
    <3> DEFINE q == [r EXCEPT !.t = nodeDrainTimeoutSeconds(pass.my.t)]
    <3>1. q \in Machines /\ q.stage = r.stage BY <1>3, <2>0 DEF Machines
    <3>2. machines' = [machines EXCEPT ![m] = q] BY <2>1 DEF reconcileNodeDrainTimeout, PatchTimeout
    <3> QED BY <3>1, <3>2
  <2>2. CASE reconcileMachineMetadata(m)
    <3> DEFINE q == [r EXCEPT !.meta = pass.my.meta]
    <3>1. q \in Machines /\ q.stage = r.stage BY <1>3, <2>0 DEF Machines
    <3>2. machines' = [machines EXCEPT ![m] = q] BY <2>2 DEF reconcileMachineMetadata,
        MergedMetadata
    <3> QED BY <3>1, <3>2
  <2>3. CASE LeaveDone(m)
    <3> DEFINE q == IF Exists(m) THEN [r EXCEPT !.hook = FALSE] ELSE r
    <3>1. q \in Machines /\ q.stage = r.stage BY <2>0 DEF Machines
    <3>2. machines' = [machines EXCEPT ![m] = q] BY <1>0, <2>3 DEF LeaveDone
    <3> QED BY <3>1, <3>2
  <2> QED BY <2>1, <2>2, <2>3
<1>5. machines' \in [Names -> Machines] /\ \A n \in Names : machines'[n].stage = machines[n].stage
  BY <1>0, <1>4
<1> QED BY <1>0, <1>1, <1>2, <1>5, Works

-----------------------------------------------------------------------------
(* A create                                                                *)

\* The invariants that a create disturbs, from what it does to the rest.
LEMMA CreateStep ==
  ASSUME LifecycleInv, pass.pc \in {"create", "infra", "machine", "cleanup", "wait"},
         pass' \in Passes, pass'.my = pass.my, ~pass'.held, pass'.pc \in LivePCs \ LookPCs,
         machines' \in [Names -> Machines], parts' \in [Names -> SUBSET {"config", "infra"}],
         used' \subseteq Names, past' \in [abandoned : SUBSET (Names \cup {0}), unseen : SUBSET Names],
         UNCHANGED <<kcp, caches, apart, queued>>, CreateInv',
         \A m \in Names : machines'[m].stage # "absent" =>
           m \in past'.unseen \/ seen[m].stage # "absent" \/ (pass'.pc = "wait" /\ pass'.name = m)
  PROVE  LifecycleInv'
<1> USE PCs DEF caches, apart
<1>0. TypeOK /\ ViewInv /\ pass.pc # "idle" BY DEF LifecycleInv
<1>1. TypeOK' BY DEF LifecycleInv, TypeOK
<1>2. ViewInv' BY DEF LifecycleInv, ViewInv
<1>3. kcp.finalizer /\ kcp.label /\ kcp.stage # "gone"
  BY <1>0, WorkingIsNotGone, MyFacts DEF ViewInv
<1>4. CountInv' BY <1>3 DEF CountInv, Exists
<1>5. NoMachineOutlivesKCP' BY <1>3 DEF NoMachineOutlivesKCP
<1> QED BY <1>1, <1>2, <1>4, <1>5 DEF LifecycleInv, FailedCreateLeavesNothing, HoldInv

\* What is the same in every step of a create.
LEMMA CreateFacts ==
  ASSUME LifecycleInv, pass.pc \in {"create", "infra", "machine", "cleanup", "wait"}
  PROVE  /\ TypeOK /\ ViewInv /\ CreateInv /\ CountInv /\ ~pass.held /\ pass \in Passes
         /\ pass.my \in KCPs /\ pass.name \in Names \cup {0} /\ pass.made \subseteq {"config", "infra"}
         /\ machines \in [Names -> Machines] /\ parts \in [Names -> SUBSET {"config", "infra"}]
         /\ used \subseteq Names /\ past \in [abandoned : SUBSET (Names \cup {0}), unseen : SUBSET Names]
<1>1. pass.pc # "idle" /\ TypeOK /\ ViewInv /\ pass \in Passes BY DEF LifecycleInv, TypeOK
<1>2. ~pass.held BY NotHeld
<1> QED BY <1>1, <1>2, MyFacts, PassFields DEF LifecycleInv, TypeOK

\* A name is drawn, and the KairosConfig is made unless the name is taken.
LEMMA CreateConfigInv == ASSUME LifecycleInv, CreateConfig PROVE LifecycleInv'
<1> USE PCs DEF making
<1>0. /\ pass.pc = "create" /\ Fresh # {} /\ used' = used \cup {NewName}
      /\ UNCHANGED <<kcp, caches, apart, machines, queued, budget, foreign, past>>
  BY DEF CreateConfig
<1>1. NewName \in Names /\ NewName \notin used BY <1>0, NewNameFacts
<1>2. pass.tries + 1 \in Nat /\ pass.error \in Reasons /\ pass.made = {} /\ "taken" \in Reasons
  BY <1>0, CreateFacts, PassFields DEF CreateInv, Reasons
<1>3. parts[NewName] = {} /\ ~Exists(NewName) BY <1>0, <1>1, CreateFacts DEF CreateInv
<1>4. CASE Taken("config", NewName)
  <2>1. pass' = [pass EXCEPT !.pc = "cleanup", !.error = "taken", !.name = NewName, !.tries = @ + 1]
        /\ UNCHANGED parts
    BY <1>4 DEF CreateConfig
  <2>2. /\ pass' \in Passes /\ pass'.pc = "cleanup" /\ pass'.my = pass.my /\ pass'.held = pass.held
        /\ pass'.name = NewName /\ pass'.made = {}
    BY <1>0, <1>1, <1>2, <2>1, CreateFacts DEF Passes
  <2>3. CreateInv' BY <1>0, <1>1, <2>1, <2>2, CreateFacts DEF CreateInv, Exists, Making
  <2> QED BY <1>0, <1>1, <2>1, <2>2, <2>3, CreateFacts, CreateStep DEF CountInv, Exists
<1>5. CASE ~Taken("config", NewName)
  <2>1. /\ parts' = [parts EXCEPT ![NewName] = {"config"}]
        /\ pass' = [pass EXCEPT !.pc = "infra", !.name = NewName, !.made = {"config"}, !.tries = @ + 1]
    BY <1>5 DEF CreateConfig
  <2>2. /\ pass' \in Passes /\ pass'.pc = "infra" /\ pass'.my = pass.my /\ pass'.held = pass.held
        /\ pass'.name = NewName /\ pass'.made = {"config"}
    BY <1>0, <1>1, <1>2, <2>1, CreateFacts DEF Passes
  <2>3. CreateInv'
    BY <1>0, <1>1, <1>3, <1>5, <2>1, <2>2, CreateFacts DEF CreateInv, Exists, Making, Taken
  <2>4. parts' \in [Names -> SUBSET {"config", "infra"}] BY <1>0, <2>1, CreateFacts
  <2> QED BY <1>0, <1>1, <2>1, <2>2, <2>3, <2>4, CreateFacts, CreateStep DEF CountInv, Exists
<1> QED BY <1>4, <1>5

\* The infrastructure Machine is made unless its name is taken.
LEMMA CreateInfraInv == ASSUME LifecycleInv, createInfrastructureMachine PROVE LifecycleInv'
<1> USE PCs DEF making
<1>0. /\ pass.pc = "infra" /\ UNCHANGED <<kcp, caches, apart, machines, budget, queued, making>>
      /\ pass.made = {"config"} /\ pass.name \in used /\ pass.name \in Names
      /\ <<pass.name, "config">> \notin foreign
  BY CreateFacts DEF createInfrastructureMachine, CreateInv, Making
<1>1. CASE Taken("infra", pass.name)
  <2>1. pass' = [pass EXCEPT !.pc = "cleanup", !.error = "taken", !.made = {"config"}] /\ UNCHANGED parts
    BY <1>1 DEF createInfrastructureMachine, Cleanup, MadeBeforeInfra
  <2>2. /\ pass' \in Passes /\ pass'.pc = "cleanup" /\ pass'.my = pass.my /\ pass'.held = pass.held
        /\ pass'.name = pass.name /\ pass'.made = {"config"}
    BY <1>0, <2>1, CreateFacts DEF Passes, Reasons
  <2>3. CreateInv' BY <1>0, <2>1, <2>2, CreateFacts DEF CreateInv, Exists, Making
  <2> QED BY <1>0, <2>1, <2>2, <2>3, CreateFacts, CreateStep DEF CountInv, Exists
<1>2. CASE ~Taken("infra", pass.name)
  <2>1. /\ parts' = [parts EXCEPT ![pass.name] = @ \cup {"infra"}]
        /\ pass' = [pass EXCEPT !.pc = "machine", !.made = {"config", "infra"}]
    BY <1>2 DEF createInfrastructureMachine
  <2>2. /\ pass' \in Passes /\ pass'.pc = "machine" /\ pass'.my = pass.my /\ pass'.held = pass.held
        /\ pass'.name = pass.name /\ pass'.made = {"config", "infra"}
    BY <1>0, <2>1, CreateFacts DEF Passes
  <2>3. parts' \in [Names -> SUBSET {"config", "infra"}] BY <1>0, <2>1, CreateFacts
  <2>4. CreateInv'
    BY <1>0, <1>2, <2>1, <2>2, <2>3, CreateFacts DEF CreateInv, Exists, Making, Taken
  <2> QED BY <1>0, <2>2, <2>3, <2>4, CreateFacts, CreateStep DEF CountInv, Exists
<1> QED BY <1>1, <1>2

\* The Machine is made unless its name is taken, and the pass waits for the cache.
LEMMA CreateMachineInv == ASSUME LifecycleInv, CreateMachine PROVE LifecycleInv'
<1> USE PCs DEF making
<1>0. /\ pass.pc = "machine" /\ UNCHANGED <<kcp, caches, apart, parts, budget, queued, making>>
      /\ pass.name \in used /\ pass.name \in Names
  BY CreateFacts DEF CreateMachine, CreateInv
<1>1. CASE Taken("machine", pass.name)
  <2>1. pass' = [pass EXCEPT !.pc = "cleanup", !.error = "taken", !.made = pass.made] /\ UNCHANGED machines
    BY <1>1 DEF CreateMachine, Cleanup
  <2>2. /\ pass' \in Passes /\ pass'.pc = "cleanup" /\ pass'.my = pass.my /\ pass'.held = pass.held
        /\ pass'.name = pass.name /\ pass'.made = pass.made
    BY <1>0, <2>1, CreateFacts DEF Passes, Reasons
  <2>3. CreateInv' BY <1>0, <2>1, <2>2, CreateFacts DEF CreateInv, Exists, Making
  <2> QED BY <1>0, <2>1, <2>2, <2>3, CreateFacts, CreateStep DEF CountInv, Exists
<1>2. CASE ~Taken("machine", pass.name)
  <2>1. machines' = [machines EXCEPT ![pass.name] = NewMachine] /\ pass' = [pass EXCEPT !.pc = "wait"]
    BY <1>2 DEF CreateMachine, Goto
  <2>2. /\ pass' \in Passes /\ pass'.pc = "wait" /\ pass'.my = pass.my /\ pass'.held = pass.held
        /\ pass'.name = pass.name /\ pass'.made = pass.made
    BY <1>0, <2>1, CreateFacts DEF Passes
  <2>3. NewMachine \in Machines /\ NewMachine.stage = "live"
    <3>1. nodeDrainTimeoutSeconds(pass.my.t) \in Timeouts(0..MaxSeconds) /\ pass.my.meta \in {0, 1}
      BY <1>0, CreateFacts, KCPFields, Narrowed
    <3> QED BY <3>1 DEF NewMachine, Machines
  <2>4. machines' \in [Names -> Machines] BY <1>0, <2>1, <2>3, CreateFacts
  <2>5. /\ machines'[pass.name].stage = "live"
        /\ \A m \in Names \ {pass.name} : machines'[m] = machines[m]
    BY <1>0, <2>1, <2>3, CreateFacts
  <2>6. CreateInv' BY <1>0, <2>2, <2>5, CreateFacts DEF CreateInv, Exists, Making
  <2>7. \A m \in Names : machines'[m].stage # "absent" =>
          m \in past'.unseen \/ seen[m].stage # "absent" \/ (pass'.pc = "wait" /\ pass'.name = m)
    BY <1>0, <2>2, <2>5, CreateFacts DEF CountInv, Exists
  <2> QED BY <1>0, <2>2, <2>4, <2>6, <2>7, CreateFacts, CreateStep
<1> QED BY <1>1, <1>2

\* A call of the attempt fails.
LEMMA CreateFailsInv == ASSUME LifecycleInv, CreateFails PROVE LifecycleInv'
<1> USE PCs DEF making
<1>0. /\ pass.pc \in {"create", "infra", "machine"}
      /\ UNCHANGED <<kcp, caches, apart, machines, parts, queued, making>>
      /\ pass' = [pass EXCEPT !.pc = "cleanup", !.error = pass.pc, !.made = pass.made]
  BY DEF CreateFails, Cleanup
<1>1. pass.pc \in Reasons BY <1>0 DEF Reasons
<1>2. /\ pass' \in Passes /\ pass'.pc = "cleanup" /\ pass'.my = pass.my /\ pass'.held = pass.held
      /\ pass'.name = pass.name /\ pass'.made = pass.made
  BY <1>0, <1>1, CreateFacts DEF Passes
<1>3. CreateInv' BY <1>0, <1>2, CreateFacts DEF CreateInv, Exists, Making
<1> QED BY <1>0, <1>2, <1>3, CreateFacts, CreateStep DEF CountInv, Exists

\* What the cleanup takes next is something the attempt made.
LEMMA LastMadeFacts ==
  ASSUME LifecycleInv, pass.pc = "cleanup", pass.made # {}
  PROVE  /\ LastMade \in pass.made /\ pass.name \in Names /\ <<pass.name, LastMade>> \notin foreign
         /\ LastMade \in {"config", "infra"}
<1>1. pass.made \subseteq {"config", "infra"} BY CreateFacts
<1>2. LastMade \in pass.made BY <1>1 DEF LastMade
<1> QED BY <1>1, <1>2, CreateFacts DEF CreateInv, Making

\* The cleanup deletes an object.
LEMMA CleanupDeletesInv == ASSUME LifecycleInv, CleanupDeletes PROVE LifecycleInv'
<1> USE PCs DEF making
<1>0. /\ pass.pc = "cleanup" /\ pass.made # {} /\ pass.name \in Names /\ LastMade \in pass.made
      /\ parts' = [parts EXCEPT ![pass.name] = @ \ {LastMade}]
      /\ pass' = [pass EXCEPT !.made = @ \ {LastMade}]
      /\ UNCHANGED <<kcp, caches, apart, machines, queued, used, past>>
  BY LastMadeFacts DEF CleanupDeletes
<1>1. foreign' = foreign BY LastMadeFacts DEF CleanupDeletes
<1>2. /\ pass' \in Passes /\ pass'.pc = "cleanup" /\ pass'.my = pass.my /\ pass'.held = pass.held
      /\ pass'.name = pass.name /\ pass'.made = pass.made \ {LastMade}
  BY <1>0, CreateFacts DEF Passes
<1>3. parts' \in [Names -> SUBSET {"config", "infra"}] BY <1>0, CreateFacts
<1>4. CreateInv' BY <1>0, <1>1, <1>2, <1>3, CreateFacts DEF CreateInv, Exists, Making
<1> QED BY <1>0, <1>2, <1>3, <1>4, CreateFacts, CreateStep DEF CountInv, Exists

\* A delete of the cleanup fails, and the name is given up.
LEMMA CleanupFailsInv == ASSUME LifecycleInv, CleanupFails PROVE LifecycleInv'
<1> USE PCs DEF making
<1>0. /\ pass.pc = "cleanup" /\ pass.made # {} /\ pass.name \in Names
      /\ past' = [past EXCEPT !.abandoned = @ \cup {pass.name}]
      /\ pass' = [pass EXCEPT !.made = @ \ {LastMade}, !.error = "cleanup"]
      /\ UNCHANGED <<kcp, caches, apart, machines, parts, queued, foreign, used>>
  BY LastMadeFacts DEF CleanupFails
<1>1. /\ past' \in [abandoned : SUBSET (Names \cup {0}), unseen : SUBSET Names]
      /\ past'.abandoned = past.abandoned \cup {pass.name} /\ past'.unseen = past.unseen
  BY <1>0, CreateFacts
<1>2. /\ pass' \in Passes /\ pass'.pc = "cleanup" /\ pass'.my = pass.my /\ pass'.held = pass.held
      /\ pass'.name = pass.name /\ pass'.made \subseteq pass.made
  BY <1>0, CreateFacts DEF Passes, Reasons
<1>3. CreateInv' BY <1>0, <1>1, <1>2, CreateFacts DEF CreateInv, Exists, Making
<1> QED BY <1>0, <1>1, <1>2, <1>3, CreateFacts, CreateStep DEF CountInv, Exists

\* The new Machine is in the cache, or the wait for it gives up.
LEMMA WaitInv == ASSUME LifecycleInv, waitForMachineInCache \/ WaitGivesUp PROVE LifecycleInv'
<1> USE PCs DEF making
<1>0. pass.pc = "wait" /\ UNCHANGED <<kcp, caches, apart, machines, parts, queued, foreign, used>>
  BY DEF waitForMachineInCache, WaitGivesUp
<1>1. /\ pass' \in Passes /\ pass'.pc \in {"status", "fail"} /\ pass'.my = pass.my
      /\ pass'.held = pass.held
  <2>1. CASE waitForMachineInCache BY <1>0, <2>1, CreateFacts DEF waitForMachineInCache, Goto,
      Passes
  <2>2. CASE WaitGivesUp BY <1>0, <2>2, CreateFacts DEF WaitGivesUp, FailPass, Passes, Reasons
  <2> QED BY <2>1, <2>2
<1>2. /\ past' \in [abandoned : SUBSET (Names \cup {0}), unseen : SUBSET Names]
      /\ past'.abandoned = past.abandoned /\ past.unseen \subseteq past'.unseen
      /\ \A m \in Names : Exists(m) => m \in past'.unseen \/ seen[m].stage # "absent"
  <2>1. \A m \in Names : Exists(m) => m \in past.unseen \/ seen[m].stage # "absent" \/ pass.name = m
    BY <1>0, CreateFacts DEF CountInv
  <2>2. CASE waitForMachineInCache BY <1>0, <2>1, <2>2, CreateFacts DEF waitForMachineInCache
  <2>3. CASE WaitGivesUp
    <3>1. past' = [past EXCEPT !.unseen = @ \cup {pass.name}] BY <2>3 DEF WaitGivesUp
    <3>2. pass.name \in Names BY <1>0, CreateFacts DEF CreateInv
    <3> QED BY <1>0, <2>1, <3>1, <3>2, CreateFacts
  <2> QED BY <2>2, <2>3
<1>3. CreateInv' BY <1>0, <1>1, <1>2, CreateFacts DEF CreateInv, Exists, Making
<1> QED BY <1>0, <1>1, <1>2, <1>3, CreateFacts, CreateStep DEF Exists

-----------------------------------------------------------------------------
(* A deletion                                                              *)

\* The invariants, from what a deletion does to the rest: stages change only from live to
\* deleting.
LEMMA DeletionStep ==
  ASSUME LifecycleInv, pass.pc \in GonePCs, pass.made = {}, pass' \in Passes, pass'.my = pass.my,
         ~pass'.held, pass'.made = {}, pass'.pc \in GonePCs, machines' \in [Names -> Machines],
         \A m \in Names : machines'[m].stage = "absent" <=> machines[m].stage = "absent",
         UNCHANGED <<kcp, caches, apart, parts, queued, making>>,
         \A m \in Names : Exists(m) =>
           /\ pass'.pc = "drain" /\ pass.my.label => m \in past.unseen \/ m \in pass'.left
           /\ pass'.pc = "release" /\ pass.my.label => m \in past.unseen
  PROVE  LifecycleInv'
<1> USE PCs DEF caches, apart, making
<1>1. TypeOK' BY DEF LifecycleInv, TypeOK
<1>2. ViewInv' BY DEF LifecycleInv, ViewInv
<1>3. CountInv' BY DEF LifecycleInv, CountInv, Exists
<1>4. CreateInv' BY DEF LifecycleInv, CreateInv, Exists, Making
<1>5. NoMachineOutlivesKCP' BY DEF LifecycleInv, NoMachineOutlivesKCP, Exists
<1> QED BY <1>1, <1>2, <1>3, <1>4, <1>5 DEF LifecycleInv, FailedCreateLeavesNothing, HoldInv

\* What is the same in every step of a deletion.
LEMMA DeletionFacts ==
  ASSUME LifecycleInv, pass.pc \in GonePCs, pass.pc = "deletion" => ~IsPaused
  PROVE  /\ TypeOK /\ ViewInv /\ CountInv /\ ~pass.held /\ pass.made = {} /\ pass \in Passes
         /\ pass.left \subseteq Names /\ pass.todo \subseteq Names
         /\ machines \in [Names -> Machines]
<1>1. ~pass.held BY PCs, NotHeld
<1>2. pass.made = {} BY PCs DEF LifecycleInv, CreateInv
<1> QED BY <1>1, <1>2, PassFields DEF LifecycleInv, TypeOK

\* The deletion starts, lists again, and is done counting.
LEMMA DeletionInv == ASSUME LifecycleInv, DeletionStarts \/ StripDone \/ DrainDone PROVE LifecycleInv'
<1> USE PCs
<1>0. /\ pass.pc \in {"deletion", "strip", "drain"} /\ (pass.pc = "deletion" => ~IsPaused)
      /\ UNCHANGED <<kcp, caches, apart, machines, parts, queued, making>>
  BY DEF DeletionStarts, StripDone, DrainDone
<1>1. DrainList \subseteq Names /\ StripList \subseteq Names BY DEF DrainList, StripList, Listed
<1>2. CASE DeletionStarts
  <2>1. pass' = [pass EXCEPT !.pc = "strip", !.todo = StripList] BY <1>2 DEF DeletionStarts
  <2>2. pass' \in Passes /\ pass'.pc = "strip" /\ pass'.my = pass.my /\ pass'.held = pass.held
        /\ pass'.made = pass.made
    BY <1>0, <1>1, <2>1, DeletionFacts DEF Passes
  <2> QED BY <1>0, <2>2, DeletionFacts, DeletionStep
<1>3. CASE StripDone
  <2>1. /\ pass.pc = "strip"
        /\ pass' = [pass EXCEPT !.pc = "drain", !.left = DrainList,
                                !.todo = {m \in DrainList : ~Deleting(seen[m])}]
    BY <1>3 DEF StripDone
  <2>2. pass' \in Passes /\ pass'.pc = "drain" /\ pass'.my = pass.my /\ pass'.held = pass.held
        /\ pass'.made = pass.made /\ pass'.left = DrainList
    BY <1>0, <1>1, <2>1, DeletionFacts DEF Passes
  <2>3. pass.my.label => \A m \in Names : Exists(m) => m \in past.unseen \/ m \in DrainList
    BY <1>0, <2>1, DeletionFacts DEF CountInv, DrainList, Listed
  <2> QED BY <1>0, <2>2, <2>3, DeletionFacts, DeletionStep
<1>4. CASE DrainDone
  <2>1. pass.pc = "drain" /\ pass' = [pass EXCEPT !.pc = "release"] /\ pass.left = {}
    BY <1>4 DEF DrainDone, Goto, Remaining
  <2>2. pass' \in Passes /\ pass'.pc = "release" /\ pass'.my = pass.my /\ pass'.held = pass.held
        /\ pass'.made = pass.made
    BY <1>0, <2>1, DeletionFacts DEF Passes
  <2>3. pass.my.label => \A m \in Names : Exists(m) => m \in past.unseen
    BY <1>0, <2>1, DeletionFacts DEF CountInv
  <2> QED BY <1>0, <2>2, <2>3, DeletionFacts, DeletionStep
<1> QED BY <1>2, <1>3, <1>4

\* A hook is stripped, a Machine is deleted: what the deletion counts out is not there.
LEMMA DeletingInv ==
  ASSUME LifecycleInv, NEW m \in Names, stripEtcdLeaveHooks(m) \/ drainOwnedMachines(m)
  PROVE  LifecycleInv'
<1> USE PCs
<1>0. pass.pc \in {"strip", "drain"} /\ UNCHANGED <<kcp, caches, apart, parts, queued, making>>
  BY DEF stripEtcdLeaveHooks, drainOwnedMachines
<1>1. machines[m] \in Machines BY <1>0, DeletionFacts
<1>2. CASE stripEtcdLeaveHooks(m)
  <2>1. /\ machines' = IF Exists(m) THEN [machines EXCEPT ![m].hook = FALSE] ELSE machines
        /\ pass' = [pass EXCEPT !.todo = @ \ {m}] /\ pass.pc = "strip"
    BY <1>2 DEF stripEtcdLeaveHooks
  <2>2. /\ pass' \in Passes /\ pass'.pc = pass.pc /\ pass'.my = pass.my /\ pass'.held = pass.held
        /\ pass'.made = pass.made
    BY <1>0, <2>1, DeletionFacts DEF Passes
  <2>3. machines' \in [Names -> Machines] /\ \A n \in Names : machines'[n].stage = machines[n].stage
    <3> DEFINE q == [machines[m] EXCEPT !.hook = FALSE]
    <3>1. q \in Machines /\ q.stage = machines[m].stage BY <1>1 DEF Machines
    <3>2. machines' = machines \/ machines' = [machines EXCEPT ![m] = q] BY <2>1
    <3> QED BY <1>0, <3>1, <3>2, DeletionFacts
  <2> QED BY <1>0, <2>1, <2>2, <2>3, DeletionFacts, DeletionStep
<1>3. CASE drainOwnedMachines(m)
  <2>1. /\ machines' = IF machines[m].stage = "live" THEN [machines EXCEPT ![m].stage = "deleting"]
                       ELSE machines
        /\ pass' = [pass EXCEPT !.todo = @ \ {m}, !.left = IF Exists(m) THEN @ ELSE @ \ {m}]
        /\ pass.pc = "drain"
    BY <1>3 DEF drainOwnedMachines
  <2>2. /\ pass' \in Passes /\ pass'.pc = pass.pc /\ pass'.my = pass.my /\ pass'.held = pass.held
        /\ pass'.made = pass.made /\ pass'.left = IF Exists(m) THEN pass.left ELSE pass.left \ {m}
    BY <1>0, <2>1, DeletionFacts DEF Passes
  <2>3. /\ machines' \in [Names -> Machines]
        /\ \A n \in Names : machines'[n].stage = "absent" <=> machines[n].stage = "absent"
    <3> DEFINE q == [machines[m] EXCEPT !.stage = "deleting"]
    <3>1. q \in Machines /\ q.stage = "deleting" BY <1>1 DEF Machines
    <3>2. machines' = machines \/ (machines[m].stage = "live" /\ machines' = [machines EXCEPT ![m] = q])
      BY <2>1
    <3> QED BY <1>0, <3>1, <3>2, DeletionFacts
  <2>4. \A n \in Names : Exists(n) /\ pass.my.label => n \in past.unseen \/ n \in pass'.left
    BY <1>0, <2>1, <2>2, DeletionFacts DEF CountInv
  <2> QED BY <1>0, <2>1, <2>2, <2>3, <2>4, DeletionFacts, DeletionStep
<1> QED BY <1>2, <1>3

\* The finalizer goes when the deletion has counted every Machine out.
LEMMA RemoveFinalizerInv == ASSUME LifecycleInv, RemoveFinalizer PROVE LifecycleInv'
<1> USE PCs, IdleFacts DEF caches, apart, making
<1>0. /\ pass.pc = "release" /\ kcp = pass.my /\ kcp' = [kcp EXCEPT !.stage = "gone"] /\ pass' = Idle
      /\ UNCHANGED <<caches, apart, machines, parts, queued, making>>
  BY DEF RemoveFinalizer, Current, Write, Stop
<1>1. /\ kcp' \in KCPs /\ kcp'.stage = "gone" /\ kcp'.finalizer = kcp.finalizer /\ kcp'.label = kcp.label
  BY <1>0 DEF LifecycleInv, TypeOK, KCPs
<1>2. TypeOK' BY <1>0, <1>1 DEF LifecycleInv, TypeOK
<1>3. ViewInv' BY <1>0, <1>1 DEF LifecycleInv, ViewInv
<1>4. CountInv' BY <1>0, <1>1 DEF LifecycleInv, CountInv, Exists
<1>5. CreateInv' BY <1>0 DEF LifecycleInv, CreateInv, Exists, Making
<1>6. NoMachineOutlivesKCP' BY <1>0 DEF LifecycleInv, CountInv, NoMachineOutlivesKCP, Exists
<1>7. FailedCreateLeavesNothing' BY <1>0, <1>5 DEF CreateInv, FailedCreateLeavesNothing, Making
<1> QED BY <1>0, <1>2, <1>3, <1>4, <1>5, <1>6, <1>7 DEF LifecycleInv, HoldInv

-----------------------------------------------------------------------------
(* Watches, Cluster API, the operator                                      *)

\* The KCP is edited by others, who leave its finalizer and its label alone: it may be
\* deleted, and goes at once only when it has no finalizer.
LEMMA KCPEdited ==
  ASSUME LifecycleInv, kcp' \in KCPs, kcp'.finalizer = kcp.finalizer, kcp'.label = kcp.label,
         \/ kcp'.stage = kcp.stage
         \/ kcp.stage = "live" /\ kcp'.stage = IF kcp.finalizer THEN "deleting" ELSE "gone",
         UNCHANGED <<caches, apart, machines, parts, queued, pass, making>>
  PROVE  LifecycleInv'
<1> USE PCs DEF caches, apart, making
<1>1. TypeOK' BY DEF LifecycleInv, TypeOK
<1>2. ViewInv' BY DEF LifecycleInv, ViewInv
<1>3. CountInv' BY DEF LifecycleInv, CountInv, Exists
<1>4. CreateInv' BY DEF LifecycleInv, CreateInv, Exists, Making
<1>5. NoMachineOutlivesKCP' BY DEF LifecycleInv, NoMachineOutlivesKCP, CountInv, Exists
<1>6. HoldInv' BY DEF LifecycleInv, HoldInv
<1> QED
  BY <1>1, <1>2, <1>3, <1>4, <1>5, <1>6 DEF LifecycleInv, FailedCreateLeavesNothing, Exists

\* The operator deletes, pauses or edits the KCP.
LEMMA KCPEditsInv == ASSUME LifecycleInv, KCPDeleted \/ KCPPauses \/ EditMachineTemplate PROVE LifecycleInv'
<1>0. kcp \in KCPs /\ UNCHANGED <<caches, apart, machines, parts, queued, pass, making>>
  BY DEF LifecycleInv, TypeOK, KCPDeleted, KCPPauses, EditMachineTemplate
<1>1. CASE KCPDeleted
  <2> DEFINE to == IF kcp.finalizer THEN "deleting" ELSE "gone"
  <2>1. kcp.stage = "live" /\ kcp' = [kcp EXCEPT !.stage = to] BY <1>1 DEF KCPDeleted, Write
  <2>2. kcp' \in KCPs /\ kcp'.finalizer = kcp.finalizer /\ kcp'.label = kcp.label /\ kcp'.stage = to
    BY <1>0, <2>1 DEF KCPs
  <2> QED BY <1>0, <2>1, <2>2, KCPEdited
<1>2. CASE KCPPauses
  <2>1. /\ kcp' \in KCPs /\ kcp'.finalizer = kcp.finalizer /\ kcp'.label = kcp.label
        /\ kcp'.stage = kcp.stage
    BY <1>0, <1>2 DEF KCPPauses, Write, KCPs
  <2> QED BY <1>0, <2>1, KCPEdited
<1>3. CASE EditMachineTemplate
  <2>1. PICK t \in world.timeouts : kcp' = [kcp EXCEPT !.t = t, !.meta = 1 - @]
    BY <1>3 DEF EditMachineTemplate, Write
  <2>2. t \in Timeouts(Int) /\ kcp.meta \in {0, 1} BY <1>0, KCPFields DEF LifecycleInv, TypeOK
  <2>3. 1 - kcp.meta \in {0, 1} BY <2>2
  <2>4. /\ kcp' \in KCPs /\ kcp'.finalizer = kcp.finalizer /\ kcp'.label = kcp.label
        /\ kcp'.stage = kcp.stage
    BY <1>0, <2>1, <2>2, <2>3 DEF KCPs
  <2> QED BY <1>0, <2>4, KCPEdited
<1> QED BY <1>1, <1>2, <1>3

\* A cache catches up with the KCP, the Cluster or the Machines.
LEMMA SyncInv == ASSUME LifecycleInv, Sync PROVE LifecycleInv'
<1> USE PCs DEF apart, making
<1>0. /\ UNCHANGED <<kcp, apart, machines, parts, pass, making>> /\ queued' \in BOOLEAN
      /\ kseen' \in {kseen, kcp} /\ cseen' \in {cseen, cluster} /\ seen' \in {seen, machines}
  BY DEF Sync, SyncKCP, SyncCluster, SyncMachines, clusterToKairosControlPlane,
     machineToKairosControlPlane
<1>1. TypeOK' BY <1>0 DEF LifecycleInv, TypeOK
<1>2. ViewInv' BY <1>0, KCPFields DEF LifecycleInv, TypeOK, ViewInv
<1>3. CountInv' BY <1>0 DEF LifecycleInv, CountInv, Exists
<1>4. CreateInv' BY <1>0 DEF LifecycleInv, CreateInv, Exists, Making
<1>5. NoMachineOutlivesKCP' BY <1>0 DEF LifecycleInv, NoMachineOutlivesKCP, Exists
<1>6. HoldInv' BY <1>0 DEF LifecycleInv, HoldInv
<1> QED
  BY <1>0, <1>1, <1>2, <1>3, <1>4, <1>5, <1>6 DEF LifecycleInv, FailedCreateLeavesNothing, Exists

\* The manager restarts.
LEMMA RestartInv == ASSUME LifecycleInv, Restart PROVE LifecycleInv'
<1> USE PCs, IdleFacts DEF apart, making
<1>0. /\ kseen' = kcp /\ cseen' = cluster /\ seen' = machines /\ pass' = Idle /\ queued' = TRUE
      /\ UNCHANGED <<kcp, apart, machines, parts, foreign, used>>
  BY DEF Restart
<1>1. /\ past' \in [abandoned : SUBSET (Names \cup {0}), unseen : SUBSET Names]
      /\ past'.unseen = past.unseen /\ past.abandoned \subseteq past'.abandoned
      /\ Making => pass.name \in past'.abandoned
  <2>1. pass.name \in Names \cup {0} BY PassFields DEF LifecycleInv, TypeOK
  <2> QED BY <2>1 DEF Restart, Making, LifecycleInv, TypeOK
<1>2. TypeOK' BY <1>0, <1>1 DEF LifecycleInv, TypeOK
<1>3. ViewInv' BY <1>0 DEF LifecycleInv, ViewInv
<1>4. CountInv' BY <1>0 DEF LifecycleInv, CountInv, Exists
<1>5. CreateInv' BY <1>0, <1>1 DEF LifecycleInv, CreateInv, Exists, Making
<1>6. NoMachineOutlivesKCP' BY <1>0, <1>1 DEF LifecycleInv, NoMachineOutlivesKCP, Exists
<1>7. FailedCreateLeavesNothing' BY <1>0, <1>5 DEF CreateInv, FailedCreateLeavesNothing, Making
<1> QED BY <1>0, <1>2, <1>3, <1>4, <1>5, <1>6, <1>7 DEF LifecycleInv, HoldInv

\* Cluster API drains and terminates a Machine, or someone deletes it.
LEMMA MachineInv ==
  ASSUME LifecycleInv, NEW m \in Names, Drain(m) \/ Terminate(m) \/ MachineDeleted(m)
  PROVE  LifecycleInv'
<1> USE PCs DEF caches, apart, making
<1>0. UNCHANGED <<kcp, caches, apart, queued, pass, making>> /\ machines[m] \in Machines
  BY DEF Drain, Terminate, MachineDeleted, LifecycleInv, TypeOK
<1>1. PICK q \in Machines : /\ machines' = [machines EXCEPT ![m] = q]
                            /\ q.stage # "absent" => Exists(m) /\ parts' = parts
                            /\ q.stage = "absent" => parts' = [parts EXCEPT ![m] = {}]
  <2>1. CASE Terminate(m) BY <2>1, AbsentFacts DEF Terminate
  <2>2. CASE Drain(m)
    <3> DEFINE q == [machines[m] EXCEPT !.stage = "drained"]
    <3>1. q \in Machines /\ q.stage = "drained" BY <1>0 DEF Machines
    <3>2. machines' = [machines EXCEPT ![m] = q] BY <2>2 DEF Drain
    <3> QED BY <2>2, <3>1, <3>2 DEF Drain, Exists
  <2>3. CASE MachineDeleted(m)
    <3> DEFINE q == [machines[m] EXCEPT !.stage = "deleting"]
    <3>1. q \in Machines /\ q.stage = "deleting" BY <1>0 DEF Machines
    <3>2. machines' = [machines EXCEPT ![m] = q] BY <2>3 DEF MachineDeleted
    <3> QED BY <2>3, <3>1, <3>2 DEF MachineDeleted, Exists
  <2> QED BY <2>1, <2>2, <2>3
<1>2. /\ machines' \in [Names -> Machines] /\ parts' \in [Names -> SUBSET {"config", "infra"}]
      /\ \A n \in Names : Exists(n)' => Exists(n)
      /\ \A n \in Names : parts'[n] \subseteq parts[n]
      /\ \A n \in Names : parts'[n] # {} /\ ~Exists(n)' => ~Exists(n)
  BY <1>1 DEF LifecycleInv, TypeOK, Exists
<1>3. TypeOK' BY <1>0, <1>2 DEF LifecycleInv, TypeOK
<1>4. ViewInv' BY <1>0 DEF LifecycleInv, ViewInv
<1>5. CountInv' BY <1>0, <1>2 DEF LifecycleInv, CountInv
<1>6. CreateInv'
  <2>1. /\ \A n \in Names \ used : parts'[n] = {} /\ ~Exists(n)'
        /\ pass.pc \in {"infra", "machine"} => ~Exists(pass.name)'
    <3>1. used \subseteq Names BY DEF LifecycleInv, TypeOK
    <3>2. \A n \in Names \ used : parts[n] = {} /\ ~Exists(n) BY DEF LifecycleInv, CreateInv
    <3>3. pass.pc \in {"infra", "machine"} => pass.name \in Names /\ ~Exists(pass.name)
      BY <3>1 DEF LifecycleInv, CreateInv
    <3>4. \A n \in Names \ used : parts'[n] = {} BY <1>2, <3>2
    <3> QED BY <1>0, <1>2, <3>2, <3>3, <3>4 DEF Exists
  <2>2. \A n \in Names : parts'[n] # {} /\ ~Exists(n)' =>
          n \in past.abandoned \/ (Making /\ n = pass.name /\ parts'[n] \subseteq pass.made)
    BY <1>2 DEF LifecycleInv, CreateInv
  <2> QED BY <1>0, <2>1, <2>2 DEF LifecycleInv, CreateInv, Making
<1>7. NoMachineOutlivesKCP' BY <1>0, <1>2 DEF LifecycleInv, NoMachineOutlivesKCP
<1>8. FailedCreateLeavesNothing' BY <1>0, <1>6 DEF CreateInv, FailedCreateLeavesNothing, Making
<1> QED BY <1>0, <1>3, <1>4, <1>5, <1>6, <1>7, <1>8 DEF LifecycleInv, HoldInv

\* The Cluster is created, paused, unpaused or deleted; the template is created.
LEMMA ClusterInv ==
  ASSUME LifecycleInv, ClusterPauses \/ ClusterCreated \/ ClusterDeleted \/ TemplateCreated
  PROVE  LifecycleInv'
<1> USE PCs DEF caches, making
<1>0. UNCHANGED <<kcp, caches, machines, parts, world, queued, making>>
  BY DEF ClusterPauses, ClusterCreated, ClusterDeleted, TemplateCreated
<1>1. cluster' \in Clusters /\ template' \in BOOLEAN
  <2>0. cluster \in Clusters /\ template \in BOOLEAN BY DEF LifecycleInv, TypeOK
  <2>1. CASE ClusterPauses
    <3>1. cluster.paused \in BOOLEAN BY <2>0 DEF Clusters
    <3>2. cluster' = [cluster EXCEPT !.paused = ~cluster.paused] BY <2>1 DEF ClusterPauses
    <3> QED BY <2>0, <2>1, <3>1, <3>2 DEF ClusterPauses, Clusters
  <2>2. CASE ClusterCreated BY <2>0, <2>2 DEF ClusterCreated, Clusters
  <2>3. CASE ClusterDeleted BY <2>0, <2>3 DEF ClusterDeleted, Clusters
  <2>4. CASE TemplateCreated BY <2>0, <2>4 DEF TemplateCreated
  <2> QED BY <2>1, <2>2, <2>3, <2>4
<1>2. /\ pass' \in Passes /\ pass'.pc = pass.pc /\ pass'.my = pass.my /\ pass'.name = pass.name
      /\ pass'.made = pass.made /\ pass'.left = pass.left
      /\ pass'.held => /\ pass.held
                       /\ pass.my.paused \/ cluster' = cluster \/ cluster.stage = "absent"
  <2>1. pass \in Passes BY DEF LifecycleInv, TypeOK
  <2>2. CASE UNCHANGED pass
    BY <2>1, <2>2 DEF ClusterPauses, ClusterCreated, ClusterDeleted, TemplateCreated, LetGo, Passes
  <2>3. CASE LetGo
    <3> DEFINE h == pass.held /\ pass.my.paused
    <3>1. h \in BOOLEAN OBVIOUS
    <3>2. pass' = [pass EXCEPT !.held = h] BY <2>3 DEF LetGo
    <3> HIDE DEF h
    <3>3. /\ pass' \in Passes /\ pass'.pc = pass.pc /\ pass'.my = pass.my /\ pass'.name = pass.name
          /\ pass'.made = pass.made /\ pass'.left = pass.left /\ pass'.held = h
      BY <2>1, <3>1, <3>2 DEF Passes
    <3> QED BY <3>3 DEF h
  <2> QED BY <2>2, <2>3 DEF ClusterPauses, ClusterCreated, ClusterDeleted, TemplateCreated
<1>3. TypeOK' BY <1>0, <1>1, <1>2 DEF LifecycleInv, TypeOK
<1>4. ViewInv' BY <1>0, <1>2 DEF LifecycleInv, ViewInv
<1>5. CountInv' BY <1>0, <1>2 DEF LifecycleInv, CountInv, Exists
<1>6. CreateInv' BY <1>0, <1>2 DEF LifecycleInv, CreateInv, Exists, Making
<1>7. NoMachineOutlivesKCP' BY <1>0 DEF LifecycleInv, NoMachineOutlivesKCP, Exists
<1>8. FailedCreateLeavesNothing' BY <1>0, <1>6 DEF CreateInv, FailedCreateLeavesNothing, Making,
    Exists
<1>9. HoldInv' BY <1>0, <1>2 DEF LifecycleInv, HoldInv
<1> QED BY <1>3, <1>4, <1>5, <1>6, <1>7, <1>8, <1>9 DEF LifecycleInv

-----------------------------------------------------------------------------
(* The theorems                                                            *)

\* LifecycleInv holds at first.
LEMMA InitInv == ASSUME Init PROVE LifecycleInv
<1> USE PCs, IdleFacts
<1>1. PICK s \in Scenarios :
        /\ kcp = s.kcp /\ machines = s.machines /\ template = s.template
        /\ cluster = s.cluster /\ world = s.world
        /\ used = {n \in Names : s.machines[n].stage # "absent"}
        /\ parts = [n \in Names |-> IF s.machines[n].stage = "absent" THEN {} ELSE {"config", "infra"}]
  BY DEF Init
<1>2. /\ kseen = kcp /\ cseen = cluster /\ seen = machines /\ queued = TRUE /\ pass = Idle
      /\ past = [abandoned |-> {}, unseen |-> {}]
  BY DEF Init
<1>3. /\ kcp \in KCPs /\ cluster \in Clusters /\ machines \in [Names -> Machines] /\ template \in BOOLEAN
      /\ world.timeouts \subseteq Timeouts(Int) /\ kcp.stage # "gone"
      /\ \A m \in Names : Exists(m) => kcp.finalizer /\ kcp.label
  BY <1>1, ScenarioAssumption DEF Exists
<1>4. TypeOK BY <1>1, <1>2, <1>3 DEF TypeOK
<1>5. ViewInv BY <1>2, <1>3 DEF ViewInv
<1>6. CountInv BY <1>2, <1>3 DEF CountInv, Exists
<1>7. CreateInv BY <1>1, <1>2 DEF CreateInv, Exists, Making
<1> QED
  BY <1>1, <1>2, <1>3, <1>4, <1>5, <1>6, <1>7
  DEF LifecycleInv, NoMachineOutlivesKCP, FailedCreateLeavesNothing, HoldInv, Exists

\* Every step keeps LifecycleInv.
LEMMA NextInv == ASSUME LifecycleInv, Next PROVE LifecycleInv'
<1>1. CASE Pass
  BY <1>1, BeginInv, AddFinalizerInv, ClusterFoundInv, EndingInv, WorkingInv, CreateConfigInv,
     CreateInfraInv, CreateMachineInv, CleanupDeletesInv, WaitInv, DeletionInv, RemoveFinalizerInv,
     PatchingInv, DeletingInv
  DEF Pass
<1>2. CASE Faults
  BY <1>2, CreateFailsInv, CleanupFailsInv, WaitInv, EndingInv, WorkingInv, RestartInv DEF Faults
<1>3. CASE Sync BY <1>3, SyncInv
<1>4. CASE CAPI BY <1>4, MachineInv DEF CAPI
<1>5. CASE Operator BY <1>5, KCPEditsInv, ClusterInv, MachineInv DEF Operator
<1> QED BY <1>1, <1>2, <1>3, <1>4, <1>5 DEF Next

\* So does a step that changes nothing.
LEMMA StutterInv == ASSUME LifecycleInv, UNCHANGED vars PROVE LifecycleInv'
<1> USE DEF vars
<1>1. TypeOK' BY DEF LifecycleInv, TypeOK
<1>2. ViewInv' BY DEF LifecycleInv, ViewInv
<1>3. CountInv' BY DEF LifecycleInv, CountInv, Exists
<1>4. CreateInv' BY DEF LifecycleInv, CreateInv, Exists, Making
<1>5. NoMachineOutlivesKCP' BY DEF LifecycleInv, NoMachineOutlivesKCP, Exists
<1>6. HoldInv' BY DEF LifecycleInv, HoldInv
<1> QED
  BY <1>1, <1>2, <1>3, <1>4, <1>5, <1>6 DEF LifecycleInv, FailedCreateLeavesNothing, Exists

\* No Machine outlives its KCP unless its wait for the cache gave up, and a create that
\* failed leaves nothing that it could delete (reconcileDelete, createdObjects.cleanup).
THEOREM NothingIsLeftBehind == Spec => []LifecycleInv
<1>1. Init => LifecycleInv BY InitInv
<1>2. LifecycleInv /\ [Next]_vars => LifecycleInv' BY NextInv, StutterInv
<1> QED BY <1>1, <1>2, PTL DEF Spec

\* A held pass stops before it makes or deletes anything.
LEMMA HeldPassIsIdle ==
  ASSUME LifecycleInv, Next, pass.held, pass' # pass
  PROVE  machines' = machines /\ parts' = parts /\ kcp'.stage = kcp.stage
<1> USE PCs
<1>0. pass.pc \in {"finalizer", "lookup", "paused", "deletion"} /\ kcp \in KCPs
  BY DEF LifecycleInv, HoldInv, TypeOK
<1>1. pass.pc \in {"paused", "deletion"} => IsPaused BY NotHeld, <1>0
<1>2. CASE Pass
  <2>1. CASE AddFinalizer BY <1>0, <2>1 DEF AddFinalizer, Write, KCPs
  <2>2. CASE SetClusterLabel BY <1>0, <2>2 DEF SetClusterLabel, Write, KCPs
  <2>3. CASE Begin \/ ClusterFound \/ ClusterNotAvailable \/ UpdateConflict \/ Paused
    BY <2>3 DEF Begin, ClusterFound, ClusterNotAvailable, UpdateConflict, Paused
  <2> QED
    BY <1>0, <1>1, <1>2, <2>1, <2>2, <2>3
    DEF Pass, NotPaused, TimeoutsDone, MetadataDone, SweepDone, Over, TemplateMissing, CreateConfig,
        createInfrastructureMachine, CreateMachine, CleanupDeletes, CleanupDone, waitForMachineInCache,
        RecordFailure, UpdateStatus, DeletionStarts, StripDone, MachinesRemain, DrainDone, RemoveFinalizer,
        AlreadyGone, reconcileNodeDrainTimeout, reconcileMachineMetadata, PatchNotFound, LeaveWaits,
        LeaveDone, stripEtcdLeaveHooks, drainOwnedMachines
<1>3. CASE Faults
  BY <1>0, <1>3
  DEF Faults, CreateFails, CleanupFails, WaitGivesUp, TeardownFails, PatchFails, Restart
<1>4. CASE Sync BY <1>4 DEF Sync, SyncKCP, SyncCluster, SyncMachines
<1>5. CASE CAPI BY <1>5 DEF CAPI, Drain, Terminate
<1>6. CASE Operator
  BY <1>6
  DEF Operator, KCPDeleted, ClusterPauses, KCPPauses, EditMachineTemplate, ClusterCreated,
      ClusterDeleted, TemplateCreated, MachineDeleted
<1> QED BY <1>2, <1>3, <1>4, <1>5, <1>6 DEF Next

\* Only what the attempt itself made is deleted.
LEMMA ForeignStays == ASSUME LifecycleInv, Next PROVE foreign' = foreign
<1> USE DEF making
<1>1. CASE CleanupDeletes BY <1>1, LastMadeFacts DEF CleanupDeletes
<1>2. CASE Pass /\ ~CleanupDeletes
  BY <1>2
  DEF Pass, Begin, AddFinalizer, ClusterFound, SetClusterLabel, ClusterNotAvailable, UpdateConflict, Paused,
      NotPaused, TimeoutsDone, MetadataDone, SweepDone, TemplateMissing, CreateConfig,
      createInfrastructureMachine, CreateMachine, CleanupDone, waitForMachineInCache, RecordFailure,
      UpdateStatus, DeletionStarts, StripDone, MachinesRemain, DrainDone, RemoveFinalizer, AlreadyGone,
      reconcileNodeDrainTimeout, reconcileMachineMetadata, PatchNotFound, LeaveWaits, LeaveDone,
      stripEtcdLeaveHooks, drainOwnedMachines
<1>3. CASE Faults
  BY <1>3 DEF Faults, CreateFails, CleanupFails, WaitGivesUp, TeardownFails, PatchFails, Restart
<1>4. CASE Sync \/ CAPI BY <1>4 DEF Sync, SyncKCP, SyncCluster, SyncMachines, CAPI, Drain, Terminate
<1>5. CASE Operator
  BY <1>5
  DEF Operator, KCPDeleted, ClusterPauses, KCPPauses, EditMachineTemplate, ClusterCreated,
      ClusterDeleted, TemplateCreated, MachineDeleted
<1> QED BY <1>1, <1>2, <1>3, <1>4, <1>5 DEF Next

\* A hook that is gone stays gone: only a create puts one on, on a Machine that was not there.
LEMMA HooksStayOff ==
  ASSUME LifecycleInv, Next, NEW m \in Names, Exists(m), ~machines[m].hook
  PROVE  ~machines'[m].hook
<1>0. machines \in [Names -> Machines] /\ \A n \in Names : machines[n] \in Machines
  BY DEF LifecycleInv, TypeOK
<1>1. CASE UNCHANGED machines BY <1>1
<1>2. CASE CreateMachine
  <2>1. pass.pc = "machine" /\ m # pass.name BY <1>2 DEF CreateMachine, LifecycleInv, CreateInv
  <2>2. machines' = machines \/ machines' = [machines EXCEPT ![pass.name] = NewMachine]
    BY <1>2 DEF CreateMachine
  <2> QED BY <1>0, <2>1, <2>2
<1>3. ASSUME NEW n \in Names, NEW t, machines' = [machines EXCEPT ![n].t = t] PROVE ~machines'[m].hook
  BY <1>0, <1>3 DEF Machines
<1>4. ASSUME NEW n \in Names, NEW t, machines' = [machines EXCEPT ![n].meta = t] PROVE ~machines'[m].hook
  BY <1>0, <1>4 DEF Machines
<1>5. ASSUME NEW n \in Names, machines' = [machines EXCEPT ![n].hook = FALSE] PROVE ~machines'[m].hook
  BY <1>0, <1>5 DEF Machines
<1>6. ASSUME NEW n \in Names, NEW t, machines' = [machines EXCEPT ![n].stage = t] PROVE ~machines'[m].hook
  BY <1>0, <1>6 DEF Machines
<1>7. ASSUME NEW n \in Names, machines' = [machines EXCEPT ![n] = Absent] PROVE ~machines'[m].hook
  BY <1>0, <1>7, AbsentFacts
<1>8. CASE Pass /\ ~CreateMachine
  <2>1. ASSUME NEW n \in Names,
               \/ reconcileNodeDrainTimeout(n) \/ reconcileMachineMetadata(n) \/ LeaveDone(n)
               \/ stripEtcdLeaveHooks(n) \/ drainOwnedMachines(n)
        PROVE  ~machines'[m].hook
    BY <1>1, <1>3, <1>4, <1>5, <1>6, <2>1
    DEF reconcileNodeDrainTimeout, PatchTimeout, reconcileMachineMetadata, MergedMetadata, LeaveDone,
        stripEtcdLeaveHooks, drainOwnedMachines
  <2> QED
    BY <1>1, <1>8, <2>1
    DEF Pass, Begin, AddFinalizer, ClusterFound, SetClusterLabel, ClusterNotAvailable, UpdateConflict,
        Paused, NotPaused, TimeoutsDone, MetadataDone, SweepDone, TemplateMissing, CreateConfig,
        createInfrastructureMachine, CleanupDeletes, CleanupDone, waitForMachineInCache,
        RecordFailure, UpdateStatus, DeletionStarts, StripDone, MachinesRemain, DrainDone,
        RemoveFinalizer, AlreadyGone, PatchNotFound, LeaveWaits
<1>9. CASE Faults
  BY <1>1, <1>9 DEF Faults, CreateFails, CleanupFails, WaitGivesUp, TeardownFails, PatchFails,
      Restart
<1>10. CASE Sync BY <1>1, <1>10 DEF Sync, SyncKCP, SyncCluster, SyncMachines
<1>11. CASE CAPI BY <1>6, <1>7, <1>11 DEF CAPI, Drain, Terminate
<1>12. CASE Operator
  BY <1>1, <1>6, <1>12
  DEF Operator, KCPDeleted, ClusterPauses, KCPPauses, EditMachineTemplate, ClusterCreated,
      ClusterDeleted, TemplateCreated, MachineDeleted
<1> QED BY <1>2, <1>8, <1>9, <1>10, <1>11, <1>12 DEF Next

\* A pass that starts on a pause touches nothing, no create deletes what others made, and no
\* hook comes back (Reconcile, createControlPlaneMachineNamed, reconcileMachineMetadata).
THEOREM LeavesOthersAlone == Spec => OthersAreLeftAlone
<1> DEFINE Good == /\ pass.held /\ pass' # pass =>
                        machines' = machines /\ parts' = parts /\ kcp'.stage = kcp.stage
                   /\ foreign' = foreign
                   /\ \A m \in Names : Exists(m) /\ ~machines[m].hook => ~machines'[m].hook
<1>1. ASSUME LifecycleInv, Next PROVE Good BY <1>1, HeldPassIsIdle, ForeignStays, HooksStayOff
<1>2. LifecycleInv /\ [Next]_vars => [Good]_vars BY <1>1
<1> QED BY <1>2, NothingIsLeftBehind, PTL DEF Spec, OthersAreLeftAlone
=============================================================================
