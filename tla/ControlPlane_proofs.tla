------------------------ MODULE ControlPlane_proofs ------------------------
(***************************************************************************)
(* Proofs about ControlPlane, for any number of Machines, replicas and     *)
(* versions and any budgets: the inductive invariant, and from it that     *)
(* joiners come one at a time, that a control plane has one founder, that  *)
(* a rollout adds before it removes, that a delete leaves a healthy        *)
(* majority, and that quorum is lost only to a join.                       *)
(***************************************************************************)
EXTENDS ControlPlane, TLAPS, FiniteSetTheorems, WellFoundedInduction

\* waitForMachineInCache never gives up.
CacheReliable == \A b \in Budgets : b["lag"] = 0

NoLag == spent["lag"] = 0

\* spec.replicas is never 1 (docs/HIGH_AVAILABILITY.md).
HighlyAvailable == 1 \notin Replicas

\* At most a minority of the Machines the cache shows is being deleted.
FewLeaving ==
  Cardinality(seen.live \cap seen.deleting) + (replicas \div 2) + 1 <= replicas

\* Members that have outlived their Machine are a minority.
FewOrphans == 2 * Cardinality(voters \cap api.live) > Cardinality(voters)

\* What the invariant says of the types, conjunct by conjunct.
LEMMA Types ==
  ASSUME TypeOK
  PROVE  /\ api \in Objects /\ seen \in Objects
         /\ created \in Nat /\ replicas \in {1, 3, 5}
         /\ role \in [Machine -> Role] /\ stage \in [Machine -> Stage]
         /\ report \in [Machine -> {"none", "ok", "bad"}]
         /\ spent \in [Spends -> Nat] /\ voters \subseteq Machine
         /\ "lag" \in Spends /\ "fail" \in Spends
BY ControlPlaneAssumption DEF TypeOK, Spends

\* Counting: one count goes up by one, the others stay.
LEMMA SpendCounts ==
  ASSUME TypeOK, NEW what \in Spends, Spend(what)
  PROVE  /\ spent' \in [Spends -> Nat] /\ spent'[what] = spent[what] + 1
         /\ \A w \in Spends : spent[w] <= spent'[w]
<1>1. spent \in [Spends -> Nat] /\ spent' = [spent EXCEPT ![what] = @ + 1]
  BY DEF TypeOK, Spend
<1> QED
  BY <1>1

\* A step counts one thing or nothing.
LEMMA StepCounts ==
  ASSUME TypeOK, [Next]_vars
  PROVE  spent' = spent \/ \E what \in Spends : Spend(what)
<1>1. CASE ScaleUp \/ RolloutSurge
  BY <1>1 DEF ScaleUp, RolloutSurge, createControlPlaneMachine, Spends
<1>2. CASE ScaleDown \/ RolloutDelete
  BY <1>2 DEF ScaleDown, RolloutDelete, deleteControlPlaneMachine
<1>3. ASSUME NEW m \in Machine, ReleaseHook(m) \/ NodeReports(m)
      PROVE  spent' = spent \/ \E what \in Spends : Spend(what)
  BY <1>3 DEF ReleaseHook, NodeReports, Spends
<1>4. CASE CacheSync \/ EditReplicas \/ EditVersion \/ KubeconfigReady
  BY <1>4 DEF CacheSync, EditReplicas, EditVersion, KubeconfigReady, Spends
<1>5. ASSUME NEW m \in Machine, OperatorDeletes(m) \/ Terminated(m) \/ NodeFails(m)
      PROVE  spent' = spent \/ \E what \in Spends : Spend(what)
  BY <1>5 DEF OperatorDeletes, Terminated, NodeFails, Spends
<1>6. ASSUME NEW m \in Machine, \/ NodeFounds(m) \/ NodeAdds(m) \/ NodeStarts(m)
                                \/ NodeRegisters(m) \/ MemberLeaves(m)
      PROVE  spent' = spent
  BY <1>6 DEF NodeFounds, NodeAdds, NodeStarts, NodeRegisters, MemberLeaves
<1>7. CASE UNCHANGED vars
  BY <1>7 DEF vars
<1> QED
  BY <1>1, <1>2, <1>3, <1>4, <1>5, <1>6, <1>7 DEF Next, Reconcile, World, Node

\* So counts only grow: a step that ends calm began calm.
LEMMA CountsGrow ==
  ASSUME TypeOK, [Next]_vars
  PROVE  /\ spent' \in [Spends -> Nat]
         /\ spent'["lag"] = 0 => spent["lag"] = 0
         /\ spent'["fail"] = 0 => spent["fail"] = 0
         /\ Calm' => Calm
<1>1. spent \in [Spends -> Nat] /\ "lag" \in Spends /\ "fail" \in Spends
  BY Types
<1>2. CASE spent' = spent
  BY <1>1, <1>2 DEF Calm
<1>3. ASSUME NEW what \in Spends, Spend(what)
      PROVE  /\ spent' \in [Spends -> Nat]
             /\ spent'["lag"] = 0 => spent["lag"] = 0
             /\ spent'["fail"] = 0 => spent["fail"] = 0
             /\ Calm' => Calm
  <2>1. spent' \in [Spends -> Nat] /\ \A w \in Spends : spent[w] <= spent'[w]
    BY <1>3, SpendCounts
  <2>2. spent["lag"] <= spent'["lag"] /\ spent["fail"] <= spent'["fail"]
    BY <1>1, <2>1
  <2>3. spent["lag"] \in Nat /\ spent["fail"] \in Nat
    BY <1>1
  <2> QED
    BY <2>1, <2>2, <2>3 DEF Calm
<1> QED
  BY <1>2, <1>3, StepCounts

\* Where no budget has room for a lag there is none.
LEMMA ReliableCache ==
  ASSUME TypeOK, NoLag, CacheReliable, [Next]_vars
  PROVE  NoLag'
<1>1. CASE spent' = spent
  BY <1>1 DEF NoLag
<1>2. ASSUME NEW what \in Spends, Spend(what) PROVE NoLag'
  <2>1. PICK b \in Budgets : \A w \in Spends : spent'[w] <= b[w]
    BY <1>2 DEF Spend
  <2>2. spent' \in [Spends -> Nat] /\ "lag" \in Spends
    BY <1>2, SpendCounts, Types
  <2>3. spent'["lag"] <= 0 /\ spent'["lag"] \in Nat
    BY <2>1, <2>2 DEF CacheReliable
  <2> QED
    BY <2>3 DEF NoLag
<1> QED
  BY <1>1, <1>2, StepCounts

\* The initial states satisfy the invariant: every Machine has joined.
LEMMA InitControlPlaneInv == Init => ControlPlaneInv /\ NoLag
<1> SUFFICES ASSUME NEW n \in Established, InitWith(n)
             PROVE  ControlPlaneInv /\ NoLag
  BY DEF Init
<1> USE ControlPlaneAssumption
<1>0. n \in Nat /\ n <= MaxMachines /\ 1..n \subseteq Machine
  BY DEF Machine
<1>1. TypeOK
  BY DEF InitWith, TypeOK, Machine, Objects, Role, Stage
<1>2. /\ api.live = 1..n /\ api.deleting = {} /\ api.nodeRef = 1..n
      /\ api.hooked = IF replicas = 1 THEN {} ELSE 1..n
      /\ seen = api /\ created = n /\ voters = 1..n
      /\ replicas = 1 => \A m \in Machine : role[m] = "single"
      /\ \A m \in Machine : stage[m] = IF m <= n THEN "serving" ELSE "off"
  BY DEF InitWith
<1>3. ObjectsInv
  BY <1>2 DEF ObjectsInv
<1>4. CacheInv
  BY <1>2 DEF CacheInv
<1>5. HookInv
  BY <1>0, <1>2 DEF HookInv
<1>6. \A m \in Machine : stage[m] # "off" <=> m \in 1..n
  BY <1>0, <1>2 DEF Machine
<1>7. \A m \in 1..n : stage[m] = "serving"
  BY <1>0, <1>2
<1>8. VoterInv
  BY <1>2, <1>6, <1>7 DEF VoterInv
<1>9. TurnInv
  BY <1>2, <1>6, <1>7 DEF TurnInv
<1>10. NoLag
  BY DEF InitWith, NoLag, Spends
<1> QED
  BY <1>1, <1>3, <1>4, <1>5, <1>8, <1>9, <1>10 DEF ControlPlaneInv

\* What a create adds: one Machine, not there before, of the role decided.
LEMMA CreateAdds ==
  ASSUME ControlPlaneInv, createControlPlaneMachine
  PROVE  LET m == created + 1 IN
         /\ m \in Machine /\ m \notin api.live /\ created' = m
         /\ api'.live = api.live \cup {m} /\ api'.deleting = api.deleting
         /\ api'.nodeRef = api.nodeRef /\ api' \in Objects
         /\ api.hooked \subseteq api'.hooked
         /\ api'.hooked \subseteq api.hooked \cup {m}
         /\ role'[m] # "single" => m \in api'.hooked
         /\ report' = report /\ voters' = voters
         /\ role'[m] = controlPlaneRoleForNewMachine
         /\ \A n \in Machine \ {m} : role'[n] = role[n]
         /\ stage'[m] = "booting" /\ \A n \in Machine \ {m} : stage'[n] = stage[n]
<1> DEFINE m == created + 1
           r == controlPlaneRoleForNewMachine
<1>1. api \in Objects /\ role \in [Machine -> Role] /\ created \in Nat
      /\ api.live \subseteq 1..created /\ stage \in [Machine -> Stage]
  BY Types DEF ControlPlaneInv, ObjectsInv
<1>2. m \in Machine /\ role' = [role EXCEPT ![m] = r] /\ report' = report
      /\ created' = m /\ voters' = voters
      /\ stage' = [stage EXCEPT ![m] = "booting"]
      /\ api' = [api EXCEPT !.live = @ \cup {m},
                            !.hooked = IF r = "single" THEN @ ELSE @ \cup {m}]
  BY DEF createControlPlaneMachine
<1>3. m \notin api.live
  BY <1>1
<1> HIDE DEF m, r
<1>5. api'.live = api.live \cup {m} /\ api'.deleting = api.deleting
      /\ api'.nodeRef = api.nodeRef /\ api' \in Objects
      /\ api'.hooked = IF r = "single" THEN api.hooked ELSE api.hooked \cup {m}
  BY <1>1, <1>2 DEF Objects
<1>6. role'[m] = r /\ \A n \in Machine \ {m} : role'[n] = role[n]
  BY <1>1, <1>2
<1>7. stage'[m] = "booting" /\ \A n \in Machine \ {m} : stage'[n] = stage[n]
  BY <1>1, <1>2
<1> QED
  BY <1>2, <1>3, <1>5, <1>6, <1>7 DEF m, r

\* A founder is created only when there is no Machine: the cache misses none, a
\* scale-up to one replica starts from zero, and a rollout has an outdated one.
LEMMA FounderIsFirst ==
  ASSUME ControlPlaneInv, NoLag, ScaleUp \/ RolloutSurge,
         controlPlaneRoleForNewMachine # "join"
  PROVE  api.live = {}
<1>1. api.live \subseteq seen.live /\ seen.live \subseteq 1..created
      /\ created \in Nat /\ replicas \in {1, 3, 5}
  BY Types DEF ControlPlaneInv, ObjectsInv, CacheInv, NoLag
<1>2. CASE replicas <= 1
  <2>1. ScaleUp /\ replicas = 1
    BY <1>1, <1>2 DEF RolloutSurge, RollingOut
  <2>2. IsFiniteSet(seen.live)
    <3>1. IsFiniteSet(1..created)
      BY <1>1, FS_Interval
    <3> QED
      BY <1>1, <3>1, FS_Subset
  <2>3. Cardinality(seen.live) \in Nat
    BY <2>2, FS_CardinalityType
  <2>4. Cardinality(seen.live) < 1
    BY <2>1 DEF ScaleUp
  <2>5. Cardinality(seen.live) = 0
    BY <2>3, <2>4
  <2>6. seen.live = {}
    BY <2>2, <2>5, FS_EmptySet
  <2> QED
    BY <2>6, <1>1
<1>3. CASE ~(replicas <= 1)
  BY <1>1, <1>3 DEF controlPlaneRoleForNewMachine
<1> QED
  BY <1>2, <1>3

\* A joiner is created only when every Machine that the cache does not show
\* being deleted has joined, the init Machine whether it is deleted or not.
LEMMA JoinerFollows ==
  ASSUME ControlPlaneInv, NoLag, ScaleUp \/ RolloutSurge,
         controlPlaneRoleForNewMachine = "join", NEW n \in api.live
  PROVE  /\ (n \in api.nodeRef /\ report[n] = "ok") \/ n \in seen.deleting
         /\ seen.live = {n} => n \in api.nodeRef
<1>1. initMachineJoinable
  BY DEF ScaleUp, RolloutSurge, MayCreate
<1>2. n \in seen.live /\ seen.live \subseteq Nat
  BY Types DEF ControlPlaneInv, CacheInv, NoLag, ObjectsInv
<1>3. n \in seen.nodeRef => n \in api.nodeRef
  BY DEF ControlPlaneInv, CacheInv
<1>4. (n \in seen.nodeRef /\ report[n] = "ok") \/ n \in seen.deleting
  <2>1. PICK init : /\ init \in seen.nodeRef /\ report[init] = "ok"
                    /\ \A m \in seen.live \ {init} :
                         m \in seen.deleting \/ memberJoined(m)
    BY <1>1 DEF initMachineJoinable
  <2> QED
    BY <1>2, <2>1 DEF memberJoined
<1>5. ASSUME seen.live = {n} PROVE n \in seen.nodeRef
  <2>1. Min(seen.live) = n
    BY <1>2, <1>5 DEF Min
  <2> QED
    BY <1>1, <2>1 DEF initMachineJoinable
<1> QED
  BY <1>3, <1>4, <1>5

\* createControlPlaneMachine: the new Machine has a fresh number and follows
\* Machines that have joined, and the cache shows it or the lag is counted.
LEMMA CreateKeepsInv ==
  ASSUME ControlPlaneInv, [Next]_vars, ScaleUp \/ RolloutSurge
  PROVE  ControlPlaneInv'
<1> USE ControlPlaneAssumption
<1> DEFINE m == created + 1
<1>0. TypeOK /\ ObjectsInv /\ CacheInv /\ HookInv /\ VoterInv /\ TurnInv
  BY DEF ControlPlaneInv
<1>1. createControlPlaneMachine
  BY DEF ScaleUp, RolloutSurge
<1>2. /\ m \in Machine /\ m \notin api.live /\ created' = m
      /\ api'.live = api.live \cup {m} /\ api'.deleting = api.deleting
      /\ api'.nodeRef = api.nodeRef /\ api' \in Objects
      /\ api.hooked \subseteq api'.hooked
      /\ api'.hooked \subseteq api.hooked \cup {m}
      /\ role'[m] # "single" => m \in api'.hooked
      /\ report' = report /\ voters' = voters
      /\ role'[m] = controlPlaneRoleForNewMachine
      /\ \A n \in Machine \ {m} : role'[n] = role[n]
      /\ stage'[m] = "booting" /\ \A n \in Machine \ {m} : stage'[n] = stage[n]
  BY <1>1, CreateAdds
<1>3. /\ created \in Nat /\ 1..created' = 1..created \cup {m} /\ m \notin 1..created
      /\ \A n \in 1..created : n < m
  BY <1>0, <1>2, Types
<1>4. /\ api.live \subseteq 1..created /\ seen.live \subseteq 1..created
      /\ 1..created \subseteq Machine /\ voters \subseteq 1..created
  BY <1>0, <1>2, <1>3, Types DEF ObjectsInv, VoterInv, Machine
<1>5. \/ seen' = api' /\ spent' = spent
      \/ seen' = seen /\ spent'["lag"] # 0 /\ ~Calm'
  <2>1. CASE Spend("lag") /\ UNCHANGED seen
    <3>1. spent'["lag"] = spent["lag"] + 1 /\ spent["lag"] \in Nat
      BY <1>0, <2>1, SpendCounts, Types
    <3> QED
      BY <2>1, <3>1 DEF Calm
  <2> QED
    BY <1>1, <2>1 DEF createControlPlaneMachine
<1>6. seen' \in Objects /\ spent' \in [Spends -> Nat]
  BY <1>0, <1>2, <1>5, CountsGrow, Types
<1>7. TypeOK'
  <2>1. controlPlaneRoleForNewMachine \in Role /\ "booting" \in Stage
    BY DEF controlPlaneRoleForNewMachine, Role, Stage
  <2> QED
    BY <1>0, <1>1, <1>2, <1>6, <2>1
       DEF TypeOK, createControlPlaneMachine, spec, Machine
<1> HIDE DEF m
<1>8. ObjectsInv'
  BY <1>0, <1>2, <1>3, <1>5 DEF ObjectsInv
<1>9. CacheInv'
  <2>1. CASE seen' = api'
    BY <2>1 DEF CacheInv
  <2>2. CASE seen' = seen /\ spent'["lag"] # 0
    <3>1. m \notin seen.deleting /\ m \notin seen.nodeRef
      BY <1>0, <1>3, <1>4 DEF ObjectsInv
    <3> QED
      BY <1>0, <1>2, <2>2, <3>1 DEF CacheInv
  <2> QED
    BY <1>5, <2>1, <2>2
<1>10. HookInv'
  <2> SUFFICES ASSUME NEW n \in 1..created', role'[n] # "single"
               PROVE  /\ n \in api'.live => n \in api'.hooked \cup seen'.deleting
                      /\ n \in seen'.live => n \in api'.live \cup seen'.deleting
    BY DEF HookInv
  <2>1. CASE n = m
    BY <1>2, <1>4, <2>1
  <2>2. CASE n # m
    <3>1. n \in 1..created /\ role[n] # "single"
      BY <1>2, <1>3, <1>4, <2>2
    <3>2. /\ n \in api.live => n \in api.hooked \cup seen.deleting
          /\ n \in seen.live => n \in api.live \cup seen.deleting
      BY <1>0, <3>1 DEF HookInv
    <3>3. seen.deleting \cap api.live \subseteq api.deleting
      BY <1>0 DEF CacheInv
    <3> QED
      BY <1>2, <1>5, <2>2, <3>2, <3>3
  <2> QED
    BY <2>1, <2>2
<1>11. VoterInv'
  <2>1. \A n \in Machine : stage'[n] # "off" => n \in api'.live
    BY <1>0, <1>2 DEF VoterInv
  <2>2. voters' \subseteq 1..created'
    BY <1>2, <1>3, <1>4
  <2>3. ASSUME spent'["fail"] = 0, NEW n \in voters' \cap api'.live
        PROVE  stage'[n] \in {"added", "serving"}
    <3>1. n # m /\ n \in voters \cap api.live /\ n \in Machine
      BY <1>2, <1>3, <1>4, <2>3
    <3>2. spent["fail"] = 0
      BY <1>0, <2>3, CountsGrow
    <3> QED
      BY <1>0, <1>2, <3>1, <3>2 DEF VoterInv
  <2> QED
    BY <2>1, <2>2, <2>3 DEF VoterInv
<1>12. TurnInv'
  <2> SUFFICES ASSUME Calm' PROVE TurnInv'
    BY DEF TurnInv
  <2>1. seen' = api' /\ Calm /\ NoLag
    BY <1>0, <1>5, CountsGrow DEF Calm, NoLag
  <2>2. api.live \subseteq seen.live /\ seen.deleting \cap api.live \subseteq api.deleting
        /\ api.nodeRef \subseteq api.live
    BY <1>0, <2>1 DEF CacheInv, ObjectsInv, NoLag
  <2>3. \A n \in Machine : stage'[n] \in {"added", "serving"} => n \in voters'
    BY <1>0, <1>2, <2>1 DEF TurnInv
  <2>4. ASSUME NEW n \in api'.nodeRef
        PROVE  \/ stage'[n] = "serving"
               \/ stage'[n] = "left" /\ n \in seen'.deleting
    <3>1. n \in api.nodeRef /\ n # m /\ n \in Machine /\ n \in api.live
      BY <1>2, <1>4, <2>2, <2>4
    <3> QED
      BY <1>0, <1>2, <2>1, <2>2, <3>1 DEF TurnInv
  <2>5. ASSUME NEW n \in api'.live \ api'.nodeRef, role'[n] # "join"
        PROVE  api'.live = {n} /\ seen'.live = {n}
    <3>1. CASE n = m
      <4>1. api.live = {}
        BY <1>2, <2>1, <2>5, <3>1, FounderIsFirst
      <4> QED
        BY <1>2, <2>1, <3>1, <4>1
    <3>2. CASE n # m
      <4>1. n \in api.live \ api.nodeRef /\ role[n] # "join"
        BY <1>2, <1>4, <2>5, <3>2
      <4>2. seen.live = {n}
        BY <1>0, <2>1, <4>1 DEF TurnInv
      <4>3. controlPlaneRoleForNewMachine = "join"
        BY <2>1, <4>1, FounderIsFirst
      <4> QED
        BY <2>1, <4>1, <4>2, <4>3, JoinerFollows
    <3> QED
      BY <3>1, <3>2
  <2>6. ASSUME NEW n \in api'.live, NEW o \in api'.live, n < o
        PROVE  n \in api'.nodeRef \cup seen'.deleting
    <3>1. CASE n = m
      <4>1. o \in 1..created \cup {m} /\ m \in Nat
        BY <1>2, <1>3, <1>4 DEF m
      <4> QED
        BY <1>3, <2>6, <3>1, <4>1
    <3>2. CASE n # m /\ o # m
      <4>1. n \in api.live /\ o \in api.live
        BY <1>2, <3>2
      <4>2. n \in api.nodeRef \cup seen.deleting
        BY <1>0, <2>1, <2>6, <4>1 DEF TurnInv
      <4> QED
        BY <1>2, <2>1, <2>2, <4>1, <4>2
    <3>3. CASE n # m /\ o = m
      <4>1. n \in api.live
        BY <1>2, <3>3
      <4>2. controlPlaneRoleForNewMachine = "join"
        BY <2>1, <4>1, FounderIsFirst
      <4>3. n \in api.nodeRef \cup seen.deleting
        BY <2>1, <4>1, <4>2, JoinerFollows
      <4> QED
        BY <1>2, <2>1, <2>2, <4>1, <4>3
    <3> QED
      BY <3>1, <3>2, <3>3
  <2> QED
    BY <2>3, <2>4, <2>5, <2>6 DEF TurnInv
<1> QED
  BY <1>7, <1>8, <1>9, <1>10, <1>11, <1>12 DEF ControlPlaneInv

\* A delete only marks a Machine that exists.
LEMMA DeleteKeepsInv ==
  ASSUME ControlPlaneInv, [Next]_vars, NEW t, t \in api.live,
         UNCHANGED <<spec, made, seen, report, kubeconfigReady, stage, voters>>,
         api' = [api EXCEPT !.deleting = @ \cup {t}]
  PROVE  ControlPlaneInv'
<1>0. TypeOK /\ ObjectsInv /\ CacheInv /\ HookInv /\ VoterInv /\ TurnInv
  BY DEF ControlPlaneInv
<1>1. api \in Objects
  BY <1>0 DEF TypeOK
<1>2. api' \in Objects /\ api'.live = api.live
      /\ api'.deleting = api.deleting \cup {t}
      /\ api'.nodeRef = api.nodeRef /\ api'.hooked = api.hooked
  BY <1>1 DEF Objects
<1>3. /\ spent' \in [Spends -> Nat]
      /\ Calm' => Calm
      /\ spent'["lag"] = 0 => spent["lag"] = 0
      /\ spent'["fail"] = 0 => spent["fail"] = 0
  BY <1>0, CountsGrow
<1>4. TypeOK'
  BY <1>0, <1>2, <1>3 DEF TypeOK, spec, made
<1>5. ObjectsInv' /\ CacheInv'
  BY <1>0, <1>2, <1>3 DEF ObjectsInv, CacheInv, made
<1>6. HookInv' /\ VoterInv'
  BY <1>0, <1>2, <1>3 DEF HookInv, VoterInv, made
<1>7. TurnInv'
  BY <1>0, <1>2, <1>3 DEF TurnInv, made
<1> QED
  BY <1>4, <1>5, <1>6, <1>7 DEF ControlPlaneInv

\* The steps that leave the Machines and their etcd alone.
LEMMA OtherKeepsInv ==
  ASSUME ControlPlaneInv, [Next]_vars, TypeOK',
         UNCHANGED <<made, api, seen, stage, voters>>
  PROVE  ControlPlaneInv'
<1>0. TypeOK /\ ObjectsInv /\ CacheInv /\ HookInv /\ VoterInv /\ TurnInv
  BY DEF ControlPlaneInv
<1>1. /\ Calm' => Calm
      /\ spent'["lag"] = 0 => spent["lag"] = 0
      /\ spent'["fail"] = 0 => spent["fail"] = 0
  BY <1>0, CountsGrow
<1>2. ObjectsInv' /\ CacheInv' /\ HookInv' /\ VoterInv'
  BY <1>0, <1>1 DEF ObjectsInv, CacheInv, HookInv, VoterInv, made
<1>3. TurnInv'
  BY <1>0, <1>1 DEF TurnInv, made
<1> QED
  BY <1>2, <1>3 DEF ControlPlaneInv

\* The steps of a VM that change its etcd and leave the Machine objects alone.
LEMMA NodeKeepsInv ==
  ASSUME ControlPlaneInv, [Next]_vars, NEW m \in Machine,
         \/ NodeFounds(m) \/ NodeAdds(m) \/ NodeStarts(m) \/ MemberLeaves(m)
         \/ NodeFails(m)
  PROVE  ControlPlaneInv'
<1>0. TypeOK /\ ObjectsInv /\ CacheInv /\ HookInv /\ VoterInv /\ TurnInv
  BY DEF ControlPlaneInv
<1>1. /\ spent' \in [Spends -> Nat]
      /\ Calm' => Calm
      /\ spent'["lag"] = 0 => spent["lag"] = 0
      /\ spent'["fail"] = 0 => spent["fail"] = 0
  BY <1>0, CountsGrow
<1>2. UNCHANGED <<spec, made, api, seen, report, kubeconfigReady>>
  BY DEF NodeFounds, NodeAdds, NodeStarts, MemberLeaves, NodeFails
<1>3. \E e \in Stage \ {"off"} : stage' = [stage EXCEPT ![m] = e]
  BY DEF NodeFounds, NodeAdds, NodeStarts, MemberLeaves, NodeFails, Stage
<1>4. stage[m] # "off" /\ m \in api.live /\ m \in 1..created
      /\ voters' \subseteq voters \cup {m}
  <2>1. stage[m] # "off" /\ voters' \subseteq voters \cup {m}
    BY DEF NodeFounds, NodeAdds, NodeStarts, MemberLeaves, NodeFails
  <2> QED
    BY <1>0, <2>1 DEF VoterInv, ObjectsInv
<1>5. stage' \in [Machine -> Stage] /\ \A n \in Machine \ {m} : stage'[n] = stage[n]
      /\ stage'[m] # "off" /\ stage \in [Machine -> Stage]
  BY <1>0, <1>3, Types
<1>6. TypeOK'
  BY <1>0, <1>1, <1>2, <1>4, <1>5 DEF TypeOK, spec, made
<1>7. ObjectsInv' /\ CacheInv' /\ HookInv'
  BY <1>0, <1>1, <1>2 DEF ObjectsInv, CacheInv, HookInv, made
<1>8. spent'["fail"] = 0 => ~NodeFails(m)
  <2>1. ASSUME NodeFails(m) PROVE spent'["fail"] # 0
    <3>1. spent'["fail"] = spent["fail"] + 1 /\ spent["fail"] \in Nat
      BY <1>0, <2>1, SpendCounts, Types DEF NodeFails
    <3> QED
      BY <3>1
  <2> QED
    BY <2>1
<1>9. VoterInv'
  <2>1. voters' \subseteq 1..created' /\ \A n \in Machine : stage'[n] # "off" => n \in api'.live
    BY <1>0, <1>2, <1>4, <1>5 DEF VoterInv, made
  <2>2. ASSUME spent'["fail"] = 0, NEW n \in voters' \cap api'.live
        PROVE  stage'[n] \in {"added", "serving"}
    <3>1. CASE n = m
      BY <1>5, <1>8, <2>2, <3>1
         DEF NodeFounds, NodeAdds, NodeStarts, MemberLeaves
    <3>2. CASE n # m
      <4>1. n \in voters \cap api.live /\ n \in Machine
        BY <1>0, <1>2, <1>4, <2>2, <3>2, Types
      <4> QED
        BY <1>0, <1>1, <1>5, <2>2, <3>2, <4>1 DEF VoterInv
    <3> QED
      BY <3>1, <3>2
  <2> QED
    BY <2>1, <2>2 DEF VoterInv
<1>10. TurnInv'
  <2> SUFFICES ASSUME Calm' PROVE TurnInv'
    BY DEF TurnInv
  <2>1. Calm /\ ~NodeFails(m)
    BY <1>1, <1>8 DEF Calm
  <2>2. ASSUME NEW n \in Machine, stage'[n] \in {"added", "serving"}
        PROVE  n \in voters'
    <3>1. CASE n = m
      <4>1. CASE NodeFounds(m) \/ NodeAdds(m)
        BY <3>1, <4>1 DEF NodeFounds, NodeAdds
      <4>2. CASE NodeStarts(m)
        BY <1>0, <2>1, <3>1, <4>2 DEF NodeStarts, TurnInv
      <4>3. CASE MemberLeaves(m)
        BY <1>5, <2>2, <3>1, <4>3 DEF MemberLeaves
      <4> QED
        BY <2>1, <4>1, <4>2, <4>3
    <3>2. CASE n # m
      <4>1. stage[n] \in {"added", "serving"} /\ n \in voters /\ n \in api.live
        BY <1>0, <1>5, <2>1, <2>2, <3>2 DEF TurnInv, VoterInv
      <4>2. ~NodeFounds(m)
        <5> SUFFICES ASSUME NodeFounds(m) PROVE FALSE
          OBVIOUS
        <5>1. m \in api.live \ api.nodeRef /\ role[m] # "join"
          BY <1>0, <1>4, <2>1 DEF NodeFounds, TurnInv
        <5> QED
          BY <1>0, <2>1, <3>2, <4>1, <5>1 DEF TurnInv
      <4> QED
        BY <2>1, <3>2, <4>1, <4>2 DEF NodeAdds, NodeStarts, MemberLeaves
    <3> QED
      BY <3>1, <3>2
  <2>3. ASSUME NEW n \in api'.nodeRef
        PROVE  \/ stage'[n] = "serving"
               \/ stage'[n] = "left" /\ n \in seen'.deleting
    <3>1. n \in api.nodeRef /\ n \in Machine
      BY <1>0, <1>2, <2>3, Types DEF Objects
    <3>2. \/ stage[n] = "serving"
          \/ stage[n] = "left" /\ n \in seen.deleting
      BY <1>0, <2>1, <3>1 DEF TurnInv
    <3>3. CASE n # m
      BY <1>2, <1>5, <3>1, <3>2, <3>3
    <3>4. CASE n = m
      BY <1>2, <1>5, <2>1, <3>2, <3>4
         DEF NodeFounds, NodeAdds, NodeStarts, MemberLeaves
    <3> QED
      BY <3>3, <3>4
  <2>4. /\ \A n \in api'.live \ api'.nodeRef :
             role'[n] # "join" => api'.live = {n} /\ seen'.live = {n}
        /\ \A n, o \in api'.live : n < o => n \in api'.nodeRef \cup seen'.deleting
    BY <1>0, <1>2, <2>1 DEF TurnInv, made
  <2> QED
    BY <2>2, <2>3, <2>4 DEF TurnInv
<1> QED
  BY <1>6, <1>7, <1>9, <1>10 DEF ControlPlaneInv

\* Every step keeps the invariant: one step per action.
LEMMA NextControlPlaneInv ==
  ASSUME ControlPlaneInv, [Next]_vars
  PROVE  ControlPlaneInv'
<1> USE ControlPlaneAssumption
<1>0. TypeOK /\ ObjectsInv /\ CacheInv /\ HookInv /\ VoterInv /\ TurnInv
  BY DEF ControlPlaneInv
<1>T. /\ spent' \in [Spends -> Nat]
      /\ Calm' => Calm
      /\ spent'["lag"] = 0 => spent["lag"] = 0
      /\ spent'["fail"] = 0 => spent["fail"] = 0
      /\ api \in Objects /\ seen \in Objects
  BY <1>0, CountsGrow, Types
<1>1. CASE ScaleUp \/ RolloutSurge
  BY <1>1, CreateKeepsInv
<1>2. CASE ScaleDown \/ RolloutDelete
  <2>1. PICK t : deleteControlPlaneMachine(t)
    BY <1>2 DEF ScaleDown, RolloutDelete
  <2> QED
    BY <2>1, DeleteKeepsInv DEF deleteControlPlaneMachine
<1>3. ASSUME NEW m \in Machine, ReleaseHook(m) PROVE ControlPlaneInv'
  <2>1. api' \in Objects /\ seen' \in Objects
        /\ api'.live = api.live /\ api'.deleting = api.deleting
        /\ api'.nodeRef = api.nodeRef /\ api'.hooked = api.hooked \ {m}
        /\ seen'.live = seen.live /\ seen'.deleting = seen.deleting
        /\ seen'.nodeRef = seen.nodeRef /\ m \in seen.deleting
    BY <1>3, <1>T DEF ReleaseHook, Objects
  <2>2. UNCHANGED <<spec, made, report, kubeconfigReady, stage, voters>>
    BY <1>3 DEF ReleaseHook
  <2>3. TypeOK'
    BY <1>0, <1>T, <2>1, <2>2 DEF TypeOK, spec, made
  <2>4. ObjectsInv' /\ CacheInv'
    BY <1>0, <1>T, <2>1, <2>2 DEF ObjectsInv, CacheInv, made
  <2>5. HookInv' /\ VoterInv'
    BY <1>0, <1>T, <2>1, <2>2 DEF HookInv, VoterInv, made
  <2>6. TurnInv'
    BY <1>0, <1>T, <2>1, <2>2 DEF TurnInv, made
  <2> QED
    BY <2>3, <2>4, <2>5, <2>6 DEF ControlPlaneInv
<1>4. CASE CacheSync
  <2>1. seen' = api /\ UNCHANGED <<spec, made, api, report, kubeconfigReady, stage,
                                   voters, spent>>
    BY <1>4 DEF CacheSync
  <2>2. TypeOK'
    BY <1>0, <2>1 DEF TypeOK, spec, made
  <2>3. ObjectsInv' /\ CacheInv' /\ VoterInv'
    BY <1>0, <2>1 DEF ObjectsInv, CacheInv, VoterInv, made
  <2>4. HookInv'
    BY <1>0, <2>1 DEF HookInv, CacheInv, made
  <2>5. TurnInv'
    BY <1>0, <1>T, <2>1 DEF TurnInv, CacheInv, ObjectsInv, made
  <2> QED
    BY <2>2, <2>3, <2>4, <2>5 DEF ControlPlaneInv
<1>5. CASE EditReplicas \/ EditVersion
  <2>1. TypeOK'
    BY <1>0, <1>5, <1>T DEF EditReplicas, EditVersion, TypeOK, made
  <2> QED
    BY <1>5, <2>1, OtherKeepsInv DEF EditReplicas, EditVersion
<1>6. CASE KubeconfigReady
  <2>1. TypeOK'
    BY <1>0, <1>6 DEF KubeconfigReady, TypeOK, spec, made
  <2> QED
    BY <1>6, <2>1, OtherKeepsInv DEF KubeconfigReady
<1>7. ASSUME NEW m \in Machine, OperatorDeletes(m) PROVE ControlPlaneInv'
  BY <1>7, DeleteKeepsInv DEF OperatorDeletes
<1>8. ASSUME NEW m \in Machine, Terminated(m) PROVE ControlPlaneInv'
  <2>1. /\ api' \in Objects /\ api'.live = api.live \ {m}
        /\ api'.deleting = api.deleting \ {m} /\ api'.hooked = api.hooked
        /\ api'.nodeRef = api.nodeRef \ {m}
        /\ m \notin api.hooked /\ m \in api.live
    BY <1>8, <1>T DEF Terminated, Objects
  <2>2. /\ UNCHANGED <<spec, made, seen, report, kubeconfigReady, voters, spent>>
        /\ stage' = [stage EXCEPT ![m] = "off"]
    BY <1>8 DEF Terminated
  <2>3. /\ stage' \in [Machine -> Stage] /\ stage'[m] = "off"
        /\ \A n \in Machine \ {m} : stage'[n] = stage[n]
    BY <1>0, <2>2, Types DEF Stage
  <2>4. TypeOK'
    BY <1>0, <2>1, <2>2, <2>3 DEF TypeOK, spec, made
  <2>5. ObjectsInv' /\ CacheInv'
    BY <1>0, <2>1, <2>2 DEF ObjectsInv, CacheInv, made
  <2>6. HookInv'
    BY <1>0, <2>1, <2>2 DEF HookInv, made
  <2>7. VoterInv'
    BY <1>0, <2>1, <2>2, <2>3, Types DEF VoterInv, made
  <2>8. TurnInv'
    <3> SUFFICES ASSUME Calm' PROVE TurnInv'
      BY DEF TurnInv
    <3>1. \A n \in Machine : stage'[n] \in {"added", "serving"} => n \in voters'
      BY <1>0, <1>T, <2>2, <2>3 DEF TurnInv
    <3>2. \A n \in api'.nodeRef : \/ stage'[n] = "serving"
                                  \/ stage'[n] = "left" /\ n \in seen'.deleting
      BY <1>0, <1>T, <2>1, <2>2, <2>3 DEF TurnInv, Objects
    <3>3. \A n \in api'.live \ api'.nodeRef : role'[n] = "join"
      BY <1>0, <1>T, <2>1, <2>2 DEF TurnInv, made
    <3>4. \A n, o \in api'.live : n < o => n \in api'.nodeRef \cup seen'.deleting
      BY <1>0, <1>T, <2>1, <2>2 DEF TurnInv
    <3> QED
      BY <3>1, <3>2, <3>3, <3>4 DEF TurnInv
  <2> QED
    BY <2>4, <2>5, <2>6, <2>7, <2>8 DEF ControlPlaneInv
<1>9. ASSUME NEW m \in Machine, NodeRegisters(m) PROVE ControlPlaneInv'
  <2>1. /\ api' \in Objects /\ api'.live = api.live
        /\ api'.deleting = api.deleting /\ api'.hooked = api.hooked
        /\ api'.nodeRef = api.nodeRef \cup {m} /\ m \in api.live
        /\ stage[m] = "serving"
    BY <1>9, <1>T DEF NodeRegisters, Objects
  <2>2. UNCHANGED <<spec, made, seen, report, kubeconfigReady, stage, voters, spent>>
    BY <1>9 DEF NodeRegisters
  <2>3. TypeOK'
    BY <1>0, <2>1, <2>2 DEF TypeOK, spec, made
  <2>4. ObjectsInv' /\ CacheInv'
    BY <1>0, <2>1, <2>2 DEF ObjectsInv, CacheInv, made
  <2>5. HookInv' /\ VoterInv'
    BY <1>0, <2>1, <2>2 DEF HookInv, VoterInv, made
  <2>6. TurnInv'
    BY <1>0, <1>T, <2>1, <2>2 DEF TurnInv, made
  <2> QED
    BY <2>3, <2>4, <2>5, <2>6 DEF ControlPlaneInv
<1>10. ASSUME NEW m \in Machine,
              \/ NodeFounds(m) \/ NodeAdds(m) \/ NodeStarts(m) \/ MemberLeaves(m)
              \/ NodeFails(m)
       PROVE  ControlPlaneInv'
  BY <1>10, NodeKeepsInv
<1>11. ASSUME NEW m \in Machine, NodeReports(m) PROVE ControlPlaneInv'
  <2>1. TypeOK'
    BY <1>0, <1>11, <1>T DEF NodeReports, TypeOK, spec, made
  <2> QED
    BY <1>11, <2>1, OtherKeepsInv DEF NodeReports
<1>12. CASE UNCHANGED vars
  <2>1. TypeOK'
    BY <1>0, <1>12 DEF TypeOK, vars, spec, made
  <2> QED
    BY <1>12, <2>1, OtherKeepsInv DEF vars
<1> QED
  BY <1>1, <1>2, <1>3, <1>4, <1>5, <1>6, <1>7, <1>8, <1>9, <1>10, <1>11, <1>12
     DEF Next, Reconcile, World, Node

\* The controller's cache shows no deletion or Node that is not there, and misses
\* no Machine while waitForMachineInCache has not given up; a hook keeps a Machine
\* until the cache shows its deletion; Machines have joined before others follow.
THEOREM CacheMissesNothing == Spec => []ControlPlaneInv
<1>1. Init => ControlPlaneInv
  BY InitControlPlaneInv
<1>2. ControlPlaneInv /\ [Next]_vars => ControlPlaneInv'
  BY NextControlPlaneInv
<1> QED
  BY <1>1, <1>2, PTL DEF Spec

\* What a step may do to the Machines: create one with a fresh number, or let
\* the ones that exist keep their role, their report and, while they exist,
\* their deletion mark and their Node.
Evolves ==
  /\ role' = role
  /\ api'.live \subseteq api.live
  /\ api.deleting \cap api'.live \subseteq api'.deleting
  /\ api.nodeRef \cap api'.live \subseteq api'.nodeRef
  /\ \A m \in Machine : report[m] = "ok" => report'[m] = "ok"

LEMMA StepKind ==
  ASSUME ControlPlaneInv, [Next]_vars
  PROVE  ScaleUp \/ RolloutSurge \/ Evolves
<1>0. api \in Objects /\ report \in [Machine -> {"none", "ok", "bad"}]
  BY Types DEF ControlPlaneInv
<1>1. CASE ScaleDown \/ RolloutDelete
  <2>1. PICK t : deleteControlPlaneMachine(t)
    BY <1>1 DEF ScaleDown, RolloutDelete
  <2> QED
    BY <2>1, <1>0 DEF deleteControlPlaneMachine, Evolves, Objects, made
<1>2. ASSUME NEW m \in Machine, ReleaseHook(m) PROVE Evolves
  BY <1>0, <1>2 DEF ReleaseHook, Evolves, Objects, made
<1>3. CASE CacheSync \/ EditReplicas \/ EditVersion \/ KubeconfigReady
  BY <1>3 DEF CacheSync, EditReplicas, EditVersion, KubeconfigReady, Evolves, made
<1>4. ASSUME NEW m \in Machine, OperatorDeletes(m) PROVE Evolves
  BY <1>0, <1>4 DEF OperatorDeletes, Evolves, Objects, made
<1>5. ASSUME NEW m \in Machine, Terminated(m) PROVE Evolves
  BY <1>0, <1>5 DEF Terminated, Evolves, Objects, made
<1>6. ASSUME NEW m \in Machine, NodeRegisters(m) PROVE Evolves
  BY <1>0, <1>6 DEF NodeRegisters, Evolves, Objects, made
<1>7. ASSUME NEW m \in Machine, NodeReports(m) PROVE Evolves
  BY <1>0, <1>7 DEF NodeReports, Evolves, made
<1>8. ASSUME NEW m \in Machine,
             NodeFounds(m) \/ NodeAdds(m) \/ NodeStarts(m) \/ MemberLeaves(m)
             \/ NodeFails(m)
      PROVE  Evolves
  BY <1>8 DEF NodeFounds, NodeAdds, NodeStarts, MemberLeaves, NodeFails, Evolves, made
<1>9. CASE UNCHANGED vars
  BY <1>9 DEF vars, Evolves, made
<1> QED
  BY <1>1, <1>2, <1>3, <1>4, <1>5, <1>6, <1>7, <1>8, <1>9
     DEF Next, Reconcile, World, Node

\* A joiner is created only when every Machine that is not being deleted has
\* joined: what initMachineJoinable saw in the cache is still true.
LEMMA JoinerIsAlone ==
  ASSUME ControlPlaneInv, NoLag, ScaleUp \/ RolloutSurge,
         controlPlaneRoleForNewMachine = "join", NEW n \in api.live \ api.deleting
  PROVE  ~Joining(n)
<1>1. n \notin seen.deleting
  BY DEF ControlPlaneInv, CacheInv
<1> QED
  BY <1>1, JoinerFollows DEF Joining

ReliableInv == ControlPlaneInv /\ NoLag

\* No second init or single Machine ever exists beside the first, so no second
\* cluster is started.
THEOREM FounderIsUnique ==
  ASSUME CacheReliable
  PROVE  Spec => []OneFounder
<1>1. Init => ReliableInv /\ OneFounder
  <2> SUFFICES ASSUME NEW n \in Established, InitWith(n) PROVE OneFounder
    BY InitControlPlaneInv DEF Init, ReliableInv
  <2>1. \A m \in api.live : m \in 1..n /\ m \in Machine
    BY ControlPlaneAssumption DEF InitWith, Machine
  <2>2. \A m \in api.live : role[m] # "join" => m = 1
    BY <2>1, ControlPlaneAssumption DEF InitWith, Machine
  <2> QED
    BY <2>2 DEF OneFounder
<1>2. ReliableInv /\ OneFounder /\ [Next]_vars => (ReliableInv /\ OneFounder)'
  <2> SUFFICES ASSUME ReliableInv, OneFounder, [Next]_vars PROVE OneFounder'
    BY NextControlPlaneInv, ReliableCache DEF ReliableInv, ControlPlaneInv
  <2>0. api.live \subseteq Machine
    BY Types DEF ReliableInv, ControlPlaneInv, Objects
  <2>1. CASE Evolves
    BY <2>1 DEF Evolves, OneFounder
  <2>2. CASE ScaleUp \/ RolloutSurge
    <3>1. createControlPlaneMachine
      BY <2>2 DEF ScaleUp, RolloutSurge
    <3>2. PICK m \in Machine :
          /\ api'.live = api.live \cup {m} /\ m \notin api.live
          /\ role'[m] = controlPlaneRoleForNewMachine
          /\ \A n \in api.live : role'[n] = role[n]
      BY <2>0, <3>1, CreateAdds DEF ReliableInv
    <3>3. CASE controlPlaneRoleForNewMachine = "join"
      BY <3>2, <3>3 DEF OneFounder
    <3>4. CASE controlPlaneRoleForNewMachine # "join"
      <4>1. api.live = {}
        BY <2>2, <3>4, FounderIsFirst DEF ReliableInv
      <4> QED
        BY <4>1, <3>2 DEF OneFounder
    <3> QED
      BY <3>3, <3>4
  <2> QED
    BY <2>1, <2>2, StepKind DEF ReliableInv
<1> QED
  BY <1>1, <1>2, PTL DEF Spec

\* Never two joiners at once, whatever the cache has not seen yet.
THEOREM JoinersComeInTurn ==
  ASSUME CacheReliable
  PROVE  Spec => []OneJoinerAtATime
<1>1. Init => ReliableInv /\ OneJoinerAtATime
  <2> SUFFICES ASSUME NEW n \in Established, InitWith(n) PROVE OneJoinerAtATime
    BY InitControlPlaneInv DEF Init, ReliableInv
  <2>1. \A m \in api.live : m \in 1..n /\ m \in Machine
    BY ControlPlaneAssumption DEF InitWith, Machine
  <2>2. \A m \in api.live : ~Joining(m)
    BY <2>1, ControlPlaneAssumption DEF InitWith, Machine, Joining
  <2> QED
    BY <2>2 DEF OneJoinerAtATime
<1>2. ReliableInv /\ OneJoinerAtATime /\ [Next]_vars => (ReliableInv /\ OneJoinerAtATime)'
  <2> SUFFICES ASSUME ReliableInv, OneJoinerAtATime, [Next]_vars PROVE OneJoinerAtATime'
    BY NextControlPlaneInv, ReliableCache DEF ReliableInv, ControlPlaneInv
  <2>0. api.live \subseteq Machine
    BY Types DEF ReliableInv, ControlPlaneInv, Objects
  <2>1. CASE Evolves
    <3>1. \A m \in api'.live \ api'.deleting :
             m \in api.live \ api.deleting /\ (Joining(m)' => Joining(m))
      BY <2>0, <2>1 DEF Evolves, Joining
    <3> QED
      BY <3>1 DEF OneJoinerAtATime
  <2>2. CASE ScaleUp \/ RolloutSurge
    <3>1. createControlPlaneMachine
      BY <2>2 DEF ScaleUp, RolloutSurge
    <3>2. PICK m \in Machine :
          /\ api'.live = api.live \cup {m} /\ api'.deleting = api.deleting
          /\ api'.nodeRef = api.nodeRef /\ report' = report
          /\ role'[m] = controlPlaneRoleForNewMachine
          /\ \A n \in api.live : role'[n] = role[n]
      BY <2>0, <3>1, CreateAdds DEF ReliableInv
    <3>3. \A n \in api.live \ api.deleting : Joining(n)' => Joining(n)
      BY <3>2 DEF Joining
    <3>4. CASE controlPlaneRoleForNewMachine = "join"
      <4>1. \A n \in api.live \ api.deleting : ~Joining(n)
        BY <2>2, <3>4, JoinerIsAlone DEF ReliableInv
      <4> QED
        BY <4>1, <3>2, <3>3 DEF OneJoinerAtATime
    <3>5. CASE controlPlaneRoleForNewMachine # "join"
      <4>1. ~Joining(m)'
        BY <3>2, <3>5 DEF Joining
      <4> QED
        BY <4>1, <3>2, <3>3 DEF OneJoinerAtATime
    <3> QED
      BY <3>4, <3>5
  <2> QED
    BY <2>1, <2>2, StepKind DEF ReliableInv
<1> QED
  BY <1>1, <1>2, PTL DEF Spec

-----------------------------------------------------------------------------
(* The deletes.                                                            *)

\* The greatest of a bounded set of numbers.
LEMMA MaxIsIn ==
  ASSUME NEW n \in Nat, NEW S, S \subseteq 1..n, S # {}
  PROVE  Max(S) \in S /\ \A x \in S : x <= Max(S)
<1> DEFINE R == {n - x : x \in S}
<1>1. R \subseteq Nat /\ R # {}
  <2>1. ASSUME NEW x \in S PROVE n - x \in Nat
    <3>1. x \in 1..n
      OBVIOUS
    <3> QED
      BY <3>1
  <2> QED
    BY <2>1
<1>2. PICK r \in R : \A q \in R : ~(<<q, r>> \in OpToRel(<, Nat))
  BY <1>1, NatLessThanWellFounded, WFMin, Zenon
<1>3. PICK x \in S : r = n - x
  OBVIOUS
<1>4. ASSUME NEW y \in S PROVE x >= y
  <2>1. n - y \in R /\ n - y \in Nat /\ r \in Nat
    BY <1>1
  <2>2. ~(n - y < r)
    BY <1>2, <2>1 DEF OpToRel
  <2> QED
    BY <1>3, <2>2
<1>5. \E z \in S : \A y \in S : z >= y
  BY <1>4
<1>6. Max(S) \in S /\ \A y \in S : Max(S) >= y
  BY <1>5 DEF Max
<1> QED
  BY <1>6

\* The parts of a finite set add up.
LEMMA PartsAddUp ==
  ASSUME NEW S, NEW D, IsFiniteSet(S)
  PROVE  /\ IsFiniteSet(S \ D) /\ IsFiniteSet(S \cap D)
         /\ Cardinality(S \ D) \in Nat /\ Cardinality(S \cap D) \in Nat
         /\ Cardinality(S) \in Nat
         /\ Cardinality(S) = Cardinality(S \ D) + Cardinality(S \cap D)
<1> DEFINE A == S \ D
           B == S \cap D
<1>1. IsFiniteSet(A) /\ IsFiniteSet(B)
  BY FS_Subset
<1>2. Cardinality(A) \in Nat /\ Cardinality(B) \in Nat /\ Cardinality(S) \in Nat
  BY <1>1, FS_CardinalityType
<1>3. Cardinality(A \cup B) = Cardinality(A) + Cardinality(B) - Cardinality(A \cap B)
  BY <1>1, FS_Union
<1>4. A \cup B = S /\ A \cap B = {}
  OBVIOUS
<1>5. Cardinality({}) = 0
  BY FS_EmptySet
<1> HIDE DEF A, B
<1>6. Cardinality(S) = Cardinality(A) + Cardinality(B)
  <2>1. Cardinality(A \cup B) = Cardinality(S)
    BY <1>4
  <2>2. Cardinality(A \cap B) = 0
    BY <1>4, <1>5
  <2> QED
    BY <1>2, <1>3, <2>1, <2>2
<1> QED
  BY <1>1, <1>2, <1>6 DEF A, B

\* What a set keeps without one element, and a set that holds it.
LEMMA WithoutOne ==
  ASSUME NEW S, NEW x, IsFiniteSet(S)
  PROVE  /\ IsFiniteSet(S \ {x}) /\ Cardinality(S \ {x}) \in Nat
         /\ Cardinality(S \ {x}) + 1 >= Cardinality(S) /\ Cardinality(S) \in Nat
<1>1. IsFiniteSet(S \ {x}) /\ Cardinality(S \ {x}) =
        IF x \in S THEN Cardinality(S) - 1 ELSE Cardinality(S)
  BY FS_RemoveElement
<1>2. Cardinality(S \ {x}) \in Nat /\ Cardinality(S) \in Nat
  BY <1>1, FS_CardinalityType
<1> QED
  BY <1>1, <1>2

\* The sets a delete is decided on are finite.
LEMMA FiniteMachines ==
  ASSUME ControlPlaneInv
  PROVE  IsFiniteSet(seen.live) /\ IsFiniteSet(api.live) /\ IsFiniteSet(voters)
<1>1. created \in Nat /\ seen.live \subseteq 1..created
      /\ api.live \subseteq 1..created /\ voters \subseteq 1..created
  BY Types DEF ControlPlaneInv, ObjectsInv, VoterInv
<1>2. IsFiniteSet(1..created)
  BY <1>1, FS_Interval
<1> QED
  BY <1>1, <1>2, FS_Subset

\* The KCP deletes a Machine in two ways only: it scales down, or it rolls out.
LEMMA DeleteKinds ==
  ASSUME ControlPlaneInv, [Next]_vars, NEW m \in Machine, KCPDeletes(m)
  PROVE  /\ m \in api.live \ api.deleting /\ m \notin seen.deleting
         /\ \/ ScaleDown /\ m = Max(seen.live)
            \/ RolloutDelete /\ m = Min(outdated)
<1>0. TypeOK /\ api \in Objects
  BY Types DEF ControlPlaneInv
<1>1. m \in api'.deleting \ api.deleting /\ spent' = spent
  BY DEF KCPDeletes
<1>2. CASE ScaleDown \/ RolloutDelete
  <2>1. PICK t : /\ deleteControlPlaneMachine(t)
                 /\ \/ ScaleDown /\ t = Max(seen.live)
                    \/ RolloutDelete /\ t = Min(outdated)
    BY <1>2 DEF ScaleDown, RolloutDelete
  <2>2. api'.deleting = api.deleting \cup {t} /\ t \in api.live
    BY <1>0, <2>1 DEF deleteControlPlaneMachine, Objects
  <2>3. m = t
    BY <1>1, <2>2
  <2>4. m \notin seen.deleting
    BY <1>1, <2>2, <2>3 DEF ControlPlaneInv, CacheInv
  <2> QED
    BY <1>1, <2>1, <2>2, <2>3, <2>4
<1>3. CASE ScaleUp \/ RolloutSurge
  <2>1. createControlPlaneMachine
    BY <1>3 DEF ScaleUp, RolloutSurge
  <2>2. api'.deleting = api.deleting
    BY <2>1, CreateAdds
  <2> QED
    BY <1>1, <2>2
<1>4. ASSUME NEW n \in Machine, OperatorDeletes(n) PROVE FALSE
  <2>1. spent'["delete"] = spent["delete"] + 1 /\ spent["delete"] \in Nat
    BY <1>0, <1>4, SpendCounts, Types DEF OperatorDeletes, Spends
  <2> QED
    BY <1>1, <2>1
<1>5. ASSUME NEW n \in Machine, ReleaseHook(n) \/ Terminated(n) \/ NodeRegisters(n)
      PROVE  FALSE
  <2>1. api'.deleting \subseteq api.deleting
    BY <1>0, <1>5 DEF ReleaseHook, Terminated, NodeRegisters, Objects
  <2> QED
    BY <1>1, <2>1
<1>6. CASE UNCHANGED api
  BY <1>1, <1>6
<1>7. ASSUME NEW n \in Machine,
             \/ NodeFounds(n) \/ NodeAdds(n) \/ NodeStarts(n) \/ NodeReports(n)
             \/ MemberLeaves(n) \/ NodeFails(n)
      PROVE  UNCHANGED api
  BY <1>7 DEF NodeFounds, NodeAdds, NodeStarts, NodeReports, MemberLeaves, NodeFails
<1>8. CASE CacheSync \/ EditReplicas \/ EditVersion \/ KubeconfigReady \/ UNCHANGED vars
  <2>1. UNCHANGED api
    BY <1>8 DEF CacheSync, EditReplicas, EditVersion, KubeconfigReady, vars
  <2> QED
    BY <1>6, <2>1
<1> QED
  BY <1>2, <1>3, <1>4, <1>5, <1>6, <1>7, <1>8 DEF Next, Reconcile, World, Node

\* A highly available control plane has no Machine that started as a single one,
\* so every Machine has the hook.
NoSingle == \A m \in Machine : role[m] # "single"

LEMMA InitNoSingle == ASSUME HighlyAvailable, Init PROVE NoSingle
<1>1. PICK n \in Established : InitWith(n)
  BY DEF Init
<1>2. replicas # 1
  BY <1>1 DEF InitWith, HighlyAvailable
<1> QED
  BY <1>1, <1>2 DEF InitWith, NoSingle

LEMMA NextNoSingle ==
  ASSUME HighlyAvailable, ControlPlaneInv, NoSingle, [Next]_vars
  PROVE  NoSingle'
<1>1. CASE Evolves
  BY <1>1 DEF Evolves, NoSingle
<1>2. CASE ScaleUp \/ RolloutSurge
  <2>1. createControlPlaneMachine
    BY <1>2 DEF ScaleUp, RolloutSurge
  <2>2. replicas \in {3, 5}
    BY ControlPlaneAssumption DEF HighlyAvailable, ControlPlaneInv, TypeOK
  <2>3. controlPlaneRoleForNewMachine # "single"
    BY <2>2 DEF controlPlaneRoleForNewMachine
  <2>4. \E m \in Machine : /\ role'[m] = controlPlaneRoleForNewMachine
                           /\ \A n \in Machine \ {m} : role'[n] = role[n]
    BY <2>1, CreateAdds
  <2> QED
    BY <2>3, <2>4 DEF NoSingle
<1> QED
  BY <1>1, <1>2, StepKind

\* A Machine the cache shows, and not as being deleted, exists.
LEMMA SeenExist ==
  ASSUME ControlPlaneInv, NoSingle
  PROVE  seen.live \ seen.deleting \subseteq api.live
<1>1. seen.live \subseteq 1..created /\ seen.live \subseteq Machine
  BY Types DEF ControlPlaneInv, ObjectsInv, Objects
<1> QED
  BY <1>1 DEF ControlPlaneInv, HookInv, NoSingle

\* The delete of a rollout: every Machine the cache shows exists and is a
\* registered one, and there are more of them than desired.
LEMMA RolloutAddsFirst ==
  ASSUME ControlPlaneInv, NoSingle, RolloutDelete, NEW m \in Machine,
         \A n \in api.live : ver[n] # version => n \in api.nodeRef
  PROVE  Cardinality((api.live \cap api.nodeRef) \ (api.deleting \cup {m}))
           + Cardinality(api.deleting \ seen.deleting) >= replicas
<1> DEFINE L == seen.live
           A == (api.live \cap api.nodeRef) \ (api.deleting \cup {m})
           D == api.deleting \ seen.deleting
<1>1. /\ L \cap seen.deleting = {} /\ Cardinality(L) > replicas
      /\ updated \subseteq seen.nodeRef
  BY DEF RolloutDelete, RollingOut
<1>2. L \subseteq api.live
  BY <1>1, SeenExist
<1>3. L \subseteq api.nodeRef
  <2>1. seen.nodeRef \cap api.live \subseteq api.nodeRef
    BY DEF ControlPlaneInv, CacheInv
  <2> QED
    BY <1>1, <1>2, <2>1 DEF updated, outdated
<1>4. L \ {m} \subseteq A \cup D
  BY <1>1, <1>2, <1>3
<1>5. IsFiniteSet(L) /\ IsFiniteSet(A) /\ IsFiniteSet(D) /\ IsFiniteSet(A \cup D)
  <2>1. A \subseteq api.live /\ D \subseteq api.live
    BY DEF ControlPlaneInv, ObjectsInv
  <2>2. IsFiniteSet(L) /\ IsFiniteSet(api.live)
    BY FiniteMachines
  <2>3. IsFiniteSet(A) /\ IsFiniteSet(D)
    BY <2>1, <2>2, FS_Subset
  <2> QED
    BY <2>2, <2>3, FS_Union
<1> HIDE DEF A, D, L
<1>6. Cardinality(A \cup D) <= Cardinality(A) + Cardinality(D)
  <2>1. Cardinality(A \cup D) = Cardinality(A) + Cardinality(D) - Cardinality(A \cap D)
    BY <1>5, FS_Union
  <2>2. IsFiniteSet(A \cap D)
    BY <1>5, FS_Subset
  <2>3. Cardinality(A) \in Nat /\ Cardinality(D) \in Nat /\ Cardinality(A \cap D) \in Nat
    BY <1>5, <2>2, FS_CardinalityType
  <2> QED
    BY <2>1, <2>3
<1>7. Cardinality(L \ {m}) <= Cardinality(A \cup D)
  BY <1>4, <1>5, FS_Subset
<1>8. /\ Cardinality(L \ {m}) + 1 >= Cardinality(L) /\ Cardinality(L) \in Nat
      /\ Cardinality(L \ {m}) \in Nat
  BY <1>5, WithoutOne
<1>9. Cardinality(A) \in Nat /\ Cardinality(D) \in Nat /\ Cardinality(A \cup D) \in Nat
      /\ replicas \in Nat
  BY <1>5, FS_CardinalityType, Types DEF ControlPlaneInv
<1>10. Cardinality(A) + Cardinality(D) >= replicas
  BY <1>1, <1>6, <1>7, <1>8, <1>9
<1> QED
  BY <1>10 DEF A, D

\* A Machine of an older version is only ever deleted by a rollout: a scale-down
\* waits until none is left.
LEMMA OutdatedAreRolledOut ==
  ASSUME ControlPlaneInv, [Next]_vars, NEW m \in Machine, KCPDeletes(m),
         ver[m] # version
  PROVE  RolloutDelete
<1>1. CASE ScaleDown /\ m = Max(seen.live)
  <2>1. outdated = {} /\ Cardinality(seen.live) > replicas
    BY <1>1 DEF ScaleDown
  <2>2. /\ created \in Nat /\ seen.live \subseteq 1..created /\ replicas \in Nat
    BY Types DEF ControlPlaneInv, ObjectsInv
  <2>3. seen.live # {}
    BY <2>1, <2>2, FS_EmptySet
  <2>4. m \in seen.live
    BY <1>1, <2>2, <2>3, MaxIsIn
  <2> QED
    BY <2>1, <2>4 DEF outdated
<1> QED
  BY <1>1, DeleteKinds

\* Rollouts add before they remove, however the cache lags, whatever else is
\* deleted, fails or is edited, and even when a wait for the cache gives up.
THEOREM RolloutsAddFirst ==
  ASSUME HighlyAvailable
  PROVE  Spec => AddBeforeRemove
<1> DEFINE Inv == ControlPlaneInv /\ NoSingle
           Step == \A m \in Machine : KCPDeletes(m) /\ ver[m] # version
                     /\ (\A n \in api.live : ver[n] # version => n \in api.nodeRef) =>
                     Cardinality((api.live \cap api.nodeRef) \ (api.deleting \cup {m}))
                       + Cardinality(api.deleting \ seen.deleting) >= replicas
<1>1. Init => Inv
  BY InitControlPlaneInv, InitNoSingle
<1>2. Inv /\ [Next]_vars => Inv'
  BY NextControlPlaneInv, NextNoSingle
<1>3. Inv /\ [Next]_vars => [Step]_vars
  <2> SUFFICES ASSUME Inv, [Next]_vars, NEW m \in Machine, KCPDeletes(m),
                      ver[m] # version,
                      \A n \in api.live : ver[n] # version => n \in api.nodeRef
               PROVE  Cardinality((api.live \cap api.nodeRef) \ (api.deleting \cup {m}))
                        + Cardinality(api.deleting \ seen.deleting) >= replicas
    OBVIOUS
  <2>1. RolloutDelete
    BY OutdatedAreRolledOut
  <2> QED
    BY <2>1, RolloutAddsFirst
<1> QED
  BY <1>1, <1>2, <1>3, PTL DEF Spec, AddBeforeRemove

\* In a calm control plane every Machine the cache shows, and not as being
\* deleted, is a serving member, but for the last one.
LEMMA AllButTheLastServe ==
  ASSUME ControlPlaneInv, NoSingle, Calm, NEW t \in seen.live \ seen.deleting,
         \A x \in seen.live \ seen.deleting : x <= t
  PROVE  (seen.live \ seen.deleting) \ {t} \subseteq Serving
<1> SUFFICES ASSUME NEW x \in seen.live \ seen.deleting, x # t PROVE x \in Serving
  OBVIOUS
<1>1. x \in api.live /\ t \in api.live
  BY SeenExist
<1>2. x \in Machine /\ x \in Nat /\ t \in Nat
  BY <1>1, Types DEF ControlPlaneInv, Objects, Machine
<1>3. x < t
  BY <1>2
<1>4. x \in api.nodeRef
  BY <1>1, <1>3 DEF ControlPlaneInv, TurnInv
<1>5. stage[x] = "serving"
  BY <1>4 DEF ControlPlaneInv, TurnInv
<1>6. x \in voters
  BY <1>2, <1>5 DEF ControlPlaneInv, TurnInv
<1> QED
  BY <1>5, <1>6 DEF Serving

\* Whatever is removed of the Machines that count, the rest is a majority.
LEMMA MajorityIsLeft ==
  ASSUME ControlPlaneInv, NoSingle, Calm, FewLeaving, [Next]_vars, replicas > 1,
         NEW m \in Machine, KCPDeletes(m)
  PROVE  Cardinality(Serving \ {m}) >= (replicas \div 2) + 1
<1> DEFINE T == seen.live \ seen.deleting
           P == seen.live \cap seen.deleting
<1>1. replicas \in {3, 5}
  BY Types DEF ControlPlaneInv
<1>2. /\ IsFiniteSet(seen.live) /\ IsFiniteSet(T)
      /\ Cardinality(T) \in Nat /\ Cardinality(P) \in Nat
      /\ Cardinality(seen.live) = Cardinality(T) + Cardinality(P)
  BY FiniteMachines, PartsAddUp
<1>3. IsFiniteSet(Serving \ {m})
  <2>1. Serving \ {m} \subseteq voters /\ IsFiniteSet(voters)
    BY FiniteMachines DEF Serving
  <2> QED
    BY <2>1, FS_Subset
<1>4. Cardinality(seen.live) > replicas
  BY DeleteKinds DEF ScaleDown, RolloutDelete
<1>5. /\ Max(seen.live) \in seen.live
      /\ \A x \in seen.live : x <= Max(seen.live)
  <2>1. created \in Nat /\ seen.live \subseteq 1..created
    BY Types DEF ControlPlaneInv, ObjectsInv
  <2>2. seen.live # {}
    BY <1>1, <1>4, FS_EmptySet
  <2> QED
    BY <2>1, <2>2, MaxIsIn
<1>6. m \notin seen.deleting
  BY DeleteKinds
<1>7. CASE m = Max(seen.live)
  <2>1. m \in T /\ \A x \in T : x <= m
    BY <1>5, <1>6, <1>7
  <2>2. T \ {m} \subseteq Serving \ {m}
    BY <2>1, AllButTheLastServe
  <2>3. Cardinality(T \ {m}) <= Cardinality(Serving \ {m})
    BY <1>3, <2>2, FS_Subset
  <2>4. Cardinality(T \ {m}) + 1 >= Cardinality(T) /\ Cardinality(T \ {m}) \in Nat
    BY <1>2, WithoutOne
  <2>5. Cardinality(Serving \ {m}) \in Nat
    BY <1>3, FS_CardinalityType
  <2>6. Cardinality(P) + (replicas \div 2) + 1 <= replicas
    BY DEF FewLeaving
  <2> HIDE DEF T, P
  <2> QED
    BY <1>1, <1>2, <1>4, <2>3, <2>4, <2>5, <2>6
<1>8. CASE RolloutDelete
  <2> DEFINE t == Max(seen.live)
  <2>1. seen.live = T
    BY <1>8 DEF RolloutDelete, RollingOut
  <2>2. T \ {t} \subseteq Serving
    BY <1>5, <2>1, AllButTheLastServe
  <2>3. (T \ {t}) \ {m} \subseteq Serving \ {m}
    BY <2>2
  <2>4. Cardinality((T \ {t}) \ {m}) <= Cardinality(Serving \ {m})
    BY <1>3, <2>3, FS_Subset
  <2>5. /\ IsFiniteSet(T \ {t}) /\ Cardinality(T \ {t}) \in Nat
        /\ Cardinality(T \ {t}) + 1 >= Cardinality(T)
    BY <1>2, WithoutOne
  <2>6. /\ Cardinality((T \ {t}) \ {m}) \in Nat
        /\ Cardinality((T \ {t}) \ {m}) + 1 >= Cardinality(T \ {t})
    BY <2>5, WithoutOne
  <2>7. Cardinality(Serving \ {m}) \in Nat
    BY <1>3, FS_CardinalityType
  <2>8. Cardinality(T) > replicas
    BY <1>4, <2>1
  <2> HIDE DEF T, P, t
  <2> QED
    BY <1>1, <1>2, <2>4, <2>5, <2>6, <2>7, <2>8
<1> QED
  BY <1>7, <1>8, DeleteKinds

\* Where no node has failed, no wait for the cache has given up and at most a
\* minority is already leaving, whatever the KCP deletes leaves (N/2)+1 healthy
\* members: decided on a cache that lags and on reports that are never withdrawn.
THEOREM DeletesLeaveAMajority ==
  ASSUME HighlyAvailable
  PROVE  Spec /\ [](Calm /\ FewLeaving) => DeletesKeepHealthyMajority
<1> DEFINE Inv == ControlPlaneInv /\ NoSingle
           Step == \A m \in Machine : KCPDeletes(m) /\ replicas > 1 =>
                     Cardinality(Serving \ {m}) >= (replicas \div 2) + 1
<1>1. Init => Inv
  BY InitControlPlaneInv, InitNoSingle
<1>2. Inv /\ [Next]_vars => Inv'
  BY NextControlPlaneInv, NextNoSingle
<1>3. Inv /\ Calm /\ FewLeaving /\ [Next]_vars => [Step]_vars
  BY MajorityIsLeft
<1> QED
  BY <1>1, <1>2, <1>3, PTL DEF Spec, DeletesKeepHealthyMajority

\* As long as no node has failed and the members that outlived their Machine are
\* a minority, etcd is without quorum only while a joiner that was added starts.
THEOREM QuorumSurvives ==
  Spec => [](spent["fail"] = 0 /\ FewOrphans => QuorumOnlyLostToAJoin)
<1>1. ControlPlaneInv => (spent["fail"] = 0 /\ FewOrphans => QuorumOnlyLostToAJoin)
  <2> SUFFICES ASSUME ControlPlaneInv, spent["fail"] = 0, FewOrphans,
                      \A m \in voters \cap api.live : stage[m] # "added"
               PROVE  HasQuorum
    BY DEF QuorumOnlyLostToAJoin
  <2>1. voters \cap api.live \subseteq Serving
    BY DEF ControlPlaneInv, VoterInv, Serving
  <2>2. Serving \subseteq voters /\ IsFiniteSet(voters)
    BY FiniteMachines DEF Serving
  <2>3. IsFiniteSet(Serving)
    BY <2>2, FS_Subset
  <2>4. Cardinality(voters \cap api.live) <= Cardinality(Serving)
    BY <2>1, <2>3, FS_Subset
  <2>5. IsFiniteSet(voters \cap api.live)
    BY <2>2, FS_Subset
  <2>6. Cardinality(voters \cap api.live) \in Nat /\ Cardinality(Serving) \in Nat
        /\ Cardinality(voters) \in Nat
    BY <2>2, <2>3, <2>5, FS_CardinalityType
  <2> QED
    BY <2>4, <2>6 DEF FewOrphans, HasQuorum
<1> QED
  BY <1>1, CacheMissesNothing, PTL
=============================================================================
