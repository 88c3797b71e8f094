----------------------- MODULE OrphanMembers_proofs -----------------------
(***************************************************************************)
(* OrphanInv and RemovalsAreSafe hold for any set of Machines, whichever   *)
(* of them exist, drift or belong to others, and any order of stops,       *)
(* failures, edits and reports.                                            *)
(***************************************************************************)
EXTENDS OrphanMembers, FiniteSetTheorems, WellFoundedInduction, TLAPS

-----------------------------------------------------------------------------
(* Facts about the operators                                               *)

\* The smallest number of a set of numbers is one of them.
LEMMA MinIsIn == ASSUME NEW S, S \subseteq Nat, S # {} PROVE Min(S) \in S
<1>1. \E x \in S : \A y \in S : ~(<<y, x>> \in OpToRel(<, Nat))
  BY NatLessThanWellFounded, WFMin, Zenon
<1>2. \E x \in S : \A y \in S : x =< y
  <2>1. PICK x \in S : \A y \in S : ~(<<y, x>> \in OpToRel(<, Nat)) BY <1>1
  <2>2. ASSUME NEW y \in S PROVE x =< y
    <3>1. x \in Nat /\ y \in Nat OBVIOUS
    <3>2. ~(y < x) BY <2>1, <3>1 DEF OpToRel
    <3> QED BY <3>1, <3>2
  <2> QED BY <2>2
<1> QED BY <1>2 DEF Min

\* The greatest of the replica counts is one of them.
LEMMA MaxReplicas == Max(Replicas) \in Replicas
BY OrphanAssumption DEF Max

\* The greater of two numbers is one of them.
LEMMA MaxOfTwo == ASSUME NEW a \in Nat, NEW b \in Nat PROVE Max({a, b}) \in {a, b} /\ Max({a,
    b}) >= a
<1>1. \E x \in {a, b} : \A y \in {a, b} : x >= y OBVIOUS
<1> QED BY <1>1 DEF Max

\* Numbers of Machines.
LEMMA SomeMachines ==
  ASSUME NEW S \in SUBSET Machines
  PROVE  IsFiniteSet(S) /\ Cardinality(S) \in Nat
BY OrphanAssumption, FS_Subset, FS_CardinalityType

\* No Machine has the number that stands for none.
LEMMA MachineFacts == Machines \subseteq Nat /\ 0 \notin Machines /\ None.m = 0 /\ None.id = 0
BY OrphanAssumption DEF None

\* A removal that is not blocked leaves the members reported healthy a majority of
\* those that stay.
LEMMA UnblockedIsSafe ==
  ASSUME TypeOK, NEW m \in Machines, ~orphanRemovalBlocked(m), ~expected(m),
         obj[m] = "joined", NEW P, P = InEtcd \ {m}
  PROVE  ReportedQuorum(P)
<1> DEFINE h == healthyVotingMembers(m)
<1>1. m \in InEtcd /\ InEtcd \subseteq Machines BY DEF InEtcd
<1>2. h \subseteq P \cap Counted /\ P \cap Counted \subseteq Machines
  BY <1>1 DEF healthyVotingMembers, Counted
<1>3. Cardinality(P) = Cardinality(InEtcd) - 1
  BY <1>1, SomeMachines, FS_RemoveElement
<1>4. /\ Cardinality(InEtcd) \in Nat /\ Cardinality(P) \in Nat
      /\ IsFiniteSet(P \cap Counted) /\ Cardinality(P \cap Counted) \in Nat /\ Cardinality(h) \in Nat
  BY <1>1, <1>2, SomeMachines
<1>5. Cardinality(h) <= Cardinality(P \cap Counted) BY <1>2, <1>4, FS_Subset
<1>6. desired \in Nat BY OrphanAssumption DEF TypeOK
<1>7. Majority(Cardinality(P)) \in Nat /\ Majority(desired) \in Nat BY <1>4, <1>6 DEF Majority
<1>8. Max({Majority(Cardinality(InEtcd) - 1), Majority(desired)}) >= Majority(Cardinality(P))
  BY <1>3, <1>7, MaxOfTwo
<1>9. Max({Majority(Cardinality(InEtcd) - 1), Majority(desired)}) \in Nat
  BY <1>3, <1>7, MaxOfTwo
<1>10. Cardinality(h) >= Max({Majority(Cardinality(InEtcd) - 1), Majority(desired)})
  BY <1>4, <1>9 DEF orphanRemovalBlocked
<1> QED BY <1>4, <1>5, <1>7, <1>8, <1>9, <1>10 DEF ReportedQuorum

\* It is of a member that no Machine runs, drifted names or not.
LEMMA UnblockedHasNoMachine ==
  ASSUME NEW m \in Machines, ~orphanRemovalBlocked(m), ~expected(m)
  PROVE  ~Exists(m)
BY DEF orphanRemovalBlocked, unmatchedMachines, expected

-----------------------------------------------------------------------------
(* Every step keeps the invariant                                          *)

\* JudgedInv stays when no new removal is judged, etcd's membership stands and every
\* member that was counted still is.
LEMMA JudgedStays ==
  ASSUME JudgedInv, judged' \subseteq judged, InEtcd' = InEtcd,
         Counted \subseteq Counted', Counted' \subseteq Machines
  PROVE  JudgedInv'
<1>1. ASSUME NEW P \in SUBSET Machines, ReportedQuorum(P)
      PROVE  Cardinality(P \cap Counted') >= Majority(Cardinality(P))
  <2>1. P \cap Counted \subseteq P \cap Counted' /\ P \cap Counted' \subseteq Machines OBVIOUS
  <2>2. /\ IsFiniteSet(P \cap Counted') /\ Cardinality(P \cap Counted') \in Nat
        /\ Cardinality(P \cap Counted) \in Nat /\ Cardinality(P) \in Nat
    BY <2>1, SomeMachines
  <2>3. Cardinality(P \cap Counted) <= Cardinality(P \cap Counted') BY <2>1, <2>2, FS_Subset
  <2>4. Majority(Cardinality(P)) \in Nat BY <2>2 DEF Majority
  <2> QED BY <1>1, <2>2, <2>3, <2>4 DEF ReportedQuorum
<1>2. ASSUME NEW m \in judged', m \in InEtcd
      PROVE  Cardinality((InEtcd \ {m}) \cap Counted') >= Majority(Cardinality(InEtcd \ {m}))
  <2>1. InEtcd \ {m} \in SUBSET Machines BY DEF InEtcd
  <2>2. ReportedQuorum(InEtcd \ {m}) BY <1>2 DEF JudgedInv
  <2> QED BY <1>1, <2>1, <2>2
<1> QED BY <1>2 DEF JudgedInv, ReportedQuorum

\* It stays, too, when the one more removal that is judged is safe.
LEMMA JudgedGrows ==
  ASSUME JudgedInv, NEW o, judged' = judged \cup {o}, ReportedQuorum(InEtcd \ {o}),
         Counted' = Counted, InEtcd' = InEtcd
  PROVE  JudgedInv'
BY DEF JudgedInv, ReportedQuorum

\* The counters stay in their bounds.
LEMMA StopTypes == ASSUME stops \in 0..MaxStops, Stop PROVE stops' \in 0..MaxStops
BY OrphanAssumption DEF Stop

\* ... and so does the count of the outside events.
LEMMA EventTypes == ASSUME events \in 0..MaxEvents, Event PROVE events' \in 0..MaxEvents
BY OrphanAssumption DEF Event

\* Nothing is judged.
LEMMA JudgedEmptied == ASSUME judged' = {} PROVE JudgedInv'
BY DEF JudgedInv

\* CheckMembers keeps the invariant.
LEMMA CheckMembersInv == ASSUME OrphanInv, CheckMembers PROVE OrphanInv'
<1> USE MachineFacts, OrphanAssumption DEF OrphanInv, CheckMembers, Goto, Judged, member, nodes,
    kcp, pass, fixed, count
<1>0. CASE orphans # {} /\ ~orphanRemovalBlocked(Min(orphans))
  <2> DEFINE o == Min(orphans)
  <2>0. orphans \subseteq Machines BY DEF orphans
  <2>1. o \in orphans BY <1>0, <2>0, MinIsIn
  <2>2. o \in Machines /\ obj[o] = "joined" /\ ~expected(o) BY <2>1 DEF orphans
  <2>3. ~Exists(o) BY <1>0, <2>2, UnblockedHasNoMachine
  <2>4. pc' = "record" /\ tgt' = o /\ fresh' = TRUE /\ new' = {} BY <1>0
  <2>5. judged' = judged \cup {o} BY <1>0
  <2>6. UNCHANGED <<mach, fixed, member, nodes, desired, rolling, rec, capped, given,
      count>> OBVIOUS
  <2> HIDE DEF o, CheckMembers
  <2>7. TypeOK' BY <2>2, <2>4, <2>5, <2>6 DEF TypeOK, None, CheckMembers
  <2>8. OutstandingIsRecorded' BY <2>6 DEF OutstandingIsRecorded
  <2>9. PassInv' BY <2>2, <2>3, <2>4, <2>6 DEF PassInv, MemberInv, TypeOK, Exists, CheckMembers
  <2>10. MemberInv' BY <2>6 DEF MemberInv
  <2>11. JudgedInv'
    <3>1. Counted' = Counted /\ InEtcd' = InEtcd BY <2>6 DEF InEtcd, Counted, Registered
    <3>2. ReportedQuorum(InEtcd \ {o}) BY <1>0, <2>2, UnblockedIsSafe DEF o
    <3> QED BY <2>5, <3>1, <3>2, JudgedGrows
  <2> QED BY <2>7, <2>8, <2>9, <2>10, <2>11
<1>00. CASE ~(orphans # {} /\ ~orphanRemovalBlocked(Min(orphans)))
  <2>1. UNCHANGED <<mach, fixed, member, nodes, desired, rolling, rec, capped, given, count,
      pass, new, judged>>
        /\ checked' = TRUE
    BY <1>00
  <2> HIDE DEF CheckMembers
  <2>2. TypeOK' BY <2>1 DEF TypeOK, None
  <2>3. OutstandingIsRecorded' /\ PassInv' /\ MemberInv'
    BY <2>1 DEF OutstandingIsRecorded, PassInv, MemberInv, Exists
  <2>4. JudgedInv' BY <2>1, JudgedStays DEF InEtcd, TypeOK, Counted, Registered
  <2> QED BY <2>2, <2>3, <2>4
<1> QED BY <1>0, <1>00

\* RecordRemoval keeps the invariant.
LEMMA RecordRemovalInv == ASSUME OrphanInv, RecordRemoval PROVE OrphanInv'
<1> USE MachineFacts, OrphanAssumption DEF OrphanInv, RecordRemoval, Continue, member, nodes,
    kcp, pass, fixed, count
<1>1. TypeOK'
  <2>1. tgt \in Machines BY DEF TypeOK, PassInv, None
  <2>2. id[tgt] \in 1..MaxID BY <2>1 DEF TypeOK, PassInv
  <2> QED BY <2>1, <2>2 DEF TypeOK, None
<1>2. OutstandingIsRecorded' BY DEF TypeOK, OutstandingIsRecorded, PassInv, MemberInv, None
<1>3. PassInv' BY DEF TypeOK, OutstandingIsRecorded, PassInv, MemberInv, None, Exists
<1>4. MemberInv' BY DEF TypeOK, PassInv, MemberInv
<1>5. JudgedInv' BY JudgedStays, JudgedEmptied DEF InEtcd, TypeOK, Counted, Registered
<1> QED BY <1>1, <1>2, <1>3, <1>4, <1>5

\* AskLeave keeps the invariant.
LEMMA AskLeaveInv == ASSUME OrphanInv, AskLeave PROVE OrphanInv'
<1> USE MachineFacts, OrphanAssumption DEF OrphanInv, AskLeave, AfterAsk, Continue, Idle, member,
    nodes, kcp, pass, fixed, count
<1>1. TypeOK'
  <2>1. tgt \in Machines BY DEF TypeOK, PassInv, None
  <2> QED BY <2>1 DEF TypeOK, None
<1>2. OutstandingIsRecorded' BY DEF TypeOK, OutstandingIsRecorded, PassInv, MemberInv, None
<1>3. PassInv' BY DEF TypeOK, OutstandingIsRecorded, PassInv, MemberInv, None, Exists
<1>4. MemberInv' BY DEF TypeOK, PassInv, MemberInv
<1>5. JudgedInv' BY JudgedStays, JudgedEmptied DEF InEtcd, TypeOK, Counted, Registered
<1> QED BY <1>1, <1>2, <1>3, <1>4, <1>5

\* LeaveConflict keeps the invariant.
LEMMA LeaveConflictInv == ASSUME OrphanInv, LeaveConflict PROVE OrphanInv'
<1> USE MachineFacts, OrphanAssumption DEF OrphanInv, LeaveConflict, AfterAsk, Continue, Idle,
    member, nodes, kcp, pass, fixed, count
<1>1. TypeOK' BY DEF TypeOK, None
<1>2. OutstandingIsRecorded' BY DEF TypeOK, OutstandingIsRecorded, PassInv, MemberInv, None
<1>3. PassInv' BY DEF TypeOK, OutstandingIsRecorded, PassInv, MemberInv, None, Exists
<1>4. MemberInv' BY DEF TypeOK, PassInv, MemberInv
<1>5. JudgedInv' BY JudgedStays, JudgedEmptied DEF InEtcd, TypeOK, Counted, Registered
<1> QED BY <1>1, <1>2, <1>3, <1>4, <1>5

\* FollowUnanswered keeps the invariant.
LEMMA FollowUnansweredInv == ASSUME OrphanInv, FollowUnanswered PROVE OrphanInv'
<1> USE MachineFacts, OrphanAssumption DEF OrphanInv, FollowUnanswered, Following, Goto, member,
    nodes, kcp, pass, fixed, count
<1>1. TypeOK' BY DEF TypeOK, None
<1>2. OutstandingIsRecorded' BY DEF TypeOK, OutstandingIsRecorded, PassInv, MemberInv, None
<1>3. PassInv' BY DEF TypeOK, OutstandingIsRecorded, PassInv, MemberInv, None, Exists
<1>4. MemberInv' BY DEF TypeOK, PassInv, MemberInv
<1>5. JudgedInv' BY JudgedStays, JudgedEmptied DEF InEtcd, TypeOK, Counted, Registered
<1> QED BY <1>1, <1>2, <1>3, <1>4, <1>5

\* FollowOver keeps the invariant.
LEMMA FollowOverInv == ASSUME OrphanInv, FollowOver PROVE OrphanInv'
<1> USE MachineFacts, OrphanAssumption DEF OrphanInv, FollowOver, Following, Goto, member, nodes,
    kcp, pass, fixed, count
<1>1. TypeOK' BY DEF TypeOK, None
<1>2. OutstandingIsRecorded' BY DEF TypeOK, OutstandingIsRecorded, PassInv, MemberInv, None
<1>3. PassInv' BY DEF TypeOK, OutstandingIsRecorded, PassInv, MemberInv, None, Exists
<1>4. MemberInv' BY DEF TypeOK, PassInv, MemberInv
<1>5. JudgedInv' BY JudgedStays, JudgedEmptied DEF InEtcd, TypeOK, Counted, Registered
<1> QED BY <1>1, <1>2, <1>3, <1>4, <1>5

\* FollowExpected keeps the invariant.
LEMMA FollowExpectedInv == ASSUME OrphanInv, FollowExpected PROVE OrphanInv'
<1> USE MachineFacts, OrphanAssumption DEF OrphanInv, FollowExpected, Following, StillIn, Goto,
    member, nodes, kcp, pass, fixed, count
<1>1. TypeOK' BY DEF TypeOK, None
<1>2. OutstandingIsRecorded' BY DEF TypeOK, OutstandingIsRecorded, PassInv, MemberInv, None
<1>3. PassInv' BY DEF TypeOK, OutstandingIsRecorded, PassInv, MemberInv, None, Exists
<1>4. MemberInv' BY DEF TypeOK, PassInv, MemberInv
<1>5. JudgedInv' BY JudgedStays, JudgedEmptied DEF InEtcd, TypeOK, Counted, Registered
<1> QED BY <1>1, <1>2, <1>3, <1>4, <1>5

\* FollowUnasked keeps the invariant.
LEMMA FollowUnaskedInv == ASSUME OrphanInv, FollowUnasked PROVE OrphanInv'
<1> USE MachineFacts, OrphanAssumption DEF OrphanInv, FollowUnasked, Following, StillIn, Goto,
    Judged, member, nodes, kcp, pass, fixed, count
<1>0. rec.m \in Machines BY DEF TypeOK
<1>1. TypeOK'
  <2>1. judged' = judged \cup {rec.m} OBVIOUS
  <2>2. judged' \subseteq Machines
    <3>1. judged \subseteq Machines BY DEF TypeOK
    <3> HIDE DEF FollowUnasked
    <3> QED BY <1>0, <2>1, <3>1
  <2>3. /\ pc' = "ask" /\ tgt' = rec.m /\ fresh' = TRUE /\ new' = {}
        /\ UNCHANGED <<mach, fixed, member, nodes, kcp, given, count>>
    OBVIOUS
  <2> HIDE DEF FollowUnasked
  <2> QED BY <1>0, <2>2, <2>3 DEF TypeOK, None
<1>2. OutstandingIsRecorded' BY DEF TypeOK, OutstandingIsRecorded, PassInv, MemberInv, None
<1>3. PassInv'
  <2>1. ~Exists(rec.m) BY <1>0, UnblockedHasNoMachine
  <2> QED BY <2>1 DEF TypeOK, PassInv, None, Exists
<1>4. MemberInv' BY DEF TypeOK, PassInv, MemberInv
<1>5. JudgedInv'
  <2>1. Counted' = Counted /\ InEtcd' = InEtcd /\ judged' = judged \cup {rec.m}
    BY DEF InEtcd, Counted, Registered
  <2>2. ReportedQuorum(InEtcd \ {rec.m}) BY <1>0, UnblockedIsSafe
  <2> QED BY <2>1, <2>2, JudgedGrows
<1> QED BY <1>1, <1>2, <1>3, <1>4, <1>5

\* FollowCapped keeps the invariant.
LEMMA FollowCappedInv == ASSUME OrphanInv, FollowCapped PROVE OrphanInv'
<1> USE MachineFacts, OrphanAssumption DEF OrphanInv, FollowCapped, Following, StillIn, Goto,
    member, nodes, kcp, pass, fixed, count
<1>1. TypeOK' BY DEF TypeOK, None
<1>2. OutstandingIsRecorded' BY DEF TypeOK, OutstandingIsRecorded, PassInv, MemberInv, None
<1>3. PassInv' BY DEF TypeOK, OutstandingIsRecorded, PassInv, MemberInv, None, Exists
<1>4. MemberInv' BY DEF TypeOK, PassInv, MemberInv
<1>5. JudgedInv' BY JudgedStays, JudgedEmptied DEF InEtcd, TypeOK, Counted, Registered
<1> QED BY <1>1, <1>2, <1>3, <1>4, <1>5

\* TakeBack keeps the invariant.
LEMMA TakeBackInv == ASSUME OrphanInv, TakeBack PROVE OrphanInv'
<1> USE MachineFacts, OrphanAssumption DEF OrphanInv, TakeBack, Continue, member, nodes, kcp,
    pass, fixed, count
<1>1. TypeOK' BY DEF TypeOK, None
<1>2. OutstandingIsRecorded' BY DEF TypeOK, OutstandingIsRecorded, PassInv, MemberInv, None
<1>3. PassInv' BY DEF TypeOK, OutstandingIsRecorded, PassInv, MemberInv, None, Exists
<1>4. MemberInv' BY DEF TypeOK, PassInv, MemberInv
<1>5. JudgedInv' BY JudgedStays, JudgedEmptied DEF InEtcd, TypeOK, Counted, Registered
<1> QED BY <1>1, <1>2, <1>3, <1>4, <1>5

\* Finish keeps the invariant.
LEMMA FinishInv == ASSUME OrphanInv, Finish PROVE OrphanInv'
<1> USE MachineFacts, OrphanAssumption DEF OrphanInv, Finish, Idle, member, nodes, kcp, pass,
    fixed, count
<1>1. TypeOK'
  <2>1. pc \in {"finish", "giveup"} => tgt \in Machines BY DEF TypeOK, PassInv, None
  <2> QED BY <2>1 DEF TypeOK, None
<1>2. OutstandingIsRecorded' BY DEF TypeOK, OutstandingIsRecorded, PassInv, MemberInv, None
<1>3. PassInv' BY DEF TypeOK, OutstandingIsRecorded, PassInv, MemberInv, None, Exists
<1>4. MemberInv' BY DEF TypeOK, PassInv, MemberInv
<1>5. JudgedInv' BY JudgedStays, JudgedEmptied DEF InEtcd, TypeOK, Counted, Registered
<1> QED BY <1>1, <1>2, <1>3, <1>4, <1>5

\* RecordFails keeps the invariant.
LEMMA RecordFailsInv == ASSUME OrphanInv, RecordFails PROVE OrphanInv'
<1> USE MachineFacts, OrphanAssumption DEF OrphanInv, RecordFails, Stop, Idle, member, nodes,
    kcp, pass, fixed, count
<1>1. TypeOK'
  <2>1. stops' \in 0..MaxStops BY StopTypes DEF Stop, TypeOK
  <2> QED BY <2>1 DEF TypeOK, None
<1>2. OutstandingIsRecorded' BY DEF TypeOK, OutstandingIsRecorded, PassInv, MemberInv, None
<1>3. PassInv' BY DEF TypeOK, OutstandingIsRecorded, PassInv, MemberInv, None, Exists
<1>4. MemberInv' BY DEF TypeOK, PassInv, MemberInv
<1>5. JudgedInv' BY JudgedStays, JudgedEmptied DEF InEtcd, TypeOK, Counted, Registered
<1> QED BY <1>1, <1>2, <1>3, <1>4, <1>5

\* AskFails keeps the invariant.
LEMMA AskFailsInv == ASSUME OrphanInv, AskFails PROVE OrphanInv'
<1> USE MachineFacts, OrphanAssumption DEF OrphanInv, AskFails, Stop, AfterAsk, Continue, Idle,
    member, nodes, kcp, pass, fixed, count
<1>1. TypeOK'
  <2>1. stops' \in 0..MaxStops BY StopTypes DEF Stop, TypeOK
  <2> QED BY <2>1 DEF TypeOK, None
<1>2. OutstandingIsRecorded' BY DEF TypeOK, OutstandingIsRecorded, PassInv, MemberInv, None
<1>3. PassInv' BY DEF TypeOK, OutstandingIsRecorded, PassInv, MemberInv, None, Exists
<1>4. MemberInv' BY DEF TypeOK, PassInv, MemberInv
<1>5. JudgedInv' BY JudgedStays, JudgedEmptied DEF InEtcd, TypeOK, Counted, Registered
<1> QED BY <1>1, <1>2, <1>3, <1>4, <1>5

\* PassStops keeps the invariant.
LEMMA PassStopsInv == ASSUME OrphanInv, PassStops PROVE OrphanInv'
<1> USE MachineFacts, OrphanAssumption DEF OrphanInv, PassStops, Stop, Idle, member, nodes, kcp,
    pass, fixed, count
<1>1. TypeOK'
  <2>1. stops' \in 0..MaxStops BY StopTypes DEF Stop, TypeOK
  <2> QED BY <2>1 DEF TypeOK, None
<1>2. OutstandingIsRecorded' BY DEF TypeOK, OutstandingIsRecorded, PassInv, MemberInv, None
<1>3. PassInv' BY DEF TypeOK, OutstandingIsRecorded, PassInv, MemberInv, None, Exists
<1>4. MemberInv' BY DEF TypeOK, PassInv, MemberInv
<1>5. JudgedInv' BY JudgedStays, JudgedEmptied DEF InEtcd, TypeOK, Counted, Registered
<1> QED BY <1>1, <1>2, <1>3, <1>4, <1>5

\* SpecChanges keeps the invariant.
LEMMA SpecChangesInv == ASSUME OrphanInv, SpecChanges PROVE OrphanInv'
<1> USE MachineFacts, OrphanAssumption DEF OrphanInv, SpecChanges, Event, member, nodes, kcp,
    pass, fixed, count
<1>1. TypeOK'
  <2>1. events' \in 0..MaxEvents BY EventTypes DEF Event, TypeOK
  <2>2. desired' \in Replicas /\ rolling' \in BOOLEAN BY DEF TypeOK
  <2> QED BY <2>1, <2>2 DEF TypeOK, None
<1>2. OutstandingIsRecorded' BY DEF TypeOK, OutstandingIsRecorded, PassInv, MemberInv, None
<1>3. PassInv' BY DEF TypeOK, OutstandingIsRecorded, PassInv, MemberInv, None, Exists
<1>4. MemberInv' BY DEF TypeOK, PassInv, MemberInv
<1>5. JudgedInv' BY JudgedStays, JudgedEmptied DEF InEtcd, TypeOK, Counted, Registered
<1> QED BY <1>1, <1>2, <1>3, <1>4, <1>5

\* parseOrphanLeaveFails keeps the invariant.
LEMMA ParseOrphanLeaveFailsInv == ASSUME OrphanInv, parseOrphanLeaveFails PROVE OrphanInv'
<1> USE MachineFacts, OrphanAssumption DEF OrphanInv, parseOrphanLeaveFails, Event, Following,
    member, nodes, kcp, pass, fixed, count
<1>1. TypeOK'
  <2>1. events' \in 0..MaxEvents BY EventTypes DEF Event, TypeOK
  <2>2. rec.m \in Machines BY DEF TypeOK
  <2> QED BY <2>1, <2>2 DEF TypeOK, None
<1>2. OutstandingIsRecorded' BY DEF TypeOK, OutstandingIsRecorded, PassInv, MemberInv, None
<1>3. PassInv' BY DEF TypeOK, OutstandingIsRecorded, PassInv, MemberInv, None, Exists
<1>4. MemberInv' BY DEF TypeOK, PassInv, MemberInv
<1>5. JudgedInv' BY JudgedStays, JudgedEmptied DEF InEtcd, TypeOK, Counted, Registered
<1> QED BY <1>1, <1>2, <1>3, <1>4, <1>5

\* Tick keeps the invariant.
LEMMA TickInv == ASSUME OrphanInv, Tick PROVE OrphanInv'
<1> USE MachineFacts, OrphanAssumption DEF OrphanInv, Tick, member, nodes, kcp, pass, fixed, count
<1>1. TypeOK' BY DEF TypeOK, None
<1>2. OutstandingIsRecorded' BY DEF TypeOK, OutstandingIsRecorded, PassInv, MemberInv, None
<1>3. PassInv' BY DEF TypeOK, OutstandingIsRecorded, PassInv, MemberInv, None, Exists
<1>4. MemberInv' BY DEF TypeOK, PassInv, MemberInv
<1>5. JudgedInv' BY JudgedStays, JudgedEmptied DEF InEtcd, TypeOK, Counted, Registered
<1> QED BY <1>1, <1>2, <1>3, <1>4, <1>5

\* KCPDeletes keeps the invariant.
LEMMA KCPDeletesInv == ASSUME OrphanInv, NEW m \in Machines, KCPDeletes(m) PROVE OrphanInv'
<1> USE MachineFacts, OrphanAssumption DEF OrphanInv, KCPDeletes, Held, Owned, member, nodes,
    kcp, pass, fixed, count
<1>1. TypeOK' BY DEF TypeOK, None
<1>2. OutstandingIsRecorded' BY DEF TypeOK, OutstandingIsRecorded, PassInv, MemberInv, None
<1>3. PassInv' BY DEF TypeOK, OutstandingIsRecorded, PassInv, MemberInv, None, Exists
<1>4. MemberInv' BY DEF TypeOK, PassInv, MemberInv
<1>5. JudgedInv' BY JudgedStays, JudgedEmptied DEF InEtcd, TypeOK, Counted, Registered
<1> QED BY <1>1, <1>2, <1>3, <1>4, <1>5

\* KCPCreates keeps the invariant.
LEMMA KCPCreatesInv == ASSUME OrphanInv, NEW m \in Machines, KCPCreates(m) PROVE OrphanInv'
<1> USE MachineFacts, OrphanAssumption DEF OrphanInv, KCPCreates, Held, member, nodes, kcp, pass,
    fixed, count
<1>1. TypeOK' BY DEF TypeOK, None
<1>2. OutstandingIsRecorded' BY DEF TypeOK, OutstandingIsRecorded, PassInv, MemberInv, None
<1>3. PassInv' BY DEF TypeOK, OutstandingIsRecorded, PassInv, MemberInv, None, Exists
<1>4. MemberInv' BY DEF TypeOK, PassInv, MemberInv
<1>5. JudgedInv'
  <2>1. \A n \in Machines : Registered(n) => Registered(n)' BY DEF TypeOK, Registered, Exists
  <2>2. Counted \subseteq Counted' /\ Counted' \subseteq Machines
    BY <2>1 DEF TypeOK, Counted
  <2>3. InEtcd' = InEtcd /\ judged' = judged BY DEF InEtcd
  <2> QED BY <2>2, <2>3, JudgedStays
<1> QED BY <1>1, <1>2, <1>3, <1>4, <1>5

\* OthersDelete keeps the invariant.
LEMMA OthersDeleteInv == ASSUME OrphanInv, NEW m \in Machines, OthersDelete(m) PROVE OrphanInv'
<1> USE MachineFacts, OrphanAssumption DEF OrphanInv, OthersDelete, Event, member, nodes, kcp,
    pass, fixed, count
<1>1. TypeOK' BY DEF TypeOK, None
<1>2. OutstandingIsRecorded' BY DEF TypeOK, OutstandingIsRecorded, PassInv, MemberInv, None
<1>3. PassInv' BY DEF TypeOK, OutstandingIsRecorded, PassInv, MemberInv, None, Exists
<1>4. MemberInv' BY DEF TypeOK, PassInv, MemberInv
<1>5. JudgedInv' BY JudgedStays, JudgedEmptied DEF InEtcd, TypeOK, Counted, Registered
<1> QED BY <1>1, <1>2, <1>3, <1>4, <1>5

\* MachineAppears keeps the invariant.
LEMMA MachineAppearsInv == ASSUME OrphanInv, NEW m \in Machines, MachineAppears(m) PROVE OrphanInv'
<1> USE MachineFacts, OrphanAssumption DEF OrphanInv, MachineAppears, Event, member, nodes, kcp,
    pass, fixed, count
<1>1. TypeOK'
  <2>1. events' \in 0..MaxEvents BY EventTypes DEF Event, TypeOK
  <2>2. mach' = [mach EXCEPT ![m] = "new"] \/ mach' = [mach EXCEPT ![m] = "ready"] OBVIOUS
  <2>3. mach' \in [Machines -> {"none", "new", "ready", "deleting"}] BY <2>2 DEF TypeOK
  <2>4. new' \subseteq Machines BY DEF TypeOK
  <2> QED BY <2>1, <2>3, <2>4 DEF TypeOK, None
<1>2. OutstandingIsRecorded' BY DEF TypeOK, OutstandingIsRecorded, PassInv, MemberInv, None
<1>3. PassInv'
  <2>1. \A n \in Machines \ {m} : mach'[n] = mach[n] BY DEF TypeOK
  <2>2. pc # "idle" => tgt \in Machines /\ m \in new' BY DEF TypeOK, PassInv, None
  <2>3. pc # "idle" => (~Exists(tgt))' \/ tgt \in new' \/ Exists(tgt) BY <2>1, <2>2 DEF Exists
  <2> QED BY <2>2, <2>3 DEF PassInv
<1>4. MemberInv' BY DEF TypeOK, PassInv, MemberInv
<1>5. JudgedInv'
  <2>1. \A n \in Machines : Registered(n) => Registered(n)' BY DEF TypeOK, Registered, Exists
  <2>2. Counted \subseteq Counted' /\ Counted' \subseteq Machines
    BY <2>1 DEF TypeOK, Counted
  <2>3. InEtcd' = InEtcd /\ judged' = judged BY DEF InEtcd
  <2> QED BY <2>2, <2>3, JudgedStays
<1> QED BY <1>1, <1>2, <1>3, <1>4, <1>5

\* MachineGone keeps the invariant.
LEMMA MachineGoneInv == ASSUME OrphanInv, NEW m \in Machines, MachineGone(m) PROVE OrphanInv'
<1> USE MachineFacts, OrphanAssumption DEF OrphanInv, MachineGone, Stale, InEtcd, member, nodes,
    kcp, pass, fixed, count
<1>1. TypeOK'
  <2>1. mach' \in [Machines -> {"none", "new", "ready", "deleting"}] BY DEF TypeOK
  <2>2. obj' = obj \/ obj' = [obj EXCEPT ![m] = "left"] OBVIOUS
  <2>3. obj' \in [Machines -> {"absent", "noid", "joined", "left"}] BY <2>2 DEF TypeOK
  <2>4. up' \subseteq Machines /\ judged' \subseteq Machines /\ fresh' \in BOOLEAN BY DEF TypeOK
  <2> QED BY <2>1, <2>3, <2>4 DEF TypeOK, None
<1>2. OutstandingIsRecorded'
  <2>1. obj' = obj \/ obj' = [obj EXCEPT ![m] = "left"] OBVIOUS
  <2>2. \A n \in Machines : obj'[n] = "joined" => obj[n] = "joined" BY <2>1 DEF TypeOK
  <2> QED BY <2>2 DEF TypeOK, OutstandingIsRecorded
<1>3. PassInv'
  <2>1. \A n \in Machines : Exists(n)' => Exists(n) BY DEF TypeOK, Exists
  <2>2. pc # "idle" => tgt \in Machines BY DEF TypeOK, PassInv, None
  <2>3. obj' = obj \/ obj' = [obj EXCEPT ![m] = "left"] OBVIOUS
  <2>4. fresh' => fresh /\ (obj'[tgt] = obj[tgt] \/ tgt \notin Machines) BY DEF TypeOK
  <2>5. pc = "finish" => (tgt \notin leave \ given \/ obj'[tgt] # "joined")
    BY <2>2, <2>3 DEF TypeOK, PassInv
  <2> QED BY <2>1, <2>2, <2>4, <2>5 DEF PassInv, TypeOK
<1>4. MemberInv' BY DEF TypeOK, PassInv, MemberInv
<1>5. JudgedInv' BY JudgedStays, JudgedEmptied DEF InEtcd, TypeOK, Counted, Registered
<1> QED BY <1>1, <1>2, <1>3, <1>4, <1>5

\* NodeJoins keeps the invariant.
LEMMA NodeJoinsInv == ASSUME OrphanInv, NEW m \in Machines, NodeJoins(m) PROVE OrphanInv'
<1> USE MachineFacts, OrphanAssumption DEF OrphanInv, NodeJoins, Stale, InEtcd, member, nodes,
    kcp, pass, fixed, count
<1>1. TypeOK' BY DEF TypeOK, None
<1>2. OutstandingIsRecorded' BY DEF TypeOK, OutstandingIsRecorded, PassInv, MemberInv, None
<1>3. PassInv' BY DEF TypeOK, OutstandingIsRecorded, PassInv, MemberInv, None, Exists
<1>4. MemberInv' BY DEF TypeOK, PassInv, MemberInv
<1>5. JudgedInv' BY JudgedStays, JudgedEmptied DEF InEtcd, TypeOK, Counted, Registered
<1> QED BY <1>1, <1>2, <1>3, <1>4, <1>5

\* K0sReports keeps the invariant.
LEMMA K0sReportsInv == ASSUME OrphanInv, NEW m \in Machines, K0sReports(m) PROVE OrphanInv'
<1> USE MachineFacts, OrphanAssumption DEF OrphanInv, K0sReports, Stale, member, nodes, kcp,
    pass, fixed, count
<1>1. TypeOK'
  <2>1. id[m] \in Nat /\ id[m] + 1 \in 0..MaxID BY DEF TypeOK
  <2> QED BY <2>1 DEF TypeOK, None
<1>2. OutstandingIsRecorded' BY DEF TypeOK, OutstandingIsRecorded, PassInv, MemberInv, None
<1>3. PassInv' BY DEF TypeOK, OutstandingIsRecorded, PassInv, MemberInv, None, Exists
<1>4. MemberInv' BY DEF TypeOK, PassInv, MemberInv
<1>5. JudgedInv' BY JudgedStays, JudgedEmptied DEF InEtcd, TypeOK, Counted, Registered
<1> QED BY <1>1, <1>2, <1>3, <1>4, <1>5

\* Registers keeps the invariant.
LEMMA RegistersInv == ASSUME OrphanInv, NEW m \in Machines, Registers(m) PROVE OrphanInv'
<1> USE MachineFacts, OrphanAssumption DEF OrphanInv, Registers, member, nodes, kcp, pass, fixed,
    count
<1>1. TypeOK' BY DEF TypeOK, None
<1>2. OutstandingIsRecorded' BY DEF TypeOK, OutstandingIsRecorded, PassInv, MemberInv, None
<1>3. PassInv' BY DEF TypeOK, OutstandingIsRecorded, PassInv, MemberInv, None, Exists
<1>4. MemberInv' BY DEF TypeOK, PassInv, MemberInv
<1>5. JudgedInv' BY JudgedStays, JudgedEmptied DEF InEtcd, TypeOK, Counted, Registered
<1> QED BY <1>1, <1>2, <1>3, <1>4, <1>5

\* K0sRemoves keeps the invariant.
LEMMA K0sRemovesInv == ASSUME OrphanInv, NEW m \in Machines, K0sRemoves(m) PROVE OrphanInv'
<1> USE MachineFacts, OrphanAssumption DEF OrphanInv, K0sRemoves, Stale, member, nodes, kcp,
    pass, fixed, count
<1>1. TypeOK' BY DEF TypeOK, None
<1>2. OutstandingIsRecorded' BY DEF TypeOK, OutstandingIsRecorded, PassInv, MemberInv, None
<1>3. PassInv' BY DEF TypeOK, OutstandingIsRecorded, PassInv, MemberInv, None, Exists
<1>4. MemberInv' BY DEF TypeOK, PassInv, MemberInv
<1>5. JudgedInv' BY JudgedStays, JudgedEmptied DEF InEtcd, TypeOK, Counted, Registered
<1> QED BY <1>1, <1>2, <1>3, <1>4, <1>5

\* NodeFails keeps the invariant.
LEMMA NodeFailsInv == ASSUME OrphanInv, NEW m \in Machines, NodeFails(m) PROVE OrphanInv'
<1> USE MachineFacts, OrphanAssumption DEF OrphanInv, NodeFails, Event, member, nodes, kcp, pass,
    fixed, count
<1>1. TypeOK' BY DEF TypeOK, None
<1>2. OutstandingIsRecorded' BY DEF TypeOK, OutstandingIsRecorded, PassInv, MemberInv, None
<1>3. PassInv' BY DEF TypeOK, OutstandingIsRecorded, PassInv, MemberInv, None, Exists
<1>4. MemberInv' BY DEF TypeOK, PassInv, MemberInv
<1>5. JudgedInv' BY JudgedStays, JudgedEmptied DEF InEtcd, TypeOK, Counted, Registered
<1> QED BY <1>1, <1>2, <1>3, <1>4, <1>5

\* Reported keeps the invariant.
LEMMA ReportedInv == ASSUME OrphanInv, NEW m \in Machines, Reported(m) PROVE OrphanInv'
<1> USE MachineFacts, OrphanAssumption DEF OrphanInv, Reported, member, nodes, kcp, pass, fixed,
    count
<1>1. TypeOK' BY DEF TypeOK, None
<1>2. OutstandingIsRecorded' BY DEF TypeOK, OutstandingIsRecorded, PassInv, MemberInv, None
<1>3. PassInv' BY DEF TypeOK, OutstandingIsRecorded, PassInv, MemberInv, None, Exists
<1>4. MemberInv' BY DEF TypeOK, PassInv, MemberInv
<1>5. JudgedInv' BY JudgedStays DEF InEtcd, TypeOK, Counted, Registered
<1> QED BY <1>1, <1>2, <1>3, <1>4, <1>5

\* The first states, and steps of the rest of the system.
LEMMA InitInv == Init => OrphanInv
<1> SUFFICES ASSUME Init PROVE OrphanInv
  OBVIOUS
<1> USE MachineFacts, OrphanAssumption, MaxReplicas DEF Init
<1>1. TypeOK
  <2>1. PICK orphaned \in SUBSET (Machines \ (Present \cup Foreign)) :
          /\ obj = [m \in Machines |-> IF m \in Present \cup orphaned THEN "joined" ELSE "absent"]
          /\ id = [m \in Machines |-> IF m \in Present \cup orphaned THEN 1 ELSE 0]
          /\ up \in {Present, Present \cup orphaned}
    OBVIOUS
  <2>2. up \subseteq Machines /\ rep \subseteq Machines BY <2>1
  <2>3. obj \in [Machines -> {"absent", "noid", "joined", "left"}] /\ id \in [Machines -> 0..MaxID]
    BY <2>1
  <2>4. mach \in [Machines -> {"none", "new", "ready", "deleting"}] OBVIOUS
  <2>5. drift \in [Machines -> {"none", "node", "both"}] OBVIOUS
  <2>6. desired \in Replicas /\ events \in 0..MaxEvents /\ stops \in 0..MaxStops OBVIOUS
  <2>7. /\ addrs \in BOOLEAN /\ rolling \in BOOLEAN /\ capped \in BOOLEAN /\ checked \in BOOLEAN
        /\ fresh \in BOOLEAN /\ rec = None /\ pc = "idle" /\ tgt = 0
        /\ leave = {} /\ new = {} /\ judged = {} /\ given = {}
    OBVIOUS
  <2> HIDE DEF Init
  <2> QED BY <2>2, <2>3, <2>4, <2>5, <2>6, <2>7 DEF TypeOK
<1>2. OutstandingIsRecorded /\ PassInv /\ JudgedInv BY DEF OutstandingIsRecorded, PassInv, JudgedInv
<1>3. MemberInv
  <2>1. \A m \in Machines : obj[m] \in {"joined",
      "absent"} /\ (obj[m] = "joined" => id[m] = 1) OBVIOUS
  <2> QED BY <2>1 DEF MemberInv
<1> QED BY <1>1, <1>2, <1>3 DEF OrphanInv

\* A step that changes nothing keeps the invariant.
LEMMA StutterInv == ASSUME OrphanInv, UNCHANGED vars PROVE OrphanInv'
<1> USE DEF vars, member, nodes, kcp, pass, fixed
<1>1. TypeOK' /\ OutstandingIsRecorded' BY DEF OrphanInv, TypeOK, OutstandingIsRecorded, None
<1>2. PassInv' /\ MemberInv' BY DEF OrphanInv, PassInv, MemberInv, Exists, None
<1>3. JudgedInv' BY JudgedStays DEF OrphanInv, TypeOK, InEtcd, Counted, Registered
<1> QED BY <1>1, <1>2, <1>3 DEF OrphanInv

\* Any step keeps the invariant.
LEMMA NextInv == ASSUME OrphanInv, Next PROVE OrphanInv'
<1>1. CASE Pass
  BY <1>1, CheckMembersInv, RecordRemovalInv, AskLeaveInv, LeaveConflictInv, FollowUnansweredInv,
      FollowOverInv, FollowExpectedInv, FollowUnaskedInv, FollowCappedInv, TakeBackInv,
          FinishInv DEF Pass, Follow
<1>2. CASE Others
  <2>1. CASE \E m \in Machines :
               \/ KCPDeletes(m) \/ KCPCreates(m) \/ OthersDelete(m) \/ MachineAppears(m)
               \/ MachineGone(m) \/ NodeJoins(m) \/ K0sReports(m) \/ Registers(m)
               \/ K0sRemoves(m) \/ NodeFails(m) \/ Reported(m)
    BY <2>1, KCPDeletesInv, KCPCreatesInv, OthersDeleteInv, MachineAppearsInv, MachineGoneInv,
        NodeJoinsInv, K0sReportsInv, RegistersInv, K0sRemovesInv, NodeFailsInv, ReportedInv
  <2> QED
    BY <1>2, <2>1, RecordFailsInv, AskFailsInv, PassStopsInv, SpecChangesInv,
        ParseOrphanLeaveFailsInv, TickInv DEF Others
<1> QED BY <1>1, <1>2 DEF Next

\* A removal k0s has still to make is the recorded one, unless it was given up at the
\* cap or its record was damaged, for every set of Machines (followOrphanRemoval).
THEOREM OutstandingRecorded == Spec => []OrphanInv
<1>1. Init => OrphanInv BY InitInv
<1>2. OrphanInv /\ [Next]_vars => OrphanInv' BY NextInv, StutterInv
<1> QED BY <1>1, <1>2, PTL DEF Spec

-----------------------------------------------------------------------------
(* What k0s is asked for, and what it removes                              *)

\* Only one step asks k0s to remove a member.
LEMMA OnlyAskLeaveAsks == ASSUME Next PROVE leave' \subseteq leave \/ AskLeave
<1> USE DEF member
<1>1. CASE Pass
  BY <1>1 DEF Pass, Follow, CheckMembers, RecordRemoval, LeaveConflict, FollowUnanswered,
      FollowOver,
     FollowExpected, FollowUnasked, FollowCapped, TakeBack, Finish
<1>2. CASE Others
  BY <1>2 DEF Others, RecordFails, AskFails, PassStops, SpecChanges, parseOrphanLeaveFails, Tick,
     KCPDeletes, KCPCreates, OthersDelete, MachineAppears, MachineGone, NodeJoins, K0sReports,
     Registers, K0sRemoves, NodeFails, Reported
<1> QED BY <1>1, <1>2 DEF Next

\* A step asks k0s only to remove a member that no listed Machine runs, and a member
\* whose removal was judged safe leaves a majority of members reported healthy behind,
\* a quorum of running ones if none died behind its report, in every control plane
\* (unmatchedMachines, orphanRemovalBlocked).
THEOREM OnlyOrphansGo == Spec => RemovalsAreSafe
<1> DEFINE Asked == \A m \in leave' \ leave : ~Exists(m) \/ m \in new
           Left  == \A m \in judged : obj[m] = "joined" /\ obj'[m] = "left" /\ mach' = mach =>
                      /\ ReportedQuorum(InEtcd \ {m})
                      /\ (InEtcd \ {m}) \cap Counted \subseteq up => HasQuorum(InEtcd \ {m})
<1>1. ASSUME OrphanInv, Next PROVE Asked
  <2>1. CASE AskLeave BY <1>1, <2>1 DEF AskLeave, OrphanInv, PassInv
  <2> QED BY <1>1, <2>1, OnlyAskLeaveAsks
<1>2. ASSUME OrphanInv PROVE Left
  <2> SUFFICES ASSUME NEW m \in judged, obj[m] = "joined"
               PROVE  /\ ReportedQuorum(InEtcd \ {m})
                      /\ (InEtcd \ {m}) \cap Counted \subseteq up => HasQuorum(InEtcd \ {m})
    OBVIOUS
  <2> DEFINE P == InEtcd \ {m}
  <2>1. m \in Machines /\ P \in SUBSET Machines BY <1>2 DEF OrphanInv, TypeOK, InEtcd
  <2>2. ReportedQuorum(P) BY <1>2, <2>1 DEF OrphanInv, JudgedInv, InEtcd
  <2>3. ASSUME P \cap Counted \subseteq up PROVE HasQuorum(P)
    <3>1. P \cap Counted \subseteq P \cap up BY <2>3
    <3>2. /\ IsFiniteSet(P \cap up) /\ Cardinality(P \cap up) \in Nat
          /\ Cardinality(P \cap Counted) \in Nat /\ Cardinality(P) \in Nat
      BY <2>1, SomeMachines
    <3>3. Cardinality(P \cap Counted) <= Cardinality(P \cap up) BY <3>1, <3>2, FS_Subset
    <3>4. Majority(Cardinality(P)) \in Nat BY <3>2 DEF Majority
    <3> QED BY <2>2, <3>2, <3>3, <3>4 DEF ReportedQuorum, HasQuorum
  <2> QED BY <2>2, <2>3
<1>3. OrphanInv /\ [Next]_vars => [Asked /\ Left]_vars BY <1>1, <1>2
<1> QED BY <1>3, OutstandingRecorded, PTL DEF Spec, RemovalsAreSafe

=============================================================================
