---------------------------- MODULE OrphanMembers ----------------------------
(***************************************************************************)
(* Removal of etcd members no control-plane Machine accounts for           *)
(* (ha_etcd_orphans.go). The KCP records the removal on itself, asks k0s   *)
(* for it with spec.leave, and holds scale and rollout until it is over.   *)
(*                                                                         *)
(* A member is named by the Machine whose node runs it: its Machine may be *)
(* gone (an orphan), or know it by another name (drift). No member has the *)
(* Node name of another Machine. The pass works on the Machines it listed. *)
(***************************************************************************)
EXTENDS Integers, FiniteSets, FiniteSetsExt

CONSTANTS
  Machines,   \* control-plane Machines of the cluster, by number
  Foreign,    \* those this KCP does not own
  Present,    \* those that exist at first
  Drifters,   \* those that may know their members by other names
  Replicas,   \* values of spec.replicas
  MaxID,      \* bound: etcd member IDs a node has had
  MaxEvents,  \* bound: failures and edits from outside
  MaxStops    \* bound: passes cut short

ASSUME OrphanAssumption ==
  /\ Machines \subseteq Nat \ {0} /\ IsFiniteSet(Machines)
  /\ Foreign \subseteq Machines /\ Present \subseteq Machines /\ Drifters \subseteq Machines
  /\ Replicas \subseteq Nat \ {0} /\ (\E r \in Replicas : \A s \in Replicas : r >= s)
  /\ MaxID \in Nat \ {0} /\ MaxEvents \in Nat /\ MaxStops \in Nat

VARIABLES
  mach,     \* Machine: "none", "new" (no NodeRef), "ready" or "deleting"
  drift,    \* which of its names differ from its member's: "none", "node" or "both"
  addrs,    \* Machines report the peer addresses of their members
  obj,      \* EtcdMember: "absent", "noid" (no ID yet), "joined" or "left"
  id,       \* the member ID
  leave,    \* the EtcdMembers with spec.leave
  up,       \* nodes whose etcd runs
  rep,      \* nodes last reported healthy and voting
  desired, rolling,    \* spec.replicas; a Machine does not run spec.version
  rec, capped,         \* the record: the member and its ID; older than the cap
  checked,             \* checked within etcdOrphanCheckInterval
  pc, tgt, fresh,      \* the pass: where it is, its member, its copy is current
  new,      \* observer: Machines that appeared since the pass listed them
  judged,   \* observer: members whose removal was judged safe; since, no member
            \* has come or gone, and no Machine has gone
  given,    \* observer: members whose removal is no longer followed
  events, stops

member  == <<obj, id, leave>>
nodes   == <<up, rep>>
kcp     == <<desired, rolling, rec, capped, checked>>
pass    == <<pc, tgt, fresh>>
fixed   == <<drift, addrs>>
vars    == <<mach, fixed, member, nodes, kcp, pass, new, judged, given, events, stops>>

None == [m |-> 0, id |-> 0]

TypeOK ==
  /\ mach \in [Machines -> {"none", "new", "ready", "deleting"}]
  /\ drift \in [Machines -> {"none", "node", "both"}] /\ addrs \in BOOLEAN
  /\ obj \in [Machines -> {"absent", "noid", "joined", "left"}]
  /\ id \in [Machines -> 0..MaxID] /\ leave \subseteq Machines
  /\ up \subseteq Machines /\ rep \subseteq Machines
  /\ desired \in Replicas /\ rolling \in BOOLEAN
  /\ (rec = None \/ rec \in [m : Machines, id : 1..MaxID]) /\ capped \in BOOLEAN
  /\ checked \in BOOLEAN
  /\ pc \in {"idle", "record", "ask", "takeback", "finish", "giveup"}
  /\ tgt \in Machines \cup {0} /\ fresh \in BOOLEAN
  /\ new \subseteq Machines /\ judged \subseteq Machines /\ given \subseteq Machines
  /\ events \in 0..MaxEvents /\ stops \in 0..MaxStops

\* Every Machine that exists has joined; some of the others left a member behind.
Init ==
  /\ mach = [m \in Machines |-> IF m \in Present THEN "ready" ELSE "none"]
  /\ drift \in {d \in [Machines -> {"none", "node", "both"}] :
                 \A m \in Machines \ Drifters : d[m] = "none"}
  /\ addrs \in BOOLEAN
  /\ \E orphans \in SUBSET (Machines \ (Present \cup Foreign)) :
       /\ obj = [m \in Machines |-> IF m \in Present \cup orphans THEN "joined" ELSE "absent"]
       /\ id = [m \in Machines |-> IF m \in Present \cup orphans THEN 1 ELSE 0]
       /\ up \in {Present, Present \cup orphans}
  /\ leave = {} /\ rep = Present
  /\ desired = Max(Replicas) /\ rolling = FALSE
  /\ rec = None /\ capped = FALSE /\ checked = FALSE
  /\ pc = "idle" /\ tgt = 0 /\ fresh = FALSE
  /\ new = {} /\ judged = {} /\ given = {} /\ events = 0 /\ stops = 0

-----------------------------------------------------------------------------
Exists(m)  == mach[m] # "none"
Owned      == {m \in Machines \ Foreign : Exists(m)}
Registered(m) == mach[m] \in {"ready", "deleting"}
InEtcd     == {m \in Machines : obj[m] \in {"noid", "joined"}}

count     == <<events, stops>>
Stop      == stops < MaxStops /\ stops' = stops + 1
Idle      == pc' = "idle" /\ tgt' = 0 /\ fresh' = FALSE /\ new' = {}
Goto(where, m) == pc' = where /\ tgt' = m /\ fresh' = TRUE /\ new' = {}
Continue(where) == pc' = where /\ UNCHANGED <<tgt, fresh, new>>

\* expectedEtcdMembers and has: by rendered name, Node name or peer address.
expected(m) == Exists(m) /\ (drift[m] # "both" \/ addrs)

\* Fault: a Machine without its member is not noticed.
MatchedAnyway == {}

\* unmatchedMachines
unmatchedMachines ==
  {m \in Machines : Exists(m) /\ ~(m \in InEtcd /\ ((Registered(m) /\ drift[m] = "none") \/ addrs))}

healthyVotingMembers(target) ==
  {m \in InEtcd \ {target} : Registered(m) /\ drift[m] = "none" /\ m \in rep}

Majority(n) == n \div 2 + 1

orphanRemovalBlocked(target) ==
  \/ unmatchedMachines # {}
  \/ Cardinality(healthyVotingMembers(target)) <
       Max({Majority(Cardinality(InEtcd) - 1), Majority(desired)})

\* ~orphanCleanupBlocked, and every Machine reported healthy and voting.
Steady ==
  /\ Cardinality(Owned) = desired /\ ~rolling
  /\ \A m \in Machines : Exists(m) => mach[m] = "ready" /\ m \in rep

\* The orphans with a member ID.
orphans == {m \in Machines : obj[m] = "joined" /\ ~expected(m)}

Judged(m) == judged' = judged \cup {m}

-----------------------------------------------------------------------------
(***************************************************************************)
(* reconcileOrphanEtcdMembers without a record: removeOneOrphan.           *)
(***************************************************************************)
CheckMembers ==
  /\ pc = "idle" /\ rec = None /\ desired > 1 /\ Steady /\ ~checked
  /\ checked' = TRUE
  /\ IF orphans # {} /\ ~orphanRemovalBlocked(Min(orphans))
     THEN Goto("record", Min(orphans)) /\ Judged(Min(orphans))
     ELSE UNCHANGED <<pass, new, judged>>
  /\ UNCHANGED <<mach, fixed, member, nodes, desired, rolling, rec, capped, given, count>>

\* Fault: the record lacks the member ID.
RecordName ==
  /\ pc = "record"
  /\ rec' = [m |-> tgt, id |-> 0] /\ capped' = FALSE
  /\ Continue("ask")
  /\ UNCHANGED <<mach, fixed, member, nodes, desired, rolling, checked, judged, given, count>>

\* The record comes first...
RecordRemoval ==
  /\ pc = "record"
  /\ rec' = [m |-> tgt, id |-> id[tgt]] /\ capped' = FALSE
  /\ Continue("ask")
  /\ UNCHANGED <<mach, fixed, member, nodes, desired, rolling, checked, judged, given, count>>

\* ...or fails: the next pass checks again.
RecordFails ==
  /\ Stop /\ pc = "record"
  /\ checked' = FALSE /\ Idle
  /\ UNCHANGED <<mach, fixed, member, nodes, desired, rolling, rec, capped, judged, given, events>>

\* What the pass does once spec.leave has been tried.
AfterAsk == IF capped THEN Continue("giveup") ELSE Idle

\* Fault: spec.leave is set on the copy only.
AskOnCopy ==
  /\ pc = "ask" /\ fresh /\ AfterAsk
  /\ UNCHANGED <<mach, fixed, member, nodes, kcp, judged, given, count>>

\* setEtcdMemberLeave applies only to the object that was inspected...
AskLeave ==
  /\ pc = "ask" /\ fresh
  /\ leave' = leave \cup {tgt} /\ given' = given \ {tgt} /\ AfterAsk
  /\ UNCHANGED <<mach, fixed, obj, id, nodes, kcp, judged, count>>

\* ...or fails.
AskFails ==
  /\ Stop /\ pc = "ask" /\ AfterAsk
  /\ UNCHANGED <<mach, fixed, member, nodes, kcp, judged, given, events>>

-----------------------------------------------------------------------------
(***************************************************************************)
(* progressOrphanLeave.                                                    *)
(***************************************************************************)
Following == pc = "idle" /\ rec # None

\* No verified apiserver answers, or the EtcdMember cannot be read, to the cap.
FollowUnanswered ==
  /\ Following /\ capped
  /\ Goto("giveup", rec.m)
  /\ UNCHANGED <<mach, fixed, member, nodes, kcp, judged, given, count>>

\* It is not in etcd, or the EtcdMember describes another member.
FollowOver ==
  /\ Following
  /\ obj[rec.m] \in {"absent", "left"} \/ id[rec.m] # rec.id \/ obj[rec.m] = "noid"
  /\ Goto("finish", rec.m)
  /\ UNCHANGED <<mach, fixed, member, nodes, kcp, judged, given, count>>

StillIn == obj[rec.m] = "joined" /\ id[rec.m] = rec.id

\* Fault: the request is not taken back.
FollowExpectedOnlyFinishes ==
  /\ Following /\ StillIn /\ expected(rec.m)
  /\ Goto("finish", rec.m)
  /\ UNCHANGED <<mach, fixed, member, nodes, kcp, judged, given, count>>

\* A Machine now accounts for it.
FollowExpected ==
  /\ Following /\ StillIn /\ expected(rec.m)
  /\ Goto("takeback", rec.m)
  /\ UNCHANGED <<mach, fixed, member, nodes, kcp, judged, given, count>>

\* Fault: a recorded removal is asked for as it was decided.
AskUnchecked ==
  /\ Following /\ StillIn /\ ~expected(rec.m) /\ rec.m \notin leave
  /\ Goto("ask", rec.m) /\ Judged(rec.m)
  /\ UNCHANGED <<mach, fixed, member, nodes, kcp, given, count>>

\* spec.leave was never written: everything is checked again first.
FollowUnasked ==
  /\ Following /\ StillIn /\ ~expected(rec.m) /\ rec.m \notin leave
  /\ \A m \in Machines : mach[m] # "deleting"
  /\ ~orphanRemovalBlocked(rec.m)
  /\ Goto("ask", rec.m) /\ Judged(rec.m)
  /\ UNCHANGED <<mach, fixed, member, nodes, kcp, given, count>>

\* k0s has not removed it, or it cannot be asked, to the cap.
FollowCapped ==
  /\ Following /\ StillIn /\ ~expected(rec.m) /\ capped
  /\ \/ rec.m \in leave
     \/ \E m \in Machines : mach[m] = "deleting"
     \/ orphanRemovalBlocked(rec.m)
  /\ Goto("giveup", rec.m)
  /\ UNCHANGED <<mach, fixed, member, nodes, kcp, judged, given, count>>

TakeBack ==
  /\ pc = "takeback"
  /\ fresh /\ leave' = leave \ {tgt} /\ Continue("finish")
  /\ UNCHANGED <<mach, fixed, obj, id, nodes, kcp, judged, given, count>>

\* Fault: the record is kept at the cap.
FinishKeepsCapped ==
  /\ pc = "finish"
  /\ rec' = None /\ capped' = FALSE /\ Idle
  /\ UNCHANGED <<mach, fixed, member, nodes, desired, rolling, checked, judged, given, count>>

\* finish: the record goes.
Finish ==
  /\ pc \in {"finish", "giveup"}
  /\ rec' = None /\ capped' = FALSE /\ Idle
  /\ given' = IF pc = "giveup" THEN given \cup {tgt} ELSE given
  /\ UNCHANGED <<mach, fixed, member, nodes, desired, rolling, checked, judged, count>>

\* Its copy of the EtcdMember is no longer current.
LeaveConflict ==
  /\ pc \in {"ask", "takeback"} /\ ~fresh
  /\ IF pc = "ask" THEN AfterAsk ELSE Idle
  /\ UNCHANGED <<mach, fixed, member, nodes, kcp, judged, given, count>>

\* An error, a conflict, another cluster answering, or a restart of the controller,
\* which also forgets the last check.
PassStops ==
  /\ Stop /\ pc # "idle" /\ Idle
  /\ checked' \in {checked, FALSE}
  /\ UNCHANGED <<mach, fixed, member, nodes, desired, rolling, rec, capped, judged, given, events>>

-----------------------------------------------------------------------------
(***************************************************************************)
(* Scale and rollout, which a recorded removal holds.                      *)
(***************************************************************************)
Held == pc # "idle" \/ rec # None

KCPDeletes(m) ==
  /\ ~Held /\ m \in Owned /\ mach[m] # "deleting"
  /\ Cardinality(Owned) > desired \/ rolling
  /\ mach' = [mach EXCEPT ![m] = "deleting"] /\ rolling' = FALSE
  /\ UNCHANGED <<fixed, member, nodes, desired, rec, capped, checked, pass, new, judged, given, count>>

KCPCreates(m) ==
  /\ ~Held /\ m \in Machines \ Foreign /\ ~Exists(m) /\ Cardinality(Owned) < desired
  /\ obj[m] \in {"absent", "left"} /\ m \notin up /\ id[m] < MaxID
  /\ mach' = [mach EXCEPT ![m] = "new"]
  /\ UNCHANGED <<fixed, member, nodes, kcp, pass, new, judged, given, count>>

-----------------------------------------------------------------------------
(***************************************************************************)
(* Operators, CAPI, the nodes, k0s and time.                               *)
(***************************************************************************)
Event == events < MaxEvents /\ events' = events + 1

SpecChanges ==
  /\ Event
  /\ \/ desired' \in Replicas \ {desired} /\ UNCHANGED rolling
     \/ rolling' = TRUE /\ UNCHANGED desired
  /\ UNCHANGED <<mach, fixed, member, nodes, rec, capped, checked, pass, new, judged, given, stops>>

OthersDelete(m) ==
  /\ Event /\ Exists(m) /\ mach[m] # "deleting"
  /\ mach' = [mach EXCEPT ![m] = "deleting"]
  /\ UNCHANGED <<fixed, member, nodes, kcp, pass, new, judged, given, stops>>

\* A Machine of another owner, or one restored for a node that still runs.
MachineAppears(m) ==
  /\ Event /\ ~Exists(m) /\ new' = IF pc = "idle" THEN {} ELSE new \cup {m}
  /\ \/ m \in Foreign /\ m \notin InEtcd /\ id[m] < MaxID /\ mach' = [mach EXCEPT ![m] = "new"]
     \/ m \in InEtcd \cap up /\ mach' = [mach EXCEPT ![m] = "ready"]
  /\ UNCHANGED <<fixed, member, nodes, kcp, pass, judged, given, stops>>

Stale(m) == fresh' = IF tgt = m THEN FALSE ELSE fresh

\* Its member left etcd with it, or stays behind, running or not.
MachineGone(m) ==
  /\ mach[m] = "deleting"
  /\ mach' = [mach EXCEPT ![m] = "none"] /\ judged' = {}
  /\ \/ m \in InEtcd /\ obj' = [obj EXCEPT ![m] = "left"] /\ up' = up \ {m} /\ Stale(m)
     \/ up' \in {up, up \ {m}} /\ UNCHANGED <<obj, fresh>>
  /\ UNCHANGED <<fixed, id, leave, rep, kcp, pc, tgt, new, given, count>>

\* The node of a new Machine joins etcd: its EtcdMember describes a new member.
NodeJoins(m) ==
  /\ mach[m] = "new" /\ m \notin InEtcd /\ id[m] < MaxID
  /\ obj' = [obj EXCEPT ![m] = "noid"] /\ leave' = leave \ {m}
  /\ up' = up \cup {m} /\ judged' = {} /\ given' = given \ {m} /\ Stale(m)
  /\ UNCHANGED <<mach, fixed, id, rep, kcp, pc, tgt, new, count>>

\* k0s writes the member ID; CAPI sets the NodeRef.
K0sReports(m) ==
  /\ obj[m] = "noid" /\ id[m] < MaxID
  /\ obj' = [obj EXCEPT ![m] = "joined"] /\ id' = [id EXCEPT ![m] = @ + 1] /\ Stale(m)
  /\ UNCHANGED <<mach, fixed, leave, nodes, kcp, pc, tgt, new, judged, given, count>>

Registers(m) ==
  /\ mach[m] = "new" /\ m \in up /\ mach' = [mach EXCEPT ![m] = "ready"]
  /\ UNCHANGED <<fixed, member, nodes, kcp, pass, new, judged, given, count>>

\* The leader removes a member that should leave, while etcd has a quorum.
HasQuorum(members) == Cardinality(members \cap up) >= Majority(Cardinality(members))

K0sRemoves(m) ==
  /\ m \in leave /\ obj[m] = "joined" /\ HasQuorum(InEtcd)
  /\ obj' = [obj EXCEPT ![m] = "left"] /\ judged' = {} /\ given' = given \ {m} /\ Stale(m)
  /\ UNCHANGED <<mach, fixed, id, leave, nodes, kcp, pc, tgt, new, count>>

NodeFails(m) ==
  /\ Event /\ m \in up /\ up' = up \ {m}
  /\ UNCHANGED <<mach, fixed, member, rep, kcp, pass, new, judged, given, stops>>

\* A node reports when it boots, once: the report of one that dies stays.
Reported(m) ==
  /\ m \in up \ rep /\ rep' = rep \cup {m}
  /\ UNCHANGED <<mach, fixed, member, up, kcp, pass, new, judged, given, count>>

\* The annotation is damaged, or its time lies in the future: it goes.
parseOrphanLeaveFails ==
  /\ Event /\ Following /\ rec' = None /\ capped' = FALSE /\ given' = given \cup {rec.m}
  /\ UNCHANGED <<mach, fixed, member, nodes, desired, rolling, checked, pass, new, judged, stops>>

Tick ==
  /\ pc = "idle" /\ (checked \/ (rec # None /\ ~capped))
  /\ checked' = FALSE /\ capped' = (rec # None)
  /\ UNCHANGED <<mach, fixed, member, nodes, desired, rolling, rec, pass, new, judged, given, count>>

-----------------------------------------------------------------------------
Follow == FollowUnanswered \/ FollowOver \/ FollowExpected \/ FollowUnasked \/ FollowCapped

Pass == CheckMembers \/ RecordRemoval \/ AskLeave \/ LeaveConflict \/ Follow \/ TakeBack \/ Finish

Others == \/ RecordFails \/ AskFails \/ PassStops \/ SpecChanges \/ parseOrphanLeaveFails \/ Tick
          \/ \E m \in Machines :
               \/ KCPDeletes(m) \/ KCPCreates(m) \/ OthersDelete(m) \/ MachineAppears(m)
               \/ MachineGone(m) \/ NodeJoins(m) \/ K0sReports(m) \/ Registers(m)
               \/ K0sRemoves(m) \/ NodeFails(m) \/ Reported(m)

Next == Pass \/ Others
Spec == Init /\ [][Next]_vars

(***************************************************************************)
(* A pass under way goes through and a record requeues the KCP; clocks run, *)
(* k0s does what it is asked and nodes report.  Nothing brings the check of *)
(* a steady control plane: its passes return Result{}, without a requeue.   *)
(***************************************************************************)
FairSpec ==
  /\ Spec /\ WF_vars(Pass /\ (pc # "idle" \/ rec # None)) /\ SF_vars(Tick)
  /\ WF_vars(\E m \in Machines : K0sRemoves(m)) /\ WF_vars(\E m \in Machines : Reported(m))
-----------------------------------------------------------------------------
(***************************************************************************)
(* Properties.                                                             *)
(***************************************************************************)

\* As the reports of registered Machines have it.
Counted == {m \in rep : Registered(m)}
ReportedQuorum(members) ==
  Cardinality(members \cap Counted) >= Majority(Cardinality(members))

\* k0s is only asked to remove a member that no Machine the pass listed runs: not
\* one whose names drifted, nor one of another owner's Machine (unmatchedMachines,
\* expectedEtcdMembers), also when a restart separates the record from the request.
\* As long as no member came or went and no Machine has gone since it was judged safe
\* (orphanRemovalBlocked), the removal leaves a majority of members that have Machines
\* and were last reported healthy, and with it a quorum, unless a node died behind its
\* report, before the judgement or after: the report stays, and it is counted.
RemovalsAreSafe ==
  [][/\ \A m \in leave' \ leave : ~Exists(m) \/ m \in new
     /\ \A m \in judged : obj[m] = "joined" /\ obj'[m] = "left" /\ mach' = mach =>
          /\ ReportedQuorum(InEtcd \ {m})
          /\ (InEtcd \ {m}) \cap Counted \subseteq up => HasQuorum(InEtcd \ {m})]_vars

\* A removal k0s has still to make is the recorded one, and so holds scale and
\* rollout, unless it was given up at etcdMemberLeaveCap or its record was damaged.
OutstandingIsRecorded ==
  \A m \in leave \ given : obj[m] = "joined" => rec.m = m /\ rec.id = id[m]

\* What a pass relies on: it follows the recorded member, asks for the one it
\* inspected, of which no Machine was listed, and drops a record when nothing is
\* outstanding under it.
PassInv ==
  /\ pc = "record" => tgt # 0 /\ rec = None /\ id[tgt] > 0
  /\ pc \in {"ask", "takeback", "finish", "giveup"} => rec # None /\ rec.m = tgt
  /\ pc \in {"record", "ask"} /\ fresh => obj[tgt] = "joined"
  /\ pc = "ask" /\ fresh => rec.id = id[tgt]
  /\ pc \in {"record", "ask"} => ~Exists(tgt) \/ tgt \in new
  /\ pc = "finish" => tgt \notin leave \ given \/ obj[tgt] # "joined"

\* A joined member has an ID, and one without is not asked to leave.
MemberInv ==
  \A m \in Machines : /\ obj[m] = "joined" => id[m] > 0
                      /\ obj[m] = "noid" => m \notin leave

\* A removal that was judged safe still is by the reports, while membership stands.
JudgedInv == \A m \in judged : m \in InEtcd => ReportedQuorum(InEtcd \ {m})

\* The record and what k0s was asked for agree (followOrphanRemoval).
OrphanInv == TypeOK /\ OutstandingIsRecorded /\ PassInv /\ MemberInv /\ JudgedInv

\* No hold is for ever: a recorded removal ends, whatever k0s and the nodes do.
EveryHoldEnds == (rec # None) ~> (rec = None)

\* In a control plane that stays steady, with a quorum and members that can all be
\* told, and whose members are checked again and again, orphans do not stay: each is
\* found, recorded, removed and seen gone.  The checks come with the events of watched
\* objects; the code schedules none (kairoscontrolplane_controller.go:650,890).
Removable == /\ desired > 1 /\ Steady /\ (\A m \in Machines : Exists(m) => m \in up)
             /\ HasQuorum(InEtcd)
             /\ unmatchedMachines = {} /\ (\A m \in Machines : drift[m] = "none")
             /\ \A m \in orphans : ~orphanRemovalBlocked(m)
OrphansGo == <>[]Removable /\ []<><<CheckMembers>>_vars => []<>(orphans = {})
=============================================================================
