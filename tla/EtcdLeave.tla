------------------------------ MODULE EtcdLeave ------------------------------
(***************************************************************************)
(* The etcd-leave handshake of ONE control-plane Machine that is being     *)
(* deleted (internal/controllers/controlplane/ha_leave*.go).  The Machine  *)
(* carries the pre-terminate hook, so CAPI does not terminate its VM until *)
(* the KairosControlPlane controller (KCP) removes the hook.  Four actors: *)
(*                                                                         *)
(*   KCP    passes of reconcileMemberLeave; a pass is cut where it talks   *)
(*          to an API server, so the others can move between its calls,    *)
(*          and it can stop at every write (error or controller restart);  *)
(*   node   the responder kairos-etcd-leave.sh, started by a timer;        *)
(*   k0s    the leader that serves the EtcdMember API (external);          *)
(*   CAPI   drains the node, then waits on the hook (external).            *)
(*                                                                         *)
(* Names are abstracted to one key: the leave ConfigMap entry, the         *)
(* etcd-status key and the EtcdMember object all go by leaveNodeName.      *)
(* Each wait the code bounds with a timestamp annotation is a stamp plus a *)
(* flag in `expired' that time may raise once the stamp is set.            *)
(*                                                                         *)
(* A pass may start at any time here; what brings the next one, and whether *)
(* the waits end, is LeaveQueue's subject.                                 *)
(***************************************************************************)
EXTENDS Naturals, FiniteSets

CONSTANTS
  ReporterReliable,   \* a registered node has its key in the etcd-status Secret
  MaxFaults           \* how many failed writes / restarts a behaviour may have

ASSUME EtcdLeaveAssumption ==
  /\ ReporterReliable \in BOOLEAN
  /\ MaxFaults \in Nat

(* etcd member IDs: none, the one of this node, the one of any other node *)
NoID     == "noID"
TargetID == "target"
OtherID  == "other"

Clocks == {"unreachable", "timeout", "cap"}

VARIABLES
  \* the Machine, in the management cluster
  phase,        \* CAPI: "draining", "preTerminate" (waits on hooks), "gone"
  hook,         \* the etcd-leave pre-terminate annotation
  requested,    \* etcd-leave-requested-at is stamped
  unreachable,  \* etcd-leave-unreachable-since is stamped
  delegated,    \* etcd-member-leave-requested-at is stamped
  memberID,     \* etcd-member-leave-member-id, or NoID
  \* the KairosControlPlane
  frozen,       \* the identity freeze annotation
  teardown,     \* the KCP itself is being deleted
  \* facts about the Machine that the eviction does not change
  facts,
  \* the pass of reconcileMemberLeave in progress
  pc, cmSeen, emSeen,
  \* the workload cluster
  cm,           \* the node's entry in ConfigMap kube-system/kairos-etcd-leave
  em,           \* the EtcdMember named after the node
  member,       \* the node's etcd membership
  \* the node
  node,         \* responder: "off", "idle", "leaving", "left", "acking"
  marker,       \* /run/kairos-etcd-left
  \* time and faults
  expired, faults,
  \* observer: why the hook was removed
  released

kcpVars   == <<frozen, teardown, facts>>
stamps    == <<requested, unreachable, delegated, memberID>>
passVars  == <<pc, cmSeen, emSeen>>
nodeVars  == <<node, marker>>
workload  == <<cm, em, member>>
vars == <<phase, hook, stamps, kcpVars, passVars, workload, nodeVars,
          expired, faults, released>>

Fact == [k0s         : BOOLEAN,  \* distributionOf(kcp) = "k0s"
         registered  : BOOLEAN,  \* the Machine has a NodeRef
         reported    : BOOLEAN,  \* its key is in the etcd-status Secret
         validName   : BOOLEAN,  \* ValidNodeHostname(rendered hostname)
         sharedName  : BOOLEAN,  \* another Machine goes by the same node name
         memberAPI   : BOOLEAN]  \* the cluster serves EtcdMember

EtcdMember == [exists : BOOLEAN, id : {NoID, TargetID, OtherID},
               leave : BOOLEAN, joined : {"", "True", "False"},
               peerOther : BOOLEAN]  \* another Machine reports its peer address

NoMember == [exists |-> FALSE, id |-> NoID, leave |-> FALSE, joined |-> "",
             peerOther |-> FALSE]

Why == {"held", "ack", "status", "notFound", "notJoined", "abandoned",
        "notK0s", "teardown"}

TypeMachine ==
  /\ phase \in {"draining", "preTerminate", "gone"}
  /\ hook \in BOOLEAN /\ requested \in BOOLEAN /\ unreachable \in BOOLEAN
  /\ delegated \in BOOLEAN /\ memberID \in {NoID, TargetID, OtherID}
  /\ frozen \in BOOLEAN /\ teardown \in BOOLEAN

TypePass ==
  /\ facts \in Fact
  /\ pc \in {"idle", "connected", "force", "stamp", "patch"}
  /\ cmSeen \in {"", "leave-requested", "left"} /\ emSeen \in EtcdMember
  /\ expired \in SUBSET Clocks /\ faults \in Nat /\ released \in Why

TypeWorkload ==
  /\ cm \in {"", "leave-requested", "left"} /\ em \in EtcdMember
  /\ member \in {"none", "unstarted", "joined", "removed"}
  /\ node \in {"off", "idle", "leaving", "left", "acking"}
  /\ marker \in BOOLEAN

TypeOK == TypeMachine /\ TypePass /\ TypeWorkload

(***************************************************************************)
(* Init: CAPI has started deleting the Machine.  The ConfigMap may hold an *)
(* entry a same-named node of the past left behind (an ack, or a request   *)
(* that was abandoned), and the member may be at any stage of its join.    *)
(***************************************************************************)
OwnMember == [exists |-> TRUE, id |-> TargetID, leave |-> FALSE,
              joined |-> "True", peerOther |-> FALSE]

OthersMember(peer) == [exists |-> TRUE, id |-> OtherID, leave |-> FALSE,
                       joined |-> "True", peerOther |-> peer]

\* A registered node has joined etcd and goes by a name of its own; the
\* EtcdMember API is either served or not.
InitFacts ==
  {f \in Fact : /\ f.registered => f.validName /\ ~f.sharedName
                /\ f.reported => f.registered
                /\ ReporterReliable => (f.registered => f.reported)
                /\ ~f.k0s => f.registered /\ ~f.memberAPI}

Init ==
  /\ facts \in InitFacts
  /\ phase = "draining" /\ hook = TRUE
  /\ requested = FALSE /\ unreachable = FALSE /\ delegated = FALSE
  /\ memberID = NoID
  /\ frozen = FALSE /\ teardown = FALSE
  /\ pc = "idle" /\ cmSeen = "" /\ emSeen = NoMember
  /\ cm \in {"", "leave-requested", "left"}
  /\ member \in IF facts.registered THEN {"joined"} ELSE {"none", "joined"}
  /\ em \in IF member = "joined" /\ facts.memberAPI THEN {OwnMember}
            ELSE IF facts.sharedName /\ facts.memberAPI
                 THEN {NoMember} \cup {OthersMember(p) : p \in BOOLEAN}
                 ELSE {NoMember}
  /\ node \in {"off", "idle"} /\ marker = FALSE
  /\ expired = {} /\ faults = MaxFaults /\ released = "held"

-----------------------------------------------------------------------------
(***************************************************************************)
(* Writing the hook off the Machine.                                       *)
(***************************************************************************)

\* removeEtcdLeaveHook: refused while frozen; the caller's pass ends.
removeEtcdLeaveHook(why) ==
  /\ ~frozen
  /\ hook' = FALSE /\ released' = why
  /\ pc' = "idle" /\ UNCHANGED <<cmSeen, emSeen>>

\* abandonMemberLeave: the warning event, then removeEtcdLeaveHook.
abandonMemberLeave == removeEtcdLeaveHook("abandoned")

EndPass == /\ pc' = "idle"
           /\ UNCHANGED <<hook, released, cmSeen, emSeen>>

(***************************************************************************)
(* One pass of reconcileMemberLeave.                                       *)
(***************************************************************************)

\* The sweep reaches the Machine: the KCP is neither frozen nor on its
\* deletion path, and the Machine still carries the hook.
Sweep == /\ pc = "idle" /\ hook /\ phase # "gone"
         /\ ~frozen /\ ~teardown

\* (1) Only k0s stamps the hook.
ReleaseNotK0s ==
  /\ Sweep /\ ~facts.k0s
  /\ removeEtcdLeaveHook("notK0s")
  /\ UNCHANGED <<phase, stamps, kcpVars, workload, nodeVars, expired, faults>>

\* Fault: the leave starts as soon as the Machine is being deleted.
MayConnectDuringDrain == Sweep /\ facts.k0s

\* (2b) Nothing is requested before CAPI waits on the pre-terminate hooks.
MayConnect == Sweep /\ facts.k0s /\ (requested \/ phase = "preTerminate")

\* connectForLeave: an apiserver of the pinned cluster answered, and the
\* ConfigMap was read through it.
ConnectAnswered ==
  /\ MayConnect
  /\ pc' = "connected" /\ cmSeen' = cm
  /\ UNCHANGED <<phase, hook, stamps, kcpVars, emSeen, workload, nodeVars,
                 expired, faults, released>>

\* connectForLeave: an apiserver answered as another cluster.  The freeze is
\* recorded and the pass ends with nothing read from it used.
ConnectForeign ==
  /\ MayConnect
  /\ frozen' = TRUE
  /\ UNCHANGED <<phase, hook, stamps, teardown, facts, passVars, workload,
                 nodeVars, expired, faults, released>>

\* leaveUnreachable: stamp once, keep the hook until leaveUnreachableBound.
leaveUnreachable ==
  /\ unreachable' = TRUE
  /\ IF "unreachable" \in expired THEN abandonMemberLeave ELSE EndPass
  /\ UNCHANGED <<requested, delegated, memberID>>

\* Fault: the wait for an answer is not bounded.
delegateWaitsForever ==
  /\ delegated' = TRUE
  /\ EndPass
  /\ UNCHANGED <<requested, unreachable, memberID>>

\* The delegation's bounded wait for an answer: stamp once, keep the hook
\* until etcdMemberLeaveCap.
delegateUnanswered ==
  /\ delegated' = TRUE
  /\ IF "cap" \in expired THEN abandonMemberLeave ELSE EndPass
  /\ UNCHANGED <<requested, unreachable, memberID>>

\* connectForLeave: nothing answered (or no identity is pinned).
ConnectUnanswered ==
  /\ MayConnect
  /\ \/ ~requested /\ leaveUnreachable
     \/ requested /\ "timeout" \in expired /\ delegateUnanswered
     \/ requested /\ "timeout" \notin expired /\ EndPass /\ UNCHANGED stamps
  /\ UNCHANGED <<phase, kcpVars, workload, nodeVars, expired, faults>>

\* (3) A registered node: straight to the forced sentinel write.
FirstRequest ==
  /\ pc = "connected" /\ ~requested /\ facts.registered
  /\ pc' = "force"
  /\ UNCHANGED <<phase, hook, stamps, kcpVars, cmSeen, emSeen, workload,
                 nodeVars, expired, faults, released>>

-----------------------------------------------------------------------------
(***************************************************************************)
(* inspectUnregisteredLeave: a Machine without a NodeRef.                  *)
(***************************************************************************)
Inspecting == pc = "connected" /\ ~requested /\ ~facts.registered

\* The rendered hostname cannot be matched to an EtcdMember, or the
\* EtcdMember cannot be read: as if nothing answered.
InspectUnreadable ==
  /\ Inspecting
  /\ leaveUnreachable
  /\ UNCHANGED <<phase, kcpVars, workload, nodeVars, expired, faults>>

\* No EtcdMember API, a peer address another Machine reports, or another
\* Machine of the same node name: the warning path, nothing written.
InspectNotOurs ==
  /\ Inspecting /\ facts.validName
  /\ \/ ~facts.memberAPI
     \/ em.exists /\ (em.peerOther \/ facts.sharedName)
  /\ abandonMemberLeave
  /\ UNCHANGED <<phase, stamps, kcpVars, workload, nodeVars, expired, faults>>

\* The pinned cluster has no EtcdMember of that name.
InspectNotFound ==
  /\ Inspecting /\ facts.validName /\ facts.memberAPI
  /\ ~em.exists
  /\ removeEtcdLeaveHook("notFound")
  /\ UNCHANGED <<phase, stamps, kcpVars, workload, nodeVars, expired, faults>>

\* Fault: an EtcdMember with no status yet counts as not joined.
InspectNotYetJoined ==
  /\ Inspecting /\ facts.validName /\ facts.memberAPI
  /\ em.exists /\ ~em.peerOther /\ ~facts.sharedName
  /\ em.joined # "True"
  /\ removeEtcdLeaveHook("notJoined")
  /\ UNCHANGED <<phase, stamps, kcpVars, workload, nodeVars, expired, faults>>

\* k0s reports the member not in etcd.
InspectNotJoined ==
  /\ Inspecting /\ facts.validName /\ facts.memberAPI
  /\ em.exists /\ ~em.peerOther /\ ~facts.sharedName
  /\ em.joined = "False"
  /\ removeEtcdLeaveHook("notJoined")
  /\ UNCHANGED <<phase, stamps, kcpVars, workload, nodeVars, expired, faults>>

\* Possibly a live member: record its ID if k0s has written one, proceed.
InspectProceed ==
  /\ Inspecting /\ facts.validName /\ facts.memberAPI
  /\ em.exists /\ ~em.peerOther /\ ~facts.sharedName
  /\ em.joined # "False"
  /\ memberID' = IF memberID = NoID THEN em.id ELSE memberID
  /\ pc' = "force"
  /\ UNCHANGED <<phase, hook, requested, unreachable, delegated, kcpVars,
                 cmSeen, emSeen, workload, nodeVars, expired, faults, released>>

-----------------------------------------------------------------------------
(***************************************************************************)
(* The request, and the passes after it.                                   *)
(***************************************************************************)

\* Fault: the first request keeps an ack that is already there.
ForcedKeepsAck ==
  /\ pc = "force"
  /\ cm' = IF cm = "left" THEN cm ELSE "leave-requested"
  /\ pc' = "stamp"
  /\ UNCHANGED <<phase, hook, stamps, kcpVars, cmSeen, emSeen, em, member,
                 nodeVars, expired, faults, released>>

\* ensureLeaveRequested(force): whatever the entry was, a stale ack included.
ensureLeaveRequestedForced ==
  /\ pc = "force"
  /\ cm' = "leave-requested"
  /\ pc' = "stamp"
  /\ UNCHANGED <<phase, hook, stamps, kcpVars, cmSeen, emSeen, em, member,
                 nodeVars, expired, faults, released>>

stampLeaveRequestedAt ==
  /\ pc = "stamp"
  /\ requested' = TRUE
  /\ EndPass
  /\ UNCHANGED <<phase, unreachable, delegated, memberID, kcpVars, workload,
                 nodeVars, expired, faults>>

\* (4) The node acked.
ReleaseOnAck ==
  /\ pc = "connected" /\ requested /\ cmSeen = "left"
  /\ removeEtcdLeaveHook("ack")
  /\ UNCHANGED <<phase, stamps, kcpVars, workload, nodeVars, expired, faults>>

\* A registered node whose key is not in the etcd-status Secret.
ReleaseOnStatus ==
  /\ pc = "connected" /\ requested /\ cmSeen # "left"
  /\ facts.registered /\ ~facts.reported
  /\ removeEtcdLeaveHook("status")
  /\ UNCHANGED <<phase, stamps, kcpVars, workload, nodeVars, expired, faults>>

\* Neither: the key is there, the Secret could not be read, or the node never
\* registered, so its absence means nothing.
NotGone == pc = "connected" /\ requested /\ cmSeen # "left"

\* Fault: later requests go by the entry read when the pass connected.
RequestOverwritesAck ==
  /\ NotGone /\ "timeout" \notin expired
  /\ cm' = "leave-requested"
  /\ EndPass
  /\ UNCHANGED <<phase, stamps, kcpVars, em, member, nodeVars, expired, faults>>

\* (6) ensureLeaveRequested without force: a fresh read, and an ack written
\* since the pass connected is kept.
ensureLeaveRequested ==
  /\ NotGone /\ "timeout" \notin expired
  /\ cm' = IF cm = "left" THEN cm ELSE "leave-requested"
  /\ EndPass
  /\ UNCHANGED <<phase, stamps, kcpVars, em, member, nodeVars, expired, faults>>

\* delegateMemberLeave, with a connection.
Delegating == NotGone /\ "timeout" \in expired

\* Nothing to act on: no API, no object, an object with another Machine's
\* peer address, without an ID, or with another ID than first seen.
DelegateNotOurs ==
  /\ Delegating
  /\ \/ ~facts.memberAPI
     \/ ~em.exists
     \/ em.peerOther
     \/ em.id = NoID
     \/ memberID # NoID /\ memberID # em.id
  /\ abandonMemberLeave
  /\ UNCHANGED <<phase, stamps, kcpVars, workload, nodeVars, expired, faults>>

\* The EtcdMember could not be read.
DelegateUnreadable ==
  /\ Delegating /\ facts.memberAPI
  /\ delegateUnanswered
  /\ UNCHANGED <<phase, kcpVars, workload, nodeVars, expired, faults>>

\* Ours: stamp, record the ID, and keep the object as inspected.
DelegateInspect ==
  /\ Delegating /\ facts.memberAPI
  /\ em.exists /\ ~em.peerOther /\ em.id # NoID /\ memberID \in {NoID, em.id}
  /\ delegated' = TRUE /\ memberID' = em.id
  /\ pc' = "patch" /\ emSeen' = em
  /\ UNCHANGED <<phase, hook, requested, unreachable, kcpVars, cmSeen,
                 workload, nodeVars, expired, faults, released>>

\* Fault: the patch carries no resourceVersion.
NoLock == TRUE

\* The patch carries the resourceVersion inspected.
LockHolds == em = emSeen

\* spec.leave set on that object (if it was not), then its Joined status.
DelegateLeave ==
  /\ pc = "patch"
  /\ IF emSeen.leave THEN UNCHANGED em
     ELSE LockHolds /\ em' = [em EXCEPT !.leave = TRUE]
  /\ IF emSeen.joined = "False" THEN removeEtcdLeaveHook("notJoined")
     ELSE IF "cap" \in expired THEN abandonMemberLeave
     ELSE EndPass
  /\ UNCHANGED <<phase, stamps, kcpVars, cm, member, nodeVars, expired, faults>>

\* The patch is refused: the object changed since it was inspected.
DelegateConflict ==
  /\ pc = "patch" /\ ~emSeen.leave /\ ~LockHolds
  /\ IF "cap" \in expired THEN abandonMemberLeave ELSE EndPass
  /\ UNCHANGED <<phase, stamps, kcpVars, workload, nodeVars, expired, faults>>

\* A write fails, or the controller restarts: the pass stops where it is.
PassFails ==
  /\ pc # "idle" /\ faults > 0
  /\ faults' = faults - 1
  /\ EndPass
  /\ UNCHANGED <<phase, stamps, kcpVars, workload, nodeVars, expired>>

-----------------------------------------------------------------------------
(***************************************************************************)
(* The rest of the KCP: the freeze and whole-cluster teardown.             *)
(***************************************************************************)

\* Another check of the reconcile found a mismatch, or the operator cleared
\* the freeze.
FreezeChanges ==
  /\ pc = "idle" /\ faults > 0
  /\ frozen' = ~frozen /\ faults' = faults - 1
  /\ UNCHANGED <<phase, hook, stamps, teardown, facts, passVars, workload,
                 nodeVars, expired, released>>

\* The KairosControlPlane is deleted.
KCPDeleted ==
  /\ ~teardown
  /\ teardown' = TRUE
  /\ UNCHANGED <<phase, hook, stamps, frozen, facts, passVars, workload,
                 nodeVars, expired, faults, released>>

\* reconcileDelete: strip the hook whatever the leave or the freeze says.
stripEtcdLeaveHooks ==
  /\ teardown /\ pc = "idle" /\ hook
  /\ hook' = FALSE /\ released' = "teardown"
  /\ UNCHANGED <<phase, stamps, kcpVars, passVars, workload, nodeVars,
                 expired, faults>>

(***************************************************************************)
(* CAPI and time.                                                          *)
(***************************************************************************)
DrainDone ==
  /\ phase = "draining"
  /\ phase' = "preTerminate"
  /\ UNCHANGED <<hook, stamps, kcpVars, passVars, workload, nodeVars, expired,
                 faults, released>>

Terminate ==
  /\ phase = "preTerminate" /\ ~hook
  /\ phase' = "gone" /\ node' = "off" /\ marker' = FALSE
  /\ UNCHANGED <<hook, stamps, kcpVars, passVars, workload, expired, faults,
                 released>>

\* leaveUnreachableExpired, leaveTimedOut, etcdMemberLeaveCapped
Expire(c) ==
  /\ c \notin expired
  /\ CASE c = "unreachable" -> unreachable
       [] c = "timeout"     -> requested
       [] c = "cap"         -> delegated
  /\ expired' = expired \cup {c}
  /\ UNCHANGED <<phase, hook, stamps, kcpVars, passVars, workload, nodeVars,
                 faults, released>>

-----------------------------------------------------------------------------
(***************************************************************************)
(* The node: k0s joining etcd, and the responder script.                   *)
(***************************************************************************)

\* k0s adds the member; once started, it is visible as an EtcdMember.
NodeAdds ==
  /\ node # "off" /\ member = "none"
  /\ member' = "unstarted"
  /\ UNCHANGED <<phase, hook, stamps, kcpVars, passVars, cm, em, nodeVars,
                 expired, faults, released>>

NodeStarts ==
  /\ node # "off" /\ member = "unstarted"
  /\ member' = "joined"
  /\ em' = IF facts.memberAPI
           THEN [exists |-> TRUE, id |-> NoID, leave |-> FALSE, joined |-> "",
                 peerOther |-> FALSE]
           ELSE em
  /\ UNCHANGED <<phase, hook, stamps, kcpVars, passVars, cm, nodeVars, expired,
                 faults, released>>

\* The timer runs the script: only the exact sentinel starts anything, and a
\* completed leave resumes at the ack.
NodePoll ==
  /\ node = "idle" /\ cm = "leave-requested"
  /\ node' = IF marker THEN "acking" ELSE "leaving"
  /\ UNCHANGED <<phase, hook, stamps, kcpVars, passVars, workload, marker,
                 expired, faults, released>>

\* `k0s etcd leave' exits 0: the member is out of etcd.
NodeLeaves ==
  /\ node = "leaving" /\ member = "joined"
  /\ member' = "removed" /\ node' = "left"
  /\ UNCHANGED <<phase, hook, stamps, kcpVars, passVars, cm, em, marker,
                 expired, faults, released>>

\* Fault: the exit status of `k0s etcd leave' is ignored.
LeaveStatusIgnored ==
  /\ node = "leaving"
  /\ node' = "left"
  /\ UNCHANGED <<phase, hook, stamps, kcpVars, passVars, workload, marker,
                 expired, faults, released>>

\* It exits with an error or is cut off: the membership is unknown, so no
\* marker and no ack.
NodeLeaveFails ==
  /\ node = "leaving"
  /\ node' = "idle"
  /\ \/ UNCHANGED member
     \/ member = "joined" /\ member' = "removed"
  /\ UNCHANGED <<phase, hook, stamps, kcpVars, passVars, cm, em, marker,
                 expired, faults, released>>

NodeMarks ==
  /\ node = "left"
  /\ marker' = TRUE /\ node' = "acking"
  /\ UNCHANGED <<phase, hook, stamps, kcpVars, passVars, workload, expired,
                 faults, released>>

NodeAcks ==
  /\ node = "acking"
  /\ cm' = "left" /\ node' = "idle"
  /\ UNCHANGED <<phase, hook, stamps, kcpVars, passVars, em, member, marker,
                 expired, faults, released>>

\* The run ends without an ack, the node reboots (/run is cleared), or it is
\* powered off for good.
NodeStops ==
  /\ node # "off"
  /\ \/ node = "acking" /\ node' = "idle" /\ UNCHANGED marker
     \/ node' = "idle" /\ marker' = FALSE /\ (marker \/ node # "idle")
     \/ node' = "off" /\ marker' = FALSE
  /\ UNCHANGED <<phase, hook, stamps, kcpVars, passVars, workload, expired,
                 faults, released>>

(***************************************************************************)
(* k0s: status of the EtcdMember, removal on spec.leave, and the name      *)
(* passing to another node's member once this node's is not in etcd.       *)
(***************************************************************************)
K0sReports ==
  /\ em.exists
  /\ \/ /\ em.id = NoID
        /\ em' = [em EXCEPT !.id = TargetID, !.joined = "True"]
     \/ /\ em.id = TargetID /\ em.joined = "True" /\ member = "removed"
        /\ em' = [em EXCEPT !.joined = "False"]
  /\ UNCHANGED <<phase, hook, stamps, kcpVars, passVars, cm, member, nodeVars,
                 expired, faults, released>>

K0sRemoves ==
  /\ em.exists /\ em.leave /\ em.joined = "True"
  /\ em' = [em EXCEPT !.joined = "False"]
  /\ member' = IF em.id = TargetID THEN "removed" ELSE member
  /\ UNCHANGED <<phase, hook, stamps, kcpVars, passVars, cm, nodeVars, expired,
                 faults, released>>

NameTaken ==
  /\ em.exists /\ em.id = TargetID /\ member = "removed" /\ ~em.leave
  /\ \E peer \in BOOLEAN : em' = OthersMember(peer)
  /\ UNCHANGED <<phase, hook, stamps, kcpVars, passVars, cm, member, nodeVars,
                 expired, faults, released>>

-----------------------------------------------------------------------------
Pass == \/ ReleaseNotK0s
        \/ ConnectAnswered \/ ConnectUnanswered
        \/ FirstRequest
        \/ InspectUnreadable \/ InspectNotOurs \/ InspectNotFound
        \/ InspectNotJoined \/ InspectProceed
        \/ ensureLeaveRequestedForced \/ stampLeaveRequestedAt
        \/ ReleaseOnAck \/ ReleaseOnStatus \/ ensureLeaveRequested
        \/ DelegateNotOurs \/ DelegateUnreadable \/ DelegateInspect
        \/ DelegateLeave \/ DelegateConflict

KCP == Pass \/ PassFails \/ ConnectForeign
       \/ FreezeChanges \/ KCPDeleted \/ stripEtcdLeaveHooks

Node == NodeAdds \/ NodeStarts \/ NodePoll \/ NodeLeaves \/ NodeLeaveFails
        \/ NodeMarks \/ NodeAcks \/ NodeStops

K0s == K0sReports \/ K0sRemoves \/ NameTaken

CAPI == DrainDone \/ Terminate

Next == KCP \/ Node \/ K0s \/ CAPI \/ \E c \in Clocks : Expire(c)

Spec == Init /\ [][Next]_vars

-----------------------------------------------------------------------------
(***************************************************************************)
(* Properties.                                                             *)
(***************************************************************************)

\* Releases that claim the member is out of etcd; the others warn (abandoned),
\* tear the whole cluster down, or have no k0s etcd to leave.
SilentReleases == {"ack", "status", "notFound", "notJoined"}

\* reconcileMemberLeave reports done without a warning only when it is safe
\* (ha_leave.go:257): at the moment a hook is removed on an ack, an absent
\* etcd-status key, an absent EtcdMember or Joined=False, the member is not a
\* joined member of etcd, whatever stale entry the ConfigMap held at the start.
SilentReleaseMeansLeft ==
  [][hook /\ ~hook' /\ released' \in SilentReleases => member # "joined"]_vars

(***************************************************************************)
(* Why SilentReleaseMeansLeft holds: the inductive invariant, in parts.    *)
(***************************************************************************)

\* The responder goes past `k0s etcd leave' only when the member is out.
ResponderInv == node \in {"left", "acking"} \/ marker => member = "removed"

\* From the forced write on, a `left' is this node's own: a stale one is gone.
AckInv ==
  /\ (requested \/ pc = "stamp") /\ cm = "left" => member = "removed"
  /\ requested /\ pc = "connected" /\ cmSeen = "left" => member = "removed"

\* What the EtcdMember shows of a member in etcd, and the reverse.
EtcdMemberInv ==
  /\ facts.memberAPI /\ member = "joined" =>
       em.exists /\ em.id # OtherID /\ em.joined # "False"
  /\ em.exists /\ em.id # OtherID => member \in {"joined", "removed"}
  /\ em.exists /\ ~facts.sharedName => member \in {"joined", "removed"}
  /\ em.id = NoID => em.joined = ""

\* A leave is requested only of a node that had joined, and a pass is between
\* two calls only while it holds the hook.
RequestInv ==
  /\ facts \in InitFacts
  /\ facts.registered \/ requested \/ pc \in {"force", "stamp"} =>
       member \in {"joined", "removed"}
  /\ pc = "patch" => requested
  /\ pc = "patch" /\ emSeen.joined = "False" => member = "removed"

HookInv ==
  /\ hook <=> released = "held"
  /\ pc # "idle" => hook
  /\ phase = "gone" => ~hook /\ node = "off"

\* The parts together.  Each is needed for another's step: the ack is trusted
\* because of AckInv, which rests on ResponderInv; Joined=False because of
\* EtcdMemberInv and RequestInv (reconcileMemberLeave and the responder).
LeaveInv == TypeOK /\ ResponderInv /\ AckInv /\ EtcdMemberInv /\ RequestInv /\ HookInv

\* The eviction as an abstract promise: see SafeEviction.
Membership == CASE member \in {"none", "unstarted"} -> "out"
                [] member = "joined"  -> "in"
                [] member = "removed" -> "removed"

\* Where reports may be missing, an absent one admits an orphan too.
Warned == \/ released \in {"abandoned", "teardown", "notK0s"}
          \/ released = "status" /\ ~ReporterReliable

Eviction == INSTANCE SafeEviction WITH
  held <- hook, membership <- Membership, warned <- Warned,
  gone <- phase = "gone"

\* The handshake implements the abstract eviction (refinement).
ImplementsSafeEviction == Eviction!Spec

\* Neither write of the handshake harms what was written or changed meanwhile.
\* Within an eviction cycle an ack is never overwritten: the responder acks once,
\* and after a reboot it could not ack again (ensureLeaveRequested).  k0s is only
\* ever asked to remove the member whose ID the Machine recorded at the first
\* inspection, and never one whose peer address another Machine reports, even when
\* the EtcdMember changes between the read and the patch (delegateMemberLeave).
OrderedWrites ==
  [][/\ requested /\ cm = "left" => cm' = "left"
     /\ em'.leave /\ ~em.leave => em'.id = memberID /\ memberID # NoID
                                  /\ ~em'.peerOther]_vars

\* The member is asked to leave only when CAPI has finished draining the node:
\* a leave during the drain would take the node's apiserver away under it.
NoLeaveDuringDrain == phase = "draining" => ~requested /\ ~delegated /\ ~em.leave
=============================================================================
