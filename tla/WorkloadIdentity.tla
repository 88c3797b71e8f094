-------------------------- MODULE WorkloadIdentity --------------------------
(***************************************************************************)
(* The identity of the workload cluster (ha_identity.go): the KCP pins the *)
(* UID of its kube-system Namespace, checks it before it changes the       *)
(* membership of the control plane, and freezes itself with a marker when  *)
(* an apiserver answers with another UID.                                  *)
(*                                                                         *)
(* A reconcile works on the copy of the KairosControlPlane it took from    *)
(* its cache and writes it back under an optimistic lock, while operators  *)
(* edit the object and the paths to the workload cluster (the endpoint and *)
(* the members' addresses) move from one cluster to another.               *)
(***************************************************************************)
EXTENDS Naturals, FiniteSets

CONSTANTS
  Members,    \* paths through member addresses
  UIDs,       \* what kube-system's UID can be read as
  Malformed,  \* those of them that are not UID-shaped
  MaxEdits    \* bound: edits of the KairosControlPlane and failed writes

Endpoint == "endpoint"
Paths    == Members \cup {Endpoint}

NoPin     == "noPin"
NotFrozen == "notFrozen"
Silent    == "silent"      \* a path that does not answer
Unread    == "unread"
NoPath    == "noPath"
Unpinned  == "unpinned"    \* verifyWorkloadIdentity with no pin

ASSUME IdentityAssumption ==
  /\ Malformed \subseteq UIDs /\ MaxEdits \in Nat
  /\ Endpoint \notin Members
  /\ UIDs \cap {NoPin, NotFrozen, Silent, Unread, "<none>", "<malformed>"} = {}
  /\ Members \cap {NoPath, Unpinned} = {}

Display == UIDs \cup {"<none>", "<malformed>"}

displayUID(pin) == IF pin = NoPin THEN "<none>"
                   ELSE IF pin \in Malformed THEN "<malformed>" ELSE pin

\* The two annotations: the pin, and the marker with the pin it was measured
\* against.
Annotations == [pin : UIDs \cup {NoPin}, mark : Display \cup {NotFrozen}]

VARIABLES
  obj,       \* the annotations on the API server
  cache, lag,    \* in the informer's cache; it does not have the last version
  kcp, current,  \* the reconcile's copy; it is the last version
  cluster,   \* "single": no identity applies; "starting"; "ready": kubeconfig
  pc, obs,   \* the reconcile: where it is, what observe... has read
  via, moved,    \* the path verified for an act; it moved since
  checked,   \* in memory: a full check less than a recheck interval ago
  serves,    \* the cluster each path leads to now
  edits,     \* how many of MaxEdits are left
  mismatch,  \* observer: the reconcile found a mismatch and went on
  repinned   \* observer: an operator changed the pin since the marker was set

object == <<obj, cache, lag>>
copy   == <<kcp, current>>
pass   == <<pc, obs, via, moved>>
vars   == <<object, copy, cluster, pass, checked, serves, edits, mismatch, repinned>>

Stages == {"sweep", "token", "orphan", "scale"}

TypeOK ==
  /\ obj \in Annotations /\ cache \in Annotations /\ kcp \in Annotations
  /\ lag \in BOOLEAN /\ current \in BOOLEAN
  /\ cluster \in {"single", "starting", "ready"}
  /\ pc \in {"idle", "clear", "gate", "observe"} \cup Stages
  /\ obs \in [Paths -> UIDs \cup {Silent, Unread}]
  /\ via \in Paths \cup {NoPath, Unpinned} /\ moved \in BOOLEAN
  /\ checked \in BOOLEAN /\ serves \in [Paths -> UIDs \cup {Silent}]
  /\ edits \in 0..MaxEdits /\ mismatch \in BOOLEAN /\ repinned \in BOOLEAN

NothingRead == [p \in Paths |-> Unread]
NoCopy == [pin |-> NoPin, mark |-> NotFrozen]

Init ==
  /\ obj \in [pin : UIDs \cup {NoPin}, mark : {NotFrozen}]
  /\ cache = obj /\ lag = FALSE
  /\ kcp = NoCopy /\ current = FALSE
  /\ cluster = "single"
  /\ pc = "idle" /\ obs = NothingRead /\ via = NoPath /\ moved = FALSE
  /\ checked = FALSE
  /\ serves \in [Paths -> UIDs \cup {Silent}]
  /\ edits = MaxEdits /\ mismatch = FALSE /\ repinned = FALSE

-----------------------------------------------------------------------------
(***************************************************************************)
(* Writing and reading the KairosControlPlane.                             *)
(***************************************************************************)

\* Fault: the patch carries no resourceVersion.
PatchWithoutLock(field, value) ==
  /\ obj' = [obj EXCEPT ![field] = value]
  /\ lag' = TRUE /\ UNCHANGED <<cache, edits>>

\* patchKCPAnnotations: merged under the resourceVersion the reconcile read.
patchKCPAnnotations(field, value) ==
  /\ current
  /\ obj' = [obj EXCEPT ![field] = value]
  /\ lag' = TRUE /\ UNCHANGED <<cache, edits>>

\* It conflicts, or the write fails.
PatchFails ==
  /\ \/ ~current /\ UNCHANGED edits
     \/ edits > 0 /\ edits' = edits - 1
  /\ UNCHANGED object

Goto(where) == pc' = where /\ obs' = NothingRead /\ UNCHANGED <<via, moved>>

\* The reconcile goes on with its copy as it was, or as the patch returned it.
Continue(where) == Goto(where) /\ UNCHANGED <<copy, mismatch>>
Patched(where)  == Goto(where) /\ kcp' = obj' /\ current' = TRUE /\ UNCHANGED mismatch

\* It ends, and with it its copy.
Return == Goto("idle") /\ kcp' = NoCopy /\ current' = FALSE /\ mismatch' = FALSE

\* Fault: the observed UID is recorded in place of the pin.
RecordObserved(uid) ==
  /\ patchKCPAnnotations("mark", displayUID(uid))
  /\ checked' = FALSE /\ repinned' = FALSE

\* tripIdentityFreeze: uid was read where kcp.pin is pinned.
RecordMismatch(uid) ==
  /\ patchKCPAnnotations("mark", displayUID(kcp.pin))
  /\ checked' = FALSE /\ repinned' = FALSE

tripIdentityFreeze(uid) ==
  RecordMismatch(uid) \/ (PatchFails /\ UNCHANGED <<checked, repinned>>)

-----------------------------------------------------------------------------
(***************************************************************************)
(* reconcileWorkloadIdentity.                                              *)
(***************************************************************************)
Begin ==
  /\ pc = "idle"
  /\ kcp' = cache /\ current' = ~lag
  /\ Goto("clear")
  /\ UNCHANGED <<object, cluster, checked, serves, edits, mismatch, repinned>>

Repinned == kcp.mark # NotFrozen /\ kcp.mark # displayUID(kcp.pin)

\* clearRepinnedIdentityFreeze, and what follows when it fails.
clearRepinnedIdentityFreeze ==
  /\ pc = "clear" /\ Repinned
  /\ \/ /\ patchKCPAnnotations("mark", NotFrozen)
        /\ checked' = FALSE /\ Patched("gate")
     \/ PatchFails /\ Return /\ UNCHANGED checked
  /\ UNCHANGED <<cluster, serves, repinned>>

\* workloadIdentityFrozen: hold, and keep the next full check due.
HoldFrozen ==
  /\ pc = "clear" /\ kcp.mark # NotFrozen /\ ~Repinned
  /\ checked' = FALSE /\ Return
  /\ UNCHANGED <<object, cluster, serves, edits, repinned>>

NothingToClear ==
  /\ pc = "clear" /\ kcp.mark = NotFrozen
  /\ Continue("gate")
  /\ UNCHANGED <<object, cluster, checked, serves, edits, repinned>>

identityApplies == kcp.pin # NoPin \/ cluster # "single"

\* Nothing to check: no identity applies, or the pin was checked lately.
GateOpen ==
  /\ pc = "gate"
  /\ ~identityApplies \/ (kcp.pin # NoPin /\ checked)
  /\ Continue("sweep")
  /\ UNCHANGED <<object, cluster, checked, serves, edits, repinned>>

\* Fault: a pin that is due but cannot be taken yet does not hold.
GateOpensUnpinned ==
  /\ pc = "gate" /\ identityApplies /\ kcp.pin = NoPin /\ cluster # "ready"
  /\ Continue("sweep")
  /\ UNCHANGED <<object, cluster, checked, serves, edits, repinned>>

\* A pin is due and the kubeconfig is not ready.
GateHold ==
  /\ pc = "gate" /\ identityApplies /\ kcp.pin = NoPin /\ cluster # "ready"
  /\ Return
  /\ UNCHANGED <<object, cluster, checked, serves, edits, repinned>>

GateObserve ==
  /\ pc = "gate" /\ identityApplies
  /\ IF kcp.pin = NoPin THEN cluster = "ready" ELSE ~checked
  /\ Continue("observe")
  /\ UNCHANGED <<object, cluster, checked, serves, edits, repinned>>

\* Fault: only the endpoint is asked.
EndpointOnly == {Endpoint}

\* observeWorkloadIdentity asks the endpoint and every member, one by one.
ObservedPaths == Paths

readWorkloadIdentity(p) ==
  /\ pc = "observe" /\ p \in ObservedPaths /\ obs[p] = Unread
  /\ obs' = [obs EXCEPT ![p] = serves[p]]
  /\ UNCHANGED <<object, copy, cluster, pc, via, moved, checked, serves, edits,
                 mismatch, repinned>>

Observed == pc = "observe" /\ \A p \in ObservedPaths : obs[p] # Unread
answered == {obs[p] : p \in ObservedPaths} \ {Silent}

\* pinWorkloadIdentity
PinUnanswered ==
  /\ Observed /\ kcp.pin = NoPin /\ answered = {}
  /\ Return
  /\ UNCHANGED <<object, cluster, checked, serves, edits, repinned>>

\* The answers that may become the pin.
Unanimous(uid) == answered = {uid} /\ uid \notin Malformed

PinDisagree ==
  /\ Observed /\ kcp.pin = NoPin
  /\ \E uid \in answered : ~Unanimous(uid) /\ tripIdentityFreeze(uid)
  /\ Return
  /\ UNCHANGED <<cluster, serves>>

pinWorkloadIdentity ==
  /\ Observed /\ kcp.pin = NoPin
  /\ \E uid \in answered :
       /\ Unanimous(uid)
       /\ \/ /\ patchKCPAnnotations("pin", uid)
             /\ checked' = TRUE /\ Patched("sweep")
          \/ PatchFails /\ Return /\ UNCHANGED checked
  /\ UNCHANGED <<cluster, serves, repinned>>

\* The recheck of a pin.
RecheckAgrees ==
  /\ Observed /\ kcp.pin # NoPin /\ answered \subseteq {kcp.pin}
  /\ checked' = (checked \/ answered # {})
  /\ Continue("sweep")
  /\ UNCHANGED <<object, cluster, serves, edits, repinned>>

RecheckDisagrees ==
  /\ Observed /\ kcp.pin # NoPin
  /\ \E uid \in answered \ {kcp.pin} : tripIdentityFreeze(uid)
  /\ Return
  /\ UNCHANGED <<cluster, serves>>

-----------------------------------------------------------------------------
(***************************************************************************)
(* The stages of reconcileMachines that change the membership, each on a   *)
(* connection of its own.                                                  *)
(***************************************************************************)
After(stage) == CASE stage = "sweep" -> "token" [] stage = "token" -> "orphan"
                  [] stage = "orphan" -> "scale"

\* Nothing to do at this stage, or no apiserver answered.
StageEnds ==
  /\ pc \in Stages /\ via = NoPath
  /\ \/ pc # "scale" /\ Continue(After(pc))
     \/ pc # "token" /\ Return
  /\ UNCHANGED <<object, cluster, checked, serves, edits, repinned>>

Verified(p) == /\ via' = p /\ moved' = FALSE
               /\ UNCHANGED <<object, copy, pc, obs, checked, edits, mismatch, repinned>>

\* connectVerified with verifyPinnedWorkloadIdentity: the etcd leave and the
\* orphan members.
connectVerified(p) ==
  /\ pc \in {"sweep", "orphan"} /\ via = NoPath /\ kcp.pin # NoPin
  /\ serves[p] # Silent
  /\ IF serves[p] = kcp.pin THEN Verified(p)
     ELSE tripIdentityFreeze(serves[p]) /\ Return
  /\ UNCHANGED <<cluster, serves>>

\* verifyWorkloadIdentity through the endpoint finds nothing wrong, or another
\* cluster.
EndpointVerified == \/ kcp.pin = NoPin /\ Verified(Unpinned)
                    \/ kcp.pin # NoPin /\ serves[Endpoint] = kcp.pin /\ Verified(Endpoint)

EndpointForeign == kcp.pin # NoPin /\ serves[Endpoint] \notin {kcp.pin, Silent}

\* reconcileK0sJoinTokenLifetime only logs the error of verifyWorkloadIdentity;
\* reconcileMachines then looks for the marker on its copy.
MaintainTokens ==
  /\ pc = "token" /\ via = NoPath /\ cluster = "ready"
  /\ \/ EndpointVerified
     \/ /\ EndpointForeign
        /\ \/ RecordMismatch(serves[Endpoint]) /\ Return
           \/ /\ PatchFails /\ Goto("orphan") /\ mismatch' = TRUE
              /\ UNCHANGED <<copy, checked, repinned>>
  /\ UNCHANGED <<cluster, serves>>

\* Fault: a recent full check is good enough.
PreflightTrustsRecheck ==
  /\ pc = "scale" /\ via = NoPath
  /\ \/ EndpointVerified
     \/ kcp.pin # NoPin /\ checked /\ Verified(Endpoint)
     \/ EndpointForeign /\ tripIdentityFreeze(serves[Endpoint]) /\ Return
  /\ UNCHANGED <<cluster, serves>>

\* identityPreflight before a delete, and the check before a token is minted.
identityPreflight ==
  /\ pc = "scale" /\ via = NoPath
  /\ \/ EndpointVerified
     \/ EndpointForeign /\ tripIdentityFreeze(serves[Endpoint]) /\ Return
  /\ UNCHANGED <<cluster, serves>>

\* The leave request, the token write, the member removal or the delete.
Act ==
  /\ pc \in Stages /\ via # NoPath
  /\ via' = NoPath /\ moved' = FALSE /\ obs' = NothingRead
  /\ IF pc = "scale"
     THEN pc' = "idle" /\ kcp' = NoCopy /\ current' = FALSE /\ mismatch' = FALSE
     ELSE pc' = After(pc) /\ UNCHANGED <<copy, mismatch>>
  /\ UNCHANGED <<object, cluster, checked, serves, edits, repinned>>

-----------------------------------------------------------------------------
(***************************************************************************)
(* Operators, the cache, time and the workload cluster.                    *)
(***************************************************************************)
Edit(o) ==
  /\ edits > 0 /\ edits' = edits - 1
  /\ obj' = o /\ lag' = TRUE /\ current' = FALSE
  /\ UNCHANGED <<cache, kcp, cluster, pass, checked, serves, mismatch>>

\* The pin is set to another UID or removed.
Repin(pin) == /\ pin # obj.pin
              /\ Edit([obj EXCEPT !.pin = pin]) /\ repinned' = TRUE

RemoveMark == /\ obj.mark # NotFrozen
              /\ Edit([obj EXCEPT !.mark = NotFrozen]) /\ UNCHANGED repinned

\* Any other change of the object, which moves its resourceVersion.
OtherEdit == Edit(obj) /\ UNCHANGED repinned

CacheSync ==
  /\ lag
  /\ cache' = obj /\ lag' = FALSE
  /\ UNCHANGED <<obj, copy, cluster, pass, checked, serves, edits, mismatch, repinned>>

\* identityRecheckDue again: the interval is over, or the controller restarted.
RecheckFallsDue ==
  /\ checked /\ checked' = FALSE
  /\ UNCHANGED <<object, copy, cluster, pass, serves, edits, mismatch, repinned>>

\* A Machine registers, the kubeconfig becomes ready, the replica count changes.
ClusterChanges ==
  /\ pc = "idle"
  /\ \E c \in {"single", "starting", "ready"} \ {cluster} : cluster' = c
  /\ UNCHANGED <<object, copy, pass, checked, serves, edits, mismatch, repinned>>

PathMoves(p) ==
  /\ \E to \in UIDs \cup {Silent} : to # serves[p] /\ serves' = [serves EXCEPT ![p] = to]
  /\ moved' = (moved \/ p = via)
  /\ UNCHANGED <<object, copy, cluster, pc, obs, via, checked, edits, mismatch, repinned>>

-----------------------------------------------------------------------------
Reconcile ==
  \/ Begin \/ clearRepinnedIdentityFreeze \/ HoldFrozen \/ NothingToClear
  \/ GateOpen \/ GateHold \/ GateObserve
  \/ \E p \in Paths : readWorkloadIdentity(p) \/ connectVerified(p)
  \/ PinUnanswered \/ PinDisagree \/ pinWorkloadIdentity
  \/ RecheckAgrees \/ RecheckDisagrees
  \/ StageEnds \/ MaintainTokens \/ identityPreflight \/ Act

Operator == RemoveMark \/ OtherEdit \/ \E pin \in UIDs \cup {NoPin} : Repin(pin)

Next == \/ Reconcile \/ Operator
        \/ CacheSync \/ RecheckFallsDue \/ ClusterChanges
        \/ \E p \in Paths : PathMoves(p)

Spec == Init /\ [][Next]_vars

(***************************************************************************)
(* Fairness: a pass under way ends, the cache catches up, and the recheck  *)
(* interval is over at some time. Nothing brings the next pass: a control  *)
(* plane that is neither held nor frozen gets Result{}, without a requeue. *)
(***************************************************************************)
FairSpec == /\ Spec /\ WF_vars(Reconcile /\ pc # "idle")
            /\ WF_vars(CacheSync) /\ WF_vars(RecheckFallsDue)
-----------------------------------------------------------------------------
(***************************************************************************)
(* Properties.                                                             *)
(***************************************************************************)

\* A pin that is set is never replaced by the KCP (docs/HIGH_AVAILABILITY.md:227),
\* not even one an operator sets while the KCP is taking its own.
PinIsKept ==
  [][obj.pin # NoPin /\ obj'.pin # obj.pin =>
       \E pin \in UIDs \cup {NoPin} : Repin(pin)]_vars

\* The freeze never clears by itself (docs/HIGH_AVAILABILITY.md:187) and keeps its
\* first observation: the marker goes only when an operator removes it, or has
\* changed the pin since it was set (clearRepinnedIdentityFreeze).
FreezeIsSticky ==
  [][obj.mark # NotFrozen /\ obj'.mark # obj.mark =>
       obj'.mark = NotFrozen /\ (RemoveMark \/ repinned)]_vars

\* No member is asked to leave, removed or deleted, and no token written, on a
\* connection to another cluster than the pinned one, unless the path moved
\* after it was verified; without a pin, only where no identity applies.
ActsOnPinnedCluster ==
  [][Act => IF kcp.pin = NoPin THEN cluster = "single"
            ELSE moved \/ serves[via] = kcp.pin]_vars

\* As long as events keep bringing passes, a path that keeps leading to another
\* cluster than the pinned one, though the others agree with the pin, ends in a freeze
\* that stays. The check itself asks for no pass: the once-a-minute recheck of
\* ha_identity.go:43-44 is the most a pass does, and comes only with one.
MismatchFreezes ==
  []<><<Begin>>_vars =>
    \A p \in Paths :
      <>[](obj.pin # NoPin /\ serves[p] \notin {obj.pin, Silent}) => <>[](obj.mark # NotFrozen)

(***************************************************************************)
(* Why FreezeIsSticky and PinIsKept hold: the inductive invariant.         *)
(***************************************************************************)

\* A copy of the last version is the object, and so is a cache that does not lag.
CopyInv == (current => kcp = obj) /\ (~lag => cache = obj)

\* Until an operator changes the pin, the marker records the pin there is.
MarkInv == obj.mark # NotFrozen /\ ~repinned => obj.mark = displayUID(obj.pin)

\* Past the gate the copy shows no freeze, and no pin only where none is due.
GateInv ==
  /\ pc \in {"gate", "observe"} \cup Stages => kcp.mark = NotFrozen
  /\ pc \in Stages /\ kcp.pin = NoPin => cluster = "single"
  /\ via \in Paths => kcp.pin # NoPin /\ (moved \/ serves[via] = kcp.pin)
  /\ via = Unpinned => kcp.pin = NoPin
  /\ via # NoPath => pc \in Stages

\* A marker always tells which pin it was measured against, so a re-pin is
\* recognised as one (tripIdentityFreeze), and the gate lets nothing pass that it
\* should hold (reconcileWorkloadIdentity).
IdentityInv == TypeOK /\ CopyInv /\ MarkInv /\ GateInv
=============================================================================
