----------------------- MODULE WorkloadIdentity_proofs -----------------------
(***************************************************************************)
(* Proofs about WorkloadIdentity, for any set of paths and UIDs and any    *)
(* number of edits and failed writes.                                      *)
(***************************************************************************)
EXTENDS WorkloadIdentity, TLAPS

USE IdentityAssumption DEF IdentityAssumption, Endpoint, Paths, NoPin, NotFrozen, Silent, Unread,
                           NoPath, Unpinned, Stages

\* displayUID returns what an annotation may hold, and never the absence of one.
LEMMA DisplayType ==
  ASSUME NEW pin \in UIDs \cup {NoPin}
  PROVE  displayUID(pin) \in Display /\ displayUID(pin) # NotFrozen
  BY DEF displayUID, Display

LEMMA InitIdentityInv == Init => IdentityInv
  <1> SUFFICES ASSUME Init PROVE IdentityInv
    OBVIOUS
  <1>a. obj \in Annotations /\ cache \in Annotations /\ kcp \in Annotations
    BY DEF Init, Annotations, NoCopy
  <1>b. obs \in [Paths -> UIDs \cup {Silent, Unread}]
    BY DEF Init, NothingRead
  <1>c. edits \in 0..MaxEdits
    BY DEF Init
  <1>d. /\ pc \in {"idle", "clear", "gate", "observe"} \cup Stages
        /\ via \in Paths \cup {NoPath, Unpinned}
        /\ cluster \in {"single", "starting", "ready"}
        /\ serves \in [Paths -> UIDs \cup {Silent}]
    BY DEF Init
  <1>e. /\ lag \in BOOLEAN /\ current \in BOOLEAN /\ moved \in BOOLEAN
        /\ checked \in BOOLEAN /\ mismatch \in BOOLEAN /\ repinned \in BOOLEAN
    BY DEF Init
  <1>1. TypeOK
    BY <1>a, <1>b, <1>c, <1>d, <1>e DEF TypeOK
  <1>2. CopyInv /\ MarkInv /\ GateInv
    BY DEF Init, CopyInv, MarkInv, GateInv, NoCopy
  <1> QED BY <1>1, <1>2 DEF IdentityInv

\* A patch writes one annotation of the object, and only a current copy's.
LEMMA PatchMark ==
  ASSUME IdentityInv, NEW mark \in Display \cup {NotFrozen},
         patchKCPAnnotations("mark", mark)
  PROVE  /\ obj' = [pin |-> obj.pin, mark |-> mark] /\ obj' \in Annotations
         /\ lag' = TRUE /\ cache' = cache /\ edits' = edits /\ kcp = obj
  BY DEF IdentityInv, TypeOK, CopyInv, Annotations, patchKCPAnnotations

LEMMA PatchPin ==
  ASSUME IdentityInv, NEW pin \in UIDs, patchKCPAnnotations("pin", pin)
  PROVE  /\ obj' = [pin |-> pin, mark |-> obj.mark] /\ obj' \in Annotations
         /\ lag' = TRUE /\ cache' = cache /\ edits' = edits /\ kcp = obj
  BY DEF IdentityInv, TypeOK, CopyInv, Annotations, patchKCPAnnotations

\* Recording a mismatch: the marker names the pin there is.
LEMMA RecordKeeps ==
  ASSUME IdentityInv, NEW uid, RecordMismatch(uid)
  PROVE  /\ obj' = [pin |-> obj.pin, mark |-> displayUID(obj.pin)]
         /\ obj' \in Annotations /\ obj'.mark # NotFrozen
         /\ lag' = TRUE /\ cache' = cache /\ edits' = edits /\ kcp = obj
         /\ checked' = FALSE /\ repinned' = FALSE
  <1>1. displayUID(kcp.pin) \in Display /\ displayUID(kcp.pin) # NotFrozen
    BY DisplayType DEF IdentityInv, TypeOK, Annotations
  <1>2. patchKCPAnnotations("mark", displayUID(kcp.pin)) /\ checked' = FALSE /\ repinned' = FALSE
    BY DEF RecordMismatch
  <1>3. /\ obj' = [pin |-> obj.pin, mark |-> displayUID(kcp.pin)] /\ obj' \in Annotations
        /\ lag' = TRUE /\ cache' = cache /\ edits' = edits /\ kcp = obj
    BY <1>1, <1>2, PatchMark
  <1> QED BY <1>1, <1>2, <1>3

\* tripIdentityFreeze, whichever way the write goes.
LEMMA TripKeeps ==
  ASSUME IdentityInv, NEW uid, tripIdentityFreeze(uid), Return
  PROVE  /\ obj' \in Annotations /\ cache' \in Annotations /\ lag' \in BOOLEAN
         /\ edits' \in 0..MaxEdits /\ checked' \in BOOLEAN /\ repinned' \in BOOLEAN
         /\ CopyInv' /\ MarkInv'
  <1>1. CASE RecordMismatch(uid)
    <2>1. /\ obj' = [pin |-> obj.pin, mark |-> displayUID(obj.pin)]
          /\ obj' \in Annotations /\ obj'.mark # NotFrozen
          /\ lag' = TRUE /\ cache' = cache /\ edits' = edits
          /\ checked' = FALSE /\ repinned' = FALSE
      BY <1>1, RecordKeeps
    <2>2. CopyInv' /\ MarkInv'
      BY <2>1 DEF Return, CopyInv, MarkInv, displayUID
    <2> QED BY <2>1, <2>2 DEF IdentityInv, TypeOK
  <1>2. CASE PatchFails /\ UNCHANGED <<checked, repinned>>
    BY <1>2 DEF PatchFails, Return, object, IdentityInv, TypeOK, CopyInv, MarkInv
  <1> QED BY <1>1, <1>2 DEF tripIdentityFreeze

\* A reconcile that ends leaves nothing behind of its own.
LEMMA ReturnKeeps ==
  ASSUME IdentityInv, Return, via = NoPath
  PROVE  /\ pc' = "idle" /\ obs' \in [Paths -> UIDs \cup {Silent, Unread}]
         /\ via' = NoPath /\ moved' \in BOOLEAN /\ kcp' \in Annotations
         /\ current' = FALSE /\ mismatch' \in BOOLEAN /\ GateInv'
  BY DEF Return, Goto, IdentityInv, TypeOK, GateInv, NothingRead, NoCopy, Annotations

\* What every trip at the end of a reconcile preserves.
LEMMA TripReturns ==
  ASSUME IdentityInv, NEW uid, tripIdentityFreeze(uid), Return, via = NoPath,
         UNCHANGED <<cluster, serves>>
  PROVE  IdentityInv'
  <1>1. TypeOK'
    BY TripKeeps, ReturnKeeps DEF IdentityInv, TypeOK
  <1> QED BY <1>1, TripKeeps, ReturnKeeps DEF IdentityInv

\* A reconcile that only ends.
LEMMA OnlyReturns ==
  ASSUME IdentityInv, Return, via = NoPath, checked' \in BOOLEAN,
         UNCHANGED <<object, cluster, serves, edits, repinned>>
  PROVE  IdentityInv'
  <1>1. TypeOK'
    BY ReturnKeeps DEF IdentityInv, TypeOK, object
  <1>2. CopyInv' /\ MarkInv'
    BY ReturnKeeps DEF IdentityInv, CopyInv, MarkInv, object
  <1> QED BY <1>1, <1>2, ReturnKeeps DEF IdentityInv

\* No path is verified outside the stages.
LEMMA NoPathVerified ==
  ASSUME IdentityInv, pc \notin Stages
  PROVE  via = NoPath
  BY DEF IdentityInv, GateInv

-----------------------------------------------------------------------------
(***************************************************************************)
(* The other ways a step of the reconcile can go.                          *)
(***************************************************************************)

\* It goes on with the copy it has.
LEMMA ContinueKeeps ==
  ASSUME IdentityInv, NEW where \in {"gate", "observe"} \cup Stages, Continue(where),
         via = NoPath, kcp.mark = NotFrozen, checked' \in BOOLEAN,
         where \in Stages /\ kcp.pin = NoPin => cluster = "single",
         UNCHANGED <<object, cluster, serves, edits, repinned>>
  PROVE  IdentityInv'
  <1>1. TypeOK'
    BY DEF IdentityInv, TypeOK, Continue, Goto, object, copy, NothingRead
  <1>2. CopyInv' /\ MarkInv'
    BY DEF IdentityInv, CopyInv, MarkInv, Continue, object, copy
  <1>3. GateInv'
    BY DEF GateInv, Continue, Goto, copy
  <1> QED BY <1>1, <1>2, <1>3 DEF IdentityInv

\* It goes on with the object its patch returned.
LEMMA PatchedKeeps ==
  ASSUME IdentityInv, NEW where \in {"gate", "sweep"}, Patched(where), via = NoPath,
         obj' \in Annotations, lag' = TRUE, cache' = cache, edits' = edits,
         obj'.mark = NotFrozen, where = "sweep" => obj'.pin # NoPin,
         checked' \in BOOLEAN, UNCHANGED <<cluster, serves, repinned>>
  PROVE  IdentityInv'
  <1>1. TypeOK'
    BY DEF IdentityInv, TypeOK, Patched, Goto, NothingRead
  <1>2. CopyInv' /\ MarkInv'
    BY DEF CopyInv, MarkInv, Patched
  <1>3. GateInv'
    BY DEF GateInv, Patched, Goto
  <1> QED BY <1>1, <1>2, <1>3 DEF IdentityInv

\* A write fails and the reconcile ends.
LEMMA FailReturns ==
  ASSUME IdentityInv, PatchFails, Return, via = NoPath,
         UNCHANGED <<cluster, serves, checked, repinned>>
  PROVE  IdentityInv'
  BY TripReturns DEF tripIdentityFreeze

\* A connection is verified.
LEMMA VerifiedKeeps ==
  ASSUME IdentityInv, NEW p \in Paths \cup {Unpinned}, Verified(p), pc \in Stages,
         p \in Paths => kcp.pin # NoPin /\ serves[p] = kcp.pin,
         p = Unpinned => kcp.pin = NoPin,
         UNCHANGED <<cluster, serves>>
  PROVE  IdentityInv'
  <1>1. TypeOK'
    BY DEF IdentityInv, TypeOK, Verified, object, copy
  <1>2. CopyInv' /\ MarkInv'
    BY DEF IdentityInv, CopyInv, MarkInv, Verified, object, copy
  <1>3. GateInv'
    BY DEF IdentityInv, GateInv, Verified, copy
  <1> QED BY <1>1, <1>2, <1>3 DEF IdentityInv

LEMMA EndpointVerifiedKeeps ==
  ASSUME IdentityInv, EndpointVerified, pc \in Stages, UNCHANGED <<cluster, serves>>
  PROVE  IdentityInv'
  BY VerifiedKeeps DEF EndpointVerified

-----------------------------------------------------------------------------
(***************************************************************************)
(* One lemma per part of Next.                                             *)
(***************************************************************************)
LEMMA GateKeeps ==
  ASSUME IdentityInv,
         \/ Begin \/ clearRepinnedIdentityFreeze \/ HoldFrozen \/ NothingToClear
         \/ GateOpen \/ GateHold \/ GateObserve
  PROVE  IdentityInv'
  <1>1. CASE Begin
    <2>1. via = NoPath
      BY <1>1, NoPathVerified DEF Begin
    <2>2. TypeOK'
      BY <1>1 DEF Begin, IdentityInv, TypeOK, Goto, object, NothingRead
    <2>3. CopyInv' /\ MarkInv'
      BY <1>1 DEF Begin, IdentityInv, TypeOK, CopyInv, MarkInv, object
    <2>4. GateInv'
      BY <1>1, <2>1 DEF Begin, Goto, GateInv
    <2> QED BY <2>2, <2>3, <2>4 DEF IdentityInv
  <1>2. CASE clearRepinnedIdentityFreeze
    <2>1. via = NoPath
      BY <1>2, NoPathVerified DEF clearRepinnedIdentityFreeze
    <2>2. CASE PatchFails /\ Return /\ UNCHANGED checked
      BY <1>2, <2>1, <2>2, FailReturns DEF clearRepinnedIdentityFreeze
    <2>3. CASE patchKCPAnnotations("mark", NotFrozen) /\ checked' = FALSE /\ Patched("gate")
      <3>1. /\ obj' = [pin |-> obj.pin, mark |-> NotFrozen] /\ obj' \in Annotations
            /\ lag' = TRUE /\ cache' = cache /\ edits' = edits
        BY <2>3, PatchMark
      <3> QED BY <1>2, <2>1, <2>3, <3>1, PatchedKeeps DEF clearRepinnedIdentityFreeze
    <2> QED BY <1>2, <2>2, <2>3 DEF clearRepinnedIdentityFreeze
  <1>3. CASE HoldFrozen
    BY <1>3, NoPathVerified, OnlyReturns DEF HoldFrozen
  <1>4. CASE NothingToClear
    BY <1>4, NoPathVerified, ContinueKeeps DEF NothingToClear, IdentityInv, TypeOK
  <1>5. CASE GateOpen
    BY <1>5, NoPathVerified, ContinueKeeps
       DEF GateOpen, identityApplies, IdentityInv, TypeOK, GateInv
  <1>6. CASE GateHold
    BY <1>6, NoPathVerified, OnlyReturns DEF GateHold, IdentityInv, TypeOK
  <1>7. CASE GateObserve
    BY <1>7, NoPathVerified, ContinueKeeps DEF GateObserve, IdentityInv, TypeOK, GateInv
  <1> QED BY <1>1, <1>2, <1>3, <1>4, <1>5, <1>6, <1>7

\* Answers are UIDs: a path that does not answer gives none.
LEMMA AnsweredType ==
  ASSUME IdentityInv, Observed
  PROVE  answered \subseteq UIDs
  BY DEF IdentityInv, TypeOK, Observed, answered, ObservedPaths

LEMMA ObserveKeeps ==
  ASSUME IdentityInv,
         \/ \E p \in Paths : readWorkloadIdentity(p)
         \/ PinUnanswered \/ PinDisagree \/ pinWorkloadIdentity
         \/ RecheckAgrees \/ RecheckDisagrees
  PROVE  IdentityInv'
  <1>1. CASE \E p \in Paths : readWorkloadIdentity(p)
    <2>1. TypeOK'
      BY <1>1 DEF readWorkloadIdentity, IdentityInv, TypeOK, object, copy
    <2>2. CopyInv' /\ MarkInv' /\ GateInv'
      BY <1>1 DEF readWorkloadIdentity, IdentityInv, CopyInv, MarkInv, GateInv, object, copy
    <2> QED BY <2>1, <2>2 DEF IdentityInv
  <1>2. CASE PinUnanswered
    BY <1>2, NoPathVerified, OnlyReturns DEF PinUnanswered, Observed, IdentityInv, TypeOK
  <1>3. CASE PinDisagree
    BY <1>3, NoPathVerified, TripReturns DEF PinDisagree, Observed
  <1>4. CASE pinWorkloadIdentity
    <2>1. via = NoPath
      BY <1>4, NoPathVerified DEF pinWorkloadIdentity, Observed
    <2>2. PICK uid \in answered :
            /\ Unanimous(uid)
            /\ \/ /\ patchKCPAnnotations("pin", uid)
                  /\ checked' = TRUE /\ Patched("sweep")
               \/ PatchFails /\ Return /\ UNCHANGED checked
      BY <1>4 DEF pinWorkloadIdentity
    <2>3. CASE PatchFails /\ Return /\ UNCHANGED checked
      BY <1>4, <2>1, <2>3, FailReturns DEF pinWorkloadIdentity
    <2>4. CASE patchKCPAnnotations("pin", uid) /\ checked' = TRUE /\ Patched("sweep")
      <3>1. uid \in UIDs
        BY <1>4, AnsweredType DEF pinWorkloadIdentity
      <3>2. /\ obj' = [pin |-> uid, mark |-> obj.mark] /\ obj' \in Annotations
            /\ lag' = TRUE /\ cache' = cache /\ edits' = edits /\ kcp = obj
        BY <2>4, <3>1, PatchPin
      <3>3. obj.mark = NotFrozen
        BY <1>4, <3>2 DEF pinWorkloadIdentity, Observed, IdentityInv, GateInv
      <3>4. obj'.mark = NotFrozen /\ obj'.pin # NoPin
        BY <3>1, <3>2, <3>3
      <3> QED BY <1>4, <2>1, <2>4, <3>2, <3>4, PatchedKeeps DEF pinWorkloadIdentity
    <2> QED BY <2>2, <2>3, <2>4
  <1>5. CASE RecheckAgrees
    BY <1>5, NoPathVerified, ContinueKeeps
       DEF RecheckAgrees, Observed, IdentityInv, TypeOK, GateInv
  <1>6. CASE RecheckDisagrees
    BY <1>6, NoPathVerified, TripReturns DEF RecheckDisagrees, Observed
  <1> QED BY <1>1, <1>2, <1>3, <1>4, <1>5, <1>6

LEMMA StagesKeep ==
  ASSUME IdentityInv,
         \/ \E p \in Paths : connectVerified(p)
         \/ StageEnds \/ MaintainTokens \/ identityPreflight \/ Act
  PROVE  IdentityInv'
  <1>1. CASE \E p \in Paths : connectVerified(p)
    <2>1. PICK p \in Paths : connectVerified(p)
      BY <1>1
    <2>2. CASE serves[p] = kcp.pin
      BY <2>1, <2>2, VerifiedKeeps DEF connectVerified
    <2>3. CASE serves[p] # kcp.pin
      BY <2>1, <2>3, TripReturns DEF connectVerified
    <2> QED BY <2>2, <2>3
  <1>2. CASE StageEnds
    <2>1. kcp.mark = NotFrozen /\ (kcp.pin = NoPin => cluster = "single")
      BY <1>2 DEF StageEnds, IdentityInv, GateInv
    <2>2. checked' \in BOOLEAN
      BY <1>2 DEF StageEnds, IdentityInv, TypeOK
    <2>3. CASE Return
      BY <1>2, <2>2, <2>3, OnlyReturns DEF StageEnds
    <2>4. CASE pc # "scale" /\ Continue(After(pc))
      <3>1. After(pc) \in Stages
        BY <1>2, <2>4 DEF StageEnds, After
      <3> QED BY <1>2, <2>1, <2>2, <2>4, <3>1, ContinueKeeps DEF StageEnds
    <2> QED BY <1>2, <2>3, <2>4 DEF StageEnds
  <1>3. CASE MaintainTokens
    <2>1. CASE EndpointVerified
      BY <1>3, <2>1, EndpointVerifiedKeeps DEF MaintainTokens
    <2>2. CASE RecordMismatch(serves[Endpoint]) /\ Return
      BY <1>3, <2>2, TripReturns DEF MaintainTokens, tripIdentityFreeze
    <2>3. CASE /\ PatchFails /\ Goto("orphan") /\ mismatch' = TRUE
               /\ UNCHANGED <<copy, checked, repinned>>
      <3>1. TypeOK'
        BY <1>3, <2>3 DEF MaintainTokens, PatchFails, Goto, IdentityInv, TypeOK, object, copy, NothingRead
      <3>2. CopyInv' /\ MarkInv'
        BY <2>3 DEF PatchFails, IdentityInv, CopyInv, MarkInv, object, copy
      <3>3. GateInv'
        BY <1>3, <2>3 DEF MaintainTokens, Goto, IdentityInv, GateInv, copy
      <3> QED BY <3>1, <3>2, <3>3 DEF IdentityInv
    <2> QED BY <1>3, <2>1, <2>2, <2>3 DEF MaintainTokens
  <1>4. CASE identityPreflight
    <2>1. CASE EndpointVerified
      BY <1>4, <2>1, EndpointVerifiedKeeps DEF identityPreflight
    <2>2. CASE tripIdentityFreeze(serves[Endpoint]) /\ Return
      BY <1>4, <2>2, TripReturns DEF identityPreflight
    <2> QED BY <1>4, <2>1, <2>2 DEF identityPreflight
  <1>5. CASE Act
    <2>1. CASE pc = "scale"
      <3>a. /\ pc' = "idle" /\ via' = NoPath /\ moved' = FALSE /\ obs' = NothingRead
            /\ kcp' = NoCopy /\ current' = FALSE /\ mismatch' = FALSE
            /\ UNCHANGED <<object, cluster, checked, serves, edits, repinned>>
        BY <1>5, <2>1 DEF Act
      <3>b. /\ obs' \in [Paths -> UIDs \cup {Silent, Unread}]
            /\ kcp' \in Annotations
        BY <3>a DEF NothingRead, NoCopy, Annotations
      <3>1. TypeOK'
        BY <3>a, <3>b DEF IdentityInv, TypeOK, object
      <3>2. CopyInv' /\ MarkInv' /\ GateInv'
        BY <1>5, <2>1 DEF Act, IdentityInv, CopyInv, MarkInv, GateInv, object, NoCopy
      <3> QED BY <3>1, <3>2 DEF IdentityInv
    <2>2. CASE pc # "scale"
      <3>1. After(pc) \in Stages
        BY <1>5, <2>2 DEF Act, After
      <3>a. /\ pc' \in Stages /\ via' = NoPath /\ moved' = FALSE /\ obs' = NothingRead
            /\ UNCHANGED <<object, copy, cluster, checked, serves, edits, mismatch, repinned>>
        BY <1>5, <2>2, <3>1 DEF Act
      <3>b. obs' \in [Paths -> UIDs \cup {Silent, Unread}]
        BY <3>a DEF NothingRead
      <3>2. TypeOK'
        BY <3>a, <3>b DEF IdentityInv, TypeOK, object, copy
      <3>3. CopyInv' /\ MarkInv'
        BY <1>5, <2>2 DEF Act, IdentityInv, CopyInv, MarkInv, object, copy
      <3>4. GateInv'
        BY <1>5, <2>2, <3>1 DEF Act, IdentityInv, GateInv, copy
      <3> QED BY <3>2, <3>3, <3>4 DEF IdentityInv
    <2> QED BY <2>1, <2>2
  <1> QED BY <1>1, <1>2, <1>3, <1>4, <1>5

\* An operator's edit makes every copy an old one.
LEMMA EditKeeps ==
  ASSUME IdentityInv, NEW o \in Annotations, Edit(o), repinned' \in BOOLEAN, MarkInv'
  PROVE  IdentityInv'
  <1>0. edits' \in 0..MaxEdits
    BY DEF Edit, IdentityInv, TypeOK
  <1>1. TypeOK'
    BY <1>0 DEF Edit, IdentityInv, TypeOK, pass
  <1>2. CopyInv' /\ GateInv'
    BY DEF Edit, IdentityInv, CopyInv, GateInv, pass
  <1> QED BY <1>1, <1>2 DEF IdentityInv

LEMMA OperatorKeeps == IdentityInv /\ Operator => IdentityInv'
  <1> SUFFICES ASSUME IdentityInv, Operator PROVE IdentityInv'
    OBVIOUS
  <1>0. obj \in Annotations
    BY DEF IdentityInv, TypeOK
  <1>1. CASE RemoveMark
    <2>1. [obj EXCEPT !.mark = NotFrozen] \in Annotations
      BY <1>0 DEF Annotations
    <2>2. MarkInv' /\ repinned' \in BOOLEAN
      BY <1>0, <1>1 DEF RemoveMark, Edit, MarkInv, IdentityInv, TypeOK, Annotations
    <2> QED BY <1>1, <2>1, <2>2, EditKeeps DEF RemoveMark
  <1>2. CASE OtherEdit
    <2>1. MarkInv' /\ repinned' \in BOOLEAN
      BY <1>2 DEF OtherEdit, Edit, MarkInv, IdentityInv, TypeOK
    <2> QED BY <1>0, <1>2, <2>1, EditKeeps DEF OtherEdit
  <1>3. ASSUME NEW pin \in UIDs \cup {NoPin}, Repin(pin) PROVE IdentityInv'
    <2>1. [obj EXCEPT !.pin = pin] \in Annotations
      BY <1>0 DEF Annotations
    <2>2. MarkInv' /\ repinned' \in BOOLEAN
      BY <1>3 DEF Repin, MarkInv
    <2> QED BY <1>3, <2>1, <2>2, EditKeeps DEF Repin
  <1> QED BY <1>1, <1>2, <1>3 DEF Operator

LEMMA WorldKeeps ==
  ASSUME IdentityInv,
         \/ CacheSync \/ RecheckFallsDue \/ ClusterChanges
         \/ \E p \in Paths : PathMoves(p)
  PROVE  IdentityInv'
  <1>1. CASE CacheSync
    <2>1. TypeOK'
      BY <1>1 DEF CacheSync, IdentityInv, TypeOK, copy, pass
    <2>2. CopyInv' /\ MarkInv' /\ GateInv'
      BY <1>1 DEF CacheSync, IdentityInv, CopyInv, MarkInv, GateInv, copy, pass
    <2> QED BY <2>1, <2>2 DEF IdentityInv
  <1>2. CASE RecheckFallsDue
    <2>1. TypeOK'
      BY <1>2 DEF RecheckFallsDue, IdentityInv, TypeOK, object, copy, pass
    <2>2. CopyInv' /\ MarkInv' /\ GateInv'
      BY <1>2 DEF RecheckFallsDue, IdentityInv, CopyInv, MarkInv, GateInv, object, copy, pass
    <2> QED BY <2>1, <2>2 DEF IdentityInv
  <1>3. CASE ClusterChanges
    <2>1. TypeOK'
      BY <1>3 DEF ClusterChanges, IdentityInv, TypeOK, object, copy, pass
    <2>2. CopyInv' /\ MarkInv' /\ GateInv'
      BY <1>3 DEF ClusterChanges, IdentityInv, CopyInv, MarkInv, GateInv, object, copy, pass
    <2> QED BY <2>1, <2>2 DEF IdentityInv
  <1>4. CASE \E p \in Paths : PathMoves(p)
    <2>1. PICK p \in Paths : PathMoves(p)
      BY <1>4
    <2>2. TypeOK'
      BY <2>1 DEF PathMoves, IdentityInv, TypeOK, object, copy
    <2>3. CopyInv' /\ MarkInv'
      BY <2>1 DEF PathMoves, IdentityInv, CopyInv, MarkInv, object, copy
    <2>4. GateInv'
      BY <2>1 DEF PathMoves, IdentityInv, TypeOK, GateInv, copy
    <2> QED BY <2>2, <2>3, <2>4 DEF IdentityInv
  <1> QED BY <1>1, <1>2, <1>3, <1>4

LEMMA NextIdentityInv == IdentityInv /\ [Next]_vars => IdentityInv'
  <1> SUFFICES ASSUME IdentityInv, [Next]_vars PROVE IdentityInv'
    OBVIOUS
  <1>1. CASE Reconcile
    BY <1>1, GateKeeps, ObserveKeeps, StagesKeep DEF Reconcile
  <1>2. CASE Operator
    BY <1>2, OperatorKeeps
  <1>3. CASE UNCHANGED vars
    BY <1>3 DEF vars, object, copy, pass, IdentityInv, TypeOK, CopyInv, MarkInv, GateInv
  <1> QED BY <1>1, <1>2, <1>3, WorldKeeps DEF Next

-----------------------------------------------------------------------------
(***************************************************************************)
(* The theorems.                                                           *)
(***************************************************************************)

\* The marker records the pin it was measured against until an operator changes
\* that pin, and reconcileWorkloadIdentity lets no reconcile past it whose copy
\* is frozen or lacks a pin that is due.
THEOREM IdentityInvariant == Spec => []IdentityInv
  BY InitIdentityInv, NextIdentityInv, PTL DEF Spec

\* The writes of a reconcile: a patch under the lock is the only one.
LEMMA ReconcileWrites ==
  ASSUME IdentityInv, Reconcile
  PROVE  \/ obj' = obj
         \/ /\ obj'.pin = obj.pin /\ obj.mark = NotFrozen
         \/ /\ obj'.pin = obj.pin /\ obj'.mark = NotFrozen /\ kcp = obj /\ Repinned
         \/ /\ obj.pin = NoPin /\ obj'.mark = obj.mark
  <1>1. CASE clearRepinnedIdentityFreeze
    <2>1. CASE PatchFails
      BY <2>1 DEF PatchFails, object
    <2>2. CASE patchKCPAnnotations("mark", NotFrozen)
      <3>1. obj' = [pin |-> obj.pin, mark |-> NotFrozen] /\ kcp = obj
        BY <2>2, PatchMark
      <3> QED BY <1>1, <3>1 DEF clearRepinnedIdentityFreeze
    <2> QED BY <1>1, <2>1, <2>2 DEF clearRepinnedIdentityFreeze
  <1>2. CASE pinWorkloadIdentity
    <2>1. PICK uid \in answered : PatchFails \/ patchKCPAnnotations("pin", uid)
      BY <1>2 DEF pinWorkloadIdentity
    <2>2. CASE PatchFails
      BY <2>2 DEF PatchFails, object
    <2>3. CASE patchKCPAnnotations("pin", uid)
      <3>1. uid \in UIDs
        BY <1>2, AnsweredType DEF pinWorkloadIdentity
      <3>2. obj' = [pin |-> uid, mark |-> obj.mark] /\ kcp = obj
        BY <2>3, <3>1, PatchPin
      <3> QED BY <1>2, <3>2 DEF pinWorkloadIdentity
    <2> QED BY <2>1, <2>2, <2>3
  <1>3. ASSUME NEW uid, RecordMismatch(uid), kcp.mark = NotFrozen
        PROVE  obj'.pin = obj.pin /\ obj.mark = NotFrozen
    <2>1. obj' = [pin |-> obj.pin, mark |-> displayUID(obj.pin)] /\ kcp = obj
      BY <1>3, RecordKeeps
    <2> QED BY <1>3, <2>1
  <1>4. ASSUME NEW uid, tripIdentityFreeze(uid), kcp.mark = NotFrozen
        PROVE  obj' = obj \/ (obj'.pin = obj.pin /\ obj.mark = NotFrozen)
    BY <1>3, <1>4 DEF tripIdentityFreeze, PatchFails, object
  <1>5. CASE PinDisagree \/ RecheckDisagrees
    <2>1. kcp.mark = NotFrozen
      BY <1>5 DEF PinDisagree, RecheckDisagrees, Observed, IdentityInv, GateInv
    <2> QED BY <1>4, <1>5, <2>1 DEF PinDisagree, RecheckDisagrees
  <1>6. ASSUME NEW p \in Paths, connectVerified(p)
        PROVE  obj' = obj \/ (obj'.pin = obj.pin /\ obj.mark = NotFrozen)
    <2>1. kcp.mark = NotFrozen
      BY <1>6 DEF connectVerified, IdentityInv, GateInv
    <2> QED BY <1>4, <1>6, <2>1 DEF connectVerified, Verified, object
  <1>7. CASE MaintainTokens \/ identityPreflight
    <2>1. kcp.mark = NotFrozen
      BY <1>7 DEF MaintainTokens, identityPreflight, IdentityInv, GateInv
    <2> QED BY <1>3, <1>4, <1>7, <2>1
            DEF MaintainTokens, identityPreflight, EndpointVerified, Verified, PatchFails, object
  <1>8. CASE \/ Begin \/ HoldFrozen \/ NothingToClear \/ GateOpen \/ GateHold
             \/ GateObserve \/ PinUnanswered \/ RecheckAgrees \/ StageEnds \/ Act
             \/ \E p \in Paths : readWorkloadIdentity(p)
    BY <1>8 DEF Begin, HoldFrozen, NothingToClear, GateOpen, GateHold, GateObserve,
                PinUnanswered, RecheckAgrees, StageEnds, Act, readWorkloadIdentity, object
  <1> QED BY <1>1, <1>2, <1>5, <1>6, <1>7, <1>8 DEF Reconcile

\* Nothing else of the model writes the object.
LEMMA OthersWriteNothing ==
  ASSUME \/ CacheSync \/ RecheckFallsDue \/ ClusterChanges
         \/ (\E p \in Paths : PathMoves(p)) \/ UNCHANGED vars
  PROVE  obj' = obj
  BY DEF CacheSync, RecheckFallsDue, ClusterChanges, PathMoves, vars, object

\* A pin that is set stays until an operator changes it (pinWorkloadIdentity).
THEOREM PinStays == Spec => PinIsKept
  <1>1. IdentityInv /\ [Next]_vars =>
          (obj.pin # NoPin /\ obj'.pin # obj.pin => \E pin \in UIDs \cup {NoPin} : Repin(pin))
    <2> SUFFICES ASSUME IdentityInv, [Next]_vars, obj.pin # NoPin, obj'.pin # obj.pin
                 PROVE  \E pin \in UIDs \cup {NoPin} : Repin(pin)
      OBVIOUS
    <2>1. CASE Reconcile
      BY <2>1, ReconcileWrites
    <2>2. CASE Operator
      BY <2>2 DEF Operator, RemoveMark, OtherEdit, Edit, IdentityInv, TypeOK, Annotations
    <2> QED BY <2>1, <2>2, OthersWriteNothing DEF Next
  <1> QED BY <1>1, IdentityInvariant, PTL DEF Spec, PinIsKept

\* The freeze ends only by an operator's hand, and its marker is never rewritten
\* (tripIdentityFreeze, clearRepinnedIdentityFreeze).
THEOREM FreezeStays == Spec => FreezeIsSticky
  <1>1. IdentityInv /\ [Next]_vars =>
          (obj.mark # NotFrozen /\ obj'.mark # obj.mark =>
             obj'.mark = NotFrozen /\ (RemoveMark \/ repinned))
    <2> SUFFICES ASSUME IdentityInv, [Next]_vars, obj.mark # NotFrozen, obj'.mark # obj.mark
                 PROVE  obj'.mark = NotFrozen /\ (RemoveMark \/ repinned)
      OBVIOUS
    <2>1. CASE Reconcile
      BY <2>1, ReconcileWrites DEF Repinned, IdentityInv, MarkInv
    <2>2. CASE Operator
      <3>1. obj \in Annotations
        BY DEF IdentityInv, TypeOK
      <3> QED BY <2>2, <3>1 DEF Operator, RemoveMark, OtherEdit, Repin, Edit, Annotations
    <2> QED BY <2>1, <2>2, OthersWriteNothing DEF Next
  <1> QED BY <1>1, IdentityInvariant, PTL DEF Spec, FreezeIsSticky

\* The KCP acts on the pinned cluster, but for a path that moves between its
\* verification and the act (verifyWorkloadIdentity).
THEOREM ActsVerified == Spec => ActsOnPinnedCluster
  <1>1. IdentityInv /\ [Next]_vars =>
          (Act => IF kcp.pin = NoPin THEN cluster = "single"
                  ELSE moved \/ serves[via] = kcp.pin)
    <2> SUFFICES ASSUME IdentityInv, Act
                 PROVE  IF kcp.pin = NoPin THEN cluster = "single"
                        ELSE moved \/ serves[via] = kcp.pin
      OBVIOUS
    <2> QED BY DEF Act, IdentityInv, TypeOK, GateInv
  <1> QED BY <1>1, IdentityInvariant, PTL DEF Spec, ActsOnPinnedCluster
=============================================================================
