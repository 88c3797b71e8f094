----------------------------- MODULE LeaveQueue -----------------------------
(***************************************************************************)
(* What brings the passes of EtcdLeave: the work queue of the KCP          *)
(* controller.  A pass takes the KCP's key off the queue, and the key is   *)
(* back when                                                               *)
(*                                                                         *)
(*   - the pass waits or holds: it returns a RequeueAfter;                 *)
(*   - a watched object changed: the KCP, its status included, or a        *)
(*     Machine, also by a patch of the pass itself;                        *)
(*   - the controller restarts, or writing the status failed.              *)
(*                                                                         *)
(* An error of the sweep does not requeue: Reconcile records it on the     *)
(* status and returns Result{}, nil.  Words that were not on the status    *)
(* before make the write an event; the same words again write nothing.     *)
(***************************************************************************)
EXTENDS EtcdLeave

VARIABLES
  queued,   \* the KCP's key is on the work queue, now or after a delay
  failure   \* what status.failureMessage says of the leave, or NoFailure

queue     == <<queued, failure>>
queueVars == <<vars, queue>>

NoFailure == "none"
Words == {NoFailure, "unanswered", "hostname", "unreadable", "undelegated",
          "refused", "write"}

QueueTypeOK == queued \in BOOLEAN /\ failure \in Words

\* The Machine's deletion is an event.
QueueInit == Init /\ queued = TRUE /\ failure = NoFailure

-----------------------------------------------------------------------------
(***************************************************************************)
(* How a step of a pass leaves the queue.                                  *)
(***************************************************************************)

\* A pass starts with a key on the queue; what comes meanwhile stays on it.
Takes == pc = "idle" => queued
Left  == pc # "idle" /\ queued

\* The step patches the Machine, which is watched.
MachineEvent == <<stamps, hook>>' # <<stamps, hook>>

GoesOn == queued' = (Left \/ MachineEvent) /\ UNCHANGED failure

\* Fault: a wait that returns without a RequeueAfter.
RequeueForgotten == queued' = (Left \/ MachineEvent) /\ failure' = NoFailure

\* reconcileMemberLeave returned no error: the wait, the hold and the patch that
\* removes the hook all bring another pass, and the failure is cleared.
Requeues == queued' = TRUE /\ failure' = NoFailure

\* It returned an error.  Errors of one kind need not be in the same words.
Fails(words) ==
  /\ failure' = words
  /\ queued' \in IF Left \/ MachineEvent \/ failure # words THEN {TRUE} ELSE BOOLEAN

\* Most steps either go on or end the pass without an error.
Succeeds == IF pc' = "idle" THEN Requeues ELSE GoesOn

\* These fail, unless their wait is over and they remove the hook.
FailsUnlessOver(words) == IF hook' THEN Fails(words) ELSE Requeues

-----------------------------------------------------------------------------
\* The steps of a pass that return no error.
QuietPass ==
  /\ Takes
  /\ \/ ReleaseNotK0s \/ ConnectAnswered \/ ConnectForeign
     \/ FirstRequest
     \/ InspectNotOurs \/ InspectNotFound \/ InspectNotJoined \/ InspectProceed
     \/ ensureLeaveRequestedForced \/ stampLeaveRequestedAt
     \/ ReleaseOnAck \/ ReleaseOnStatus \/ ensureLeaveRequested
     \/ DelegateNotOurs \/ DelegateInspect \/ DelegateLeave
  /\ Succeeds

\* The three waits for an apiserver share their words.
UnansweredPass == Takes /\ ConnectUnanswered /\ FailsUnlessOver("unanswered")

UnreadablePass ==
  /\ InspectUnreadable
  /\ FailsUnlessOver(IF facts.validName THEN "unreadable" ELSE "hostname")

UndelegatedPass ==
  \/ DelegateUnreadable /\ FailsUnlessOver("undelegated")
  \/ DelegateConflict /\ FailsUnlessOver("refused")

QueuedPass == QuietPass \/ UnansweredPass \/ UnreadablePass \/ UndelegatedPass

\* A write failed; or the controller restarted, and lists every KCP.
StoppedPass ==
  /\ PassFails
  /\ Fails("write") \/ (queued' = TRUE /\ UNCHANGED failure)

\* Changes of the KCP and of the Machine that are not the sweep's.
WatchedStep ==
  /\ FreezeChanges \/ KCPDeleted \/ stripEtcdLeaveHooks \/ CAPI
  /\ queued' = TRUE /\ UNCHANGED failure

\* The workload cluster and the clocks are not watched.
UnwatchedStep ==
  /\ Node \/ K0s \/ \E c \in Clocks : Expire(c)
  /\ UNCHANGED queue

\* Any other watched object changes, the status could not be written, or the
\* informers resync (after hours: the code does not count on it, controller:650).
OtherEvent ==
  /\ ~queued /\ pc = "idle" /\ hook
  /\ queued' = TRUE
  /\ UNCHANGED <<vars, failure>>

QueueNext == QueuedPass \/ StoppedPass \/ WatchedStep \/ UnwatchedStep \/ OtherEvent

QueueSpec == QueueInit /\ [][QueueNext]_queueVars

(***************************************************************************)
(* Fairness: a key on the queue is taken and the pass goes through, also   *)
(* reconcileDelete's, which requeues and returns its errors; clocks run,   *)
(* and CAPI drains within its deadline.  The node, k0s, the network and    *)
(* the events from outside are promised nothing.                           *)
(***************************************************************************)
FairSpec ==
  /\ QueueSpec
  /\ WF_queueVars(QueuedPass)
  /\ WF_queueVars(stripEtcdLeaveHooks /\ WatchedStep)
  /\ WF_queueVars(CAPI /\ WatchedStep)
  /\ \A c \in Clocks : WF_queueVars(Expire(c) /\ UNCHANGED queue)
-----------------------------------------------------------------------------
(***************************************************************************)
(* Properties.                                                             *)
(***************************************************************************)

\* A leave that nothing is going to look at again, and what it shows then.
Unwatched == hook /\ pc = "idle" /\ ~frozen /\ ~teardown /\ ~queued
StrandedShows == Unwatched => failure # NoFailure

\* The bounds end every wait of the handshake (ha_leave.go:305-311): once CAPI waits
\* on the hook, it is removed, unless the control plane is frozen; or unless, from some
\* point on, nothing looks at the leave and its failure shows on the KCP's status.  The
\* code's comments do not have that case, which a second failure in the words of the
\* first brings: every other pass has the next one queued.
HookIsReleased ==
  []<>~(Unwatched /\ failure # NoFailure)
    => ((phase = "preTerminate" /\ hook) ~> (~hook \/ frozen))
=============================================================================
