----------------------------- MODULE SSHFallback -----------------------------
(***************************************************************************)
(* The SSH fallback (ssh_fallback_controller.go, ssh_fallback_worker.go)   *)
(* beside the publication of the kubeconfig: when no node pushes, a        *)
(* sibling reconciler marks the condition Dialing and a bounded pool of    *)
(* workers fetches the file and writes the contract Secret; results come   *)
(* back over a channel that another goroutine drains.                      *)
(*                                                                         *)
(* Jobs of other KCPs only hold slots of the pool and of the channel. The  *)
(* reconciler and the drain write the condition with a patch that fails    *)
(* when the condition is no longer the one they read (CAPI's patch helper).*)
(***************************************************************************)
EXTENDS KubeconfigPublish

CONSTANTS PoolSize,   \* sshFallbackPoolSize
          Files       \* the kubeconfigs a worker may fetch from the node

ASSUME SSHAssumption == PoolSize \in Nat \ {0} /\ Files \subseteq Pushes \cup Legacy

VARIABLES
  refs,     \* the two referenced Secrets: "missing", "unparseable" or "good"
  busy,     \* slots held by jobs of other KCPs
  ssh,      \* the sibling reconcile: [pc, was, to, server]
  job,      \* this KCP's job: [pc, server, val, res]
  results,  \* the channel: results that are not drained yet
  drain     \* the drain: [pc, was, res]

fallback == <<refs, busy, ssh, job, results, drain>>
vars == <<publishVars, fallback>>

NoSSH   == [pc |-> "idle", was |-> "unset", to |-> "unset", server |-> 0]
NoJob   == [pc |-> "none", server |-> 0, val |-> Empty, res |-> "none"]
NoDrain == [pc |-> "idle", was |-> "unset", res |-> "none"]
Results == {"OK", "Misconfigured", "Failed"}

SSHs   == [pc : {"idle", "enqueue", "patch"}, was : Conds, to : Conds, server : Servers \cup {0}]
Jobs   == [pc : {"none", "run", "write", "post"}, server : Servers \cup {0}, val : Values,
           res : Results \cup {"none"}]
Drains == [pc : {"idle", "apply"}, was : Conds, res : Results \cup {"none"}]

FallbackTypeOK ==
  /\ refs \in {"missing", "unparseable", "good"} /\ busy \in 0..PoolSize
  /\ ssh \in SSHs /\ job \in Jobs /\ drain \in Drains
  /\ results \in Seq(Results) /\ Len(results) <= 2 * PoolSize

\* Types; and the pool never runs more jobs than it has slots (Enqueue, run).
TypeOK ==
  /\ PublishTypeOK /\ FallbackTypeOK
  /\ busy + (IF job.pc = "none" THEN 0 ELSE 1) <= PoolSize

Init ==
  /\ PublishInit /\ refs = "good" /\ busy = 0
  /\ ssh = NoSSH /\ job = NoJob /\ results = <<>> /\ drain = NoDrain

-----------------------------------------------------------------------------
(***************************************************************************)
(* SSHFallbackReconciler.Reconcile                                         *)
(***************************************************************************)
Retryable == {"Waiting", "Failed", "Misconfigured"}

evaluateEligibility == kcp.cond \in Retryable /\ kcp.anchor = "old"

IsInFlight == job.pc # "none"

\* missingSSHFallbackSecrets decides at once; otherwise host and server are resolved.
ReconcileSSH ==
  /\ enabled /\ ssh.pc = "idle" /\ ~IsInFlight /\ evaluateEligibility
  /\ \/ refs = "missing" /\ ssh' = [pc |-> "patch", was |-> kcp.cond, to |-> "Misconfigured", server |-> 0]
     \/ refs # "missing" /\ endpoint # 0
        /\ ssh' = [pc |-> "enqueue", was |-> kcp.cond, to |-> "Dialing", server |-> endpoint]
  /\ UNCHANGED <<publishVars, refs, busy, job, results, drain>>

\* Fault: a job starts although the pool is full.
EnqueueAlways ==
  /\ ssh.pc = "enqueue" /\ ssh' = [ssh EXCEPT !.pc = "patch"]
  /\ job' = IF ~IsInFlight THEN [NoJob EXCEPT !.pc = "run", !.server = ssh.server] ELSE job
  /\ UNCHANGED <<publishVars, refs, busy, results, drain>>

\* Enqueue takes a slot or drops the job; the condition becomes Dialing either way.
Enqueue ==
  /\ ssh.pc = "enqueue" /\ ssh' = [ssh EXCEPT !.pc = "patch"]
  /\ job' = IF ~IsInFlight /\ busy < PoolSize THEN [NoJob EXCEPT !.pc = "run", !.server = ssh.server]
            ELSE job
  /\ UNCHANGED <<publishVars, refs, busy, results, drain>>

\* A patch of the condition from was to to: nothing when there is no difference, an
\* error when the condition is neither any more.
PatchCondition(was, to) ==
  IF was # to /\ kcp.cond = was
  THEN kcp' = [kcp EXCEPT !.cond = to] /\ kfresh' = FALSE
  ELSE UNCHANGED <<kcp, kfresh>>

PatchSSH ==
  /\ ssh.pc = "patch" /\ PatchCondition(ssh.was, ssh.to) /\ ssh' = NoSSH
  /\ UNCHANGED <<secrets, cluster, pass, cfresh, count, refs, busy, job, results, drain>>

-----------------------------------------------------------------------------
(***************************************************************************)
(* SSHFallbackWorker.run                                                   *)
(***************************************************************************)
\* The condition a category leads to; applyWorkerResult leaves OK to the KCP reconciler.
ReasonOf(cat) == IF cat \in {"OK", "Misconfigured"} THEN cat ELSE "Failed"

JobEnds(res) == job' = [job EXCEPT !.pc = "post", !.res = res, !.val = Empty]

\* loadKnownHosts, loadIdentity: a Secret is missing, empty, unreadable or unparseable.
LoadFails ==
  /\ job.pc = "run" /\ refs # "good" /\ JobEnds("Misconfigured")
  /\ UNCHANGED <<publishVars, refs, busy, ssh, results, drain>>

\* Categories of a dial that fails (classifyDialError), and of a session or a remote cat
\* that fails or returns too much or nothing.
DialCategories == {"HostKeyMismatch", "AuthFailed", "DialTimeout", "DialRefused"}
CatCategories  == {"RemoteFileMissing", "PayloadInvalid"}

FetchFails(cat) ==
  /\ job.pc = "run" /\ refs = "good" /\ JobEnds(ReasonOf(cat))
  /\ UNCHANGED <<publishVars, refs, busy, ssh, results, drain>>

runRemoteCat(v) ==
  /\ job.pc = "run" /\ refs = "good" /\ job' = [job EXCEPT !.pc = "write", !.val = v]
  /\ UNCHANGED <<publishVars, refs, busy, ssh, results, drain>>

\* writeKubeconfigSecret: sanitized for the server resolved at enqueue; the Secret keeps
\* its controller owner, and a new one has none.
writeKubeconfigSecret ==
  /\ job.pc = "write" /\ ~Rejected(job.val) /\ JobEnds("OK")
  /\ contract' = [contract EXCEPT !.exists = TRUE, !.val = Sanitize(job.val, job.server),
                                  !.source = "ssh-fallback"]
  /\ cfresh' = (cfresh /\ contract' = contract)
  /\ UNCHANGED <<staging, kcp, cluster, pass, kfresh, count, refs, busy, ssh, results, drain>>

WriteFails ==
  /\ job.pc = "write" /\ JobEnds(ReasonOf("WriteFailed"))
  /\ UNCHANGED <<publishVars, refs, busy, ssh, results, drain>>

postResult ==
  /\ job.pc = "post" /\ Len(results) < 2 * PoolSize
  /\ results' = Append(results, job.res) /\ job' = NoJob
  /\ UNCHANGED <<publishVars, refs, busy, ssh, drain>>

\* The job is over its budget: its context is done, and the result is dropped.
ResultDropped ==
  /\ job.pc = "post" /\ Stop /\ job' = NoJob
  /\ UNCHANGED <<secrets, kcp, cluster, pass, cfresh, kfresh, events, refs, busy, ssh, results, drain>>

-----------------------------------------------------------------------------
(***************************************************************************)
(* StartResultDrain                                                        *)
(***************************************************************************)
TakeResult ==
  /\ drain.pc = "idle" /\ results # <<>> /\ results' = Tail(results)
  /\ drain' = IF Head(results) = "OK" THEN NoDrain
              ELSE [pc |-> "apply", was |-> kcp.cond, res |-> Head(results)]
  /\ UNCHANGED <<publishVars, refs, busy, ssh, job>>

applyWorkerResult ==
  /\ drain.pc = "apply" /\ PatchCondition(drain.was, drain.res) /\ drain' = NoDrain
  /\ UNCHANGED <<secrets, cluster, pass, cfresh, count, refs, busy, ssh, job, results>>

-----------------------------------------------------------------------------
OtherKCPEnqueues ==
  /\ enabled /\ Event /\ busy + (IF IsInFlight THEN 1 ELSE 0) < PoolSize /\ busy' = busy + 1
  /\ UNCHANGED <<secrets, kcp, cluster, pass, cfresh, kfresh, stops, refs, ssh, job, results, drain>>

OtherJobEnds ==
  /\ busy > 0 /\ busy' = busy - 1
  /\ UNCHANGED <<publishVars, refs, ssh, job, results, drain>>

OperatorEditsRefs(r) ==
  /\ enabled /\ Event /\ refs # r /\ refs' = r
  /\ UNCHANGED <<secrets, kcp, cluster, pass, cfresh, kfresh, stops, busy, ssh, job, results, drain>>

\* The manager restarts: what it held in memory is gone.
ManagerRestarts ==
  /\ Stop
  /\ EndPass /\ ssh' = NoSSH /\ job' = NoJob /\ results' = <<>> /\ drain' = NoDrain /\ busy' = 0
  /\ UNCHANGED <<secrets, kcp, cluster, events, refs>>

Publication == (Pass \/ Outside) /\ UNCHANGED fallback

Worker == LoadFails \/ (\E cat \in DialCategories \cup CatCategories : FetchFails(cat))
          \/ (\E v \in Files : runRemoteCat(v)) \/ writeKubeconfigSecret
          \/ WriteFails \/ postResult

Siblings == ReconcileSSH \/ Enqueue \/ PatchSSH \/ TakeResult \/ applyWorkerResult

Next == \/ Publication \/ Worker \/ Siblings \/ ResultDropped \/ OtherKCPEnqueues \/ OtherJobEnds
        \/ ManagerRestarts \/ \E r \in {"missing", "unparseable", "good"} : OperatorEditsRefs(r)

Spec == Init /\ [][Next]_vars

(***************************************************************************)
(* The KCP is reconciled on every change of its Secrets and its status; the*)
(* sibling reconciler on its cadence; jobs end within their budget, and    *)
(* their results are drained; time passes.                                 *)
(***************************************************************************)
FairSpec == /\ Spec /\ WF_vars(Pass /\ UNCHANGED fallback) /\ WF_vars(Worker)
            /\ WF_vars(Siblings) /\ WF_vars(Tick /\ UNCHANGED fallback) /\ WF_vars(OtherJobEnds)

-----------------------------------------------------------------------------
(***************************************************************************)
(* Properties.                                                             *)
(***************************************************************************)

\* A job has a server to write the file for, and writes a file it fetched.
JobInv ==
  /\ ssh.pc = "enqueue" => ssh.server # 0
  /\ job.pc \in {"run", "write"} => job.server # 0
  /\ job.pc = "write" => job.val \in Files
  /\ job.pc = "post" => job.res \in Results
  /\ drain.pc = "apply" => drain.res \in Results \ {"OK"}

\* What publication and fallback rely on, the size of the pool included.
FallbackInv == TypeOK /\ PublishInv /\ JobInv

\* Once the contract Secret stays usable and the fallback has come to rest, the KCP
\* says so and keeps saying so: neither a late failure of a job (applyWorkerResult does
\* not look at what it overwrites) nor a conflict lasts.
Usable == /\ refMatches /\ endpoint # 0 /\ contract.owner = "kcp" /\ kcp.pin # 0 /\ ~kcp.repin
          /\ IsFixedPoint(contract.val, endpoint) /\ contract.val.ca = kcp.pin
          /\ ~contract.val.expired
AtRest == ssh.pc = "idle" /\ ~IsInFlight /\ results = <<>> /\ drain.pc = "idle"
ReadyIsReported == <>[](Usable /\ AtRest) => <>[](kcp.cond \in ReadyConds)

\* A condition that says Dialing does not say so for ever (ssh_fallback_worker.go,
\* Enqueue: "the reconciler will re-enqueue on its next requeue").
DialingEnds == (kcp.cond = "Dialing") ~> (kcp.cond # "Dialing")
=============================================================================
