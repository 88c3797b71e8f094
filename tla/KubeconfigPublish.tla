-------------------------- MODULE KubeconfigPublish --------------------------
(***************************************************************************)
(* Publication of the workload cluster's kubeconfig (kubeconfig_publish.go *)
(* with internal/kubeconfig). Nodes push to the staging Secret; the KCP    *)
(* reconciler sanitizes what they push, pins its CA, and writes the        *)
(* contract Secret <cluster>-kubeconfig that everyone else reads.          *)
(*                                                                         *)
(* A kubeconfig is what the sanitizer tells apart: its flaws, its CA, the  *)
(* server it names (0: anything but the canonical form) and whether its    *)
(* client certificate is outside its validity. Copies of objects carry no  *)
(* resourceVersion: a flag says whether the object is still as it was read.*)
(***************************************************************************)
EXTENDS Naturals, Sequences

CONSTANTS
  CAs,       \* certificate authorities, by number
  Servers,   \* control-plane endpoints, by number
  Pushes,    \* the kubeconfigs that nodes may push to the staging Secret
  Legacy,    \* those that nodes rendered before it existed may write
  Budgets    \* bounds: what a behaviour may spend, with the fallback on or off and the
             \* Cluster referring to this KCP or not: [enabled, ref, events, stops]

\* What the sanitizer rejects, in the order in which it looks.
InputFlaws     == <<"oversized", "unparseable", "extensions">>
EntryFlaws     == <<"cluster", "user", "credentials", "context">>
StructureFlaws == <<"structure">>
Flaws == InputFlaws \o EntryFlaws \o StructureFlaws

ASSUME PublishAssumption ==
  /\ CAs \subseteq Nat \ {0} /\ Servers \subseteq Nat \ {0}
  /\ \A p \in Pushes \cup Legacy :
       /\ p.ca \in CAs /\ p.server = 0 /\ p.expired \in BOOLEAN
       /\ p.flaws \subseteq {Flaws[i] : i \in 1..Len(Flaws)}
  /\ Budgets \subseteq [enabled : BOOLEAN, ref : BOOLEAN, events : Nat, stops : Nat]

VARIABLES
  contract,  \* Secret <cluster>-kubeconfig: [exists, val, owner, source, fresh]
  staging,   \* Secret <cluster>-kubeconfig-push: [exists, val, owner, tidy, immutable]
  kcp,       \* [pin, repin, cond, anchor]: CA pin, re-pin request, KubeconfigReady
             \* and the age of LastNodePushObserved ("nil", "recent" or "old")
  endpoint,  \* the expected server; 0: not known yet
  refMatches,\* Cluster.spec.controlPlaneRef points at this KCP
  pass,      \* the reconcile under way: [pc, pin, cond, anchor, server, owned, val, source]
  cfresh, kfresh,  \* the contract Secret, the KCP are still as the pass knows them
  enabled,         \* spec.sshFallback.enabled
  events, stops    \* what is left of what nodes and operators do, and of passes cut short

secrets == <<contract, staging>>
cluster == <<endpoint, refMatches, enabled>>
publishVars == <<contract, staging, kcp, cluster, pass, cfresh, kfresh, events, stops>>

Empty  == [flaws |-> {}, ca |-> 0, server |-> 0, expired |-> FALSE]
Absent == [exists |-> FALSE, val |-> Empty, owner |-> "none", source |-> "none", fresh |-> TRUE]
NoStaging == [exists |-> FALSE, val |-> Empty, owner |-> "none", tidy |-> TRUE, immutable |-> FALSE]
Idle   == [pc |-> "idle", pin |-> 0, cond |-> "unset", anchor |-> "nil", server |-> 0,
           owned |-> FALSE, val |-> Empty, source |-> "none"]

SSHConds   == {"Dialing", "Failed", "Misconfigured"}
ReadyConds == {"Ready", "ReadyViaSSH"}
Conds == {"unset", "Waiting", "Rejected", "CAMismatch", "NotOwned", "Expired"}
           \cup SSHConds \cup ReadyConds

Canonical == [flaws : {{}}, ca : CAs, server : Servers, expired : BOOLEAN]
Values    == Pushes \cup Legacy \cup Canonical \cup {Empty}
Sources   == {"none", "node-push", "ssh-fallback", "adopted"}

Owners    == {"none", "kcp", "other"}
Anchors   == {"nil", "recent", "old"}
PassPCs   == {"idle", "read", "neutralize", "candidate", "recandidate", "pin", "write", "status"}

Contracts == [exists : BOOLEAN, val : Values, owner : Owners, source : Sources, fresh : BOOLEAN]
Stagings  == [exists : BOOLEAN, val : Values, owner : Owners, tidy : BOOLEAN, immutable : BOOLEAN]
KCPs      == [pin : CAs \cup {0}, repin : BOOLEAN, cond : Conds, anchor : Anchors]
Passes    == [pc : PassPCs, pin : CAs \cup {0}, cond : Conds, anchor : Anchors,
              server : Servers \cup {0}, owned : BOOLEAN, val : Values, source : Sources]

PublishTypeOK ==
  /\ contract \in Contracts /\ staging \in Stagings /\ kcp \in KCPs /\ pass \in Passes
  /\ endpoint \in Servers \cup {0} /\ refMatches \in BOOLEAN
  /\ cfresh \in BOOLEAN /\ kfresh \in BOOLEAN
  /\ enabled \in BOOLEAN /\ events \in Nat /\ stops \in Nat

\* At first there is no contract Secret, or one that another owner left behind.
PublishInit ==
  /\ contract \in {Absent} \cup
       {[exists |-> TRUE, val |-> p, owner |-> "other", source |-> "none", fresh |-> FALSE] :
          p \in {q \in Pushes : q.flaws = {} /\ ~q.expired}}
  /\ staging = NoStaging
  /\ kcp = [pin |-> 0, repin |-> FALSE, cond |-> "unset", anchor |-> "nil"]
  /\ endpoint = 0 /\ pass = Idle /\ cfresh = FALSE /\ kfresh = FALSE
  /\ \E b \in Budgets : enabled = b.enabled /\ refMatches = b.ref /\ events = b.events /\ stops = b.stops

-----------------------------------------------------------------------------
(***************************************************************************)
(* internal/kubeconfig. The first flaw in the order of the checks decides: *)
(* the entries are checked before the structure, each user's credentials   *)
(* with the user.                                                          *)
(***************************************************************************)
Rejected(v) == v.flaws # {}

Rejection(v) == SelectSeq(Flaws, LAMBDA f : f \in v.flaws)[1]

neutralizesContent(v) ==
  Rejection(v) \in {"oversized", "unparseable", "extensions", "cluster", "user", "context"}

Sanitize(v, server) == [flaws |-> {}, ca |-> v.ca, server |-> server, expired |-> v.expired]

IsFixedPoint(v, server) == ~Rejected(v) /\ Sanitize(v, server) = v

\* contractAdoptable; fresh: not older than the Cluster, and labelled with its name.
contractAdoptable(c) == c.owner = "none" /\ c.fresh

-----------------------------------------------------------------------------
Event == events > 0 /\ events' = events - 1
Stop  == stops > 0 /\ stops' = stops - 1
count == <<events, stops>>

At(pc) == pass.pc = pc
Conclude(cond, anchor) == pass' = [Idle EXCEPT !.pc = "status", !.cond = cond, !.anchor = anchor]
EndPass == pass' = Idle /\ cfresh' = FALSE /\ kfresh' = FALSE

\* markWaitingForNodePush leaves the condition to the SSH fallback once that has it.
markWaitingForNodePush ==
  Conclude(IF pass.cond \in SSHConds THEN pass.cond ELSE "Waiting",
           IF pass.anchor = "nil" THEN "recent" ELSE pass.anchor)

\* markKubeconfigFalse
MarkFalse(cond) == Conclude(cond, pass.anchor)

\* Fault: the client certificate's validity is not looked at.
MarkReady(v, source) ==
  Conclude(IF source = "ssh-fallback" THEN "ReadyViaSSH" ELSE "Ready", "nil")

\* markKubeconfigReadyOrExpired
MarkReadyOrExpired(v, source) ==
  IF v.expired THEN MarkFalse("Expired")
  ELSE Conclude(IF source = "ssh-fallback" THEN "ReadyViaSSH" ELSE "Ready", "nil")

\* ensureStagingKubeconfigSecret: create it, or repair it when it is the KCP's and
\* not immutable.
ensureStagingKubeconfigSecret ==
  staging' = IF ~staging.exists THEN [NoStaging EXCEPT !.exists = TRUE, !.owner = "kcp"]
             ELSE IF staging.owner = "kcp" /\ ~staging.immutable
             THEN [staging EXCEPT !.tidy = TRUE] ELSE staging

\* The pass reads the KCP; consumeRepinAnnotation drops the request and the pin in
\* one patch, whose answer is the pass's copy. When the staging Secret cannot be
\* written the pass goes on.
consumeRepinAnnotation ==
  kcp' = IF kcp.repin THEN [kcp EXCEPT !.repin = FALSE, !.pin = 0] ELSE kcp

BeginPass ==
  /\ At("idle") /\ consumeRepinAnnotation
  /\ pass' = [Idle EXCEPT !.pc = "read", !.pin = kcp'.pin, !.cond = kcp.cond, !.anchor = kcp.anchor]
  /\ \/ ensureStagingKubeconfigSecret /\ UNCHANGED stops
     \/ Stop /\ UNCHANGED staging
  /\ kfresh' = TRUE
  /\ UNCHANGED <<contract, cluster, cfresh, events>>

\* What the pass remembers of the contract Secret it reads.
Holding == [pass EXCEPT !.server = endpoint, !.owned = (contract.owner = "kcp"), !.source = contract.source]

Reading == At("read") /\ endpoint # 0
Judging == Reading /\ contract.val # Empty
Ours    == contract.owner = "kcp" \/ contractAdoptable(contract)
Foreign(v) == pass.pin # 0 /\ pass.pin # v.ca

resolveExpectedServerUnknown ==
  /\ At("read") /\ endpoint = 0 /\ markWaitingForNodePush
  /\ UNCHANGED <<secrets, kcp, cluster, cfresh, kfresh, count>>

ContractMissing ==
  /\ Reading /\ contract.val = Empty
  /\ pass' = [Holding EXCEPT !.pc = "candidate"] /\ cfresh' = TRUE
  /\ UNCHANGED <<secrets, kcp, cluster, kfresh, count>>

\* Unsafe content, or a Secret of someone else's under the name this KCP is
\* responsible for, is emptied, and then staging is tried.
JudgeUnusable ==
  /\ Judging /\ IF Ours THEN Rejected(contract.val) /\ neutralizesContent(contract.val)
                        ELSE refMatches
  /\ pass' = [Holding EXCEPT !.pc = "neutralize", !.cond = "Waiting"] /\ cfresh' = TRUE
  /\ UNCHANGED <<secrets, kcp, cluster, kfresh, count>>

\* What is only malformed, or not this KCP's to change, stays.
JudgeLeftInPlace ==
  /\ Judging /\ IF Ours THEN Rejected(contract.val) /\ ~neutralizesContent(contract.val)
                        ELSE ~refMatches
  /\ MarkFalse(IF Ours THEN "Rejected" ELSE "NotOwned") /\ cfresh' = TRUE
  /\ UNCHANGED <<secrets, kcp, cluster, kfresh, count>>

\* Fault: another CA only changes the condition.
ReportCAMismatch ==
  /\ Judging /\ Ours /\ ~Rejected(contract.val) /\ Foreign(contract.val)
  /\ MarkFalse("CAMismatch") /\ cfresh' = TRUE
  /\ UNCHANGED <<secrets, kcp, cluster, kfresh, count>>

JudgeCAMismatch ==
  /\ Judging /\ Ours /\ ~Rejected(contract.val) /\ Foreign(contract.val)
  /\ pass' = [Holding EXCEPT !.pc = "neutralize", !.cond = "CAMismatch"] /\ cfresh' = TRUE
  /\ UNCHANGED <<secrets, kcp, cluster, kfresh, count>>

\* adoptionSource: an adopted Secret keeps that it came by SSH.
adoptionSource(source) == IF source = "ssh-fallback" THEN source ELSE "adopted"

AfterPin(p) == IF p.owned /\ p.val.server = p.server THEN "status" ELSE "write"

\* Fault: a condition of the SSH fallback is left to it, here too.
JudgeAcceptedDeferring ==
  /\ Judging /\ Ours /\ ~Rejected(contract.val) /\ ~Foreign(contract.val)
  /\ LET p == [Holding EXCEPT !.val = contract.val,
                              !.source = IF contract.owner = "kcp" THEN @ ELSE adoptionSource(@)]
     IN IF pass.pin = 0 THEN pass' = [p EXCEPT !.pc = "pin"]
        ELSE IF AfterPin(p) = "write" THEN pass' = [p EXCEPT !.pc = "write"]
        ELSE IF pass.cond \in SSHConds THEN MarkFalse(pass.cond)
        ELSE MarkReadyOrExpired(contract.val, contract.source)
  /\ cfresh' = TRUE
  /\ UNCHANGED <<secrets, kcp, cluster, kfresh, count>>

JudgeAccepted ==
  /\ Judging /\ Ours /\ ~Rejected(contract.val) /\ ~Foreign(contract.val)
  /\ LET p == [Holding EXCEPT !.val = contract.val,
                              !.source = IF contract.owner = "kcp" THEN @ ELSE adoptionSource(@)]
     IN IF pass.pin = 0 THEN pass' = [p EXCEPT !.pc = "pin"]
        ELSE IF AfterPin(p) = "write" THEN pass' = [p EXCEPT !.pc = "write"]
        ELSE MarkReadyOrExpired(contract.val, contract.source)
  /\ cfresh' = TRUE
  /\ UNCHANGED <<secrets, kcp, cluster, kfresh, count>>

\* neutralizeContract: an update in place under the resourceVersion it was read with.
neutralizeContract ==
  /\ At("neutralize") /\ cfresh
  /\ contract' = IF refMatches THEN [contract EXCEPT !.val = Empty] ELSE contract
  /\ LET cond == IF refMatches THEN pass.cond ELSE "NotOwned"
     IN IF pass.cond = "CAMismatch" THEN MarkFalse(cond)
        ELSE pass' = [pass EXCEPT !.pc = "recandidate", !.cond = cond]
  /\ UNCHANGED <<staging, kcp, cluster, cfresh, kfresh, count>>

\* publishFromStaging without a candidate: nothing, or not the KCP's Secret.
Candidate == staging.exists /\ staging.owner = "kcp" /\ staging.val # Empty

NoCandidate ==
  /\ pass.pc \in {"candidate", "recandidate"} /\ ~Candidate
  /\ IF At("candidate") THEN markWaitingForNodePush ELSE MarkFalse(pass.cond)
  /\ UNCHANGED <<secrets, kcp, cluster, cfresh, kfresh, count>>

\* Fault: a staged kubeconfig with another CA is published.
AnyCandidate ==
  /\ pass.pc \in {"candidate", "recandidate"} /\ Candidate
  /\ IF Rejected(staging.val) THEN MarkFalse("Rejected")
     ELSE pass' = [pass EXCEPT !.pc = IF pass.pin = 0 THEN "pin" ELSE "write",
                               !.owned = FALSE, !.val = staging.val, !.source = "node-push"]
  /\ UNCHANGED <<secrets, kcp, cluster, cfresh, kfresh, count>>

\* Fault: while the SSH fallback has the condition, a push is not looked at.
PublishUnlessSSH ==
  /\ pass.pc \in {"candidate", "recandidate"} /\ Candidate
  /\ IF pass.cond \in SSHConds THEN MarkFalse(pass.cond)
     ELSE IF Rejected(staging.val) THEN MarkFalse("Rejected")
     ELSE IF Foreign(staging.val) THEN MarkFalse("CAMismatch")
     ELSE pass' = [pass EXCEPT !.pc = IF pass.pin = 0 THEN "pin" ELSE "write",
                               !.owned = FALSE, !.val = staging.val, !.source = "node-push"]
  /\ UNCHANGED <<secrets, kcp, cluster, cfresh, kfresh, count>>

publishFromStaging ==
  /\ pass.pc \in {"candidate", "recandidate"} /\ Candidate
  /\ IF Rejected(staging.val) THEN MarkFalse("Rejected")
     ELSE IF Foreign(staging.val) THEN MarkFalse("CAMismatch")
     ELSE pass' = [pass EXCEPT !.pc = IF pass.pin = 0 THEN "pin" ELSE "write",
                               !.owned = FALSE, !.val = staging.val, !.source = "node-push"]
  /\ UNCHANGED <<secrets, kcp, cluster, cfresh, kfresh, count>>

\* setCAPinAnnotation: a patch without a lock, whose answer replaces the pass's copy
\* of the KCP, its status included.
setCAPinAnnotation ==
  /\ At("pin")
  /\ kcp' = [kcp EXCEPT !.pin = pass.val.ca] /\ kfresh' = TRUE
  /\ IF AfterPin(pass) = "write"
     THEN pass' = [pass EXCEPT !.pc = "write", !.pin = pass.val.ca, !.cond = kcp.cond, !.anchor = kcp.anchor]
     ELSE IF pass.val.expired THEN Conclude("Expired", kcp.anchor)
     ELSE MarkReadyOrExpired(pass.val, pass.source)
  /\ UNCHANGED <<secrets, cluster, cfresh, count>>

\* writeContract: Create, or Patch under the resourceVersion read; without the Cluster's
\* controlPlaneRef it writes nothing, and its caller reports as if it had.
writeContract ==
  /\ At("write") /\ (cfresh \/ ~refMatches)
  /\ contract' = IF refMatches
                 THEN [exists |-> TRUE, val |-> Sanitize(pass.val, pass.server), owner |-> "kcp",
                       source |-> pass.source, fresh |-> contract.fresh]
                 ELSE contract
  /\ MarkReadyOrExpired(pass.val, IF refMatches THEN pass.source ELSE contract.source)
  /\ UNCHANGED <<staging, kcp, cluster, cfresh, kfresh, count>>

\* The Secret was changed, created or deleted since it was read: the pass fails.
SecretConflict ==
  /\ \/ At("neutralize") /\ ~cfresh
     \/ At("write") /\ ~cfresh /\ refMatches
  /\ EndPass /\ UNCHANGED <<secrets, kcp, cluster, count>>

\* Status().Update carries the resourceVersion of the pass's copy.
UpdateStatus ==
  /\ At("status") /\ kfresh
  /\ kcp' = [kcp EXCEPT !.cond = pass.cond, !.anchor = pass.anchor]
  /\ EndPass /\ UNCHANGED <<secrets, cluster, count>>

StatusConflict ==
  /\ At("status") /\ ~kfresh
  /\ EndPass /\ UNCHANGED <<secrets, kcp, cluster, count>>

\* An API call fails, or the manager stops.
PassStops ==
  /\ ~At("idle") /\ Stop
  /\ EndPass /\ UNCHANGED <<secrets, kcp, cluster, events>>

Pass == \/ BeginPass \/ resolveExpectedServerUnknown
        \/ ContractMissing \/ JudgeUnusable \/ JudgeLeftInPlace \/ JudgeCAMismatch \/ JudgeAccepted
        \/ neutralizeContract \/ NoCandidate \/ publishFromStaging \/ setCAPinAnnotation
        \/ writeContract \/ SecretConflict \/ UpdateStatus \/ StatusConflict

-----------------------------------------------------------------------------
(***************************************************************************)
(* Nodes and operators.                                                    *)
(***************************************************************************)
NodePushes(v) ==
  /\ Event /\ staging.exists /\ staging.owner = "kcp" /\ ~staging.immutable
  /\ staging' = [staging EXCEPT !.val = v]
  /\ UNCHANGED <<contract, kcp, cluster, pass, cfresh, kfresh, stops>>

\* A node changes the metadata of the staging Secret it may write.
NodeChangesMetadata ==
  /\ Event /\ staging.exists /\ staging.owner = "kcp"
  /\ staging' \in {[staging EXCEPT !.tidy = FALSE], [staging EXCEPT !.owner = "none"],
                   [staging EXCEPT !.immutable = TRUE]}
  /\ UNCHANGED <<contract, kcp, cluster, pass, cfresh, kfresh, stops>>

\* A node rendered before the staging Secret existed writes the contract Secret itself.
LegacyNodeWrites(v) ==
  /\ Event /\ contract' = [contract EXCEPT !.exists = TRUE, !.val = v, !.source = "node-push"]
  /\ cfresh' = FALSE
  /\ UNCHANGED <<staging, kcp, cluster, pass, kfresh, stops>>

OperatorRepins ==
  /\ Event /\ ~kcp.repin /\ kcp' = [kcp EXCEPT !.repin = TRUE] /\ kfresh' = FALSE
  /\ UNCHANGED <<secrets, cluster, pass, cfresh, stops>>

OperatorDeletesContract ==
  /\ Event /\ contract.exists /\ contract' = Absent /\ cfresh' = FALSE
  /\ UNCHANGED <<staging, kcp, cluster, pass, kfresh, stops>>

OperatorDeletesStaging ==
  /\ Event /\ staging.exists /\ staging' = NoStaging
  /\ UNCHANGED <<contract, kcp, cluster, pass, cfresh, kfresh, stops>>

\* The first endpoint is free; a later change counts.
EndpointChanges(e) ==
  /\ e # endpoint /\ endpoint' = e
  /\ IF endpoint = 0 THEN UNCHANGED events ELSE Event
  /\ UNCHANGED <<secrets, kcp, refMatches, enabled, pass, cfresh, kfresh, stops>>

\* LastNodePushObserved becomes older than activateAfter, in every copy.
Age(a) == IF a = "recent" THEN "old" ELSE a
Tick ==
  /\ "recent" \in {kcp.anchor, pass.anchor}
  /\ kcp' = [kcp EXCEPT !.anchor = Age(@)] /\ pass' = [pass EXCEPT !.anchor = Age(@)]
  /\ UNCHANGED <<secrets, cluster, cfresh, kfresh, count>>

Outside == \/ NodeChangesMetadata \/ OperatorRepins \/ OperatorDeletesContract
           \/ OperatorDeletesStaging \/ PassStops \/ Tick
           \/ (\E v \in Pushes : NodePushes(v)) \/ (\E v \in Legacy : LegacyNodeWrites(v))
           \/ \E e \in Servers : EndpointChanges(e)

\* trustedWorkloadKubeconfig: what the KCP builds its workload clients from.
trustedWorkloadKubeconfig ==
  IF endpoint # 0 /\ contract.val # Empty /\ ~Rejected(contract.val)
     /\ kcp.pin # 0 /\ contract.val.ca = kcp.pin
  THEN Sanitize(contract.val, endpoint) ELSE Empty

-----------------------------------------------------------------------------
(***************************************************************************)
(* Properties.                                                             *)
(***************************************************************************)
\* What the steps of a pass rely on: its copy of the pin is the KCP's, what it is about
\* to pin or to write is clean and has the pinned CA, the Secret it found in order is
\* the one it read, and the kubeconfig it will report ready is (see ReadyIsUsable).
PublishInv ==
  /\ pass.pc \notin {"idle", "status"} => pass.pin = kcp.pin
  /\ pass.server # 0 => endpoint # 0
  /\ pass.pc \in {"neutralize", "recandidate"} => pass.cond \notin ReadyConds
  /\ pass.pc \in {"neutralize", "candidate", "recandidate", "pin", "write"} => pass.server # 0
  /\ pass.pc \in {"pin", "write"} => pass.val # Empty /\ ~Rejected(pass.val)
  /\ pass.pc = "pin" /\ pass.owned /\ cfresh => contract.owner = "kcp" /\ contract.val = pass.val
  /\ pass.pc = "write" => pass.val.ca = pass.pin
  /\ pass.pc = "status" /\ pass.cond \in ReadyConds /\ cfresh /\ refMatches =>
       /\ contract.owner = "kcp" /\ contract.val.server # 0 /\ ~contract.val.expired
       /\ trustedWorkloadKubeconfig # Empty

\* A pass that reports the kubeconfig ready leaves one that is: unless the Secret was
\* changed under the pass (after its last read or write) it is the KCP's own, in the
\* canonical form for the server the pass resolved, unexpired, and trusted by the
\* client the KCP itself builds (markKubeconfigReadyOrExpired, trustedWorkloadKubeconfig).
\* For a KCP that the Cluster refers to.
ReadyIsUsable ==
  [][(UpdateStatus /\ kcp'.cond \in ReadyConds /\ cfresh /\ refMatches)
       => /\ contract.owner = "kcp" /\ contract.val.server # 0
          /\ ~contract.val.expired /\ trustedWorkloadKubeconfig # Empty]_<<kcp, pass>>

\* The pin is stored before anything is published under it: what a pass writes has the
\* CA that the KCP carries at that moment, in the server the controller resolved
\* (setCAPinAnnotation before writeContract), also after a re-pin, a conflict or a stop.
PublishedIsPinned ==
  [][(contract' # contract /\ pass' # pass /\ contract'.val # Empty)
       => contract'.val.ca = kcp.pin /\ contract'.val.server = pass.server]_<<contract, pass>>

Mismatched == /\ kcp.pin # 0 /\ refMatches /\ endpoint # 0
              /\ contract.val # Empty /\ ~Rejected(contract.val) /\ contract.val.ca # kcp.pin
Publishable == /\ Candidate /\ ~Rejected(staging.val) /\ kcp.pin \in {0, staging.val.ca}
               /\ refMatches /\ endpoint # 0 /\ contract.val = Empty

\* A Secret with another CA than the pinned one does not stay (JudgeCAMismatch), as
\* long as the KCP is responsible for it and knows the endpoint; and a clean push
\* with the pinned CA reaches an empty or missing contract Secret
\* (publishFromStaging), whatever the SSH fallback is doing.
SecretSettles == /\ Mismatched ~> ~Mismatched
                 /\ Publishable ~> ~Publishable
=============================================================================
