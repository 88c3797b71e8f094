------------------------- MODULE SSHFallback_proofs -------------------------
(***************************************************************************)
(* The publication of the kubeconfig beside the SSH fallback: FallbackInv, *)
(* ReadyIsUsable and PublishedIsPinned hold for any kubeconfigs, CAs and   *)
(* servers, any size of the pool, and any order of passes, jobs, writes of *)
(* nodes, edits, conflicts and restarts.                                   *)
(***************************************************************************)
EXTENDS SSHFallback, SequenceTheorems, TLAPS

-----------------------------------------------------------------------------
(* Facts about the operators                                               *)

\* No server and no CA has the number that stands for none.
LEMMA Numbers ==
  /\ 0 \notin CAs /\ 0 \notin Servers /\ PoolSize \in Nat /\ PoolSize >= 1
  /\ Files \subseteq Pushes \cup Legacy
BY PublishAssumption, SSHAssumption

\* A kubeconfig is empty, or has a CA and a validity.
LEMMA ValueFacts ==
  /\ Empty \in Values /\ Empty.ca = 0 /\ Empty.server = 0 /\ Empty.flaws = {} /\ Empty.expired = FALSE
  /\ \A v \in Values : v # Empty => v.ca \in CAs /\ v.expired \in BOOLEAN
  /\ \A v \in Pushes \cup Legacy : v \in Values /\ v # Empty /\ v.server = 0
BY PublishAssumption DEF Values, Canonical, Empty

\* What the sanitizer returns.
LEMMA SanitizeFacts ==
  ASSUME NEW v \in Values, v # Empty, NEW s \in Servers
  PROVE  /\ Sanitize(v, s) \in Values /\ Sanitize(v, s) # Empty
         /\ Sanitize(v, s).ca = v.ca /\ Sanitize(v, s).server = s
         /\ Sanitize(v, s).expired = v.expired /\ Sanitize(v, s).flaws = {}
<1>1. v.ca \in CAs /\ v.expired \in BOOLEAN BY ValueFacts
<1>2. Sanitize(v, s) \in Canonical BY <1>1 DEF Sanitize, Canonical
<1>3. Sanitize(v, s).ca # 0 BY <1>1, Numbers DEF Sanitize
<1> QED BY <1>2, <1>3, ValueFacts DEF Sanitize, Values

\* When the KCP builds its clients from the contract Secret.
LEMMA TrustedFacts ==
  ASSUME PublishTypeOK
  PROVE  trustedWorkloadKubeconfig # Empty <=>
           /\ endpoint # 0 /\ contract.val # Empty /\ ~Rejected(contract.val)
           /\ kcp.pin # 0 /\ contract.val.ca = kcp.pin
<1>1. contract.val \in Values /\ endpoint \in Servers \cup {0} BY DEF PublishTypeOK, Contracts
<1>2. endpoint # 0 /\ contract.val # Empty => Sanitize(contract.val, endpoint) # Empty
  BY <1>1, SanitizeFacts
<1> QED BY <1>2 DEF trustedWorkloadKubeconfig

\* The fields of the records.
LEMMA Fields ==
  ASSUME PublishTypeOK
  PROVE  /\ contract.val \in Values /\ contract.owner \in Owners /\ contract.source \in Sources
         /\ staging.val \in Values
         /\ kcp.pin \in CAs \cup {0} /\ kcp.cond \in Conds /\ kcp.anchor \in Anchors
         /\ pass.pc \in PassPCs /\ pass.pin \in CAs \cup {0} /\ pass.cond \in Conds
         /\ pass.anchor \in Anchors /\ pass.server \in Servers \cup {0} /\ pass.owned \in BOOLEAN
         /\ pass.val \in Values /\ pass.source \in Sources
BY DEF PublishTypeOK, Contracts, Stagings, KCPs, Passes

\* A pass that concludes holds nothing but what it will report.
LEMMA Concludes ==
  ASSUME NEW c \in Conds, NEW a \in Anchors, Conclude(c, a)
  PROVE  pass' \in Passes /\ pass'.pc = "status" /\ pass'.cond = c /\ pass'.server = 0
BY ValueFacts DEF Conclude, Idle, Passes, PassPCs, Conds, Anchors, Sources

\* A pass that ends holds nothing.
LEMMA Ends ==
  ASSUME pass' = Idle
  PROVE  pass' \in Passes /\ pass'.pc = "idle" /\ pass'.server = 0
BY ValueFacts DEF Idle, Passes, PassPCs, Conds, Anchors, Sources

\* What a pass reports when it finds or writes a kubeconfig in order.
LEMMA Reports ==
  ASSUME NEW v, NEW s, pass.anchor \in Anchors, MarkReadyOrExpired(v, s)
  PROVE  /\ pass' \in Passes /\ pass'.pc = "status" /\ pass'.server = 0
         /\ pass'.cond \in ReadyConds => ~v.expired
BY Concludes DEF MarkReadyOrExpired, MarkFalse, Conds, ReadyConds, SSHConds, Anchors

\* PublishInv asks nothing of an idle pass and little of one that has not read anything.
LEMMA NothingHeld ==
  ASSUME pass'.server = 0,
         \/ pass'.pc = "idle"
         \/ pass'.pc = "status" /\ pass'.cond \notin ReadyConds
         \/ pass'.pc = "read" /\ pass'.pin = kcp'.pin
  PROVE  PublishInv'
BY DEF PublishInv

\* A step of a pass to its next step.
LEMMA Moves ==
  ASSUME NEW p \in Passes, NEW pc \in PassPCs, NEW q, q = [p EXCEPT !.pc = pc]
  PROVE  /\ q \in Passes /\ q.pc = pc /\ q.pin = p.pin /\ q.cond = p.cond
         /\ q.server = p.server /\ q.owned = p.owned /\ q.val = p.val
BY DEF Passes

\* What a pass holds when it has read the contract Secret.
LEMMA HoldingFacts ==
  ASSUME PublishTypeOK
  PROVE  /\ Holding \in Passes /\ Holding.pin = pass.pin /\ Holding.server = endpoint
         /\ Holding.cond = pass.cond /\ Holding.owned = (contract.owner = "kcp")
         /\ Holding.source = contract.source
<1>1. contract.source \in Sources BY Fields
<1> QED BY <1>1 DEF PublishTypeOK, Holding, Passes

\* The types, after a step of the pass alone.
LEMMA PassTypes ==
  ASSUME PublishTypeOK, pass' \in Passes, UNCHANGED <<secrets, kcp, cluster, count>>,
         cfresh' \in BOOLEAN, kfresh' \in BOOLEAN
  PROVE  PublishTypeOK'
BY DEF PublishTypeOK, secrets, cluster, count

\* What a pass relies on is kept by everything that leaves the pass, the pin and the
\* Cluster's reference alone, and that the contract Secret's version tells it of.
LEMMA Undisturbed ==
  ASSUME PublishTypeOK, PublishInv, PublishTypeOK',
         /\ pass'.pc = pass.pc /\ pass'.pin = pass.pin /\ pass'.cond = pass.cond
         /\ pass'.server = pass.server /\ pass'.owned = pass.owned /\ pass'.val = pass.val,
         kcp'.pin = kcp.pin, refMatches' = refMatches, endpoint # 0 => endpoint' # 0,
         cfresh' => cfresh /\ contract' = contract
  PROVE  PublishInv'
<1>1. contract' = contract /\ trustedWorkloadKubeconfig # Empty => trustedWorkloadKubeconfig' # Empty
  <2> SUFFICES ASSUME contract' = contract, trustedWorkloadKubeconfig # Empty
               PROVE  trustedWorkloadKubeconfig' # Empty
    OBVIOUS
  <2>1. /\ endpoint # 0 /\ contract.val # Empty /\ ~Rejected(contract.val)
        /\ kcp.pin # 0 /\ contract.val.ca = kcp.pin
    BY TrustedFacts
  <2>2. endpoint' \in Servers /\ contract.val \in Values BY <2>1, Fields DEF PublishTypeOK
  <2>3. Sanitize(contract.val, endpoint') # Empty BY <2>1, <2>2, SanitizeFacts
  <2> QED BY <2>1, <2>3 DEF trustedWorkloadKubeconfig, Rejected
<1> QED BY <1>1 DEF PublishInv, Rejected

-----------------------------------------------------------------------------
(* The steps of a pass                                                     *)

\* A pass begins: it reads the KCP, whose pin it drops when it is asked to.
LEMMA BeginPassInv ==
  ASSUME PublishTypeOK, PublishInv, BeginPass PROVE PublishTypeOK' /\ PublishInv'
<1>1. kcp' \in KCPs BY DEF BeginPass, consumeRepinAnnotation, PublishTypeOK, KCPs
<1>2. staging' \in Stagings
  <2>1. CASE UNCHANGED staging BY <2>1 DEF PublishTypeOK
  <2>2. CASE ensureStagingKubeconfigSecret
    BY <2>2, ValueFacts DEF ensureStagingKubeconfigSecret, PublishTypeOK, Stagings, NoStaging,
        Owners
  <2> QED BY <2>1, <2>2 DEF BeginPass
<1>3. kcp'.pin \in CAs \cup {0} /\ kcp.cond \in Conds /\ kcp.anchor \in Anchors
  BY <1>1, Fields DEF KCPs
<1>4. /\ pass' \in Passes /\ pass'.pc = "read" /\ pass'.server = 0 /\ pass'.pin = kcp'.pin
  BY <1>3, ValueFacts DEF BeginPass, Idle, Passes, PassPCs, Sources
<1>5. UNCHANGED <<contract, endpoint, refMatches, enabled, cfresh, events>> /\ kfresh' = TRUE
      /\ stops' \in Nat
  BY DEF BeginPass, cluster, Stop, PublishTypeOK
<1>6. PublishTypeOK' BY <1>1, <1>2, <1>4, <1>5 DEF PublishTypeOK
<1> QED BY <1>4, <1>6, NothingHeld

\* No endpoint is known yet: the pass reports that it waits.
LEMMA ResolveExpectedServerUnknownInv ==
  ASSUME PublishTypeOK, PublishInv, resolveExpectedServerUnknown PROVE PublishTypeOK' /\ PublishInv'
<1> DEFINE c == IF pass.cond \in SSHConds THEN pass.cond ELSE "Waiting"
           a == IF pass.anchor = "nil" THEN "recent" ELSE pass.anchor
<1>1. c \in Conds /\ a \in Anchors /\ c \notin ReadyConds
  BY Fields DEF Conds, SSHConds, ReadyConds, Anchors
<1>2. Conclude(c, a) BY DEF resolveExpectedServerUnknown, markWaitingForNodePush
<1>3. pass' \in Passes /\ pass'.pc = "status" /\ pass'.cond \notin ReadyConds /\ pass'.server = 0
  BY <1>1, <1>2, Concludes
<1>4. PublishTypeOK' BY <1>3, PassTypes DEF resolveExpectedServerUnknown, PublishTypeOK
<1> QED BY <1>3, <1>4, NothingHeld

\* There is no contract Secret: the pass looks for a candidate.
LEMMA ContractMissingInv ==
  ASSUME PublishTypeOK, PublishInv, ContractMissing PROVE PublishTypeOK' /\ PublishInv'
<1>1. /\ pass.pc = "read" /\ endpoint # 0 /\ pass' = [Holding EXCEPT !.pc = "candidate"]
      /\ cfresh' = TRUE /\ UNCHANGED <<secrets, kcp, cluster, kfresh, count>>
  BY DEF ContractMissing, Reading, At
<1>2. pass' \in Passes /\ pass'.pc = "candidate" /\ pass'.pin = pass.pin /\ pass'.server = endpoint
  <2>1. "candidate" \in PassPCs BY DEF PassPCs
  <2>2. pass' = [Holding EXCEPT !.pc = "candidate"] BY <1>1
  <2> QED BY <2>1, <2>2, HoldingFacts, Moves
<1>3. PublishTypeOK' BY <1>1, <1>2, PassTypes DEF PublishTypeOK
<1> QED BY <1>1, <1>2, <1>3 DEF PublishInv, cluster

\* Both kinds of judgement that empty the Secret.
LEMMA JudgeNeutralizesInv ==
  ASSUME PublishTypeOK, PublishInv, JudgeUnusable \/ JudgeCAMismatch PROVE PublishTypeOK' /\ PublishInv'
<1>1. PICK c \in {"Waiting", "CAMismatch"} :
        /\ pass.pc = "read" /\ endpoint # 0
        /\ pass' = [Holding EXCEPT !.pc = "neutralize", !.cond = c]
        /\ cfresh' = TRUE /\ UNCHANGED <<secrets, kcp, cluster, kfresh, count>>
  BY DEF JudgeUnusable, JudgeCAMismatch, Judging, Reading, At
<1>2. c \in Conds /\ c \notin ReadyConds BY DEF Conds, ReadyConds
<1>3. /\ pass' \in Passes /\ pass'.pc = "neutralize" /\ pass'.pin = pass.pin
      /\ pass'.server = endpoint /\ pass'.cond = c
  <2>1. "neutralize" \in PassPCs BY DEF PassPCs
  <2>2. pass' = [Holding EXCEPT !.pc = "neutralize", !.cond = c] BY <1>1
  <2>3. Holding \in Passes BY HoldingFacts
  <2>4. /\ pass' \in Passes /\ pass'.pc = "neutralize" /\ pass'.pin = Holding.pin
        /\ pass'.server = Holding.server /\ pass'.cond = c
    BY <1>2, <2>1, <2>2, <2>3 DEF Passes
  <2> QED BY <2>4, HoldingFacts
<1>4. PublishTypeOK' BY <1>1, <1>3, PassTypes DEF PublishTypeOK
<1> QED BY <1>1, <1>2, <1>3, <1>4 DEF PublishInv, cluster

\* A Secret of someone else, or one that is rejected, is reported and left in place.
LEMMA JudgeLeftInPlaceInv ==
  ASSUME PublishTypeOK, PublishInv, JudgeLeftInPlace PROVE PublishTypeOK' /\ PublishInv'
<1>1. PICK c \in {"Rejected", "NotOwned"} : Conclude(c, pass.anchor)
  BY DEF JudgeLeftInPlace, MarkFalse
<1>2. c \in Conds /\ c \notin ReadyConds BY DEF Conds, ReadyConds
<1>3. pass' \in Passes /\ pass'.pc = "status" /\ pass'.cond = c /\ pass'.server = 0
  BY <1>1, <1>2, Fields, Concludes
<1>4. PublishTypeOK' BY <1>3, PassTypes DEF JudgeLeftInPlace, PublishTypeOK
<1> QED BY <1>2, <1>3, <1>4, NothingHeld

\* A Secret that is in order is pinned, written again or reported.
LEMMA JudgeAcceptedInv ==
  ASSUME PublishTypeOK, PublishInv, JudgeAccepted PROVE PublishTypeOK' /\ PublishInv'
<1>1. /\ pass.pc = "read" /\ endpoint # 0 /\ contract.val # Empty /\ ~Rejected(contract.val)
      /\ pass.pin = 0 \/ pass.pin = contract.val.ca
      /\ UNCHANGED <<secrets, kcp, cluster, kfresh, count>> /\ cfresh' = TRUE
  BY DEF JudgeAccepted, Judging, Reading, At, Foreign
<1>2. pass.pin = kcp.pin BY <1>1 DEF PublishInv
<1> DEFINE p == [Holding EXCEPT !.val = contract.val,
                                !.source = IF contract.owner = "kcp" THEN @ ELSE adoptionSource(@)]
<1>3. /\ p \in Passes /\ p.pin = pass.pin /\ p.server = endpoint /\ p.val = contract.val
      /\ p.owned = (contract.owner = "kcp") /\ p.cond \in Conds
  <2>1. contract.val \in Values /\ contract.source \in Sources /\ pass.cond \in Conds BY Fields
  <2>2. adoptionSource(contract.source) \in Sources BY <2>1 DEF adoptionSource, Sources
  <2> QED BY <2>1, <2>2, HoldingFacts DEF Passes
<1>4. \/ pass.pin = 0 /\ pass' = [p EXCEPT !.pc = "pin"]
      \/ pass.pin # 0 /\ AfterPin(p) = "write" /\ pass' = [p EXCEPT !.pc = "write"]
      \/ pass.pin # 0 /\ AfterPin(p) = "status" /\ MarkReadyOrExpired(contract.val, contract.source)
  BY DEF JudgeAccepted, AfterPin
<1> HIDE DEF p
<1>5. CASE pass.pin = 0 /\ pass' = [p EXCEPT !.pc = "pin"]
  <2>1. /\ pass' \in Passes /\ pass'.pc = "pin" /\ pass'.pin = pass.pin /\ pass'.server = endpoint
        /\ pass'.val = contract.val /\ pass'.owned = (contract.owner = "kcp")
    <3>1. "pin" \in PassPCs BY DEF PassPCs
    <3>2. p \in Passes /\ pass' = [p EXCEPT !.pc = "pin"] BY <1>3, <1>5
    <3> QED BY <1>3, <3>1, <3>2, Moves
  <2>2. PublishTypeOK' BY <1>1, <2>1, PassTypes DEF PublishTypeOK
  <2>3. PublishInv' BY <1>1, <1>2, <2>1 DEF PublishInv, secrets, cluster, Rejected
  <2> QED BY <2>2, <2>3
<1>6. CASE pass.pin # 0 /\ AfterPin(p) = "write" /\ pass' = [p EXCEPT !.pc = "write"]
  <2>1. /\ pass' \in Passes /\ pass'.pc = "write" /\ pass'.pin = pass.pin /\ pass'.server = endpoint
        /\ pass'.val = contract.val
    <3>1. "write" \in PassPCs BY DEF PassPCs
    <3>2. p \in Passes /\ pass' = [p EXCEPT !.pc = "write"] BY <1>3, <1>6
    <3> QED BY <1>3, <3>1, <3>2, Moves
  <2>2. PublishTypeOK' BY <1>1, <2>1, PassTypes DEF PublishTypeOK
  <2>3. PublishInv' BY <1>1, <1>2, <1>6, <2>1 DEF PublishInv, secrets, cluster, Rejected
  <2> QED BY <2>2, <2>3
<1>7. CASE pass.pin # 0 /\ AfterPin(p) = "status" /\ MarkReadyOrExpired(contract.val, contract.source)
  <2>1. /\ pass' \in Passes /\ pass'.pc = "status" /\ pass'.server = 0
        /\ pass'.cond \in ReadyConds => ~contract.val.expired
    BY <1>7, Fields, Reports
  <2>2. PublishTypeOK' BY <1>1, <2>1, PassTypes DEF PublishTypeOK
  <2>3. contract.owner = "kcp" /\ contract.val.server = endpoint BY <1>3, <1>7 DEF AfterPin
  <2>4. trustedWorkloadKubeconfig' = trustedWorkloadKubeconfig
    BY <1>1 DEF secrets, cluster, Rejected, trustedWorkloadKubeconfig
  <2>5. trustedWorkloadKubeconfig # Empty BY <1>1, <1>2, <1>7, TrustedFacts
  <2>6. PublishInv' BY <1>1, <2>1, <2>3, <2>4, <2>5 DEF PublishInv, secrets, cluster
  <2> QED BY <2>2, <2>6
<1> QED BY <1>4, <1>5, <1>6, <1>7

\* The Secret is emptied under the version that was read.
LEMMA NeutralizeContractInv ==
  ASSUME PublishTypeOK, PublishInv, neutralizeContract PROVE PublishTypeOK' /\ PublishInv'
<1> DEFINE c == IF refMatches THEN pass.cond ELSE "NotOwned"
<1>1. /\ pass.pc = "neutralize" /\ pass.server # 0 /\ pass.pin = kcp.pin /\ endpoint # 0
      /\ c \in Conds /\ c \notin ReadyConds
  BY Fields DEF neutralizeContract, At, PublishInv, Conds, ReadyConds
<1>2. UNCHANGED <<staging, kcp, cluster, cfresh, kfresh, count>> BY DEF neutralizeContract
<1>3. contract' \in Contracts
  BY ValueFacts DEF neutralizeContract, PublishTypeOK, Contracts
<1>4. \/ Conclude(c, pass.anchor) \/ pass' = [pass EXCEPT !.pc = "recandidate", !.cond = c]
  BY DEF neutralizeContract, MarkFalse
<1> HIDE DEF c
<1>5. CASE Conclude(c, pass.anchor)
  <2>1. pass' \in Passes /\ pass'.pc = "status" /\ pass'.cond = c /\ pass'.server = 0
    BY <1>1, <1>5, Fields, Concludes
  <2>2. PublishTypeOK' BY <1>2, <1>3, <2>1 DEF PublishTypeOK, cluster, count
  <2> QED BY <1>1, <2>1, <2>2, NothingHeld
<1>6. CASE pass' = [pass EXCEPT !.pc = "recandidate", !.cond = c]
  <2>1. "recandidate" \in PassPCs /\ pass \in Passes BY DEF PassPCs, PublishTypeOK
  <2>2. /\ pass' \in Passes /\ pass'.pc = "recandidate" /\ pass'.pin = pass.pin /\ pass'.cond = c
        /\ pass'.server = pass.server
    BY <1>1, <1>6, <2>1 DEF Passes
  <2>3. PublishTypeOK' BY <1>2, <1>3, <2>2 DEF PublishTypeOK, cluster, count
  <2> QED BY <1>1, <1>2, <2>2, <2>3 DEF PublishInv, cluster
<1> QED BY <1>4, <1>5, <1>6

\* Neither node nor legacy writer has left a kubeconfig.
LEMMA NoCandidateInv ==
  ASSUME PublishTypeOK, PublishInv, NoCandidate PROVE PublishTypeOK' /\ PublishInv'
<1> DEFINE w == IF pass.cond \in SSHConds THEN pass.cond ELSE "Waiting"
           a == IF pass.anchor = "nil" THEN "recent" ELSE pass.anchor
<1>1. w \in Conds /\ a \in Anchors /\ w \notin ReadyConds
  BY Fields DEF Conds, SSHConds, ReadyConds, Anchors
<1>2. PICK c \in Conds, b \in Anchors : c \notin ReadyConds /\ Conclude(c, b)
  <2>1. CASE pass.pc = "candidate"
    BY <1>1, <2>1 DEF NoCandidate, At, markWaitingForNodePush
  <2>2. CASE pass.pc = "recandidate"
    <3>1. Conclude(pass.cond, pass.anchor) BY <2>2 DEF NoCandidate, At, MarkFalse
    <3>2. pass.cond \notin ReadyConds BY <2>2 DEF PublishInv
    <3> QED BY <3>1, <3>2, Fields
  <2> QED BY <2>1, <2>2 DEF NoCandidate
<1>3. pass' \in Passes /\ pass'.pc = "status" /\ pass'.cond = c /\ pass'.server = 0
  BY <1>2, Concludes
<1>4. PublishTypeOK' BY <1>3, PassTypes DEF NoCandidate, PublishTypeOK
<1> QED BY <1>2, <1>3, <1>4, NothingHeld

\* What a node pushed becomes what the pass will publish.
LEMMA PublishFromStagingInv ==
  ASSUME PublishTypeOK, PublishInv, publishFromStaging PROVE PublishTypeOK' /\ PublishInv'
<1> DEFINE next == IF pass.pin = 0 THEN "pin" ELSE "write"
<1>1. /\ pass.pc \in {"candidate", "recandidate"} /\ staging.val # Empty
      /\ UNCHANGED <<secrets, kcp, cluster, cfresh, kfresh, count>>
  BY DEF publishFromStaging, Candidate
<1>2. pass.server # 0 /\ pass.pin = kcp.pin /\ endpoint # 0 BY <1>1 DEF PublishInv
<1>3. CASE \E c \in {"Rejected", "CAMismatch"} : Conclude(c, pass.anchor)
  <2>1. PICK c \in {"Rejected", "CAMismatch"} : Conclude(c, pass.anchor) BY <1>3
  <2>2. c \in Conds /\ c \notin ReadyConds BY DEF Conds, ReadyConds
  <2>3. pass' \in Passes /\ pass'.pc = "status" /\ pass'.cond = c /\ pass'.server = 0
    BY <2>1, <2>2, Fields, Concludes
  <2>4. PublishTypeOK' BY <1>1, <2>3, PassTypes DEF PublishTypeOK
  <2> QED BY <2>2, <2>3, <2>4, NothingHeld
<1>4. CASE /\ ~Rejected(staging.val) /\ ~Foreign(staging.val)
           /\ pass' = [pass EXCEPT !.pc = next, !.owned = FALSE, !.val = staging.val,
                                   !.source = "node-push"]
  <2>1. next \in PassPCs /\ staging.val \in Values /\ "node-push" \in Sources
    BY Fields DEF PassPCs, Sources
  <2> HIDE DEF next
  <2>2. /\ pass' \in Passes /\ pass'.pc = next /\ pass'.pin = pass.pin /\ pass'.owned = FALSE
        /\ pass'.val = staging.val /\ pass'.server = pass.server
    BY <1>4, <2>1 DEF PublishTypeOK, Passes
  <2>3. PublishTypeOK' BY <1>1, <2>2, PassTypes DEF PublishTypeOK
  <2>4. next = "pin" \/ (next = "write" /\ pass.pin = staging.val.ca) BY <1>4 DEF next, Foreign
  <2>5. PublishInv' BY <1>1, <1>2, <1>4, <2>2, <2>4 DEF PublishInv, secrets, cluster, Rejected
  <2> QED BY <2>3, <2>5
<1> QED BY <1>3, <1>4 DEF publishFromStaging, MarkFalse

\* The pin is stored; then the Secret is written, or reported when it is in order.
LEMMA SetCAPinAnnotationInv ==
  ASSUME PublishTypeOK, PublishInv, setCAPinAnnotation PROVE PublishTypeOK' /\ PublishInv'
<1>1. /\ pass.pc = "pin" /\ kcp' = [kcp EXCEPT !.pin = pass.val.ca] /\ kfresh' = TRUE
      /\ UNCHANGED <<secrets, cluster, cfresh, count>>
  BY DEF setCAPinAnnotation, At
<1>2. /\ pass.val # Empty /\ ~Rejected(pass.val) /\ pass.server # 0 /\ endpoint # 0
      /\ pass.owned /\ cfresh => contract.owner = "kcp" /\ contract.val = pass.val
  BY <1>1 DEF PublishInv
<1>3. pass.val.ca \in CAs /\ pass.val.ca # 0 BY <1>2, Fields, ValueFacts, Numbers
<1>4. kcp' \in KCPs /\ kcp'.pin = pass.val.ca BY <1>1, <1>3 DEF PublishTypeOK, KCPs
<1>5. CASE /\ AfterPin(pass) = "write"
           /\ pass' = [pass EXCEPT !.pc = "write", !.pin = pass.val.ca, !.cond = kcp.cond,
                                   !.anchor = kcp.anchor]
  <2>1. "write" \in PassPCs /\ kcp.cond \in Conds /\ kcp.anchor \in Anchors BY Fields DEF PassPCs
  <2>2. /\ pass' \in Passes /\ pass'.pc = "write" /\ pass'.pin = pass.val.ca
        /\ pass'.val = pass.val /\ pass'.server = pass.server
    BY <1>3, <1>5, <2>1 DEF PublishTypeOK, Passes
  <2>3. PublishTypeOK' BY <1>1, <1>4, <2>2 DEF PublishTypeOK, secrets, cluster, count
  <2>4. PublishInv' BY <1>1, <1>2, <1>4, <2>2 DEF PublishInv, cluster, Rejected
  <2> QED BY <2>3, <2>4
<1>6. CASE /\ AfterPin(pass) # "write"
           /\ \/ pass.val.expired /\ Conclude("Expired", kcp.anchor)
              \/ MarkReadyOrExpired(pass.val, pass.source)
  <2>1. /\ pass' \in Passes /\ pass'.pc = "status" /\ pass'.server = 0
        /\ pass'.cond \in ReadyConds => ~pass.val.expired
    <3>1. CASE Conclude("Expired", kcp.anchor)
      <4>1. "Expired" \in Conds /\ "Expired" \notin ReadyConds BY DEF Conds, ReadyConds
      <4> QED BY <3>1, <4>1, Fields, Concludes
    <3>2. CASE MarkReadyOrExpired(pass.val, pass.source) BY <3>2, Fields, Reports
    <3> QED BY <1>6, <3>1, <3>2
  <2>2. PublishTypeOK' BY <1>1, <1>4, <2>1 DEF PublishTypeOK, secrets, cluster, count
  <2>3. pass.owned /\ pass.val.server = pass.server BY <1>6 DEF AfterPin
  <2>4. ASSUME cfresh PROVE trustedWorkloadKubeconfig' # Empty
    <3>1. contract' = contract /\ endpoint' = endpoint /\ contract.val = pass.val
      BY <1>1, <1>2, <2>3, <2>4 DEF secrets, cluster
    <3>2. endpoint \in Servers /\ contract.val \in Values BY <1>2, Fields DEF PublishTypeOK
    <3>3. Sanitize(contract.val, endpoint) # Empty BY <1>2, <3>1, <3>2, SanitizeFacts
    <3> QED BY <1>2, <1>3, <1>4, <3>1, <3>3 DEF trustedWorkloadKubeconfig, Rejected
  <2>5. PublishInv' BY <1>1, <1>2, <2>1, <2>3, <2>4 DEF PublishInv, secrets, cluster
  <2> QED BY <2>2, <2>5
<1> QED BY <1>5, <1>6 DEF setCAPinAnnotation

\* The Secret is written under the version that was read.
LEMMA WriteContractInv ==
  ASSUME PublishTypeOK, PublishInv, writeContract PROVE PublishTypeOK' /\ PublishInv'
<1>1. /\ pass.pc = "write" /\ UNCHANGED <<staging, kcp, cluster, cfresh, kfresh, count>>
      /\ MarkReadyOrExpired(pass.val, IF refMatches THEN pass.source ELSE contract.source)
  BY DEF writeContract, At
<1>2. /\ pass.val # Empty /\ ~Rejected(pass.val) /\ pass.server # 0 /\ endpoint # 0
      /\ pass.val.ca = kcp.pin
  BY <1>1 DEF PublishInv
<1>3. pass.val \in Values /\ pass.val.ca \in CAs /\ pass.val.ca # 0 /\ pass.server \in Servers
  BY <1>2, Fields, ValueFacts, Numbers
<1> DEFINE v == Sanitize(pass.val, pass.server)
<1>4. /\ v \in Values /\ v # Empty /\ v.ca = pass.val.ca /\ v.server = pass.server
      /\ v.expired = pass.val.expired /\ v.flaws = {}
  BY <1>2, <1>3, SanitizeFacts
<1> HIDE DEF v
<1>5. IF refMatches
      THEN contract' = [exists |-> TRUE, val |-> v, owner |-> "kcp", source |-> pass.source,
                        fresh |-> contract.fresh]
      ELSE contract' = contract
  BY DEF writeContract, v
<1>6. contract' \in Contracts
  <2>1. contract \in Contracts /\ contract.fresh \in BOOLEAN BY DEF PublishTypeOK, Contracts
  <2>2. pass.source \in Sources BY Fields
  <2>3. CASE refMatches
    <3>1. contract' = [exists |-> TRUE, val |-> v, owner |-> "kcp", source |-> pass.source,
                       fresh |-> contract.fresh]
      BY <1>5, <2>3
    <3>2. v \in Values BY <1>4
    <3> QED BY <2>1, <2>2, <3>1, <3>2 DEF Contracts, Owners
  <2>4. CASE ~refMatches BY <1>5, <2>1, <2>4
  <2> QED BY <2>3, <2>4
<1>7. /\ pass' \in Passes /\ pass'.pc = "status" /\ pass'.server = 0
      /\ pass'.cond \in ReadyConds => ~pass.val.expired
  BY <1>1, Fields, Reports
<1>8. PublishTypeOK' BY <1>1, <1>6, <1>7 DEF PublishTypeOK, cluster, count
<1>9. ASSUME refMatches PROVE trustedWorkloadKubeconfig' # Empty
  <2>1. contract'.val = v /\ kcp' = kcp /\ endpoint' = endpoint BY <1>1, <1>5, <1>9 DEF cluster
  <2>2. endpoint \in Servers BY <1>2 DEF PublishTypeOK
  <2>3. Sanitize(v, endpoint) # Empty BY <1>4, <2>2, SanitizeFacts
  <2> QED BY <1>2, <1>3, <1>4, <2>1, <2>3 DEF trustedWorkloadKubeconfig, Rejected
<1>10. PublishInv' BY <1>1, <1>2, <1>4, <1>5, <1>7, <1>9 DEF PublishInv, cluster
<1> QED BY <1>8, <1>10

\* A pass that ends, by its status update, on a conflict or because it is cut short.
LEMMA PassEndsInv ==
  ASSUME PublishTypeOK, PublishInv, SecretConflict \/ UpdateStatus \/ StatusConflict \/ PassStops
  PROVE  PublishTypeOK' /\ PublishInv'
<1>1. /\ pass' = Idle /\ cfresh' = FALSE /\ kfresh' = FALSE
      /\ UNCHANGED <<secrets, cluster, events>> /\ stops' \in Nat
  BY DEF SecretConflict, UpdateStatus, StatusConflict, PassStops, EndPass, count, Stop,
      PublishTypeOK
<1>2. kcp' \in KCPs
  <2>1. CASE UpdateStatus BY <2>1, Fields DEF UpdateStatus, PublishTypeOK, KCPs
  <2>2. CASE kcp' = kcp BY <2>2 DEF PublishTypeOK
  <2> QED BY <2>1, <2>2 DEF SecretConflict, StatusConflict, PassStops
<1>3. PublishTypeOK' BY <1>1, <1>2, Ends DEF PublishTypeOK, secrets, cluster
<1> QED BY <1>1, <1>3, Ends, NothingHeld

-----------------------------------------------------------------------------
(* Nodes and operators                                                     *)

\* An event takes one from the budget of events.
LEMMA EventIsSpent == ASSUME events \in Nat, Event PROVE events' \in Nat
BY DEF Event

\* Nodes write to the staging Secret, and operators delete it.
LEMMA StagingInv ==
  ASSUME PublishTypeOK, PublishInv,
         NodeChangesMetadata \/ OperatorDeletesStaging \/ \E v \in Pushes : NodePushes(v)
  PROVE  PublishTypeOK' /\ PublishInv'
<1>1. UNCHANGED <<contract, kcp, cluster, pass, cfresh, kfresh, stops>> /\ events' \in Nat
  BY EventIsSpent DEF NodeChangesMetadata, OperatorDeletesStaging, NodePushes, PublishTypeOK
<1>2. staging' \in Stagings
  <2>1. CASE NodeChangesMetadata BY <2>1 DEF NodeChangesMetadata, PublishTypeOK, Stagings, Owners
  <2>2. CASE OperatorDeletesStaging
    BY <2>2, ValueFacts DEF OperatorDeletesStaging, NoStaging, Stagings, Owners
  <2>3. ASSUME NEW v \in Pushes, NodePushes(v) PROVE staging' \in Stagings
    <3>1. v \in Values BY ValueFacts
    <3> QED BY <2>3, <3>1 DEF NodePushes, PublishTypeOK, Stagings
  <2> QED BY <2>1, <2>2, <2>3
<1>3. PublishTypeOK' BY <1>1, <1>2 DEF PublishTypeOK, cluster
<1> QED BY <1>1, <1>3, Undisturbed DEF cluster

\* The contract Secret is written or deleted under a pass.
LEMMA ContractChangesInv ==
  ASSUME PublishTypeOK, PublishInv,
         OperatorDeletesContract \/ \E v \in Legacy : LegacyNodeWrites(v)
  PROVE  PublishTypeOK' /\ PublishInv'
<1>1. UNCHANGED <<staging, kcp, cluster, pass, kfresh, stops>> /\ events' \in Nat /\ cfresh' = FALSE
  BY EventIsSpent DEF OperatorDeletesContract, LegacyNodeWrites, PublishTypeOK
<1>2. contract' \in Contracts
  <2>1. CASE OperatorDeletesContract
    BY <2>1, ValueFacts DEF OperatorDeletesContract, Absent, Contracts, Owners, Sources
  <2>2. ASSUME NEW v \in Legacy, LegacyNodeWrites(v) PROVE contract' \in Contracts
    <3>1. v \in Values /\ "node-push" \in Sources BY ValueFacts DEF Sources
    <3> QED BY <2>2, <3>1 DEF LegacyNodeWrites, PublishTypeOK, Contracts
  <2> QED BY <2>1, <2>2
<1>3. PublishTypeOK' BY <1>1, <1>2 DEF PublishTypeOK, cluster
<1> QED BY <1>1, <1>3, Undisturbed DEF cluster

\* An operator asks for a new pin.
LEMMA OperatorRepinsInv ==
  ASSUME PublishTypeOK, PublishInv, OperatorRepins PROVE PublishTypeOK' /\ PublishInv'
<1>1. UNCHANGED <<secrets, cluster, pass, cfresh, stops>> /\ events' \in Nat /\ kfresh' = FALSE
  BY EventIsSpent DEF OperatorRepins, PublishTypeOK
<1>2. kcp' \in KCPs /\ kcp'.pin = kcp.pin BY DEF OperatorRepins, PublishTypeOK, KCPs
<1>3. PublishTypeOK' BY <1>1, <1>2 DEF PublishTypeOK, secrets, cluster
<1> QED BY <1>1, <1>2, <1>3, Undisturbed DEF secrets, cluster

\* The endpoint of the Cluster changes.
LEMMA EndpointChangesInv ==
  ASSUME PublishTypeOK, PublishInv, NEW e \in Servers, EndpointChanges(e)
  PROVE  PublishTypeOK' /\ PublishInv'
<1>1. UNCHANGED <<secrets, kcp, refMatches, enabled, pass, cfresh, kfresh, stops>> /\ events' \in Nat
  BY EventIsSpent DEF EndpointChanges, PublishTypeOK
<1>2. endpoint' \in Servers /\ endpoint' # 0 BY Numbers DEF EndpointChanges
<1>3. PublishTypeOK' BY <1>1, <1>2 DEF PublishTypeOK, secrets
<1> QED BY <1>1, <1>2, <1>3, Undisturbed DEF secrets

\* Time passes.
LEMMA TickInv == ASSUME PublishTypeOK, PublishInv, Tick PROVE PublishTypeOK' /\ PublishInv'
<1>1. UNCHANGED <<secrets, cluster, cfresh, kfresh, count>> BY DEF Tick
<1>2. Age(kcp.anchor) \in Anchors /\ Age(pass.anchor) \in Anchors BY Fields DEF Age, Anchors
<1>3. kcp' \in KCPs /\ kcp'.pin = kcp.pin BY <1>2 DEF Tick, PublishTypeOK, KCPs
<1>4. /\ pass' \in Passes /\ pass'.pc = pass.pc /\ pass'.pin = pass.pin /\ pass'.cond = pass.cond
      /\ pass'.server = pass.server /\ pass'.owned = pass.owned /\ pass'.val = pass.val
  BY <1>2 DEF Tick, PublishTypeOK, Passes
<1>5. PublishTypeOK' BY <1>1, <1>3, <1>4 DEF PublishTypeOK, secrets, cluster, count
<1> QED BY <1>1, <1>3, <1>4, <1>5, Undisturbed DEF secrets, cluster

\* Publication, without the fallback.
LEMMA PublicationInv ==
  ASSUME PublishTypeOK, PublishInv, Pass \/ Outside PROVE PublishTypeOK' /\ PublishInv'
<1>1. CASE Pass
  BY <1>1, BeginPassInv, ResolveExpectedServerUnknownInv, ContractMissingInv, JudgeNeutralizesInv,
     JudgeLeftInPlaceInv, JudgeAcceptedInv, NeutralizeContractInv, NoCandidateInv,
     PublishFromStagingInv, SetCAPinAnnotationInv, WriteContractInv, PassEndsInv DEF Pass
<1>2. CASE Outside
  BY <1>2, StagingInv, ContractChangesInv, OperatorRepinsInv, EndpointChangesInv, TickInv,
      PassEndsInv
     DEF Outside
<1> QED BY <1>1, <1>2

-----------------------------------------------------------------------------
(* The fallback                                                            *)

\* The fields of the records, and the records of a fallback at rest.
LEMMA FallbackFields ==
  ASSUME FallbackTypeOK
  PROVE  /\ ssh.was \in Conds /\ ssh.to \in Conds /\ ssh.server \in Servers \cup {0}
         /\ job.server \in Servers \cup {0} /\ job.res \in Results \cup {"none"} /\ job.val \in Values
         /\ drain.was \in Conds /\ drain.res \in Results \cup {"none"} /\ busy \in Nat
         /\ Results \cup {"none"} \subseteq {"OK", "Misconfigured", "Failed", "none"}
BY Numbers DEF FallbackTypeOK, SSHs, Jobs, Drains, Results

\* The records of a reconcile, a job and a drain that are at rest.
LEMMA AtRestFacts ==
  /\ NoSSH \in SSHs /\ NoSSH.pc = "idle" /\ NoJob \in Jobs /\ NoJob.pc = "none"
  /\ NoDrain \in Drains /\ NoDrain.pc = "idle"
BY ValueFacts DEF NoSSH, SSHs, NoJob, Jobs, NoDrain, Drains, Conds, Results

\* Publication sees nothing of a step that leaves its variables alone.
LEMMA PublishUntouched ==
  ASSUME PublishTypeOK, PublishInv, UNCHANGED publishVars PROVE PublishTypeOK' /\ PublishInv'
<1>1. PublishTypeOK' BY DEF publishVars, cluster, PublishTypeOK
<1> QED BY <1>1, Undisturbed DEF publishVars, cluster

\* A patch of the condition keeps what a pass relies on.
LEMMA PatchConditionInv ==
  ASSUME PublishTypeOK, PublishInv, NEW was, NEW to \in Conds, PatchCondition(was, to),
         UNCHANGED <<secrets, cluster, pass, cfresh, count>>
  PROVE  PublishTypeOK' /\ PublishInv'
<1>1. kcp' \in KCPs /\ kcp'.pin = kcp.pin BY DEF PatchCondition, PublishTypeOK, KCPs
<1>2. kfresh' \in BOOLEAN BY DEF PatchCondition, PublishTypeOK
<1>3. PublishTypeOK' BY <1>1, <1>2 DEF PublishTypeOK, secrets, cluster, count
<1> QED BY <1>1, <1>3, Undisturbed DEF secrets, cluster

\* The sibling reconciler decides.
LEMMA ReconcileSSHInv == ASSUME FallbackInv, ReconcileSSH PROVE FallbackInv'
<1>1. PublishTypeOK' /\ PublishInv' BY PublishUntouched DEF ReconcileSSH, FallbackInv, TypeOK
<1>2. kcp.cond \in Conds /\ endpoint \in Servers \cup {0}
  BY Fields DEF FallbackInv, TypeOK, PublishTypeOK
<1>3. ssh' \in SSHs /\ (ssh'.pc = "enqueue" => ssh'.server # 0)
  BY <1>2 DEF ReconcileSSH, SSHs, Conds, SSHConds
<1>4. UNCHANGED <<refs, busy, job, results, drain>> BY DEF ReconcileSSH
<1> QED BY <1>1, <1>3, <1>4 DEF FallbackInv, TypeOK, FallbackTypeOK, JobInv

\* A job takes a free slot, or is dropped.
LEMMA EnqueueInv == ASSUME FallbackInv, Enqueue PROVE FallbackInv'
<1>1. PublishTypeOK' /\ PublishInv' BY PublishUntouched DEF Enqueue, FallbackInv, TypeOK
<1>2. FallbackTypeOK /\ JobInv /\ ssh.pc = "enqueue" /\ ssh.server \in Servers
  BY FallbackFields DEF FallbackInv, TypeOK, Enqueue, JobInv
<1>3. ssh' \in SSHs /\ ssh'.pc = "patch" BY <1>2 DEF FallbackTypeOK, Enqueue, SSHs
<1>4. CASE job' = job
  BY <1>1, <1>2, <1>3, <1>4 DEF Enqueue, FallbackInv, TypeOK, FallbackTypeOK, JobInv
<1>5. CASE job.pc = "none" /\ busy < PoolSize /\ job' = [NoJob EXCEPT !.pc = "run", !.server = ssh.server]
  <2>1. job' \in Jobs /\ job'.pc = "run" /\ job'.server = ssh.server
    BY <1>2, <1>5, ValueFacts DEF NoJob, Jobs, Results
  <2>2. busy + 1 <= PoolSize /\ ssh.server # 0 BY <1>2, <1>5, FallbackFields, Numbers
  <2>3. UNCHANGED <<refs, busy, results, drain>> BY DEF Enqueue
  <2> QED BY <1>1, <1>2, <1>3, <2>1, <2>2, <2>3 DEF FallbackInv, TypeOK, FallbackTypeOK, JobInv
<1> QED BY <1>4, <1>5 DEF Enqueue, IsInFlight

\* The sibling reconciler writes its condition.
LEMMA PatchSSHInv == ASSUME FallbackInv, PatchSSH PROVE FallbackInv'
<1>1. PublishTypeOK' /\ PublishInv'
  BY PatchConditionInv, FallbackFields DEF PatchSSH, FallbackInv, TypeOK
<1>2. ssh' \in SSHs /\ ssh'.pc = "idle" BY AtRestFacts DEF PatchSSH
<1>3. UNCHANGED <<refs, busy, job, results, drain>> BY DEF PatchSSH
<1> QED BY <1>1, <1>2, <1>3 DEF FallbackInv, TypeOK, FallbackTypeOK, JobInv

\* The steps of a job that leave the Secrets alone.
LEMMA JobRunsInv ==
  ASSUME FallbackInv,
         LoadFails \/ WriteFails \/ (\E cat \in DialCategories \cup CatCategories : FetchFails(cat))
           \/ \E v \in Files : runRemoteCat(v)
  PROVE  FallbackInv'
<1>1. PublishTypeOK' /\ PublishInv'
  BY PublishUntouched DEF LoadFails, WriteFails, FetchFails, runRemoteCat, FallbackInv, TypeOK
<1>2. job.pc \in {"run", "write"} /\ UNCHANGED <<refs, busy, ssh, results, drain>>
  BY DEF LoadFails, WriteFails, FetchFails, runRemoteCat
<1>3. CASE \E r \in Results : JobEnds(r)
  <2>1. job' \in Jobs /\ job'.pc = "post" /\ job'.res \in Results
    BY <1>3, ValueFacts DEF JobEnds, FallbackInv, TypeOK, FallbackTypeOK, Jobs
  <2> QED BY <1>1, <1>2, <2>1 DEF FallbackInv, TypeOK, FallbackTypeOK, JobInv
<1>4. ASSUME NEW v \in Files, runRemoteCat(v) PROVE FallbackInv'
  <2>1. v \in Values /\ job.pc = "run" BY <1>4, Numbers, ValueFacts DEF runRemoteCat
  <2>2. job' \in Jobs /\ job'.pc = "write" /\ job'.server = job.server /\ job'.val = v
    BY <1>4, <2>1 DEF runRemoteCat, FallbackInv, TypeOK, FallbackTypeOK, Jobs
  <2> QED BY <1>1, <1>2, <2>1, <2>2 DEF FallbackInv, TypeOK, FallbackTypeOK, JobInv
<1> QED BY <1>3, <1>4 DEF LoadFails, WriteFails, FetchFails, ReasonOf, Results

\* A job writes the contract Secret, and a pass that read it is told by its version.
LEMMA WriteKubeconfigSecretInv == ASSUME FallbackInv, writeKubeconfigSecret PROVE FallbackInv'
<1>1. job.pc = "write" /\ job.val \in Files /\ job.server \in Servers
  BY FallbackFields DEF writeKubeconfigSecret, FallbackInv, TypeOK, JobInv
<1>2. job.val \in Values /\ job.val # Empty BY <1>1, Numbers, ValueFacts
<1>3. Sanitize(job.val, job.server) \in Values /\ "ssh-fallback" \in Sources
  BY <1>1, <1>2, SanitizeFacts DEF Sources
<1>4. contract' \in Contracts
  BY <1>3 DEF writeKubeconfigSecret, FallbackInv, TypeOK, PublishTypeOK, Contracts
<1>5. /\ UNCHANGED <<staging, kcp, cluster, pass, kfresh, count, refs, busy, ssh, results, drain>>
      /\ cfresh' = (cfresh /\ contract' = contract)
  BY DEF writeKubeconfigSecret
<1>6. PublishTypeOK' BY <1>4, <1>5 DEF FallbackInv, TypeOK, PublishTypeOK, cluster, count
<1>7. PublishInv' BY <1>5, <1>6, Undisturbed DEF FallbackInv, TypeOK, cluster
<1>8. job' \in Jobs /\ job'.pc = "post" /\ job'.res \in Results
  BY ValueFacts DEF writeKubeconfigSecret, JobEnds, FallbackInv, TypeOK, FallbackTypeOK, Jobs,
      Results
<1> QED BY <1>1, <1>5, <1>6, <1>7, <1>8 DEF FallbackInv, TypeOK, FallbackTypeOK, JobInv

\* A result is posted while there is room for it, or dropped.
LEMMA ResultInv == ASSUME FallbackInv, postResult \/ ResultDropped PROVE FallbackInv'
<1>1. job' \in Jobs /\ job'.pc = "none" /\ job.pc = "post" /\ UNCHANGED <<refs, busy, ssh, drain>>
  BY AtRestFacts DEF postResult, ResultDropped
<1>2. PublishTypeOK' /\ PublishInv'
  <2>1. CASE postResult BY <2>1, PublishUntouched DEF postResult, FallbackInv, TypeOK
  <2>2. CASE ResultDropped
    <3>1. PublishTypeOK'
      BY <2>2 DEF ResultDropped, Stop, FallbackInv, TypeOK, PublishTypeOK, secrets, cluster
    <3> QED BY <2>2, <3>1, Undisturbed DEF ResultDropped, FallbackInv, TypeOK, secrets, cluster
  <2> QED BY <2>1, <2>2
<1>3. results' \in Seq(Results) /\ Len(results') <= 2 * PoolSize
  <2>1. results \in Seq(Results) /\ Len(results) <= 2 * PoolSize
    BY DEF FallbackInv, TypeOK, FallbackTypeOK
  <2>2. CASE ResultDropped BY <2>1, <2>2 DEF ResultDropped
  <2>3. CASE postResult
    <3>1. job.res \in Results BY <1>1 DEF FallbackInv, JobInv
    <3>2. Len(results) \in Nat /\ 2 * PoolSize \in Nat BY <2>1, Numbers
    <3>3. results' = Append(results, job.res) /\ Len(results) < 2 * PoolSize BY <2>3 DEF postResult
    <3> QED BY <2>1, <3>1, <3>2, <3>3
  <2> QED BY <2>2, <2>3
<1> QED BY <1>1, <1>2, <1>3 DEF FallbackInv, TypeOK, FallbackTypeOK, JobInv

\* The drain takes a result.
LEMMA TakeResultInv == ASSUME FallbackInv, TakeResult PROVE FallbackInv'
<1>1. PublishTypeOK' /\ PublishInv' BY PublishUntouched DEF TakeResult, FallbackInv, TypeOK
<1>2. results \in Seq(Results) /\ results # <<>> /\ Len(results) <= 2 * PoolSize
  BY DEF FallbackInv, TypeOK, FallbackTypeOK, TakeResult
<1>3. Head(results) \in Results /\ Tail(results) \in Seq(Results) /\ Len(Tail(results)) = Len(results) - 1
  BY <1>2
<1>4. results' \in Seq(Results) /\ Len(results') <= 2 * PoolSize
  BY <1>2, <1>3, Numbers DEF TakeResult
<1>5. kcp.cond \in Conds BY Fields DEF FallbackInv, TypeOK
<1>6. drain' \in Drains /\ (drain'.pc = "apply" => drain'.res \in Results \ {"OK"})
  BY <1>3, <1>5, AtRestFacts DEF TakeResult, Drains
<1>7. UNCHANGED <<refs, busy, ssh, job>> BY DEF TakeResult
<1> QED BY <1>1, <1>4, <1>6, <1>7 DEF FallbackInv, TypeOK, FallbackTypeOK, JobInv

\* The drain writes a failure to the condition.
LEMMA ApplyWorkerResultInv == ASSUME FallbackInv, applyWorkerResult PROVE FallbackInv'
<1>1. drain.res \in Conds
  <2>1. drain.res \in {"Misconfigured", "Failed"} BY DEF FallbackInv, JobInv, applyWorkerResult,
      Results
  <2> QED BY <2>1 DEF Conds, SSHConds
<1>2. PublishTypeOK' /\ PublishInv'
  BY <1>1, PatchConditionInv DEF applyWorkerResult, FallbackInv, TypeOK
<1>3. drain' \in Drains /\ drain'.pc = "idle" BY AtRestFacts DEF applyWorkerResult
<1>4. UNCHANGED <<refs, busy, ssh, job, results>> BY DEF applyWorkerResult
<1> QED BY <1>2, <1>3, <1>4 DEF FallbackInv, TypeOK, FallbackTypeOK, JobInv

\* Jobs of other KCPs come and go in the pool, and operators edit the references.
LEMMA PoolInv ==
  ASSUME FallbackInv,
         \/ OtherKCPEnqueues \/ OtherJobEnds
         \/ \E r \in {"missing", "unparseable", "good"} : OperatorEditsRefs(r)
  PROVE  FallbackInv'
<1>1. /\ UNCHANGED <<secrets, kcp, cluster, pass, cfresh, kfresh, stops, ssh, job, results, drain>>
      /\ events' \in Nat
  BY EventIsSpent DEF OtherKCPEnqueues, OtherJobEnds, OperatorEditsRefs, publishVars, secrets,
      cluster,
     FallbackInv, TypeOK, PublishTypeOK
<1>2. PublishTypeOK' BY <1>1 DEF FallbackInv, TypeOK, PublishTypeOK, secrets, cluster
<1>3. PublishInv' BY <1>1, <1>2, Undisturbed DEF FallbackInv, TypeOK, secrets, cluster
<1>4. refs' \in {"missing", "unparseable", "good"}
  BY DEF OtherKCPEnqueues, OtherJobEnds, OperatorEditsRefs, FallbackInv, TypeOK, FallbackTypeOK
<1>5. busy' \in 0..PoolSize /\ busy' + (IF job.pc = "none" THEN 0 ELSE 1) <= PoolSize
  BY Numbers DEF OtherKCPEnqueues, OtherJobEnds, OperatorEditsRefs, FallbackInv, TypeOK,
      FallbackTypeOK,
     IsInFlight
<1> QED BY <1>1, <1>2, <1>3, <1>4, <1>5 DEF FallbackInv, TypeOK, FallbackTypeOK, JobInv

\* A restart forgets the pass, the job and the results.
LEMMA ManagerRestartsInv == ASSUME FallbackInv, ManagerRestarts PROVE FallbackInv'
<1>1. /\ pass' = Idle /\ cfresh' = FALSE /\ kfresh' = FALSE /\ stops' \in Nat
      /\ UNCHANGED <<secrets, kcp, cluster, events, refs>>
  BY DEF ManagerRestarts, EndPass, Stop, FallbackInv, TypeOK, PublishTypeOK
<1>2. PublishTypeOK' BY <1>1, Ends DEF FallbackInv, TypeOK, PublishTypeOK, secrets, cluster
<1>3. PublishInv' BY <1>1, Ends, NothingHeld
<1>4. /\ ssh' \in SSHs /\ ssh'.pc = "idle" /\ job' \in Jobs /\ job'.pc = "none" /\ drain' \in Drains
      /\ drain'.pc = "idle" /\ results' = <<>> /\ busy' = 0
  BY AtRestFacts DEF ManagerRestarts
<1>5. <<>> \in Seq(Results) /\ Len(<<>>) = 0 OBVIOUS
<1>6. FallbackTypeOK' BY <1>1, <1>4, <1>5, Numbers DEF FallbackInv, TypeOK, FallbackTypeOK
<1>7. busy' + (IF job'.pc = "none" THEN 0 ELSE 1) <= PoolSize BY <1>4, Numbers
<1> QED BY <1>2, <1>3, <1>4, <1>6, <1>7 DEF FallbackInv, TypeOK, JobInv

-----------------------------------------------------------------------------
(* The theorems                                                            *)

\* FallbackInv holds at first.
LEMMA InitInv == Init => FallbackInv
<1> SUFFICES ASSUME Init PROVE FallbackInv
  OBVIOUS
<1>1. contract \in Contracts
  <2>1. CASE contract = Absent BY <2>1, ValueFacts DEF Absent, Contracts, Owners, Sources
  <2>2. CASE contract # Absent
    <3>1. PICK p \in Pushes : contract = [exists |-> TRUE, val |-> p, owner |-> "other",
                                          source |-> "none", fresh |-> FALSE]
      BY <2>2 DEF Init, PublishInit
    <3>2. p \in Values BY ValueFacts
    <3> QED BY <3>1, <3>2 DEF Contracts, Owners, Sources
  <2> QED BY <2>1, <2>2
<1>2. staging \in Stagings BY ValueFacts DEF Init, PublishInit, NoStaging, Stagings, Owners
<1>3. kcp \in KCPs BY DEF Init, PublishInit, KCPs, Conds, Anchors
<1>4. pass \in Passes /\ pass.pc = "idle" /\ pass.server = 0
  BY ValueFacts DEF Init, PublishInit, Idle, Passes, PassPCs, Conds, Anchors, Sources
<1>5. enabled \in BOOLEAN /\ refMatches \in BOOLEAN /\ events \in Nat /\ stops \in Nat
  BY PublishAssumption DEF Init, PublishInit
<1>6. PublishTypeOK
  BY <1>1, <1>2, <1>3, <1>4, <1>5 DEF PublishTypeOK, Init, PublishInit
<1>7. PublishInv BY <1>4 DEF PublishInv
<1>8. <<>> \in Seq(Results) /\ Len(<<>>) = 0 OBVIOUS
<1>9. FallbackTypeOK BY <1>8, AtRestFacts, Numbers DEF Init, FallbackTypeOK
<1>10. busy + (IF job.pc = "none" THEN 0 ELSE 1) <= PoolSize BY AtRestFacts, Numbers DEF Init
<1>11. JobInv BY AtRestFacts DEF Init, JobInv
<1> QED BY <1>6, <1>7, <1>9, <1>10, <1>11 DEF FallbackInv, TypeOK

\* Every step keeps FallbackInv.
LEMMA NextInv == ASSUME FallbackInv, Next PROVE FallbackInv'
<1>1. CASE Publication
  BY <1>1, PublicationInv DEF Publication, fallback, FallbackInv, TypeOK, FallbackTypeOK, JobInv
<1>2. CASE Worker BY <1>2, JobRunsInv, WriteKubeconfigSecretInv, ResultInv DEF Worker
<1>3. CASE Siblings
  BY <1>3, ReconcileSSHInv, EnqueueInv, PatchSSHInv, TakeResultInv, ApplyWorkerResultInv
      DEF Siblings
<1> QED BY <1>1, <1>2, <1>3, ResultInv, PoolInv, ManagerRestartsInv DEF Next

\* So does a step that changes nothing.
LEMMA StutterInv == ASSUME FallbackInv, UNCHANGED vars PROVE FallbackInv'
BY PublishUntouched DEF vars, fallback, FallbackInv, TypeOK, FallbackTypeOK, JobInv

\* A pass works on the pin the KCP has, and writes and reports only what is in order, and
\* the fallback runs no more jobs than its pool has slots (reconcileKubeconfigSecret,
\* SSHFallbackWorker.Enqueue).
THEOREM FallbackInvariant == Spec => []FallbackInv
<1>1. Init => FallbackInv BY InitInv
<1>2. FallbackInv /\ [Next]_vars => FallbackInv' BY NextInv, StutterInv
<1> QED BY <1>1, <1>2, PTL DEF Spec

\* A kubeconfig reported ready is one the KCP itself would use, whatever nodes, operators
\* and the fallback did meanwhile (markKubeconfigReadyOrExpired).
THEOREM ReadyKubeconfigIsUsable == Spec => ReadyIsUsable
<1> DEFINE Good == (UpdateStatus /\ kcp'.cond \in ReadyConds /\ cfresh /\ refMatches)
                     => /\ contract.owner = "kcp" /\ contract.val.server # 0
                        /\ ~contract.val.expired /\ trustedWorkloadKubeconfig # Empty
<1>1. ASSUME FallbackInv PROVE Good
  <2> SUFFICES ASSUME UpdateStatus, kcp'.cond \in ReadyConds, cfresh, refMatches
               PROVE  /\ contract.owner = "kcp" /\ contract.val.server # 0
                      /\ ~contract.val.expired /\ trustedWorkloadKubeconfig # Empty
    OBVIOUS
  <2>1. pass.pc = "status" /\ kcp'.cond = pass.cond
    BY <1>1 DEF UpdateStatus, At, FallbackInv, TypeOK, PublishTypeOK, KCPs
  <2> QED BY <1>1, <2>1 DEF FallbackInv, PublishInv
<1>2. FallbackInv /\ [Next]_vars => [Good]_<<kcp, pass>> BY <1>1
<1> QED BY <1>2, FallbackInvariant, PTL DEF Spec, ReadyIsUsable

\* Nothing is published under a pin that is not stored (setCAPinAnnotation, writeContract).
THEOREM PinComesFirst == Spec => PublishedIsPinned
<1> DEFINE Good == (contract' # contract /\ pass' # pass /\ contract'.val # Empty)
                     => contract'.val.ca = kcp.pin /\ contract'.val.server = pass.server
<1>1. ASSUME FallbackInv, Next PROVE Good
  <2>1. ASSUME contract' # contract, pass' # pass PROVE neutralizeContract \/ writeContract
    <3> USE <2>1 DEF publishVars, secrets
    <3>1. CASE Publication
      <4>1. CASE Pass
        BY <4>1 DEF Pass, BeginPass, resolveExpectedServerUnknown, ContractMissing, JudgeUnusable,
           JudgeLeftInPlace, JudgeCAMismatch, JudgeAccepted, NoCandidate, publishFromStaging,
           setCAPinAnnotation, SecretConflict, UpdateStatus, StatusConflict
      <4>2. CASE Outside
        BY <4>2 DEF Outside, NodeChangesMetadata, OperatorRepins, OperatorDeletesContract,
           OperatorDeletesStaging, PassStops, Tick, NodePushes, LegacyNodeWrites, EndpointChanges
      <4> QED BY <3>1, <4>1, <4>2 DEF Publication
    <3>2. CASE Worker
      BY <3>2 DEF Worker, LoadFails, FetchFails, runRemoteCat, writeKubeconfigSecret, WriteFails,
          postResult
    <3>3. CASE Siblings
      BY <3>3 DEF Siblings, ReconcileSSH, Enqueue, PatchSSH, TakeResult, applyWorkerResult
    <3> QED
      BY <1>1, <3>1, <3>2, <3>3 DEF Next, ResultDropped, OtherKCPEnqueues, OtherJobEnds,
          ManagerRestarts,
         OperatorEditsRefs
  <2>2. CASE neutralizeContract
    BY <1>1, <2>2 DEF neutralizeContract, FallbackInv, TypeOK, PublishTypeOK, Contracts
  <2>3. CASE writeContract
    <3>1. /\ pass.pc = "write" /\ pass.val # Empty /\ pass.val.ca = kcp.pin /\ pass.server # 0
      BY <1>1, <2>3 DEF writeContract, At, FallbackInv, PublishInv
    <3>2. contract' # contract => contract'.val = Sanitize(pass.val, pass.server)
      BY <2>3 DEF writeContract
    <3> QED BY <3>1, <3>2 DEF Sanitize
  <2> QED BY <2>1, <2>2, <2>3
<1>2. FallbackInv /\ [Next]_vars => [Good]_<<contract, pass>> BY <1>1 DEF vars, publishVars
<1> QED BY <1>2, FallbackInvariant, PTL DEF Spec, PublishedIsPinned
=============================================================================
