----------------------------- MODULE KubeadmJoin -----------------------------
(***************************************************************************)
(* The join material of a kubeadm worker: what must hold before the        *)
(* controller connects to the workload cluster, and the one short-lived    *)
(* bootstrap token each KairosConfig has there.                            *)
(*                                                                         *)
(* Time is counted in token recheck intervals, a third of a token's life.  *)
(* Tokens are numbered in the order in which they are minted; 0 is no      *)
(* token, in status, in a rendered configuration and in a VM alike.        *)
(***************************************************************************)
EXTENDS Integers

CONSTANTS MaxTokens,    \* bound: tokens minted for the KairosConfig
          RefreshCap    \* kubeadmTokenRefreshCap, in recheck intervals

ASSUME KubeadmAssumption == MaxTokens \in Nat /\ RefreshCap \in Nat

VARIABLES
  cp,         \* what the management cluster says of the control plane
  reachable,  \* the workload API server answers
  tokens,     \* token Secrets that exist in the workload cluster
  left,       \* the recheck intervals each token has left before it expires
  minted      \* how many tokens were minted

joinVars == <<cp, reachable, tokens, left, minted>>

TokenIDs == 1..MaxTokens
TTL == 3
None == 0

\* cp.ref: the control plane the Cluster references. cp.kubeconfig: the
\* <cluster>-kubeconfig Secret, absent, controlled by someone else or no
\* kubeconfig at all, one the sanitizer refuses, or owned and naming the Cluster's
\* endpoint or an internal server. cp.ca: the <cluster>-ca Secret's certificates
\* compared with the kubeconfig's.
Refs == {"none", "unlisted", "kairosK0s", "listed"}
Kubeconfigs == {"absent", "foreign", "unusable", "endpoint", "internal"}
ControlPlanes == [initialized: BOOLEAN, ref: Refs, kubeconfig: Kubeconfigs,
                  ca: {"absent", "same", "other", "unreadable"}]

-----------------------------------------------------------------------------
(* The trust check                                                         *)

\* A missing Secret is no anchor and no error; a different one is a refusal.
crossCheckClusterCA ==
  CASE cp.ca = "unreadable" -> "wait"
    [] cp.ca = "other"      -> "refused"
    [] OTHER                -> "ok"

\* What verifyTrustChain reads of the control plane before the kubeconfig: "wait"
\* is a bootstrapNotReadyError, which polls; "refused" is terminal.
verifyControlPlane(endpoint) ==
  CASE ~cp.initialized \/ ~endpoint \/ cp.ref = "none" -> "wait"
    [] cp.ref \in {"unlisted", "kairosK0s"}            -> "refused"
    [] OTHER                                           -> "ok"

\* Mutant: an owned kubeconfig is trusted whatever server it names.
OwnerIsEnough ==
  CASE cp.kubeconfig = "absent"   -> "wait"
    [] cp.kubeconfig = "foreign"  -> "refused"
    [] crossCheckClusterCA # "ok" -> crossCheckClusterCA
    [] cp.kubeconfig = "unusable" -> "refused"
    [] OTHER                      -> "ok"

\* ... and of the kubeconfig. The owner reference alone anchors nothing: the
\* server must be the Cluster's endpoint, or the CA that of <cluster>-ca.
verifyKubeconfig ==
  CASE cp.kubeconfig = "absent"                     -> "wait"
    [] cp.kubeconfig = "foreign"                    -> "refused"
    [] crossCheckClusterCA # "ok"                   -> crossCheckClusterCA
    [] cp.kubeconfig = "internal" /\ cp.ca # "same" -> "refused"
    [] cp.kubeconfig = "unusable"                   -> "refused"
    [] OTHER                                        -> "ok"

verifyTrustChain(endpoint) ==
  IF verifyControlPlane(endpoint) # "ok" THEN verifyControlPlane(endpoint) ELSE verifyKubeconfig

\* The verdict on a token operation: a workload cluster that does not answer is
\* waited for.
trustedWorkloadClient(endpoint) ==
  IF verifyTrustChain(endpoint) = "ok" /\ ~reachable THEN "wait" ELSE verifyTrustChain(endpoint)

-----------------------------------------------------------------------------
(* Tokens                                                                  *)

Live(t) == t \in tokens /\ left[t] > 0

\* Mutant: a token is extended only in the last third of its life.
ExtendsLate(t) == left' = [left EXCEPT ![t] = IF @ > 1 THEN @ ELSE TTL]

\* Mutant: the life is added to what is left of it.
ExtendsTheExpiry(t) == left' = [left EXCEPT ![t] = IF 6 * @ > 5 * TTL THEN @ ELSE @ + TTL]

\* The new expiry, unless more than five sixths of the life are left.
extendBootstrapToken(t) ==
  left' = [left EXCEPT ![t] = IF 6 * @ > 5 * TTL THEN @ ELSE TTL]

\* The token labelled with this KairosConfig that expires last, by name on a tie.
findOwnedBootstrapToken ==
  IF tokens = {} THEN None
  ELSE CHOOSE t \in tokens : \A u \in tokens : left[t] > left[u] \/ (left[t] = left[u] /\ t >= u)

mintBootstrapToken ==
  /\ minted < MaxTokens
  /\ minted' = minted + 1
  /\ tokens' = tokens \union {minted + 1}
  /\ left' = [left EXCEPT ![minted + 1] = TTL]

\* Mutant: a token minted for this KairosConfig but not recorded is not looked for.
OnlyRecorded(stored) == IF stored # None /\ stored \in tokens THEN stored ELSE None

\* The token a render reuses when `stored' is the one recorded: the recorded one
\* if it exists; with nothing recorded, one minted for this KairosConfig before;
\* None means mint.
Reusable(stored) ==
  IF stored = None THEN findOwnedBootstrapToken
  ELSE IF stored \in tokens THEN stored ELSE None

\* reuseOrMintBootstrapToken leaves the render with token t.
reuseOrMintBootstrapToken(stored, t) ==
  IF Reusable(stored) # None
    THEN t = Reusable(stored) /\ extendBootstrapToken(t) /\ UNCHANGED <<tokens, minted>>
    ELSE t = minted + 1 /\ mintBootstrapToken

\* ExtendWorkerToken: found, and its expiry moved. It never mints.
ExtendWorkerToken(t) == t \in tokens /\ extendBootstrapToken(t) /\ UNCHANGED <<tokens, minted>>

\* RevokeWorkerToken: an absent token is revoked already.
RevokeWorkerToken(t) == tokens' = tokens \ {t} /\ UNCHANGED <<left, minted>>

-----------------------------------------------------------------------------
(* The workload cluster (external)                                         *)

\* One recheck interval passes for the tokens.
TokensAge == left' = [t \in TokenIDs |-> IF left[t] > 0 THEN left[t] - 1 ELSE 0]

\* The token cleaner removes what has expired.
TokenCleaner ==
  /\ \E t \in tokens : left[t] = 0 /\ tokens' = tokens \ {t}
  /\ UNCHANGED <<cp, reachable, left, minted>>

KubeadmTypeOK ==
  /\ cp \in ControlPlanes
  /\ reachable \in BOOLEAN
  /\ tokens \subseteq 1..minted
  /\ left \in [TokenIDs -> 0..TTL]
  /\ minted \in 0..MaxTokens
=============================================================================
