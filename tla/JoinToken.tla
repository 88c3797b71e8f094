------------------------------ MODULE JoinToken ------------------------------
(***************************************************************************)
(* The k0s controller-join token (ha_k0s_jointoken.go). The KCP mints a    *)
(* short-lived bootstrap token in the workload cluster for each joiner,    *)
(* stores it in the one join-token Secret of the management cluster,       *)
(* stamps its ID on the joiner's KairosConfig, extends it while the joiner *)
(* boots and removes it when the joiner is done. The bootstrap controller  *)
(* renders the stored token into the joiner's data.                        *)
(*                                                                         *)
(* One unit of time is k0sJoinTokenRecheckInterval. A pass takes no time,  *)
(* but can stop after each of its writes. It works on the Machines it      *)
(* listed, so a Machine that changes meanwhile changes, to it, afterwards. *)
(***************************************************************************)
EXTENDS Naturals, FiniteSets

CONSTANTS
  TTL,         \* k0sJoinTokenTTL
  RenewWithin, \* k0sJoinTokenRenewWithin
  ExtendCap,   \* k0sJoinTokenExtendCap
  Servers,     \* addresses of control-plane Machines
  MaxTokens,   \* bound: tokens minted
  MaxJoiners   \* bound: joiners created

ASSUME JoinTokenAssumption ==
  /\ TTL \in Nat /\ RenewWithin \in Nat /\ ExtendCap \in Nat
  /\ 1 < RenewWithin /\ RenewWithin <= TTL /\ 0 < ExtendCap
  /\ MaxTokens \in Nat /\ MaxJoiners \in Nat
  /\ "noServer" \notin Servers

Legacy  == 0               \* the token an older init node pushed
Issued  == 1..MaxTokens
NoToken == MaxTokens + 1
IDs     == {Legacy} \cup Issued
Joiners == 1..MaxJoiners
NoServer == "noServer"

\* The join-token Secret: its controller owner, its ID annotation, the ID inside
\* the encoded token and the server of that token.
Secrets == [owner : {"none", "kcp", "other"}, ann : IDs \cup {NoToken},
            tok : IDs \cup {NoToken}, srv : Servers \cup {NoServer}]
Slot(owner, ann, tok, srv) == [owner |-> owner, ann |-> ann, tok |-> tok, srv |-> srv]
NoSecret == Slot("none", NoToken, NoToken, NoServer)
Empty    == Slot("kcp", NoToken, NoToken, NoServer)

VARIABLES
  there, life,   \* workload: the token Secrets, and the time they have left
  minted,        \* IDs handed out so far
  slot, seen, lag,   \* the join-token Secret; in the cache; the cache is behind
  st,            \* per joiner: its Machine and KairosConfig
  token, marked, \* per joiner: the annotations of its KairosConfig
  data,          \* per joiner: the token in its bootstrap data
  age,           \* per joiner: time since its Machine was created
  pc, at, id,    \* the pass: where it is, at which joiner, with which token
  todo,          \* the joiners it still has to look at
  late,          \* observer, per joiner: time since its token was last found and looked at
  stale          \* observer: tokens reused though the Secret held another already

workload == <<there, life>>
secret   == <<slot, seen, lag>>
joiner   == <<st, token, marked, data, age>>
pass     == <<pc, at, id, todo>>
vars     == <<workload, minted, secret, joiner, pass, late, stale>>

States == {"none", "config", "booting", "joined", "unwell", "deleting", "gone"}

TypeOK ==
  /\ there \subseteq IDs /\ life \in [IDs -> 0..TTL] /\ minted \in 0..MaxTokens
  /\ slot \in Secrets /\ seen \in Secrets /\ lag \in BOOLEAN
  /\ st \in [Joiners -> States]
  /\ token \in [Joiners -> IDs \cup {NoToken}] /\ marked \in [Joiners -> BOOLEAN]
  /\ data \in [Joiners -> IDs \cup {NoToken}] /\ age \in [Joiners -> 0..ExtendCap]
  /\ pc \in {"idle", "maintain", "clear", "mark", "admit", "store", "verify", "config", "machine"}
  /\ at \in Joiners \cup {0} /\ id \in IDs \cup {NoToken} /\ todo \subseteq Joiners
  /\ late \in [Joiners -> 0..RenewWithin] /\ stale \subseteq IDs

Init ==
  /\ minted = 0
  /\ slot \in {NoSecret, Slot("other", NoToken, Legacy, NoServer)}
               \cup {Slot("kcp", NoToken, Legacy, s) : s \in Servers}
  /\ seen = slot /\ lag = FALSE
  /\ there = {Legacy} \cap {slot.tok}
  /\ life = [i \in IDs |-> IF i \in there THEN TTL ELSE 0]
  /\ st = [j \in Joiners |-> "none"] /\ token = [j \in Joiners |-> NoToken]
  /\ marked = [j \in Joiners |-> FALSE] /\ data = [j \in Joiners |-> NoToken]
  /\ age = [j \in Joiners |-> 0]
  /\ pc = "idle" /\ at = 0 /\ id = NoToken /\ todo = {}
  /\ late = [j \in Joiners |-> 0] /\ stale = {}

-----------------------------------------------------------------------------
Existing   == {"booting", "joined", "unwell", "deleting"}
Listed     == {j \in Joiners : st[j] \in Existing}
\* k0sJoinMember.pending and k0sMemberJoined
pending(j) == st[j] \in {"booting", "unwell"}

Goto(where) == pc' = where /\ UNCHANGED <<at, id, todo>>
Return == pc' = "idle" /\ at' = 0 /\ id' = NoToken
          /\ todo' = {}

\* The pass stops: an error, or a restart of the controller.
PassStops ==
  /\ pc # "idle" /\ Return
  /\ UNCHANGED <<workload, minted, secret, joiner, late, stale>>

\* Its Machine and KairosConfig are no more.
Gone(j) == /\ st' = [st EXCEPT ![j] = "gone"] /\ token' = [token EXCEPT ![j] = NoToken]
           /\ marked' = [marked EXCEPT ![j] = FALSE] /\ data' = [data EXCEPT ![j] = NoToken]
           /\ age' = [age EXCEPT ![j] = 0] /\ late' = [late EXCEPT ![j] = 0]

\* Tokens are deleted from the workload cluster.
Delete(ids) == there' = there \ ids /\ life' = [i \in IDs |-> IF i \in ids THEN 0 ELSE life[i]]

\* A patch of the Secret carries the resourceVersion of the cache.
PatchSecret(s) == ~lag /\ slot' = s /\ lag' = TRUE /\ UNCHANGED seen

-----------------------------------------------------------------------------
(***************************************************************************)
(* ensureJoinTokenSecret, and reconcileK0sJoinTokenLifetime.               *)
(***************************************************************************)

\* refuseUnownedHASecret: a Secret of another owner ends the pass.
OwnedOrAbsent(s) == s.owner # "other"

ensureJoinTokenSecret ==
  /\ pc = "idle" /\ OwnedOrAbsent(seen)
  /\ IF seen.owner = "none"
     THEN slot.owner = "none" /\ slot' = Empty /\ lag' = TRUE /\ UNCHANGED seen
     ELSE UNCHANGED secret
  /\ pc' = "maintain"
  /\ todo' = {j \in Joiners : st[j] \in {"booting", "unwell"}}
       \cup {j \in Joiners : st[j] \in {"joined", "deleting"} /\ ~marked[j]}
  /\ UNCHANGED <<at, id, workload, minted, joiner, late, stale>>

\* The workload cluster does not answer, or cannot be verified.
MaintainUnreachable ==
  /\ pc = "maintain" /\ todo # {} /\ at = 0
  /\ pc' = "admit" /\ todo' = {} /\ UNCHANGED <<at, id>>
  /\ UNCHANGED <<workload, minted, secret, joiner, late, stale>>

InUse(i) == \E k \in Listed : pending(k) /\ token[k] = i

\* deleteK0sJoinToken for a joiner that is done: gone now, or not to be deleted.
removeK0sJoinToken(j) ==
  /\ pc = "maintain" /\ j \in todo /\ ~pending(j) /\ ~InUse(token[j])
  /\ Delete({token[j]})
  /\ pc' = "clear" /\ at' = j /\ todo' = todo \ {j} /\ UNCHANGED <<id>>
  /\ UNCHANGED <<minted, secret, joiner, late, stale>>

\* A pending joiner shares the token, or it could not be deleted: a later pass
\* tries again.
RemoveFails(j) ==
  /\ pc = "maintain" /\ j \in todo /\ ~pending(j)
  /\ todo' = todo \ {j} /\ UNCHANGED <<pc, at, id>>
  /\ UNCHANGED <<workload, minted, secret, joiner, late, stale>>

\* The Secret is cleared when the cache shows it holds this token.
ClearSecret ==
  /\ pc = "clear"
  /\ \/ /\ seen.ann = token[at] /\ PatchSecret(Empty) /\ Goto("mark")
     \/ /\ seen.ann = token[at]       \* a conflict, or a failed write
        /\ pc' = "maintain" /\ at' = 0 /\ UNCHANGED <<id, todo, secret>>
     \/ seen.ann # token[at] /\ Goto("mark") /\ UNCHANGED secret
  /\ UNCHANGED <<workload, minted, joiner, late, stale>>

\* The mark on the KairosConfig, or a failed write.
MarkRemoved ==
  /\ pc = "mark"
  /\ marked' \in {marked, [marked EXCEPT ![at] = TRUE]}
  /\ pc' = "maintain" /\ at' = 0 /\ UNCHANGED <<id, todo>>
  /\ UNCHANGED <<workload, minted, secret, st, token, data, age, late, stale>>

\* Fault: the cap is not looked at.
ExtensionDueUncapped(j) == token[j] \in there /\ life[token[j]] < RenewWithin

\* Fault: extended only when nothing is left.
ExtensionDueLate(j) ==
  token[j] \in there /\ age[j] < ExtendCap /\ life[token[j]] = 0

ExtensionDue(j) ==
  token[j] \in there /\ age[j] < ExtendCap /\ life[token[j]] < RenewWithin

\* Fault: the new expiry is counted from the old one.
ExtendFromExpiry(j) ==
  /\ pc = "maintain" /\ j \in todo /\ pending(j) /\ \A k \in todo : pending(k)
  /\ life' = [life EXCEPT ![token[j]] = @ + TTL] /\ late' = [late EXCEPT ![j] = 0]
  /\ todo' = todo \ {j} /\ UNCHANGED <<pc, at, id>>
  /\ UNCHANGED <<there, minted, secret, joiner, stale>>

\* The joiners done come first. A token beyond the cap is left to lapse.
extendK0sJoinToken(j) ==
  /\ pc = "maintain" /\ j \in todo /\ pending(j) /\ \A k \in todo : pending(k)
  /\ IF ExtensionDue(j)
     THEN life' = [life EXCEPT ![token[j]] = TTL] ELSE UNCHANGED life
  /\ late' = IF token[j] \in there /\ age[j] < ExtendCap THEN [late EXCEPT ![j] = 0] ELSE late
  /\ todo' = todo \ {j} /\ UNCHANGED <<pc, at, id>>
  /\ UNCHANGED <<there, minted, secret, joiner, stale>>

\* The token cannot be read or written.
ExtendFails(j) ==
  /\ pc = "maintain" /\ j \in todo /\ pending(j) /\ \A k \in todo : pending(k)
  /\ todo' = todo \ {j} /\ UNCHANGED <<pc, at, id>>
  /\ UNCHANGED <<workload, minted, secret, joiner, late, stale>>

MaintainEnds ==
  /\ pc = "maintain" /\ todo = {}
  /\ Goto("admit")
  /\ UNCHANGED <<workload, minted, secret, joiner, late, stale>>

-----------------------------------------------------------------------------
(***************************************************************************)
(* admitJoiner with ensureK0sControllerJoinToken.                          *)
(***************************************************************************)

\* No joiner is wanted, the gate is closed, or the workload cluster cannot be
\* reached or verified.
NotAdmitted ==
  /\ pc = "admit" /\ Return
  /\ UNCHANGED <<workload, minted, secret, joiner, late, stale>>

\* Fault: a joiner that is still joining does not count.
GateIgnoresPending ==
  seen.owner = "kcp" /\ \E j \in Joiners : st[j] = "none"

\* initMachineJoinable and the checks before a token is chosen.
Admissible ==
  /\ \A j \in Listed : ~pending(j)
  /\ seen.owner = "kcp"
  /\ \E j \in Joiners : st[j] = "none"

\* Fault: only a joiner that is not being deleted holds its token.
boundToLive(i) == \E j \in Listed : token[j] = i /\ st[j] # "deleting"

boundTo(i) == \E j \in Listed : token[j] = i

\* The members that may be live when the pass asks; none, and it is not admitted.
liveK0sJoinServers == (SUBSET Servers) \ {{}}

\* Fault: what is left of the stored token's life does not matter.
ReuseAnyLife(live) ==
  /\ seen.ann # NoToken /\ seen.ann = seen.tok /\ ~boundTo(seen.ann)
  /\ seen.ann \in there /\ seen.srv \in live

\* checkIssuedK0sJoinToken: the stored token is nobody's and still good.
checkIssuedK0sJoinToken(live) ==
  /\ seen.ann # NoToken /\ seen.ann = seen.tok /\ ~boundTo(seen.ann)
  /\ seen.ann \in there /\ life[seen.ann] >= RenewWithin /\ seen.srv \in live

ReuseToken ==
  /\ pc = "admit" /\ Admissible
  /\ \E live \in liveK0sJoinServers : checkIssuedK0sJoinToken(live)
  /\ id' = seen.ann /\ pc' = "config" /\ UNCHANGED <<at, todo>>
  /\ stale' = IF slot.ann = seen.ann THEN stale ELSE stale \cup {seen.ann}
  /\ UNCHANGED <<workload, minted, secret, joiner, late>>

\* mintK0sControllerJoinToken: the token in the workload cluster.
MintToken ==
  /\ pc = "admit" /\ Admissible /\ minted < MaxTokens
  /\ \E live \in liveK0sJoinServers : ~checkIssuedK0sJoinToken(live)
  /\ minted' = minted + 1 /\ id' = minted + 1
  /\ there' = there \cup {minted + 1} /\ life' = [life EXCEPT ![minted + 1] = TTL]
  /\ pc' = "store" /\ UNCHANGED <<at, todo>>
  /\ UNCHANGED <<secret, joiner, late, stale>>

\* The token and its ID are stored in one write.
StoreToken ==
  /\ pc = "store"
  /\ \E s \in Servers : PatchSecret(Slot("kcp", id, id, s))
  /\ Goto("verify")
  /\ UNCHANGED <<workload, minted, joiner, late, stale>>

\* A conflict or a failed write: the token is deleted again, if that succeeds.
StoreFails ==
  /\ pc = "store"
  /\ (Delete({id}) \/ UNCHANGED workload) /\ Return
  /\ UNCHANGED <<minted, secret, joiner, late, stale>>

\* What the stored token replaced.
Superseded == {seen.ann, seen.tok} \ {NoToken, id}

\* The identity is read again: the replaced tokens go, each if that succeeds.
Reverified ==
  /\ pc = "verify"
  /\ \E old \in SUBSET Superseded : Delete(old)
  /\ Goto("config")
  /\ UNCHANGED <<minted, secret, joiner, late, stale>>

\* Another cluster answered: the new token goes, if that succeeds.
ReverifyForeign ==
  /\ pc = "verify"
  /\ (Delete({id}) \/ UNCHANGED workload) /\ Return
  /\ UNCHANGED <<minted, secret, joiner, late, stale>>

\* createControlPlaneMachineNamed: the KairosConfig, stamped with the ID...
CreateConfig ==
  /\ pc = "config"
  /\ \E j \in Joiners :
       /\ st[j] = "none" /\ \A k \in Joiners : k < j => st[k] # "none"
       /\ st' = [st EXCEPT ![j] = "config"] /\ token' = [token EXCEPT ![j] = id]
       /\ at' = j
  /\ pc' = "machine" /\ UNCHANGED <<id, todo>>
  /\ UNCHANGED <<workload, minted, secret, marked, data, age, late, stale>>

\* ...then the Machine...
CreateMachine ==
  /\ pc = "machine"
  /\ st' = [st EXCEPT ![at] = "booting"] /\ Return
  /\ UNCHANGED <<workload, minted, secret, token, marked, data, age, late, stale>>

\* ...or the KairosConfig goes again.
CreateFails ==
  /\ pc = "machine"
  /\ Gone(at) /\ Return
  /\ UNCHANGED <<workload, minted, secret, stale>>

-----------------------------------------------------------------------------
(***************************************************************************)
(* The bootstrap controller, the joiners, operators and time.              *)
(***************************************************************************)
\* Fault: whatever the Secret holds is rendered.
RenderStored(j) == seen.tok # NoToken

\* k0sIssuedControlPlaneJoinToken
k0sIssuedControlPlaneJoinToken(j) == seen.ann = token[j] /\ seen.tok = token[j]

resolveControlPlaneJoinToken(j) ==
  /\ st[j] = "booting" /\ data[j] = NoToken /\ seen.owner = "kcp"
  /\ k0sIssuedControlPlaneJoinToken(j)
  /\ data' = [data EXCEPT ![j] = seen.tok]
  /\ UNCHANGED <<workload, minted, secret, st, token, marked, age, pass, late, stale>>

\* While the pass holds a copy it read of the Secret, seen is that copy.
CacheSync ==
  /\ lag /\ pc \notin {"store", "verify"} /\ seen' = slot /\ lag' = FALSE
  /\ UNCHANGED <<workload, minted, slot, joiner, pass, late, stale>>

Joins(j) ==
  /\ pc = "idle" /\ st[j] = "booting" /\ data[j] \in there /\ life[data[j]] > 0
  /\ st' = [st EXCEPT ![j] = "joined"]
  /\ UNCHANGED <<workload, minted, secret, token, marked, data, age, pass, late, stale>>

\* Its report of a healthy member changes.
ReportChanges(j) ==
  /\ pc = "idle" /\ st[j] \in {"joined", "unwell"}
  /\ st' = [st EXCEPT ![j] = IF st[j] = "joined" THEN "unwell" ELSE "joined"]
  /\ UNCHANGED <<workload, minted, secret, token, marked, data, age, pass, late, stale>>

DeleteMachine(j) ==
  /\ pc = "idle" /\ st[j] \in Existing \ {"deleting"} /\ st' = [st EXCEPT ![j] = "deleting"]
  /\ UNCHANGED <<workload, minted, secret, token, marked, data, age, pass, late, stale>>

\* Machine and KairosConfig are gone.
MachineGone(j) ==
  /\ pc = "idle" /\ st[j] = "deleting" /\ Gone(j)
  /\ UNCHANGED <<workload, minted, secret, pass, stale>>

\* The recheck interval goes by.
Tick ==
  /\ pc = "idle"
  /\ life' = [i \in IDs |-> IF life[i] > 0 THEN life[i] - 1 ELSE 0]
  /\ age' = [j \in Joiners |-> IF st[j] \in Existing /\ age[j] < ExtendCap THEN age[j] + 1 ELSE age[j]]
  /\ late' = [j \in Joiners |-> IF st[j] = "booting" /\ late[j] < RenewWithin THEN late[j] + 1 ELSE late[j]]
  /\ UNCHANGED <<there, minted, secret, st, token, marked, data, pass, stale>>

\* The workload cluster removes tokens that have expired.
TokenCleaner(i) ==
  /\ i \in there /\ life[i] = 0 /\ Delete({i})
  /\ UNCHANGED <<minted, secret, joiner, pass, late, stale>>

-----------------------------------------------------------------------------
Maintain ==
  \/ MaintainUnreachable \/ ClearSecret \/ MarkRemoved \/ MaintainEnds
  \/ \E j \in Joiners :
       \/ removeK0sJoinToken(j) \/ RemoveFails(j)
       \/ extendK0sJoinToken(j) \/ ExtendFails(j)

Admit == \/ NotAdmitted \/ ReuseToken \/ MintToken \/ StoreToken \/ StoreFails
         \/ Reverified \/ ReverifyForeign \/ CreateConfig \/ CreateMachine \/ CreateFails

Pass == ensureJoinTokenSecret \/ Maintain \/ Admit \/ PassStops

Others == \/ CacheSync \/ Tick \/ \E i \in IDs : TokenCleaner(i)
          \/ \E j \in Joiners :
               \/ resolveControlPlaneJoinToken(j) \/ Joins(j) \/ ReportChanges(j)
               \/ DeleteMachine(j) \/ MachineGone(j)

Next == Pass \/ Others
Spec == Init /\ [][Next]_vars

\* A pass that has begun goes on or stops, and time goes by between two passes.  None
\* need begin: nothing brings one to a control plane without a pending joiner.
FairSpec == Spec /\ WF_vars(Pass /\ pc # "idle") /\ SF_vars(Tick)
-----------------------------------------------------------------------------
(***************************************************************************)
(* Properties.                                                             *)
(***************************************************************************)

\* Two Machines never hold the same token: once a Machine exists with it, the next
\* joiner gets a new one (ensureK0sControllerJoinToken), through retries, failed
\* creates and stale reads of the Secret.
OneMachinePerToken ==
  \A j, k \in Joiners :
    st[j] \in Existing /\ st[k] \in Existing /\ token[j] = token[k] => j = k

HasItsToken(j) == IF data[j] = NoToken THEN slot.ann = token[j] /\ slot.tok = token[j]
                  ELSE data[j] = token[j]

\* A booting joiner has the token issued for it in its data, or finds it in the
\* Secret: nothing replaces or clears it before it is rendered, unless the token
\* was reused on a stale read of the Secret.
BootsWithItsToken ==
  \A j \in Joiners : st[j] = "booting" /\ token[j] \notin stale => HasItsToken(j)

(***************************************************************************)
(* Why they hold: the inductive invariant, in parts.                       *)
(***************************************************************************)

\* What the Secret and the joiners hold has been issued.
IssuedInv ==
  /\ \A j \in Joiners : token[j] = NoToken \/ token[j] <= minted
  /\ slot.ann = NoToken \/ slot.ann <= minted
  /\ seen.ann = NoToken \/ seen.ann <= minted

\* The ID on the Secret is that of the token in it, and the cache is behind or right.
SecretInv ==
  /\ slot.owner = "none" => slot = NoSecret
  /\ slot.ann # NoToken => slot.tok = slot.ann
  /\ ~lag => seen = slot

\* A Machine has a token; a joiner without a Machine has no data.
JoinerInv ==
  \A j \in Joiners :
    /\ st[j] \in Existing => token[j] # NoToken
    /\ st[j] \in {"none", "config"} => data[j] = NoToken /\ late[j] = 0

\* From the choice of a token to the Machine that gets it, nothing else is joining
\* and no Machine has the token, which is alive and, once stored, in the Secret.
AdmitInv ==
  /\ pc \in {"store", "verify", "config", "machine"} =>
       /\ id \in there /\ id <= minted /\ life[id] >= RenewWithin
       /\ \A j \in Listed : token[j] # id /\ ~pending(j)
  /\ pc = "verify" => slot.ann = id /\ slot.tok = id
  /\ pc \in {"config", "machine"} => id \in stale \/ (slot.ann = id /\ slot.tok = id)
  /\ pc = "machine" => at \in Joiners /\ st[at] = "config" /\ token[at] = id

\* The pass looks at Machines that exist, and clears the Secret for one that is done.
ClearInv ==
  /\ pc \in {"maintain", "clear", "mark"} => todo \subseteq Listed
  /\ pc \in {"clear", "mark"} => at \in Listed /\ ~pending(at)

\* Whose token is whose: no two Machines share one, and each boots with its own
\* (ensureK0sControllerJoinToken, resolveControlPlaneJoinToken).
JoinTokenInv == /\ TypeOK /\ OneMachinePerToken /\ BootsWithItsToken
                /\ IssuedInv /\ SecretInv /\ JoinerInv /\ AdmitInv /\ ClearInv

\* A booting joiner's token is there, and outlives every outage shorter than
\* k0sJoinTokenRenewWithin, until the cap: what is left of it is at least the
\* renewal window less the time since it was last found there.
TokenOutlivesOutages ==
  \A j \in Joiners : st[j] = "booting" /\ late[j] < RenewWithin =>
    token[j] \in there /\ life[token[j]] + late[j] >= RenewWithin

\* Every token lapses for good: also one that was minted and never stored, one
\* whose removal failed, and one of a joiner that never joins (k0sJoinTokenExtendCap).
EveryTokenLapses == \A i \in IDs : <>[](i \notin there \/ life[i] = 0)
=============================================================================
