-------------------------- MODULE JoinToken_proofs --------------------------
(***************************************************************************)
(* JoinTokenInv and TokenOutlivesOutages hold for any number of joiners    *)
(* and tokens, any lifetime, window and cap, and any order of stops, stale *)
(* reads, failed writes and outages.                                       *)
(***************************************************************************)
EXTENDS JoinToken, TLAPS

\* The IDs of tokens and of joiners are numbers, and none stands for no token.
LEMMA IDFacts ==
  /\ IDs \subseteq Nat /\ NoToken \in Nat /\ NoToken \notin IDs /\ Legacy \in IDs
  /\ Joiners \subseteq Nat /\ 0 \notin Joiners
  /\ \A m \in Nat : m < MaxTokens => m + 1 \in IDs
BY JoinTokenAssumption DEF IDs, Issued, NoToken, Legacy, Joiners

\* The contents the KCP gives to the Secret.
LEMMA SecretFacts ==
  /\ NoSecret \in Secrets /\ Empty \in Secrets
  /\ NoSecret.owner = "none" /\ NoSecret.ann = NoToken /\ NoSecret.tok = NoToken
  /\ Empty.owner = "kcp" /\ Empty.ann = NoToken /\ Empty.tok = NoToken
  /\ \A i \in IDs, s \in Servers :
       /\ Slot("kcp", i, i, s) \in Secrets
       /\ Slot("kcp", i, i, s).owner = "kcp"
       /\ Slot("kcp", i, i, s).ann = i /\ Slot("kcp", i, i, s).tok = i
  /\ \A s \in Secrets : s.ann \in IDs \cup {NoToken} /\ s.tok \in IDs \cup {NoToken}
BY DEF Secrets, Slot, NoSecret, Empty, NoServer

\* Deleting tokens keeps the types of the workload cluster's part.
LEMMA DeleteTypes ==
  ASSUME TypeOK, NEW ids, Delete(ids)
  PROVE  there' \subseteq IDs /\ life' \in [IDs -> 0..TTL]
<1>1. there \subseteq IDs /\ life \in [IDs -> 0..TTL] BY DEF TypeOK
<1>2. 0 \in 0..TTL BY JoinTokenAssumption
<1> QED BY <1>1, <1>2 DEF Delete

\* The numbers of a state.
LEMMA Numbers ==
  ASSUME TypeOK
  PROVE  /\ \A i \in IDs : life[i] \in Nat /\ life[i] <= TTL
         /\ \A j \in Joiners : late[j] \in Nat /\ token[j] \in Nat
         /\ minted \in Nat /\ slot.ann \in Nat /\ seen.ann \in Nat
<1>1. \A i \in IDs : life[i] \in Nat /\ life[i] <= TTL BY JoinTokenAssumption DEF TypeOK
<1>2. \A j \in Joiners : late[j] \in Nat /\ token[j] \in Nat
  <2> TAKE j \in Joiners
  <2>1. late[j] \in 0..RenewWithin /\ token[j] \in IDs \cup {NoToken} BY DEF TypeOK
  <2>2. late[j] \in Nat BY <2>1, JoinTokenAssumption
  <2>3. IDs \subseteq Nat /\ NoToken \in Nat BY IDFacts
  <2> QED BY <2>1, <2>2, <2>3
<1>3. minted \in Nat BY JoinTokenAssumption DEF TypeOK
<1>4. slot.ann \in Nat /\ seen.ann \in Nat BY IDFacts, SecretFacts DEF TypeOK
<1> QED BY <1>1, <1>2, <1>3, <1>4

\* In the first state no joiner exists and the cache is right.
LEMMA InitInv == Init => JoinTokenInv /\ TokenOutlivesOutages
<1> SUFFICES ASSUME Init PROVE JoinTokenInv /\ TokenOutlivesOutages
  OBVIOUS
<1> USE JoinTokenAssumption, IDFacts, SecretFacts
<1>1. /\ slot \in Secrets
      /\ slot = NoSecret \/ (slot.owner # "none" /\ slot.ann = NoToken)
  <2>1. CASE slot = NoSecret BY <2>1
  <2>2. CASE slot = Slot("other", NoToken, Legacy, NoServer) BY <2>2 DEF Slot, Secrets
  <2>3. ASSUME NEW s \in Servers, slot = Slot("kcp", NoToken, Legacy, s)
        PROVE  slot \in Secrets /\ slot.owner # "none" /\ slot.ann = NoToken
    BY <2>3 DEF Slot, Secrets
  <2> QED BY <2>1, <2>2, <2>3 DEF Init
<1>2. TypeOK
  <2>1. there \subseteq IDs /\ life \in [IDs -> 0..TTL] BY DEF Init
  <2>2. minted \in 0..MaxTokens BY DEF Init
  <2>5. slot \in Secrets /\ seen \in Secrets
    <3>1. seen = slot BY DEF Init
    <3> QED BY <1>1, <3>1
  <2>6. lag \in BOOLEAN BY DEF Init
  <2>3. /\ st \in [Joiners -> States] /\ token \in [Joiners -> IDs \cup {NoToken}]
        /\ marked \in [Joiners -> BOOLEAN] /\ data \in [Joiners -> IDs \cup {NoToken}]
    BY DEF Init, States
  <2>4. age \in [Joiners -> 0..ExtendCap] /\ late \in [Joiners -> 0..RenewWithin] BY DEF Init
  <2> QED BY <2>1, <2>2, <2>3, <2>4, <2>5, <2>6 DEF Init, TypeOK
<1>3. OneMachinePerToken /\ BootsWithItsToken /\ JoinerInv /\ TokenOutlivesOutages
  BY DEF Init, OneMachinePerToken, BootsWithItsToken, JoinerInv, TokenOutlivesOutages, Existing
<1>4. IssuedInv /\ SecretInv BY <1>1 DEF Init, IssuedInv, SecretInv
<1>5. AdmitInv /\ ClearInv BY DEF Init, AdmitInv, ClearInv
<1> QED BY <1>2, <1>3, <1>4, <1>5 DEF JoinTokenInv

\* Every step keeps every part; the parts are those of JoinTokenInv, with
\* TokenOutlivesOutages.
LEMMA NextInv ==
  ASSUME TypeOK, OneMachinePerToken, BootsWithItsToken, IssuedInv, SecretInv, JoinerInv,
         AdmitInv, ClearInv, TokenOutlivesOutages, [Next]_vars
  PROVE  /\ TypeOK' /\ OneMachinePerToken' /\ BootsWithItsToken' /\ IssuedInv' /\ SecretInv'
         /\ JoinerInv' /\ AdmitInv' /\ ClearInv' /\ TokenOutlivesOutages'
<1> DEFINE Goal == /\ TypeOK' /\ OneMachinePerToken' /\ BootsWithItsToken' /\ IssuedInv' /\ SecretInv'
                   /\ JoinerInv' /\ AdmitInv' /\ ClearInv' /\ TokenOutlivesOutages'
<1> SUFFICES Goal OBVIOUS
<1> USE JoinTokenAssumption, IDFacts, SecretFacts DEF workload, secret, joiner, pass, States
<1>1. CASE ensureJoinTokenSecret
  <2> USE <1>1 DEF ensureJoinTokenSecret, OwnedOrAbsent
  <2>1. TypeOK' BY DEF TypeOK
  <2>2. OneMachinePerToken' BY DEF OneMachinePerToken, TypeOK, Existing
  <2>3. BootsWithItsToken'
    BY DEF BootsWithItsToken, HasItsToken, TypeOK, SecretInv, JoinerInv, Existing,
      OneMachinePerToken
  <2>4. IssuedInv' BY DEF IssuedInv, TypeOK
  <2>5. SecretInv' BY DEF SecretInv, TypeOK
  <2>6. JoinerInv' BY DEF JoinerInv, TypeOK, Existing
  <2>7. AdmitInv' BY DEF AdmitInv, TypeOK, Listed, pending, Existing
  <2>8. ClearInv' BY DEF ClearInv, TypeOK, Listed, pending, Existing
  <2>9. TokenOutlivesOutages' BY DEF TokenOutlivesOutages, TypeOK
  <2> QED BY <2>1, <2>2, <2>3, <2>4, <2>5, <2>6, <2>7, <2>8, <2>9
<1>2. CASE MaintainUnreachable
  <2> USE <1>2 DEF MaintainUnreachable
  <2>1. TypeOK' BY DEF TypeOK
  <2>2. OneMachinePerToken' BY DEF OneMachinePerToken, TypeOK, Existing
  <2>3. BootsWithItsToken'
    BY DEF BootsWithItsToken, HasItsToken, TypeOK, SecretInv, JoinerInv, Existing
  <2>4. IssuedInv' BY DEF IssuedInv, TypeOK
  <2>5. SecretInv' BY DEF SecretInv, TypeOK
  <2>6. JoinerInv' BY DEF JoinerInv, TypeOK, Existing
  <2>7. AdmitInv' BY DEF AdmitInv, TypeOK, Listed, pending, Existing
  <2>8. ClearInv' BY DEF ClearInv, TypeOK, Listed, pending, Existing
  <2>9. TokenOutlivesOutages' BY DEF TokenOutlivesOutages, TypeOK
  <2> QED BY <2>1, <2>2, <2>3, <2>4, <2>5, <2>6, <2>7, <2>8, <2>9
<1>3. CASE ClearSecret
  <2> USE <1>3 DEF ClearSecret, PatchSecret, Goto
  <2>1. TypeOK' BY DEF TypeOK
  <2>2. OneMachinePerToken' BY DEF OneMachinePerToken, TypeOK, Existing
  <2>3. BootsWithItsToken'
    BY DEF BootsWithItsToken, HasItsToken, TypeOK, SecretInv, JoinerInv, Existing,
      OneMachinePerToken, ClearInv, Listed, pending
  <2>4. IssuedInv' BY DEF IssuedInv, TypeOK
  <2>5. SecretInv' BY DEF SecretInv, TypeOK
  <2>6. JoinerInv' BY DEF JoinerInv, TypeOK, Existing
  <2>7. AdmitInv' BY DEF AdmitInv, TypeOK, Listed, pending, Existing
  <2>8. ClearInv'
    <3>1. UNCHANGED <<st, todo>> /\ pc' \in {"mark", "maintain"} /\ (pc' = "mark" => at' = at)
      OBVIOUS
    <3>2. Listed' = Listed /\ pending(at)' = (st[at'] \in {"booting", "unwell"})
      BY <3>1 DEF Listed, pending
    <3> QED BY <3>1, <3>2 DEF ClearInv, pending
  <2>9. TokenOutlivesOutages' BY DEF TokenOutlivesOutages, TypeOK
  <2> QED BY <2>1, <2>2, <2>3, <2>4, <2>5, <2>6, <2>7, <2>8, <2>9
<1>4. CASE MarkRemoved
  <2> USE <1>4 DEF MarkRemoved
  <2>1. TypeOK' BY DEF TypeOK
  <2>2. OneMachinePerToken' BY DEF OneMachinePerToken, TypeOK, Existing
  <2>3. BootsWithItsToken'
    BY DEF BootsWithItsToken, HasItsToken, TypeOK, SecretInv, JoinerInv, Existing
  <2>4. IssuedInv' BY DEF IssuedInv, TypeOK
  <2>5. SecretInv' BY DEF SecretInv, TypeOK
  <2>6. JoinerInv' BY DEF JoinerInv, TypeOK, Existing
  <2>7. AdmitInv' BY DEF AdmitInv, TypeOK, Listed, pending, Existing
  <2>8. ClearInv' BY DEF ClearInv, TypeOK, Listed, pending, Existing
  <2>9. TokenOutlivesOutages' BY DEF TokenOutlivesOutages, TypeOK
  <2> QED BY <2>1, <2>2, <2>3, <2>4, <2>5, <2>6, <2>7, <2>8, <2>9
<1>5. CASE MaintainEnds
  <2> USE <1>5 DEF MaintainEnds, Goto
  <2>1. TypeOK' BY DEF TypeOK
  <2>2. OneMachinePerToken' BY DEF OneMachinePerToken, TypeOK, Existing
  <2>3. BootsWithItsToken'
    BY DEF BootsWithItsToken, HasItsToken, TypeOK, SecretInv, JoinerInv, Existing
  <2>4. IssuedInv' BY DEF IssuedInv, TypeOK
  <2>5. SecretInv' BY DEF SecretInv, TypeOK
  <2>6. JoinerInv' BY DEF JoinerInv, TypeOK, Existing
  <2>7. AdmitInv' BY DEF AdmitInv, TypeOK, Listed, pending, Existing
  <2>8. ClearInv' BY DEF ClearInv, TypeOK, Listed, pending, Existing
  <2>9. TokenOutlivesOutages' BY DEF TokenOutlivesOutages, TypeOK
  <2> QED BY <2>1, <2>2, <2>3, <2>4, <2>5, <2>6, <2>7, <2>8, <2>9
<1>6. ASSUME NEW j \in Joiners, removeK0sJoinToken(j) PROVE Goal
  <2> USE <1>6 DEF removeK0sJoinToken, InUse, Delete
  <2>1. TypeOK'
    <3>1. Delete({token[j]}) OBVIOUS
    <3>2. there' \subseteq IDs /\ life' \in [IDs -> 0..TTL] BY <3>1, DeleteTypes
    <3> QED BY <3>2 DEF TypeOK
  <2>2. OneMachinePerToken' BY DEF OneMachinePerToken, TypeOK, Existing
  <2>3. BootsWithItsToken'
    BY DEF BootsWithItsToken, HasItsToken, TypeOK, SecretInv, JoinerInv, Existing
  <2>4. IssuedInv' BY DEF IssuedInv, TypeOK
  <2>5. SecretInv' BY DEF SecretInv, TypeOK
  <2>6. JoinerInv' BY DEF JoinerInv, TypeOK, Existing
  <2>7. AdmitInv' BY DEF AdmitInv, TypeOK, Listed, pending, Existing
  <2>8. ClearInv' BY DEF ClearInv, TypeOK, Listed, pending, Existing
  <2>9. TokenOutlivesOutages' BY DEF TokenOutlivesOutages, TypeOK, Listed, pending, Existing
  <2> QED BY <2>1, <2>2, <2>3, <2>4, <2>5, <2>6, <2>7, <2>8, <2>9
<1>7. ASSUME NEW j \in Joiners, RemoveFails(j) PROVE Goal
  <2> USE <1>7 DEF RemoveFails
  <2>1. TypeOK' BY DEF TypeOK
  <2>2. OneMachinePerToken' BY DEF OneMachinePerToken, TypeOK, Existing
  <2>3. BootsWithItsToken'
    BY DEF BootsWithItsToken, HasItsToken, TypeOK, SecretInv, JoinerInv, Existing
  <2>4. IssuedInv' BY DEF IssuedInv, TypeOK
  <2>5. SecretInv' BY DEF SecretInv, TypeOK
  <2>6. JoinerInv' BY DEF JoinerInv
  <2>7. AdmitInv' BY DEF AdmitInv, TypeOK, Listed, pending, Existing
  <2>8. ClearInv' BY DEF ClearInv, TypeOK, Listed, pending, Existing
  <2>9. TokenOutlivesOutages' BY DEF TokenOutlivesOutages, TypeOK
  <2> QED BY <2>1, <2>2, <2>3, <2>4, <2>5, <2>6, <2>7, <2>8, <2>9
<1>8. ASSUME NEW j \in Joiners, extendK0sJoinToken(j) PROVE Goal
  <2> USE <1>8 DEF extendK0sJoinToken, ExtensionDue
  <2>1. TypeOK' BY DEF TypeOK
  <2>2. OneMachinePerToken' BY DEF OneMachinePerToken, TypeOK, Existing
  <2>3. BootsWithItsToken'
    BY DEF BootsWithItsToken, HasItsToken, TypeOK, SecretInv, JoinerInv, Existing
  <2>4. IssuedInv' BY DEF IssuedInv, TypeOK
  <2>5. SecretInv' BY DEF SecretInv, TypeOK
  <2>6. JoinerInv' BY DEF JoinerInv, TypeOK, Existing
  <2>7. AdmitInv' BY DEF AdmitInv, TypeOK, Listed, pending, Existing
  <2>8. ClearInv' BY DEF ClearInv, TypeOK, Listed, pending, Existing
  <2>9. TokenOutlivesOutages'
    <3> SUFFICES ASSUME NEW k \in Joiners, st[k] = "booting", late'[k] < RenewWithin
                 PROVE  token[k] \in there /\ life'[token[k]] + late'[k] >= RenewWithin
      BY DEF TokenOutlivesOutages
    <3>1. there \subseteq IDs /\ late \in [Joiners -> 0..RenewWithin] /\ life \in [IDs -> 0..TTL]
      BY DEF TypeOK
    <3>2. \A i \in IDs : life'[i] \in Nat /\ life'[i] >= life[i] /\ life[i] \in Nat
      <4>1. CASE ExtensionDue(j)
        <5>1. life' = [life EXCEPT ![token[j]] = TTL] BY <4>1
        <5> QED BY <5>1, <3>1, Numbers
      <4>2. CASE ~ExtensionDue(j) BY <4>2, Numbers
      <4> QED BY <4>1, <4>2
    <3>3. CASE k = j /\ token[j] \in there /\ age[j] < ExtendCap
      <4>1. late'[j] = 0 BY <3>1, <3>3
      <4>2. CASE ExtensionDue(j)
        <5>1. life' = [life EXCEPT ![token[j]] = TTL] BY <4>2
        <5>2. life'[token[j]] = TTL BY <5>1, <3>1, <3>3
        <5> QED BY <5>2, <4>1, <3>3
      <4>3. CASE ~ExtensionDue(j)
        <5>1. life' = life BY <4>3
        <5>2. ~(life[token[j]] < RenewWithin) BY <4>3, <3>3
        <5>3. life[token[j]] \in Nat BY <3>1, <3>3, Numbers
        <5> QED BY <5>1, <5>2, <5>3, <4>1, <3>3
      <4> QED BY <4>2, <4>3
    <3>4. CASE ~(k = j /\ token[j] \in there /\ age[j] < ExtendCap)
      <4>1. late'[k] = late[k] /\ late[k] \in Nat BY <3>1, <3>4, Numbers
      <4>2. token[k] \in there /\ life[token[k]] + late[k] >= RenewWithin
        BY <4>1 DEF TokenOutlivesOutages
      <4>3. token[k] \in IDs BY <3>1, <4>2
      <4>4. /\ life'[token[k]] >= life[token[k]]
            /\ life[token[k]] \in Nat /\ life'[token[k]] \in Nat
        BY <3>2, <4>3
      <4>5. life'[token[k]] + late[k] >= RenewWithin BY <4>1, <4>2, <4>4
      <4> QED BY <4>1, <4>2, <4>5
    <3> QED BY <3>3, <3>4
  <2> QED BY <2>1, <2>2, <2>3, <2>4, <2>5, <2>6, <2>7, <2>8, <2>9
<1>9. ASSUME NEW j \in Joiners, ExtendFails(j) PROVE Goal
  <2> USE <1>9 DEF ExtendFails
  <2>1. TypeOK' BY DEF TypeOK
  <2>2. OneMachinePerToken' BY DEF OneMachinePerToken, TypeOK, Existing
  <2>3. BootsWithItsToken'
    BY DEF BootsWithItsToken, HasItsToken, TypeOK, SecretInv, JoinerInv, Existing
  <2>4. IssuedInv' BY DEF IssuedInv, TypeOK
  <2>5. SecretInv' BY DEF SecretInv, TypeOK
  <2>6. JoinerInv' BY DEF JoinerInv, TypeOK, Existing
  <2>7. AdmitInv' BY DEF AdmitInv, TypeOK, Listed, pending, Existing
  <2>8. ClearInv' BY DEF ClearInv, TypeOK, Listed, pending, Existing
  <2>9. TokenOutlivesOutages' BY DEF TokenOutlivesOutages, TypeOK
  <2> QED BY <2>1, <2>2, <2>3, <2>4, <2>5, <2>6, <2>7, <2>8, <2>9
<1>10. CASE NotAdmitted
  <2> USE <1>10 DEF NotAdmitted, Return
  <2>1. TypeOK' BY DEF TypeOK
  <2>2. OneMachinePerToken' BY DEF OneMachinePerToken, TypeOK, Existing
  <2>3. BootsWithItsToken'
    BY DEF BootsWithItsToken, HasItsToken, TypeOK, SecretInv, JoinerInv, Existing
  <2>4. IssuedInv' BY DEF IssuedInv, TypeOK
  <2>5. SecretInv' BY DEF SecretInv, TypeOK
  <2>6. JoinerInv' BY DEF JoinerInv, TypeOK, Existing
  <2>7. AdmitInv' BY DEF AdmitInv, TypeOK, Listed, pending, Existing
  <2>8. ClearInv' BY DEF ClearInv, TypeOK, Listed, pending, Existing
  <2>9. TokenOutlivesOutages' BY DEF TokenOutlivesOutages, TypeOK
  <2> QED BY <2>1, <2>2, <2>3, <2>4, <2>5, <2>6, <2>7, <2>8, <2>9
<1>11. CASE ReuseToken
  <2>0. /\ UNCHANGED <<there, life, minted, slot, seen, lag, st, token, marked, data, age, late, at, todo>>
        /\ pc' = "config" /\ id' = seen.ann /\ seen.ann \in there /\ seen.ann # NoToken
        /\ life[seen.ann] >= RenewWithin /\ ~boundTo(seen.ann)
        /\ \A j \in Listed : ~pending(j)
        /\ stale' = IF slot.ann = seen.ann THEN stale ELSE stale \cup {seen.ann}
    BY <1>11 DEF ReuseToken, Admissible, checkIssuedK0sJoinToken
  <2>1. TypeOK' BY <2>0 DEF TypeOK, boundTo
  <2>2. OneMachinePerToken' BY <2>0 DEF OneMachinePerToken, TypeOK, Existing, boundTo
  <2>3. BootsWithItsToken'
    BY <2>0 DEF BootsWithItsToken, HasItsToken, TypeOK, SecretInv, JoinerInv, Existing,
      boundTo
  <2>4. IssuedInv' BY <2>0 DEF IssuedInv, TypeOK, boundTo
  <2>5. SecretInv' BY <2>0 DEF SecretInv, TypeOK, boundTo
  <2>6. JoinerInv' BY <2>0 DEF JoinerInv, TypeOK, Existing, boundTo
  <2>7. AdmitInv'
    BY <2>0 DEF AdmitInv, TypeOK, Listed, pending, Existing, SecretInv, IssuedInv, boundTo
  <2>8. ClearInv' BY <2>0 DEF ClearInv, TypeOK, Listed, pending, Existing, boundTo
  <2>9. TokenOutlivesOutages' BY <2>0 DEF TokenOutlivesOutages, TypeOK, boundTo
  <2> QED BY <2>1, <2>2, <2>3, <2>4, <2>5, <2>6, <2>7, <2>8, <2>9
<1>12. CASE MintToken
  <2>0. /\ UNCHANGED <<slot, seen, lag, st, token, marked, data, age, late, stale, at, todo>>
        /\ minted < MaxTokens /\ minted' = minted + 1 /\ id' = minted + 1 /\ pc' = "store"
        /\ there' = there \cup {minted + 1} /\ life' = [life EXCEPT ![minted + 1] = TTL]
    BY <1>12 DEF MintToken
  <2>1. TypeOK' BY <2>0 DEF TypeOK
  <2>2. OneMachinePerToken' BY <2>0 DEF OneMachinePerToken, TypeOK, Existing
  <2>3. BootsWithItsToken'
    BY <2>0 DEF BootsWithItsToken, HasItsToken, TypeOK, SecretInv, JoinerInv, Existing
  <2>4. IssuedInv' BY <2>0, Numbers DEF IssuedInv
  <2>5. SecretInv' BY <2>0 DEF SecretInv, TypeOK
  <2>6. JoinerInv' BY <2>0 DEF JoinerInv, TypeOK, Existing
  <2>7. AdmitInv'
    <3>1. minted + 1 \in IDs /\ minted \in Nat BY <1>12 DEF MintToken, TypeOK
    <3>2. life'[minted + 1] = TTL BY <2>0, <3>1 DEF TypeOK
    <3>3. \A j \in Listed : token[j] # minted + 1 /\ ~pending(j)
      <4> TAKE j \in Listed
      <4>1. token[j] # NoToken /\ j \in Joiners BY DEF Listed, JoinerInv
      <4>2. token[j] # minted + 1 BY <4>1, <3>1 DEF IssuedInv, TypeOK
      <4> QED BY <4>2, <1>12 DEF MintToken, Admissible
    <3>4. Listed' = Listed /\ \A j \in Joiners : pending(j)' = pending(j)
      BY <2>0 DEF Listed, pending
    <3> QED BY <2>0, <3>1, <3>2, <3>3, <3>4 DEF AdmitInv, Listed
  <2>8. ClearInv' BY <2>0 DEF ClearInv, TypeOK, Listed, pending, Existing
  <2>9. TokenOutlivesOutages'
    <3> SUFFICES ASSUME NEW k \in Joiners, st[k] = "booting", late[k] < RenewWithin
                 PROVE  token[k] \in there' /\ life'[token[k]] + late[k] >= RenewWithin
      BY <2>0 DEF TokenOutlivesOutages
    <3>1. token[k] \in there /\ life[token[k]] + late[k] >= RenewWithin
      BY DEF TokenOutlivesOutages
    <3>2. token[k] # NoToken BY DEF JoinerInv, Existing
    <3>3. token[k] # minted + 1 BY <3>2 DEF IssuedInv, TypeOK
    <3>4. life'[token[k]] = life[token[k]] BY <2>0, <3>3, <3>1 DEF TypeOK
    <3> QED BY <2>0, <3>1, <3>4
  <2> QED BY <2>1, <2>2, <2>3, <2>4, <2>5, <2>6, <2>7, <2>8, <2>9
<1>13. CASE StoreToken
  <2> USE <1>13 DEF StoreToken, PatchSecret, Goto
  <2>1. TypeOK'
    <3>1. id \in IDs BY DEF AdmitInv, TypeOK
    <3>2. slot' \in Secrets BY <3>1
    <3> QED BY <3>2 DEF TypeOK
  <2>2. OneMachinePerToken' BY DEF OneMachinePerToken, TypeOK, Existing
  <2>3. BootsWithItsToken'
    <3>1. \A k \in Joiners : st'[k] # "booting" BY DEF AdmitInv, Listed, pending, Existing
    <3> QED BY <3>1 DEF BootsWithItsToken
  <2>4. IssuedInv' BY DEF IssuedInv, TypeOK, AdmitInv
  <2>5. SecretInv'
    <3>1. id \in IDs BY DEF AdmitInv, TypeOK
    <3>2. slot'.owner = "kcp" /\ slot'.ann = id /\ slot'.tok = id BY <3>1
    <3> QED BY <3>2 DEF SecretInv
  <2>6. JoinerInv' BY DEF JoinerInv, TypeOK, Existing
  <2>7. AdmitInv' BY DEF AdmitInv, TypeOK, Listed, pending, Existing
  <2>8. ClearInv' BY DEF ClearInv, TypeOK, Listed, pending, Existing
  <2>9. TokenOutlivesOutages' BY DEF TokenOutlivesOutages, TypeOK
  <2> QED BY <2>1, <2>2, <2>3, <2>4, <2>5, <2>6, <2>7, <2>8, <2>9
<1>14. CASE StoreFails
  <2> USE <1>14 DEF StoreFails, Delete, Return
  <2>1. TypeOK'
    <3>1. there' \subseteq IDs /\ life' \in [IDs -> 0..TTL]
      <4>1. CASE Delete({id}) BY <4>1, DeleteTypes
      <4>2. CASE UNCHANGED workload BY <4>2 DEF TypeOK
      <4> QED BY <4>1, <4>2
    <3> QED BY <3>1 DEF TypeOK
  <2>2. OneMachinePerToken' BY DEF OneMachinePerToken, TypeOK, Existing
  <2>3. BootsWithItsToken'
    BY DEF BootsWithItsToken, HasItsToken, TypeOK, SecretInv, JoinerInv, Existing
  <2>4. IssuedInv' BY DEF IssuedInv
  <2>5. SecretInv' BY DEF SecretInv, TypeOK
  <2>6. JoinerInv' BY DEF JoinerInv, TypeOK, Existing
  <2>7. AdmitInv' BY DEF AdmitInv, TypeOK, Listed, pending, Existing
  <2>8. ClearInv' BY DEF ClearInv, TypeOK, Listed, pending, Existing
  <2>9. TokenOutlivesOutages'
    BY DEF TokenOutlivesOutages, TypeOK, AdmitInv, Listed, pending, Existing
  <2> QED BY <2>1, <2>2, <2>3, <2>4, <2>5, <2>6, <2>7, <2>8, <2>9
<1>15. CASE Reverified
  <2> USE <1>15 DEF Reverified, Superseded, Delete, Goto
  <2>1. TypeOK'
    <3>1. there' \subseteq IDs /\ life' \in [IDs -> 0..TTL] BY <1>15, DeleteTypes DEF Reverified
    <3> QED BY <3>1 DEF TypeOK
  <2>2. OneMachinePerToken' BY DEF OneMachinePerToken, TypeOK, Existing
  <2>3. BootsWithItsToken'
    BY DEF BootsWithItsToken, HasItsToken, TypeOK, SecretInv, JoinerInv, Existing
  <2>4. IssuedInv' BY DEF IssuedInv, TypeOK
  <2>5. SecretInv' BY DEF SecretInv, TypeOK
  <2>6. JoinerInv' BY DEF JoinerInv, TypeOK, Existing
  <2>7. AdmitInv' BY DEF AdmitInv, TypeOK, Listed, pending, Existing
  <2>8. ClearInv' BY DEF ClearInv, TypeOK, Listed, pending, Existing
  <2>9. TokenOutlivesOutages'
    BY DEF TokenOutlivesOutages, TypeOK, AdmitInv, Listed, pending, Existing
  <2> QED BY <2>1, <2>2, <2>3, <2>4, <2>5, <2>6, <2>7, <2>8, <2>9
<1>16. CASE ReverifyForeign
  <2> USE <1>16 DEF ReverifyForeign, Delete, Return
  <2>1. TypeOK'
    <3>1. there' \subseteq IDs /\ life' \in [IDs -> 0..TTL]
      <4>1. CASE Delete({id}) BY <4>1, DeleteTypes
      <4>2. CASE UNCHANGED workload BY <4>2 DEF TypeOK
      <4> QED BY <4>1, <4>2
    <3> QED BY <3>1 DEF TypeOK
  <2>2. OneMachinePerToken' BY DEF OneMachinePerToken, TypeOK, Existing
  <2>3. BootsWithItsToken'
    BY DEF BootsWithItsToken, HasItsToken, TypeOK, SecretInv, JoinerInv, Existing
  <2>4. IssuedInv' BY DEF IssuedInv, TypeOK
  <2>5. SecretInv' BY DEF SecretInv, TypeOK
  <2>6. JoinerInv' BY DEF JoinerInv, TypeOK, Existing
  <2>7. AdmitInv' BY DEF AdmitInv, TypeOK, Listed, pending, Existing
  <2>8. ClearInv' BY DEF ClearInv, TypeOK, Listed, pending, Existing
  <2>9. TokenOutlivesOutages'
    BY DEF TokenOutlivesOutages, TypeOK, AdmitInv, Listed, pending, Existing
  <2> QED BY <2>1, <2>2, <2>3, <2>4, <2>5, <2>6, <2>7, <2>8, <2>9
<1>17. CASE CreateConfig
  <2>0. PICK j \in Joiners :
          /\ st[j] = "none" /\ st' = [st EXCEPT ![j] = "config"]
          /\ token' = [token EXCEPT ![j] = id] /\ at' = j
          /\ pc = "config" /\ pc' = "machine"
          /\ UNCHANGED <<there, life, minted, slot, seen, lag, marked, data, age, late, stale, id, todo>>
    BY <1>17 DEF CreateConfig
  <2>1. TypeOK' BY <2>0 DEF TypeOK
  <2>2. OneMachinePerToken' BY <2>0 DEF OneMachinePerToken, TypeOK, Existing
  <2>3. BootsWithItsToken'
    BY <2>0 DEF BootsWithItsToken, HasItsToken, TypeOK, SecretInv, JoinerInv, Existing
  <2>4. IssuedInv' BY <2>0 DEF IssuedInv, TypeOK, AdmitInv
  <2>5. SecretInv' BY <2>0 DEF SecretInv, TypeOK
  <2>6. JoinerInv' BY <2>0 DEF JoinerInv, TypeOK, Existing
  <2>7. AdmitInv' BY <2>0 DEF AdmitInv, TypeOK, Listed, pending, Existing
  <2>8. ClearInv' BY <2>0 DEF ClearInv, TypeOK, Listed, pending, Existing
  <2>9. TokenOutlivesOutages' BY <2>0 DEF TokenOutlivesOutages, TypeOK
  <2> QED BY <2>1, <2>2, <2>3, <2>4, <2>5, <2>6, <2>7, <2>8, <2>9
<1>18. CASE CreateMachine
  <2> USE <1>18 DEF CreateMachine, Return
  <2>1. TypeOK' BY DEF TypeOK
  <2>2. OneMachinePerToken'
    <3>1. at \in Joiners /\ token[at] = id /\ \A k \in Joiners : st[k] \in Existing => token[k] # id
      BY DEF AdmitInv, Listed
    <3>2. \A k \in Joiners : st'[k] \in Existing => k = at \/ st[k] \in Existing
      BY <3>1 DEF TypeOK
    <3>3. token' = token OBVIOUS
    <3> QED BY <3>1, <3>2, <3>3 DEF OneMachinePerToken
  <2>3. BootsWithItsToken'
    BY DEF BootsWithItsToken, HasItsToken, TypeOK, SecretInv, JoinerInv, Existing, AdmitInv,
      Listed
  <2>4. IssuedInv' BY DEF IssuedInv, TypeOK
  <2>5. SecretInv' BY DEF SecretInv, TypeOK
  <2>6. JoinerInv' BY DEF JoinerInv, TypeOK, Existing, AdmitInv, IssuedInv
  <2>7. AdmitInv' BY DEF AdmitInv, TypeOK, Listed, pending, Existing
  <2>8. ClearInv' BY DEF ClearInv, TypeOK, Listed, pending, Existing
  <2>9. TokenOutlivesOutages' BY DEF TokenOutlivesOutages, TypeOK, AdmitInv, JoinerInv
  <2> QED BY <2>1, <2>2, <2>3, <2>4, <2>5, <2>6, <2>7, <2>8, <2>9
<1>19. CASE CreateFails
  <2> USE <1>19 DEF CreateFails, Gone, Return
  <2>1. TypeOK'
    <3>1. at \in Joiners BY DEF AdmitInv
    <3> QED BY <3>1 DEF TypeOK
  <2>2. OneMachinePerToken' BY DEF OneMachinePerToken, TypeOK, Existing
  <2>3. BootsWithItsToken'
    BY DEF BootsWithItsToken, HasItsToken, TypeOK, SecretInv, JoinerInv, Existing
  <2>4. IssuedInv' BY DEF IssuedInv, TypeOK
  <2>5. SecretInv' BY DEF SecretInv, TypeOK
  <2>6. JoinerInv' BY DEF JoinerInv, TypeOK, Existing
  <2>7. AdmitInv' BY DEF AdmitInv, TypeOK, Listed, pending, Existing
  <2>8. ClearInv' BY DEF ClearInv
  <2>9. TokenOutlivesOutages'
    <3>1. at \in Joiners BY DEF AdmitInv
    <3>2. \A k \in Joiners : st'[k] = "booting" =>
            st[k] = "booting" /\ token'[k] = token[k] /\ late'[k] = late[k]
      BY <3>1 DEF TypeOK
    <3>3. UNCHANGED <<there, life>> OBVIOUS
    <3> QED BY <3>2, <3>3 DEF TokenOutlivesOutages
  <2> QED BY <2>1, <2>2, <2>3, <2>4, <2>5, <2>6, <2>7, <2>8, <2>9
<1>20. CASE PassStops
  <2> USE <1>20 DEF PassStops, Return
  <2>1. TypeOK' BY DEF TypeOK
  <2>2. OneMachinePerToken' BY DEF OneMachinePerToken, TypeOK, Existing
  <2>3. BootsWithItsToken'
    BY DEF BootsWithItsToken, HasItsToken, TypeOK, SecretInv, JoinerInv, Existing
  <2>4. IssuedInv' BY DEF IssuedInv, TypeOK
  <2>5. SecretInv' BY DEF SecretInv, TypeOK
  <2>6. JoinerInv' BY DEF JoinerInv, TypeOK, Existing
  <2>7. AdmitInv' BY DEF AdmitInv, TypeOK, Listed, pending, Existing
  <2>8. ClearInv' BY DEF ClearInv, TypeOK, Listed, pending, Existing
  <2>9. TokenOutlivesOutages' BY DEF TokenOutlivesOutages, TypeOK
  <2> QED BY <2>1, <2>2, <2>3, <2>4, <2>5, <2>6, <2>7, <2>8, <2>9
<1>21. CASE CacheSync
  <2> USE <1>21 DEF CacheSync
  <2>1. TypeOK' BY DEF TypeOK
  <2>2. OneMachinePerToken' BY DEF OneMachinePerToken, TypeOK, Existing
  <2>3. BootsWithItsToken'
    BY DEF BootsWithItsToken, HasItsToken, TypeOK, SecretInv, JoinerInv, Existing
  <2>4. IssuedInv' BY DEF IssuedInv, TypeOK
  <2>5. SecretInv' BY DEF SecretInv, TypeOK
  <2>6. JoinerInv' BY DEF JoinerInv, TypeOK, Existing
  <2>7. AdmitInv' BY DEF AdmitInv, TypeOK, Listed, pending, Existing
  <2>8. ClearInv' BY DEF ClearInv, TypeOK, Listed, pending, Existing
  <2>9. TokenOutlivesOutages' BY DEF TokenOutlivesOutages, TypeOK
  <2> QED BY <2>1, <2>2, <2>3, <2>4, <2>5, <2>6, <2>7, <2>8, <2>9
<1>22. CASE Tick
  <2> USE <1>22 DEF Tick
  <2>1. TypeOK' BY DEF TypeOK
  <2>2. OneMachinePerToken' BY DEF OneMachinePerToken, TypeOK, Existing
  <2>3. BootsWithItsToken'
    BY DEF BootsWithItsToken, HasItsToken, TypeOK, SecretInv, JoinerInv, Existing
  <2>4. IssuedInv' BY DEF IssuedInv, TypeOK
  <2>5. SecretInv' BY DEF SecretInv, TypeOK
  <2>6. JoinerInv' BY DEF JoinerInv, TypeOK, Existing
  <2>7. AdmitInv' BY DEF AdmitInv, TypeOK, Listed, pending, Existing
  <2>8. ClearInv' BY DEF ClearInv, TypeOK, Listed, pending, Existing
  <2>9. TokenOutlivesOutages'
    <3> SUFFICES ASSUME NEW k \in Joiners, st[k] = "booting", late'[k] < RenewWithin
                 PROVE  token[k] \in there /\ life'[token[k]] + late'[k] >= RenewWithin
      BY DEF TokenOutlivesOutages
    <3>1. late[k] \in Nat /\ late[k] < RenewWithin /\ late'[k] = late[k] + 1 BY DEF TypeOK
    <3>2. token[k] \in there /\ life[token[k]] + late[k] >= RenewWithin
      BY <3>1 DEF TokenOutlivesOutages
    <3>3. life[token[k]] \in Nat /\ token[k] \in IDs BY <3>2, Numbers DEF TypeOK
    <3>4. life'[token[k]] = life[token[k]] - 1 BY <3>1, <3>2, <3>3
    <3> QED BY <3>1, <3>2, <3>3, <3>4
  <2> QED BY <2>1, <2>2, <2>3, <2>4, <2>5, <2>6, <2>7, <2>8, <2>9
<1>23. ASSUME NEW i \in IDs, TokenCleaner(i) PROVE Goal
  <2> USE <1>23 DEF TokenCleaner, Delete
  <2>1. TypeOK'
    <3>1. there' \subseteq IDs /\ life' \in [IDs -> 0..TTL] BY <1>23, DeleteTypes DEF TokenCleaner
    <3> QED BY <3>1 DEF TypeOK
  <2>2. OneMachinePerToken' BY DEF OneMachinePerToken, TypeOK, Existing
  <2>3. BootsWithItsToken'
    BY DEF BootsWithItsToken, HasItsToken, TypeOK, SecretInv, JoinerInv, Existing
  <2>4. IssuedInv' BY DEF IssuedInv, TypeOK
  <2>5. SecretInv' BY DEF SecretInv, TypeOK
  <2>6. JoinerInv' BY DEF JoinerInv, TypeOK, Existing
  <2>7. AdmitInv' BY DEF AdmitInv, TypeOK, Listed, pending, Existing
  <2>8. ClearInv' BY DEF ClearInv, TypeOK, Listed, pending, Existing
  <2>9. TokenOutlivesOutages' BY DEF TokenOutlivesOutages, TypeOK, JoinerInv, Existing
  <2> QED BY <2>1, <2>2, <2>3, <2>4, <2>5, <2>6, <2>7, <2>8, <2>9
<1>24. ASSUME NEW j \in Joiners, resolveControlPlaneJoinToken(j) PROVE Goal
  <2> USE <1>24 DEF resolveControlPlaneJoinToken, k0sIssuedControlPlaneJoinToken
  <2>1. TypeOK' BY DEF TypeOK
  <2>2. OneMachinePerToken' BY DEF OneMachinePerToken, TypeOK, Existing
  <2>3. BootsWithItsToken'
    BY DEF BootsWithItsToken, HasItsToken, TypeOK, SecretInv, JoinerInv, Existing
  <2>4. IssuedInv' BY DEF IssuedInv, TypeOK
  <2>5. SecretInv' BY DEF SecretInv, TypeOK
  <2>6. JoinerInv' BY DEF JoinerInv, TypeOK, Existing
  <2>7. AdmitInv' BY DEF AdmitInv, TypeOK, Listed, pending, Existing
  <2>8. ClearInv' BY DEF ClearInv, TypeOK, Listed, pending, Existing
  <2>9. TokenOutlivesOutages' BY DEF TokenOutlivesOutages, TypeOK
  <2> QED BY <2>1, <2>2, <2>3, <2>4, <2>5, <2>6, <2>7, <2>8, <2>9
<1>25. ASSUME NEW j \in Joiners, Joins(j) PROVE Goal
  <2> USE <1>25 DEF Joins
  <2>1. TypeOK' BY DEF TypeOK
  <2>2. OneMachinePerToken' BY DEF OneMachinePerToken, TypeOK, Existing
  <2>3. BootsWithItsToken'
    BY DEF BootsWithItsToken, HasItsToken, TypeOK, SecretInv, JoinerInv, Existing
  <2>4. IssuedInv' BY DEF IssuedInv, TypeOK
  <2>5. SecretInv' BY DEF SecretInv, TypeOK
  <2>6. JoinerInv' BY DEF JoinerInv, TypeOK, Existing
  <2>7. AdmitInv' BY DEF AdmitInv, TypeOK, Listed, pending, Existing
  <2>8. ClearInv' BY DEF ClearInv, TypeOK, Listed, pending, Existing
  <2>9. TokenOutlivesOutages' BY DEF TokenOutlivesOutages, TypeOK
  <2> QED BY <2>1, <2>2, <2>3, <2>4, <2>5, <2>6, <2>7, <2>8, <2>9
<1>26. ASSUME NEW j \in Joiners, ReportChanges(j) PROVE Goal
  <2> USE <1>26 DEF ReportChanges
  <2>1. TypeOK' BY DEF TypeOK
  <2>2. OneMachinePerToken' BY DEF OneMachinePerToken, TypeOK, Existing
  <2>3. BootsWithItsToken'
    <3>1. \A k \in Joiners : st'[k] = "booting" => st[k] = "booting" BY DEF TypeOK
    <3>2. UNCHANGED <<token, data, slot, stale>> OBVIOUS
    <3> QED BY <3>1, <3>2 DEF BootsWithItsToken, HasItsToken
  <2>4. IssuedInv' BY DEF IssuedInv, TypeOK
  <2>5. SecretInv' BY DEF SecretInv, TypeOK
  <2>6. JoinerInv' BY DEF JoinerInv, TypeOK, Existing
  <2>7. AdmitInv' BY DEF AdmitInv, TypeOK, Listed, pending, Existing
  <2>8. ClearInv' BY DEF ClearInv, TypeOK, Listed, pending, Existing
  <2>9. TokenOutlivesOutages' BY DEF TokenOutlivesOutages, TypeOK
  <2> QED BY <2>1, <2>2, <2>3, <2>4, <2>5, <2>6, <2>7, <2>8, <2>9
<1>27. ASSUME NEW j \in Joiners, DeleteMachine(j) PROVE Goal
  <2> USE <1>27 DEF DeleteMachine
  <2>1. TypeOK' BY DEF TypeOK
  <2>2. OneMachinePerToken' BY DEF OneMachinePerToken, TypeOK, Existing
  <2>3. BootsWithItsToken'
    <3>1. \A k \in Joiners : st'[k] = "booting" => st[k] = "booting" BY DEF TypeOK
    <3>2. UNCHANGED <<token, data, slot, stale>> OBVIOUS
    <3> QED BY <3>1, <3>2 DEF BootsWithItsToken, HasItsToken
  <2>4. IssuedInv' BY DEF IssuedInv, TypeOK
  <2>5. SecretInv' BY DEF SecretInv, TypeOK
  <2>6. JoinerInv' BY DEF JoinerInv, TypeOK, Existing
  <2>7. AdmitInv' BY DEF AdmitInv, TypeOK, Listed, pending, Existing
  <2>8. ClearInv' BY DEF ClearInv, TypeOK, Listed, pending, Existing
  <2>9. TokenOutlivesOutages' BY DEF TokenOutlivesOutages, TypeOK
  <2> QED BY <2>1, <2>2, <2>3, <2>4, <2>5, <2>6, <2>7, <2>8, <2>9
<1>28. ASSUME NEW j \in Joiners, MachineGone(j) PROVE Goal
  <2> USE <1>28 DEF MachineGone, Gone
  <2>1. TypeOK' BY DEF TypeOK
  <2>2. OneMachinePerToken' BY DEF OneMachinePerToken, TypeOK, Existing
  <2>3. BootsWithItsToken'
    BY DEF BootsWithItsToken, HasItsToken, TypeOK, SecretInv, JoinerInv, Existing
  <2>4. IssuedInv' BY DEF IssuedInv, TypeOK
  <2>5. SecretInv' BY DEF SecretInv, TypeOK
  <2>6. JoinerInv' BY DEF JoinerInv, TypeOK, Existing
  <2>7. AdmitInv' BY DEF AdmitInv, TypeOK, Listed, pending, Existing
  <2>8. ClearInv' BY DEF ClearInv, TypeOK, Listed, pending, Existing
  <2>9. TokenOutlivesOutages' BY DEF TokenOutlivesOutages, TypeOK
  <2> QED BY <2>1, <2>2, <2>3, <2>4, <2>5, <2>6, <2>7, <2>8, <2>9
<1>29. CASE UNCHANGED vars
  BY <1>29 DEF vars, TypeOK, OneMachinePerToken, BootsWithItsToken, IssuedInv, SecretInv,
     JoinerInv, AdmitInv, ClearInv, TokenOutlivesOutages, HasItsToken, Listed, pending
<1> QED
  BY <1>1, <1>2, <1>3, <1>4, <1>5, <1>6, <1>7, <1>8, <1>9, <1>10, <1>11, <1>12,
     <1>13, <1>14, <1>15, <1>16, <1>17, <1>18, <1>19, <1>20, <1>21, <1>22, <1>23, <1>24,
     <1>25, <1>26, <1>27, <1>28, <1>29
  DEF Next, Pass, Others, Maintain, Admit

\* The two invariants hold together in every reachable state.
LEMMA Invariants == Spec => [](JoinTokenInv /\ TokenOutlivesOutages)
<1>1. JoinTokenInv /\ TokenOutlivesOutages /\ [Next]_vars =>
        JoinTokenInv' /\ TokenOutlivesOutages'
  BY NextInv DEF JoinTokenInv
<1> QED BY InitInv, <1>1, PTL DEF Spec

\* No two Machines share a token and each boots with the one issued for it
\* (ensureK0sControllerJoinToken, resolveControlPlaneJoinToken).
THEOREM TokensAreTheirOwn == Spec => []JoinTokenInv
  BY Invariants, PTL

\* The token of a booting joiner outlives every outage shorter than
\* k0sJoinTokenRenewWithin, up to the cap (extendK0sJoinToken).
THEOREM TokensOutliveOutages == Spec => []TokenOutlivesOutages
  BY Invariants, PTL
=============================================================================
