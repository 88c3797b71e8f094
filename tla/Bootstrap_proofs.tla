-------------------------- MODULE Bootstrap_proofs --------------------------
(***************************************************************************)
(* The KairosConfig controller, for every set of scenarios: ConfigInv,  *)
(* FirstRenderIsComplete and StepsAreSafe; and the migrator's intersection *)
(* for every set of rules.                                                 *)
(*                                                                         *)
(* The argument is on names and on data. No name on record, in the cache   *)
(* or in the pass is of somebody else's Secret (NameInv); what is stored   *)
(* under a name, or about to be, carries what the node needs (DataInv);    *)
(* and a pass renders stored data again only for what that data lacks      *)
(* (AgainInv). The lemmas FinishInv, ToRenderInv, ToWriteInv, ConcludeInv  *)
(* and IdleInv are the five ways a pass moves; SideStep is every step that *)
(* is not of a pass.                                                       *)
(*                                                                         *)
(* For the tokens it is on time and on the record. A pass asks for a       *)
(* recheck only of a token to which it has just given its whole life, so   *)
(* one late check is survived (SlackInv); and another token is written     *)
(* only when the recorded one is gone (RecordInv).                         *)
(***************************************************************************)
EXTENDS Bootstrap, WellFoundedInduction, TLAPS

-----------------------------------------------------------------------------
(* The migrator's intersection                                             *)

\* A verb that intersectVerbs keeps was granted, by name or by "*".
LEMMA KeptVerbIsGranted ==
  ASSUME NEW rules, NEW resource, NEW name, NEW allowed, NEW v,
         v \in intersectVerbs(allowed, grantedVerbs(rules, resource, name))
  PROVE  \E q \in rules : Covers(q, resource, name, v)
<1>1. CASE "*" \in grantedVerbs(rules, resource, name)
  <2>1. PICK q \in rules : /\ q.resource \in {resource, "*"}
                           /\ q.names = {} \/ name \in q.names
                           /\ "*" \in q.verbs
    BY <1>1 DEF grantedVerbs
  <2>2. q.verbs \intersect {v, "*"} # {} BY <2>1
  <2> QED BY <2>1, <2>2 DEF Covers
<1>2. CASE "*" \notin grantedVerbs(rules, resource, name)
  <2>1. v \in grantedVerbs(rules, resource, name) BY <1>2 DEF intersectVerbs
  <2>2. PICK q \in rules : /\ q.resource \in {resource, "*"}
                           /\ q.names = {} \/ name \in q.names
                           /\ v \in q.verbs
    BY <2>1 DEF grantedVerbs
  <2>3. q.verbs \intersect {v, "*"} # {} BY <2>2
  <2> QED BY <2>2, <2>3 DEF Covers
<1> QED BY <1>1, <1>2

\* ... and a granted verb that is allowed is kept.
LEMMA GrantedVerbIsKept ==
  ASSUME NEW rules, NEW resource, NEW name, NEW allowed, NEW v \in allowed,
         NEW q \in rules, Covers(q, resource, name, v)
  PROVE  v \in intersectVerbs(allowed, grantedVerbs(rules, resource, name))
<1>1. q.verbs \subseteq grantedVerbs(rules, resource, name) BY DEF grantedVerbs, Covers
<1>2. v \in grantedVerbs(rules, resource, name) \/ "*" \in grantedVerbs(rules, resource, name)
  BY <1>1 DEF Covers
<1> QED BY <1>2 DEF intersectVerbs

\* What the intersection keeps of the two allowed rules.
LEMMA KeptRules ==
  ASSUME NEW rules, NEW k \in intersectNodePushRules(rules)
  PROVE  \/ /\ k.resource = "vmi" /\ k.names = {}
            /\ k.verbs = intersectVerbs({"get"}, grantedVerbs(rules, "vmi", AllNames))
         \/ /\ k.resource = "secrets" /\ k.names # {} /\ k.verbs = {"patch"}
            /\ k.names = {n \in {"push", "etcd"} :
                 "patch" \in intersectVerbs({"patch"}, grantedVerbs(rules, "secrets", n))}
<1>1. /\ k \in Kept(PushRule, rules) \/ k \in Kept(VMIRule, rules)
      /\ k.resource = "secrets" => k.names # {}
  BY DEF intersectNodePushRules, nodePushAllowedRules
<1>2. PushRule.resource = "secrets" /\ PushRule.names = {"push", "etcd"} /\ PushRule.verbs = {"patch"}
  BY DEF PushRule, Rule
<1>3. VMIRule.resource = "vmi" /\ VMIRule.names = {} /\ VMIRule.verbs = {"get"}
  BY DEF VMIRule, Rule
<1>4. CASE k \in Kept(PushRule, rules)
  <2>1. k = Rule("secrets", {n \in {"push", "etcd"} :
               "patch" \in intersectVerbs({"patch"}, grantedVerbs(rules, "secrets", n))}, {"patch"})
    BY <1>4, <1>2 DEF Kept
  <2> QED BY <2>1, <1>1 DEF Rule
<1>5. CASE k \in Kept(VMIRule, rules)
  <2>1. k = Rule("vmi", {}, intersectVerbs({"get"}, grantedVerbs(rules, "vmi", AllNames)))
    BY <1>5, <1>3 DEF Kept
  <2> QED BY <2>1 DEF Rule
<1> QED BY <1>1, <1>4, <1>5

\* The migrator takes grants away and adds none (intersectNodePushRules), whether
\* they were given by name, for every Secret, or for every resource and verb.
THEOREM MigrationNarrows ==
  ASSUME NEW rules \in SUBSET Rules
  PROVE  Permits(intersectNodePushRules(rules)) \subseteq Permits(rules)
<1> SUFFICES ASSUME NEW g \in {"secrets", "vmi"} \X SecretNames \X Verbs,
                    NEW k \in intersectNodePushRules(rules), Covers(k, g[1], g[2], g[3])
             PROVE  \E r \in rules : Covers(r, g[1], g[2], g[3])
  BY DEF Permits
<1> DEFINE n == g[2]
           v == g[3]
<1>0. g[1] \in {"secrets", "vmi"} /\ n \in SecretNames /\ v \in Verbs OBVIOUS
<1>1. CASE k.resource = "vmi"
  <2>1. k.verbs = intersectVerbs({"get"}, grantedVerbs(rules, "vmi", AllNames))
    BY <1>1, KeptRules
  <2>2. g[1] = "vmi" BY <1>1, <1>0 DEF Covers
  <2>3. k.verbs \subseteq {"get"} BY <2>1 DEF intersectVerbs
  <2>4. v \in intersectVerbs({"get"}, grantedVerbs(rules, "vmi", AllNames))
    BY <2>1, <2>3 DEF Covers
  <2>5. PICK q \in rules : Covers(q, "vmi", AllNames, v)
    BY <2>4, KeptVerbIsGranted
  <2>6. AllNames \notin q.names
    <3>1. q.names \subseteq SecretNames BY DEF Rules
    <3> QED BY <3>1 DEF AllNames, SecretNames
  <2> QED BY <2>2, <2>5, <2>6 DEF Covers
<1>2. CASE k.resource = "secrets"
  <2>1. /\ k.verbs = {"patch"}
        /\ k.names # {}
        /\ k.names = {m \in {"push", "etcd"} :
             "patch" \in intersectVerbs({"patch"}, grantedVerbs(rules, "secrets", m))}
    BY <1>2, KeptRules
  <2>2. g[1] = "secrets" /\ v = "patch" /\ n \in k.names BY <1>2, <1>0, <2>1 DEF Covers
  <2>3. "patch" \in intersectVerbs({"patch"}, grantedVerbs(rules, "secrets", n))
    BY <2>1, <2>2
  <2> QED BY <2>2, <2>3, KeptVerbIsGranted
<1> QED BY <1>1, <1>2, KeptRules

\* It keeps the patch grants on the two Secrets that the running nodes push to
\* (PushRule), as far as the older Role gave them.
THEOREM MigrationKeepsPush ==
  ASSUME NEW rules \in SUBSET Rules
  PROVE  Permits(rules) \intersect Permits({PushRule}) \subseteq Permits(intersectNodePushRules(rules))
<1>0. PushRule.resource = "secrets" /\ PushRule.names = {"push", "etcd"} /\ PushRule.verbs = {"patch"}
  BY DEF PushRule, Rule
<1> SUFFICES ASSUME NEW g \in {"secrets", "vmi"} \X SecretNames \X Verbs,
                    NEW q \in rules, Covers(q, g[1], g[2], g[3]), Covers(PushRule, g[1], g[2], g[3])
             PROVE  \E k \in intersectNodePushRules(rules) : Covers(k, g[1], g[2], g[3])
  BY DEF Permits
<1> DEFINE n == g[2]
<1>1. g[1] = "secrets" /\ n \in {"push", "etcd"} /\ g[3] = "patch"
  BY <1>0 DEF Covers, Verbs
<1>3. "patch" \in intersectVerbs({"patch"}, grantedVerbs(rules, "secrets", n))
  BY <1>1, GrantedVerbIsKept
<1> DEFINE kept == {m \in {"push", "etcd"} :
                      "patch" \in intersectVerbs({"patch"}, grantedVerbs(rules, "secrets", m))}
           k == Rule("secrets", kept, {"patch"})
<1>4. k \in Kept(PushRule, rules) BY <1>0 DEF Kept
<1>5. n \in kept BY <1>1, <1>3
<1>6. k.resource = "secrets" /\ k.names = kept /\ k.verbs = {"patch"} BY DEF Rule
<1> HIDE DEF kept, k
<1>7. k \in intersectNodePushRules(rules)
  BY <1>4, <1>5, <1>6 DEF intersectNodePushRules, nodePushAllowedRules
<1> QED BY <1>1, <1>5, <1>6, <1>7 DEF Covers

-----------------------------------------------------------------------------
(* The KairosConfig controller                                             *)

\* Everything the invariant says beside the types.
Rest ==
  /\ FinalizerOutlivesSecret /\ PushingNodeMayPush
  /\ PushInv /\ OrderInv /\ NameInv /\ DataInv /\ AgainInv

\* The deferred patch gives every field the value of the pass or of the object.
LEMMA PatchedFields ==
  ASSUME TypeOK
  PROVE  /\ Patched \in Statuses
         /\ Patched.name = IF pass.st.name # pass.base.name THEN pass.st.name ELSE status.name
         /\ Patched.token = IF pass.st.token # pass.base.token THEN pass.st.token ELSE status.token
         /\ Patched.created = IF pass.st.created # pass.base.created THEN pass.st.created ELSE status.created
<1> DEFINE F == {"name", "token", "ready", "created", "failed", "cond"}
<1>1. status \in Statuses /\ pass.st \in Statuses /\ pass.base \in Statuses
  BY DEF TypeOK, ConfigTypeOK, Passes
<1>2. DOMAIN status = F BY <1>1 DEF Statuses
<1>3. /\ Patched = [f \in F |-> IF pass.st[f] # pass.base[f] THEN pass.st[f] ELSE status[f]]
  BY <1>2 DEF Patched
<1>4. Patched.name = IF pass.st.name # pass.base.name THEN pass.st.name ELSE status.name BY <1>3
<1>5. Patched.token = IF pass.st.token # pass.base.token THEN pass.st.token ELSE status.token
  BY <1>3
<1>6. Patched.created = IF pass.st.created # pass.base.created THEN pass.st.created ELSE status.created
  BY <1>3
<1>7. Patched.ready = IF pass.st.ready # pass.base.ready THEN pass.st.ready ELSE status.ready
  BY <1>3
<1>8. Patched.failed = IF pass.st.failed # pass.base.failed THEN pass.st.failed ELSE status.failed
  BY <1>3
<1>9. Patched.cond = IF pass.st.cond # pass.base.cond THEN pass.st.cond ELSE status.cond BY <1>3
<1>10. Patched = [name |-> Patched.name, token |-> Patched.token, ready |-> Patched.ready,
                  created |-> Patched.created, failed |-> Patched.failed, cond |-> Patched.cond]
  BY <1>3
<1> HIDE DEF F
<1>11. Patched \in Statuses BY <1>1, <1>4, <1>5, <1>6, <1>7, <1>8, <1>9, <1>10 DEF Statuses
<1> QED BY <1>4, <1>5, <1>6, <1>11

\* The KairosConfig and its infrastructure kind do not change.
LEMMA SpecStays ==
  ASSUME spec' = spec
  PROVE  /\ Needs' = Needs /\ KubeadmWorker' = KubeadmWorker /\ ControlPlaneRole' = ControlPlaneRole
         /\ OwnsProviderID' = OwnsProviderID
BY DEF Needs, ControlPlaneRole, KubeadmWorker, Pushes, isKubevirtMachine,
    supportsManagementEndpoint,
       OwnsProviderID, isMetal3Machine, isFleetMachine

\* A providerID that is known stays known.
LEMMA ProviderIDStays ==
  ASSUME spec' = spec, machine.providerID => machine'.providerID, infra.providerID => infra'.providerID,
         currentProviderID
  PROVE  currentProviderID'
BY SpecStays DEF currentProviderID, getProviderID

\* A step beside the passes leaves the names, the data and the Role alone.
LEMMA SideStep ==
  ASSUME ConfigInv, TypeOK',
         UNCHANGED <<spec, status, seen, secrets, object, pass, vm, nodeRole, infra, minted>>,
         machine'.dsn = machine.dsn, machine'.nodeRef = machine.nodeRef,
         machine'.providerID = machine.providerID, budget'.overlaps = budget.overlaps,
         tokens' \subseteq tokens, ClusterReady => ClusterReady'
  PROVE  Rest'
<1> USE SpecStays DEF ConfigInv
<1>1. FinalizerOutlivesSecret' BY DEF FinalizerOutlivesSecret
<1>2. PushingNodeMayPush' /\ PushInv' BY DEF PushingNodeMayPush, PushInv
<1>3. OrderInv' BY DEF OrderInv
<1>4. NameInv' BY DEF NameInv
<1>5. DataInv' BY DEF DataInv
<1>6. AgainInv' BY ProviderIDStays DEF AgainInv, renderCarriesProviderID
<1> QED BY <1>1, <1>2, <1>3, <1>4, <1>5, <1>6 DEF Rest

\* Secrets that only go.
OnlyGo == \A n \in Names : secrets'[n] = secrets[n] \/ secrets'[n] = Absent

\* What was stored without a token, and what a status says of it.
Untokened(n) == KubeadmWorker /\ secrets[n].mine /\ secrets[n].token = None
Unclaimed(s) == s.token = None /\ ~s.created

\* A pass that ends where it started is in order: it keeps the name it read.
LEMMA FinishInv ==
  ASSUME ConfigInv, NEW s \in Statuses, NEW m \in Requeues \union {"none"},
         StartsPass, object # "gone", Finish(s, m),
         s.name = seen.name, \A n \in Names : Untokened(n) => Unclaimed(s),
         secrets' \in [Names -> Renders], OnlyGo, KubeadmTypeOK', minted' = minted,
         userdata' \in {"absent", "raw", "clean"},
         UNCHANGED <<spec, cluster, deps, machine, infra, vm, age, status, seen, object, timers,
                     budget, roleVars>>
  PROVE  ConfigInv'
<1> USE SpecStays DEF ConfigInv
<1>0. /\ pass.pc = "idle" /\ pass'.pc = "patch" /\ pass'.base = seen /\ pass'.st = s
      /\ pass' \in Passes /\ queued' = FALSE
      /\ status.name \in Names \union {NoName} /\ seen.name \in Names \union {NoName}
      /\ machine.dsn \in Names \union {NoName} /\ minted \in 0..MaxTokens
  BY DEF TypeOK, ConfigTypeOK, WorldTypeOK, KubeadmTypeOK, Machines, Passes, Statuses,
      StartsPass, Finish
<1>7. WorldTypeOK' BY DEF TypeOK, WorldTypeOK
<1>8. ConfigTypeOK' BY <1>0 DEF TypeOK, ConfigTypeOK
<1>9. RoleTypeOK' BY DEF TypeOK, RoleTypeOK, roleVars
<1> USE DEF roleVars
<1>1. FinalizerOutlivesSecret' BY <1>0 DEF FinalizerOutlivesSecret, OnlyGo
<1>2. PushingNodeMayPush' /\ PushInv' BY <1>0 DEF PushingNodeMayPush, PushInv, OnlyGo, Absent
<1>3. OrderInv' BY <1>0 DEF OrderInv
<1>4. NameInv'
  <2>1. \A n \in {machine.dsn, status.name, seen.name} \ {NoName} : secrets'[n] = Absent \/ secrets'[n].mine
    BY <1>0 DEF NameInv, OnlyGo
  <2>2. secrets'["old"] # Absent => secrets["old"] # Absent BY DEF OnlyGo, Names
  <2> QED BY <1>0, <2>1, <2>2 DEF NameInv
<1>5. DataInv'
  <2>1. \A n \in Names : secrets'[n].token <= minted' /\ (secrets'[n].mine => Needs' \subseteq secrets'[n].has)
    BY <1>0 DEF DataInv, OnlyGo, Absent, None
  <2>2. ASSUME KubeadmWorker, NEW n \in Names, secrets'[n].mine, secrets'[n].token = None
        PROVE  /\ machine.dsn = NoName /\ ~infra.made
               /\ \A r \in {status, seen, s} : r.name = n /\ r.token = None /\ ~r.created
    <3>1. Untokened(n) BY <2>2 DEF OnlyGo, Absent, Untokened
    <3> QED BY <3>1 DEF DataInv, Untokened, Unclaimed
  <2> QED BY <1>0, <2>1, <2>2 DEF DataInv
<1>6. AgainInv' BY <1>0 DEF AgainInv
<1> QED BY <1>1, <1>2, <1>3, <1>4, <1>5, <1>6, <1>7, <1>8, <1>9 DEF TypeOK

\* Why the data on record is rendered again.
Reason(s, toks) ==
  \/ currentProviderID /\ ~renderCarriesProviderID(secrets[s.name])
  \/ KubeadmWorker /\ s.token = None /\ secrets[s.name].token = None
  \/ KubeadmWorker /\ s.token # None /\ s.token \notin toks

\* A pass that is about to render the data on record again has a reason, and the Machine
\* names that data if it names any.
LEMMA ToRenderInv ==
  ASSUME ConfigInv, NEW s \in Statuses, StartsPass, object # "gone", ToRender(s), ClusterReady,
         HasData, s.name = seen.name, \A n \in Names : Untokened(n) => Unclaimed(s),
         secrets[s.name].mine => Reason(s, tokens'), KubeadmTypeOK',
         UNCHANGED <<spec, cluster, deps, machine, infra, vm, age, status, seen, secrets, userdata,
                     object, timers, budget, minted, roleVars>>
  PROVE  ConfigInv'
<1> USE SpecStays DEF ConfigInv
<1>0. /\ pass.pc = "idle" /\ pass'.pc = "render" /\ pass'.base = seen /\ pass'.st = s
      /\ pass'.dsn = machine.dsn /\ pass' \in Passes /\ queued' = FALSE
      /\ status.name \in Names \union {NoName} /\ seen.name \in Names
      /\ machine.dsn \in Names \union {NoName}
  BY DEF TypeOK, ConfigTypeOK, WorldTypeOK, Machines, Passes, Statuses, StartsPass, ToRender,
      HasData
<1>7. WorldTypeOK' BY DEF TypeOK, WorldTypeOK
<1>8. ConfigTypeOK' BY <1>0 DEF TypeOK, ConfigTypeOK
<1>9. RoleTypeOK' BY DEF TypeOK, RoleTypeOK, roleVars
<1> USE DEF roleVars
<1>1. FinalizerOutlivesSecret' BY <1>0 DEF FinalizerOutlivesSecret
<1>2. PushingNodeMayPush' /\ PushInv' BY <1>0 DEF PushingNodeMayPush, PushInv
<1>3. OrderInv' BY <1>0 DEF OrderInv, ClusterReady
<1>4. NameInv' BY <1>0 DEF NameInv, HasData, Misaligned
<1>5. DataInv'
  <2>2. ASSUME KubeadmWorker, NEW n \in Names, secrets[n].mine, secrets[n].token = None
        PROVE  /\ machine.dsn = NoName /\ ~infra.made
               /\ \A r \in {status, seen, s} : r.name = n /\ r.token = None /\ ~r.created
    <3>1. Untokened(n) BY <2>2 DEF Untokened
    <3> QED BY <3>1 DEF DataInv, Untokened, Unclaimed
  <2> QED BY <1>0, <2>2 DEF DataInv
<1>6. AgainInv' BY <1>0, ProviderIDStays DEF AgainInv, Reason, renderCarriesProviderID
<1> QED BY <1>1, <1>2, <1>3, <1>4, <1>5, <1>6, <1>7, <1>8, <1>9 DEF TypeOK

\* A pass that gives up while it renders or writes keeps what it would have recorded.
LEMMA ConcludeInv ==
  ASSUME ConfigInv, NEW s \in Statuses, NEW m \in Requeues \union {"none"},
         pass.pc \in {"render", "write"}, Conclude(s, m),
         s.name = pass.st.name, s.token = pass.st.token, s.created = pass.st.created,
         minted <= minted', nodeRole' = nodeRole \/ PushGrants \subseteq Permits(nodeRole'.rules),
         KubeadmTypeOK', RoleTypeOK',
         UNCHANGED <<spec, cluster, deps, machine, infra, vm, age, status, seen, secrets, userdata,
                     object, queued, timers, budget>>
  PROVE  ConfigInv'
<1> USE SpecStays DEF ConfigInv
<1>a. /\ pass'.pc = "patch" /\ pass'.base = pass.base /\ pass'.st = s /\ pass' \in Passes
  BY DEF TypeOK, ConfigTypeOK, Conclude, Passes
<1>b. minted \in Nat /\ minted' \in Nat BY KubeadmAssumption DEF TypeOK, KubeadmTypeOK
<1>c. \A n \in Names : secrets[n].token \in Nat
  BY KubeadmAssumption DEF TypeOK, ConfigTypeOK, Renders
<1>0. /\ pass'.pc = "patch" /\ pass'.base = pass.base /\ pass'.st = s /\ pass' \in Passes
      /\ minted \in Nat /\ minted' \in Nat /\ \A n \in Names : secrets[n].token \in Nat
  BY <1>a, <1>b, <1>c
<1>7. WorldTypeOK' BY DEF TypeOK, WorldTypeOK
<1>8. ConfigTypeOK' BY <1>0 DEF TypeOK, ConfigTypeOK
<1>1. FinalizerOutlivesSecret' BY <1>0 DEF FinalizerOutlivesSecret
<1>2. PushingNodeMayPush' /\ PushInv' BY <1>0 DEF PushingNodeMayPush, PushInv
<1>3. OrderInv' BY <1>0 DEF OrderInv
<1>4. NameInv' BY <1>0 DEF NameInv
<1>5. DataInv' BY <1>0 DEF DataInv
<1>6. AgainInv' BY <1>0 DEF AgainInv
<1> QED BY <1>1, <1>2, <1>3, <1>4, <1>5, <1>6, <1>7, <1>8 DEF TypeOK

\* A token that was lost is on no record, and its data with no Machine.
LEMMA UntokenedRecord ==
  ASSUME ConfigInv, NEW n \in Names, Untokened(n)
  PROVE  Unclaimed(seen) /\ seen.name = n /\ machine.dsn = NoName /\ ~machine.nodeRef
BY DEF ConfigInv, DataInv, OrderInv, Untokened, Unclaimed

\* The statuses a pass may leave.
LEMMA StatusTypes ==
  ASSUME NEW s \in Statuses
  PROVE  /\ \A w \in Waits : [s EXCEPT !.cond = w] \in Statuses
         /\ \A t \in 0..MaxTokens : [s EXCEPT !.token = t] \in Statuses
         /\ \A n \in Names \union {NoName} : [s EXCEPT !.name = n] \in Statuses
         /\ Failed(s) \in Statuses /\ Failed(s).name = s.name /\ Failed(s).token = s.token
         /\ Failed(s).created = s.created
         /\ AfterData(s) \in Statuses /\ AfterData(s).name = s.name /\ AfterData(s).token = s.token
         /\ AfterDataMore(s) \in Requeues \union {"none"}
         /\ MarkPushWait(s) \in Statuses /\ MarkPushWait(s).name = s.name
         /\ MarkPushWait(s).token = s.token /\ MarkPushWait(s).created = s.created
<1>1. \A w \in Waits : [s EXCEPT !.cond = w] \in Statuses BY DEF Statuses
<1>2. \A t \in 0..MaxTokens : [s EXCEPT !.token = t] \in Statuses BY DEF Statuses
<1>3. \A n \in Names \union {NoName} : [s EXCEPT !.name = n] \in Statuses BY DEF Statuses
<1>4. /\ Failed(s) \in Statuses /\ Failed(s).name = s.name /\ Failed(s).token = s.token
      /\ Failed(s).created = s.created
  BY DEF Failed, Statuses, Waits
<1>5. Done(s) \in Statuses /\ Done(s).name = s.name /\ Done(s).token = s.token BY DEF Done, Statuses
<1>6. \A r \in Statuses : Succeeded(r) \in Statuses /\ Succeeded(r).name = r.name /\ Succeeded(r).token = r.token
  BY DEF Succeeded, Statuses, Waits
<1>7. AfterData(s) \in Statuses /\ AfterData(s).name = s.name /\ AfterData(s).token = s.token
  BY <1>5, <1>6 DEF AfterData
<1>8. AfterDataMore(s) \in Requeues \union {"none"}
  BY DEF AfterDataMore, kubeadmTokenRecheck, Requeues
<1>9. /\ MarkPushWait(s) \in Statuses /\ MarkPushWait(s).name = s.name
      /\ MarkPushWait(s).token = s.token /\ MarkPushWait(s).created = s.created
  BY DEF MarkPushWait, Statuses, Waits
<1> QED BY <1>1, <1>2, <1>3, <1>4, <1>7, <1>8, <1>9

\* A pass that starts reads a status, and ends in an object that is there.
LEMMA StartFacts ==
  ASSUME ConfigInv
  PROVE  /\ seen \in Statuses /\ pass.st \in Statuses /\ secrets \in [Names -> Renders]
         /\ userdata \in {"absent", "raw", "clean"}
         /\ joinVars' = joinVars => KubeadmTypeOK' /\ minted' = minted
BY DEF ConfigInv, TypeOK, ConfigTypeOK, WorldTypeOK, Passes, KubeadmTypeOK, joinVars

\* Paused, not owned, or waiting: a pass that changes nothing but a condition.
LEMMA SkipPassInv == ASSUME ConfigInv, SkipPass PROVE ConfigInv'
BY FinishInv, StartFacts, UntokenedRecord DEF SkipPass, StartsPass, OnlyGo

\* A wait for the Cluster changes the condition only.
LEMMA WaitForInfrastructureInv == ASSUME ConfigInv, WaitForInfrastructure PROVE ConfigInv'
<1> DEFINE s == [seen EXCEPT !.cond = "infrastructure"]
<1>1. /\ s \in Statuses /\ s.name = seen.name /\ s.token = seen.token /\ s.created = seen.created
  BY StartFacts DEF Statuses, Waits
<1>2. StartsPass /\ object # "gone" /\ Finish(s, "none") BY DEF WaitForInfrastructure, Reconciles
<1> HIDE DEF s
<1>3. \A n \in Names : Untokened(n) => Unclaimed(s) BY <1>1, UntokenedRecord DEF Unclaimed
<1> QED BY <1>1, <1>2, <1>3, FinishInv, StartFacts DEF WaitForInfrastructure, OnlyGo

\* A wait for the providerID changes nothing on record.
LEMMA WaitForProviderIDInv == ASSUME ConfigInv, WaitForProviderID PROVE ConfigInv'
<1>1. StartsPass /\ object # "gone" /\ Finish(seen, "soon") BY DEF WaitForProviderID, Reconciles
<1> QED BY <1>1, FinishInv, StartFacts, UntokenedRecord DEF WaitForProviderID, OnlyGo, Requeues

\* A pass past the cap changes the condition only.
LEMMA StopAtCapInv == ASSUME ConfigInv, StopAtCap PROVE ConfigInv'
<1> DEFINE s == [seen EXCEPT !.cond = "cap"]
<1>1. /\ s \in Statuses /\ s.name = seen.name /\ s.token = seen.token /\ s.created = seen.created
  BY StartFacts DEF Statuses, Waits
<1>2. StartsPass /\ object # "gone" /\ Finish(s, "recheck")
  BY DEF StopAtCap, TokenPass, ReconcilesData, Reconciles
<1> HIDE DEF s
<1>3. \A n \in Names : Untokened(n) => Unclaimed(s) BY <1>1, UntokenedRecord DEF Unclaimed
<1> QED BY <1>1, <1>2, <1>3, FinishInv, StartFacts DEF StopAtCap, OnlyGo, Requeues

\* The data that is there is rendered again, for a reason, or confirmed.
LEMMA SettleInv ==
  ASSUME ConfigInv, NEW s \in Statuses, ReconcilesData, HasData, Settle(s, LacksProviderID),
         s.name = seen.name, \A n \in Names : ~Untokened(n), KubeadmTypeOK',
         UNCHANGED <<spec, cluster, deps, machine, infra, vm, age, status, seen, secrets, object,
                     timers, budget, minted, roleVars>>
  PROVE  ConfigInv'
<1>1. StartsPass /\ object # "gone" /\ ClusterReady BY DEF ReconcilesData, Reconciles
<1>2. CASE LacksProviderID
  <2>1. ToRender(s) /\ userdata' = userdata BY <1>2 DEF Settle
  <2>2. Reason(s, tokens') BY <1>2 DEF LacksProviderID, Reason
  <2> QED BY <1>1, <2>1, <2>2, ToRenderInv
<1>3. CASE ~LacksProviderID
  <2>1. Finish(AfterData(s), AfterDataMore(s)) /\ sanitizeCapkUserdataSecret BY <1>3 DEF Settle
  <2>2. userdata' \in {"absent", "raw", "clean"} BY <2>1, StartFacts DEF sanitizeCapkUserdataSecret
  <2> QED BY <1>1, <2>1, <2>2, StatusTypes, StartFacts, FinishInv DEF OnlyGo
<1> QED BY <1>2, <1>3

\* Data on record is confirmed, or rendered again for a providerID.
LEMMA KeepDataInv == ASSUME ConfigInv, KeepData PROVE ConfigInv'
<1>1. \A n \in Names : ~Untokened(n)
  BY UntokenedRecord DEF KeepData, Untokened
<1> QED BY <1>1, SettleInv, StartFacts DEF KeepData, joinVars

\* The expiry that is moved stays one.
LEMMA ExtendTypes ==
  ASSUME KubeadmTypeOK, NEW t \in tokens, extendBootstrapToken(t)
  PROVE  left' \in [TokenIDs -> 0..TTL]
<1>1. t \in TokenIDs BY KubeadmAssumption DEF KubeadmTypeOK, TokenIDs
<1>2. left \in [TokenIDs -> 0..TTL] BY DEF KubeadmTypeOK
<1>3. left' = [left EXCEPT ![t] = left[t]] \/ left' = [left EXCEPT ![t] = TTL]
  BY DEF extendBootstrapToken
<1>4. TTL \in 0..TTL /\ left[t] \in 0..TTL BY <1>1, <1>2 DEF TTL
<1> QED BY <1>2, <1>3, <1>4

\* A token that is revoked or extended leaves the tokens of their type.
LEMMA TokenTypes ==
  ASSUME ConfigInv, NEW t, UNCHANGED <<cp, reachable>>
  PROVE  /\ RevokeWorkerToken(t) => KubeadmTypeOK' /\ minted' = minted
         /\ ExtendWorkerToken(t) => KubeadmTypeOK' /\ minted' = minted
         /\ UNCHANGED <<tokens, left, minted>> => KubeadmTypeOK' /\ minted' = minted
<1>1. RevokeWorkerToken(t) => KubeadmTypeOK' /\ minted' = minted
  BY DEF RevokeWorkerToken, ConfigInv, TypeOK, KubeadmTypeOK
<1>2. ASSUME ExtendWorkerToken(t) PROVE KubeadmTypeOK' /\ minted' = minted
  <2>2. left' \in [TokenIDs -> 0..TTL]
    BY <1>2, ExtendTypes DEF ExtendWorkerToken, ConfigInv, TypeOK
  <2> QED BY <1>2, <2>2 DEF ExtendWorkerToken, ConfigInv, TypeOK, KubeadmTypeOK
<1>3. UNCHANGED <<tokens, left, minted>> => KubeadmTypeOK' /\ minted' = minted
  BY DEF ConfigInv, TypeOK, KubeadmTypeOK
<1> QED BY <1>1, <1>2, <1>3

\* A joined node's token is revoked and forgotten; data without one is of no Machine.
LEMMA RevokeJoinedInv == ASSUME ConfigInv, RevokeJoined PROVE ConfigInv'
<1>0. StartsPass /\ object # "gone" /\ ReconcilesData /\ HasData
  BY DEF RevokeJoined, TokenPass, ReconcilesData, Reconciles
<1>1. \A n \in Names : ~Untokened(n) BY UntokenedRecord DEF RevokeJoined
<1>2. CASE Finish(seen, "soon") /\ UNCHANGED <<userdata, tokens, left, minted>>
  <2>1. KubeadmTypeOK' /\ minted' = minted BY <1>2, TokenTypes DEF RevokeJoined
  <2> QED BY <1>0, <1>1, <1>2, <2>1, FinishInv, StartFacts DEF RevokeJoined, OnlyGo, Requeues
<1>3. CASE /\ Settle([seen EXCEPT !.token = None], LacksProviderID)
           /\ RevokeWorkerToken(seen.token) \/ UNCHANGED <<tokens, left, minted>>
  <2> DEFINE s == [seen EXCEPT !.token = None]
  <2>1. s \in Statuses /\ s.name = seen.name /\ s.token = None
    BY StartFacts, KubeadmAssumption DEF Statuses, None
  <2>2. KubeadmTypeOK' /\ minted' = minted BY <1>3, TokenTypes DEF RevokeJoined
  <2>3. Settle(s, LacksProviderID) BY <1>3
  <2> HIDE DEF s
  <2> QED BY <1>0, <1>1, <2>1, <2>2, <2>3, SettleInv DEF RevokeJoined
<1> QED BY <1>2, <1>3 DEF RevokeJoined

\* A token is extended, taken from the Secret, or rendered again because it is gone.
LEMMA ExtendUnjoinedInv == ASSUME ConfigInv, ExtendUnjoined PROVE ConfigInv'
<1> DEFINE s == bootstrapTokenIDFromBootstrapData(seen)
<1>0. /\ StartsPass /\ object # "gone" /\ ReconcilesData /\ HasData /\ ClusterReady /\ KubeadmWorker
      /\ seen.name \in Names
  BY StartFacts DEF ExtendUnjoined, TokenPass, ReconcilesData, Reconciles, HasData, Statuses
<1>1. /\ s \in Statuses /\ s.name = seen.name /\ s.created = seen.created
      /\ s.token = seen.token \/ (seen.token = None /\ s.token = secrets[seen.name].token)
      /\ s.token = None /\ secrets[seen.name].mine => secrets[seen.name].token = None
  <2>1. secrets[seen.name].token \in 0..MaxTokens BY <1>0, StartFacts DEF Renders
  <2> QED BY <2>1, StartFacts DEF bootstrapTokenIDFromBootstrapData, Statuses
<1> HIDE DEF s
<1>2. \A n \in Names : Untokened(n) => Unclaimed(s)
  BY <1>1, UntokenedRecord DEF Unclaimed, Untokened
<1>3. s.token # None => \A n \in Names : ~Untokened(n) BY <1>2 DEF Unclaimed
<1>4. CASE s.token = None /\ ToRender(s) /\ UNCHANGED <<userdata, tokens, left, minted>>
  <2>1. KubeadmTypeOK' /\ minted' = minted BY <1>4, TokenTypes DEF ExtendUnjoined
  <2>2. secrets[s.name].mine => Reason(s, tokens') BY <1>0, <1>1, <1>4 DEF Reason
  <2> QED BY <1>0, <1>1, <1>2, <1>4, <2>1, <2>2, ToRenderInv DEF ExtendUnjoined
<1>5. CASE Finish(s, "soon") /\ UNCHANGED <<userdata, tokens, left, minted>>
  <2>1. KubeadmTypeOK' /\ minted' = minted BY <1>5, TokenTypes DEF ExtendUnjoined
  <2> QED BY <1>0, <1>1, <1>2, <1>5, <2>1, FinishInv, StartFacts DEF ExtendUnjoined, OnlyGo,
      Requeues
<1>6. CASE Finish(Failed(s), "none") /\ UNCHANGED <<userdata, tokens, left, minted>>
  <2>1. KubeadmTypeOK' /\ minted' = minted BY <1>6, TokenTypes DEF ExtendUnjoined
  <2>2. \A n \in Names : Untokened(n) => Unclaimed(Failed(s))
    BY <1>1, <1>2, StatusTypes DEF Unclaimed
  <2> QED BY <1>0, <1>1, <1>6, <2>1, <2>2, StatusTypes, FinishInv, StartFacts DEF ExtendUnjoined,
      OnlyGo
<1>7. CASE /\ s.token # None /\ s.token \notin tokens
           /\ ToRender(s) /\ UNCHANGED <<userdata, tokens, left, minted>>
  <2>1. KubeadmTypeOK' /\ minted' = minted BY <1>7, TokenTypes DEF ExtendUnjoined
  <2>2. Reason(s, tokens') BY <1>0, <1>7 DEF Reason
  <2> QED BY <1>0, <1>1, <1>2, <1>7, <2>1, <2>2, ToRenderInv DEF ExtendUnjoined
<1>8. CASE s.token # None /\ ExtendWorkerToken(s.token) /\ Settle(s, LacksProviderID)
  <2>1. KubeadmTypeOK' /\ minted' = minted BY <1>8, TokenTypes DEF ExtendUnjoined
  <2> QED BY <1>0, <1>1, <1>3, <1>8, <2>1, SettleInv DEF ExtendUnjoined
<1> QED BY <1>4, <1>5, <1>6, <1>7, <1>8 DEF ExtendUnjoined, s

\* A fresh render: no name, and the Secret that goes is not the one the Machine names.
LEMMA NoDataInv == ASSUME ConfigInv, NoData PROVE ConfigInv'
<1> USE SpecStays DEF ConfigInv
<1> DEFINE s == [seen EXCEPT !.name = NoName]
<1>0. /\ pass.pc = "idle" /\ object # "gone" /\ queued' = FALSE /\ ClusterReady /\ ~HasData
      /\ ToRender(s) /\ secrets' = AlignedSecrets
      /\ UNCHANGED <<spec, cluster, deps, machine, infra, vm, age, status, seen, userdata, object,
                     timers, budget, joinVars, roleVars>>
  BY DEF NoData, ReconcilesData, Reconciles, StartsPass
<1>a. s \in Statuses /\ s.name = NoName /\ s.token = seen.token /\ s.created = seen.created
  BY StartFacts DEF Statuses
<1> HIDE DEF s
<1>c. /\ status.name \in Names \union {NoName} /\ seen.name \in Names \union {NoName}
      /\ machine.dsn \in Names \union {NoName} /\ minted \in 0..MaxTokens
  BY DEF TypeOK, ConfigTypeOK, WorldTypeOK, KubeadmTypeOK, Machines, Statuses
<1>b. /\ pass'.pc = "render" /\ pass'.base = seen /\ pass'.st = s /\ pass'.dsn = machine.dsn
      /\ pass' \in Passes
  BY <1>0, <1>a, <1>c DEF ToRender, TypeOK, ConfigTypeOK, Passes
<1>d. Absent \in Renders BY KubeadmAssumption DEF Absent, Renders, None
<1>e. secrets' \in [Names -> Renders] /\ OnlyGo
  BY <1>0, <1>c, <1>d, StartFacts DEF AlignedSecrets, Misaligned, OnlyGo
<1>7. WorldTypeOK' BY <1>0 DEF TypeOK, WorldTypeOK
<1>8. ConfigTypeOK' BY <1>0, <1>b, <1>e DEF TypeOK, ConfigTypeOK
<1>9. RoleTypeOK' /\ KubeadmTypeOK'
  BY <1>0 DEF TypeOK, RoleTypeOK, KubeadmTypeOK, roleVars, joinVars
<1> USE DEF roleVars, joinVars
<1>1. FinalizerOutlivesSecret' BY <1>0 DEF FinalizerOutlivesSecret
<1>2. PushingNodeMayPush' /\ PushInv' BY <1>0, <1>b, <1>e DEF PushingNodeMayPush, PushInv,
    OnlyGo, Absent
<1>3. OrderInv' BY <1>0, <1>b DEF OrderInv, ClusterReady
<1>4. NameInv'
  <2>1. machine.dsn = NoName /\ seen.name # NoName => secrets'[seen.name] = Absent
    BY <1>0, <1>c, <1>e DEF HasData, Misaligned, OnlyGo
  <2>2. \A n \in {machine.dsn, status.name, seen.name} \ {NoName} : secrets'[n] = Absent \/ secrets'[n].mine
    BY <1>c, <1>e DEF NameInv, OnlyGo
  <2>3. NoName # "old" BY DEF NoName
  <2> QED BY <1>0, <1>a, <1>b, <2>1, <2>2, <2>3 DEF NameInv
<1>5. DataInv'
  <2>1. \A n \in Names : secrets'[n].token <= minted' /\ (secrets'[n].mine => Needs' \subseteq secrets'[n].has)
    BY <1>0, <1>c, <1>e DEF DataInv, OnlyGo, Absent, None
  <2>2. ASSUME KubeadmWorker, NEW n \in Names, secrets'[n].mine, secrets'[n].token = None PROVE FALSE
    <3>1. Untokened(n) /\ secrets[n] # Absent BY <2>2, <1>e DEF OnlyGo, Absent, Untokened
    <3> QED BY <3>1, <1>0, UntokenedRecord DEF HasData, Misaligned, Names, NoName
  <2> QED BY <1>0, <1>b, <2>1, <2>2 DEF DataInv
<1>6. AgainInv' BY <1>a, <1>b DEF AgainInv
<1> QED BY <1>1, <1>2, <1>3, <1>4, <1>5, <1>6, <1>7, <1>8, <1>9 DEF TypeOK

\* A render that is about to be stored has what the node needs, and is not what is stored.
LEMMA ToWriteInv ==
  ASSUME ConfigInv, pass.pc = "render", NEW t \in 0..MaxTokens, ToWrite(Gathered, t),
         Needs \subseteq Gathered, KubeadmWorker => t # None, t <= minted', minted <= minted',
         nodeRole' = nodeRole \/ PushGrants \subseteq Permits(nodeRole'.rules),
         "push" \in Gathered => PushGrants \subseteq Permits(nodeRole'.rules),
         pass.st.name # NoName /\ secrets[pass.st.name].mine
           => secrets[pass.st.name].has # Gathered \/ secrets[pass.st.name].token # t,
         KubeadmTypeOK', RoleTypeOK',
         UNCHANGED <<spec, cluster, deps, machine, infra, vm, age, status, seen, secrets, userdata,
                     object, queued, timers, budget>>
  PROVE  ConfigInv'
<1> USE SpecStays DEF ConfigInv
<1>a. Gathered \subseteq Ingredients
  BY DEF Gathered, TypeOK, WorldTypeOK, Published, Ingredients
<1>b. /\ pass'.pc = "write" /\ pass'.base = pass.base /\ pass'.st = pass.st /\ pass'.has = Gathered
      /\ pass'.token = t /\ pass'.dsn = pass.dsn /\ pass' \in Passes
  BY <1>a DEF ToWrite, TypeOK, ConfigTypeOK, Passes
<1>c. minted \in Nat /\ minted' \in Nat BY KubeadmAssumption DEF TypeOK, KubeadmTypeOK
<1>d. \A n \in Names : secrets[n].token \in Nat
  BY KubeadmAssumption DEF TypeOK, ConfigTypeOK, Renders
<1>7. WorldTypeOK' BY DEF TypeOK, WorldTypeOK
<1>8. ConfigTypeOK' BY <1>b DEF TypeOK, ConfigTypeOK
<1>1. FinalizerOutlivesSecret' BY DEF FinalizerOutlivesSecret
<1>2. PushingNodeMayPush' /\ PushInv' BY <1>b DEF PushingNodeMayPush, PushInv
<1>3. OrderInv' BY <1>b DEF OrderInv
<1>4. NameInv' BY <1>b DEF NameInv
<1>5. DataInv' BY <1>b, <1>c, <1>d DEF DataInv
<1>6. AgainInv' BY <1>b DEF AgainInv
<1> QED BY <1>1, <1>2, <1>3, <1>4, <1>5, <1>6, <1>7, <1>8 DEF TypeOK

\* The Role of a render lets the node push.
LEMMA ResolvedRolePermits ==
  ASSUME ResolveRole(spec.dist)
  PROVE  PushGrants \subseteq Permits(nodeRole'.rules) /\ nodeRole' \in Roles
<1>1. nodeRole'.rules = ResolvedRules(spec.dist) /\ nodeRole'.owner = "cluster" BY DEF ResolveRole
<1>2. PushRule \in nodeRole'.rules BY <1>1 DEF ResolvedRules
<1>3. ASSUME NEW g \in PushGrants PROVE g \in Permits(nodeRole'.rules)
  <2>1. g \in {"secrets", "vmi"} \X SecretNames \X Verbs BY DEF PushGrants, SecretNames, Verbs
  <2>2. Covers(PushRule, g[1], g[2], g[3]) BY DEF PushGrants, Covers, PushRule, Rule
  <2> QED BY <1>2, <2>1, <2>2 DEF Permits
<1>4. PushRule \in Rules /\ VMIRule \in Rules BY DEF PushRule, VMIRule, Rule, Rules, SecretNames,
    Verbs
<1>5. ResolvedRules(spec.dist) \in SUBSET Rules BY <1>4 DEF ResolvedRules
<1> QED BY <1>1, <1>3, <1>5 DEF ResolveRole, Roles, Owners

\* What a render of a control plane finds when nothing is missing.
LEMMA RenderControlPlaneInv == ASSUME ConfigInv, RenderControlPlane PROVE ConfigInv'
<1>0. /\ pass.pc = "render" /\ ControlPlaneRole /\ ~KubeadmWorker /\ pass.st \in Statuses
      /\ KubeadmTypeOK' /\ minted' = minted /\ minted \in Nat /\ migrator' = migrator
      /\ UNCHANGED <<spec, cluster, deps, machine, infra, vm, age, status, seen, secrets, userdata,
                     object, queued, timers, budget>>
  <2>1. minted \in Nat BY KubeadmAssumption DEF ConfigInv, TypeOK, KubeadmTypeOK
  <2> QED BY <2>1, StartFacts DEF RenderControlPlane, ControlPlaneRole, KubeadmWorker
<1>1. nodeRole' \in Roles => RoleTypeOK' BY <1>0 DEF ConfigInv, TypeOK, RoleTypeOK
<1>2. nodeRole' = nodeRole => RoleTypeOK' BY <1>1 DEF ConfigInv, TypeOK, RoleTypeOK
<1>3. CASE UNCHANGED nodeRole /\ \/ Conclude(Failed(pass.st), "none")
                                 \/ Conclude(MarkPushWait(pass.st), "soon")
  <2>1. /\ RoleTypeOK' /\ minted <= minted' BY <1>0, <1>2, <1>3
  <2>2. CASE Conclude(Failed(pass.st), "none") BY <1>0, <1>3, <2>1, <2>2, StatusTypes, ConcludeInv
  <2>3. CASE Conclude(MarkPushWait(pass.st), "soon")
    <3>1. /\ MarkPushWait(pass.st) \in Statuses /\ MarkPushWait(pass.st).name = pass.st.name
          /\ MarkPushWait(pass.st).token = pass.st.token /\ MarkPushWait(pass.st).created = pass.st.created
      BY <1>0, StatusTypes
    <3> QED BY <1>0, <1>3, <2>1, <2>3, <3>1, ConcludeInv DEF Requeues
  <2> QED BY <1>3, <2>2, <2>3
<1>4. CASE /\ resolveUserPassword /\ (Pushes => requireOwnedStaging /\ ResolvableRole)
           /\ IF Pushes THEN ResolveRole(spec.dist) ELSE UNCHANGED nodeRole
           /\ IF getControlPlaneLBEndpoint /\ resolveControlPlaneJoinToken
                THEN ToWrite(Gathered, None)
                ELSE Conclude(pass.st, "soon")
  <2>1. RoleTypeOK' BY <1>1, <1>2, <1>4, ResolvedRolePermits
  <2>2. nodeRole' = nodeRole \/ PushGrants \subseteq Permits(nodeRole'.rules)
    BY <1>4, ResolvedRolePermits
  <2>3. CASE Conclude(pass.st, "soon") BY <1>0, <2>1, <2>2, <2>3, ConcludeInv DEF Requeues
  <2>4. CASE getControlPlaneLBEndpoint /\ resolveControlPlaneJoinToken /\ ToWrite(Gathered, None)
    <3>1. Needs \subseteq Gathered
      <4>1. cluster.endpoint BY <1>0 DEF ConfigInv, OrderInv, ClusterReady
      <4>2. Pushes => "push" \in Gathered BY <1>4 DEF Gathered, requireOwnedStaging
      <4>3. spec.password => "password" \in Gathered BY <1>4 DEF Gathered, resolveUserPassword
      <4>4. isKubevirtMachine => "lb" \in Gathered BY <2>4 DEF Gathered, getControlPlaneLBEndpoint
      <4>5. spec.join = "join" => "token" \in Gathered
        BY <2>4 DEF Gathered, resolveControlPlaneJoinToken
      <4>6. "endpoint" \in Gathered BY <4>1 DEF Gathered
      <4> QED BY <1>0, <4>2, <4>3, <4>4, <4>5, <4>6 DEF Needs
    <3>2. "push" \in Gathered => PushGrants \subseteq Permits(nodeRole'.rules)
      <4>1. "push" \in Gathered => Pushes BY DEF Gathered, ConfigInv, TypeOK, WorldTypeOK,
          Published
      <4> QED BY <4>1, <1>4, ResolvedRolePermits
    <3>3. pass.st.name # NoName /\ secrets[pass.st.name].mine => secrets[pass.st.name].has # Gathered
      <4>1. currentProviderID => "providerID" \in Gathered BY DEF Gathered
      <4> QED BY <4>1, <1>0 DEF ConfigInv, AgainInv, renderCarriesProviderID
    <3>4. None \in 0..MaxTokens /\ None <= minted' BY <1>0, KubeadmAssumption DEF None
    <3> QED BY <1>0, <2>1, <2>2, <2>4, <3>1, <3>2, <3>3, <3>4, ToWriteInv
  <2> QED BY <1>4, <2>3, <2>4
<1> QED BY <1>3, <1>4 DEF RenderControlPlane

\* Among the tokens of a KairosConfig one expires last.
LEMMA GreatestElement ==
  ASSUME NEW b \in Nat, NEW S \in SUBSET (1..b), S # {}
  PROVE  \E x \in S : \A y \in S : y <= x
<1> DEFINE R == OpToRel(<, Nat)
           T == {b - x : x \in S}
<1>0. \A x \in S : b - x \in Nat OBVIOUS
<1>1. T \in SUBSET Nat /\ T # {} BY <1>0
<1>2. \E x \in T : \A y \in T : ~(<<y, x>> \in R)
  <2> HIDE DEF T
  <2> QED BY <1>1, NatLessThanWellFounded, WFMin
<1>3. \A x, y \in Nat : x < y => <<x, y>> \in R BY DEF OpToRel
<1> HIDE DEF R
<1>4. PICK u \in S : \A y \in T : ~(<<y, b - u>> \in R) BY <1>2
<1>5. ASSUME NEW y \in S PROVE y <= u
  <2>1. ~(b - y < b - u)
    <3>1. b - y \in T BY <1>5
    <3>2. b - y \in Nat /\ b - u \in Nat OBVIOUS
    <3> HIDE DEF T
    <3> QED BY <1>3, <1>4, <3>1, <3>2
  <2> QED BY <2>1
<1> QED BY <1>5

\* A token that was minted for the config and is there is found (findOwnedBootstrapToken).
LEMMA OwnedToken ==
  ASSUME KubeadmTypeOK, tokens # {} PROVE findOwnedBootstrapToken \in tokens
<1> DEFINE Level(i) == {t \in tokens : left[t] = i}
           Last(t) == \A u \in tokens : left[t] > left[u] \/ (left[t] = left[u] /\ t >= u)
<1>0. /\ minted \in Nat /\ minted <= MaxTokens /\ tokens \subseteq 1..minted /\ left \in [TokenIDs -> 0..3]
  BY KubeadmAssumption DEF KubeadmTypeOK, TTL
<1>1. \A t \in tokens : left[t] \in 0..3 BY <1>0, KubeadmAssumption DEF TokenIDs
<1>2. ASSUME NEW i \in 0..3, Level(i) # {}, \A j \in 0..3 : j > i => Level(j) = {}
      PROVE  \E t \in tokens : Last(t)
  <2>1. PICK t \in Level(i) : \A u \in Level(i) : u <= t
    <3>1. Level(i) \in SUBSET (1..minted) BY <1>0
    <3> HIDE DEF Level
    <3> QED BY <1>0, <1>2, <3>1, GreatestElement
  <2>2. ASSUME NEW u \in tokens PROVE left[t] > left[u] \/ (left[t] = left[u] /\ t >= u)
    <3>1. left[t] = i /\ left[u] \in 0..3 /\ u \in Level(left[u]) BY <1>1, <2>1
    <3>2. ~(left[u] > i) BY <1>2, <3>1
    <3>3. left[u] = i => u <= t BY <2>1, <3>1
    <3>4. t \in Int /\ u \in Int BY <1>0, <2>1
    <3> QED BY <3>1, <3>2, <3>3, <3>4
  <2> QED BY <2>1, <2>2
<1>3. Level(0) # {} \/ Level(1) # {} \/ Level(2) # {} \/ Level(3) # {} BY <1>1
<1>4. \E i \in 0..3 : Level(i) # {} /\ \A j \in 0..3 : j > i => Level(j) = {}
  <2> HIDE DEF Level
  <2>1. CASE Level(3) # {} BY <2>1
  <2>2. CASE Level(3) = {} /\ Level(2) # {} BY <2>2
  <2>3. CASE Level(3) = {} /\ Level(2) = {} /\ Level(1) # {} BY <2>3
  <2>4. CASE Level(3) = {} /\ Level(2) = {} /\ Level(1) = {} /\ Level(0) # {} BY <2>4
  <2> QED BY <1>3, <2>1, <2>2, <2>3, <2>4
<1>5. \E t \in tokens : Last(t) BY <1>2, <1>4
<1> QED BY <1>5 DEF findOwnedBootstrapToken

\* The token a render gets: one that was minted, and a new one when the recorded one is gone.
LEMMA RenderToken ==
  ASSUME KubeadmTypeOK, NEW stored \in 0..MaxTokens, NEW t \in 0..MaxTokens,
         reuseOrMintBootstrapToken(stored, t), UNCHANGED <<cp, reachable>>
  PROVE  /\ KubeadmTypeOK' /\ minted <= minted' /\ t <= minted' /\ t # None
         /\ stored # None /\ stored \notin tokens => t = minted + 1
<1>0. /\ minted \in Nat /\ minted <= MaxTokens /\ tokens \subseteq 1..minted /\ left \in [TokenIDs -> 0..TTL]
  BY KubeadmAssumption DEF KubeadmTypeOK
<1>1. CASE Reusable(stored) # None
  <2>1. t = Reusable(stored) /\ extendBootstrapToken(t) /\ UNCHANGED <<tokens, minted>>
    BY <1>1 DEF reuseOrMintBootstrapToken
  <2>2. t \in tokens
    BY <1>1, <2>1, OwnedToken DEF Reusable, findOwnedBootstrapToken
  <2>3. left' \in [TokenIDs -> 0..TTL] BY <2>1, <2>2, ExtendTypes
  <2>4. KubeadmTypeOK' BY <2>1, <2>3 DEF KubeadmTypeOK
  <2> QED BY <1>0, <1>1, <2>1, <2>2, <2>4 DEF None, Reusable
<1>2. CASE Reusable(stored) = None
  <2>1. t = minted + 1 /\ mintBootstrapToken BY <1>2 DEF reuseOrMintBootstrapToken
  <2>2. left' \in [TokenIDs -> 0..TTL]
    <3>1. left' = [left EXCEPT ![minted + 1] = TTL] /\ TTL \in 0..TTL
      BY <2>1 DEF mintBootstrapToken, TTL
    <3> QED BY <3>1, <1>0
  <2>3. tokens' \subseteq 1..minted' /\ minted' \in 0..MaxTokens
    BY <2>1, <1>0, KubeadmAssumption DEF mintBootstrapToken
  <2>4. KubeadmTypeOK' BY <2>2, <2>3 DEF KubeadmTypeOK
  <2> QED BY <1>0, <2>1, <2>4 DEF mintBootstrapToken, None
<1> QED BY <1>1, <1>2

\* A worker's render carries its join material, and a kubeadm one a token that exists.
LEMMA RenderWorkerInv == ASSUME ConfigInv, RenderWorker PROVE ConfigInv'
<1>0. /\ pass.pc = "render" /\ ~ControlPlaneRole /\ pass.st \in Statuses /\ nodeRole' = nodeRole
      /\ UNCHANGED <<spec, cluster, deps, machine, infra, vm, age, status, seen, secrets, userdata,
                     object, queued, timers, budget, cp, reachable>>
  BY StartFacts DEF RenderWorker, roleVars
<1>1. RoleTypeOK' BY DEF RenderWorker, roleVars, ConfigInv, TypeOK, RoleTypeOK
<1>2. /\ minted \in Nat /\ KubeadmTypeOK /\ pass.st.token \in 0..MaxTokens
      /\ UNCHANGED <<tokens, left, minted>> => KubeadmTypeOK' /\ minted <= minted'
  <2>1. minted \in Nat /\ KubeadmTypeOK BY KubeadmAssumption DEF ConfigInv, TypeOK, KubeadmTypeOK
  <2>2. pass.st.token \in 0..MaxTokens BY <1>0 DEF Statuses
  <2>3. UNCHANGED <<tokens, left, minted>> => KubeadmTypeOK' BY <1>0, <2>1 DEF KubeadmTypeOK
  <2> QED BY <2>1, <2>2, <2>3
<1>3. CASE /\ Conclude(pass.st, "soon") \/ Conclude(Failed(pass.st), "none")
           /\ UNCHANGED <<tokens, left, minted>>
  <2>1. CASE Conclude(pass.st, "soon") BY <1>0, <1>1, <1>2, <1>3, <2>1, ConcludeInv DEF Requeues
  <2>2. CASE Conclude(Failed(pass.st), "none")
    BY <1>0, <1>1, <1>2, <1>3, <2>2, StatusTypes, ConcludeInv
  <2> QED BY <1>3, <2>1, <2>2
<1>4. ASSUME WorkerJoin = "ok", NEW t \in 0..MaxTokens,
             IF KubeadmWorker THEN reuseOrMintBootstrapToken(pass.st.token, t)
                              ELSE t = None /\ UNCHANGED <<tokens, left, minted>>,
             IF resolveUserPassword THEN ToWrite(Gathered, t) ELSE Conclude(Failed(pass.st), "none")
      PROVE  ConfigInv'
  <2>1. /\ KubeadmTypeOK' /\ minted <= minted' /\ t <= minted' /\ (KubeadmWorker => t # None)
        /\ KubeadmWorker /\ pass.st.token # None /\ pass.st.token \notin tokens => t = minted + 1
    <3>1. CASE KubeadmWorker BY <1>0, <1>2, <1>4, <3>1, RenderToken
    <3>2. CASE ~KubeadmWorker BY <1>0, <1>2, <1>4, <3>2 DEF None
    <3> QED BY <3>1, <3>2
  <2>2. CASE Conclude(Failed(pass.st), "none")
    BY <1>0, <1>1, <2>1, <2>2, StatusTypes, ConcludeInv
  <2>3. CASE resolveUserPassword /\ ToWrite(Gathered, t)
    <3>1. Needs \subseteq Gathered
      <4>1. spec.role = "worker" BY <1>0 DEF ControlPlaneRole, ConfigInv, TypeOK, WorldTypeOK,
          Specs
      <4>2. spec.dist # "kubeadm" => "token" \in Gathered BY <1>4 DEF WorkerJoin, Gathered
      <4>3. spec.dist = "k3s" => "endpoint" \in Gathered BY <1>4 DEF WorkerJoin, Gathered
      <4>4. spec.password => "password" \in Gathered BY <2>3 DEF Gathered, resolveUserPassword
      <4> QED BY <1>0, <4>1, <4>2, <4>3, <4>4 DEF Needs, KubeadmWorker, Pushes
    <3>2. "push" \notin Gathered
      BY <1>0 DEF Gathered, Pushes, ConfigInv, TypeOK, WorldTypeOK, Published
    <3>3. ASSUME pass.st.name # NoName, secrets[pass.st.name].mine
          PROVE  secrets[pass.st.name].has # Gathered \/ secrets[pass.st.name].token # t
      <4>1. CASE currentProviderID /\ ~renderCarriesProviderID(secrets[pass.st.name])
        BY <4>1 DEF Gathered, renderCarriesProviderID
      <4>2. CASE KubeadmWorker /\ secrets[pass.st.name].token = None BY <4>2, <2>1
      <4>3. CASE KubeadmWorker /\ pass.st.token # None /\ pass.st.token \notin tokens
        <5>1. pass.st.name \in Names BY <1>0, <3>3 DEF Statuses
        <5>2. secrets[pass.st.name].token <= minted BY <5>1 DEF ConfigInv, DataInv
        <5>3. secrets[pass.st.name].token \in Nat
          BY <5>1, StartFacts, KubeadmAssumption DEF Renders
        <5> QED BY <1>2, <2>1, <4>3, <5>2, <5>3
      <4> QED BY <1>0, <3>3, <4>1, <4>2, <4>3 DEF ConfigInv, AgainInv
    <3> QED BY <1>0, <1>1, <2>1, <2>3, <3>1, <3>2, <3>3, ToWriteInv
  <2> QED BY <1>4, <2>2, <2>3
<1> QED BY <1>3, <1>4 DEF RenderWorker

\* The data is stored under a name that is on record from then on.
LEMMA WriteSecretInv == ASSUME ConfigInv, WriteSecret PROVE ConfigInv'
<1> DEFINE r == [has |-> pass.has, token |-> pass.token, mine |-> TRUE]
           s == [pass.st EXCEPT !.name = secretName, !.token = IF KubeadmWorker THEN pass.token ELSE @]
<1>0. /\ pass.pc = "write" /\ pass \in Passes /\ pass.st \in Statuses /\ secrets \in [Names -> Renders]
      /\ machine.dsn \in Names \union {NoName} /\ status.name \in Names \union {NoName}
      /\ seen.name \in Names \union {NoName} /\ pass.st.name \in Names \union {NoName}
      /\ pass.dsn \in Names \union {NoName} /\ pass.dsn \in {NoName, machine.dsn}
      /\ UNCHANGED <<spec, cluster, deps, machine, infra, vm, age, status, seen, object, queued,
                     timers, budget, joinVars, roleVars>>
  BY DEF WriteSecret, ConfigInv, TypeOK, ConfigTypeOK, WorldTypeOK, Machines, Passes, Statuses, NameInv
<1>a. KubeadmTypeOK' /\ RoleTypeOK' /\ minted' = minted /\ minted \in Nat
  BY <1>0, KubeadmAssumption DEF ConfigInv, TypeOK, KubeadmTypeOK, RoleTypeOK, joinVars, roleVars
<1>1. CASE Conclude(Failed(pass.st), "none") /\ UNCHANGED <<secrets, userdata>>
  <2>1. minted <= minted' /\ nodeRole' = nodeRole BY <1>0, <1>a DEF roleVars
  <2>2. /\ Failed(pass.st) \in Statuses /\ Failed(pass.st).name = pass.st.name
        /\ Failed(pass.st).token = pass.st.token /\ Failed(pass.st).created = pass.st.created
    BY <1>0, StatusTypes
  <2> QED BY <1>0, <1>a, <1>1, <2>1, <2>2, ConcludeInv
<1>2. CASE /\ secrets' = [secrets EXCEPT ![secretName] = r] /\ sanitizeCapkUserdataSecret
           /\ Conclude(AfterData(s), AfterDataMore(s))
  <2> USE SpecStays
  <2>1. /\ secretName \in Names
        /\ pass.dsn # NoName => secretName = pass.dsn
        /\ pass.dsn = NoName /\ pass.st.name # NoName => secretName = pass.st.name
        /\ pass.dsn = NoName /\ pass.st.name = NoName => secretName = "kc"
    <3>1. CASE pass.dsn # NoName BY <1>0, <3>1 DEF secretName
    <3>2. CASE pass.dsn = NoName /\ pass.st.name # NoName BY <1>0, <3>2 DEF secretName
    <3>3. CASE pass.dsn = NoName /\ pass.st.name = NoName BY <3>3 DEF secretName, Names
    <3> QED BY <3>1, <3>2, <3>3
  <2> DEFINE n0 == secretName
  <2>2. r \in Renders /\ r.mine /\ r.has = pass.has /\ r.token = pass.token
    BY <1>0 DEF Passes, Renders
  <2>3. s \in Statuses /\ s.name = n0 /\ (KubeadmWorker => s.token = pass.token)
    BY <1>0, <2>1 DEF Passes, Statuses
  <2> HIDE DEF s, r
  <2>4. /\ AfterData(s) \in Statuses /\ AfterData(s).name = n0 /\ AfterDataMore(s) \in Requeues \union {"none"}
    BY <2>3, StatusTypes
  <2>5. /\ pass'.pc = "patch" /\ pass'.base = pass.base /\ pass'.st = AfterData(s) /\ pass' \in Passes
    BY <1>0, <1>2, <2>4 DEF Conclude, Passes
  <2> HIDE DEF n0
  <2>6. /\ secrets' \in [Names -> Renders] /\ secrets'[n0] = r
        /\ \A n \in Names : n # n0 => secrets'[n] = secrets[n]
    BY <1>0, <1>2, <2>1, <2>2 DEF n0
  <2>7. WorldTypeOK'
    <3>1. userdata' \in {"absent", "raw", "clean"}
      BY <1>2, StartFacts DEF sanitizeCapkUserdataSecret
    <3> QED BY <1>0, <3>1 DEF ConfigInv, TypeOK, WorldTypeOK
  <2>8. ConfigTypeOK' BY <1>0, <2>5, <2>6 DEF ConfigInv, TypeOK, ConfigTypeOK
  <2>9. FinalizerOutlivesSecret' BY <1>0 DEF ConfigInv, OrderInv, FinalizerOutlivesSecret
  <2>10. PushingNodeMayPush' /\ PushInv'
    BY <1>0, <2>2, <2>5, <2>6 DEF ConfigInv, PushingNodeMayPush, PushInv, roleVars
  <2>11. OrderInv' BY <1>0, <2>5 DEF ConfigInv, OrderInv
  <2>12. NameInv'
    <3>1. \A n \in {machine.dsn, status.name, seen.name} \ {NoName} : secrets'[n] = Absent \/ secrets'[n].mine
      BY <1>0, <2>2, <2>6 DEF ConfigInv, NameInv
    <3>2. secrets'[n0].mine BY <2>2, <2>6
    <3>3. ASSUME machine.dsn = NoName
          PROVE  /\ "old" \in {status.name, n0} => seen.name = "old"
                 /\ seen.name = "old" /\ secrets'["old"] # Absent => status.name = "old" /\ n0 = "old"
      <4>1. n0 = "old" => pass.st.name = "old" BY <1>0, <2>1, <3>3 DEF n0
      <4>2. n0 # "old" => secrets'["old"] = secrets["old"] BY <2>6 DEF Names
      <4>3. pass.st.name = "old" => n0 = "old" BY <1>0, <2>1, <3>3 DEF n0, NoName
      <4> QED BY <1>0, <3>3, <4>1, <4>2, <4>3 DEF ConfigInv, NameInv
    <3> QED BY <1>0, <2>4, <2>5, <3>1, <3>2, <3>3 DEF NameInv
  <2>13. DataInv'
    <3>1. \A n \in Names : secrets'[n].token <= minted' /\ (secrets'[n].mine => Needs' \subseteq secrets'[n].has)
      BY <1>0, <1>a, <2>2, <2>6 DEF ConfigInv, DataInv
    <3>2. ASSUME KubeadmWorker, NEW n \in Names, secrets'[n].mine, secrets'[n].token = None PROVE FALSE
      <4>1. n # n0 BY <1>0, <2>2, <2>6, <3>2 DEF ConfigInv, DataInv
      <4>2. Untokened(n) BY <2>6, <3>2, <4>1 DEF Untokened
      <4>3. machine.dsn = NoName /\ pass.st.name = n
        BY <1>0, <4>2 DEF ConfigInv, DataInv, Untokened
      <4> QED BY <1>0, <2>1, <4>1, <4>3 DEF n0, Names, NoName
    <3> QED BY <1>0, <2>5, <3>1, <3>2 DEF DataInv
  <2>14. AgainInv' BY <2>5 DEF AgainInv
  <2> QED BY <1>a, <2>7, <2>8, <2>9, <2>10, <2>11, <2>12, <2>13, <2>14 DEF ConfigInv, TypeOK
<1> QED BY <1>1, <1>2 DEF WriteSecret

\* Between passes the copy is the one before, or what is on record.
LEMMA IdleInv ==
  ASSUME ConfigInv, TypeOK', pass' = Idle, seen' = seen \/ seen' = status,
         budget'.overlaps = budget.overlaps,
         UNCHANGED <<spec, machine, infra, vm, status, secrets, object, minted, nodeRole>>
  PROVE  ConfigInv'
<1> USE SpecStays DEF ConfigInv
<1>0. /\ pass'.pc = "idle" /\ pass'.st.name = NoName /\ NoName # "old"
  BY DEF Idle, NewStatus, NoName
<1>1. FinalizerOutlivesSecret' BY DEF FinalizerOutlivesSecret
<1>2. PushingNodeMayPush' /\ PushInv' BY <1>0 DEF PushingNodeMayPush, PushInv
<1>3. OrderInv' BY <1>0 DEF OrderInv
<1>4. NameInv' BY <1>0 DEF NameInv
<1>5. DataInv' BY <1>0 DEF DataInv
<1>6. AgainInv' BY <1>0 DEF AgainInv
<1> QED BY <1>1, <1>2, <1>3, <1>4, <1>5, <1>6

\* The record between passes is typed.
LEMMA IdleTypes == Idle \in Passes
<1>1. NewStatus \in Statuses BY KubeadmAssumption DEF NewStatus, Statuses, Waits, None
<1> QED BY <1>1, KubeadmAssumption DEF Idle, Passes, None

\* The budgets that are spent stay numbers, and the overlaps are not touched.
LEMMA BudgetTypes ==
  ASSUME ConfigInv
  PROVE  /\ budget \in Budgets
         /\ budget.restarts > 0 => /\ [budget EXCEPT !.restarts = @ - 1] \in Budgets
                                   /\ [budget EXCEPT !.restarts = @ - 1].overlaps = budget.overlaps
         /\ budget.losses > 0 => /\ [budget EXCEPT !.losses = @ - 1] \in Budgets
                                 /\ [budget EXCEPT !.losses = @ - 1].overlaps = budget.overlaps
         /\ budget.lags > 0 => /\ [budget EXCEPT !.lags = @ - 1] \in Budgets
                               /\ [budget EXCEPT !.lags = @ - 1].overlaps = budget.overlaps
         /\ budget.wipes > 0 => /\ [budget EXCEPT !.wipes = @ - 1] \in Budgets
                                /\ [budget EXCEPT !.wipes = @ - 1].overlaps = budget.overlaps
                                /\ [budget EXCEPT !.wipes = @ - 1] # budget
         /\ budget.deletes > 0 => /\ [budget EXCEPT !.deletes = @ - 1] \in Budgets
                                  /\ [budget EXCEPT !.deletes = @ - 1].overlaps = budget.overlaps
         /\ budget.swaps > 0 => /\ [budget EXCEPT !.swaps = @ - 1] \in Budgets
                                /\ [budget EXCEPT !.swaps = @ - 1].overlaps = budget.overlaps
<1>1. budget \in Budgets BY DEF ConfigInv, TypeOK, WorldTypeOK
<1>2. budget.restarts > 0 => /\ [budget EXCEPT !.restarts = @ - 1] \in Budgets
                             /\ [budget EXCEPT !.restarts = @ - 1].overlaps = budget.overlaps
  BY <1>1 DEF Budgets
<1>3. budget.losses > 0 => /\ [budget EXCEPT !.losses = @ - 1] \in Budgets
                           /\ [budget EXCEPT !.losses = @ - 1].overlaps = budget.overlaps
  BY <1>1 DEF Budgets
<1>4. budget.lags > 0 => /\ [budget EXCEPT !.lags = @ - 1] \in Budgets
                         /\ [budget EXCEPT !.lags = @ - 1].overlaps = budget.overlaps
  BY <1>1 DEF Budgets
<1>5. budget.wipes > 0 => /\ [budget EXCEPT !.wipes = @ - 1] \in Budgets
                          /\ [budget EXCEPT !.wipes = @ - 1].overlaps = budget.overlaps
                          /\ [budget EXCEPT !.wipes = @ - 1].wipes # budget.wipes
  BY <1>1 DEF Budgets
<1>6. budget.deletes > 0 => /\ [budget EXCEPT !.deletes = @ - 1] \in Budgets
                            /\ [budget EXCEPT !.deletes = @ - 1].overlaps = budget.overlaps
  BY <1>1 DEF Budgets
<1>7. budget.swaps > 0 => /\ [budget EXCEPT !.swaps = @ - 1] \in Budgets
                          /\ [budget EXCEPT !.swaps = @ - 1].overlaps = budget.overlaps
  BY <1>1 DEF Budgets
<1> QED BY <1>1, <1>2, <1>3, <1>4, <1>5, <1>6, <1>7

\* A patch that fails loses what the pass worked out, and nothing else.
LEMMA PatchFailsInv == ASSUME ConfigInv, PatchFails PROVE ConfigInv'
<1>1. budget' \in Budgets /\ budget'.overlaps = budget.overlaps BY BudgetTypes DEF PatchFails
<1>2. WorldTypeOK' BY <1>1 DEF ConfigInv, TypeOK, WorldTypeOK, PatchFails
<1>3. ConfigTypeOK' BY IdleTypes DEF ConfigInv, TypeOK, ConfigTypeOK, PatchFails, Requeues
<1>4. KubeadmTypeOK' /\ RoleTypeOK'
  BY DEF ConfigInv, TypeOK, KubeadmTypeOK, RoleTypeOK, PatchFails, joinVars, roleVars
<1>5. TypeOK' BY <1>2, <1>3, <1>4 DEF TypeOK
<1> QED BY <1>1, <1>5, IdleInv DEF PatchFails, joinVars, roleVars

\* A restart loses the pass, the timers and the lag of the cache.
LEMMA RestartInv == ASSUME ConfigInv, Restart PROVE ConfigInv'
<1>1. budget' \in Budgets /\ budget'.overlaps = budget.overlaps BY BudgetTypes DEF Restart
<1>2. WorldTypeOK' BY <1>1 DEF ConfigInv, TypeOK, WorldTypeOK, Restart
<1>3. ConfigTypeOK' BY IdleTypes DEF ConfigInv, TypeOK, ConfigTypeOK, Restart
<1>4. KubeadmTypeOK' BY DEF ConfigInv, TypeOK, KubeadmTypeOK, Restart, joinVars
<1>5. RoleTypeOK'
  <2>1. nodeRole \in Roles /\ nodeRole' = nodeRole BY DEF ConfigInv, TypeOK, RoleTypeOK, Restart
  <2>2. nodeRole.rules \in SUBSET Rules BY <2>1 DEF Roles
  <2> QED BY <2>1, <2>2 DEF RoleTypeOK, Restart, ListRoles, NoWork
<1>6. TypeOK' BY <1>2, <1>3, <1>4, <1>5 DEF TypeOK
<1> QED BY <1>1, <1>6, IdleInv DEF Restart, joinVars

\* The cached copy becomes what is on record.
LEMMA CacheSyncInv == ASSUME ConfigInv, CacheSync PROVE ConfigInv'
<1>2. WorldTypeOK' BY DEF ConfigInv, TypeOK, WorldTypeOK, CacheSync
<1>3. ConfigTypeOK' BY DEF ConfigInv, TypeOK, ConfigTypeOK, CacheSync
<1>4. KubeadmTypeOK' /\ RoleTypeOK'
  BY DEF ConfigInv, TypeOK, KubeadmTypeOK, RoleTypeOK, CacheSync, joinVars, roleVars
<1>5. TypeOK' BY <1>2, <1>3, <1>4 DEF TypeOK
<1>6. pass' = Idle BY DEF CacheSync, ConfigInv, OrderInv
<1> QED BY <1>5, <1>6, IdleInv DEF CacheSync, joinVars, roleVars

\* The patch: a field is the pass's if the pass changed it.
LEMMA PatchStatusInv == ASSUME ConfigInv, PatchStatus PROVE ConfigInv'
<1> USE SpecStays DEF ConfigInv
<1>0. /\ pass.pc = "patch" /\ pass.base = seen /\ object # "gone" /\ status' = Patched /\ pass' = Idle
      /\ (seen' = Patched /\ UNCHANGED budget) \/ (seen' = seen /\ budget' = [budget EXCEPT !.lags = @ - 1] /\ budget.lags > 0)
      /\ UNCHANGED <<spec, cluster, deps, machine, infra, vm, age, secrets, userdata, object,
                     joinVars, roleVars>>
  BY DEF PatchStatus, OrderInv
<1>a. /\ Patched \in Statuses
      /\ Patched.name = IF pass.st.name # seen.name THEN pass.st.name ELSE status.name
      /\ Patched.token = IF pass.st.token # seen.token THEN pass.st.token ELSE status.token
      /\ Patched.created = IF pass.st.created # seen.created THEN pass.st.created ELSE status.created
  BY <1>0, PatchedFields
<1>b. budget' \in Budgets /\ budget'.overlaps = budget.overlaps BY <1>0, BudgetTypes
<1>c. /\ pass'.pc = "idle" /\ pass'.st.name = NoName /\ NoName # "old"
  BY <1>0 DEF Idle, NewStatus, NoName
<1>d. pass.more \in Requeues \union {"none"} BY DEF TypeOK, ConfigTypeOK, Passes
<1>7. WorldTypeOK' BY <1>0, <1>b DEF TypeOK, WorldTypeOK
<1>8. ConfigTypeOK'
  <2>1. timers' \subseteq Requeues /\ queued' \in BOOLEAN
    BY <1>d DEF PatchStatus, TypeOK, ConfigTypeOK
  <2> QED BY <1>0, <1>a, <2>1, IdleTypes DEF TypeOK, ConfigTypeOK
<1>9. KubeadmTypeOK' /\ RoleTypeOK'
  BY <1>0 DEF TypeOK, KubeadmTypeOK, RoleTypeOK, joinVars, roleVars
<1> USE DEF joinVars, roleVars
<1>1. FinalizerOutlivesSecret' BY <1>0 DEF FinalizerOutlivesSecret
<1>2. PushingNodeMayPush' /\ PushInv' BY <1>0, <1>b, <1>c DEF PushingNodeMayPush, PushInv
<1>3. OrderInv' BY <1>0, <1>c DEF OrderInv
<1>4. NameInv'
  <2>1. \A n \in {machine.dsn, Patched.name, seen.name} \ {NoName} : secrets[n] = Absent \/ secrets[n].mine
    BY <1>a DEF NameInv
  <2>2. machine.dsn = NoName =>
          /\ Patched.name = "old" => seen.name = "old"
          /\ seen.name = "old" /\ secrets["old"] # Absent => Patched.name = "old"
    BY <1>0, <1>a DEF NameInv
  <2> QED BY <1>0, <1>c, <2>1, <2>2 DEF NameInv
<1>5. DataInv'
  <2>1. ASSUME KubeadmWorker, NEW n \in Names, secrets[n].mine, secrets[n].token = None
        PROVE  /\ machine.dsn = NoName /\ ~infra.made
               /\ \A s \in {Patched, seen} : s.name = n /\ s.token = None /\ ~s.created
    BY <1>0, <1>a, <2>1 DEF DataInv
  <2> QED BY <1>0, <1>c, <2>1 DEF DataInv
<1>6. AgainInv' BY <1>c DEF AgainInv
<1> QED BY <1>1, <1>2, <1>3, <1>4, <1>5, <1>6, <1>7, <1>8, <1>9 DEF TypeOK

\* The Secret of a KairosConfig that is deleted goes, and its token is given up.
LEMMA DeleteSecretInv == ASSUME ConfigInv, DeleteSecret PROVE ConfigInv'
<1> DEFINE s == IF RevokesOnDelete THEN [seen EXCEPT !.token = None] ELSE seen
<1>1. StartsPass /\ object # "gone" /\ Finish(s, "soon") /\ seen.name # NoName
  BY DEF DeleteSecret, deleteBootstrapSecret
<1>2. s \in Statuses /\ s.name = seen.name /\ s.created = seen.created /\ (s.token = None \/ s.token = seen.token)
  BY StartFacts, KubeadmAssumption DEF Statuses, None
<1> HIDE DEF s
<1>3. \A n \in Names : Untokened(n) => Unclaimed(s) BY <1>2, UntokenedRecord DEF Unclaimed
<1>4. KubeadmTypeOK' /\ minted' = minted
  BY TokenTypes DEF DeleteSecret, revokeKubeadmTokenOnDelete
<1>5. Absent \in Renders BY KubeadmAssumption DEF Absent, Renders, None
<1>6. secrets' \in [Names -> Renders] /\ OnlyGo
  BY <1>5, StartFacts DEF DeleteSecret, OnlyGo
<1> QED BY <1>1, <1>2, <1>3, <1>4, <1>6, FinishInv, StartFacts DEF DeleteSecret, Requeues

\* The finalizer goes when the copy is current and its Secret is gone.
LEMMA RemoveFinalizerInv == ASSUME ConfigInv, RemoveFinalizer PROVE ConfigInv'
<1> USE SpecStays DEF ConfigInv
<1>0. /\ pass.pc = "idle" /\ pass' = pass /\ deleteBootstrapSecret
      /\ object' = IF UpdateAccepted THEN "gone" ELSE object
      /\ UNCHANGED <<spec, cluster, deps, machine, infra, vm, age, status, seen, secrets, userdata,
                     budget, roleVars>>
  BY DEF RemoveFinalizer, StartsPass
<1>a. KubeadmTypeOK' /\ minted' = minted
  BY TokenTypes DEF RemoveFinalizer, revokeKubeadmTokenOnDelete
<1>7. WorldTypeOK' BY <1>0 DEF TypeOK, WorldTypeOK
<1>8. ConfigTypeOK' BY <1>0 DEF RemoveFinalizer, StartsPass, TypeOK, ConfigTypeOK, Requeues
<1>9. RoleTypeOK' BY <1>0 DEF TypeOK, RoleTypeOK, roleVars
<1> USE DEF roleVars
<1>1. FinalizerOutlivesSecret' BY <1>0 DEF FinalizerOutlivesSecret, UpdateAccepted,
    deleteBootstrapSecret
<1>2. PushingNodeMayPush' /\ PushInv' BY <1>0 DEF PushingNodeMayPush, PushInv
<1>3. OrderInv' BY <1>0 DEF OrderInv
<1>4. NameInv' BY <1>0 DEF NameInv
<1>5. DataInv' BY <1>0, <1>a DEF DataInv
<1>6. AgainInv' BY <1>0 DEF AgainInv
<1> QED BY <1>1, <1>2, <1>3, <1>4, <1>5, <1>6, <1>7, <1>8, <1>9, <1>a DEF TypeOK

\* The rules the migrator leaves are rules.
LEMMA IntersectTypes ==
  ASSUME NEW rules \in SUBSET Rules PROVE intersectNodePushRules(rules) \in SUBSET Rules
<1> SUFFICES ASSUME NEW k \in intersectNodePushRules(rules) PROVE k \in Rules OBVIOUS
<1>1. k \in Kept(PushRule, rules) \/ k \in Kept(VMIRule, rules)
  BY DEF intersectNodePushRules, nodePushAllowedRules
<1>2. PushRule.resource = "secrets" /\ PushRule.names = {"push", "etcd"} /\ PushRule.verbs = {"patch"}
  BY DEF PushRule, Rule
<1>3. VMIRule.resource = "vmi" /\ VMIRule.names = {} /\ VMIRule.verbs = {"get"}
  BY DEF VMIRule, Rule
<1>4. CASE k \in Kept(PushRule, rules)
  <2>1. PICK N \in SUBSET {"push", "etcd"} : k = Rule("secrets", N, {"patch"})
    BY <1>4, <1>2 DEF Kept
  <2> QED BY <2>1 DEF Rule, Rules, SecretNames, Verbs
<1>5. CASE k \in Kept(VMIRule, rules)
  <2>1. k = Rule("vmi", {}, intersectVerbs({"get"}, grantedVerbs(rules, "vmi", AllNames)))
    BY <1>5, <1>3 DEF Kept
  <2>2. intersectVerbs({"get"}, grantedVerbs(rules, "vmi", AllNames)) \subseteq {"get"}
    BY DEF intersectVerbs
  <2> QED BY <2>1, <2>2 DEF Rule, Rules, SecretNames, Verbs
<1> QED BY <1>1, <1>4, <1>5

\* What nodes push with is among what the push rule permits.
LEMMA PushGrantsPermitted == PushGrants \subseteq Permits({PushRule})
<1> SUFFICES ASSUME NEW g \in PushGrants PROVE g \in Permits({PushRule}) OBVIOUS
<1>1. g \in {"secrets", "vmi"} \X SecretNames \X Verbs BY DEF PushGrants, SecretNames, Verbs
<1>2. Covers(PushRule, g[1], g[2], g[3]) BY DEF PushGrants, Covers, PushRule, Rule
<1> QED BY <1>1, <1>2 DEF Permits

\* When no render came between, the migrator works on the rules that are there.
LEMMA MigratedRules ==
  ASSUME ConfigInv, Migrate
  PROVE  /\ nodeRole' \in Roles
         /\ nodeRole.rules \in SUBSET Rules
         /\ budget.overlaps = 0 => nodeRole.rules = migrator.rules
         /\ nodeRole'.rules = nodeRole.rules \/ nodeRole'.rules = intersectNodePushRules(migrator.rules)
<1>1. nodeRole \in Roles /\ (budget.overlaps = 0 => nodeRole.rules = migrator.rules)
  BY BudgetTypes DEF ConfigInv, TypeOK, RoleTypeOK, Migrate, Budgets
<1>2. nodeRole.rules \in SUBSET Rules BY <1>1 DEF Roles
<1>3. CASE nodeRole' = nodeRole BY <1>1, <1>2, <1>3
<1>4. CASE nodeRole' = [nodeRole EXCEPT !.rules = intersectNodePushRules(migrator.rules)]
  <2>1. migrator.rules \in SUBSET Rules BY DEF ConfigInv, TypeOK, RoleTypeOK
  <2> QED BY <1>1, <1>2, <1>4, <2>1, IntersectTypes DEF Roles
<1> QED BY <1>1, <1>3, <1>4 DEF Migrate, PatchRole

\* The migrator's patch leaves the grants nodes push with.
LEMMA MigrateInv == ASSUME ConfigInv, Migrate PROVE ConfigInv'
<1> USE SpecStays DEF ConfigInv
<1>0. UNCHANGED <<bootVars, joinVars>> /\ migrator' = NoWork BY DEF Migrate, PatchRole
<1>1. budget.overlaps = 0 /\ PushGrants \subseteq Permits(nodeRole.rules)
        => PushGrants \subseteq Permits(nodeRole'.rules)
  BY MigratedRules, MigrationKeepsPush, PushGrantsPermitted
<1>2. RoleTypeOK' BY <1>0, MigratedRules DEF RoleTypeOK, NoWork
<1> USE <1>0 DEF bootVars, joinVars
<1>3. KubeadmTypeOK' BY DEF TypeOK, KubeadmTypeOK
<1>4. WorldTypeOK' BY DEF TypeOK, WorldTypeOK
<1>5. ConfigTypeOK' BY DEF TypeOK, ConfigTypeOK
<1>6. FinalizerOutlivesSecret' /\ OrderInv' BY DEF FinalizerOutlivesSecret, OrderInv, ClusterReady
<1>7. PushingNodeMayPush' /\ PushInv' BY <1>1 DEF PushingNodeMayPush, PushInv
<1>8. NameInv' BY DEF NameInv
<1>9. DataInv' BY DEF DataInv
<1>10. AgainInv' BY ProviderIDStays DEF AgainInv, renderCarriesProviderID
<1> QED BY <1>2, <1>3, <1>4, <1>5, <1>6, <1>7, <1>8, <1>9, <1>10 DEF TypeOK

\* What others do beside the passes leaves names, data and Role alone.
LEMMA SetOwnerInv == ASSUME ConfigInv, SetOwner PROVE ConfigInv'
<1>1. /\ machine \in Machines /\ machine' = [machine EXCEPT !.owns = TRUE] /\ machine' \in Machines
      /\ machine'.dsn = machine.dsn /\ machine'.nodeRef = machine.nodeRef
      /\ machine'.providerID = machine.providerID /\ ClusterReady' = ClusterReady
  <2>1. machine \in Machines BY DEF ConfigInv, TypeOK, WorldTypeOK
  <2>2. machine' = [machine EXCEPT !.owns = TRUE] BY DEF SetOwner, MachineChanges
  <2>3. ClusterReady' = ClusterReady BY SpecStays DEF SetOwner, ClusterReady
  <2> QED BY <2>1, <2>2, <2>3 DEF Machines
<1>2. WorldTypeOK' BY <1>1 DEF ConfigInv, TypeOK, WorldTypeOK, SetOwner
<1>3. KubeadmTypeOK' /\ RoleTypeOK'
  BY DEF ConfigInv, TypeOK, KubeadmTypeOK, RoleTypeOK, SetOwner, joinVars, roleVars
<1>4. ConfigTypeOK' BY DEF ConfigInv, TypeOK, ConfigTypeOK, SetOwner, MachineChanges
<1>5. TypeOK' BY <1>2, <1>3, <1>4 DEF TypeOK
<1>6. Rest' BY <1>1, <1>5, SideStep DEF SetOwner, joinVars, roleVars
<1> QED BY <1>5, <1>6 DEF ConfigInv, Rest

\* The Cluster only gains what a render in progress has found ready.
LEMMA ProvisionClusterInv == ASSUME ConfigInv, ProvisionCluster PROVE ConfigInv'
<1>1. cluster' \in Clusters /\ (ClusterReady => ClusterReady')
  BY SpecStays DEF ConfigInv, TypeOK, WorldTypeOK, Clusters, Specs, ProvisionCluster,
      ClusterReady
<1>2. WorldTypeOK' BY <1>1 DEF ConfigInv, TypeOK, WorldTypeOK, ProvisionCluster
<1>3. KubeadmTypeOK' /\ RoleTypeOK'
  BY DEF ConfigInv, TypeOK, KubeadmTypeOK, RoleTypeOK, ProvisionCluster, joinVars, roleVars
<1>4. ConfigTypeOK' BY DEF ConfigInv, TypeOK, ConfigTypeOK, ProvisionCluster
<1>5. TypeOK' BY <1>2, <1>3, <1>4 DEF TypeOK
<1>6. Rest' BY <1>1, <1>5, SideStep DEF ProvisionCluster, joinVars, roleVars
<1> QED BY <1>5, <1>6 DEF ConfigInv, Rest

\* A late endpoint is only gained.
LEMMA PublishEndpointInv == ASSUME ConfigInv, PublishEndpoint PROVE ConfigInv'
<1>1. cluster' \in Clusters /\ (ClusterReady => ClusterReady')
  BY SpecStays DEF ConfigInv, TypeOK, WorldTypeOK, Clusters, Specs, PublishEndpoint, ClusterReady
<1>2. WorldTypeOK' BY <1>1 DEF ConfigInv, TypeOK, WorldTypeOK, PublishEndpoint
<1>3. KubeadmTypeOK' /\ RoleTypeOK'
  BY DEF ConfigInv, TypeOK, KubeadmTypeOK, RoleTypeOK, PublishEndpoint, joinVars, roleVars
<1>4. ConfigTypeOK' BY DEF ConfigInv, TypeOK, ConfigTypeOK, PublishEndpoint
<1>5. TypeOK' BY <1>2, <1>3, <1>4 DEF TypeOK
<1>6. Rest' BY <1>1, <1>5, SideStep DEF PublishEndpoint, joinVars, roleVars
<1> QED BY <1>5, <1>6 DEF ConfigInv, Rest

\* Pausing leaves names, data and Role alone.
LEMMA TogglePauseInv == ASSUME ConfigInv, TogglePause PROVE ConfigInv'
<1>1. /\ cluster' \in Clusters /\ (ClusterReady => ClusterReady')
      /\ budget' \in Budgets /\ budget'.overlaps = budget.overlaps
  <2>1. cluster' \in Clusters /\ (ClusterReady => ClusterReady')
    <3>1. cluster \in Clusters BY DEF ConfigInv, TypeOK, WorldTypeOK
    <3>2. cluster' = [cluster EXCEPT !.paused = ~cluster.paused] /\ spec' = spec BY DEF TogglePause
    <3>3. cluster' \in Clusters BY <3>1, <3>2 DEF Clusters
    <3>4. cluster'.provisioned = cluster.provisioned /\ cluster'.endpoint = cluster.endpoint
      BY <3>1, <3>2 DEF Clusters
    <3> QED BY <3>2, <3>3, <3>4, SpecStays DEF ClusterReady
  <2>2. budget' \in Budgets /\ budget'.overlaps = budget.overlaps
    BY BudgetTypes DEF TogglePause, Budgets
  <2> QED BY <2>1, <2>2
<1>2. WorldTypeOK' BY <1>1 DEF ConfigInv, TypeOK, WorldTypeOK, TogglePause
<1>3. KubeadmTypeOK' /\ RoleTypeOK'
  BY DEF ConfigInv, TypeOK, KubeadmTypeOK, RoleTypeOK, TogglePause, joinVars, roleVars
<1>4. ConfigTypeOK' BY DEF ConfigInv, TypeOK, ConfigTypeOK, TogglePause
<1>5. TypeOK' BY <1>2, <1>3, <1>4 DEF TypeOK
<1>6. Rest' BY <1>1, <1>5, SideStep DEF TogglePause, joinVars, roleVars
<1> QED BY <1>5, <1>6 DEF ConfigInv, Rest

\* What others publish is only gained.
LEMMA PublishInv == ASSUME ConfigInv, NEW d \in Published, Publish(d) PROVE ConfigInv'
<1>1. ClusterReady' = ClusterReady BY SpecStays DEF Publish, ClusterReady
<1>2. WorldTypeOK' BY DEF ConfigInv, TypeOK, WorldTypeOK, Publish
<1>3. KubeadmTypeOK' /\ RoleTypeOK'
  BY DEF ConfigInv, TypeOK, KubeadmTypeOK, RoleTypeOK, Publish, joinVars, roleVars
<1>4. ConfigTypeOK' BY DEF ConfigInv, TypeOK, ConfigTypeOK, Publish
<1>5. TypeOK' BY <1>2, <1>3, <1>4 DEF TypeOK
<1>6. Rest' BY <1>1, <1>5, SideStep DEF Publish, joinVars, roleVars
<1> QED BY <1>5, <1>6 DEF ConfigInv, Rest

\* CAPK's copy is beside what is on record.
LEMMA CapkCopiesUserdataInv == ASSUME ConfigInv, CapkCopiesUserdata PROVE ConfigInv'
<1>1. ClusterReady' = ClusterReady BY SpecStays DEF CapkCopiesUserdata, ClusterReady
<1>2. WorldTypeOK' BY DEF ConfigInv, TypeOK, WorldTypeOK, CapkCopiesUserdata
<1>3. KubeadmTypeOK' /\ RoleTypeOK'
  BY DEF ConfigInv, TypeOK, KubeadmTypeOK, RoleTypeOK, CapkCopiesUserdata, joinVars, roleVars
<1>4. ConfigTypeOK' BY DEF ConfigInv, TypeOK, ConfigTypeOK, CapkCopiesUserdata
<1>5. TypeOK' BY <1>2, <1>3, <1>4 DEF TypeOK
<1>6. Rest' BY <1>1, <1>5, SideStep DEF CapkCopiesUserdata, joinVars, roleVars
<1> QED BY <1>5, <1>6 DEF ConfigInv, Rest

\* A requeue is beside what is on record.
LEMMA RequeueSoonInv == ASSUME ConfigInv, RequeueSoon PROVE ConfigInv'
<1>1. ClusterReady' = ClusterReady BY SpecStays DEF RequeueSoon, ClusterReady
<1>2. WorldTypeOK' BY DEF ConfigInv, TypeOK, WorldTypeOK, RequeueSoon
<1>3. KubeadmTypeOK' /\ RoleTypeOK'
  BY DEF ConfigInv, TypeOK, KubeadmTypeOK, RoleTypeOK, RequeueSoon, joinVars, roleVars
<1>4. ConfigTypeOK' BY DEF ConfigInv, TypeOK, ConfigTypeOK, RequeueSoon
<1>5. TypeOK' BY <1>2, <1>3, <1>4 DEF TypeOK
<1>6. Rest' BY <1>1, <1>5, SideStep DEF RequeueSoon, joinVars, roleVars
<1> QED BY <1>5, <1>6 DEF ConfigInv, Rest

\* Another control plane changes no token on record.
LEMMA ControlPlaneChangesInv == ASSUME ConfigInv, ControlPlaneChanges PROVE ConfigInv'
<1>1. /\ ClusterReady' = ClusterReady /\ budget' \in Budgets /\ budget'.overlaps = budget.overlaps
      /\ cp' \in ControlPlanes
  <2>1. spec.controlPlanes \subseteq ControlPlanes BY DEF ConfigInv, TypeOK, WorldTypeOK, Specs
  <2>2. cp' \in ControlPlanes BY <2>1 DEF ControlPlaneChanges
  <2> QED BY <2>2, SpecStays, BudgetTypes DEF ControlPlaneChanges, ClusterReady
<1>2. WorldTypeOK' BY <1>1 DEF ConfigInv, TypeOK, WorldTypeOK, ControlPlaneChanges
<1>3. KubeadmTypeOK' /\ RoleTypeOK'
  BY <1>1 DEF ConfigInv, TypeOK, KubeadmTypeOK, RoleTypeOK, ControlPlaneChanges, roleVars
<1>4. ConfigTypeOK' BY DEF ConfigInv, TypeOK, ConfigTypeOK, ControlPlaneChanges
<1>5. TypeOK' BY <1>2, <1>3, <1>4 DEF TypeOK
<1>6. Rest' BY <1>1, <1>5, SideStep DEF ControlPlaneChanges, joinVars, roleVars
<1> QED BY <1>5, <1>6 DEF ConfigInv, Rest

\* An outage changes no token on record.
LEMMA ToggleReachableInv == ASSUME ConfigInv, ToggleReachable PROVE ConfigInv'
<1>1. /\ ClusterReady' = ClusterReady /\ budget' \in Budgets /\ budget'.overlaps = budget.overlaps
      /\ reachable \in BOOLEAN /\ reachable' = ~reachable
  <2>1. reachable \in BOOLEAN BY DEF ConfigInv, TypeOK, KubeadmTypeOK
  <2>2. budget' \in Budgets /\ budget'.overlaps = budget.overlaps
    <3>1. CASE reachable BY <2>1, <3>1, BudgetTypes DEF ToggleReachable, Budgets
    <3>2. CASE ~reachable BY <2>1, <3>2, BudgetTypes DEF ToggleReachable, Budgets
    <3> QED BY <3>1, <3>2
  <2> QED BY <2>1, <2>2, SpecStays DEF ToggleReachable, ClusterReady
<1>2. WorldTypeOK' BY <1>1 DEF ConfigInv, TypeOK, WorldTypeOK, ToggleReachable
<1>3. KubeadmTypeOK' /\ RoleTypeOK'
  BY <1>1 DEF ConfigInv, TypeOK, KubeadmTypeOK, RoleTypeOK, ToggleReachable, roleVars
<1>4. ConfigTypeOK' BY DEF ConfigInv, TypeOK, ConfigTypeOK, ToggleReachable
<1>5. TypeOK' BY <1>2, <1>3, <1>4 DEF TypeOK
<1>6. Rest' BY <1>1, <1>5, SideStep DEF ToggleReachable, joinVars, roleVars
<1> QED BY <1>5, <1>6 DEF ConfigInv, Rest

\* Time passes for the tokens and the Machine only.
LEMMA TickInv == ASSUME ConfigInv, Tick PROVE ConfigInv'
<1>1. /\ ClusterReady' = ClusterReady /\ budget' \in Budgets /\ budget'.overlaps = budget.overlaps
      /\ age' \in 0..(RefreshCap + 1)
  <2>1. budget' \in Budgets /\ budget'.overlaps = budget.overlaps
    <3>1. CASE Behind BY <3>1, BudgetTypes DEF Tick, Budgets
    <3>2. CASE ~Behind BY <3>2, BudgetTypes DEF Tick, Budgets
    <3> QED BY <3>1, <3>2
  <2>2. age' \in 0..(RefreshCap + 1)
    <3>1. age \in 0..(RefreshCap + 1) BY DEF ConfigInv, TypeOK, WorldTypeOK
    <3> QED BY <3>1, KubeadmAssumption DEF Tick, CapExceeded
  <2> QED BY <2>1, <2>2, SpecStays DEF Tick, ClusterReady
<1>2. WorldTypeOK' BY <1>1 DEF ConfigInv, TypeOK, WorldTypeOK, Tick
<1>3. KubeadmTypeOK' /\ RoleTypeOK'
  <2>1. left' \in [TokenIDs -> 0..TTL]
    <3>1. \A t \in TokenIDs : left[t] \in 0..TTL BY DEF ConfigInv, TypeOK, KubeadmTypeOK
    <3> QED BY <3>1 DEF Tick, TokensAge, TTL
  <2> QED BY <2>1 DEF ConfigInv, TypeOK, KubeadmTypeOK, RoleTypeOK, Tick, roleVars
<1>4. ConfigTypeOK' BY DEF ConfigInv, TypeOK, ConfigTypeOK, Tick
<1>5. TypeOK' BY <1>2, <1>3, <1>4 DEF TypeOK
<1>6. Rest' BY <1>1, <1>5, SideStep DEF Tick, joinVars, roleVars
<1> QED BY <1>5, <1>6 DEF ConfigInv, Rest

\* The token cleaner only takes tokens away: one that is gone stays gone.
LEMMA CleanInv == ASSUME ConfigInv, Clean PROVE ConfigInv'
<1>1. ClusterReady' = ClusterReady /\ tokens' \subseteq tokens
  BY SpecStays DEF Clean, TokenCleaner, bootVars, ClusterReady
<1>2. WorldTypeOK' BY DEF ConfigInv, TypeOK, WorldTypeOK, Clean, bootVars
<1>3. KubeadmTypeOK' /\ RoleTypeOK'
  BY DEF ConfigInv, TypeOK, KubeadmTypeOK, RoleTypeOK, Clean, TokenCleaner, roleVars
<1>4. ConfigTypeOK' BY DEF ConfigInv, TypeOK, ConfigTypeOK, Clean, bootVars
<1>5. TypeOK' BY <1>2, <1>3, <1>4 DEF TypeOK
<1>6. Rest' BY <1>1, <1>5, SideStep DEF Clean, TokenCleaner, bootVars, joinVars, roleVars
<1> QED BY <1>5, <1>6 DEF ConfigInv, Rest

\* A step that changes nothing.
LEMMA StutterInv == ASSUME ConfigInv, UNCHANGED vars PROVE ConfigInv'
<1>1. ClusterReady' = ClusterReady BY SpecStays DEF vars, bootVars, ClusterReady
<1>2. WorldTypeOK' BY DEF ConfigInv, TypeOK, WorldTypeOK, vars, bootVars
<1>3. KubeadmTypeOK' /\ RoleTypeOK'
  BY DEF ConfigInv, TypeOK, KubeadmTypeOK, RoleTypeOK, vars, joinVars, roleVars
<1>4. ConfigTypeOK' BY DEF ConfigInv, TypeOK, ConfigTypeOK, vars, bootVars
<1>5. TypeOK' BY <1>2, <1>3, <1>4 DEF TypeOK
<1>6. Rest' BY <1>1, <1>5, SideStep DEF vars, bootVars, joinVars, roleVars
<1> QED BY <1>5, <1>6 DEF ConfigInv, Rest

\* What the infrastructure and the node report takes nothing back.
LEMMA ReportStep ==
  ASSUME ConfigInv, TypeOK',
         UNCHANGED <<spec, cluster, status, seen, secrets, object, pass, vm, nodeRole, budget, tokens, minted>>,
         machine'.dsn = machine.dsn, infra'.made = infra.made,
         machine.providerID => machine'.providerID, infra.providerID => infra'.providerID,
         machine'.nodeRef => machine'.providerID,
         machine'.providerID \/ infra'.ready \/ infra'.providerID => infra.made
  PROVE  Rest'
<1> USE SpecStays DEF ConfigInv
<1>1. FinalizerOutlivesSecret' BY DEF FinalizerOutlivesSecret
<1>2. PushingNodeMayPush' /\ PushInv' BY DEF PushingNodeMayPush, PushInv
<1>3. OrderInv' BY DEF OrderInv, ClusterReady
<1>4. NameInv' BY DEF NameInv
<1>5. DataInv' BY DEF DataInv
<1>6. AgainInv' BY ProviderIDStays DEF AgainInv, renderCarriesProviderID
<1> QED BY <1>1, <1>2, <1>3, <1>4, <1>5, <1>6 DEF Rest

\* Readiness and the providerID come after the infrastructure machine is made.
LEMMA InfraReportsInv == ASSUME ConfigInv, InfraReports PROVE ConfigInv'
<1>0. infra \in Infras /\ queued \in BOOLEAN BY DEF ConfigInv, TypeOK, WorldTypeOK, ConfigTypeOK
<1>1. /\ infra' = [infra EXCEPT !.ready = TRUE] \/ infra' = [infra EXCEPT !.providerID = TRUE]
      /\ infra.made /\ queued' \in BOOLEAN
  BY <1>0 DEF InfraReports, InfraChanges
<1>2. infra' \in Infras /\ infra'.made = infra.made /\ (infra.providerID => infra'.providerID)
  BY <1>0, <1>1 DEF Infras
<1>3. WorldTypeOK' BY <1>2 DEF ConfigInv, TypeOK, WorldTypeOK, InfraReports
<1>4. ConfigTypeOK' BY <1>1 DEF ConfigInv, TypeOK, ConfigTypeOK, InfraReports
<1>5. KubeadmTypeOK' /\ RoleTypeOK'
  BY DEF ConfigInv, TypeOK, KubeadmTypeOK, RoleTypeOK, InfraReports, joinVars, roleVars
<1>6. TypeOK' BY <1>3, <1>4, <1>5 DEF TypeOK
<1>7. machine' = machine /\ (machine.nodeRef => machine.providerID)
  BY DEF InfraReports, ConfigInv, OrderInv
<1>8. Rest' BY <1>1, <1>2, <1>6, <1>7, ReportStep DEF InfraReports, joinVars, roleVars
<1> QED BY <1>6, <1>8 DEF ConfigInv, Rest

\* A Machine that learns something keeps its Secret's name.
LEMMA MachineReports ==
  ASSUME ConfigInv, machine' \in Machines, machine'.dsn = machine.dsn, queued' = TRUE,
         machine.providerID => machine'.providerID, machine'.nodeRef => machine'.providerID,
         machine'.providerID => infra.made,
         UNCHANGED <<spec, cluster, deps, infra, vm, age, status, seen, secrets, userdata, object,
                     pass, timers, budget, joinVars, roleVars>>
  PROVE  ConfigInv'
<1>3. WorldTypeOK' BY DEF ConfigInv, TypeOK, WorldTypeOK
<1>4. ConfigTypeOK' BY DEF ConfigInv, TypeOK, ConfigTypeOK
<1>5. KubeadmTypeOK' /\ RoleTypeOK'
  BY DEF ConfigInv, TypeOK, KubeadmTypeOK, RoleTypeOK, joinVars, roleVars
<1>6. TypeOK' BY <1>3, <1>4, <1>5 DEF TypeOK
<1>7. infra.ready \/ infra.providerID => infra.made BY DEF ConfigInv, OrderInv
<1>8. Rest' BY <1>6, <1>7, ReportStep DEF joinVars, roleVars
<1> QED BY <1>6, <1>8 DEF ConfigInv, Rest

\* The Machine takes a providerID that its infrastructure machine has.
LEMMA MachineTakesProviderIDInv == ASSUME ConfigInv, MachineTakesProviderID PROVE ConfigInv'
<1>1. machine \in Machines /\ machine' = [machine EXCEPT !.providerID = TRUE] /\ queued' = TRUE
  BY DEF ConfigInv, TypeOK, WorldTypeOK, MachineTakesProviderID, MachineChanges
<1>2. machine' \in Machines /\ machine'.dsn = machine.dsn /\ machine'.providerID
  BY <1>1 DEF Machines
<1>3. infra.made BY DEF MachineTakesProviderID, ConfigInv, OrderInv
<1> QED BY <1>1, <1>2, <1>3, MachineReports DEF MachineTakesProviderID

\* A node joins a Machine that has a providerID.
LEMMA NodeJoinsInv == ASSUME ConfigInv, NodeJoins PROVE ConfigInv'
<1>1. machine \in Machines /\ machine' = [machine EXCEPT !.nodeRef = TRUE] /\ queued' = TRUE
  BY DEF ConfigInv, TypeOK, WorldTypeOK, NodeJoins, MachineChanges
<1>2. machine' \in Machines /\ machine'.dsn = machine.dsn /\ machine'.providerID = machine.providerID
  BY <1>1 DEF Machines
<1>3. infra.made /\ machine.providerID BY DEF NodeJoins, ConfigInv, OrderInv
<1> QED BY <1>1, <1>2, <1>3, MachineReports DEF NodeJoins

\* The Machine takes the name on record, which is that of the data a pass works on.
LEMMA MachineTakesSecretInv == ASSUME ConfigInv, MachineTakesSecret PROVE ConfigInv'
<1> USE SpecStays DEF ConfigInv
<1>0. /\ machine.dsn = NoName /\ status.created /\ queued' = TRUE
      /\ machine' = [machine EXCEPT !.dsn = status.name]
      /\ UNCHANGED <<spec, cluster, deps, infra, vm, age, status, seen, secrets, userdata, object,
                     pass, timers, budget, joinVars, roleVars>>
  BY DEF MachineTakesSecret, MachineChanges
<1>a. machine \in Machines /\ status.name \in Names \union {NoName} /\ seen.name \in Names \union {NoName}
  BY DEF TypeOK, WorldTypeOK, ConfigTypeOK, Statuses
<1>b. /\ machine' \in Machines /\ machine'.dsn = status.name /\ machine'.nodeRef = machine.nodeRef
      /\ machine'.providerID = machine.providerID
  BY <1>0, <1>a DEF Machines
<1>3. WorldTypeOK' BY <1>0, <1>b DEF TypeOK, WorldTypeOK
<1>4. ConfigTypeOK' BY <1>0 DEF TypeOK, ConfigTypeOK
<1>5. KubeadmTypeOK' /\ RoleTypeOK'
  BY <1>0 DEF TypeOK, KubeadmTypeOK, RoleTypeOK, joinVars, roleVars
<1> USE DEF joinVars, roleVars
<1>6. FinalizerOutlivesSecret' BY <1>0 DEF FinalizerOutlivesSecret
<1>7. PushingNodeMayPush' /\ PushInv' BY <1>0 DEF PushingNodeMayPush, PushInv
<1>8. OrderInv' BY <1>0, <1>b DEF OrderInv, ClusterReady
<1>9. NameInv'
  <2>1. ASSUME pass.pc \in {"render", "write"}, pass.st.name # NoName
        PROVE  pass.st.name = seen.name /\ status.name \in {NoName, seen.name}
    <3>1. pass.st.name = seen.name BY <2>1 DEF NameInv
    <3>2. CASE seen.name = "old" BY <1>0, <2>1, <3>1, <3>2 DEF NameInv
    <3>3. CASE seen.name = "kc" BY <1>0, <1>a, <3>1, <3>3 DEF NameInv, Names
    <3> QED BY <1>a, <2>1, <3>1, <3>2, <3>3 DEF Names
  <2> QED BY <1>0, <1>b, <2>1 DEF NameInv
<1>10. DataInv'
  <2>1. \A n \in Names : ~Untokened(n) BY <1>0 DEF DataInv, Untokened
  <2> QED BY <1>0, <1>b, <2>1 DEF DataInv, Untokened
<1>11. AgainInv' BY <1>0, <1>b, ProviderIDStays DEF AgainInv, renderCarriesProviderID
<1> QED BY <1>3, <1>4, <1>5, <1>6, <1>7, <1>8, <1>9, <1>10, <1>11 DEF TypeOK

\* The VM is created from data that is complete.
LEMMA CreateVMInv == ASSUME ConfigInv, CreateVM PROVE ConfigInv'
<1> USE SpecStays DEF ConfigInv
<1>0. /\ machine.dsn # NoName /\ vm' = secrets[machine.dsn] /\ infra' = [infra EXCEPT !.made = TRUE]
      /\ UNCHANGED <<spec, cluster, deps, machine, age, status, seen, secrets, userdata, object,
                     pass, timers, budget, joinVars, roleVars>>
  BY DEF CreateVM, InfraChanges
<1>a. /\ infra \in Infras /\ machine.dsn \in Names /\ secrets \in [Names -> Renders] /\ queued' \in BOOLEAN
  BY <1>0 DEF TypeOK, WorldTypeOK, ConfigTypeOK, Machines, CreateVM, InfraChanges
<1>b. /\ infra' \in Infras /\ infra'.made /\ infra'.providerID = infra.providerID /\ vm' \in Renders
  BY <1>0, <1>a DEF Infras
<1>3. WorldTypeOK' BY <1>0, <1>b DEF TypeOK, WorldTypeOK
<1>4. ConfigTypeOK' BY <1>0, <1>a DEF TypeOK, ConfigTypeOK
<1>5. KubeadmTypeOK' /\ RoleTypeOK'
  BY <1>0 DEF TypeOK, KubeadmTypeOK, RoleTypeOK, joinVars, roleVars
<1> USE DEF joinVars, roleVars
<1>6. FinalizerOutlivesSecret' BY <1>0 DEF FinalizerOutlivesSecret
<1>7. PushingNodeMayPush' /\ PushInv' BY <1>0, <1>a DEF PushingNodeMayPush, PushInv
<1>8. OrderInv' BY <1>0, <1>b DEF OrderInv, ClusterReady
<1>9. NameInv' BY <1>0 DEF NameInv
<1>10. DataInv' BY <1>0 DEF DataInv
<1>11. AgainInv' BY <1>0, <1>b, ProviderIDStays DEF AgainInv, renderCarriesProviderID
<1> QED BY <1>3, <1>4, <1>5, <1>6, <1>7, <1>8, <1>9, <1>10, <1>11 DEF TypeOK

\* Somebody deletes a Secret: whatever names it finds it gone.
LEMMA SecretDeletedInv == ASSUME ConfigInv, SecretDeleted PROVE ConfigInv'
<1> USE SpecStays DEF ConfigInv
<1>0. /\ budget' \in Budgets /\ budget'.overlaps = budget.overlaps
      /\ UNCHANGED <<spec, cluster, deps, machine, infra, vm, age, status, seen, userdata, object,
                     pass, queued, timers, joinVars, roleVars>>
  BY BudgetTypes DEF SecretDeleted
<1>a. Absent \in Renders BY KubeadmAssumption DEF Absent, Renders, None
<1>b. secrets' \in [Names -> Renders] /\ OnlyGo BY <1>a, StartFacts DEF SecretDeleted, OnlyGo
<1>c. /\ status.name \in Names \union {NoName} /\ seen.name \in Names \union {NoName}
      /\ machine.dsn \in Names \union {NoName} /\ pass.st.name \in Names \union {NoName}
      /\ minted \in 0..MaxTokens
  BY DEF TypeOK, ConfigTypeOK, WorldTypeOK, KubeadmTypeOK, Machines, Statuses, Passes
<1>3. WorldTypeOK' BY <1>0 DEF TypeOK, WorldTypeOK
<1>4. ConfigTypeOK' BY <1>0, <1>b DEF TypeOK, ConfigTypeOK
<1>5. KubeadmTypeOK' /\ RoleTypeOK'
  BY <1>0 DEF TypeOK, KubeadmTypeOK, RoleTypeOK, joinVars, roleVars
<1> USE DEF joinVars, roleVars
<1>6. FinalizerOutlivesSecret' BY <1>0, <1>b, <1>c DEF FinalizerOutlivesSecret, OnlyGo
<1>7. PushingNodeMayPush' /\ PushInv' BY <1>0, <1>b DEF PushingNodeMayPush, PushInv, OnlyGo, Absent
<1>8. OrderInv' BY <1>0 DEF OrderInv, ClusterReady
<1>9. NameInv'
  <2>1. \A n \in {machine.dsn, status.name, seen.name, pass.st.name} \ {NoName} :
          secrets'[n] = Absent \/ secrets'[n].mine
    BY <1>b, <1>c DEF NameInv, OnlyGo
  <2>2. secrets'["old"] # Absent => secrets["old"] # Absent BY <1>b DEF OnlyGo, Names
  <2> QED BY <1>0, <2>1, <2>2 DEF NameInv
<1>10. DataInv'
  <2>1. \A n \in Names : secrets'[n].token <= minted' /\ (secrets'[n].mine => Needs' \subseteq secrets'[n].has)
    BY <1>0, <1>b, <1>c DEF DataInv, OnlyGo, Absent, None
  <2>2. \A n \in Names : secrets'[n].mine => secrets'[n] = secrets[n] BY <1>b DEF OnlyGo, Absent
  <2> QED BY <1>0, <2>1, <2>2 DEF DataInv
<1>11. AgainInv'
  <2>1. pass.st.name # NoName /\ secrets'[pass.st.name].mine => secrets'[pass.st.name] = secrets[pass.st.name]
    BY <1>b, <1>c DEF OnlyGo, Absent
  <2> QED BY <1>0, <2>1, ProviderIDStays DEF AgainInv, renderCarriesProviderID
<1> QED BY <1>3, <1>4, <1>5, <1>6, <1>7, <1>8, <1>9, <1>10, <1>11 DEF TypeOK

\* Deletion begins with everything on record as it is.
LEMMA DeleteConfigInv == ASSUME ConfigInv, DeleteConfig PROVE ConfigInv'
<1> USE SpecStays DEF ConfigInv
<1>0. /\ budget' \in Budgets /\ budget'.overlaps = budget.overlaps /\ object' = "deleting" /\ queued' = TRUE
      /\ UNCHANGED <<spec, cluster, deps, machine, infra, vm, age, status, seen, secrets, userdata,
                     pass, timers, joinVars, roleVars>>
  BY BudgetTypes DEF DeleteConfig
<1>3. WorldTypeOK' BY <1>0 DEF TypeOK, WorldTypeOK
<1>4. ConfigTypeOK' BY <1>0 DEF TypeOK, ConfigTypeOK
<1>5. KubeadmTypeOK' /\ RoleTypeOK'
  BY <1>0 DEF TypeOK, KubeadmTypeOK, RoleTypeOK, joinVars, roleVars
<1> USE DEF joinVars, roleVars
<1>6. FinalizerOutlivesSecret' BY <1>0 DEF FinalizerOutlivesSecret
<1>7. PushingNodeMayPush' /\ PushInv' BY <1>0 DEF PushingNodeMayPush, PushInv
<1>8. OrderInv' BY <1>0 DEF OrderInv, ClusterReady
<1>9. NameInv' BY <1>0 DEF NameInv
<1>10. DataInv' BY <1>0 DEF DataInv
<1>11. AgainInv' BY <1>0, ProviderIDStays DEF AgainInv, renderCarriesProviderID
<1> QED BY <1>3, <1>4, <1>5, <1>6, <1>7, <1>8, <1>9, <1>10, <1>11 DEF TypeOK

-----------------------------------------------------------------------------
(* From the initial states to every state                                  *)

\* What is on record when the controller starts is as the invariant says.
LEMMA InitInv == ASSUME Init PROVE ConfigInv
<1>1. PICK s \in Scenarios :
        /\ spec = s.spec /\ budget = s.budget /\ deps = s.deps /\ cp = s.cp
        /\ nodeRole = s.role /\ migrator = NoWork
        /\ secrets = s.secrets
        /\ machine = [owns |-> s.owned, dsn |-> s.dsn, providerID |-> FALSE, nodeRef |-> FALSE]
        /\ infra = [made |-> FALSE, ready |-> FALSE, providerID |-> FALSE]
        /\ status = [NewStatus EXCEPT !.name = s.name] /\ seen = status
  BY DEF Init
<1>2. /\ s.spec \in Specs /\ s.budget \in Budgets /\ s.deps \subseteq Published /\ s.cp \in ControlPlanes
      /\ s.role \in Roles /\ s.secrets \in [Names -> Renders] /\ s.owned \in BOOLEAN
      /\ s.dsn \in Names \union {NoName} /\ s.name \in Names \union {NoName}
  BY <1>1, ScenarioAssumption
<1>3. /\ cluster = [provisioned |-> FALSE, endpoint |-> FALSE, paused |-> FALSE]
      /\ vm = Absent /\ age = 0 /\ userdata = "absent" /\ object = "present"
      /\ pass = Idle /\ queued = TRUE /\ timers = {}
      /\ reachable = TRUE /\ tokens = {} /\ left = [t \in TokenIDs |-> 0] /\ minted = 0
      /\ OnRecord
  BY DEF Init
<1>4. /\ status \in Statuses /\ status.name = s.name /\ status.token = None /\ ~status.created
      /\ seen = status
  <2>1. NewStatus \in Statuses /\ NewStatus.token = None /\ ~NewStatus.created
    BY KubeadmAssumption DEF NewStatus, Statuses, Waits, None
  <2> QED BY <1>1, <1>2, <2>1 DEF Statuses
<1>5. /\ machine \in Machines /\ infra \in Infras /\ machine.dsn = s.dsn /\ ~machine.nodeRef
      /\ ~machine.providerID /\ ~infra.made /\ ~infra.ready /\ ~infra.providerID
  BY <1>1, <1>2 DEF Machines, Infras
<1>6. Absent \in Renders BY KubeadmAssumption DEF Absent, Renders, None
<1>7. pass \in Passes /\ pass.pc = "idle" /\ pass.st.name = NoName /\ NoName # "old"
  BY <1>3, IdleTypes DEF Idle, NewStatus, NoName
<1>8. KubeadmTypeOK BY <1>1, <1>2, <1>3, KubeadmAssumption DEF KubeadmTypeOK, TTL
<1>9. RoleTypeOK BY <1>1, <1>2 DEF RoleTypeOK, NoWork
<1>10. WorldTypeOK
  BY <1>1, <1>2, <1>3, <1>5, <1>6, KubeadmAssumption DEF WorldTypeOK, Clusters
<1>11. ConfigTypeOK BY <1>1, <1>2, <1>3, <1>4, <1>7 DEF ConfigTypeOK
<1>12. FinalizerOutlivesSecret BY <1>3 DEF FinalizerOutlivesSecret
<1>13. PushingNodeMayPush BY <1>3 DEF PushingNodeMayPush, Absent
<1>14. PushInv BY <1>1, <1>3, <1>7 DEF PushInv, OnRecord
<1>15. OrderInv BY <1>3, <1>5, <1>7 DEF OrderInv
<1>16. NameInv BY <1>3, <1>4, <1>7 DEF NameInv, OnRecord
<1>17. DataInv BY <1>3, <1>4, <1>5, <1>7 DEF DataInv, OnRecord, None
<1>18. AgainInv BY <1>7 DEF AgainInv
<1> QED BY <1>8, <1>9, <1>10, <1>11, <1>12, <1>13, <1>14, <1>15, <1>16, <1>17, <1>18
        DEF ConfigInv, TypeOK

\* Every step of the controller, of the manager and of the rest keeps the invariant.
LEMMA NextInv == ASSUME ConfigInv, [Next]_vars PROVE ConfigInv'
<1>1. CASE PassStep
  BY <1>1, SkipPassInv, WaitForInfrastructureInv, WaitForProviderIDInv, NoDataInv, KeepDataInv,
     RevokeJoinedInv, StopAtCapInv, ExtendUnjoinedInv, RenderWorkerInv, RenderControlPlaneInv,
     WriteSecretInv, PatchStatusInv, DeleteSecretInv, RemoveFinalizerInv DEF PassStep
<1>2. CASE Others
  BY <1>2, SetOwnerInv, ProvisionClusterInv, PublishEndpointInv, PublishInv, MachineTakesSecretInv,
     CapkCopiesUserdataInv, CreateVMInv, InfraReportsInv, MachineTakesProviderIDInv, NodeJoinsInv
     DEF Others
<1>3. CASE UNCHANGED vars \/ Ended BY <1>3, StutterInv DEF Ended
<1>4. CASE PatchFails \/ Restart \/ Migrate \/ CacheSync \/ RequeueSoon
  BY <1>4, PatchFailsInv, RestartInv, MigrateInv, CacheSyncInv, RequeueSoonInv
<1>5. CASE \/ TogglePause \/ ToggleReachable \/ SecretDeleted \/ DeleteConfig \/ ControlPlaneChanges
           \/ Tick \/ Clean
  BY <1>5, TogglePauseInv, ToggleReachableInv, SecretDeletedInv, DeleteConfigInv,
     ControlPlaneChangesInv, TickInv, CleanInv
<1> QED BY <1>1, <1>2, <1>3, <1>4, <1>5 DEF Next

\* What is on record, in the cache and in the pass stays in order.
LEMMA ConfigHolds == Spec => []ConfigInv
<1>1. Init => ConfigInv BY InitInv
<1>2. ConfigInv /\ [Next]_vars => ConfigInv' BY NextInv
<1> QED BY <1>1, <1>2, PTL DEF Spec

\* Which steps change the bootstrap Secrets, the tokens and the VM; the spec never changes.
LEMMA WhoChangesWhat ==
  ASSUME Next
  PROVE  /\ spec' = spec
         /\ vm' = vm \/ CreateVM
         /\ secrets' = secrets \/ NoData \/ WriteSecret \/ DeleteSecret \/ SecretDeleted
         /\ \/ UNCHANGED <<tokens, left>> \/ RevokeJoined \/ ExtendUnjoined \/ RenderWorker
            \/ DeleteSecret \/ RemoveFinalizer \/ Tick \/ Clean
         /\ UNCHANGED nodeRole \/ UNCHANGED migrator \/ Migrate
<1> USE DEF vars, bootVars, joinVars, roleVars
<1>1. CASE SkipPass \/ WaitForInfrastructure \/ WaitForProviderID \/ StopAtCap \/ KeepData
  BY <1>1 DEF SkipPass, WaitForInfrastructure, WaitForProviderID, StopAtCap, KeepData
<1>2. CASE NoData \/ RevokeJoined \/ ExtendUnjoined
  BY <1>2 DEF NoData, RevokeJoined, ExtendUnjoined
<1>3. CASE RenderWorker \/ RenderControlPlane \/ WriteSecret
  BY <1>3 DEF RenderWorker, RenderControlPlane, WriteSecret
<1>4. CASE PatchStatus \/ DeleteSecret \/ RemoveFinalizer
  BY <1>4 DEF PatchStatus, DeleteSecret, RemoveFinalizer
<1>5. CASE PatchFails \/ Restart \/ Migrate \/ CacheSync \/ RequeueSoon
  BY <1>5 DEF PatchFails, Restart, Migrate, CacheSync, RequeueSoon
<1>6. CASE Others
  BY <1>6 DEF Others, SetOwner, ProvisionCluster, PublishEndpoint, Publish, MachineTakesSecret,
              CapkCopiesUserdata, CreateVM, InfraReports, MachineTakesProviderID, NodeJoins
<1>7. CASE TogglePause \/ ToggleReachable \/ SecretDeleted \/ DeleteConfig \/ ControlPlaneChanges
  BY <1>7 DEF TogglePause, ToggleReachable, SecretDeleted, DeleteConfig, ControlPlaneChanges
<1>8. CASE Tick \/ Clean \/ Ended BY <1>8 DEF Tick, Clean, Ended
<1> QED BY <1>1, <1>2, <1>3, <1>4, <1>5, <1>6, <1>7, <1>8 DEF Next, PassStep

\* The first render is complete: whatever the order in which the Cluster, its Secrets,
\* its load balancer and its control plane appear, and whatever is lost, lags or restarts
\* meanwhile, the VM is created from data of this controller that carries what its node
\* needs and, for a kubeadm worker, a token (generateCloudConfig).
THEOREM FirstRenderHolds == Spec => []FirstRenderIsComplete
<1>1. Init => FirstRenderIsComplete BY DEF Init, FirstRenderIsComplete
<1>2. ASSUME ConfigInv, FirstRenderIsComplete, [Next]_vars PROVE FirstRenderIsComplete'
  <2>1. CASE UNCHANGED vars
    BY <1>2, <2>1, SpecStays DEF FirstRenderIsComplete, vars, bootVars
  <2>2. CASE Next /\ vm' = vm
    BY <1>2, <2>2, WhoChangesWhat, SpecStays DEF FirstRenderIsComplete
  <2>3. CASE CreateVM
    <3>1. machine.dsn # NoName /\ machine.dsn \in Names /\ vm' = secrets[machine.dsn] /\ vm' # Absent
      BY <1>2, <2>3 DEF CreateVM, ConfigInv, TypeOK, WorldTypeOK, Machines
    <3>2. vm'.mine BY <1>2, <3>1 DEF ConfigInv, NameInv
    <3>3. Needs \subseteq vm'.has /\ (KubeadmWorker => vm'.token # None)
      BY <1>2, <3>1, <3>2 DEF ConfigInv, DataInv
    <3>4. spec' = spec BY <2>3 DEF CreateVM
    <3> QED BY <3>2, <3>3, <3>4, SpecStays DEF FirstRenderIsComplete
  <2> QED BY <1>2, <2>1, <2>2, <2>3, WhoChangesWhat
<1> QED BY <1>1, <1>2, ConfigHolds, PTL DEF Spec

\* A pass that finds the Machine's name and another on record removes the other.
LEMMA ReferencedSecretStays == ASSUME ConfigInv, Next PROVE KeepsReferencedSecret
<1> SUFFICES ASSUME machine.dsn # NoName, object = "present", budget' = budget, secrets[machine.dsn] # Absent
             PROVE  secrets'[machine.dsn] # Absent
  BY DEF KeepsReferencedSecret
<1>1. machine.dsn \in Names /\ secrets \in [Names -> Renders]
  BY DEF ConfigInv, TypeOK, WorldTypeOK, ConfigTypeOK, Machines
<1>2. CASE NoData
  <2>1. seen.name # machine.dsn \/ ~Misaligned BY DEF Misaligned
  <2> QED BY <1>1, <1>2, <2>1 DEF NoData, AlignedSecrets
<1>3. CASE WriteSecret
  <2>1. secretName \in Names
    BY DEF secretName, ConfigInv, TypeOK, ConfigTypeOK, Passes, Statuses, Names
  <2>2. [has |-> pass.has, token |-> pass.token, mine |-> TRUE] # Absent BY DEF Absent
  <2> QED BY <1>1, <1>3, <2>1, <2>2 DEF WriteSecret
<1>4. CASE DeleteSecret BY <1>4 DEF DeleteSecret
<1>5. CASE SecretDeleted BY <1>5, BudgetTypes DEF SecretDeleted
<1> QED BY <1>2, <1>3, <1>4, <1>5, WhoChangesWhat

\* Only a write ends a pass that is about to write in its patch.
LEMMA WritesEnd == ASSUME Next, pass.pc = "write", pass'.pc = "patch" PROVE WriteSecret
<1> USE DEF vars, bootVars, StartsPass, Idle
<1>1. CASE \/ SkipPass \/ WaitForInfrastructure \/ WaitForProviderID \/ NoData \/ KeepData
           \/ RevokeJoined \/ StopAtCap \/ ExtendUnjoined \/ DeleteSecret \/ RemoveFinalizer
  BY <1>1 DEF SkipPass, WaitForInfrastructure, WaitForProviderID, NoData, KeepData, RevokeJoined,
              StopAtCap, ExtendUnjoined, DeleteSecret, RemoveFinalizer, TokenPass, ReconcilesData, Reconciles
<1>2. CASE RenderWorker \/ RenderControlPlane \/ PatchStatus \/ PatchFails \/ Restart
  BY <1>2 DEF RenderWorker, RenderControlPlane, PatchStatus, PatchFails, Restart
<1>3. CASE Others
  BY <1>3 DEF Others, SetOwner, ProvisionCluster, PublishEndpoint, Publish, MachineTakesSecret,
              CapkCopiesUserdata, CreateVM, InfraReports, MachineTakesProviderID, NodeJoins
<1>4. CASE \/ Migrate \/ CacheSync \/ RequeueSoon \/ TogglePause \/ ToggleReachable \/ SecretDeleted
           \/ DeleteConfig \/ ControlPlaneChanges \/ Tick \/ Clean \/ Ended
  BY <1>4 DEF Migrate, CacheSync, RequeueSoon, TogglePause, ToggleReachable, SecretDeleted,
              DeleteConfig, ControlPlaneChanges, Tick, Clean, Ended
<1> QED BY <1>1, <1>2, <1>3, <1>4 DEF Next, PassStep

\* Data that is rendered again is written under the name it has, and differs.
LEMMA RegenerationChanges == ASSUME ConfigInv, Next PROVE RegenerationAdds
<1> SUFFICES ASSUME pass.pc = "write", pass'.pc = "patch", pass.st.name # NoName, secrets[pass.st.name].mine
             PROVE  secrets' # secrets
  BY DEF RegenerationAdds
<1>1. WriteSecret BY WritesEnd
<1>2. pass.st.name \in Names /\ secrets \in [Names -> Renders]
  BY DEF ConfigInv, TypeOK, ConfigTypeOK, Passes, Statuses
<1>3. secretName = pass.st.name BY DEF ConfigInv, NameInv, secretName
<1>4. secrets'[pass.st.name] = [has |-> pass.has, token |-> pass.token, mine |-> TRUE]
  BY <1>1, <1>2, <1>3 DEF WriteSecret, bootstrapSecretBelongsTo
<1>5. secrets[pass.st.name].has # pass.has \/ secrets[pass.st.name].token # pass.token
  BY DEF ConfigInv, AgainInv
<1> QED BY <1>4, <1>5

\* A verdict "ok" is of a control plane that is up, listed and anchored.
LEMMA VerdictIsAnchored ==
  ASSUME ConfigInv, Verdict = "ok"
  PROVE  Anchored(cp)
<1>1. verifyControlPlane(cluster.endpoint) = "ok" /\ verifyKubeconfig = "ok"
  BY DEF Verdict, trustedWorkloadClient, verifyTrustChain
<1>2. cp \in ControlPlanes BY DEF ConfigInv, TypeOK, KubeadmTypeOK
<1>3. cp.initialized /\ cp.ref = "listed"
  BY <1>1, <1>2 DEF verifyControlPlane, ControlPlanes, Refs
<1>4. crossCheckClusterCA = "ok" BY <1>1, <1>2 DEF verifyKubeconfig, ControlPlanes, Kubeconfigs
<1>5. cp.ca \in {"absent", "same"} BY <1>2, <1>4 DEF crossCheckClusterCA, ControlPlanes
<1>6. cp.kubeconfig = "endpoint" \/ (cp.kubeconfig = "internal" /\ cp.ca = "same")
  BY <1>1, <1>2, <1>4 DEF verifyKubeconfig, ControlPlanes, Kubeconfigs
<1> QED BY <1>3, <1>5, <1>6 DEF Anchored

\* No token gains time, or goes before its time, but by a verdict "ok" of that step.
LEMMA TokensAreAnchored == ASSUME ConfigInv, Next PROVE TokensNeedAnAnchor
<1> SUFFICES ASSUME NEW t \in TokenIDs, left'[t] > left[t] \/ (t \in tokens /\ t \notin tokens' /\ left[t] > 0)
             PROVE  Verdict = "ok"
  BY VerdictIsAnchored DEF TokensNeedAnAnchor
<1>1. left[t] \in 0..TTL BY DEF ConfigInv, TypeOK, KubeadmTypeOK
<1>2. ~UNCHANGED <<tokens, left>> BY <1>1 DEF TTL
<1>3. CASE RevokeJoined BY <1>2, <1>3 DEF RevokeJoined
<1>4. CASE ExtendUnjoined BY <1>2, <1>4 DEF ExtendUnjoined
<1>5. CASE RenderWorker BY <1>2, <1>5 DEF RenderWorker, WorkerJoin, KubeadmWorker
<1>6. CASE DeleteSecret BY <1>2, <1>6 DEF DeleteSecret, revokeKubeadmTokenOnDelete, RevokesOnDelete
<1>7. CASE RemoveFinalizer BY <1>2, <1>7 DEF RemoveFinalizer, revokeKubeadmTokenOnDelete,
    RevokesOnDelete
<1>8. CASE Tick BY <1>1, <1>8 DEF Tick, TokensAge, TTL
<1>9. CASE Clean BY <1>1, <1>9 DEF Clean, TokenCleaner, TTL
<1> QED BY <1>2, <1>3, <1>4, <1>5, <1>6, <1>7, <1>8, <1>9, WhoChangesWhat

\* The migrator's patch is of the rules that are there.
LEMMA MigrationStepNarrows == ASSUME ConfigInv, Next PROVE MigrationOnlyNarrows
<1> SUFFICES ASSUME migrator.pc = "listed", migrator'.pc = "idle", nodeRole.rules = migrator.rules
             PROVE  /\ Permits(nodeRole'.rules) \subseteq Permits(nodeRole.rules)
                    /\ Permits(nodeRole.rules) \intersect Permits({PushRule}) \subseteq Permits(nodeRole'.rules)
  BY DEF MigrationOnlyNarrows
<1>1. nodeRole' = nodeRole \/ Migrate BY WhoChangesWhat
<1> QED BY <1>1, MigratedRules, MigrationNarrows, MigrationKeepsPush

\* No step removes the Secret the Machine names, renders data again without changing it,
\* touches a token without an anchored control plane, or widens an older Role
\* (alignBootstrapSecretWithMachine, Reconcile, verifyKubeconfig, intersectNodePushRules).
THEOREM StepsStaySafe == Spec => StepsAreSafe
<1>1. ASSUME ConfigInv, [Next]_vars
      PROVE  [KeepsReferencedSecret /\ RegenerationAdds /\ TokensNeedAnAnchor /\ MigrationOnlyNarrows]_vars
  BY <1>1, ReferencedSecretStays, RegenerationChanges, TokensAreAnchored, MigrationStepNarrows
<1> QED BY <1>1, ConfigHolds, PTL DEF Spec, StepsAreSafe

-----------------------------------------------------------------------------
(* The life of a token                                                     *)

\* A step that is neither of a pass nor of the clock: it changes no record and no token,
\* takes nothing off the queue, and gives the VM nothing but what is stored.
Aside ==
  /\ UNCHANGED <<spec, status, seen, pass, age, tokens, left, minted>>
  /\ OnlyGo /\ (vm' = vm \/ \E n \in Names : vm' = secrets[n])
  /\ object' = "present" => object = "present"
  /\ machine.owns => machine'.owns
  /\ machine.nodeRef => machine'.nodeRef
  /\ cluster.provisioned => cluster'.provisioned /\ (cluster.endpoint => cluster'.endpoint)
  /\ queued => queued'
  /\ "recheck" \in timers => "recheck" \in timers'
  /\ "soon" \in timers => queued' \/ "soon" \in timers'
  /\ budget'.delays = budget.delays

\* Most steps of the rest of the world change one thing.
LEMMA AsideUnspent ==
  ASSUME ConfigInv,
         \/ SetOwner \/ ProvisionCluster \/ PublishEndpoint \/ (\E d \in Published : Publish(d))
         \/ MachineTakesSecret \/ CapkCopiesUserdata \/ CreateVM \/ InfraReports
         \/ MachineTakesProviderID \/ NodeJoins \/ Migrate \/ RequeueSoon \/ UNCHANGED vars
  PROVE  Aside
<1>0. machine \in Machines /\ cluster \in Clusters /\ secrets \in [Names -> Renders]
  BY DEF ConfigInv, TypeOK, WorldTypeOK, ConfigTypeOK
<1> USE DEF Aside, OnlyGo, joinVars
<1>1. CASE SetOwner BY <1>0, <1>1 DEF SetOwner, MachineChanges, Machines
<1>2. CASE ProvisionCluster BY <1>0, <1>2 DEF ProvisionCluster, Clusters
<1>3. CASE PublishEndpoint BY <1>0, <1>3 DEF PublishEndpoint, Clusters
<1>4. CASE \E d \in Published : Publish(d) BY <1>4 DEF Publish
<1>5. CASE MachineTakesSecret BY <1>0, <1>5 DEF MachineTakesSecret, MachineChanges, Machines
<1>6. CASE CapkCopiesUserdata BY <1>6 DEF CapkCopiesUserdata
<1>7. CASE CreateVM
  <2>1. machine.dsn \in Names BY <1>0, <1>7 DEF CreateVM, Machines
  <2> QED BY <1>7, <2>1 DEF CreateVM, InfraChanges
<1>8. CASE InfraReports BY <1>8 DEF InfraReports, InfraChanges
<1>9. CASE MachineTakesProviderID
  BY <1>0, <1>9 DEF MachineTakesProviderID, MachineChanges, Machines
<1>10. CASE NodeJoins BY <1>0, <1>10 DEF NodeJoins, MachineChanges, Machines
<1>11. CASE Migrate BY <1>11 DEF Migrate, bootVars
<1>12. CASE RequeueSoon BY <1>12 DEF RequeueSoon
<1>13. CASE UNCHANGED vars BY <1>13 DEF vars, bootVars
<1> QED BY <1>1, <1>2, <1>3, <1>4, <1>5, <1>6, <1>7, <1>8, <1>9, <1>10, <1>11, <1>12, <1>13

\* What goes wrong beside the passes spends a budget of its own.
LEMMA AsideSpent ==
  ASSUME ConfigInv,
         TogglePause \/ ToggleReachable \/ SecretDeleted \/ DeleteConfig \/ ControlPlaneChanges
  PROVE  Aside
<1>0. cluster \in Clusters /\ secrets \in [Names -> Renders] /\ budget \in Budgets
  BY DEF ConfigInv, TypeOK, WorldTypeOK, ConfigTypeOK
<1> USE DEF Aside, OnlyGo, joinVars
<1>1. CASE TogglePause BY <1>0, <1>1 DEF TogglePause, Clusters, Budgets
<1>2. CASE ToggleReachable BY <1>0, <1>2 DEF ToggleReachable, Budgets
<1>3. CASE SecretDeleted BY <1>0, <1>3 DEF SecretDeleted, Budgets
<1>4. CASE DeleteConfig BY <1>0, <1>4 DEF DeleteConfig, Budgets
<1>5. CASE ControlPlaneChanges BY <1>0, <1>5 DEF ControlPlaneChanges, Budgets
<1> QED BY <1>1, <1>2, <1>3, <1>4, <1>5

\* The steps with which a pass starts.
Starts ==
  \/ SkipPass \/ WaitForInfrastructure \/ WaitForProviderID \/ NoData \/ KeepData
  \/ RevokeJoined \/ StopAtCap \/ ExtendUnjoined \/ DeleteSecret

\* The kinds of steps there are for a token.
LEMMA KindsOfSteps ==
  ASSUME ConfigInv, [Next]_vars
  PROVE  \/ Aside \/ Starts \/ RenderWorker \/ RenderControlPlane \/ WriteSecret \/ PatchStatus
         \/ RemoveFinalizer \/ PatchFails \/ Restart \/ CacheSync \/ Tick \/ Clean
BY AsideUnspent, AsideSpent DEF Next, PassStep, Others, Ended, Starts

\* A pass that starts moves the copy it read, or what is stored, into its working copy.
LEMMA StartStep ==
  ASSUME ConfigInv, Starts
  PROVE  /\ pass.pc = "idle" /\ pass'.pc \in {"render", "patch"}
         /\ UNCHANGED <<spec, cluster, machine, vm, age, status, seen, object, timers, budget, minted>>
         /\ OnlyGo
         /\ pass'.pc = "render" => machine.owns
         /\ pass'.st.token \in {seen.token, None} \union {secrets[n].token : n \in Names}
<1>0. pass \in Passes /\ seen \in Statuses /\ secrets \in [Names -> Renders]
  BY DEF ConfigInv, TypeOK, ConfigTypeOK
<1>a. ASSUME NEW s \in Statuses, NEW m, Finish(s, m)
      PROVE  pass'.pc = "patch" /\ pass'.st = s /\ pass'.more = m
  BY <1>0, <1>a DEF Finish, Passes
<1>b. ASSUME NEW s \in Statuses, ToRender(s) PROVE pass'.pc = "render" /\ pass'.st = s
  BY <1>0, <1>b DEF ToRender, Passes
<1>c. ASSUME NEW s \in Statuses, NEW r \in BOOLEAN, Settle(s, r)
      PROVE  pass'.pc \in {"render", "patch"} /\ pass'.st.token = s.token
  BY <1>a, <1>b, <1>c, StatusTypes DEF Settle
<1>d. \A n \in Names : secrets[n].token \in 0..MaxTokens BY <1>0 DEF Renders
<1>e. LacksProviderID \in BOOLEAN BY DEF LacksProviderID, currentProviderID
<1> USE DEF StartsPass, Reconciles, ReconcilesData, TokenPass, joinVars, OnlyGo
<1>1. CASE SkipPass BY <1>0, <1>1, <1>a DEF SkipPass
<1>2. CASE WaitForInfrastructure
  <2>1. [seen EXCEPT !.cond = "infrastructure"] \in Statuses /\ [seen EXCEPT !.cond = "infrastructure"].token = seen.token
    BY <1>0 DEF Statuses, Waits
  <2> QED BY <1>2, <1>a, <2>1 DEF WaitForInfrastructure
<1>3. CASE WaitForProviderID BY <1>0, <1>3, <1>a DEF WaitForProviderID
<1>4. CASE NoData
  <2>1. [seen EXCEPT !.name = NoName] \in Statuses /\ [seen EXCEPT !.name = NoName].token = seen.token
    BY <1>0 DEF Statuses
  <2>2. OnlyGo BY <1>0, <1>4 DEF NoData, AlignedSecrets
  <2> QED BY <1>4, <1>b, <2>1, <2>2 DEF NoData
<1>5. CASE KeepData BY <1>0, <1>5, <1>c, <1>e DEF KeepData
<1>6. CASE RevokeJoined
  <2>1. [seen EXCEPT !.token = None] \in Statuses /\ [seen EXCEPT !.token = None].token = None
    BY <1>0, KubeadmAssumption DEF Statuses, None
  <2>2. CASE Finish(seen, "soon") /\ UNCHANGED minted BY <1>0, <1>6, <1>a, <2>2 DEF RevokeJoined
  <2>3. CASE Settle([seen EXCEPT !.token = None], LacksProviderID) /\ UNCHANGED minted
    BY <1>6, <1>c, <1>e, <2>1, <2>3 DEF RevokeJoined
  <2> QED BY <1>6, <2>2, <2>3 DEF RevokeJoined, RevokeWorkerToken
<1>7. CASE StopAtCap
  <2>1. [seen EXCEPT !.cond = "cap"] \in Statuses /\ [seen EXCEPT !.cond = "cap"].token = seen.token
    BY <1>0 DEF Statuses, Waits
  <2> QED BY <1>7, <1>a, <2>1 DEF StopAtCap
<1>8. CASE ExtendUnjoined
  <2> DEFINE s == bootstrapTokenIDFromBootstrapData(seen)
  <2>1. seen.name \in Names BY <1>0, <1>8 DEF ExtendUnjoined, HasData, Statuses
  <2>2. s \in Statuses /\ s.token \in {seen.token} \union {secrets[n].token : n \in Names}
    BY <1>0, <1>d, <2>1 DEF bootstrapTokenIDFromBootstrapData, Statuses
  <2>3. Failed(s) \in Statuses /\ Failed(s).token = s.token BY <2>2, StatusTypes
  <2>4. /\ UNCHANGED minted
        /\ \/ ToRender(s) \/ Finish(s, "soon") \/ Finish(Failed(s), "none")
           \/ Settle(s, LacksProviderID)
    BY <1>8 DEF ExtendUnjoined, ExtendWorkerToken
  <2> HIDE DEF s
  <2>5. pass'.pc \in {"render", "patch"} /\ pass'.st.token = s.token
    BY <1>a, <1>b, <1>c, <1>e, <2>2, <2>3, <2>4
  <2> QED BY <1>8, <2>2, <2>4, <2>5 DEF ExtendUnjoined
<1>9. CASE DeleteSecret
  <2> DEFINE s == IF RevokesOnDelete THEN [seen EXCEPT !.token = None] ELSE seen
  <2>1. s \in Statuses /\ s.token \in {seen.token, None}
    BY <1>0, KubeadmAssumption DEF Statuses, None
  <2>2. Finish(s, "soon") BY <1>9 DEF DeleteSecret
  <2> HIDE DEF s
  <2>3. OnlyGo BY <1>0, <1>9 DEF DeleteSecret
  <2>4. UNCHANGED minted BY <1>9 DEF DeleteSecret, revokeKubeadmTokenOnDelete, RevokeWorkerToken
  <2> QED BY <1>9, <1>a, <2>1, <2>2, <2>3, <2>4 DEF DeleteSecret
<1> QED BY <1>1, <1>2, <1>3, <1>4, <1>5, <1>6, <1>7, <1>8, <1>9 DEF Starts

\* A token that is extended has its whole life before it: it had more than five sixths
\* of it, or is given it again.
LEMMA ExtendsFully ==
  ASSUME KubeadmTypeOK, NEW t \in tokens, extendBootstrapToken(t)
  PROVE  left'[t] = TTL
<1>1. t \in TokenIDs /\ left \in [TokenIDs -> 0..3]
  BY KubeadmAssumption DEF KubeadmTypeOK, TokenIDs, TTL
<1>2. left'[t] = IF 6 * left[t] > 5 * 3 THEN left[t] ELSE 3
  BY <1>1 DEF extendBootstrapToken, TTL
<1>3. left[t] \in 0..3 BY <1>1
<1> QED BY <1>2, <1>3 DEF TTL

\* A render extends the token it found, to its whole life, or mints one when there is none
\* to reuse.
LEMMA ReuseOrMint ==
  ASSUME KubeadmTypeOK, NEW stored \in 0..MaxTokens, NEW t \in 0..MaxTokens,
         reuseOrMintBootstrapToken(stored, t)
  PROVE  /\ left'[t] = TTL
         /\ \/ /\ t \in tokens /\ tokens' = tokens /\ minted' = minted
               /\ stored = None \/ t = stored
            \/ /\ t = minted + 1 /\ minted' = minted + 1 /\ tokens' = tokens \union {t}
               /\ stored \notin tokens /\ (stored = None => tokens = {})
<1>0. /\ minted \in Nat /\ minted <= MaxTokens /\ tokens \subseteq 1..minted /\ left \in [TokenIDs -> 0..TTL]
  BY KubeadmAssumption DEF KubeadmTypeOK
<1>1. CASE Reusable(stored) # None
  <2>1. t = Reusable(stored) /\ extendBootstrapToken(t) /\ UNCHANGED <<tokens, minted>>
    BY <1>1 DEF reuseOrMintBootstrapToken
  <2>2. t \in tokens /\ (stored = None \/ t = stored)
    BY <1>1, <2>1, OwnedToken DEF Reusable, findOwnedBootstrapToken
  <2>3. left'[t] = TTL BY <1>0, <2>1, <2>2, ExtendsFully
  <2> QED BY <2>1, <2>2, <2>3
<1>2. CASE Reusable(stored) = None
  <2>1. t = minted + 1 /\ mintBootstrapToken BY <1>2 DEF reuseOrMintBootstrapToken
  <2>2. minted + 1 \in TokenIDs BY <1>0, <2>1, KubeadmAssumption DEF mintBootstrapToken, TokenIDs
  <2>3. left'[t] = TTL BY <1>0, <2>1, <2>2 DEF mintBootstrapToken
  <2>4. stored = None => tokens = {}
    <3> SUFFICES ASSUME stored = None, tokens # {} PROVE FALSE OBVIOUS
    <3>1. findOwnedBootstrapToken \in tokens BY OwnedToken
    <3> QED BY <1>0, <1>2, <3>1 DEF Reusable, None
  <2>5. stored \notin tokens BY <1>0, <1>2, <2>4 DEF Reusable, None
  <2> QED BY <2>1, <2>3, <2>4, <2>5 DEF mintBootstrapToken
<1> QED BY <1>1, <1>2

\* While the node is awaited, a pass that starts looks at the token unless there is data to
\* render or a providerID to wait for: it asks for a recheck only of a token it has just
\* extended, and for nothing only when it may not act at all.
LEMMA StartAwaited ==
  ASSUME ConfigInv, KubeadmWorker, AwaitsNode, Starts
  PROVE  /\ tokens' = tokens
         /\ left' = left \/ (\E t \in tokens : extendBootstrapToken(t))
         /\ pass'.pc = "patch" /\ pass'.more = "recheck" =>
              CapExceeded \/ (\E t \in tokens : extendBootstrapToken(t))
         /\ pass'.pc = "patch" /\ pass'.more = "none" =>
              ~machine.owns \/ cluster.paused \/ ~ClusterReady \/ Verdict = "refused"
         /\ pass'.st.token = seen.token \/ (seen.token = None /\ \E n \in Names : pass'.st.token = secrets[n].token)
<1>0. pass \in Passes /\ seen \in Statuses /\ secrets \in [Names -> Renders]
  BY DEF ConfigInv, TypeOK, ConfigTypeOK
<1>a. ASSUME NEW s \in Statuses, NEW m, Finish(s, m)
      PROVE  pass'.pc = "patch" /\ pass'.st = s /\ pass'.more = m
  BY <1>0, <1>a DEF Finish, Passes
<1>b. ASSUME NEW s \in Statuses, ToRender(s) PROVE pass'.pc = "render" /\ pass'.st = s
  BY <1>0, <1>b DEF ToRender, Passes
<1>d. \A n \in Names : secrets[n].token \in 0..MaxTokens BY <1>0 DEF Renders
<1> USE DEF StartsPass, Reconciles, ReconcilesData, TokenPass, joinVars, AwaitsNode
<1>1. CASE SkipPass BY <1>0, <1>1, <1>a DEF SkipPass
<1>2. CASE WaitForInfrastructure
  <2> DEFINE s == [seen EXCEPT !.cond = "infrastructure"]
  <2>1. s \in Statuses /\ s.token = seen.token BY <1>0 DEF Statuses, Waits
  <2>2. Finish(s, "none") /\ ~ClusterReady /\ UNCHANGED <<tokens, left>>
    BY <1>2 DEF WaitForInfrastructure
  <2> HIDE DEF s
  <2>3. pass'.pc = "patch" /\ pass'.st.token = seen.token /\ pass'.more = "none" BY <1>a, <2>1, <2>2
  <2> QED BY <2>2, <2>3
<1>3. CASE WaitForProviderID BY <1>0, <1>3, <1>a DEF WaitForProviderID
<1>4. CASE NoData
  <2>1. [seen EXCEPT !.name = NoName] \in Statuses /\ [seen EXCEPT !.name = NoName].token = seen.token
    BY <1>0 DEF Statuses
  <2> QED BY <1>4, <1>b, <2>1 DEF NoData
<1>5. CASE KeepData \/ RevokeJoined \/ DeleteSecret BY <1>5 DEF KeepData, RevokeJoined, DeleteSecret
<1>7. CASE StopAtCap
  <2> DEFINE s == [seen EXCEPT !.cond = "cap"]
  <2>1. s \in Statuses /\ s.token = seen.token BY <1>0 DEF Statuses, Waits
  <2>2. Finish(s, "recheck") /\ CapExceeded /\ UNCHANGED <<tokens, left>> BY <1>7 DEF StopAtCap
  <2> HIDE DEF s
  <2>3. pass'.pc = "patch" /\ pass'.st.token = seen.token /\ pass'.more = "recheck"
    BY <1>a, <2>1, <2>2
  <2> QED BY <2>2, <2>3
<1>8. CASE ExtendUnjoined
  <2> DEFINE s == bootstrapTokenIDFromBootstrapData(seen)
  <2>1. seen.name \in Names BY <1>0, <1>8 DEF ExtendUnjoined, HasData, Statuses
  <2>2. /\ s \in Statuses
        /\ s.token = seen.token \/ (seen.token = None /\ \E n \in Names : s.token = secrets[n].token)
    BY <1>0, <1>d, <2>1 DEF bootstrapTokenIDFromBootstrapData, Statuses
  <2>3. Failed(s) \in Statuses /\ Failed(s).token = s.token BY <2>2, StatusTypes
  <2>4. \/ ToRender(s) /\ UNCHANGED <<tokens, left>>
        \/ Finish(s, "soon") /\ UNCHANGED <<tokens, left>>
        \/ Verdict = "refused" /\ Finish(Failed(s), "none") /\ UNCHANGED <<tokens, left>>
        \/ /\ s.token \in tokens /\ extendBootstrapToken(s.token) /\ UNCHANGED tokens
           /\ Settle(s, LacksProviderID)
    BY <1>8 DEF ExtendUnjoined, ExtendWorkerToken
  <2> HIDE DEF s
  <2>5. AfterDataMore(s) # "none" BY <1>8 DEF AfterDataMore, kubeadmTokenRecheck, ExtendUnjoined
  <2>6. ASSUME Settle(s, LacksProviderID)
        PROVE  /\ pass'.st.token = s.token
               /\ pass'.pc = "render" \/ (pass'.pc = "patch" /\ pass'.more # "none")
    <3>1. CASE ToRender(s) BY <1>b, <2>2, <3>1
    <3>2. CASE Finish(AfterData(s), AfterDataMore(s))
      <4>1. AfterData(s) \in Statuses /\ AfterData(s).token = s.token BY <2>2, StatusTypes
      <4> QED BY <1>a, <2>5, <3>2, <4>1
    <3> QED BY <2>6, <3>1, <3>2 DEF Settle
  <2> QED BY <1>a, <1>b, <2>2, <2>3, <2>4, <2>6
<1> QED BY <1>1, <1>2, <1>3, <1>4, <1>5, <1>7, <1>8 DEF Starts

\* A render of a kubeadm worker that stops short keeps the record; else it has a token.
LEMMA RenderAwaited ==
  ASSUME ConfigInv, KubeadmWorker, RenderWorker
  PROVE  /\ pass.pc = "render"
         /\ UNCHANGED <<spec, cluster, machine, vm, age, status, seen, secrets, object, queued, timers, budget>>
         /\ pass'.st.token = pass.st.token
         /\ \/ /\ pass'.pc = "patch" /\ UNCHANGED <<tokens, left, minted>>
               /\ pass'.more = "soon" \/ (pass'.more = "none" /\ Verdict = "refused")
            \/ /\ Verdict = "ok"
               /\ \E t \in 0..MaxTokens :
                    /\ reuseOrMintBootstrapToken(pass.st.token, t)
                    /\ \/ pass'.pc = "write" /\ pass'.token = t
                       \/ pass'.pc = "patch" /\ ~resolveUserPassword
<1>0. pass \in Passes /\ pass.st \in Statuses BY DEF ConfigInv, TypeOK, ConfigTypeOK, Passes
<1>a. ASSUME NEW s \in Statuses, NEW m, Conclude(s, m)
      PROVE  pass'.pc = "patch" /\ pass'.st = s /\ pass'.more = m
  BY <1>0, <1>a DEF Conclude, Passes
<1>b. ASSUME NEW h, NEW t, ToWrite(h, t) PROVE pass'.pc = "write" /\ pass'.st = pass.st /\ pass'.token = t
  BY <1>0, <1>b DEF ToWrite, Passes
<1>c. Failed(pass.st) \in Statuses /\ Failed(pass.st).token = pass.st.token BY <1>0, StatusTypes
<1>d. WorkerJoin = Verdict BY DEF WorkerJoin, KubeadmWorker
<1>1. CASE Conclude(pass.st, "soon") /\ UNCHANGED <<tokens, left, minted>>
  BY <1>0, <1>1, <1>a DEF RenderWorker
<1>2. CASE Verdict = "refused" /\ Conclude(Failed(pass.st), "none") /\ UNCHANGED <<tokens, left, minted>>
  BY <1>2, <1>a, <1>c DEF RenderWorker
<1>3. ASSUME Verdict = "ok", NEW t \in 0..MaxTokens, reuseOrMintBootstrapToken(pass.st.token, t),
             IF resolveUserPassword THEN ToWrite(Gathered, t) ELSE Conclude(Failed(pass.st), "none")
      PROVE  /\ pass'.st.token = pass.st.token
             /\ (pass'.pc = "write" /\ pass'.token = t) \/ (pass'.pc = "patch" /\ ~resolveUserPassword)
  BY <1>3, <1>a, <1>b, <1>c
<1> QED BY <1>1, <1>2, <1>3, <1>d DEF RenderWorker

\* The write stores the pass's token and records it, or leaves both alone.
LEMMA WriteAwaited ==
  ASSUME ConfigInv, KubeadmWorker, WriteSecret
  PROVE  /\ pass.pc = "write" /\ pass'.pc = "patch"
         /\ UNCHANGED <<spec, cluster, machine, vm, age, status, seen, object, queued, timers, budget,
                        tokens, left, minted>>
         /\ \/ /\ pass'.st.token = pass.token
               /\ \A n \in Names : secrets'[n].token \in {secrets[n].token, pass.token}
               /\ ~machine.nodeRef => pass'.more # "none"
            \/ /\ ~(\A n \in Names : bootstrapSecretBelongsTo(secrets[n]))
               /\ pass'.st.token = pass.st.token /\ secrets' = secrets
<1>0. /\ pass \in Passes /\ pass.st \in Statuses /\ secrets \in [Names -> Renders]
      /\ pass.token \in 0..MaxTokens /\ machine \in Machines
  BY DEF ConfigInv, TypeOK, ConfigTypeOK, WorldTypeOK, Passes
<1>1. secretName \in Names BY <1>0 DEF secretName, Passes, Statuses, Names
<1>a. ASSUME NEW s \in Statuses, NEW m, Conclude(s, m)
      PROVE  pass'.pc = "patch" /\ pass'.st = s /\ pass'.more = m
  BY <1>0, <1>a DEF Conclude, Passes
<1>2. CASE bootstrapSecretBelongsTo(secrets[secretName])
  <2> DEFINE s == [pass.st EXCEPT !.name = secretName, !.token = IF KubeadmWorker THEN pass.token ELSE @]
  <2>1. s \in Statuses /\ s.token = pass.token BY <1>0, <1>1 DEF Statuses
  <2>2. /\ secrets' = [secrets EXCEPT ![secretName] = [has |-> pass.has, token |-> pass.token, mine |-> TRUE]]
        /\ Conclude(AfterData(s), AfterDataMore(s))
    BY <1>2 DEF WriteSecret
  <2> HIDE DEF s
  <2>3. ~machine.nodeRef => AfterDataMore(s) # "none" BY DEF AfterDataMore, kubeadmTokenRecheck
  <2>4. \A n \in Names : secrets'[n].token \in {secrets[n].token, pass.token} BY <1>0, <2>2
  <2>5. AfterData(s) \in Statuses /\ AfterData(s).token = pass.token BY <2>1, StatusTypes
  <2>6. pass'.pc = "patch" /\ pass'.st.token = pass.token /\ pass'.more = AfterDataMore(s)
    BY <1>a, <2>2, <2>5
  <2> QED BY <2>3, <2>4, <2>6 DEF WriteSecret, joinVars
<1>3. CASE ~bootstrapSecretBelongsTo(secrets[secretName])
  <2>1. Failed(pass.st) \in Statuses /\ Failed(pass.st).token = pass.st.token BY <1>0, StatusTypes
  <2>2. Conclude(Failed(pass.st), "none") /\ secrets' = secrets BY <1>3 DEF WriteSecret
  <2> QED BY <1>1, <1>3, <1>a, <2>1, <2>2 DEF WriteSecret, joinVars
<1> QED BY <1>2, <1>3

\* What a prompt check takes: the trust check answers as soon as the endpoint is there.
Timely == TimelyCheck(spec, budget, cp, deps, secrets) /\ reachable /\ ~cluster.paused

LEMMA TimelyVerdict ==
  ASSUME Timely PROVE Verdict # "refused" /\ (cluster.endpoint => Verdict = "ok")
<1>1. cp.initialized /\ cp.ref = "listed" /\ verifyKubeconfig = "ok"
  BY DEF Timely, TimelyCheck, Anchored, verifyKubeconfig, crossCheckClusterCA
<1> QED BY <1>1 DEF Timely, Verdict, trustedWorkloadClient, verifyTrustChain, verifyControlPlane

\* What has been spent does not come back, and what has been published stays.
LEMMA TimelyStays ==
  ASSUME ConfigInv, ConfigInv', Timely, [Next]_vars PROVE Timely'
<1>0. /\ budget \in Budgets /\ secrets \in [Names -> Renders] /\ spec' = spec /\ cluster \in Clusters
      /\ budget' \in Budgets
  BY WhoChangesWhat DEF ConfigInv, TypeOK, WorldTypeOK, ConfigTypeOK, vars, bootVars
<1>1. \A n \in Names : bootstrapSecretBelongsTo(secrets'[n])
  <2>1. OnlyGo \/ WriteSecret
    <3>1. UNCHANGED vars => OnlyGo BY DEF vars, bootVars, OnlyGo
    <3>2. secrets' = secrets => OnlyGo BY DEF OnlyGo
    <3>3. NoData \/ DeleteSecret => OnlyGo BY StartStep DEF Starts
    <3>4. SecretDeleted => OnlyGo BY AsideSpent DEF Aside
    <3> QED BY <3>1, <3>2, <3>3, <3>4, WhoChangesWhat
  <2>2. CASE OnlyGo BY <2>2 DEF OnlyGo, Timely, TimelyCheck, bootstrapSecretBelongsTo
  <2>3. CASE WriteSecret
    <3>1. secrets' = secrets \/ secrets' = [secrets EXCEPT ![secretName] =
                                  [has |-> pass.has, token |-> pass.token, mine |-> TRUE]]
      BY <2>3 DEF WriteSecret
    <3> QED BY <1>0, <3>1 DEF Timely, TimelyCheck, bootstrapSecretBelongsTo
  <2> QED BY <2>1, <2>2, <2>3
<1>2. /\ budget.pauses = 0 /\ budget.swaps = 0 /\ budget.outages = 0 /\ budget.delays <= 1
      /\ reachable /\ ~cluster.paused
  BY DEF Timely, TimelyCheck
<1>3. /\ UNCHANGED <<cp, reachable>> /\ ~cluster'.paused /\ deps \subseteq deps'
      /\ budget'.pauses = 0 /\ budget'.swaps = 0 /\ budget'.outages = 0 /\ budget'.delays <= 1
  <2> USE <1>0, <1>2 DEF joinVars, vars, bootVars
  <2>1. CASE PassStep
    <3>1. CASE Starts
      BY <3>1 DEF Starts, SkipPass, WaitForInfrastructure, WaitForProviderID, NoData, KeepData,
                  RevokeJoined, StopAtCap, ExtendUnjoined, DeleteSecret
    <3>2. CASE RenderWorker \/ RenderControlPlane \/ WriteSecret \/ RemoveFinalizer
      BY <3>2 DEF RenderWorker, RenderControlPlane, WriteSecret, RemoveFinalizer
    <3>3. CASE PatchStatus BY <3>3 DEF PatchStatus, Budgets
    <3> QED BY <2>1, <3>1, <3>2, <3>3 DEF PassStep, Starts
  <2>2. CASE PatchFails \/ Restart BY <2>2 DEF PatchFails, Restart, Budgets
  <2>3. CASE Migrate \/ CacheSync \/ RequeueSoon BY <2>3 DEF Migrate, CacheSync, RequeueSoon
  <2>4. CASE Others
    <3>1. CASE ProvisionCluster \/ PublishEndpoint
      BY <3>1 DEF ProvisionCluster, PublishEndpoint, Clusters
    <3>2. CASE \E d \in Published : Publish(d) BY <3>2 DEF Publish
    <3>3. CASE ~(ProvisionCluster \/ PublishEndpoint \/ \E d \in Published : Publish(d))
      BY <2>4, <3>3 DEF Others, SetOwner, MachineTakesSecret, CapkCopiesUserdata, CreateVM,
                        InfraReports, MachineTakesProviderID, NodeJoins
    <3> QED BY <3>1, <3>2, <3>3
  <2>5. CASE TogglePause \/ ToggleReachable \/ ControlPlaneChanges
    BY <2>5 DEF TogglePause, ToggleReachable, ControlPlaneChanges
  <2>6. CASE SecretDeleted \/ DeleteConfig BY <2>6 DEF SecretDeleted, DeleteConfig, Budgets
  <2>7. CASE Tick BY <2>7 DEF Tick, Budgets
  <2>8. CASE Clean \/ Ended \/ UNCHANGED vars BY <2>8 DEF Clean, TokenCleaner, Ended
  <2> QED BY <2>1, <2>2, <2>3, <2>4, <2>5, <2>6, <2>7, <2>8 DEF Next
<1> QED BY <1>0, <1>1, <1>2, <1>3 DEF Timely, TimelyCheck

\* A patch that cannot be lost is not.
LEMMA LosslessStays ==
  ASSUME ConfigInv, Lossless(budget), seen = status, [Next]_vars
  PROVE  /\ Lossless(budget') /\ seen' = status'
         /\ ~(PatchFails \/ Restart \/ CacheSync)
<1>0. budget \in Budgets BY DEF ConfigInv, TypeOK, WorldTypeOK
<1>1. budget.lags = 0 /\ budget.losses = 0 /\ budget.restarts = 0 BY DEF Lossless
<1>2. ~(PatchFails \/ Restart \/ CacheSync) BY <1>1 DEF PatchFails, Restart, CacheSync
<1>3. budget'.lags = 0 /\ budget'.losses = 0 /\ budget'.restarts = 0 /\ seen' = status'
  <2> USE <1>0, <1>1 DEF joinVars, vars, bootVars
  <2>1. CASE PassStep
    <3>1. CASE Starts
      BY <3>1 DEF Starts, SkipPass, WaitForInfrastructure, WaitForProviderID, NoData, KeepData,
                  RevokeJoined, StopAtCap, ExtendUnjoined, DeleteSecret
    <3>2. CASE RenderWorker \/ RenderControlPlane \/ WriteSecret \/ RemoveFinalizer
      BY <3>2 DEF RenderWorker, RenderControlPlane, WriteSecret, RemoveFinalizer
    <3>3. CASE PatchStatus BY <3>3 DEF PatchStatus
    <3> QED BY <2>1, <3>1, <3>2, <3>3 DEF PassStep, Starts
  <2>2. CASE Migrate \/ RequeueSoon BY <2>2 DEF Migrate, RequeueSoon
  <2>3. CASE Others
    BY <2>3 DEF Others, SetOwner, ProvisionCluster, PublishEndpoint, Publish, MachineTakesSecret,
                CapkCopiesUserdata, CreateVM, InfraReports, MachineTakesProviderID, NodeJoins
  <2>4. CASE TogglePause \/ ToggleReachable \/ ControlPlaneChanges
    BY <2>4 DEF TogglePause, ToggleReachable, ControlPlaneChanges, Budgets
  <2>5. CASE SecretDeleted \/ DeleteConfig BY <2>5 DEF SecretDeleted, DeleteConfig, Budgets
  <2>6. CASE Tick BY <2>6 DEF Tick, Budgets
  <2>7. CASE Clean \/ Ended \/ UNCHANGED vars BY <2>7 DEF Clean, TokenCleaner, Ended
  <2> QED BY <1>2, <2>1, <2>2, <2>3, <2>4, <2>5, <2>6, <2>7 DEF Next
<1> QED BY <1>2, <1>3 DEF Lossless

\* The records of tokens are numbers.
LEMMA TokenNumbers ==
  ASSUME ConfigInv
  PROVE  /\ vm.token \in Nat /\ status.token \in Nat /\ seen.token \in Nat /\ pass.st.token \in 0..MaxTokens
         /\ pass.token \in Nat /\ minted \in Nat /\ MaxTokens \in Nat
         /\ \A n \in Names : secrets[n].token \in Nat /\ secrets[n].token <= minted
<1>1. /\ vm \in Renders /\ status \in Statuses /\ seen \in Statuses /\ pass \in Passes
      /\ secrets \in [Names -> Renders] /\ minted \in 0..MaxTokens
  BY DEF ConfigInv, TypeOK, WorldTypeOK, ConfigTypeOK, KubeadmTypeOK
<1>2. pass.st \in Statuses /\ pass.token \in 0..MaxTokens BY <1>1 DEF Passes
<1>3. \A n \in Names : secrets[n].token \in 0..MaxTokens BY <1>1 DEF Renders
<1>4. vm.token \in 0..MaxTokens /\ status.token \in 0..MaxTokens /\ seen.token \in 0..MaxTokens
  BY <1>1 DEF Renders, Statuses
<1>5. pass.st.token \in 0..MaxTokens BY <1>2 DEF Statuses
<1>6. \A n \in Names : secrets[n].token <= minted BY DEF ConfigInv, DataInv
<1> QED BY <1>1, <1>2, <1>3, <1>4, <1>5, <1>6, KubeadmAssumption

\* No record is of a token that was not minted.
LEMMA MintedStays ==
  ASSUME ConfigInv, ConfigInv', MintedInv, [Next]_vars PROVE MintedInv'
<1>0. /\ vm.token <= minted /\ status.token <= minted /\ seen.token <= minted /\ pass.st.token <= minted
      /\ minted > 0 => KubeadmWorker /\ machine.owns /\ cluster.provisioned /\ cluster.endpoint
      /\ pass.pc \in {"render", "write"} => machine.owns
  BY DEF MintedInv
<1>a. /\ minted \in Nat /\ minted' \in Nat /\ vm.token \in Nat /\ status.token \in Nat /\ seen.token \in Nat
      /\ pass.st.token \in Nat /\ \A n \in Names : secrets[n].token <= minted
  BY TokenNumbers, KubeadmAssumption DEF ConfigInv, TypeOK, KubeadmTypeOK
<1>b. spec' = spec /\ KubeadmWorker' = KubeadmWorker
  BY SpecStays, WhoChangesWhat DEF vars, bootVars
<1>c. Idle.pc = "idle" /\ Idle.st.token = 0 BY DEF Idle, NewStatus, None
<1>1. CASE Aside
  <2>1. vm'.token <= minted BY <1>0, <1>1, <1>a DEF Aside
  <2> QED BY <1>0, <1>1, <1>b, <2>1 DEF Aside, MintedInv
<1>2. CASE Starts
  <2>1. pass'.st.token <= minted BY <1>0, <1>2, <1>a, StartStep DEF None
  <2> QED BY <1>0, <1>2, <1>b, <2>1, StartStep DEF MintedInv
<1>3. CASE RenderWorker /\ KubeadmWorker
  <2>1. /\ pass.pc = "render" /\ pass'.st.token = pass.st.token
        /\ UNCHANGED <<cluster, machine, vm, status, seen>>
    BY <1>3, RenderAwaited
  <2>2. CASE UNCHANGED minted BY <1>0, <1>b, <2>1, <2>2 DEF MintedInv
  <2>3. CASE ~UNCHANGED minted
    <3>1. Verdict = "ok" /\ \E t \in 0..MaxTokens : reuseOrMintBootstrapToken(pass.st.token, t)
      BY <1>3, <2>3, RenderAwaited
    <3>2. minted' = minted + 1
      BY <2>3, <3>1, ReuseOrMint, TokenNumbers DEF ConfigInv, TypeOK
    <3>3. cluster.endpoint
      BY <3>1 DEF Verdict, trustedWorkloadClient, verifyTrustChain, verifyControlPlane
    <3>4. cluster.provisioned BY <2>1 DEF ConfigInv, OrderInv, ClusterReady
    <3> QED BY <1>0, <1>3, <1>a, <1>b, <2>1, <3>2, <3>3, <3>4 DEF MintedInv
  <2> QED BY <2>2, <2>3
<1>4. CASE (RenderWorker /\ ~KubeadmWorker) \/ RenderControlPlane
  <2>0. pass \in Passes /\ pass.st \in Statuses BY DEF ConfigInv, TypeOK, ConfigTypeOK, Passes
  <2>1. /\ pass.pc = "render" /\ UNCHANGED <<cluster, machine, vm, status, seen, minted>>
    BY <1>4 DEF RenderWorker, RenderControlPlane, joinVars
  <2>2. pass'.st.token = pass.st.token
    <3>1. \/ \E h, t : ToWrite(h, t)
          \/ \E m : Conclude(pass.st, m) \/ Conclude(Failed(pass.st), m) \/ Conclude(MarkPushWait(pass.st), m)
      BY <1>4 DEF RenderWorker, RenderControlPlane
    <3>2. Failed(pass.st).token = pass.st.token /\ MarkPushWait(pass.st).token = pass.st.token
      BY <2>0, StatusTypes
    <3> QED BY <2>0, <3>1, <3>2 DEF ToWrite, Conclude, Passes
  <2> QED BY <1>0, <1>b, <2>1, <2>2 DEF MintedInv
<1>5. CASE WriteSecret
  <2>0. pass \in Passes /\ pass.st \in Statuses BY DEF ConfigInv, TypeOK, ConfigTypeOK, Passes
  <2>1. /\ pass.pc = "write" /\ pass'.pc = "patch" /\ UNCHANGED <<cluster, machine, vm, status, seen, minted>>
    BY <1>5, <2>0 DEF WriteSecret, joinVars, Conclude, Passes
  <2>2. pass.token <= minted BY <2>1 DEF ConfigInv, DataInv
  <2>3. pass'.st.token \in {pass.st.token, pass.token}
    <3>1. CASE KubeadmWorker BY <1>5, <3>1, WriteAwaited
    <3>2. CASE ~KubeadmWorker
      <4> DEFINE s == [pass.st EXCEPT !.name = secretName, !.token = IF KubeadmWorker THEN pass.token ELSE @]
      <4>1. secretName \in Names
        BY <2>0 DEF secretName, Passes, Statuses, Names
      <4>2. s \in Statuses /\ s.token = pass.st.token BY <2>0, <3>2, <4>1 DEF Statuses
      <4>3. Failed(pass.st).token = pass.st.token BY <2>0, StatusTypes
      <4>4. (\E m : Conclude(AfterData(s), m)) \/ (\E m : Conclude(Failed(pass.st), m))
        BY <1>5 DEF WriteSecret
      <4> HIDE DEF s
      <4>5. AfterData(s).token = pass.st.token BY <4>2, StatusTypes
      <4> QED BY <2>0, <4>3, <4>4, <4>5 DEF Conclude, Passes
    <3> QED BY <3>1, <3>2
  <2> QED BY <1>0, <1>b, <2>1, <2>2, <2>3 DEF MintedInv
<1>6. CASE PatchStatus
  <2>1. Patched.token <= minted BY <1>0, PatchedFields DEF ConfigInv
  <2>2. /\ pass' = Idle /\ status' = Patched /\ seen' \in {seen, Patched}
        /\ UNCHANGED <<cluster, machine, vm, minted>>
    BY <1>6 DEF PatchStatus, joinVars
  <2> QED BY <1>0, <1>a, <1>b, <1>c, <2>1, <2>2 DEF MintedInv
<1>7. CASE PatchFails \/ Restart \/ CacheSync
  <2>1. /\ pass' = Idle \/ (pass' = pass /\ pass.pc = "idle")
        /\ seen' \in {seen, status}
        /\ UNCHANGED <<cluster, machine, vm, minted, status>>
    BY <1>7 DEF PatchFails, Restart, CacheSync, joinVars
  <2> QED BY <1>0, <1>a, <1>b, <1>c, <1>7, <2>1 DEF MintedInv, PatchFails, Restart, CacheSync
<1>8. CASE RemoveFinalizer \/ Tick \/ Clean
  BY <1>0, <1>8, <1>b DEF MintedInv, RemoveFinalizer, revokeKubeadmTokenOnDelete, RevokeWorkerToken,
                          Tick, Clean, TokenCleaner, bootVars
<1> QED BY <1>1, <1>2, <1>3, <1>4, <1>5, <1>6, <1>7, <1>8, KindsOfSteps

\* With at most one late check ahead, the token a prompt check keeps outlives it: every pass
\* that asks for a recheck has just given the token its whole life.
LEMMA SlackStays ==
  ASSUME ConfigInv, ConfigInv', MintedInv, KubeadmWorker, Timely, SlackInv, [Next]_vars
  PROVE  SlackInv'
<1> SUFFICES ASSUME AwaitsNode', ~CapExceeded', minted' > 0
             PROVE  /\ minted' = 1 /\ tokens' = {1} /\ left'[1] >= 1 + budget'.delays
                    /\ ~Behind' \/ pass'.pc = "write" \/ (pass'.pc = "patch" /\ pass'.more = "recheck")
                         => left'[1] >= 2 + budget'.delays
                    /\ ~Behind' => "recheck" \in timers'
                    /\ pass'.pc = "patch" => pass'.more # "none"
  BY DEF SlackInv
<1>0. /\ budget \in Budgets /\ budget.delays \in Nat /\ budget.delays <= 1 /\ pass \in Passes
      /\ left \in [TokenIDs -> 0..3] /\ minted \in Nat /\ minted <= MaxTokens /\ MaxTokens \in Nat
      /\ age \in Nat /\ KubeadmTypeOK /\ timers \subseteq Requeues
  BY KubeadmAssumption
     DEF ConfigInv, TypeOK, WorldTypeOK, ConfigTypeOK, KubeadmTypeOK, Budgets, Timely, TimelyCheck, TTL
<1>a. pass.more \in {"soon", "recheck", "none"} BY <1>0 DEF Passes, Requeues
<1>b. ASSUME AwaitsNode, ~CapExceeded, minted > 0
      PROVE  /\ minted = 1 /\ tokens = {1} /\ left[1] >= 1 + budget.delays /\ left[1] \in 0..3 /\ 1 \in TokenIDs
             /\ ~Behind \/ pass.pc = "write" \/ (pass.pc = "patch" /\ pass.more = "recheck")
                  => left[1] >= 2 + budget.delays
             /\ ~Behind => "recheck" \in timers
             /\ pass.pc = "patch" => pass.more # "none"
             /\ machine.owns /\ ClusterReady /\ ~cluster.paused /\ Verdict = "ok"
  <2>1. 1 \in TokenIDs BY <1>0, <1>b DEF SlackInv, TokenIDs
  <2>2. machine.owns /\ ClusterReady /\ ~cluster.paused /\ Verdict = "ok"
    BY <1>b, TimelyVerdict DEF MintedInv, ClusterReady, ControlPlaneRole, KubeadmWorker, Timely
  <2> QED BY <1>0, <1>b, <2>1, <2>2 DEF SlackInv
<1>1. CASE Aside
  <2>1. AwaitsNode /\ ~CapExceeded /\ minted > 0 BY <1>1 DEF Aside, AwaitsNode, CapExceeded
  <2>2. Behind => Behind' BY <1>1 DEF Aside, Behind
  <2> QED BY <1>1, <1>b, <2>1, <2>2 DEF Aside
<1>2. CASE Starts
  <2>1. AwaitsNode /\ ~CapExceeded /\ minted > 0 BY <1>2, StartStep DEF AwaitsNode, CapExceeded
  <2>2. Behind' BY <1>2, StartStep DEF Behind
  <2>3. /\ tokens' = {1} /\ minted' = 1 /\ budget' = budget /\ pass'.pc # "write"
    BY <1>2, <1>b, <2>1, StartStep, StartAwaited
  <2>4. \A t \in tokens : extendBootstrapToken(t) => left'[1] = 3
    BY <1>0, <1>b, <2>1, ExtendsFully DEF TTL
  <2>5. left' = left \/ left'[1] = 3 BY <1>2, <2>1, <2>4, StartAwaited
  <2>6. pass'.pc = "patch" /\ pass'.more = "recheck" => left'[1] = 3
    BY <1>2, <2>1, <2>4, StartAwaited
  <2>7. pass'.pc = "patch" => pass'.more # "none" BY <1>2, <1>b, <2>1, StartAwaited
  <2> QED BY <1>0, <1>b, <2>1, <2>2, <2>3, <2>5, <2>6, <2>7
<1>3. CASE RenderWorker
  <2>0. /\ pass.pc = "render" /\ AwaitsNode /\ ~CapExceeded /\ budget' = budget /\ pass'.st.token = pass.st.token
    BY <1>3, RenderAwaited DEF AwaitsNode, CapExceeded
  <2>1. CASE pass'.pc = "patch" /\ UNCHANGED <<tokens, left, minted>> /\ pass'.more = "soon"
    BY <1>b, <2>0, <2>1 DEF Behind
  <2>2. ASSUME NEW t \in 0..MaxTokens, reuseOrMintBootstrapToken(pass.st.token, t),
               pass'.pc = "write", pass'.token = t
        PROVE  minted' = 1 /\ tokens' = {1} /\ left'[1] = 3
    <3>1. /\ left'[t] = 3
          /\ \/ /\ t \in tokens /\ tokens' = tokens /\ minted' = minted
                /\ pass.st.token = None \/ t = pass.st.token
             \/ /\ t = minted + 1 /\ minted' = minted + 1 /\ tokens' = tokens \union {t}
                /\ pass.st.token \notin tokens /\ (pass.st.token = None => tokens = {})
      BY <1>0, <2>2, TokenNumbers, ReuseOrMint DEF TTL
    <3>2. CASE minted = 0
      <4>1. tokens = {} BY <1>0, <3>2 DEF KubeadmTypeOK
      <4> QED BY <3>1, <3>2, <4>1
    <3>3. CASE minted > 0
      <4>1. minted = 1 /\ tokens = {1} BY <1>b, <2>0, <3>3
      <4>2. pass.st.token \in {0, 1} BY <4>1, TokenNumbers DEF MintedInv
      <4> QED BY <3>1, <4>1, <4>2 DEF None
    <3> QED BY <1>0, <3>2, <3>3
  <2>3. resolveUserPassword BY DEF Timely, TimelyCheck, resolveUserPassword
  <2>4. Verdict # "refused" BY TimelyVerdict
  <2>5. CASE pass'.pc = "write" /\ minted' = 1 /\ tokens' = {1} /\ left'[1] = 3
    BY <1>0, <2>0, <2>5 DEF Behind
  <2> QED BY <1>3, <2>1, <2>2, <2>3, <2>4, <2>5, RenderAwaited
<1>4. CASE RenderControlPlane BY <1>4 DEF RenderControlPlane, ControlPlaneRole, KubeadmWorker
<1>5. CASE WriteSecret
  <2>1. /\ AwaitsNode /\ ~CapExceeded /\ minted > 0 /\ budget' = budget /\ Behind' /\ pass.pc = "write"
        /\ UNCHANGED <<tokens, left, minted>> /\ pass'.pc = "patch"
    BY <1>5, WriteAwaited DEF AwaitsNode, CapExceeded, Behind
  <2>2. pass'.more # "none"
    BY <1>5, <2>1, WriteAwaited DEF AwaitsNode, Timely, TimelyCheck
  <2> QED BY <1>b, <2>1, <2>2
<1>6. CASE PatchStatus
  <2>1. /\ pass.pc = "patch" /\ pass' = Idle /\ UNCHANGED <<machine, object, age, tokens, left, minted>>
        /\ timers' = timers \union ({pass.more} \ {"none"})
    BY <1>6 DEF PatchStatus, joinVars
  <2>2. budget'.delays = budget.delays BY <1>0, <1>6 DEF PatchStatus, Budgets
  <2>3. AwaitsNode /\ ~CapExceeded /\ minted > 0 BY <2>1 DEF AwaitsNode, CapExceeded
  <2>4. pass'.pc = "idle" BY <2>1 DEF Idle
  <2>5. ~Behind' => pass.more = "recheck" /\ "recheck" \in timers'
    BY <1>a, <1>b, <2>1, <2>3 DEF Behind
  <2> QED BY <1>b, <2>1, <2>2, <2>3, <2>4, <2>5
<1>7. CASE RemoveFinalizer BY <1>7 DEF RemoveFinalizer, AwaitsNode
<1>8. CASE PatchFails \/ Restart \/ CacheSync
  <2>1. /\ UNCHANGED <<machine, object, age, tokens, left, minted>> /\ Behind'
    BY <1>8 DEF PatchFails, Restart, CacheSync, joinVars, Behind
  <2>2. budget'.delays = budget.delays BY <1>0, <1>8 DEF PatchFails, Restart, CacheSync, Budgets
  <2>3. AwaitsNode /\ ~CapExceeded /\ minted > 0 BY <2>1 DEF AwaitsNode, CapExceeded
  <2>4. pass'.pc = "idle" BY <1>8 DEF PatchFails, Restart, CacheSync, Idle
  <2> QED BY <1>b, <2>1, <2>2, <2>3, <2>4
<1>9. CASE Tick
  <2>1. /\ UNCHANGED <<machine, object, tokens, minted, pass, seen, status>>
        /\ queued' = (queued \/ "recheck" \in timers) /\ timers' = timers \ {"recheck"}
        /\ left' = [t \in TokenIDs |-> IF left[t] > 0 THEN left[t] - 1 ELSE 0]
        /\ ~Behind \/ budget.delays > 0
    BY <1>9 DEF Tick, TokensAge
  <2>2. AwaitsNode /\ ~CapExceeded /\ minted > 0
    BY <1>0, <1>9, <2>1 DEF AwaitsNode, CapExceeded, Tick
  <2>3. budget'.delays = IF Behind THEN budget.delays - 1 ELSE budget.delays
    BY <1>0, <1>9 DEF Tick, Budgets
  <2>4. left'[1] = left[1] - 1 BY <1>0, <1>b, <2>1, <2>2
  <2>5. Behind' BY <1>b, <2>1, <2>2 DEF Behind
  <2>6. CASE Behind BY <1>0, <1>b, <2>1, <2>2, <2>3, <2>4, <2>5, <2>6
  <2>7. CASE ~Behind
    <3>1. pass.pc = "idle" BY <2>7 DEF Behind
    <3> QED BY <1>0, <1>b, <2>1, <2>2, <2>3, <2>4, <2>5, <2>7, <3>1
  <2> QED BY <2>6, <2>7
<1>10. CASE Clean
  <2>1. /\ UNCHANGED <<machine, object, age, minted, left>> /\ \E t \in tokens : left[t] = 0
    BY <1>10 DEF Clean, TokenCleaner, bootVars
  <2>2. AwaitsNode /\ ~CapExceeded /\ minted > 0 BY <2>1 DEF AwaitsNode, CapExceeded
  <2> QED BY <1>0, <1>b, <2>1, <2>2
<1> QED BY <1>1, <1>2, <1>3, <1>4, <1>5, <1>6, <1>7, <1>8, <1>9, <1>10, KindsOfSteps

\* While no patch is lost, the token on record is the only one that exists of those that are
\* held: another is written only when it is gone.
LEMMA RecordStays ==
  ASSUME ConfigInv, ConfigInv', MintedInv, KubeadmWorker, Lossless(budget), seen = status, RecordInv,
         [Next]_vars
  PROVE  RecordInv'
<1> DEFINE Rec == IF pass.pc = "idle" THEN status.token ELSE pass.st.token
<1> SUFFICES ASSUME AwaitsNode'
             PROVE  /\ vm'.token \in tokens' => vm'.token = Rec'
                    /\ \A n \in Names : secrets'[n].token \in tokens' => secrets'[n].token = Rec'
                    /\ pass'.pc = "write" => pass'.token = pass'.st.token \/ pass'.st.token \notin tokens'
  BY DEF RecordInv
<1>0. /\ tokens \subseteq 1..minted /\ None \notin tokens /\ pass \in Passes
      /\ pass.base = seen \/ pass.pc = "idle"
  BY DEF ConfigInv, TypeOK, ConfigTypeOK, KubeadmTypeOK, None, OrderInv
<1>a. ASSUME AwaitsNode
      PROVE  /\ vm.token \in tokens => vm.token = Rec
             /\ \A n \in Names : secrets[n].token \in tokens => secrets[n].token = Rec
             /\ pass.pc = "write" => pass.token = pass.st.token \/ pass.st.token \notin tokens
  BY <1>a DEF RecordInv
<1>b. Absent.token = None BY DEF Absent
<1>1. CASE Aside
  <2>1. AwaitsNode /\ Rec' = Rec BY <1>1 DEF Aside, AwaitsNode
  <2>2. \A n \in Names : secrets'[n].token = secrets[n].token \/ secrets'[n].token = None
    BY <1>1, <1>b DEF Aside, OnlyGo
  <2>3. /\ vm' = vm \/ \E n \in Names : vm' = secrets[n]
        /\ tokens' = tokens /\ pass' = pass
    BY <1>1 DEF Aside
  <2> HIDE DEF Rec
  <2>4. /\ vm.token \in tokens => vm.token = Rec
        /\ \A n \in Names : secrets[n].token \in tokens => secrets[n].token = Rec
        /\ pass.pc = "write" => pass.token = pass.st.token \/ pass.st.token \notin tokens
    BY <1>a, <2>1
  <2>5. vm'.token \in tokens' => vm'.token = Rec' BY <2>1, <2>3, <2>4
  <2>6. \A n \in Names : secrets'[n].token \in tokens' => secrets'[n].token = Rec'
    BY <1>0, <2>1, <2>2, <2>3, <2>4
  <2> QED BY <2>3, <2>4, <2>5, <2>6
<1>2. CASE Starts
  <2>1. /\ AwaitsNode /\ Rec = seen.token /\ Rec' = pass'.st.token /\ tokens' = tokens
        /\ pass'.pc # "write" /\ vm' = vm
    <3>1. AwaitsNode BY <1>2, StartStep DEF AwaitsNode
    <3> QED BY <1>2, <3>1, StartStep, StartAwaited
  <2>2. \A n \in Names : secrets'[n].token = secrets[n].token \/ secrets'[n].token = None
    BY <1>2, <1>b, StartStep DEF OnlyGo
  <2> HIDE DEF Rec
  <2>5. /\ vm.token \in tokens => vm.token = seen.token
        /\ \A n \in Names : secrets[n].token \in tokens => secrets[n].token = seen.token
    BY <1>a, <2>1
  <2>3. CASE pass'.st.token = seen.token BY <1>0, <2>1, <2>2, <2>3, <2>5
  <2>4. CASE seen.token = None
    <3>1. vm'.token \notin tokens' /\ \A n \in Names : secrets'[n].token \notin tokens'
      BY <1>0, <2>1, <2>2, <2>4, <2>5
    <3> QED BY <2>1, <3>1
  <2> QED BY <1>2, <2>1, <2>3, <2>4, StartAwaited
<1>3. CASE RenderWorker
  <2>1. /\ AwaitsNode /\ Rec = pass.st.token /\ Rec' = pass.st.token /\ vm' = vm /\ secrets' = secrets
        /\ pass'.st.token = pass.st.token
    BY <1>3, RenderAwaited DEF AwaitsNode
  <2> HIDE DEF Rec
  <2>2. CASE UNCHANGED tokens /\ pass'.pc = "patch" BY <1>a, <2>1, <2>2
  <2>3. ASSUME NEW t \in 0..MaxTokens, reuseOrMintBootstrapToken(pass.st.token, t),
               pass'.pc = "patch" \/ (pass'.pc = "write" /\ pass'.token = t)
        PROVE  /\ vm'.token \in tokens' => vm'.token = Rec'
               /\ \A n \in Names : secrets'[n].token \in tokens' => secrets'[n].token = Rec'
               /\ pass'.pc = "write" => pass'.token = pass'.st.token \/ pass'.st.token \notin tokens'
    <3>1. \/ /\ t \in tokens /\ tokens' = tokens /\ minted' = minted
             /\ pass.st.token = None \/ t = pass.st.token
          \/ /\ t = minted + 1 /\ tokens' = tokens \union {t} /\ pass.st.token \notin tokens
      BY <2>3, TokenNumbers, ReuseOrMint DEF ConfigInv, TypeOK
    <3>2. /\ vm.token # minted + 1 /\ pass.st.token # minted + 1
          /\ \A n \in Names : secrets[n].token # minted + 1
      BY TokenNumbers DEF MintedInv
    <3>3. CASE tokens' = tokens /\ (pass.st.token = None \/ t = pass.st.token)
      <4>1. /\ vm.token \in tokens => vm.token = pass.st.token
            /\ \A n \in Names : secrets[n].token \in tokens => secrets[n].token = pass.st.token
        BY <1>a, <2>1
      <4>2. pass'.pc = "write" => t = pass.st.token \/ pass.st.token \notin tokens BY <1>0, <3>3
      <4> QED BY <2>1, <2>3, <3>3, <4>1, <4>2
    <3>4. CASE t = minted + 1 /\ tokens' = tokens \union {t} /\ pass.st.token \notin tokens
      BY <1>a, <2>1, <2>3, <3>2, <3>4
    <3> QED BY <3>1, <3>3, <3>4
  <2> QED BY <1>3, <2>2, <2>3, RenderAwaited
<1>4. CASE RenderControlPlane BY <1>4 DEF RenderControlPlane, ControlPlaneRole, KubeadmWorker
<1>5. CASE WriteSecret
  <2>1. /\ AwaitsNode /\ Rec = pass.st.token /\ Rec' = pass'.st.token /\ vm' = vm /\ tokens' = tokens
        /\ pass.pc = "write" /\ pass'.pc = "patch"
    BY <1>5, WriteAwaited DEF AwaitsNode
  <2> HIDE DEF Rec
  <2>2. CASE /\ pass'.st.token = pass.token
             /\ \A n \in Names : secrets'[n].token \in {secrets[n].token, pass.token}
    BY <1>a, <2>1, <2>2
  <2>3. CASE pass'.st.token = pass.st.token /\ secrets' = secrets BY <1>a, <2>1, <2>3
  <2> QED BY <1>5, <2>2, <2>3, WriteAwaited
<1>6. CASE PatchStatus
  <2>1. /\ AwaitsNode /\ pass.pc = "patch" /\ pass' = Idle /\ status' = Patched
        /\ UNCHANGED <<vm, secrets, tokens>>
    BY <1>6 DEF PatchStatus, joinVars, AwaitsNode
  <2>2. Patched.token = pass.st.token BY <1>0, <2>1, PatchedFields DEF ConfigInv
  <2>3. Rec = pass.st.token /\ Rec' = pass.st.token /\ pass'.pc = "idle" BY <2>1, <2>2 DEF Idle
  <2> HIDE DEF Rec
  <2> QED BY <1>a, <2>1, <2>3
<1>7. CASE RemoveFinalizer BY <1>7 DEF RemoveFinalizer, AwaitsNode
<1>8. ~(PatchFails \/ Restart \/ CacheSync) BY LosslessStays
<1>9. CASE Tick \/ Clean
  <2>1. /\ AwaitsNode /\ UNCHANGED <<vm, secrets, status, pass>> /\ tokens' \subseteq tokens
    BY <1>9 DEF Tick, Clean, TokenCleaner, bootVars, AwaitsNode
  <2>2. Rec' = Rec BY <2>1
  <2> HIDE DEF Rec
  <2> QED BY <1>a, <2>1, <2>2
<1> HIDE DEF Rec
<1> QED BY <1>1, <1>2, <1>3, <1>4, <1>5, <1>6, <1>7, <1>8, <1>9, KindsOfSteps

\* No token is minted yet, and the scenario is one of those that allow a token to be kept.
LEMMA InitTokens == ASSUME TokenScenarios, Init PROVE TokenInv
<1>1. PICK s \in Scenarios :
        /\ spec = s.spec /\ budget = s.budget /\ deps = s.deps /\ cp = s.cp
        /\ secrets = s.secrets /\ status = [NewStatus EXCEPT !.name = s.name] /\ seen = status
  BY DEF Init
<1>2. /\ cluster = [provisioned |-> FALSE, endpoint |-> FALSE, paused |-> FALSE]
      /\ vm = Absent /\ pass = Idle /\ reachable = TRUE /\ tokens = {} /\ minted = 0
  BY DEF Init
<1>3. vm.token = 0 /\ status.token = 0 /\ seen.token = 0 /\ pass.st.token = 0 /\ pass.pc = "idle" /\ ~cluster.paused
  BY <1>1, <1>2 DEF Absent, NewStatus, Idle, None
<1>4. MintedInv BY <1>2, <1>3 DEF MintedInv
<1>5. SlackInv /\ RecordInv BY <1>2, <1>3 DEF SlackInv, RecordInv
<1>6. KubeadmWorker => IF spec.prompt THEN TimelyCheck(spec, budget, cp, deps, secrets) ELSE Lossless(budget)
  BY <1>1 DEF KubeadmWorker, TokenScenarios
<1> QED BY <1>1, <1>2, <1>3, <1>4, <1>5, <1>6 DEF TokenInv

\* Every step keeps the token that the node is to join with.
LEMMA NextTokens == ASSUME ConfigInv, ConfigInv', TokenInv, [Next]_vars PROVE TokenInv'
<1>1. MintedInv' BY MintedStays DEF TokenInv
<1>2. spec' = spec /\ KubeadmWorker' = KubeadmWorker
  BY SpecStays, WhoChangesWhat DEF vars, bootVars
<1>3. CASE KubeadmWorker /\ spec.prompt
  <2>1. Timely /\ MintedInv /\ SlackInv BY <1>3 DEF TokenInv, Timely
  <2>2. Timely' /\ SlackInv' BY <1>3, <2>1, TimelyStays, SlackStays
  <2> QED BY <1>1, <1>2, <1>3, <2>2 DEF TokenInv, Timely
<1>4. CASE KubeadmWorker /\ ~spec.prompt
  <2>1. Lossless(budget) /\ seen = status /\ MintedInv /\ RecordInv BY <1>4 DEF TokenInv
  <2>2. Lossless(budget') /\ seen' = status' /\ RecordInv' BY <1>4, <2>1, LosslessStays, RecordStays
  <2> QED BY <1>1, <1>2, <1>4, <2>2 DEF TokenInv
<1> QED BY <1>1, <1>2, <1>3, <1>4 DEF TokenInv

\* Whatever the order of passes, lagging copies, lost patches, restarts, deletions and
\* outages, the finalizer outlives the Secret on record, what is on record is this
\* controller's and complete, and a node that was given a push token can use it unless
\* a render comes between a starting manager's list of the Roles and its patch
\* (reconcileDelete, nodepush.Resolve, alignBootstrapSecretWithMachine); and, in the
\* scenarios that allow it, the worker's one token is kept (reconcileKubeadmBootstrapToken).
THEOREM BootstrapHolds == Spec => []BootstrapInv
<1>1. Init => BootstrapInv BY InitInv, InitTokens DEF BootstrapInv
<1>2. BootstrapInv /\ [Next]_vars => BootstrapInv' BY NextInv, NextTokens DEF BootstrapInv
<1> QED BY <1>1, <1>2, PTL DEF Spec

\* The token in the VM of a node that has not joined stays live up to the cap, although a
\* recheck comes a whole interval late, patches are lost, the cache lags, the data is wiped
\* and the manager restarts; and the token that is recorded, and so extended and revoked, is
\* that one. Past the cap, where nothing is extended any more, the second part needs patches
\* that arrive: a token minted anew whose record is lost is not looked for while an older
\* one is recorded (reconcileKubeadmBootstrapToken, ensureBootstrapToken).
THEOREM HeldTokensAreKept ==
  ASSUME TokenScenarios PROVE Spec => []((spec.prompt => ~CapExceeded) => HeldTokenIsKept)
<1>1. ASSUME BootstrapInv PROVE (spec.prompt => ~CapExceeded) => HeldTokenIsKept
  <2> SUFFICES ASSUME spec.prompt => ~CapExceeded, AwaitsNode, vm.token # None
               PROVE  /\ spec.prompt /\ age <= RefreshCap => Live(vm.token)
                      /\ ~Behind /\ Live(vm.token) /\ status.token # None => status.token = vm.token
    BY DEF HeldTokenIsKept, AwaitsNode
  <2>0. ConfigInv /\ TokenInv BY <1>1 DEF BootstrapInv
  <2>1. /\ vm.token \in Nat /\ status.token \in Nat /\ minted \in Nat
        /\ vm.token <= minted /\ status.token <= minted
    BY <2>0, TokenNumbers DEF TokenInv, MintedInv
  <2>2. minted > 0 /\ KubeadmWorker BY <2>0, <2>1 DEF TokenInv, MintedInv, None
  <2>3. CASE spec.prompt
    <3>1. SlackInv BY <2>0, <2>2, <2>3 DEF TokenInv
    <3>2. minted = 1 /\ tokens = {1} /\ left[1] >= 1 + budget.delays /\ budget.delays \in Nat /\ left[1] \in 0..3
      <4>1. minted = 1 /\ tokens = {1} /\ left[1] >= 1 + budget.delays
        BY <2>2, <2>3, <3>1 DEF SlackInv
      <4>2. budget.delays \in Nat BY <2>0 DEF ConfigInv, TypeOK, WorldTypeOK, Budgets
      <4>3. minted <= MaxTokens /\ left \in [TokenIDs -> 0..3]
        BY <2>0, KubeadmAssumption DEF ConfigInv, TypeOK, KubeadmTypeOK, TTL
      <4>4. 1 \in TokenIDs BY <4>1, <4>3, KubeadmAssumption DEF TokenIDs
      <4> QED BY <4>1, <4>2, <4>3, <4>4
    <3>3. vm.token = 1 /\ (status.token # None => status.token = 1) BY <2>1, <3>2 DEF None
    <3> QED BY <3>2, <3>3 DEF Live
  <2>4. CASE ~spec.prompt
    <3>1. RecordInv BY <2>0, <2>2, <2>4 DEF TokenInv
    <3>2. ~Behind => pass.pc = "idle" BY DEF Behind
    <3> QED BY <2>4, <3>1, <3>2 DEF RecordInv, Live
  <2> QED BY <2>3, <2>4
<1> QED BY <1>1, BootstrapHolds, PTL
=============================================================================
