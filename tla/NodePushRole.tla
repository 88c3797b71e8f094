---------------------------- MODULE NodePushRole ----------------------------
(***************************************************************************)
(* The per-cluster ServiceAccount, Role and RoleBinding with which the     *)
(* control-plane nodes patch the Secrets they push to: how a render brings *)
(* them up to date, and how the migrator narrows an older release's Role   *)
(* when a manager starts. `nodeRole.owner' is the controller owner of the  *)
(* three objects.                                                          *)
(***************************************************************************)
EXTENDS Integers

VARIABLES
  nodeRole,   \* the Role, and its controller owner
  migrator    \* what a starting manager's migrator has listed and not yet patched

roleVars == <<nodeRole, migrator>>

NoWork == [pc |-> "idle", rules |-> {}]

Owners == {"absent", "cluster", "config", "foreign"}

\* A rule's empty set of names covers every name, its verb "*" every verb.
SecretNames == {"push", "etcd", "join", "contract"}
Verbs == {"get", "create", "update", "patch"}
Rules == [resource: {"secrets", "vmi", "*"}, names: SUBSET SecretNames, verbs: SUBSET (Verbs \union {"*"})]
Roles == [owner: Owners, rules: SUBSET Rules]
Rule(resource, names, verbs) == [resource |-> resource, names |-> names, verbs |-> verbs]

Covers(r, resource, n, v) ==
  /\ r.resource \in {resource, "*"} /\ (r.names = {} \/ n \in r.names)
  /\ r.verbs \intersect {v, "*"} # {}

\* What a set of rules lets its holder do.
Permits(rules) ==
  {g \in {"secrets", "vmi"} \X SecretNames \X Verbs :
     \E r \in rules : Covers(r, g[1], g[2], g[3])}

\* The two Secrets every control-plane node may patch, and no other verb.
PushRule == Rule("secrets", {"push", "etcd"}, {"patch"})
VMIRule  == Rule("vmi", {}, {"get"})

\* What a node needs of the Role to push.
PushGrants == {"secrets"} \X {"push", "etcd"} \X {"patch"}

nodePushAllowedRules == {PushRule, VMIRule}

\* Mutant: the Role covers the kubeconfig Secret only.
KubeconfigOnly(dist) == {Rule("secrets", {"push"}, {"patch"})}

\* Resolve's rules: only a k0s control-plane node reads its VirtualMachineInstance.
ResolvedRules(dist) == {PushRule} \union (IF dist = "k0s" THEN {VMIRule} ELSE {})

\* A role of the older releases is updated in place when the Cluster controls it;
\* one that a KairosConfig or anyone else controls cannot be taken over.
ResolvableRole == nodeRole.owner \in {"absent", "cluster"}
ResolveRole(dist) == nodeRole' = [owner |-> "cluster", rules |-> ResolvedRules(dist)]

-----------------------------------------------------------------------------
(* The migrator                                                            *)

\* Mutant: a rule for some names counts for all.
GrantedForAnyName(rules, resource, name) ==
  UNION {r.verbs : r \in {q \in rules : q.resource \in {resource, "*"}}}

\* The verbs the rules grant on the resource for one name; for all names at once,
\* only the rules without names count.
grantedVerbs(rules, resource, name) ==
  UNION {r.verbs : r \in {q \in rules : q.resource \in {resource, "*"} /\ (q.names = {} \/ name \in q.names)}}

intersectVerbs(allowed, granted) == IF "*" \in granted THEN allowed ELSE allowed \intersect granted

\* The names of an allowed rule that keep its verbs; an allowed rule without
\* names survives only if a rule without names granted it.
AllNames == "*"
Kept(rule, rules) ==
  IF rule.names = {}
    THEN {Rule(rule.resource, {}, intersectVerbs(rule.verbs, grantedVerbs(rules, rule.resource, AllNames)))}
    ELSE {Rule(rule.resource, {n \in rule.names : v \in intersectVerbs(rule.verbs, grantedVerbs(rules, rule.resource, n))}, {v}) :
            v \in rule.verbs}

intersectNodePushRules(rules) ==
  {k \in UNION {Kept(a, rules) : a \in nodePushAllowedRules} : k.verbs # {} /\ (k.resource = "secrets" => k.names # {})}

\* The Cluster's Role, or one that a KairosConfig of an older release controls.
targetNodePushCluster == nodeRole.owner \in {"cluster", "config"}

\* Start reads the Roles, or fails and leaves them to the next render, ...
ListRoles ==
  \/ /\ targetNodePushCluster /\ intersectNodePushRules(nodeRole.rules) # nodeRole.rules
     /\ migrator' = [pc |-> "listed", rules |-> nodeRole.rules]
  \/ migrator' = NoWork

\* ... and patches the rules it read, with no version to guard them; a failed
\* patch is logged and skipped.
PatchRole ==
  /\ migrator.pc = "listed" /\ migrator' = NoWork
  /\ nodeRole' \in {nodeRole, [nodeRole EXCEPT !.rules = intersectNodePushRules(migrator.rules)]}

RoleTypeOK ==
  /\ nodeRole \in Roles
  /\ migrator \in [pc: {"idle", "listed"}, rules: SUBSET Rules]
=============================================================================
