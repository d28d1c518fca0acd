---------------------------- MODULE PermissionAccess ----------------------------
(***************************************************************************)
(* Who may do what, and how FXServer learns of it.                         *)
(*                                                                         *)
(* The permission store (src/src/core/permission-store.ts) holds principal *)
(* edges, grants, policy constraints and ACE mirror rules; the engine      *)
(* (permissions.ts) decides from a snapshot of them.  Discord role         *)
(* synchronisation (src/src/connectors/discord.ts) rewrites the edges of   *)
(* its own source from a snapshot of the guild.  The FiveM connector       *)
(* mirrors grants and edges into FXServer's access control list: it plans  *)
(* commands (ace.ts) from what it remembers to have applied, sends them,   *)
(* and remembers the new state once the server has answered.               *)
(*                                                                         *)
(* The fault model: the answer to an emitted event may be an error whether *)
(* or not the commands ran, FXServer restarts with an empty list, and the  *)
(* connector restarts with an empty memory while the store's rows live on  *)
(* in the database.  Time is a clock whose every tick may expire edges and *)
(* grants.                                                                 *)
(***************************************************************************)
EXTENDS Integers, FiniteSets, Sequences, SequencesExt

CONSTANTS
    Permissions,      \* permission keys
    Contexts,         \* evaluation contexts: [amount, currency, namespace, state]
    EdgeKeys,         \* edges an administrator may draw: [parent, child, source]
    GrantKeys,        \* grants that may be made: [principal, permission, effect]
    RuleInputs,       \* mirror rules: [id, permission, ace, enabled, mode]
    PolicyInputs,     \* policies: [id, permission, type, constraint, enabled]
    Guild,            \* the source "discord:<guild>" of the connector's edges
    Users,            \* members of the guild
    RoleMappings,     \* mappings an operator may configure: [role, target]
    EdgeTtl,          \* edgeTtlMs, or Never
    Never,            \* no expiry
    Absent,           \* an undefined field of a context or a constraint
    MaxClock, MaxEdits, MaxFaults

ASSUME AccessAssumption ==
    /\ Never \notin Nat
    /\ EdgeTtl \in (Nat \ {0}) \cup {Never}
    /\ MaxClock \in Nat /\ MaxEdits \in Nat /\ MaxFaults \in Nat
    /\ \A edge \in EdgeKeys : edge.source # Guild
    /\ GrantKeys \subseteq [principal : {grant.principal : grant \in GrantKeys}, permission : Permissions,
                           effect : {"allow", "deny"}]
    /\ IsFiniteSet(Users) /\ IsFiniteSet(RoleMappings)

VARIABLES
    edges,            \* edgesByKey: key -> expiry
    grants,           \* grantsByKey: key -> expiry
    policies,         \* policiesById: id -> policy
    rules,            \* aceMirrorRulesById, in insertion order
    clock,
    mirror,           \* the connector's currentAceMirrorState
    fxserver,         \* the access control list of FXServer
    emission,         \* the event being sent: <<>> or <<[commands, desired]>>
    inDoubt,          \* history: memory and server may differ by a fault
    edits, faults     \* bounds

storeVars == <<edges, grants, policies, rules>>
mirrorVars == <<mirror, fxserver, emission, inDoubt>>
accessVars == <<edges, grants, policies, rules, clock, mirror, fxserver, emission, inDoubt, edits, faults>>

NoLines == [aces |-> {}, principals |-> {}]

AccessInit ==
    /\ edges = <<>> /\ grants = <<>> /\ policies = <<>> /\ rules = <<>>
    /\ clock = 0
    /\ mirror = NoLines /\ fxserver = NoLines /\ emission = <<>>
    /\ inDoubt = FALSE
    /\ edits = 0 /\ faults = 0

(***************************************************************************)
(* The engine.                                                             *)
(***************************************************************************)
isExpired(expiresAt) == expiresAt # Never /\ expiresAt <= clock

Live(table) == {key \in DOMAIN table : ~isExpired(table[key])}

(* What an edge gives the walk: the parents of a principal, one per edge.  *)
ParentsOf(principal) ==
    LET drawn == SetToSeq({edge \in Live(edges) : edge.child = principal}) IN
    [i \in 1 .. Len(drawn) |-> drawn[i].parent]

(* One round of resolvePrincipals, a depth-first walk from child to parent. *)
Visit(walk) ==
    LET current == Last(walk.stack) IN
    IF walk.stack = <<>> THEN walk
    ELSE IF current \in walk.visited THEN [stack |-> Front(walk.stack), visited |-> walk.visited]
    ELSE [stack |-> Front(walk.stack) \o ParentsOf(current), visited |-> walk.visited \cup {current}]

(* Mutant: parents of parents are not followed.                             *)
resolvePrincipals_OneLevel(principal) ==
    {principal} \cup {edge.parent : edge \in {e \in Live(edges) : e.child = principal}}

(* The loop goes on until the stack is empty; no edge puts its parent there *)
(* twice.                                                                  *)
resolvePrincipals(principal) ==
    LET Rounds == Cardinality(Live(edges)) + 1
        walk[n \in 0 .. Rounds] == IF n = 0 THEN [stack |-> <<principal>>, visited |-> {}] ELSE Visit(walk[n - 1])
    IN  walk[Rounds].visited

(* evaluatePolicy: a field the constraint or the context leaves out fails, *)
(* except the currency of a max_amount constraint.                         *)
evaluatePolicy(policy, context) ==
    LET constraint == policy.constraint IN
    \/ /\ policy.type = "max_amount"
       /\ constraint.amount # Absent /\ context.amount # Absent
       /\ context.amount <= constraint.amount
       /\ constraint.currency \in {Absent, context.currency}
    \/ /\ policy.type = "requires_state"
       /\ context.state # Absent /\ context.state = constraint.state
    \/ /\ policy.type = "namespace_scope"
       /\ constraint.namespace # Absent /\ context.namespace = constraint.namespace

evaluatePolicies(permission, context) ==
    \A id \in DOMAIN policies :
        (policies[id].enabled /\ policies[id].permission = permission)
            => evaluatePolicy(policies[id], context)

hasPermission(principal, permission, context) ==
    LET resolved == resolvePrincipals(principal)
        matching == {g \in Live(grants) : g.permission = permission /\ g.principal \in resolved}
    IN  /\ \A g \in matching : g.effect # "deny"
        /\ matching # {}
        /\ evaluatePolicies(permission, context)

(***************************************************************************)
(* The store.                                                              *)
(***************************************************************************)
Editing == edits < MaxEdits /\ edits' = edits + 1 /\ UNCHANGED <<clock, faults>>

Expiries == {Never, clock + 1}

With(table, key, row) == [k \in DOMAIN table \cup {key} |-> IF k = key THEN row ELSE table[k]]

upsertPolicyConstraint(policy) ==
    /\ Editing
    /\ policies' = With(policies, policy.id, policy)
    /\ UNCHANGED <<edges, grants, rules, mirrorVars>>

removePolicyConstraint(id) ==
    /\ Editing
    /\ id \in DOMAIN policies
    /\ policies' = [p \in DOMAIN policies \ {id} |-> policies[p]]
    /\ UNCHANGED <<edges, grants, rules, mirrorVars>>

addPrincipalEdge(key, expiresAt) ==
    /\ Editing
    /\ edges' = With(edges, key, expiresAt)
    /\ UNCHANGED <<grants, policies, rules, mirrorVars>>

removePrincipalEdge(key) ==
    /\ Editing
    /\ key \in DOMAIN edges
    /\ edges' = [k \in DOMAIN edges \ {key} |-> edges[k]]
    /\ UNCHANGED <<grants, policies, rules, mirrorVars>>

grantPermission(key, expiresAt) ==
    /\ Editing
    /\ grants' = With(grants, key, expiresAt)
    /\ UNCHANGED <<edges, policies, rules, mirrorVars>>

(* Both effects of the pair go.                                            *)
revokePermission(principal, permission) ==
    LET kept == {g \in DOMAIN grants : g.principal # principal \/ g.permission # permission} IN
    /\ Editing
    /\ grants' = [g \in kept |-> grants[g]]
    /\ UNCHANGED <<edges, policies, rules, mirrorVars>>

(* Setting an entry of a Map that is there keeps its place, even when the  *)
(* rule of that id was for another permission.                             *)
upsertAceMirrorRule(rule) ==
    LET at == {i \in DOMAIN rules : rules[i].id = rule.id} IN
    /\ Editing
    /\ rules' = IF at = {} THEN Append(rules, rule) ELSE [rules EXCEPT ![CHOOSE i \in at : TRUE] = rule]
    /\ UNCHANGED <<edges, grants, policies, mirrorVars>>

(***************************************************************************)
(* Discord roles.  A member holding a mapped role gets a principal of its  *)
(* own for the pair, a child of the mapping's target.                      *)
(***************************************************************************)
memberRolePrincipalId(user, role) == <<user, role>>

desiredEdges(mappings, members) ==
    {[parent |-> held[2].target, child |-> memberRolePrincipalId(held[1], held[2].role), source |-> Guild] :
        held \in {pair \in Users \X mappings : pair[2].role \in members[pair[1]]}}

(* Mutant: an edge that ran out counts as there.                            *)
planSync_KeepsExpired(mappings, members) ==
    LET desired == desiredEdges(mappings, members)
        existing == {key \in DOMAIN edges : key.source = Guild}
    IN  [addEdges |-> desired \ existing, removeEdges |-> existing \ desired]

planSync(mappings, members) ==
    LET desired == desiredEdges(mappings, members)
        existing == {key \in DOMAIN edges : key.source = Guild}
        active == existing \cap Live(edges)
    IN  [addEdges |-> desired \ active, removeEdges |-> existing \ desired]

(* One call of the service: no other request runs between its steps.       *)
syncDiscordRoles(mappings, members) ==
    LET plan == planSync(mappings, members)
        kept == (DOMAIN edges \cup plan.addEdges) \ plan.removeEdges
        expiresAt == IF EdgeTtl = Never THEN Never ELSE clock + EdgeTtl
    IN  /\ Editing
        /\ edges' = [key \in kept |-> IF key \in plan.addEdges THEN expiresAt ELSE edges[key]]
        /\ UNCHANGED <<grants, policies, rules, mirrorVars>>

(***************************************************************************)
(* The mirror.                                                             *)
(***************************************************************************)
RuleOf(permission) ==       \* the last enabled one
    LET enabled == {i \in DOMAIN rules : rules[i].enabled /\ rules[i].permission = permission} IN
    IF enabled = {} THEN 0 ELSE CHOOSE i \in enabled : \A j \in enabled : j <= i

buildDesiredMirrorState ==
    [aces |-> {[principal |-> g.principal, ace |-> rules[RuleOf(g.permission)].ace, effect |-> g.effect] :
                  g \in {h \in Live(grants) :
                            /\ RuleOf(h.permission) # 0
                            /\ h.effect = "deny" => rules[RuleOf(h.permission)].mode # "allow_only"}},
     principals |-> {[child |-> e.child, parent |-> e.parent] : e \in Live(edges)}]

(* Mutant: nothing is removed.                                              *)
planAceMirrorCommands_NeverRemoves(current, desired) ==
    [remove |-> NoLines,
     add |-> [aces |-> desired.aces \ current.aces,
              principals |-> desired.principals \ current.principals]]

planAceMirrorCommands(current, desired) ==
    [remove |-> [aces |-> current.aces \ desired.aces,
                 principals |-> current.principals \ desired.principals],
     add |-> [aces |-> desired.aces \ current.aces,
              principals |-> desired.principals \ current.principals]]

NoCommands == [remove |-> NoLines, add |-> NoLines]

(* What FXServer's list is after the commands.  They are sorted, so every  *)
(* add_ runs before every remove_; no line is in both.                     *)
Execute(commands) ==
    [aces |-> (fxserver.aces \cup commands.add.aces) \ commands.remove.aces,
     principals |-> (fxserver.principals \cup commands.add.principals) \ commands.remove.principals]

(* syncAceMirror, up to its emission.                                      *)
syncAceMirror ==
    LET desired == buildDesiredMirrorState
        commands == planAceMirrorCommands(mirror, desired)
    IN  /\ emission = <<>>
        /\ commands # NoCommands
        /\ emission' = <<[commands |-> commands, desired |-> desired]>>
        /\ UNCHANGED <<storeVars, clock, mirror, fxserver, inDoubt, edits, faults>>

emitServerEvent ==
    /\ emission # <<>>
    /\ fxserver' = Execute(emission[1].commands)
    /\ mirror' = emission[1].desired
    /\ emission' = <<>>
    /\ UNCHANGED <<storeVars, clock, inDoubt, edits, faults>>

(* The emission throws: the commands ran, or they did not.                 *)
emitServerEventFails ==
    /\ emission # <<>> /\ faults < MaxFaults
    /\ \/ UNCHANGED <<fxserver, inDoubt>>
       \/ fxserver' = Execute(emission[1].commands) /\ inDoubt' = TRUE
    /\ emission' = <<>>
    /\ faults' = faults + 1
    /\ UNCHANGED <<storeVars, clock, mirror, edits>>

RestartFxServer ==
    /\ faults < MaxFaults
    /\ fxserver' = NoLines
    /\ inDoubt' = TRUE
    /\ faults' = faults + 1
    /\ UNCHANGED <<storeVars, clock, mirror, emission, edits>>

RestartConnector ==
    /\ faults < MaxFaults
    /\ mirror' = NoLines
    /\ emission' = <<>>
    /\ inDoubt' = TRUE
    /\ faults' = faults + 1
    /\ UNCHANGED <<storeVars, clock, fxserver, edits>>

Tick ==
    /\ clock < MaxClock
    /\ clock' = clock + 1
    /\ UNCHANGED <<storeVars, mirrorVars, edits, faults>>

SyncDiscord ==
    \E mappings \in SUBSET RoleMappings, members \in [Users -> SUBSET {m.role : m \in RoleMappings}] :
        syncDiscordRoles(mappings, members)

StoreNext ==
    \/ \E policy \in PolicyInputs : upsertPolicyConstraint(policy)
    \/ \E policy \in PolicyInputs : removePolicyConstraint(policy.id)
    \/ \E key \in EdgeKeys, expiresAt \in Expiries : addPrincipalEdge(key, expiresAt)
    \/ \E key \in EdgeKeys : removePrincipalEdge(key)
    \/ \E key \in GrantKeys, expiresAt \in Expiries : grantPermission(key, expiresAt)
    \/ \E key \in GrantKeys : revokePermission(key.principal, key.permission)
    \/ \E rule \in RuleInputs : upsertAceMirrorRule(rule)
    \/ SyncDiscord

AccessNext ==
    \/ StoreNext
    \/ syncAceMirror
    \/ emitServerEvent
    \/ emitServerEventFails
    \/ RestartFxServer
    \/ RestartConnector
    \/ Tick

(* The sync loop keeps running its passes, and an emission returns or      *)
(* throws.                                                                 *)
AccessFairness == WF_accessVars(syncAceMirror) /\ WF_accessVars(emitServerEvent)

AccessSpec == AccessInit /\ [][AccessNext]_accessVars /\ AccessFairness

-----------------------------------------------------------------------------
PrincipalsIn == UNION {{e.parent, e.child} : e \in DOMAIN edges} \cup {g.principal : g \in GrantKeys}

AceLines == [aces : SUBSET [principal : {g.principal : g \in GrantKeys},
                            ace : {r.ace : r \in RuleInputs},
                            effect : {"allow", "deny"}],
             principals : SUBSET UNION {{[child |-> e.child, parent |-> e.parent] : e \in EdgeKeys},
                                        [child : Users \X {m.role : m \in RoleMappings},
                                         parent : {m.target : m \in RoleMappings}]}]

(* The state of the store, the connector and FXServer's list is well       *)
(* formed: every line FXServer holds comes from a grant or an edge that    *)
(* could be made, and no mirror rule is listed twice.                      *)
AccessTypeOK ==
    /\ \A key \in DOMAIN edges : edges[key] \in {Never} \cup (Nat \ {0})
    /\ DOMAIN grants \subseteq GrantKeys
    /\ \A i, j \in DOMAIN rules : rules[i].id = rules[j].id => i = j
    /\ mirror \in AceLines /\ fxserver \in AceLines
    /\ Len(emission) <= 1

(* The principals a decision is made from (resolvePrincipals) are exactly  *)
(* the principal and its ancestors over edges that have not expired: the   *)
(* smallest set that holds it and is closed under its live edges, whatever *)
(* cycles and duplicate edges of several sources there are.                *)
ResolvedIsClosure ==
    \A principal \in PrincipalsIn :
        LET resolved == resolvePrincipals(principal)
            Closed(set) == \A e \in Live(edges) : e.child \in set => e.parent \in set
        IN  /\ principal \in resolved
            /\ Closed(resolved)
            /\ \A set \in SUBSET PrincipalsIn : (principal \in set /\ Closed(set)) => resolved \subseteq set

(* A decision never allows what the store's rows do not: some ancestor is  *)
(* allowed by a live grant, none is denied by one, and the amount of the   *)
(* request is within every enabled limit on the permission                 *)
(* (hasPermission and evaluatePolicies, over every context).               *)
AllowedIsJustified ==
    \A principal \in PrincipalsIn, permission \in Permissions, context \in Contexts :
        hasPermission(principal, permission, context) =>
            LET Reaches(q) == \A set \in SUBSET PrincipalsIn :
                    (principal \in set /\ \A e \in Live(edges) : e.child \in set => e.parent \in set) => q \in set
                Grant(q, effect) == [principal |-> q, permission |-> permission, effect |-> effect] \in Live(grants)
            IN  /\ \E q \in PrincipalsIn : Reaches(q) /\ Grant(q, "allow")
                /\ ~ \E q \in PrincipalsIn : Reaches(q) /\ Grant(q, "deny")
                /\ \A id \in DOMAIN policies :
                      (/\ policies[id].permission = permission /\ policies[id].enabled
                       /\ policies[id].type = "max_amount")
                          => context.amount # Absent /\ context.amount <= policies[id].constraint.amount

(* After a Discord synchronisation the live edges of the guild are exactly *)
(* those its members' roles and the mappings ask for, expired ones being   *)
(* drawn again and edges of roles or mappings that are gone removed, and   *)
(* no edge of another source has changed.                                  *)
DiscordFollowsGuild ==
    [][\A mappings \in SUBSET RoleMappings,
          members \in [Users -> SUBSET {m.role : m \in RoleMappings}] :
          syncDiscordRoles(mappings, members) =>
            /\ {e \in DOMAIN edges' : e.source = Guild} = desiredEdges(mappings, members)
            /\ \A e \in desiredEdges(mappings, members) : edges'[e] = Never \/ edges'[e] > clock
            /\ \A e \in EdgeKeys : (e \in DOMAIN edges') <=> (e \in DOMAIN edges)]_accessVars

(* As long as every failed emission really did nothing and nothing         *)
(* restarted, FXServer's list is what the connector remembers: a delta     *)
(* computed from the memory is then right for the server.                  *)
MemoryIsServer == inDoubt \/ fxserver = mirror

(* What is allowed is justified by the rows as they stand, and what is told *)
(* to FXServer is remembered.                                              *)
AccessIsJustified ==
    /\ AccessTypeOK
    /\ ResolvedIsClosure
    /\ AllowedIsJustified
    /\ MemoryIsServer

(* When the administrator stops editing, FXServer ends up with exactly the *)
(* lines of the live grants and edges: a revoked or expired grant does not *)
(* stay in its list.                                                       *)
AceSettles == <>[](inDoubt \/ fxserver = buildDesiredMirrorState)
=============================================================================
