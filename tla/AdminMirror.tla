----------------------------- MODULE AdminMirror -----------------------------
(***************************************************************************)
(* The admin service (src/src/admin/service.ts), the adapter it reaches    *)
(* SpacetimeDB with (src/src/spacetime/adapter.ts) and the reducers behind *)
(* it (src/spacetimedb/src).                                               *)
(*                                                                         *)
(* A call changes the registries the service keeps in memory and queues    *)
(* the reducer calls that mirror the change.  The queue sends one at a     *)
(* time; a reducer that refuses rejects the promise the queue is, and what *)
(* is queued behind it, then or later, is never sent.  The database tells  *)
(* the cache of rows inserted and updated, transaction by transaction; of  *)
(* deleted rows the adapter does not ask to be told.  Some calls bypass    *)
(* the queue.  A restart loses all but the database.                       *)
(*                                                                         *)
(* A plugin has one bundle, with one capability, and one package; plugins  *)
(* require nothing of each other (PluginRegistry has the cascades); there  *)
(* is one plugin server and the manager trusts every signer                *)
(* (PluginDeployment has the manager, whose audit is left out here).  Of   *)
(* what the services of other servers write only the rows that carry a     *)
(* server are modelled, the configuration and the audit.                   *)
(***************************************************************************)
EXTENDS Integers, Sequences, FiniteSets, SequencesExt, FiniteSetsExt

CONSTANTS
    PluginIds,
    HookedPlugins,  \* plugins whose manifest declares a hook
    SignerOf,       \* per plugin, who signed its package and its bundle
    ServerIds,
    Here,           \* the server this service is scoped to
    MaxWrites,      \* bound: reducer calls queued per life of the process
    MaxDeployments, \* bound: deployments per life
    MaxVersion,     \* bound: versions of a configuration value
    MaxUpdates,     \* bound: transactions the cache may trail
    MaxLives,       \* bound: lives of the process
    ForeignAudits   \* bound: ids of entries other servers' services write

ASSUME MirrorAssumption ==
    /\ MaxWrites \in Nat /\ MaxDeployments \in Nat /\ MaxVersion \in Nat
    /\ MaxUpdates \in Nat /\ MaxLives \in Nat

VARIABLES
    plugins,        \* registry: status per installed plugin
    packages,       \* registry: signer per plugin installed from a package
    revokedSigners, \* registry: signers revoked
    bundles,        \* manager: status of a plugin's bundle
    history,        \* manager: per plugin, the statuses of its deployments
    config,         \* control plane: version of the configuration value
    audits,         \* number of entries in the registry's audit
    writeQueue,     \* reducer calls not sent yet, with their numbers
    issued,         \* number of the last reducer call queued
    applied,        \* number of the last queued call the database accepted
    failed,         \* the queue's promise is rejected
    db,             \* the tables
    updates,        \* the rows changed by each transaction the cache trails
    cache,          \* the tables as the service knows them
    life            \* history: the how-manieth life of the process

memoryVars == <<plugins, packages, revokedSigners, bundles, history, config>>
queueVars == <<writeQueue, issued, applied, failed>>
dbVars == <<db, updates>>
vars == <<memoryVars, audits, queueVars, dbVars, cache, life>>

Statuses == {"installed", "active", "disabled"}
Live == {"pending", "active"}
Nothing == [k \in {} |-> 0]
Put(f, key, value) == [k \in DOMAIN f \cup {key} |-> IF k = key THEN value ELSE f[k]]
Without(f, keys) == [k \in DOMAIN f \ keys |-> f[k]]

(* The elements of a set of numbers, the smaller first.                     *)
InOrder(S) == CHOOSE f \in [1 .. Cardinality(S) -> S] : \A i, j \in DOMAIN f : i < j => f[i] < f[j]

-----------------------------------------------------------------------------
(***************************************************************************)
(* The tables.  A deployment is known by plugin, life and place in the     *)
(* manager's history, a configuration value by its server and the life     *)
(* whose runtime drew its id, an audit entry by the parts of its id, which *)
(* do not tell the server: the row does.                                   *)
(***************************************************************************)
RegistryTables == {"plugins", "packages", "bundles", "capabilities"}
SurfaceTables == {"hooks", "menus"}
PluginTables == RegistryTables \cup SurfaceTables
SignerTables == {"revocations"}
DeploymentTables == {"deployments"}
ScopedTables == {"config", "audit"}
Tables == PluginTables \cup SignerTables \cup DeploymentTables \cup ScopedTables
EmptyTables == [t \in Tables |-> Nothing]

(* The cache keeps a row under a key of its own: one configuration value    *)
(* whatever its id, one deployment per plugin.                              *)
CacheKey(t, key) == IF t = "config" THEN "config" ELSE IF t = "deployments" THEN key[1] ELSE key
ServerOfRow(t, key, row) == IF t = "config" THEN key[1] ELSE row
(* Mutation: rows of other servers are let in.                              *)
InScope_Any(t, key, row) == TRUE
InScope(t, key, row) == t \in ScopedTables => ServerOfRow(t, key, row) = Here

(* The rows a transaction inserted or updated; who subscribed hears of      *)
(* these, in an order nothing fixes.                                        *)
Changes(before, after) ==
    [t \in Tables |->
        [key \in {key \in DOMAIN after[t] :
                    key \in DOMAIN before[t] => before[t][key] # after[t][key]} |-> after[t][key]]]
Heard(rows, t) == {key \in DOMAIN rows[t] : InScope(t, key, rows[t][key])}
LastOf(rows, t) ==
    {last \in [{CacheKey(t, key) : key \in Heard(rows, t)} -> Heard(rows, t)] :
        \A k \in DOMAIN last : CacheKey(t, last[k]) = k}
HeardLast(rows) == LastOf(rows, "deployments") \X LastOf(rows, "config")
Upserted(known, rows, last) ==
    [t \in Tables |->
        LET Row(k) == CASE t = "deployments" -> last[1][k]
                        [] t = "config" -> last[2][k]
                        [] OTHER -> CHOOSE key \in Heard(rows, t) : CacheKey(t, key) = k IN
        [k \in DOMAIN known[t] \cup {CacheKey(t, key) : key \in Heard(rows, t)} |->
            IF \E key \in Heard(rows, t) : CacheKey(t, key) = k
            THEN [id |-> Row(k), row |-> rows[t][Row(k)]] ELSE known[t][k]]]

-----------------------------------------------------------------------------
(***************************************************************************)
(* The reducers: when one accepts its arguments, and the tables after it.  *)
(***************************************************************************)
SetRows(d, t, keys, row) == [d EXCEPT ![t] = [k \in DOMAIN d[t] |-> IF k \in keys THEN row ELSE d[t][k]]]
PutRow(d, t, key, row) == [d EXCEPT ![t] = Put(d[t], key, row)]
Exists(d, p) == p \in DOMAIN d.plugins
IsActive(d, p) == Exists(d, p) /\ d.plugins[p] = "active"
DeploymentsOf(d, p) == {k \in DOMAIN d.deployments : k[1] = p}

SurfacesOff(d, P) ==
    SetRows(SetRows(SetRows(d, "capabilities", P, "disabled"), "menus", P, "disabled"),
            "hooks", P, "disabled")
BundlesRevoked(d, P) ==
    LET live == {k \in DOMAIN d.deployments : k[1] \in P /\ d.deployments[k] \in Live} IN
    SetRows(SetRows(SetRows(d, "bundles", P, "revoked"), "capabilities", P, "disabled"),
            "deployments", live, "killed")

SignerRevoked(d, p) ==
    \/ p \in DOMAIN d.packages /\ d.packages[p] \in DOMAIN d.revocations
    \/ p \in DOMAIN d.bundles /\ SignerOf[p] \in DOMAIN d.revocations

register_plugin(d, w) == PutRow(d, "plugins", w.plugin, w.status)
register_plugin_package(d, w) == PutRow(d, "packages", w.plugin, SignerOf[w.plugin])
set_plugin_status(d, w) ==
    LET set == PutRow(d, "plugins", w.plugin, w.status) IN
    IF w.status = "active" THEN set ELSE SurfacesOff(set, {w.plugin})
uninstall_plugin(d, w) ==
    [t \in Tables |->
        IF t \in PluginTables THEN Without(d[t], {w.plugin})
        ELSE IF t = "deployments" THEN Without(d[t], DeploymentsOf(d, w.plugin)) ELSE d[t]]
revoke_package_signer(d, w) ==
    LET packaged == {p \in DOMAIN d.packages : d.packages[p] = w.signer} \cap DOMAIN d.plugins
        bundled == {p \in DOMAIN d.bundles : SignerOf[p] = w.signer} IN
    PutRow(BundlesRevoked(SurfacesOff(SetRows(d, "plugins", packaged, "disabled"), packaged), bundled),
           "revocations", w.signer, "revoked")
upsert_plugin_deployment(d, w) ==
    LET others == {k \in DeploymentsOf(d, w.key[1]) : d.deployments[k] = "active" /\ k # w.key} IN
    PutRow(IF w.status = "active" THEN SetRows(d, "deployments", others, "rolled_back") ELSE d,
           "deployments", w.key, w.status)

(* The runtime draws the id when it first sets the value: once a life.       *)
ConfigId == <<Here, life>>

(* Mutation: the signer is not looked up when a plugin becomes active.      *)
StatusAccepted_AnySigner(d, w) == Exists(d, w.plugin)
StatusAccepted(d, w) == Exists(d, w.plugin) /\ (w.status = "active" => ~SignerRevoked(d, w.plugin))

Accepts(d, w) ==
    CASE w.op = "register_plugin_package" ->
            Exists(d, w.plugin) /\ SignerOf[w.plugin] \notin DOMAIN d.revocations
      [] w.op = "set_plugin_status" -> StatusAccepted(d, w)
      [] w.op = "register_plugin_bundle" ->
            /\ Exists(d, w.plugin)
            /\ SignerOf[w.plugin] \notin DOMAIN d.revocations
            /\ w.plugin \notin DOMAIN d.bundles
      [] w.op = "upsert_plugin_capability" ->
            /\ IsActive(d, w.plugin) /\ w.plugin \notin DOMAIN d.capabilities
            /\ w.plugin \in DOMAIN d.bundles /\ d.bundles[w.plugin] = "registered"
      [] w.op = "revoke_plugin_bundle" -> w.plugin \in DOMAIN d.bundles
      [] w.op = "upsert_plugin_deployment" ->
            /\ w.key[1] \in DOMAIN d.bundles
            /\ w.status \in Live => d.bundles[w.key[1]] = "registered"
            /\ w.status = "active" => IsActive(d, w.key[1])
      [] w.op = "register_plugin_hook" -> IsActive(d, w.plugin) /\ w.plugin \notin DOMAIN d.hooks
      [] w.op = "set_plugin_hooks_enabled" -> Exists(d, w.plugin)
      [] w.op = "set_runtime_config" -> ConfigId \notin DOMAIN d.config
      [] w.op = "write_audit_log" -> w.id \notin DOMAIN d.audit
      [] OTHER -> TRUE

After(d, w) ==
    CASE w.op = "register_plugin" -> register_plugin(d, w)
      [] w.op = "register_plugin_package" -> register_plugin_package(d, w)
      [] w.op = "set_plugin_status" -> set_plugin_status(d, w)
      [] w.op = "uninstall_plugin" -> uninstall_plugin(d, w)
      [] w.op = "revoke_package_signer" -> revoke_package_signer(d, w)
      [] w.op = "register_plugin_bundle" -> PutRow(d, "bundles", w.plugin, "registered")
      [] w.op = "upsert_plugin_capability" -> PutRow(d, "capabilities", w.plugin, "enabled")
      [] w.op = "revoke_plugin_bundle" -> BundlesRevoked(d, {w.plugin})
      [] w.op = "upsert_plugin_deployment" -> upsert_plugin_deployment(d, w)
      [] w.op = "register_plugin_hook" -> PutRow(d, "hooks", w.plugin, "enabled")
      [] w.op = "set_plugin_hooks_enabled" -> SetRows(d, "hooks", {w.plugin}, "disabled")
      [] w.op = "set_runtime_config" -> PutRow(d, "config", ConfigId, w.version)
      [] w.op = "write_audit_log" -> PutRow(d, "audit", w.id, Here)

-----------------------------------------------------------------------------
(***************************************************************************)
(* The queue of writes.                                                    *)
(***************************************************************************)
(* What is queued behind a rejected promise is never called.                *)
Queue(writes) ==
    /\ issued + Len(writes) <= MaxWrites
    /\ issued' = issued + Len(writes)
    /\ writeQueue' = IF failed THEN writeQueue
                     ELSE writeQueue \o [i \in DOMAIN writes |-> [n |-> issued + i, call |-> writes[i]]]
    /\ UNCHANGED <<applied, failed>>

(* Mutation: what is queued behind a refused write stays.                   *)
Refused_Kept == failed' = TRUE /\ UNCHANGED <<writeQueue, issued, applied>>
Refused ==
    /\ failed' = TRUE
    /\ writeQueue' = <<>>
    /\ UNCHANGED <<issued, applied>>

Commit(tables) ==
    /\ Len(updates) < MaxUpdates
    /\ db' = tables
    /\ updates' = Append(updates, Changes(db, tables))

enqueueWrite ==
    /\ writeQueue # <<>>
    /\ LET w == Head(writeQueue).call IN
       \/ /\ Accepts(db, w)
          /\ Commit(After(db, w))
          /\ writeQueue' = Tail(writeQueue)
          /\ applied' = Head(writeQueue).n
          /\ UNCHANGED <<issued, failed>>
       \/ ~Accepts(db, w) /\ Refused /\ UNCHANGED dbVars
    /\ UNCHANGED <<memoryVars, audits, cache, life>>

wireCache ==
    /\ updates # <<>>
    /\ \E last \in HeardLast(Head(updates)) : cache' = Upserted(cache, Head(updates), last)
    /\ updates' = Tail(updates)
    /\ UNCHANGED <<memoryVars, audits, queueVars, db, life>>

Write(op, p) == [op |-> op, plugin |-> p]
StatusWrite(p, status) == [op |-> "set_plugin_status", plugin |-> p, status |-> status]
RegisterWrite(p, status) == [op |-> "register_plugin", plugin |-> p, status |-> status]

(* The entries not in the cached audit are written.  Those of earlier calls *)
(* were written or found in the cache, which loses none.                    *)
AuditId(entry, number) == <<entry[1], entry[2], number>>
mirrorPluginAuditLogs(entries) ==
    LET missing == {i \in DOMAIN entries : AuditId(entries[i], audits + i) \notin DOMAIN cache.audit}
        order == InOrder(missing) IN
    [i \in DOMAIN order |-> [op |-> "write_audit_log", id |-> AuditId(entries[order[i]], audits + order[i])]]
Audited(writes, entries) ==
    /\ Queue(writes \o mirrorPluginAuditLogs(entries))
    /\ audits' = audits + Len(entries)

mirrorPluginHooks(p, status) ==
    IF p \in HookedPlugins /\ status = "active" THEN <<Write("register_plugin_hook", p)>> ELSE <<>>

(* What the manager made of a plugin's deployments, the changed ones.       *)
DeploymentKey(p, i) == <<p, life, i>>
mirrorDeployment(p, records) ==
    LET changed == {i \in DOMAIN records : i > Len(history[p]) \/ history[p][i] # records[i]}
        order == InOrder(changed) IN
    [i \in DOMAIN order |-> [op |-> "upsert_plugin_deployment",
                             key |-> DeploymentKey(p, order[i]), status |-> records[order[i]]]]

-----------------------------------------------------------------------------
(***************************************************************************)
(* The service's calls.                                                    *)
(***************************************************************************)
StatusOf(p) == IF p \in DOMAIN plugins THEN plugins[p] ELSE "installed"

installPlugin(p) ==
    /\ plugins' = Put(plugins, p, StatusOf(p))
    /\ Audited((IF p \in DOMAIN cache.plugins THEN <<>> ELSE <<RegisterWrite(p, StatusOf(p))>>)
                    \o mirrorPluginHooks(p, StatusOf(p)),
               <<<<"install", p>>>>)
    /\ UNCHANGED <<packages, revokedSigners, bundles, history, config, dbVars, cache, life>>

assertPackageSignerNotRevoked(s) == s \notin DOMAIN cache.revocations
installPluginPackage(p) ==
    /\ assertPackageSignerNotRevoked(SignerOf[p])
    /\ SignerOf[p] \notin revokedSigners
    /\ plugins' = Put(plugins, p, StatusOf(p))
    /\ packages' = packages \cup {p}
    /\ Audited(<<RegisterWrite(p, StatusOf(p)), Write("register_plugin_package", p)>>
                    \o mirrorPluginHooks(p, StatusOf(p)),
               <<<<"package_install", p>>>>)
    /\ UNCHANGED <<revokedSigners, bundles, history, config, dbVars, cache, life>>

(* Every plugin it disables is audited and written.                         *)
revokePackageSigner(s) ==
    LET disabled == {p \in packages \cap DOMAIN plugins : SignerOf[p] = s /\ plugins[p] # "disabled"}
        order == SetToSeq(disabled) IN
    /\ revokedSigners' = revokedSigners \cup {s}
    /\ plugins' = [p \in DOMAIN plugins |-> IF p \in disabled THEN "disabled" ELSE plugins[p]]
    /\ Audited(<<[op |-> "revoke_package_signer", signer |-> s]>>
                    \o [i \in DOMAIN order |-> StatusWrite(order[i], "disabled")],
               [i \in DOMAIN order |-> <<"disable", order[i]>>] \o <<<<"package_signer_revoked", s>>>>)
    /\ UNCHANGED <<packages, bundles, history, config, dbVars, cache, life>>

(* A plugin the registry does not know is uninstalled all the same.         *)
uninstallPlugin(p) ==
    /\ plugins' = Without(plugins, {p})
    /\ packages' = packages \ {p}
    /\ Audited(<<Write("uninstall_plugin", p)>>,
               IF p \in DOMAIN plugins THEN <<<<"uninstall", p>>>> ELSE <<>>)
    /\ UNCHANGED <<revokedSigners, bundles, history, config, dbVars, cache, life>>

(* The hooks are written before the status.                                 *)
enablePlugin(p) ==
    /\ p \in DOMAIN plugins
    /\ p \in packages => SignerOf[p] \notin revokedSigners
    /\ plugins' = [plugins EXCEPT ![p] = "active"]
    /\ Audited(Append(mirrorPluginHooks(p, "active"), StatusWrite(p, "active")), <<<<"enable", p>>>>)
    /\ UNCHANGED <<packages, revokedSigners, bundles, history, config, dbVars, cache, life>>

KilledOf(p) ==
    [i \in DOMAIN history[p] |-> IF history[p][i] \in Live THEN "killed" ELSE history[p][i]]

(* Mutation: the manager kills and the database is not told.                *)
killDeploymentsForDisabledPlugin_Unwritten(p) == <<>>
killDeploymentsForDisabledPlugin(p) == mirrorDeployment(p, KilledOf(p))

(* A plugin disabled again is audited again and nothing else.               *)
disablePlugin(p) ==
    LET changed == plugins[p] # "disabled" IN
    /\ p \in DOMAIN plugins
    /\ plugins' = [plugins EXCEPT ![p] = "disabled"]
    /\ history' = IF changed THEN [history EXCEPT ![p] = KilledOf(p)] ELSE history
    /\ Audited(IF changed
               THEN (IF p \in HookedPlugins THEN <<Write("set_plugin_hooks_enabled", p)>> ELSE <<>>)
                        \o killDeploymentsForDisabledPlugin(p) \o <<StatusWrite(p, "disabled")>>
               ELSE <<>>,
               <<<<"disable", p>>>>)
    /\ UNCHANGED <<packages, revokedSigners, bundles, config, dbVars, cache, life>>

(* Only what it kills is written.                                           *)
killPlugin(p) ==
    /\ history' = [history EXCEPT ![p] = KilledOf(p)]
    /\ Queue(mirrorDeployment(p, KilledOf(p)))
    /\ UNCHANGED <<plugins, packages, revokedSigners, bundles, config, audits, dbVars, cache, life>>

registerPluginBundle(p) ==
    /\ p \notin DOMAIN bundles
    /\ bundles' = Put(bundles, p, "registered")
    /\ Queue(<<Write("register_plugin_bundle", p), Write("upsert_plugin_capability", p)>>)
    /\ UNCHANGED <<plugins, packages, revokedSigners, history, config, audits, dbVars, cache, life>>

revokePluginBundle(p) ==
    /\ p \in DOMAIN bundles
    /\ bundles[p] = "registered"
    /\ bundles' = [bundles EXCEPT ![p] = "revoked"]
    /\ history' = [history EXCEPT ![p] = KilledOf(p)]
    /\ Queue(<<Write("revoke_plugin_bundle", p)>> \o mirrorDeployment(p, KilledOf(p)))
    /\ UNCHANGED <<plugins, packages, revokedSigners, config, audits, dbVars, cache, life>>

Deployed(p, records) ==
    /\ Len(records) <= MaxDeployments
    /\ history' = [history EXCEPT ![p] = records]
    /\ Queue(mirrorDeployment(p, records))
    /\ UNCHANGED <<plugins, packages, revokedSigners, bundles, config, audits, dbVars, cache, life>>
With(records, i, status) == [records EXCEPT ![i] = status]
Restorable(p, i) == \E j \in DOMAIN history[p] : j # i /\ history[p][j] \in {"active", "rolled_back"}

requestPluginDeployment(p) ==
    /\ p \in DOMAIN bundles /\ bundles[p] = "registered"
    /\ Deployed(p, Append(history[p], "pending"))

approvePluginDeployment(p, i) ==
    /\ history[p][i] = "pending" /\ bundles[p] = "registered"
    /\ Deployed(p, [j \in DOMAIN history[p] |->
                    IF j = i THEN "active"
                    ELSE IF history[p][j] = "active" THEN "rolled_back" ELSE history[p][j]])

(* The bundle being the plugin's only one, another record of it is what is  *)
(* restored, as a new record.                                               *)
rollbackPluginDeployment(p, i) ==
    /\ history[p][i] = "active" /\ bundles[p] = "registered"
    /\ Restorable(p, i)
    /\ Deployed(p, Append(With(history[p], i, "rolled_back"), "active"))

failPluginDeployment(p, i) ==
    \/ /\ \/ history[p][i] = "pending"
          \/ history[p][i] = "active" /\ ~Restorable(p, i)
       /\ Deployed(p, With(history[p], i, "failed"))
    \/ /\ history[p][i] = "active" /\ Restorable(p, i)
       /\ Deployed(p, Append(With(history[p], i, "failed"), "active"))

setConfig ==
    /\ config < MaxVersion
    /\ config' = config + 1
    /\ Queue(<<[op |-> "set_runtime_config", version |-> config + 1]>>)
    /\ UNCHANGED <<plugins, packages, revokedSigners, bundles, history, audits, dbVars, cache, life>>

(* Menus go to the database past the queue; a refusal is the caller's.      *)
MenuAccepted(p) == IsActive(db, p)
upsertMenuDefinition(p) ==
    /\ MenuAccepted(p)
    /\ p \in DOMAIN db.menus => db.menus[p] = "disabled"
    /\ Commit(PutRow(db, "menus", p, "enabled"))
    /\ UNCHANGED <<memoryVars, audits, queueVars, cache, life>>

(* Another server's service sets its configuration, in a life of its own,   *)
(* or writes an entry of its registry's audit, whose id may be one of ours. *)
ForeignConfig(server, key) ==
    /\ server # Here /\ key[1] = server /\ key \notin DOMAIN db.config
    /\ Commit(PutRow(db, "config", key, MaxVersion + 1))
    /\ UNCHANGED <<memoryVars, audits, queueVars, cache, life>>
ForeignAudit(server, id) ==
    /\ server # Here /\ id \notin DOMAIN db.audit
    /\ Commit(PutRow(db, "audit", id, server))
    /\ UNCHANGED <<memoryVars, audits, queueVars, cache, life>>

(* The registries start empty and are not read back; the subscription       *)
(* starts with the tables as they are.                                      *)
Restart ==
    /\ life < MaxLives
    /\ life' = life + 1
    /\ plugins' = Nothing /\ packages' = {} /\ revokedSigners' = {} /\ bundles' = Nothing
    /\ history' = [p \in PluginIds |-> <<>>]
    /\ config' = 0 /\ audits' = 0
    /\ writeQueue' = <<>> /\ issued' = 0 /\ applied' = 0 /\ failed' = FALSE
    /\ updates' = <<>>
    /\ \E last \in HeardLast(db) : cache' = Upserted(EmptyTables, db, last)
    /\ UNCHANGED db

Init ==
    /\ plugins = Nothing /\ packages = {} /\ revokedSigners = {} /\ bundles = Nothing
    /\ history = [p \in PluginIds |-> <<>>]
    /\ config = 0 /\ audits = 0
    /\ writeQueue = <<>> /\ issued = 0 /\ applied = 0 /\ failed = FALSE
    /\ db = EmptyTables /\ updates = <<>> /\ cache = EmptyTables
    /\ life = 1

PluginCall(p) ==
    \/ installPlugin(p) \/ installPluginPackage(p) \/ uninstallPlugin(p)
    \/ enablePlugin(p) \/ disablePlugin(p) \/ revokePackageSigner(SignerOf[p])
DeploymentCall(p) ==
    \/ registerPluginBundle(p) \/ revokePluginBundle(p)
    \/ requestPluginDeployment(p) \/ killPlugin(p)
    \/ \E i \in DOMAIN history[p] :
        \/ approvePluginDeployment(p, i) \/ rollbackPluginDeployment(p, i)
        \/ failPluginDeployment(p, i)
Next ==
    \/ \E p \in PluginIds : PluginCall(p) \/ DeploymentCall(p) \/ upsertMenuDefinition(p)
    \/ setConfig
    \/ \E server \in ServerIds :
        \/ ForeignConfig(server, <<server, 1>>)
        \/ \E id \in ForeignAudits : ForeignAudit(server, id)
    \/ enqueueWrite \/ wireCache \/ Restart

Spec == Init /\ [][Next]_vars
-----------------------------------------------------------------------------
(***************************************************************************)
(* Properties.                                                             *)
(***************************************************************************)
(* Memory, queue, tables and cache have the shape the program gives them    *)
(* (service.ts:330-355), and once a write has failed nothing is queued.     *)
MirrorTypeOK ==
    /\ \A status \in {plugins[p] : p \in DOMAIN plugins} : status \in Statuses
    /\ packages \subseteq DOMAIN plugins
    /\ applied <= issued /\ issued <= MaxWrites
    /\ failed => writeQueue = <<>>
    /\ \A i \in DOMAIN writeQueue : writeQueue[i].n = issued - Len(writeQueue) + i
    /\ DOMAIN db = Tables /\ DOMAIN cache = Tables /\ Len(updates) <= MaxUpdates

(* While the first life goes well and nothing waits, the database agrees    *)
(* with the registry on every plugin it has, and every deployment live in   *)
(* the database is live in the manager: what the service killed, disabled   *)
(* or superseded is so in the database (service.ts:562-592, 1505-1590,      *)
(* 2032-2050).                                                              *)
MirrorIsCurrent ==
    (life = 1 /\ ~failed /\ writeQueue = <<>>) =>
        /\ \A p \in DOMAIN db.plugins : p \in DOMAIN plugins /\ plugins[p] = db.plugins[p]
        /\ \A k \in DOMAIN db.deployments :
            db.deployments[k] \in Live => history[k[1]][k[3]] = db.deployments[k]

(* A cache that trails nothing has every row of this server as the database *)
(* has it, of a plugin's deployments any one and of the values earlier      *)
(* lives set any one, but the one this life set once it is in; no row of    *)
(* another server; and of rows that are gone only those of plugins          *)
(* uninstalled (adapter.ts:1533-2433, uninstall_plugin).                    *)
CacheSettles ==
    updates = <<>> =>
        /\ \A t \in Tables :
            LET current == {key \in DOMAIN db[t] :
                                t \in ScopedTables => ServerOfRow(t, key, db[t][key]) = Here} IN
            /\ \A key \in current : CacheKey(t, key) \in DOMAIN cache[t]
            /\ \A k \in DOMAIN cache[t] :
                \/ cache[t][k].id \in current /\ cache[t][k].row = db[t][cache[t][k].id]
                \/ cache[t][k].id \notin DOMAIN db[t] /\ t \in PluginTables \cup DeploymentTables
        /\ ConfigId \in DOMAIN db.config => cache.config["config"].id = ConfigId

(* No plugin is active in the database while its package is of a signer the *)
(* database has as revoked, in this life or in a later one that knows       *)
(* nothing of it (plugins.rs set_plugin_status, service.ts:461).            *)
RevokedSignersStayOut ==
    \A p \in DOMAIN db.packages :
        db.packages[p] \in DOMAIN db.revocations => ~IsActive(db, p)

(* A bundle of a signer the database has as revoked is not registered       *)
(* there, and without a registered bundle no plugin has a deployment that   *)
(* is pending or active, nor a capability (plugins.rs:170, 921-1105, 1464). *)
RevokedBundlesDoNotRun ==
    LET registered == {p \in DOMAIN db.bundles : db.bundles[p] = "registered"} IN
    /\ \A p \in registered : SignerOf[p] \notin DOMAIN db.revocations
    /\ \A k \in DOMAIN db.deployments : db.deployments[k] \in Live => k[1] \in registered
    /\ \A p \in DOMAIN db.capabilities : db.capabilities[p] = "enabled" => p \in registered

(* What a disabled or absent plugin offered is off in the database: its     *)
(* capabilities, its hooks, and the menus that reach the database past the  *)
(* queue (plugins.rs set_plugin_status, menus.rs:19).                       *)
DisabledHaveNoSurfaces ==
    \A t \in {"capabilities", "hooks", "menus"} : \A p \in DOMAIN db[t] :
        db[t][p] = "enabled" => Exists(db, p) /\ db.plugins[p] # "disabled"

(* An entry of the registry's audit is queued once and never under an id    *)
(* the database has from this server, although the ids start again with     *)
(* every life; one it has from another server may be queued, is refused and *)
(* fails the queue (service.ts:1911-1934, plugins.ts:863, tables.rs:54).    *)
RegistryAuditsOnce ==
    LET queued == {i \in DOMAIN writeQueue : writeQueue[i].call.op = "write_audit_log"} IN
    \A i \in queued :
        /\ writeQueue[i].call.id \in DOMAIN db.audit => db.audit[writeQueue[i].call.id] # Here
        /\ \A j \in queued : writeQueue[i].call.id = writeQueue[j].call.id => i = j

(* The queue of writes is in line: numbered in order, emptied by a refusal, *)
(* with no entry of the audit twice nor one this server wrote.              *)
QueueIsSound == MirrorTypeOK /\ RegistryAuditsOnce

(* In the database and across the lives of the service: packages of revoked *)
(* signers are not active, their bundles have nothing that runs, and what   *)
(* is disabled offers nothing.                                              *)
DisabledAreOut == RevokedSignersStayOut /\ RevokedBundlesDoNotRun /\ DisabledHaveNoSurfaces

(* When nothing waits, the hooks of an active plugin are on in the database *)
(* of a service that was asked for nothing but plugins                      *)
(* (implementation-status.md:392, service.ts:550).                          *)
HooksReachDatabase ==
    \A p \in HookedPlugins \cap DOMAIN plugins :
        (plugins[p] = "active" /\ bundles = Nothing /\ config = 0 /\ p \in DOMAIN db.plugins
            /\ writeQueue = <<>>)
            => p \in DOMAIN db.hooks /\ db.hooks[p] = "enabled"

=============================================================================
