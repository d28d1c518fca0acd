---------------------------- MODULE PluginRegistry ----------------------------
(***************************************************************************)
(* The plugin registry (src/core/plugins.ts), the plugin data store beside *)
(* it (src/core/plugin-data.ts) and the import of the resources a server   *)
(* starts (src/admin/resource-auto-import.ts with the plans of             *)
(* src/core/legacy-resource-import.ts and resource-cfg-import.ts).         *)
(*                                                                         *)
(* Methods do not await, so a call is one action; one that throws changes  *)
(* nothing.  The import awaits the database between installing and         *)
(* enabling, and other calls come in between.  Ids hold no colon, so the   *)
(* joined keys of the code are pairs here.  A schema is the set of values  *)
(* it accepts; a manifest keeps what other plugins can notice.             *)
(***************************************************************************)
EXTENDS Integers, Sequences, FiniteSets, SequencesExt

CONSTANTS
    PluginIds,
    ManifestsOf,    \* per plugin, the manifests its versions have
    PackageIds,
    SignerIds,      \* signers the registry knows
    EnsuredLists,   \* lists of resources a server.cfg may ensure
    EntityIds,
    EntityTypes,
    DataPlugins,    \* bound: plugins that keep data
    Schemas,        \* schemas a plugin may register, as sets of values
    None

VARIABLES
    pluginsById,            \* status per installed plugin
    manifestsByPluginId,
    packagesById,
    revokedPackageSignerIds,
    schemasByKey,
    entitiesById,
    importing,              \* the plan between its two halves, or None
    replaced                \* history: active plugins replaced since the last cascade

registryVars == <<pluginsById, manifestsByPluginId, packagesById, revokedPackageSignerIds>>
dataVars == <<schemasByKey, entitiesById>>
vars == <<registryVars, dataVars, importing, replaced>>

Data == UNION Schemas
Statuses == {"installed", "active", "disabled"}
Entity == [pluginId: PluginIds, entityType: EntityTypes, data: Data]

Put(f, key, value) == [k \in DOMAIN f \cup {key} |-> IF k = key THEN value ELSE f[k]]
Keep(f, keys) == [k \in DOMAIN f \cap keys |-> f[k]]
HasStatus(status) == {p \in DOMAIN pluginsById : pluginsById[p] = status}

Init ==
    /\ pluginsById = Keep(ManifestsOf, {})
    /\ manifestsByPluginId = Keep(ManifestsOf, {})
    /\ packagesById = Keep(ManifestsOf, {})
    /\ revokedPackageSignerIds = {}
    /\ schemasByKey = Keep(ManifestsOf, {})
    /\ entitiesById = Keep(ManifestsOf, {})
    /\ importing = None
    /\ replaced = {}

-----------------------------------------------------------------------------
(***************************************************************************)
(* Requirements between plugins.                                           *)
(***************************************************************************)
Provided(plugins, field) == UNION {manifestsByPluginId[p][field] : p \in plugins}

activeCapabilityExists(c, active) == c \in Provided(active, "providedCapabilities")
activeFivemDependencyExists(d, active) == d \in active \/ d \in Provided(active, "provides")
RequirementsMet(p, active) ==
    LET m == manifestsByPluginId[p] IN
    /\ m.requiredPlugins \subseteq active
    /\ \A d \in m.dependencies : activeFivemDependencyExists(d, active)
    /\ \A c \in m.requiredCapabilities : activeCapabilityExists(c, active)

(* What stays active when `gone' are no longer: round after round, a plugin *)
(* drops out whose requirements are not met or that requires a capability   *)
(* someone who dropped out provided, even if another plugin provides it too.*)
(* Mutation: one round only.                                                *)
disableDependents_OneRound(gone, lost) ==
    {p \in HasStatus("active") \ gone :
        /\ RequirementsMet(p, HasStatus("active") \ gone)
        /\ manifestsByPluginId[p].requiredCapabilities \cap lost = {}}
disableDependents(gone, lost) ==
    LET start == HasStatus("active") \ gone
        round[n \in 0 .. Cardinality(start)] ==
            IF n = 0 THEN start
            ELSE {p \in round[n - 1] :
                    /\ RequirementsMet(p, round[n - 1])
                    /\ manifestsByPluginId[p].requiredCapabilities
                        \cap (lost \cup Provided(start \ round[n - 1], "providedCapabilities")) = {}} IN
    round[Cardinality(start)]

(* Statuses after `gone' are disabled and the others as the cascade left    *)
(* them; `kept' are the plugins that stay installed.                        *)
WithDisabled(kept, gone, lost) ==
    LET active == disableDependents(gone, lost) IN
    [p \in kept |->
        IF p \in gone \/ (pluginsById[p] = "active" /\ p \notin active) THEN "disabled"
        ELSE pluginsById[p]]

-----------------------------------------------------------------------------
(***************************************************************************)
(* The registry's methods.                                                 *)
(***************************************************************************)
(* Menus, commands, panels, exports and server commands name permissions    *)
(* the manifest declares.                                                   *)
validateManifest(m) == m.namedPermissions \subseteq m.permissions

StatusOf(p) == IF p \in DOMAIN pluginsById THEN pluginsById[p] ELSE "installed"
Replaces(p, m) ==
    IF StatusOf(p) = "active" /\ manifestsByPluginId[p] # m THEN {p} ELSE {}

install(p, m) ==
    /\ validateManifest(m)
    /\ pluginsById' = Put(pluginsById, p, StatusOf(p))
    /\ manifestsByPluginId' = Put(manifestsByPluginId, p, m)
    /\ replaced' = replaced \cup Replaces(p, m)
    /\ UNCHANGED <<packagesById, revokedPackageSignerIds, dataVars, importing>>

(* A local package is not checked against the signers.  Its signature and   *)
(* hash are right or the call throws.                                       *)
validatePackage(signer, local) == ~local => signer \notin revokedPackageSignerIds

installPackage(package, p, m, signer, local) ==
    /\ validatePackage(signer, local)
    /\ validateManifest(m)
    /\ pluginsById' = Put(pluginsById, p, StatusOf(p))
    /\ manifestsByPluginId' = Put(manifestsByPluginId, p, m)
    /\ packagesById' = Put(packagesById, package,
                           [pluginId |-> p, signerId |-> signer, local |-> local])
    /\ replaced' = replaced \cup Replaces(p, m)
    /\ UNCHANGED <<revokedPackageSignerIds, dataVars, importing>>

assertPackageSignerTrusted(p) ==
    \A package \in DOMAIN packagesById :
        packagesById[package].pluginId = p =>
            packagesById[package].signerId \notin revokedPackageSignerIds
CanEnable(p) ==
    /\ assertPackageSignerTrusted(p)
    /\ p \in DOMAIN pluginsById
    /\ RequirementsMet(p, HasStatus("active"))
enable(p) ==
    /\ CanEnable(p)
    /\ pluginsById' = [pluginsById EXCEPT ![p] = "active"]
    /\ UNCHANGED <<manifestsByPluginId, packagesById, revokedPackageSignerIds, dataVars,
                   importing, replaced>>

disable(p) ==
    /\ p \in DOMAIN pluginsById
    /\ pluginsById' = WithDisabled(DOMAIN pluginsById, {p},
                                   manifestsByPluginId[p].providedCapabilities)
    /\ replaced' = {}
    /\ UNCHANGED <<manifestsByPluginId, packagesById, revokedPackageSignerIds, dataVars,
                   importing>>

(* Schemas and entities of the plugin stay.                                 *)
uninstall(p) ==
    /\ p \in DOMAIN pluginsById
    /\ LET kept == DOMAIN pluginsById \ {p} IN
        /\ pluginsById' = WithDisabled(kept, {p}, manifestsByPluginId[p].providedCapabilities)
        /\ manifestsByPluginId' = Keep(manifestsByPluginId, kept)
    /\ packagesById' = Keep(packagesById,
            {package \in DOMAIN packagesById : packagesById[package].pluginId # p})
    /\ replaced' = {}
    /\ UNCHANGED <<revokedPackageSignerIds, dataVars, importing>>

(* The plugins with a package of the signer are disabled one after another, *)
(* each with what depends on it; that is one cascade from all of them.      *)
revokePackageSigner(signer) ==
    LET affected == {packagesById[package].pluginId :
                        package \in {k \in DOMAIN packagesById :
                                        packagesById[k].signerId = signer}}
        gone == {p \in affected \cap DOMAIN pluginsById : pluginsById[p] # "disabled"} IN
    /\ revokedPackageSignerIds' = revokedPackageSignerIds \cup {signer}
    /\ pluginsById' = IF gone = {} THEN pluginsById
                      ELSE WithDisabled(DOMAIN pluginsById, gone,
                                        Provided(gone, "providedCapabilities"))
    /\ replaced' = IF gone = {} THEN replaced ELSE {}
    /\ UNCHANGED <<manifestsByPluginId, packagesById, dataVars, importing>>

(* The surfaces the rest of the system reads: all of the active manifests.  *)
ActivePermissions == Provided(HasStatus("active"), "permissions")
ActiveSurfaces == {surface \in PluginIds \X Provided(HasStatus("active"), "namedPermissions") :
                    /\ surface[1] \in HasStatus("active")
                    /\ surface[2] \in manifestsByPluginId[surface[1]].namedPermissions}

-----------------------------------------------------------------------------
(***************************************************************************)
(* The import.  A plan has the local package of every ensured resource     *)
(* there is; they are installed in the order of the file, and enabled in   *)
(* that order once the database has the installations.                     *)
(***************************************************************************)
LegacyPackage(p) == [pluginId |-> p, signerId |-> "local-legacy-importer", local |-> TRUE]
ManifestOfResource(p) == CHOOSE m \in ManifestsOf[p] : validateManifest(m)

(* The manifest made for a resource names no permission, so it is valid.    *)
ASSUME RegistryAssumption ==
    /\ DataPlugins \subseteq PluginIds
    /\ \A list \in EnsuredLists :
          /\ list \in Seq(PluginIds)
          /\ \A p \in ToSet(list) : \E m \in ManifestsOf[p] : validateManifest(m)

ImportInstalls(list) ==
    LET listed == ToSet(list) IN
    /\ importing = None
    /\ importing' = list
    /\ pluginsById' = [p \in DOMAIN pluginsById \cup listed |-> StatusOf(p)]
    /\ manifestsByPluginId' = [p \in DOMAIN manifestsByPluginId \cup listed |->
            IF p \in listed THEN ManifestOfResource(p) ELSE manifestsByPluginId[p]]
    /\ packagesById' = [k \in DOMAIN packagesById \cup {<<"legacy", p>> : p \in listed} |->
            IF k \in {<<"legacy", p>> : p \in listed} THEN LegacyPackage(k[2]) ELSE packagesById[k]]
    /\ replaced' = replaced \cup {p \in listed : Replaces(p, ManifestOfResource(p)) # {}}
    /\ UNCHANGED <<revokedPackageSignerIds, dataVars>>

(* A resource whose requirements are not met when its turn comes is passed  *)
(* over; one uninstalled meanwhile too.                                     *)
(* Mutation: the first failure ends the import.                             *)
Enabled_FirstFailure(list) ==
    LET after[n \in 0 .. Len(list)] ==
            IF n = 0 THEN [active |-> HasStatus("active"), ok |-> TRUE]
            ELSE LET p == list[n] IN
                 IF /\ after[n - 1].ok
                    /\ p \in DOMAIN pluginsById
                    /\ assertPackageSignerTrusted(p)
                    /\ RequirementsMet(p, after[n - 1].active)
                 THEN [active |-> after[n - 1].active \cup {p}, ok |-> TRUE]
                 ELSE [active |-> after[n - 1].active, ok |-> FALSE] IN
    after[Len(list)].active
Enabled(list) ==
    LET after[n \in 0 .. Len(list)] ==
            IF n = 0 THEN HasStatus("active")
            ELSE LET p == list[n] IN
                 IF /\ p \in DOMAIN pluginsById
                    /\ assertPackageSignerTrusted(p)
                    /\ RequirementsMet(p, after[n - 1])
                 THEN after[n - 1] \cup {p} ELSE after[n - 1] IN
    after[Len(list)]

ImportEnables ==
    /\ importing # None
    /\ importing' = None
    /\ pluginsById' = [p \in DOMAIN pluginsById |->
            IF p \in Enabled(importing) THEN "active" ELSE pluginsById[p]]
    /\ UNCHANGED <<manifestsByPluginId, packagesById, revokedPackageSignerIds, dataVars, replaced>>

-----------------------------------------------------------------------------
(***************************************************************************)
(* The data store.  A schema registered again replaces the one there was,  *)
(* whatever its version; entities stay as they are.                        *)
(***************************************************************************)
validateSchema(schema, data) == data \in schema
registerSchema(p, type, schema) ==
    /\ schemasByKey' = Put(schemasByKey, <<p, type>>, schema)
    /\ UNCHANGED <<registryVars, entitiesById, importing, replaced>>

upsertEntity(id, p, type, data) ==
    /\ <<p, type>> \in DOMAIN schemasByKey
    /\ validateSchema(schemasByKey[<<p, type>>], data)
    /\ id \in DOMAIN entitiesById =>
            entitiesById[id].pluginId = p /\ entitiesById[id].entityType = type
    /\ entitiesById' = Put(entitiesById, id, [pluginId |-> p, entityType |-> type, data |-> data])
    /\ UNCHANGED <<registryVars, schemasByKey, importing, replaced>>

RegistryStep ==
    \/ \E p \in PluginIds : enable(p) \/ disable(p) \/ uninstall(p)
    \/ \E p \in PluginIds : \E m \in ManifestsOf[p] :
        \/ install(p, m)
        \/ \E package \in PackageIds, signer \in SignerIds, local \in BOOLEAN :
                installPackage(package, p, m, signer, local)
    \/ \E signer \in SignerIds : revokePackageSigner(signer)
DataStep ==
    \E p \in DataPlugins, type \in EntityTypes :
        \/ \E schema \in Schemas : registerSchema(p, type, schema)
        \/ \E id \in EntityIds, data \in Data : upsertEntity(id, p, type, data)
ImportStep == (\E list \in EnsuredLists : ImportInstalls(list)) \/ ImportEnables

Next == RegistryStep \/ DataStep \/ ImportStep

Spec == Init /\ [][Next]_vars

-----------------------------------------------------------------------------
(***************************************************************************)
(* What the registry guarantees.                                           *)
(***************************************************************************)

(* Every plugin has a manifest, every package belongs to an installed       *)
(* plugin, and surfaces only name permissions that are active with them.    *)
RegistryTypeOK ==
    /\ pluginsById \in [DOMAIN pluginsById -> Statuses]
    /\ DOMAIN manifestsByPluginId = DOMAIN pluginsById
    /\ \A p \in DOMAIN pluginsById : manifestsByPluginId[p] \in ManifestsOf[p]
    /\ \A package \in DOMAIN packagesById : packagesById[package].pluginId \in DOMAIN pluginsById
    /\ \A surface \in ActiveSurfaces : surface[2] \in ActivePermissions
    /\ \A id \in DOMAIN entitiesById : entitiesById[id] \in Entity

(* An active plugin has everything it requires, through cycles, several     *)
(* providers and cascades, unless an active plugin was replaced by a        *)
(* version with another manifest; the next cascade sets that right.         *)
RequirementsHold ==
    replaced = {} => \A p \in HasStatus("active") : RequirementsMet(p, HasStatus("active"))

(* No active plugin has a package of a revoked signer, whichever came       *)
(* first: the installation, the revocation, the replacement of the package  *)
(* or an import.  Local packages name a signer nobody checks.               *)
RevokedSignersInactive ==
    \A package \in DOMAIN packagesById :
        packagesById[package].signerId \in revokedPackageSignerIds /\ ~packagesById[package].local
            => pluginsById[packagesById[package].pluginId] # "active"

(* Whatever is active may be: its requirements are met and its signer is    *)
(* trusted, and what it stored and offers is of the shape declared.         *)
ActivePluginsMayRun ==
    /\ RegistryTypeOK
    /\ RequirementsHold
    /\ RevokedSignersInactive

(* When an import ends, no resource it listed is left out that could have   *)
(* been enabled before its second half began, and nothing else is touched:  *)
(* importing again makes up for an unlucky order.                           *)
ImportEnablesWhatItCan ==
    [][importing # None /\ importing' = None =>
        /\ \A n \in DOMAIN importing : CanEnable(importing[n]) => pluginsById'[importing[n]] = "active"
        /\ \A p \in DOMAIN pluginsById \ ToSet(importing) : pluginsById'[p] = pluginsById[p]]_vars
=============================================================================
