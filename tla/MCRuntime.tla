------------------------------- MODULE MCRuntime -------------------------------
(***************************************************************************)
(* The runtime's components checked side by side: a behaviour lets one     *)
(* group of actors work, and leaves the state of the others as it starts.  *)
(* The groups share no state, so nothing of their interplay is lost.       *)
(***************************************************************************)
EXTENDS PermissionAccess, RuntimeActions, RuntimeSync

CONSTANTS admin, mod, alice, driver, ban, spawn, banAce, panel, cash, police, cap1, cap2,
          weather, night, here, there, p1, p2

VARIABLE part

(* A cycle of two principals drawn by the panel, one mapped role.          *)
MCAccessPermissions == {ban}
MCContexts == {[amount |-> a, currency |-> cash, namespace |-> Absent, state |-> Absent] : a \in {1, 3, Absent}}
MCEdgeKeys == {[parent |-> admin, child |-> mod, source |-> panel],
               [parent |-> mod, child |-> admin, source |-> panel]}
MCGrantKeys == {[principal |-> admin, permission |-> ban, effect |-> "allow"],
                [principal |-> mod, permission |-> ban, effect |-> "deny"]}
MCRuleInputs == {[id |-> id, permission |-> ban, ace |-> banAce, enabled |-> TRUE,
                  mode |-> IF id = 1 THEN "allow_only" ELSE "both"] : id \in 1 .. 2}
MCPolicyInputs == {[id |-> 1, permission |-> ban, type |-> "max_amount", enabled |-> TRUE,
                    constraint |-> [amount |-> 2, currency |-> Absent, state |-> Absent, namespace |-> Absent]]}
MCRoleMappings == {[role |-> police, target |-> mod]}

(* One action of each way to execute, a command of the handled one, and two *)
(* hooks of one plugin whose capabilities differ.                          *)
MCDefinitions ==
    weather :> [type |-> "set_weather", permission |-> spawn, enabled |-> TRUE, handled |-> TRUE]
    @@ night :> [type |-> "toggle_feature", permission |-> None, enabled |-> TRUE, handled |-> FALSE]
MCCommands == "/weather" :> [action |-> weather, permission |-> spawn, enabled |-> TRUE]
MCMenus == "world" :> [parent |-> None, permission |-> None, action |-> None, enabled |-> TRUE]
           @@ "sky" :> [parent |-> "world", permission |-> None, action |-> weather, enabled |-> TRUE]
MCAfterHooks == weather :> 1 @@ night :> 0
MCSandboxHooks == <<[plugin |-> "p", capability |-> cap1], [plugin |-> "p", capability |-> cap2]>>
MCAnswers == {<<>>, <<night>>, <<weather, weather>>}
MCActionCapabilities == weather :> cap1
MCCapabilitySets == {{cap1}, {cap2}}

(* Every channel alone, and the ones whose steps bear on each other.       *)
MCKeysOf == ("config" :> {"a", "b", "c"}) @@ ("nativePermissions" :> {p1, p2}) @@ ("menuTrees" :> {p1})
    @@ [c \in {"health", "qbPlayerData", "qbShared", "deploymentDiagnostics"} |-> {"all"}]
MCNamespaceOf == [k \in {"a", "b", "c"} |-> IF k = "c" THEN "two" ELSE "one"]
MCDispatches == {[server |-> here, target |-> p1, detail |-> "x"],
                 [server |-> here, target |-> p2, detail |-> "y"],
                 [server |-> there, target |-> p1, detail |-> "x"]}
MCInputs == [c \in {"menuRefreshes", "replicatedState", "worldState", "vehicleSpawns", "vehicleRepairs",
                    "teleports", "kicks"} |-> MCDispatches]
MCMoneyInputs == {[operation |-> "add", amount |-> 1], [operation |-> "remove", amount |-> 2],
                  [operation |-> "set", amount |-> 1], [operation |-> "set", amount |-> 0]}
MCActiveSets ==
    {{c} : c \in DOMAIN MCKeysOf \cup DOMAIN MCInputs \cup {"qbMoneyUpdates", "qbInventoryUpdates"}}
    \cup {{"config", "teleports"}, {"qbCharacterSelections", "qbCharacterUpdates"}}

Init ==
    /\ AccessInit /\ ActionsInit
    /\ \/ part \in {"access", "calls", "control", "sandbox"} /\ SyncInit({})
       \/ part = "sync" /\ \E chosen \in ActiveSets : SyncInit(chosen)

Next ==
    \/ part = "access" /\ AccessNext /\ UNCHANGED <<part, actionsVars, syncVars>>
    \/ part = "calls" /\ CallsNext /\ UNCHANGED <<part, accessVars, syncVars>>
    \/ part = "control" /\ ControlNext /\ UNCHANGED <<part, accessVars, syncVars>>
    \/ part = "sandbox" /\ SandboxNext /\ UNCHANGED <<part, accessVars, syncVars>>
    \/ part = "sync" /\ SyncNext /\ UNCHANGED <<part, accessVars, actionsVars>>

vars == <<part, accessVars, actionsVars, syncVars>>

(* In the state a group starts in none of its fair steps is enabled, so    *)
(* the groups' own fairness asks nothing of those that do not work.        *)
Spec == Init /\ [][Next]_vars /\ AccessFairness /\ ActionsFairness /\ SyncFairness
=============================================================================
