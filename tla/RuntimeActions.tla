----------------------------- MODULE RuntimeActions -----------------------------
(***************************************************************************)
(* How an action runs: RuntimeBridge (src/src/runtime/bridge.ts) over the  *)
(* menu and command registries, the action bus and audit log of            *)
(* RuntimeControlPlane (src/src/core/runtime.ts, actions.ts), the          *)
(* in-process hooks that follow an action (hooks.ts), and the brokers that *)
(* let a plugin's sandbox ask for actions (plugin-sidecar-hooks.ts,        *)
(* plugin-action-broker.ts).                                               *)
(*                                                                         *)
(* JavaScript runs one step at a time; a step ends where the code awaits.  *)
(* Between the steps of one call other calls run, permissions change,      *)
(* deployments are replaced or killed, and sandboxes start and stop.       *)
(***************************************************************************)
EXTENDS Integers, FiniteSets, Sequences, SequencesExt, TLC

CONSTANTS
    Principals,
    Permissions_,     \* permission keys of the definitions
    Definitions,      \* action id -> [type, permission, enabled, handled]
    Commands,         \* command -> [action, permission, enabled]
    Menus,            \* menu id -> [parent, permission, action, enabled]
    AfterHooks,       \* action id -> number of after_action hooks
    SandboxHooks,     \* hooks of one hook name in order: [plugin, capability]
    Answers,          \* what a sandbox may answer: sequences of action ids
    maxActionsPerHook,
    actionCapabilities,   \* action id -> capability
    CapabilitySets,   \* capabilities a deployment's bundle may have
    Keys, Nonces,     \* of envelopes submitted directly, and of heartbeats
    None,
    MaxCalls, MaxDeployments, MaxChanges, MaxVersion

ASSUME ActionsAssumption ==
    /\ maxActionsPerHook \in Nat
    /\ MaxCalls \in Nat /\ MaxDeployments \in Nat /\ MaxChanges \in Nat /\ MaxVersion \in Nat
    /\ DOMAIN AfterHooks = DOMAIN Definitions
    /\ IsFiniteSet(DOMAIN Menus)
    /\ SandboxHooks \in Seq(Range(SandboxHooks))
    /\ \A answer \in Answers : answer \in Seq(Range(answer))

(* What a dispatch is about, while a hook is handled.                      *)
Asked == UNION {Range(answer) : answer \in Answers}
Runs == [actor : Principals, at : Nat, stage : {"next", "asked", "acting"}, actions : Seq(Asked), call : Nat]

ASSUME NoneAssumption == None \notin Runs

(* The bridge draws its keys and nonces at random: nobody submits them.    *)
ASSUME FreshAssumption == \A drawn \in Keys \cup Nonces : drawn \notin {"fresh"} \X Nat

(* upsert_menu_action (spacetimedb/src/menus.rs:414) stores no action that *)
(* runs a server command without a permission.                             *)
ASSUME DefinitionsAssumption ==
    \A action \in DOMAIN Definitions :
        Definitions[action].type = "execute_server_command" => Definitions[action].permission # None

VARIABLES
    allowed,          \* what the permission store allows: {<<principal, permission>>}
    engine,           \* the menu's and commands' snapshot of it
    changes,          \* bound on permission changes
    calls,            \* the calls of the bridge
    bus,              \* actionsById: the envelopes, an id being a place
    byKey,            \* actionsByIdempotencyKey: copies of envelopes
    usedNonces,       \* of actions
    audits,           \* auditLogs
    config, ack,      \* the version of one setting, and the acknowledged one
    beats,            \* heartbeats accepted: nonces in order
    beatNonces,       \* heartbeatNoncesByServerId
    deployment,       \* plugin -> None or the active [id, capabilities]
    sandbox,          \* plugin -> None or the deployment its sandbox runs
    deployed,         \* deployments made
    late,             \* history: plugin -> the actions its sandbox got submitted without
                      \* the capability since its deployment last came or went
    run               \* the hook dispatch: None or its progress

busVars == <<bus, byKey, usedNonces, audits>>
controlVars == <<config, ack, beats, beatNonces>>
permissionVars == <<allowed, engine, changes>>
sandboxVars == <<deployment, sandbox, deployed, late>>
actionsVars == <<allowed, engine, changes, calls, bus, byKey, usedNonces, audits, config, ack,
                 beats, beatNonces, deployment, sandbox, deployed, late, run>>

Plugins == {SandboxHooks[i].plugin : i \in DOMAIN SandboxHooks}

ActionsInit ==
    /\ allowed = {} /\ engine = {} /\ changes = 0
    /\ calls = <<>> /\ bus = <<>> /\ byKey = <<>> /\ usedNonces = {} /\ audits = <<>>
    /\ config = 0 /\ ack = 0 /\ beats = <<>> /\ beatNonces = {}
    /\ deployment = [p \in Plugins |-> None]
    /\ sandbox = [p \in Plugins |-> None]
    /\ deployed = 0
    /\ late = [p \in Plugins |-> 0]
    /\ run = None

(***************************************************************************)
(* Permissions: the store changes at once, the snapshot when refreshed.    *)
(***************************************************************************)
ChangePermissions ==
    /\ changes < MaxChanges
    /\ allowed' \in SUBSET (Principals \X Permissions_)
    /\ changes' = changes + 1
    /\ UNCHANGED <<engine, calls, busVars, controlVars, sandboxVars, run>>

refreshPermissionEngine ==
    /\ engine' = allowed
    /\ UNCHANGED <<allowed, changes, calls, busVars, controlVars, sandboxVars, run>>

Permitted(principal, permission) == permission = None \/ <<principal, permission>> \in engine

(* Mutant: the action's permission is not asked.                            *)
isVisible_IgnoresAction(principal, menu) ==
    Menus[menu].enabled /\ Permitted(principal, Menus[menu].permission)

(***************************************************************************)
(* The menu.                                                               *)
(***************************************************************************)
isVisible(principal, menu) ==
    LET action == Menus[menu].action IN
    /\ Menus[menu].enabled
    /\ action # None => action \in DOMAIN Definitions /\ Definitions[action].enabled
                            /\ Permitted(principal, Definitions[action].permission)
    /\ Permitted(principal, Menus[menu].permission)

(* The menus in a principal's tree: hidden with their parent, and left out *)
(* when they are submenus that lead nowhere.                               *)
buildTreeForPrincipal(principal) ==
    LET ids == DOMAIN Menus
        Visible == {m \in ids : isVisible(principal, m)}
        Leads[n \in 0 .. Cardinality(ids)] ==
            {m \in Visible :
                \/ Menus[m].action # None \/ Menus[m].parent = None
                \/ n > 0 /\ \E child \in Leads[n - 1] : Menus[child].parent = m}
        Shown[n \in 0 .. Cardinality(ids)] ==
            {m \in Leads[Cardinality(ids)] : Menus[m].parent = None \/ (n > 0 /\ Menus[m].parent \in Shown[n - 1])}
    IN  Shown[Cardinality(ids)]

(* executeAction of the menu and executeCommand of the registry.           *)
Known(request) ==
    IF request.command = None
    THEN request.action \in DOMAIN Definitions /\ Definitions[request.action].enabled
             /\ (Definitions[request.action].type = "execute_server_command"
                    => Definitions[request.action].permission # None)
    ELSE Commands[request.command].enabled

RequiredPermission(request) ==
    IF request.command = None THEN Definitions[request.action].permission
                              ELSE Commands[request.command].permission

(* A command dispatches its action as a "runtime_action".                  *)
TypeOf(request) ==
    IF request.command = None THEN Definitions[request.action].type ELSE "runtime_action"

(***************************************************************************)
(* The action bus and the audit log.                                       *)
(***************************************************************************)
Audit(kind, about, status) == [kind |-> kind, about |-> about, status |-> status]

Envelope(id, actor, action, key, nonce) ==
    [id |-> id, actor |-> actor, action |-> action, key |-> key, nonce |-> nonce, status |-> "submitted"]

Put(map, key, value) == [k \in DOMAIN map \cup {key} |-> IF k = key THEN value ELSE map[k]]

Store(envelope) ==
    /\ bus' = Append(bus, envelope)
    /\ byKey' = Put(byKey, envelope.key, envelope)
    /\ usedNonces' = usedNonces \cup {envelope.nonce}

(* The envelopes are equal but for their nonce and signature: the stored   *)
(* one is answered.  A refused one changes nothing, its nonce included.    *)
submitAction(actor, action, key, nonce, signed) ==
    /\ Len(bus) < MaxCalls
    /\ key \notin DOMAIN byKey
    /\ nonce \notin usedNonces
    /\ signed
    /\ Store(Envelope(Len(bus) + 1, actor, action, key, nonce))
    /\ UNCHANGED <<permissionVars, calls, audits, controlVars, sandboxVars, run>>

completeAction(id, status) ==
    LET completed == [bus[id] EXCEPT !.status = status] IN
    /\ bus[id].status = "submitted"
    /\ bus' = [bus EXCEPT ![id] = completed]
    /\ byKey' = Put(byKey, completed.key, completed)
    /\ UNCHANGED usedNonces

(* An envelope submitted directly is completed by who handles it, with a   *)
(* result that can be copied.                                              *)
CompleteDirectly(id, status) ==
    /\ bus[id].key \in Keys
    /\ completeAction(id, status)
    /\ audits' = Append(audits, Audit("action", id, status))
    /\ UNCHANGED <<permissionVars, calls, controlVars, sandboxVars, run>>

(***************************************************************************)
(* A call of the bridge: it is checked; it is submitted and starts to      *)
(* execute; it settles; its hooks run; it is completed.                    *)
(***************************************************************************)
Request(principal, action, command) == [principal |-> principal, action |-> action, command |-> command]

(* copies: what the call settled with can be copied (structuredClone).     *)
NewCall(request) ==
    [request |-> request, stage |-> "checked", action |-> 0, hooks |-> 0, copies |-> TRUE, ok |-> FALSE]

Refusal(request) ==
    [NewCall(request) EXCEPT !.stage = "done"]

(* Unknown, not permitted, or with a payload against the schema: refused   *)
(* in this order, and only a missing permission is recorded.               *)
RefusesCall(request) ==
    /\ calls' = Append(calls, Refusal(request))
    /\ audits' = IF Known(request) /\ ~Permitted(request.principal, RequiredPermission(request))
                 THEN Append(audits, Audit("permission", request.principal, "denied")) ELSE audits

Accepted(request) == Known(request) /\ Permitted(request.principal, RequiredPermission(request))

(* callAction up to its first await.                                       *)
Checked(request) ==
    \/ RefusesCall(request)
    \/ Accepted(request) /\ calls' = Append(calls, NewCall(request)) /\ UNCHANGED audits

callAction(principal, action) ==
    /\ Len(calls) < MaxCalls
    /\ Checked(Request(principal, action, None))
    /\ UNCHANGED <<permissionVars, bus, byKey, usedNonces, controlVars, sandboxVars, run>>

Handled(action) == action \in DOMAIN Definitions /\ Definitions[action].handled

(* Executed by the bridge itself, which throws at a malformed payload      *)
(* before anything else.                                                   *)
Typed == {"set_runtime_config", "toggle_feature", "open_panel"}

(* dispatchAuthorizedAction up to the await of executeTypedAction.  The    *)
(* bridge draws a fresh nonce and key.  A setting is written at once.      *)
Starts(request, malformed) ==
    LET id == Len(bus) + 1
        sets == TypeOf(request) \in {"set_runtime_config", "toggle_feature"}
    IN  /\ TypeOf(request) = "runtime_action" => Handled(request.action)
        /\ malformed => TypeOf(request) \in Typed
        /\ Store(Envelope(id, request.principal, request.action, <<"fresh", id>>, <<"fresh", id>>))
        /\ config' = IF sets /\ ~malformed THEN config + 1 ELSE config

Started(call, malformed) ==
    [call EXCEPT !.stage = IF malformed THEN "malformed" ELSE "executing", !.action = Len(bus) + 1]

(* A call of the sandbox that answered the hook being handled.             *)
OfSandbox(c) == run # None /\ run.call = c /\ c # 0

Unasked(c) ==
    LET plugin == SandboxHooks[run.at].plugin
        action == calls[c].request.action
    IN  ~(deployment[plugin] # None /\ actionCapabilities[action] \in deployment[plugin].capabilities)

dispatchAuthorizedAction(c) ==
    /\ calls[c].stage = "checked"
    /\ \E malformed \in BOOLEAN :
           /\ Starts(calls[c].request, malformed)
           /\ calls' = [calls EXCEPT ![c] = Started(@, malformed)]
    /\ late' = [p \in Plugins |->
                   IF OfSandbox(c) /\ p = SandboxHooks[run.at].plugin /\ Unasked(c) THEN late[p] + 1 ELSE late[p]]
    /\ UNCHANGED <<permissionVars, audits, ack, beats, beatNonces, deployment, sandbox, deployed, run>>

(* Nothing is submitted: nobody handles a runtime action, or submitAction  *)
(* throws.                                                                 *)
Unsubmitted(c) ==
    /\ calls[c].stage = "checked"
    /\ calls' = [calls EXCEPT ![c].stage = "done"]
    /\ UNCHANGED <<permissionVars, busVars, controlVars, sandboxVars, run>>

(* A command is checked and submitted without an await between.            *)
callCommand(principal, command) ==
    LET request == Request(principal, Commands[command].action, command) IN
    /\ Len(calls) < MaxCalls
    /\ \/ RefusesCall(request) /\ UNCHANGED <<bus, byKey, usedNonces, config>>
       \/ /\ Accepted(request) /\ Starts(request, FALSE)
          /\ calls' = Append(calls, Started(NewCall(request), FALSE))
          /\ UNCHANGED audits
    /\ UNCHANGED <<permissionVars, ack, beats, beatNonces, sandboxVars, run>>

(* The handler or dispatcher returns; what the bridge executes itself      *)
(* answers with a copy.                                                    *)
Settles(c) ==
    LET type == TypeOf(calls[c].request) IN
    /\ calls[c].stage = "executing"
    /\ type \in Typed \/ Handled(calls[c].request.action)
    /\ \E copies \in BOOLEAN :
           /\ copies \/ type \notin Typed \cup {"execute_server_command"}
           /\ calls' = [calls EXCEPT ![c].stage = "hooks", ![c].copies = copies]
    /\ UNCHANGED <<permissionVars, busVars, controlVars, sandboxVars, run>>

MayThrow(call) ==
    \/ call.stage = "malformed"
    \/ call.stage = "executing" /\ TypeOf(call.request) \notin Typed

(* Mutant: an action that throws is not completed.                          *)
Throws_Unfinished(c) ==
    /\ MayThrow(calls[c])
    /\ calls' = [calls EXCEPT ![c].stage = "done"]
    /\ UNCHANGED <<permissionVars, busVars, controlVars, sandboxVars, run>>

(* It throws, or no dispatcher is configured, or the command is not        *)
(* allowlisted: the action fails, and its hooks do not run.                *)
Throws(c) ==
    /\ MayThrow(calls[c])
    /\ completeAction(calls[c].action, "failed")
    /\ audits' = Append(audits, Audit("action", calls[c].action, "failed"))
    /\ calls' = [calls EXCEPT ![c].stage = "done"]
    /\ UNCHANGED <<permissionVars, controlVars, sandboxVars, run>>

(* One after_action hook returns or throws; a failing one stops nothing.   *)
HookSettles(c) ==
    /\ calls[c].stage = "hooks"
    /\ calls[c].hooks < AfterHooks[calls[c].request.action]
    /\ calls' = [calls EXCEPT ![c].hooks = @ + 1]
    /\ UNCHANGED <<permissionVars, busVars, controlVars, sandboxVars, run>>

(* The hooks' audits and the completion, in one step.  The envelope is     *)
(* stored before the result is copied for the audit log: a result that     *)
(* cannot be copied leaves no entry, and the call fails.                   *)
Completes(c) ==
    LET hooks == AfterHooks[calls[c].request.action]
        copies == calls[c].copies
    IN
    /\ calls[c].stage = "hooks"
    /\ calls[c].hooks = hooks
    /\ completeAction(calls[c].action, "completed")
    /\ audits' = audits \o [i \in 1 .. hooks |-> Audit("after", calls[c].action, i)]
                        \o (IF copies THEN <<Audit("action", calls[c].action, "completed")>> ELSE <<>>)
    /\ calls' = [calls EXCEPT ![c].stage = "done", ![c].ok = copies]
    /\ UNCHANGED <<permissionVars, controlVars, sandboxVars, run>>

(***************************************************************************)
(* The control plane.                                                      *)
(***************************************************************************)
setRuntimeConfig ==
    /\ config < MaxVersion
    /\ config' = config + 1
    /\ UNCHANGED <<permissionVars, calls, busVars, ack, beats, beatNonces, sandboxVars, run>>

ackConfigVersion(version) ==
    /\ config # 0
    /\ config = version
    /\ ack' = version
    /\ UNCHANGED <<permissionVars, calls, busVars, config, beats, beatNonces, sandboxVars, run>>

(* A heartbeat, signed by the server or forged.                            *)
heartbeat(nonce, signed) ==
    /\ nonce \notin beatNonces
    /\ signed
    /\ beatNonces' = beatNonces \cup {nonce}
    /\ beats' = Append(beats, nonce)
    /\ UNCHANGED <<permissionVars, calls, busVars, config, ack, sandboxVars, run>>

(***************************************************************************)
(* Deployments and sandboxes, as the brokers see them.                     *)
(***************************************************************************)
Deploy(plugin) ==
    /\ deployed < MaxDeployments
    /\ \E capabilities \in CapabilitySets :
           deployment' = [deployment EXCEPT ![plugin] = [id |-> deployed + 1, capabilities |-> capabilities]]
    /\ deployed' = deployed + 1
    /\ late' = [late EXCEPT ![plugin] = 0]
    /\ UNCHANGED <<permissionVars, calls, busVars, controlVars, sandbox, run>>

Kill(plugin) ==
    /\ deployment[plugin] # None
    /\ deployment' = [deployment EXCEPT ![plugin] = None]
    /\ late' = [late EXCEPT ![plugin] = 0]
    /\ UNCHANGED <<permissionVars, calls, busVars, controlVars, sandbox, deployed, run>>

(* The supervisor follows; an old sandbox may still run until it does.     *)
Reconcile(plugin) ==
    /\ sandbox' = [sandbox EXCEPT ![plugin] = IF deployment[plugin] = None THEN None ELSE deployment[plugin].id]
    /\ UNCHANGED <<permissionVars, calls, busVars, controlVars, deployment, deployed, late, run>>

assertCapabilityForServer(plugin, capability) ==
    deployment[plugin] # None /\ capability \in deployment[plugin].capabilities

(***************************************************************************)
(* A hook dispatched to the sandboxes.  run.at is the hook being handled.  *)
(***************************************************************************)
Hook == SandboxHooks[run.at]

dispatch(principal) ==
    /\ run = None
    /\ run' = [actor |-> principal, at |-> 1, stage |-> "next", actions |-> <<>>, call |-> 0]
    /\ UNCHANGED <<permissionVars, calls, busVars, controlVars, sandboxVars>>

NextHook == [actor |-> run.actor, at |-> run.at + 1, stage |-> "next", actions |-> <<>>, call |-> 0]

(* The hook is over, and leaves its audit.                                 *)
recordHookAudit(status) ==
    /\ audits' = Append(audits, Audit("hook", run.at, status))
    /\ run' = NextHook

requireRunningInstance ==
    /\ deployment[Hook.plugin] # None
    /\ sandbox[Hook.plugin] = deployment[Hook.plugin].id

Dispatching == run # None /\ run.at <= Len(SandboxHooks)

AskSandbox ==
    /\ Dispatching /\ run.stage = "next"
    /\ assertCapabilityForServer(Hook.plugin, Hook.capability) /\ requireRunningInstance
    /\ run' = [run EXCEPT !.stage = "asked"]
    /\ UNCHANGED <<permissionVars, calls, busVars, controlVars, sandboxVars>>

(* The payload is against the hook's schema, the capability is gone, or    *)
(* no sandbox runs.                                                        *)
SkipHook ==
    /\ Dispatching /\ run.stage = "next"
    /\ \/ recordHookAudit("failed")
       \/ ~assertCapabilityForServer(Hook.plugin, Hook.capability) /\ recordHookAudit("denied")
    /\ UNCHANGED <<permissionVars, calls, bus, byKey, usedNonces, controlVars, sandboxVars>>

SandboxAnswers(actions) ==
    /\ Dispatching /\ run.stage = "asked"
    /\ Len(actions) <= maxActionsPerHook
    /\ run' = [run EXCEPT !.stage = "acting", !.actions = actions]
    /\ UNCHANGED <<permissionVars, calls, busVars, controlVars, sandboxVars>>

(* Mutant: a sandbox that does not answer is awaited.                       *)
SandboxFails_NoLimit ==
    /\ Dispatching /\ run.stage = "asked"
    /\ FALSE
    /\ UNCHANGED actionsVars

(* It throws, asks for too many actions, or the time is over.              *)
SandboxFails ==
    /\ Dispatching /\ run.stage = "asked"
    /\ recordHookAudit("failed")
    /\ UNCHANGED <<permissionVars, calls, bus, byKey, usedNonces, controlVars, sandboxVars>>

(* Mutant: the deployment is not asked again.                               *)
Granted_Once(action) == action \in DOMAIN actionCapabilities

Granted(action) ==
    action \in DOMAIN actionCapabilities /\ assertCapabilityForServer(Hook.plugin, actionCapabilities[action])

(* requestAction, up to the first await of callAction.                     *)
requestAction ==
    /\ Dispatching /\ run.stage = "acting" /\ run.call = 0 /\ run.actions # <<>>
    /\ Granted(Head(run.actions))
    /\ Checked(Request(run.actor, Head(run.actions), None))
    /\ run' = [run EXCEPT !.call = Len(calls) + 1]
    /\ UNCHANGED <<permissionVars, bus, byKey, usedNonces, controlVars, sandboxVars>>

(* The action is denied, for want of the capability, by its constraints or *)
(* by the payload's schema: the actions after it are dropped.  The hook    *)
(* counts as failed after the schema, and as denied after the others.      *)
DenyAction ==
    /\ Dispatching /\ run.stage = "acting" /\ run.call = 0 /\ run.actions # <<>>
    /\ \E status \in {"denied", "failed"} :
           /\ status = "failed" => Granted(Head(run.actions))
           /\ audits' = audits \o <<Audit("request", run.at, "denied"), Audit("hook", run.at, status)>>
    /\ run' = NextHook
    /\ UNCHANGED <<permissionVars, calls, bus, byKey, usedNonces, controlVars, sandboxVars>>

(* The awaited call is done, whatever it answers.                          *)
ActionAnswered ==
    /\ Dispatching /\ run.stage = "acting" /\ run.call # 0
    /\ calls[run.call].stage = "done"
    /\ run' = [run EXCEPT !.call = 0, !.actions = Tail(@)]
    /\ UNCHANGED <<permissionVars, calls, busVars, controlVars, sandboxVars>>

HookSucceeds ==
    /\ Dispatching /\ run.stage = "acting" /\ run.actions = <<>>
    /\ recordHookAudit("succeeded")
    /\ UNCHANGED <<permissionVars, calls, bus, byKey, usedNonces, controlVars, sandboxVars>>

CallStep(c) ==
    /\ c \in DOMAIN calls
    /\ \/ Unsubmitted(c) \/ dispatchAuthorizedAction(c) \/ Settles(c) \/ Throws(c)
       \/ HookSettles(c) \/ Completes(c)

RunStep ==
    \/ AskSandbox \/ SkipHook \/ SandboxFails
    \/ requestAction \/ DenyAction \/ ActionAnswered \/ HookSucceeds

MaxAllCalls == MaxCalls + Len(SandboxHooks) * maxActionsPerHook

PermissionsNext == ChangePermissions \/ refreshPermissionEngine

(* A user calls, while permissions change and others submit envelopes.     *)
CallsNext ==
    \/ PermissionsNext
    \/ \E principal \in Principals, action \in DOMAIN Definitions : callAction(principal, action)
    \/ \E principal \in Principals, command \in DOMAIN Commands : callCommand(principal, command)
    \/ \E c \in 1 .. MaxAllCalls : CallStep(c)
    \/ \E principal \in Principals, action \in DOMAIN Definitions, key \in Keys, nonce \in Nonces, signed \in BOOLEAN :
           submitAction(principal, action, key, nonce, signed)
    \/ \E id \in DOMAIN bus, status \in {"completed", "failed"} : CompleteDirectly(id, status)

(* Settings and heartbeats.                                                *)
ControlNext ==
    \/ setRuntimeConfig
    \/ \E version \in 1 .. MaxVersion : ackConfigVersion(version)
    \/ \E nonce \in Nonces, signed \in BOOLEAN : heartbeat(nonce, signed)

(* Sandboxes answer a hook, while deployments come and go.                 *)
SandboxNext ==
    \/ \E plugin \in Plugins : Deploy(plugin) \/ Kill(plugin) \/ Reconcile(plugin)
    \/ PermissionsNext
    \/ \E principal \in Principals : dispatch(principal)
    \/ \E actions \in Answers : SandboxAnswers(actions)
    \/ RunStep
    \/ \E c \in 1 .. MaxAllCalls : CallStep(c)

ActionsNext == CallsNext \/ ControlNext \/ SandboxNext

ActionsSpec == ActionsInit /\ [][ActionsNext]_actionsVars

(* A step whose await is over runs; handlers and hooks return or throw     *)
(* (the code sets them no limit), and a sandbox that does not answer runs  *)
(* into its time limit.                                                    *)
ActionsFairness ==
    /\ \A c \in 1 .. MaxAllCalls : WF_actionsVars(CallStep(c))
    /\ WF_actionsVars(RunStep)

-----------------------------------------------------------------------------
Count(kind, about) == Cardinality({i \in DOMAIN audits : audits[i].kind = kind /\ audits[i].about = about})

(* Every envelope is at the place of its id, every call is at a stage of   *)
(* the code, and a call has an envelope from when it starts to execute.    *)
ActionsTypeOK ==
    /\ \A id \in DOMAIN bus : bus[id].id = id /\ bus[id].status \in {"submitted", "completed", "failed"}
    /\ \A c \in DOMAIN calls :
          /\ calls[c].stage \in {"checked", "malformed", "executing", "hooks", "done"}
          /\ calls[c].stage \in {"malformed", "executing", "hooks"} => calls[c].action \in DOMAIN bus
    /\ ack <= config
    /\ \A p \in Plugins : sandbox[p] # None => sandbox[p] <= deployed

(* Whoever repeats an idempotency key learns how that one action ended:    *)
(* the two indexes of the bus agree whatever is submitted, completed or    *)
(* refused in between, and the nonces spent are exactly those of the       *)
(* actions taken, so a forged envelope spends no nonce of an honest one.   *)
BusAgrees ==
    /\ DOMAIN byKey = {bus[id].key : id \in DOMAIN bus}
    /\ \A key \in DOMAIN byKey : byKey[key] = bus[byKey[key].id] /\ byKey[key].key = key
    /\ Cardinality(DOMAIN byKey) = Len(bus)
    /\ usedNonces = {bus[id].nonce : id \in DOMAIN bus}
    /\ Cardinality(usedNonces) = Len(bus)

(* The audit log tells how every action ended, once: a finished action has *)
(* one entry with its outcome and one of each of its hooks, unless it      *)
(* failed, and an unfinished one has none.  Only the action whose result   *)
(* cannot be copied is completed without an entry, and its call answers    *)
(* that it failed.  A call that was refused before it was submitted never  *)
(* leaves an action behind.                                                *)
Unlogged == {calls[c].action : c \in {d \in DOMAIN calls : calls[d].stage = "done" /\ ~calls[d].copies}}
AuditsTellTheEnd ==
    /\ \A id \in DOMAIN bus :
          /\ Count("action", id) = IF bus[id].status = "submitted" \/ id \in Unlogged THEN 0 ELSE 1
          /\ \A i \in DOMAIN audits : (audits[i].kind = "action" /\ audits[i].about = id) => audits[i].status = bus[id].status
          /\ Count("after", id) = IF bus[id].status = "completed" /\ bus[id].key \notin Keys
                                  THEN AfterHooks[bus[id].action] ELSE 0
    /\ \A c \in DOMAIN calls : calls[c].stage = "done" =>
          /\ calls[c].ok => calls[c].action # 0 /\ calls[c].copies
          /\ calls[c].action # 0 =>
                bus[calls[c].action].status = IF calls[c].ok \/ ~calls[c].copies THEN "completed" ELSE "failed"
    /\ \A c \in DOMAIN calls : calls[c].stage # "done" /\ calls[c].action # 0
                                   => bus[calls[c].action].status = "submitted" /\ ~calls[c].ok

(* An item in a principal's menu is one whose action the bridge accepts    *)
(* from that principal: the tree and the call decide from one snapshot.    *)
MenuOffersOnlyCallable ==
    \A principal \in Principals : \A menu \in buildTreeForPrincipal(principal) :
        LET action == Menus[menu].action IN
        action # None => LET request == Request(principal, action, None) IN
                         Known(request) /\ Permitted(principal, RequiredPermission(request))

(* Between the check of a sandbox's action and its submission the          *)
(* deployment may be killed or replaced, and the next actions of the same  *)
(* answer are still to come: once the capability is gone, at most one of   *)
(* them is submitted, the one that was checked before (requestAction       *)
(* checks each on its own and awaits it before the next).                  *)
OneActionAfterWithdrawal == \A p \in Plugins : late[p] <= 1

(* Every hook of a dispatch leaves exactly one audit, in order, whether    *)
(* the sandbox answers, fails, is gone or is denied an action: one failing *)
(* hook hides no other.                                                    *)
HooksAuditedOnce ==
    run # None =>
        \A i \in DOMAIN SandboxHooks : Count("hook", i) = IF i < run.at THEN 1 ELSE 0

(* A heartbeat counts once: a replayed one is refused, and a forged one    *)
(* does not use up the nonce of the honest one that follows it.            *)
BeatsOnce == beatNonces = {beats[i] : i \in DOMAIN beats} /\ Cardinality(beatNonces) = Len(beats)

(* Bus, nonces, audit log and heartbeats agree on what has happened, once   *)
(* each, with two calls under way at a time and hooks that fail.            *)
CallsAreRecorded ==
    /\ ActionsTypeOK
    /\ BusAgrees
    /\ AuditsTellTheEnd
    /\ HooksAuditedOnce
    /\ BeatsOnce

(* Every call of the bridge ends, and every dispatched hook is done: once  *)
(* nobody calls any more, no action of the bridge is left "submitted" and  *)
(* no hook unaudited, whatever failed on the way.                          *)
CallsFinish ==
    []<>(/\ \A c \in DOMAIN calls : calls[c].stage = "done"
         /\ run = None \/ run.at > Len(SandboxHooks))
=============================================================================
