------------------------------ MODULE RuntimeSync -------------------------------
(***************************************************************************)
(* One connector and its FXServer: FiveMRuntimeConnector.syncAll           *)
(* (src/src/connectors/fivem-runtime.ts) over the admin service's          *)
(* snapshots, dispatch queues and QBCore handlers (admin/service.ts).      *)
(*                                                                         *)
(* A pass runs one step per channel, in order, and a step that throws ends *)
(* the pass.  There are three kinds of step.  A mirror reads a snapshot,   *)
(* emits what differs from what it remembers to have applied, and          *)
(* remembers it.  A queue is drained and its dispatches are emitted.  A    *)
(* drain takes updates from the game, and the service stores them one by   *)
(* one.  Every await lets an administrator change sources and queue        *)
(* dispatches, and the game produce updates.                               *)
(*                                                                         *)
(* Faults: a read may fail; an emission may throw, its event executed or   *)
(* not; the answer to a drain may be lost; FXServer, or the process the    *)
(* service and the connector share, may restart.  The mirror of the access *)
(* control list is PermissionAccess, the sidecars' reconciliation          *)
(* PluginSidecars.                                                         *)
(***************************************************************************)
EXTENDS Integers, FiniteSets, Sequences, SequencesExt

CONSTANTS
    ActiveSets,       \* sets of channels that may be in use together
    KeysOf,           \* mirror channel -> keys of its snapshot
    NamespaceOf,      \* key of the configuration -> namespace
    Inputs,           \* queue channel -> dispatches: [server, target, detail]
    Server,           \* the connector's serverId
    MoneyInputs,      \* what a resource does to the balance: [operation, amount]
    Unset,            \* nothing applied yet
    MaxValue, MaxWork, MaxSyncFaults

(* syncAll.  runtimeAudit and aceMirror are not among its channels here.   *)
PassOrder == <<"health", "config", "nativePermissions", "menuTrees", "menuRefreshes",
    "replicatedState", "worldState", "vehicleSpawns", "vehicleRepairs", "teleports", "kicks",
    "qbMoneyUpdates", "qbInventoryUpdates", "qbCharacterSelections", "qbCharacterUpdates",
    "qbPlayerData", "qbShared", "deploymentDiagnostics">>

Mirrors == {"health", "config", "nativePermissions", "menuTrees", "qbPlayerData", "qbShared",
    "deploymentDiagnostics"}
Queues == {"menuRefreshes", "replicatedState", "worldState", "vehicleSpawns", "vehicleRepairs",
    "teleports", "kicks"}
Drains == {"qbMoneyUpdates", "qbInventoryUpdates", "qbCharacterSelections", "qbCharacterUpdates"}

ASSUME SyncAssumption ==
    /\ MaxValue \in Nat /\ MaxWork \in Nat /\ MaxSyncFaults \in Nat
    /\ Unset \notin Nat
    /\ \A chosen \in ActiveSets : chosen \subseteq Mirrors \cup Queues \cup Drains
    /\ DOMAIN KeysOf = Mirrors /\ \A c \in Mirrors : IsFiniteSet(KeysOf[c])
    /\ DOMAIN Inputs = Queues
    /\ \A c \in Queues :
            /\ IsFiniteSet(Inputs[c])
            /\ Inputs[c] \subseteq [server : {d.server : d \in Inputs[c]}, target : {d.target : d \in Inputs[c]},
                                    detail : {d.detail : d \in Inputs[c]}]
    /\ MoneyInputs \subseteq [operation : {"add", "remove", "set"}, amount : Nat]

VARIABLES
    active,           \* the channels in use
    source,           \* what the service's snapshots hold: channel -> key -> value, 0 for none
    applied,          \* the connector's appliedX maps and signatures
    shown,            \* what FXServer was last told
    inDoubtOf,        \* history: <<channel, key>> of which memory and game may differ by a fault
    pending,          \* the service's pendingX maps: channel -> key -> dispatch
    delivered,        \* history: channel -> key -> the last dispatch FXServer executed
    gameQueue,        \* updates waiting in the game: channel -> sequence
    gameView, db, cache,  \* one character's balance and data: in the game, in the
                      \* database, in the subscription cache
    posted,           \* the database's idempotency keys, with what was posted under them
    stored,           \* history: channel -> the last update stored
    excuses,          \* history: why the game and the database may differ
    pass,             \* the pass: [at, batch, planned], at = 0 between passes
    work, syncFaults  \* bounds

syncVars == <<active, source, applied, shown, inDoubtOf, pending, delivered, gameQueue,
              gameView, db, cache, posted, stored, excuses, pass, work, syncFaults>>
mirrorState == <<source, applied, shown, inDoubtOf>>
queueState == <<pending, delivered>>
qbState == <<gameQueue, gameView, db, cache, posted, stored, excuses>>

Between == [at |-> 0, batch |-> <<>>, planned |-> <<>>]

(* The steps to come after one, of the channels in use, and the next.      *)
StepsAfter(at) == {i \in DOMAIN PassOrder : i > at /\ PassOrder[i] \in active}
StepAfter(at) ==
    IF StepsAfter(at) = {} THEN Between
    ELSE [Between EXCEPT !.at = CHOOSE i \in StepsAfter(at) : \A j \in StepsAfter(at) : i <= j]

(* The last rows of two tables.                                            *)
Updated(table, rows) ==
    [k \in DOMAIN table \cup DOMAIN rows |-> IF k \in DOMAIN rows THEN rows[k] ELSE table[k]]

SyncInit(chosen) ==
    /\ active = chosen
    /\ source = [c \in Mirrors |-> [k \in KeysOf[c] |-> 0]]
    /\ applied = [c \in Mirrors |-> [k \in KeysOf[c] |-> Unset]]
    /\ shown = [c \in Mirrors |-> [k \in KeysOf[c] |-> 0]]
    /\ inDoubtOf = {}
    /\ pending = [c \in Queues |-> <<>>]
    /\ delivered = [c \in Queues |-> <<>>]
    /\ gameQueue = [c \in Drains |-> <<>>]
    /\ gameView = [balance |-> 0, data |-> 0] /\ db = gameView /\ cache = gameView
    /\ posted = <<>> /\ stored = [c \in Drains |-> -1] /\ excuses = {}
    /\ pass = Between
    /\ work = 0 /\ syncFaults = 0

(***************************************************************************)
(* What others do meanwhile.                                               *)
(***************************************************************************)
Working == work < MaxWork /\ work' = work + 1 /\ UNCHANGED <<active, syncFaults, pass>>

(* A setting's version only grows; any other snapshot may return to what   *)
(* it was.                                                                 *)
ChangeSource(channel, key, value) ==
    /\ Working
    /\ IF channel = "config" THEN value = source[channel][key] + 1 ELSE value # source[channel][key]
    /\ source' = [source EXCEPT ![channel][key] = value]
    /\ UNCHANGED <<applied, shown, inDoubtOf, queueState, qbState>>

(* The keys under which the service keeps a dispatch that is not drained.  *)
menuRefreshTargetKey(target) == <<target.server, target.target>>
replicatedStateUpdateKey(update) == <<update.server, update.target, update.detail>>
vehicleSpawnDispatchKey(spawn) == <<spawn.server, spawn.target, spawn.detail>>
vehicleRepairDispatchKey(repair) == <<repair.server, repair.target, repair.detail>>
worldStateUpdateKey(update) == <<update.server, update.detail>>
teleportDispatchKey(teleport) == <<teleport.server, teleport.target>>
kickDispatchKey(kick) == <<kick.server, kick.target>>

KeyOf(channel, dispatch) ==
    CASE channel = "menuRefreshes" -> menuRefreshTargetKey(dispatch)
      [] channel = "replicatedState" -> replicatedStateUpdateKey(dispatch)
      [] channel = "vehicleSpawns" -> vehicleSpawnDispatchKey(dispatch)
      [] channel = "vehicleRepairs" -> vehicleRepairDispatchKey(dispatch)
      [] channel = "worldState" -> worldStateUpdateKey(dispatch)
      [] channel = "teleports" -> teleportDispatchKey(dispatch)
      [] channel = "kicks" -> kickDispatchKey(dispatch)

(* Several dispatches are queued in one call; one waiting under the same   *)
(* key is replaced.  A dispatch carries the serial number of the call.     *)
Enqueue(channel, dispatches) ==
    LET Keyed(key) == CHOOSE d \in dispatches : KeyOf(channel, d) = key
        Numbered(d) == [server |-> d.server, target |-> d.target, detail |-> d.detail, n |-> work]
        queued == [key \in {KeyOf(channel, d) : d \in dispatches} |-> Numbered(Keyed(key))]
    IN  /\ Working
        /\ pending' = [pending EXCEPT ![channel] = Updated(@, queued)]
        /\ UNCHANGED <<mirrorState, delivered, qbState>>

queueMenuRefreshes(sessions) == Enqueue("menuRefreshes", sessions)
queueReplicatedState(updates) == Enqueue("replicatedState", updates)
queueVehicleSpawns(spawns) == Enqueue("vehicleSpawns", spawns)
queueVehicleRepairs(repairs) == Enqueue("vehicleRepairs", repairs)
queueWorldState(updates) == Enqueue("worldState", updates)
queueTeleports(teleports) == Enqueue("teleports", teleports)
queueKicks(kicks) == Enqueue("kicks", kicks)

(* The game changes its view of the character, and remembers the change    *)
(* for the connector to fetch.  An update carries its serial number.       *)
Produce(channel, update) ==
    /\ Working
    /\ gameQueue' = [gameQueue EXCEPT ![channel] = Append(@, update)]
    /\ UNCHANGED <<mirrorState, queueState, db, cache, posted, stored, excuses>>

(* AddMoney, RemoveMoney and SetMoney.  The idempotency key holds the      *)
(* operation and the update's place in the queue.                          *)
Balance(before, update) ==
    CASE update.operation = "add" -> before + update.amount
      [] update.operation = "remove" -> IF update.amount > before THEN 0 ELSE before - update.amount
      [] update.operation = "set" -> update.amount

GameChangesMoney(update) ==
    /\ gameView' = [gameView EXCEPT !.balance = Balance(@, update)]
    /\ Produce("qbMoneyUpdates", [operation |-> update.operation, amount |-> update.amount,
                                  place |-> Len(gameQueue["qbMoneyUpdates"]) + 1, n |-> work])

GameChangesItems == Produce("qbInventoryUpdates", [n |-> work]) /\ UNCHANGED gameView

GameSelectsCharacter == Produce("qbCharacterSelections", [n |-> work]) /\ UNCHANGED gameView

GameSavesCharacter ==
    /\ gameView' = [gameView EXCEPT !.data = work + 1]
    /\ Produce("qbCharacterUpdates", [data |-> work + 1, n |-> work])

CacheCatchesUp ==
    /\ cache # db
    /\ cache' = db
    /\ UNCHANGED <<active, mirrorState, queueState, gameQueue, gameView, db, posted, stored, excuses, pass, work, syncFaults>>

(***************************************************************************)
(* The steps of a pass, up to their first emission or write.               *)
(***************************************************************************)
(* The loop's timer, which starts no pass while one is running.            *)
StartPass ==
    /\ pass = Between /\ active # {}
    /\ pass' = StepAfter(0)
    /\ UNCHANGED <<active, mirrorState, queueState, qbState, work, syncFaults>>

Channel == PassOrder[pass.at]
Here(channel) == pass.at # 0 /\ pass.batch = <<>> /\ Channel = channel

NextStep == StepAfter(pass.at)

(* The events of a mirror, each with the values read, and all of them.     *)
Emits(channel, groups) ==
    LET Values(keys) == [k \in keys |-> source[channel][k]]
        events == [i \in DOMAIN groups |-> [values |-> Values(groups[i])]]
    IN  /\ Here(channel)
        /\ pass' = IF groups = <<>> THEN NextStep
                   ELSE [at |-> pass.at, batch |-> events, planned |-> Values(UNION Range(groups))]
        /\ UNCHANGED <<active, mirrorState, queueState, qbState, work, syncFaults>>

Differing(channel) == {k \in KeysOf[channel] : applied[channel][k] # source[channel][k]}

(* One event with the whole snapshot, when its signature differs.          *)
Whole(channel) == IF Differing(channel) = {} THEN <<>> ELSE <<KeysOf[channel]>>

(* Mutant: a principal that holds nothing any more is not told.            *)
PerPrincipal_GrantedOnly(channel) ==
    LET told == {k \in Differing(channel) : source[channel][k] # 0}
    IN  [i \in 1 .. Cardinality(told) |-> {SetToSeq(told)[i]}]

(* One event per principal, in order.  One that holds nothing is told so   *)
(* only if it was told something before.                                   *)
PerPrincipal(channel) ==
    LET told == {k \in Differing(channel) : applied[channel][k] # Unset \/ source[channel][k] # 0}
    IN  [i \in 1 .. Cardinality(told) |-> {SetToSeq(told)[i]}]

(* One event per namespace, with the settings that changed.                *)
planRuntimeConfigEvents(changed) ==
    LET namespaces == {NamespaceOf[k] : k \in changed}
    IN  [i \in 1 .. Cardinality(namespaces) |-> {k \in changed : NamespaceOf[k] = SetToSeq(namespaces)[i]}]

planRuntimeHealthEvent == Whole("health")
planQbSharedEvent == Whole("qbShared")
planDeploymentDiagnosticsEvent == Whole("deploymentDiagnostics")
planMenuTreeEvents == PerPrincipal("menuTrees")
planNativePermissionEvents == PerPrincipal("nativePermissions")

syncRuntimeHealth == Emits("health", planRuntimeHealthEvent)
syncRuntimeConfig ==
    Emits("config", planRuntimeConfigEvents({k \in Differing("config") : source["config"][k] # 0}))
syncNativePermissions == Emits("nativePermissions", planNativePermissionEvents)
syncMenuTrees == Emits("menuTrees", planMenuTreeEvents)

(* Without players there is no event, whatever was sent before.            *)
planQbPlayerDataEvents == IF source["qbPlayerData"]["all"] = 0 THEN <<>> ELSE Whole("qbPlayerData")
syncQbPlayerData == Emits("qbPlayerData", planQbPlayerDataEvents)
syncQbShared == Emits("qbShared", planQbSharedEvent)
syncDeploymentDiagnostics == Emits("deploymentDiagnostics", planDeploymentDiagnosticsEvent)

(* The service hands out its queue's dispatches for this server.           *)
Drained(channel) == {k \in DOMAIN pending[channel] : pending[channel][k].server = Server}

Dispatches(channel) == {pending[channel][k] : k \in Drained(channel)}

Flushes(channel, events) ==
    LET drained == Drained(channel) IN
    /\ Here(channel)
    /\ pending' = [pending EXCEPT ![channel] = [k \in DOMAIN @ \ drained |-> @[k]]]
    /\ pass' = IF drained = {} THEN NextStep ELSE [pass EXCEPT !.batch = events]
    /\ UNCHANGED <<active, mirrorState, delivered, qbState, work, syncFaults>>

(* Mutant: the plan keeps the last dispatch for a server, not all of them. *)
Together_LastOnly(dispatches) == <<[dispatches |-> <<Last(SetToSeq(dispatches))>>]>>

(* All of them in one event, or each in an event of its own.               *)
Together(dispatches) == <<[dispatches |-> SetToSeq(dispatches)]>>
Apart(dispatches) == [i \in 1 .. Cardinality(dispatches) |-> [dispatches |-> <<SetToSeq(dispatches)[i]>>]]

planMenuRefreshEvents(targets) == Together(targets)
planReplicatedStateEvents(updates) == Together(updates)
planWorldStateEvents(updates) == Together(updates)       \* merged
planVehicleSpawnEvents(spawns) == Together(spawns)
planVehicleRepairEvents(repairs) == Together(repairs)
planTeleportEvents(teleports) == Apart(teleports)
planKickEvents(kicks) == Apart(kicks)

flushMenuRefreshes == Flushes("menuRefreshes", planMenuRefreshEvents(Dispatches("menuRefreshes")))
syncReplicatedState == Flushes("replicatedState", planReplicatedStateEvents(Dispatches("replicatedState")))
syncWorldState == Flushes("worldState", planWorldStateEvents(Dispatches("worldState")))
syncVehicleSpawns == Flushes("vehicleSpawns", planVehicleSpawnEvents(Dispatches("vehicleSpawns")))
syncVehicleRepairs == Flushes("vehicleRepairs", planVehicleRepairEvents(Dispatches("vehicleRepairs")))
syncTeleports == Flushes("teleports", planTeleportEvents(Dispatches("teleports")))
syncKicks == Flushes("kicks", planKickEvents(Dispatches("kicks")))

(* The game's export hands out its queue and empties it.                   *)
Fetches(channel) ==
    /\ Here(channel)
    /\ gameQueue' = [gameQueue EXCEPT ![channel] = <<>>]
    /\ pass' = IF gameQueue[channel] = <<>> THEN NextStep ELSE [pass EXCEPT !.batch = gameQueue[channel]]
    /\ UNCHANGED <<active, mirrorState, queueState, gameView, db, cache, posted, stored, excuses, work, syncFaults>>

syncQbMoneyUpdates == Fetches("qbMoneyUpdates")
syncQbInventoryUpdates == Fetches("qbInventoryUpdates")
syncQbCharacterSelections == Fetches("qbCharacterSelections")
syncQbCharacterUpdates == Fetches("qbCharacterUpdates")

(***************************************************************************)
(* Emissions and writes, one at a time.                                    *)
(***************************************************************************)
Busy(kind) == pass.at # 0 /\ pass.batch # <<>> /\ Channel \in kind

Rest == IF Len(pass.batch) = 1 THEN NextStep ELSE [pass EXCEPT !.batch = Tail(@)]

(* Settings are remembered when every event of the step has been sent, the *)
(* rest as they are sent.                                                  *)
Remembered ==
    IF Channel # "config" THEN Head(pass.batch).values
    ELSE IF Len(pass.batch) = 1 THEN pass.planned ELSE <<>>

Told == {Channel} \X DOMAIN Head(pass.batch).values

emitServerEvent_Mirror ==
    /\ Busy(Mirrors)
    /\ shown' = [shown EXCEPT ![Channel] = Updated(@, Head(pass.batch).values)]
    /\ applied' = [applied EXCEPT ![Channel] = Updated(@, Remembered)]
    /\ inDoubtOf' = inDoubtOf \ Told
    /\ pass' = Rest
    /\ UNCHANGED <<active, source, queueState, qbState, work, syncFaults>>

(* The dispatches FXServer executes of an event.                           *)
Executed(event) ==
    LET keys == {KeyOf(Channel, d) : d \in Range(event.dispatches)}
    IN  [key \in keys |-> (CHOOSE d \in Range(event.dispatches) : KeyOf(Channel, d) = key).n]

emitServerEvent_Queue ==
    /\ Busy(Queues)
    /\ delivered' = [delivered EXCEPT ![Channel] = Updated(@, Executed(Head(pass.batch)))]
    /\ pass' = Rest
    /\ UNCHANGED <<active, mirrorState, pending, qbState, work, syncFaults>>

Stored(update) ==
    /\ stored' = [stored EXCEPT ![Channel] = update.n]
    /\ pass' = Rest
    /\ UNCHANGED <<active, mirrorState, queueState, gameQueue, gameView, cache, work, syncFaults>>

(* Mutant: the direction follows the sign of the adjustment alone.         *)
Posting_BySign(update) == IF update.operation = "set" THEN update.amount - cache.balance ELSE update.amount

(* What the service posts for an update: the cache's balance is the one a  *)
(* "set" is measured against.                                              *)
Posting(update) ==
    LET difference == IF update.operation = "set" THEN update.amount - cache.balance ELSE update.amount
    IN  IF update.operation = "remove" THEN -update.amount ELSE difference

PostingKey(update) == <<update.operation, update.place>>

(* admin_adjust_balance answers a known key, with the same posting, as the *)
(* retry of what was posted, and refuses it with another posting.          *)
Repeats(update) == PostingKey(update) \in DOMAIN posted /\ posted[PostingKey(update)] = Posting(update)

Refused(update) ==
    \/ /\ Channel = "qbMoneyUpdates"
       /\ \/ update.amount = 0
          \/ /\ Posting(update) # 0 /\ ~Repeats(update)
             /\ PostingKey(update) \in DOMAIN posted \/ db.balance + Posting(update) < 0
    \/ Channel = "qbCharacterSelections" /\ cache.data = 0

applyQbCoreRuntimeMoneyUpdates ==
    LET update == Head(pass.batch)
        posts == Posting(update) # 0 /\ ~Repeats(update)
    IN  /\ Busy({"qbMoneyUpdates"})
        /\ ~Refused(update)
        /\ db' = [db EXCEPT !.balance = IF posts THEN @ + Posting(update) ELSE @]
        /\ posted' = IF posts THEN Updated(posted, [key \in {PostingKey(update)} |-> Posting(update)]) ELSE posted
        /\ excuses' = excuses
            \cup (IF Posting(update) # 0 /\ Repeats(update) THEN {"repeated key"} ELSE {})
            \cup (IF update.operation = "set" /\ cache.balance # db.balance THEN {"stale cache"} ELSE {})
        /\ Stored(update)

applyQbCoreRuntimeInventoryUpdates ==
    /\ Busy({"qbInventoryUpdates"})
    /\ UNCHANGED <<db, posted, excuses>>
    /\ Stored(Head(pass.batch))

(* selectGameplayCharacter writes back the character the cache holds.      *)
applyQbCoreRuntimeCharacterSelections ==
    /\ Busy({"qbCharacterSelections"})
    /\ ~Refused(Head(pass.batch))
    /\ db' = [db EXCEPT !.data = cache.data]
    /\ excuses' = excuses \cup (IF cache.data # db.data THEN {"stale cache"} ELSE {})
    /\ UNCHANGED posted
    /\ Stored(Head(pass.batch))

applyQbCoreRuntimeCharacterUpdates ==
    /\ Busy({"qbCharacterUpdates"})
    /\ db' = [db EXCEPT !.data = Head(pass.batch).data]
    /\ UNCHANGED <<posted, excuses>>
    /\ Stored(Head(pass.batch))

(* An update that is refused takes those after it with it.                 *)
StoringRefused ==
    /\ Busy(Drains)
    /\ Refused(Head(pass.batch))
    /\ pass' = Between
    /\ excuses' = excuses \cup {IF /\ Channel = "qbMoneyUpdates" /\ Len(pass.batch) = 1
                                   /\ Head(pass.batch).amount # 0
                                   /\ PostingKey(Head(pass.batch)) \in DOMAIN posted
                                THEN "repeated key" ELSE "lost"}
    /\ UNCHANGED <<active, mirrorState, queueState, gameQueue, gameView, db, cache, posted, stored, work, syncFaults>>

(***************************************************************************)
(* Faults.  A step that throws ends the pass.                              *)
(***************************************************************************)
Faulty == syncFaults < MaxSyncFaults /\ syncFaults' = syncFaults + 1 /\ UNCHANGED <<active, work>>

ReadFails ==
    /\ Faulty
    /\ pass.at # 0 /\ pass.batch = <<>>
    /\ pass' = Between
    /\ UNCHANGED <<mirrorState, queueState, qbState>>

(* Settings are compared by version, which never returns to an old one.    *)
emitServerEventThrows_Mirror ==
    /\ Faulty
    /\ Busy(Mirrors)
    /\ \/ UNCHANGED <<shown, inDoubtOf>>
       \/ /\ shown' = [shown EXCEPT ![Channel] = Updated(@, Head(pass.batch).values)]
          /\ inDoubtOf' = inDoubtOf \cup (IF Channel = "config" THEN {} ELSE Told)
    /\ pass' = Between
    /\ UNCHANGED <<source, applied, queueState, qbState>>

emitServerEventThrows_Queue ==
    /\ Faulty
    /\ Busy(Queues)
    /\ \/ UNCHANGED delivered
       \/ delivered' = [delivered EXCEPT ![Channel] = Updated(@, Executed(Head(pass.batch)))]
    /\ pass' = Between
    /\ UNCHANGED <<mirrorState, pending, qbState>>

(* The export emptied the queue, but its answer is lost.                   *)
FetchAnswerLost ==
    /\ Faulty
    /\ pass.at # 0 /\ pass.batch = <<>>
    /\ Channel \in Drains
    /\ gameQueue' = [gameQueue EXCEPT ![Channel] = <<>>]
    /\ excuses' = excuses \cup (IF gameQueue[Channel] # <<>> THEN {"lost"} ELSE {})
    /\ pass' = Between
    /\ UNCHANGED <<mirrorState, queueState, gameView, db, cache, posted, stored>>

(* Mutant: what was not stored goes back to the end of the queue.          *)
StoringThrows_Requeues ==
    /\ Faulty
    /\ Busy(Drains)
    /\ gameQueue' = [gameQueue EXCEPT ![Channel] = @ \o pass.batch]
    /\ pass' = Between
    /\ UNCHANGED <<mirrorState, queueState, gameView, db, cache, posted, stored, excuses>>

(* A write fails: the updates before it stay.                              *)
StoringThrows ==
    /\ Faulty
    /\ Busy(Drains)
    /\ excuses' = excuses \cup {"lost"}
    /\ pass' = Between
    /\ UNCHANGED <<mirrorState, queueState, gameQueue, gameView, db, cache, posted, stored>>

(* What FXServer was told and what its queues held is gone, and nothing    *)
(* tells the connector.                                                    *)
FxServerRestarts ==
    /\ Faulty
    /\ shown' = [c \in Mirrors |-> [k \in KeysOf[c] |-> 0]]
    /\ gameQueue' = [c \in Drains |-> <<>>]
    /\ inDoubtOf' = UNION {{c} \X KeysOf[c] : c \in active \cap Mirrors}
    /\ excuses' = excuses \cup {"lost"}
    /\ UNCHANGED <<source, applied, queueState, gameView, db, cache, posted, stored, pass>>

(* The process of the service and the connector restarts: what it          *)
(* remembers, what it queued and the pass it was in are gone, and the      *)
(* cache is read anew.  A principal that holds nothing any more will not   *)
(* be told.                                                                *)
ServiceRestarts ==
    /\ Faulty
    /\ applied' = [c \in Mirrors |-> [k \in KeysOf[c] |-> Unset]]
    /\ inDoubtOf' = inDoubtOf \cup
            UNION {{<<c, k>> : k \in {k \in KeysOf[c] : shown[c][k] # 0}} : c \in {"nativePermissions", "menuTrees"}}
    /\ pending' = [c \in Queues |-> <<>>]
    /\ cache' = db
    /\ excuses' = excuses \cup (IF pass # Between /\ Channel \in Drains /\ pass.batch # <<>> THEN {"lost"} ELSE {})
    /\ pass' = Between
    /\ UNCHANGED <<source, shown, delivered, gameQueue, gameView, db, posted, stored>>

(***************************************************************************)
(* The system.                                                             *)
(***************************************************************************)
Reads ==
    \/ syncRuntimeHealth \/ syncRuntimeConfig \/ syncNativePermissions \/ syncMenuTrees
    \/ syncQbPlayerData \/ syncQbShared \/ syncDeploymentDiagnostics
    \/ flushMenuRefreshes \/ syncReplicatedState \/ syncWorldState \/ syncVehicleSpawns
    \/ syncVehicleRepairs \/ syncTeleports \/ syncKicks
    \/ syncQbMoneyUpdates \/ syncQbInventoryUpdates \/ syncQbCharacterSelections \/ syncQbCharacterUpdates

Writes ==
    \/ emitServerEvent_Mirror
    \/ emitServerEvent_Queue
    \/ applyQbCoreRuntimeMoneyUpdates
    \/ applyQbCoreRuntimeInventoryUpdates
    \/ applyQbCoreRuntimeCharacterSelections
    \/ applyQbCoreRuntimeCharacterUpdates
    \/ StoringRefused

Others ==
    \/ \E c \in active \cap Mirrors, value \in 0 .. MaxValue :
            \E k \in KeysOf[c] : ChangeSource(c, k, value)
    \/ \E c \in active \cap Queues : \E dispatches \in SUBSET Inputs[c] \ {{}} :
            CASE c = "menuRefreshes" -> queueMenuRefreshes(dispatches)
              [] c = "replicatedState" -> queueReplicatedState(dispatches)
              [] c = "worldState" -> queueWorldState(dispatches)
              [] c = "vehicleSpawns" -> queueVehicleSpawns(dispatches)
              [] c = "vehicleRepairs" -> queueVehicleRepairs(dispatches)
              [] c = "teleports" -> queueTeleports(dispatches)
              [] c = "kicks" -> queueKicks(dispatches)
    \/ "qbMoneyUpdates" \in active /\ \E update \in MoneyInputs : GameChangesMoney(update)
    \/ "qbInventoryUpdates" \in active /\ GameChangesItems
    \/ "qbCharacterSelections" \in active /\ GameSelectsCharacter
    \/ "qbCharacterUpdates" \in active /\ GameSavesCharacter
    \/ CacheCatchesUp

SyncFaults ==
    \/ ReadFails
    \/ emitServerEventThrows_Mirror
    \/ emitServerEventThrows_Queue
    \/ FetchAnswerLost
    \/ StoringThrows
    \/ FxServerRestarts
    \/ ServiceRestarts

SyncNext == StartPass \/ Reads \/ Writes \/ Others \/ SyncFaults

(* The timer keeps firing, and every call of a pass is answered or throws. *)
SyncFairness == WF_syncVars(StartPass) /\ WF_syncVars(Reads) /\ WF_syncVars(Writes)

SyncSpec == (\E chosen \in ActiveSets : SyncInit(chosen)) /\ [][SyncNext]_syncVars /\ SyncFairness

(***************************************************************************)
(* Properties.                                                             *)
(***************************************************************************)

(* The memories, queues and balances have the shapes the connector and the *)
(* service keep them in, the account never goes below zero in the          *)
(* database, and a batch in flight belongs to a step in use.               *)
SyncTypeOK ==
    /\ active \in ActiveSets \cup {{}}
    /\ \A c \in Mirrors :
        /\ source[c] \in [KeysOf[c] -> 0 .. MaxValue]
        /\ shown[c] \in [KeysOf[c] -> 0 .. MaxValue]
        /\ applied[c] \in [KeysOf[c] -> 0 .. MaxValue \cup {Unset}]
    /\ \A c \in Queues : \A key \in DOMAIN pending[c] : KeyOf(c, pending[c][key]) = key
    /\ gameView.balance \in Nat /\ db.balance \in Nat /\ cache.balance \in Nat
    /\ pass.at \in 0 .. Len(PassOrder)
    /\ pass.batch # <<>> => pass.at # 0 /\ Channel \in active
    /\ work \in 0 .. MaxWork /\ syncFaults \in 0 .. MaxSyncFaults

(* What the connector remembers to have applied FXServer was told, unless  *)
(* an emission was cut short or one of the two restarted.  A setting's     *)
(* memory may be behind, since it is kept when the whole step is done, but *)
(* never ahead (the appliedX maps of FiveMRuntimeConnector).               *)
MirrorMemory ==
    \A c \in active \cap Mirrors : \A k \in KeysOf[c] :
        applied[c][k] # Unset /\ <<c, k>> \notin inDoubtOf
        => IF c = "config" THEN applied[c][k] <= shown[c][k] ELSE applied[c][k] = shown[c][k]

InFlight(channel) ==
    IF pass.at # 0 /\ Channel = channel THEN UNION {Range(pass.batch[i].dispatches) : i \in DOMAIN pass.batch} ELSE {}

Waiting(channel) == Range(pending[channel]) \cup InFlight(channel)

DeliveredOf(channel, key) == IF key \in DOMAIN delivered[channel] THEN delivered[channel][key] ELSE -1

(* No dispatch that still waits was executed by FXServer, nor a later one  *)
(* for the same target: nothing runs twice, and the last one queued is the *)
(* last one executed (queueX, drainX and the emissions of their events).   *)
DispatchesInOrder ==
    \A c \in active \cap Queues : \A d \in Waiting(c) : d.n > DeliveredOf(c, KeyOf(c, d))

(* A dispatch goes on waiting until FXServer executes it, a later one for  *)
(* its target replaces it, or a fault takes it: the emission of its own    *)
(* batch, or a restart of the service.  Draining for one server keeps what *)
(* waits for another.                                                      *)
NothingForgotten ==
    [][\A c \in active \cap Queues : \A d \in Waiting(c) :
        \/ d \in Waiting(c)'
        \/ DeliveredOf(c, KeyOf(c, d))' >= d.n
        \/ \E later \in Waiting(c)' : KeyOf(c, later) = KeyOf(c, d) /\ later.n > d.n
        \/ emitServerEventThrows_Queue /\ d \in InFlight(c)
        \/ ServiceRestarts]_syncVars

(* The updates of a channel are stored in the order the game made them,    *)
(* none twice: whatever waits, in the game or in a batch, is later than    *)
(* what was stored (the drains and the loops of applyQbCoreRuntimeX).      *)
UpdatesStoredOnceInOrder ==
    \A c \in active \cap Drains :
        LET batch == IF pass.at # 0 /\ Channel = c THEN pass.batch ELSE <<>>
            line == batch \o gameQueue[c]
        IN  /\ \A i \in DOMAIN line : line[i].n > stored[c]
            /\ \A i, j \in DOMAIN line : i < j => line[i].n < line[j].n

(* Nothing crosses between game and service twice or out of order, and what *)
(* is remembered of it is what has crossed.                                *)
OnceInOrder ==
    /\ SyncTypeOK
    /\ MirrorMemory
    /\ DispatchesInOrder
    /\ UpdatesStoredOnceInOrder

Quiet == pass = Between /\ \A c \in Drains : gameQueue[c] = <<>>

(* Between passes, with nothing left in the game's queues, the database    *)
(* holds the balance and the data the game shows, unless updates were lost *)
(* or refused, a step was computed from a cache behind the database, or a  *)
(* key was taken (applyQbCoreRuntimeMoneyUpdates and its siblings).        *)
GameAndStoreAgree ==
    Quiet /\ excuses = {} => db.balance = gameView.balance /\ db.data = gameView.data

(* Every change of money the game makes reaches the ledger, as             *)
(* docs/qbcore-parity.md says of the queue of main.lua: without a fault,   *)
(* a refusal or a stale cache the balances agree.                          *)
EveryMoneyChangeStored ==
    Quiet /\ excuses \subseteq {"repeated key"} => db.balance = gameView.balance

Settled(channel) ==
    CASE channel \in Mirrors ->
            \A k \in KeysOf[channel] :
                \/ shown[channel][k] = source[channel][k]
                \/ <<channel, k>> \in inDoubtOf
                \/ channel = "qbPlayerData" /\ source[channel][k] = 0
      [] channel \in Queues -> Drained(channel) = {}
      [] OTHER -> gameQueue[channel] = <<>>

(* Once the sources rest, every mirror shows them, except where a fault    *)
(* left memory and game apart, and every queue, the service's and the      *)
(* game's, is emptied: a step that fails for a while delays the later ones *)
(* and never stops them (FiveMRuntimeSyncLoop.runOnce).                    *)
PassesSettle == <>[](\A c \in active : Settled(c))
=============================================================================
