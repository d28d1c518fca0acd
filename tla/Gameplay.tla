-------------------------------- MODULE Gameplay --------------------------------
(***************************************************************************)
(* Items, jobs, vehicles, locations, characters and inventories: the       *)
(* reducers of src/spacetimedb/src/gameplay.rs as the admin service calls  *)
(* them (src/src/admin/service.ts), and the migration of a QBCore server's *)
(* data (src/src/core/qbcore-migration.ts), a plan whose writes are sent   *)
(* one by one until one is refused or throws.  Several migrations,         *)
(* administrators and the game work at once, and characters are selected   *)
(* from a cache that trails the tables.  GameplayRegistry                  *)
(* (src/src/core/gameplay.ts) keeps such primitives within a process; it   *)
(* replaces what the reducers refuse to insert twice, and has its own      *)
(* notion of a stack.                                                      *)
(*                                                                         *)
(* One plugin owns every primitive.  A row is reduced to what a guard or a *)
(* property reads of it.  The id of an owner or the key of an item is the  *)
(* sequence of what stands between its colons.                             *)
(***************************************************************************)
EXTENDS Integers, FiniteSets, Sequences, SequencesExt, TLC

CONSTANTS
    Dumps,            \* QBCore data: items (key -> [unique, limit]), jobs (key -> grades),
                      \* vehicles, gangs, players (citizen -> [principal, money, job, grade])
    ItemInputs,       \* what a plugin registers: [key, stackable, limit]; the registry
                      \* alone takes one without a limit
    JobInputs,        \* [key, grades]
    CharacterInputs,  \* [id, player, selected]
    Owners, Quantities,
    Missing,          \* a grade or limit that is not given; no job, or "unemployed"
    MaxImports, MaxGameplayCalls, MaxRegistryCalls

ASSUME GameplayAssumption ==
    /\ MaxImports \in Nat /\ MaxGameplayCalls \in Nat /\ MaxRegistryCalls \in Nat
    /\ \A c \in CharacterInputs : c.selected \in BOOLEAN
    /\ Quantities \subseteq Int /\ \A item \in ItemInputs : item.limit \in Int \cup {Missing}
    /\ \A dump \in Dumps :
         /\ \A k \in DOMAIN dump.items : dump.items[k].limit \in Int \cup {Missing}
         /\ IsFiniteSet(DOMAIN dump.items) /\ IsFiniteSet(DOMAIN dump.jobs) /\ IsFiniteSet(DOMAIN dump.players)
         /\ IsFiniteSet(dump.vehicles) /\ IsFiniteSet(dump.gangs)
         /\ \A citizen \in DOMAIN dump.players : IsFiniteSet(DOMAIN dump.players[citizen].money)

VARIABLES
    pluginStatus,     \* of the owning plugin: absent, installed or active
    tables,           \* the rows, per table and key
    known,            \* the cache's characters
    imports,          \* the migrations, in the order they began: [plan, writes, outcome],
                      \* and for the history whether the plugin was uninstalled since
    registry,         \* GameplayRegistry's maps
    given,            \* history: <<owner, item>> -> what the registry granted in all
    gameplayCalls     \* bound

gameplayVars == <<pluginStatus, tables, known, imports, registry, given, gameplayCalls>>

Catalogues == {"items", "jobs", "vehicles", "locations"}
GameplayTables == Catalogues \cup {"schemas", "entities", "characters", "stacks", "characterJobs", "accounts"}

GameplayInit ==
    /\ pluginStatus \in {"absent", "active"}      \* active before the first call, or not
    /\ tables = [t \in GameplayTables |-> <<>>]
    /\ known = <<>>
    /\ imports = <<>>
    /\ registry = [items |-> <<>>, jobs |-> <<>>, inventory |-> <<>>, characterJobs |-> <<>>]
    /\ given = <<>> /\ gameplayCalls = 0

(***************************************************************************)
(* The reducers.  Each is what a call asks, the condition under which it   *)
(* is accepted, and the tables after it.                                   *)
(***************************************************************************)
Reducer(accepted, after) == [accepted |-> accepted, after |-> after]
Stored(f, key, row) == [k \in DOMAIN f \cup {key} |-> IF k = key THEN row ELSE f[k]]
Upsert(t, key, row) == [tables EXCEPT ![t] = Stored(@, key, row)]

(* A key that is taken aborts the reducer.                                 *)
register(t, key, row) ==
    Reducer(pluginStatus = "active" /\ key \notin DOMAIN tables[t], Upsert(t, key, row))
register_item(key, limit) == register("items", key, limit)
register_job(key, grades) == register("jobs", key, grades)
register_vehicle(model) == register("vehicles", model, TRUE)
register_location(key) == register("locations", key, TRUE)

register_plugin_schema(entityType) == Reducer(pluginStatus # "absent", Upsert("schemas", entityType, 1))
upsert_plugin_entity(entityType, id) ==
    Reducer(pluginStatus = "active" /\ entityType \in DOMAIN tables.schemas, Upsert("entities", id, entityType))

create_account(id, account) ==
    Reducer(account.balance >= 0 /\ id \notin DOMAIN tables.accounts, Upsert("accounts", id, account))

(* Mutant: others are deselected only when the character is new.           *)
upsert_character_NewOnly(id, player, selected) ==
    LET Others(c) == selected /\ c # id /\ tables.characters[c].player = player /\ id \notin DOMAIN tables.characters
        deselected == [c \in DOMAIN tables.characters |->
                          [tables.characters[c] EXCEPT !.selected = @ /\ ~Others(c)]]
    IN  Reducer(TRUE, [tables EXCEPT !.characters = Stored(deselected, id, [player |-> player, selected |-> selected])])

upsert_character(id, player, selected) ==
    LET Others(c) == selected /\ c # id /\ tables.characters[c].player = player
        deselected == [c \in DOMAIN tables.characters |->
                          [tables.characters[c] EXCEPT !.selected = @ /\ ~Others(c)]]
    IN  Reducer(TRUE, [tables EXCEPT !.characters = Stored(deselected, id, [player |-> player, selected |-> selected])])

(* The character need not exist.                                           *)
assign_job(character, job, grade) ==
    Reducer(job \in DOMAIN tables.jobs /\ grade \in tables.jobs[job],
            Upsert("characterJobs", character, [job |-> job, grade |-> grade]))

(* The two joined by a colon: another owner and another item may read the  *)
(* same.  The row keeps the owner and the item it was inserted with.       *)
inventory_stack_id(owner, item) == owner \o item

Quantity(id) == IF id \in DOMAIN tables.stacks THEN tables.stacks[id].quantity ELSE 0

StackWith(id, owner, item, quantity) ==
    IF id \in DOMAIN tables.stacks
    THEN [owner |-> tables.stacks[id].owner, item |-> tables.stacks[id].item, quantity |-> quantity]
    ELSE [owner |-> owner, item |-> item, quantity |-> quantity]

(* Mutant: the limit is compared with what is granted, not with the sum.   *)
grant_item_Unsummed(owner, item, quantity) ==
    LET id == inventory_stack_id(owner, item) IN
    Reducer(/\ quantity > 0 /\ item \in DOMAIN tables.items
            /\ tables.items[item] > 0 => quantity <= tables.items[item],
            Upsert("stacks", id, StackWith(id, owner, item, Quantity(id) + quantity)))

grant_item(owner, item, quantity) ==
    LET id == inventory_stack_id(owner, item) IN
    Reducer(/\ quantity > 0 /\ item \in DOMAIN tables.items
            /\ tables.items[item] > 0 => Quantity(id) + quantity <= tables.items[item],
            Upsert("stacks", id, StackWith(id, owner, item, Quantity(id) + quantity)))

remove_item(owner, item, quantity) ==
    LET id == inventory_stack_id(owner, item)
        without == [tables EXCEPT !.stacks = [s \in DOMAIN @ \ {id} |-> @[s]]]
        less == Upsert("stacks", id, StackWith(id, owner, item, Quantity(id) - quantity))
    IN  Reducer(quantity > 0 /\ quantity <= Quantity(id),
                IF quantity = Quantity(id) THEN without ELSE less)

(***************************************************************************)
(* Calls of the admin service.                                             *)
(***************************************************************************)
Calling(bound) == gameplayCalls < bound /\ gameplayCalls' = gameplayCalls + 1

Call(reducer) ==
    /\ Calling(MaxGameplayCalls)
    /\ reducer.accepted
    /\ tables' = reducer.after
    /\ UNCHANGED <<pluginStatus, known, imports, registry, given>>

registerGameplayItem(item) == Call(register_item(item.key, item.limit))
registerGameplayJob(job) == Call(register_job(job.key, job.grades))
registerGameplayVehicle(model) == Call(register_vehicle(model))
registerGameplayLocation(key) == Call(register_location(key))
upsertGameplayCharacter(c) == Call(upsert_character(c.id, c.player, c.selected))
grantGameplayItem(owner, item, quantity) == Call(grant_item(owner, item, quantity))
removeGameplayItem(owner, item, quantity) == Call(remove_item(owner, item, quantity))
assignGameplayJob(character, job, grade) == Call(assign_job(character, job, grade))

(* The row is written back as the cache has it.                            *)
selectGameplayCharacter(id) ==
    /\ id \in DOMAIN known
    /\ Call(upsert_character(id, known[id].player, TRUE))

CharactersHeard ==
    /\ known # tables.characters
    /\ known' = tables.characters
    /\ UNCHANGED <<pluginStatus, tables, imports, registry, given, gameplayCalls>>

(* register_plugin, for a plugin that is absent, and set_plugin_status.    *)
SetPluginStatus(status) ==
    /\ Calling(MaxGameplayCalls)
    /\ status # pluginStatus
    /\ pluginStatus' = status
    /\ UNCHANGED <<tables, known, imports, registry, given>>

(* The plugin takes its schemas and entities along; items, jobs, vehicles  *)
(* and locations stay.                                                     *)
uninstall_plugin ==
    /\ Calling(MaxGameplayCalls)
    /\ pluginStatus # "absent"
    /\ pluginStatus' = "absent"
    /\ tables' = [tables EXCEPT !.schemas = <<>>, !.entities = <<>>]
    /\ imports' = [i \in DOMAIN imports |-> [imports[i] EXCEPT !.uninstalled = TRUE]]
    /\ UNCHANGED <<known, registry, given>>

(***************************************************************************)
(* The migration.                                                          *)
(***************************************************************************)
(* Without grades a job has the grade "0", and so has a player without one.*)
normalizeGrades(grades) == IF grades = {} THEN {"0"} ELSE grades
normalizeGrade(grade) == IF grade = Missing THEN "0" ELSE grade

planItem(item) ==
    IF item.limit # Missing /\ item.limit > 0 THEN item.limit ELSE IF item.unique THEN 1 ELSE 100
planJob(grades) == normalizeGrades(grades)

(* The writes of one player: the selected character, an account for each   *)
(* currency, and the assignment of the job.                                *)
planPlayer(citizen, player) ==
    [character |-> [id |-> citizen, player |-> player.principal],
     accounts |-> {[owner |-> citizen, currency |-> c, balance |-> player.money[c]] : c \in DOMAIN player.money},
     assignments |-> IF player.job = Missing THEN {}
                     ELSE {[id |-> citizen, job |-> player.job, grade |-> normalizeGrade(player.grade)]}]

(* Planning throws at a balance that is no amount.                         *)
Plannable(dump) ==
    \A citizen \in DOMAIN dump.players :
        \A c \in DOMAIN dump.players[citizen].money : dump.players[citizen].money[c] >= 0

planQbCoreMigration(dump) ==
    LET planned == {planPlayer(citizen, dump.players[citizen]) : citizen \in DOMAIN dump.players} IN
    [items |-> [k \in DOMAIN dump.items |-> planItem(dump.items[k])],
     jobs |-> [k \in DOMAIN dump.jobs |-> planJob(dump.jobs[k])],
     vehicles |-> dump.vehicles,
     schemas |-> IF dump.gangs = {} THEN {} ELSE {"qbcore_gang"},
     entities |-> dump.gangs,
     characters |-> {p.character : p \in planned},
     accounts |-> UNION {p.accounts : p \in planned},
     assignments |-> UNION {p.assignments : p \in planned}]

WritesFor(kind, rows) == SetToSeq({[kind |-> kind, row |-> row] : row \in rows})

WritesOf(plan) ==
    WritesFor("item", {<<k, plan.items[k]>> : k \in DOMAIN plan.items})
    \o WritesFor("job", {<<k, plan.jobs[k]>> : k \in DOMAIN plan.jobs})
    \o WritesFor("vehicle", plan.vehicles) \o WritesFor("schema", plan.schemas) \o WritesFor("entity", plan.entities)
    \o WritesFor("character", plan.characters) \o WritesFor("account", plan.accounts)
    \o WritesFor("assignment", plan.assignments)

ReducerOf(write) ==
    LET row == write.row IN
    CASE write.kind = "item" -> register_item(row[1], row[2])
      [] write.kind = "job" -> register_job(row[1], row[2])
      [] write.kind = "vehicle" -> register_vehicle(row)
      [] write.kind = "schema" -> register_plugin_schema(row)
      [] write.kind = "entity" -> upsert_plugin_entity("qbcore_gang", row)
      [] write.kind = "character" -> upsert_character(row.id, row.player, TRUE)
      [] write.kind = "account" -> create_account(<<row.owner, row.currency>>, row)
      [] OTHER -> assign_job(row.id, row.job, row.grade)

validatePlanBeforeWrites(plan) == \A account \in plan.accounts : account.balance >= 0

applyQbCoreMigrationPlan(plan) ==
    /\ Len(imports) < MaxImports
    /\ validatePlanBeforeWrites(plan)
    /\ imports' = Append(imports, [plan |-> plan, writes |-> WritesOf(plan), outcome |-> "running",
                                   uninstalled |-> FALSE])
    /\ UNCHANGED <<pluginStatus, tables, known, registry, given, gameplayCalls>>

Running(i) == imports[i].outcome = "running"
Ended(i, outcome) == imports' = [imports EXCEPT ![i].outcome = outcome]

WriteAccepted(i) ==
    LET reducer == ReducerOf(Head(imports[i].writes)) IN
    /\ Running(i) /\ imports[i].writes # <<>>
    /\ reducer.accepted
    /\ tables' = reducer.after
    /\ imports' = [imports EXCEPT ![i].writes = Tail(@)]
    /\ UNCHANGED <<pluginStatus, known, registry, given, gameplayCalls>>

(* Mutant: a refused write is skipped.                                     *)
WriteRefused_Skipped(i) ==
    /\ Running(i) /\ imports[i].writes # <<>>
    /\ ~ReducerOf(Head(imports[i].writes)).accepted
    /\ imports' = [imports EXCEPT ![i].writes = Tail(@)]
    /\ UNCHANGED <<pluginStatus, tables, known, registry, given, gameplayCalls>>

WriteRefused(i) ==
    /\ Running(i) /\ imports[i].writes # <<>>
    /\ ~ReducerOf(Head(imports[i].writes)).accepted
    /\ Ended(i, "failed")
    /\ UNCHANGED <<pluginStatus, tables, known, registry, given, gameplayCalls>>

(* The call throws, and the reducer may have run.                          *)
WriteThrows(i) ==
    LET reducer == ReducerOf(Head(imports[i].writes)) IN
    /\ Running(i) /\ imports[i].writes # <<>>
    /\ tables' \in {tables} \cup (IF reducer.accepted THEN {reducer.after} ELSE {})
    /\ Ended(i, "failed")
    /\ UNCHANGED <<pluginStatus, known, registry, given, gameplayCalls>>

ImportDone(i) ==
    /\ Running(i) /\ imports[i].writes = <<>>
    /\ Ended(i, "done")
    /\ UNCHANGED <<pluginStatus, tables, known, registry, given, gameplayCalls>>

(***************************************************************************)
(* GameplayRegistry, for an actor who has the permissions it asserts.      *)
(***************************************************************************)
RegistryCall(changed) ==
    /\ Calling(MaxRegistryCalls)
    /\ registry' = changed
    /\ UNCHANGED <<pluginStatus, tables, known, imports>>

registerPluginPrimitives(item, job) ==
    /\ RegistryCall([registry EXCEPT !.items = Stored(@, item.key, item), !.jobs = Stored(@, job.key, job.grades)])
    /\ UNCHANGED given

InventoryOf(owner) == IF owner \in DOMAIN registry.inventory THEN registry.inventory[owner] ELSE <<>>

Given(owner, item) == IF <<owner, item>> \in DOMAIN given THEN given[<<owner, item>>] ELSE 0

(* The first stack grows if the item stacks, up to the limit if it has one:*)
(* 0 is a limit here and none in the reducers.  A new stack has no limit.  *)
grantItem(owner, item, quantity) ==
    LET inventory == InventoryOf(owner)
        first == SelectInSeq(inventory, LAMBDA stack : stack.item = item)
        grows == first # 0 /\ registry.items[item].stackable
        next == IF grows THEN [inventory EXCEPT ![first].quantity = @ + quantity]
                ELSE Append(inventory, [item |-> item, quantity |-> quantity])
    IN  /\ item \in DOMAIN registry.items
        /\ grows /\ registry.items[item].limit # Missing =>
                next[first].quantity <= registry.items[item].limit
        /\ RegistryCall([registry EXCEPT !.inventory = Stored(@, owner, next)])
        /\ given' = Stored(given, <<owner, item>>, Given(owner, item) + quantity)

assignJob(character, job, grade) ==
    /\ job \in DOMAIN registry.jobs /\ grade \in registry.jobs[job]
    /\ RegistryCall([registry EXCEPT !.characterJobs = Stored(@, character, [job |-> job, grade |-> grade])])
    /\ UNCHANGED given

(***************************************************************************)
(* The system.                                                             *)
(***************************************************************************)
GameplayNext ==
    \/ \E status \in {"installed", "active"} : SetPluginStatus(status)
    \/ uninstall_plugin
    \/ \E item \in ItemInputs : item.limit # Missing /\ registerGameplayItem(item)
    \/ \E job \in JobInputs : registerGameplayJob(job)
    \/ registerGameplayVehicle("car") \/ registerGameplayLocation("garage")
    \/ \E c \in CharacterInputs : upsertGameplayCharacter(c) \/ selectGameplayCharacter(c.id)
    \/ \E owner \in Owners, item \in ItemInputs, quantity \in Quantities :
            \/ grantGameplayItem(owner, item.key, quantity)
            \/ removeGameplayItem(owner, item.key, quantity)
    \/ \E c \in CharacterInputs, job \in JobInputs : \E grade \in job.grades :
            assignGameplayJob(c.id, job.key, grade)
    \/ CharactersHeard
    \/ \E dump \in Dumps : Plannable(dump) /\ applyQbCoreMigrationPlan(planQbCoreMigration(dump))
    \/ \E i \in DOMAIN imports : WriteAccepted(i) \/ WriteRefused(i) \/ WriteThrows(i) \/ ImportDone(i)

RegistryNext ==
    \/ \E item \in ItemInputs, job \in JobInputs : registerPluginPrimitives(item, job)
    \/ \E owner \in Owners, item \in ItemInputs, quantity \in Quantities : grantItem(owner, item.key, quantity)
    \/ \E c \in CharacterInputs, job \in JobInputs : \E grade \in job.grades : assignJob(c.id, job.key, grade)

GameplaySpec == GameplayInit /\ [][GameplayNext \/ RegistryNext]_gameplayVars

(***************************************************************************)
(* Properties.                                                             *)
(***************************************************************************)

(* Rows have the shapes the reducers store: no stack is empty, each has    *)
(* the id of its owner and its item, which is registered, no account is in *)
(* debt (gameplay.rs, create_account).                                     *)
GameplayTypeOK ==
    /\ DOMAIN tables = GameplayTables
    /\ \A s \in DOMAIN tables.stacks :
            LET stack == tables.stacks[s] IN
            /\ stack.quantity > 0 /\ stack.item \in DOMAIN tables.items
            /\ stack.owner \in Owners /\ s = inventory_stack_id(stack.owner, stack.item)
    /\ \A a \in DOMAIN tables.accounts : tables.accounts[a].balance >= 0
    /\ \A i \in DOMAIN imports : imports[i].outcome \in {"running", "done", "failed"}
    /\ \A s \in DOMAIN registry.inventory : \A n \in DOMAIN registry.inventory[s] :
            registry.inventory[s][n].item \in DOMAIN registry.items

(* However grants and removals of several callers interleave, no stack is  *)
(* above the limit of its item, which no later registration or import can  *)
(* change (grant_item, register_item).  Where the ids of several owners    *)
(* and items read the same they share one stack, and the limit it keeps to *)
(* is that of one of them (inventory_stack_id).                            *)
Readings(id) == {item \in DOMAIN tables.items : \E owner \in Owners : id = inventory_stack_id(owner, item)}
StacksWithinLimits ==
    \A s \in DOMAIN tables.stacks : \E item \in Readings(s) :
        tables.items[item] > 0 => tables.stacks[s].quantity <= tables.items[item]

(* A player has at most one selected character, whatever migrations,       *)
(* updates and selections from a stale cache do, and although a character  *)
(* may pass to another player meanwhile (upsert_character).                *)
OneCharacterSelected ==
    \A c, d \in DOMAIN tables.characters :
        (/\ tables.characters[c].selected /\ tables.characters[d].selected
         /\ tables.characters[c].player = tables.characters[d].player) => c = d

(* Every assignment names a registered job and one of its grades: what a   *)
(* migration or an administrator assigned stays valid (assign_job).        *)
AssignmentsHold ==
    \A c \in DOMAIN tables.characterJobs :
        LET assigned == tables.characterJobs[c] IN
        assigned.job \in DOMAIN tables.jobs /\ assigned.grade \in tables.jobs[assigned.job]

(* Wherever a migration stops, the money it has brought belongs to         *)
(* characters that exist (the order of applyQbCoreMigrationPlan).          *)
MoneyHasItsCharacter ==
    \A a \in DOMAIN tables.accounts : tables.accounts[a].owner \in DOMAIN tables.characters

(* A migration that ends without an error has everything of its plan in    *)
(* the tables, each account with the balance of this plan and not of       *)
(* another: what an earlier or a concurrent run left refuses it.  Only the *)
(* entities go again, when the plugin that owns them is uninstalled after  *)
(* the migration began, and it may end well without them.                  *)
DoneImportsAreWhole ==
    \A i \in DOMAIN imports :
        imports[i].outcome = "done" =>
            LET plan == imports[i].plan IN
            /\ \A k \in DOMAIN plan.items : k \in DOMAIN tables.items /\ tables.items[k] = plan.items[k]
            /\ \A k \in DOMAIN plan.jobs : k \in DOMAIN tables.jobs /\ tables.jobs[k] = plan.jobs[k]
            /\ plan.vehicles \subseteq DOMAIN tables.vehicles
            /\ plan.entities \subseteq DOMAIN tables.entities \/ imports[i].uninstalled
            /\ {c.id : c \in plan.characters} \subseteq DOMAIN tables.characters
            /\ \A a \in plan.accounts : tables.accounts[<<a.owner, a.currency>>] = a
            /\ {a.id : a \in plan.assignments} \subseteq DOMAIN tables.characterJobs

(* A migration leaves no money without its character wherever it stops, and *)
(* has brought everything when it ends well.                                *)
ImportsAreWhole == MoneyHasItsCharacter /\ DoneImportsAreWhole

(* The stacks of an owner add up to what the registry granted of an item,  *)
(* although it may be registered anew between grants as one that stacks or *)
(* one that does not (GameplayRegistry.grantItem).                         *)
Carried(inventory, item) ==
    SumFunctionOnSet([n \in DOMAIN inventory |-> IF inventory[n].item = item THEN inventory[n].quantity ELSE 0],
                     DOMAIN inventory)

RegistryAddsUp == \A key \in DOMAIN given : Carried(InventoryOf(key[1]), key[2]) = given[key]

(* The rows of the tables and of the registry fit each other: stacks, their *)
(* items and limits, assignments and their grades.                          *)
TablesAreSound ==
    /\ GameplayTypeOK
    /\ StacksWithinLimits
    /\ AssignmentsHold
    /\ RegistryAddsUp
=============================================================================
