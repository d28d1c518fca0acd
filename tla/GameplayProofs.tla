----------------------------- MODULE GameplayProofs -----------------------------
(***************************************************************************)
(* What Gameplay keeps for every set of dumps, items, jobs, characters and *)
(* quantities, any number of migrations and any interleaving of them with  *)
(* the administrators and with a cache that trails the tables.  Three      *)
(* invariants carry it:                                                    *)
(*   RowsIn       the characters and assignments, kept by each reducer on  *)
(*                its own;                                                 *)
(*   TablesInv    stacks and accounts, and for each migration that what it *)
(*                has not brought is still among its writes, with the      *)
(*                character of an account before the account;              *)
(*   RegistryInv  GameplayRegistry's stacks and what it granted.           *)
(* The writes of a migration are nothing but calls of reducers, and what a *)
(* reducer may not undo (Later) keeps what a migration brought.            *)
(***************************************************************************)
EXTENDS Gameplay, DataTheorems, TLAPS

(* The tables are a function, the rows of the characters are records.      *)
ShapeOf(db) ==
    /\ db = [t \in GameplayTables |-> db[t]]
    /\ \A c \in DOMAIN db["characters"] :
            /\ db["characters"][c] = [player |-> db["characters"][c].player,
                                      selected |-> db["characters"][c].selected]
            /\ db["characters"][c].selected \in BOOLEAN

OneSelectedIn(characters) ==
    \A c, d \in DOMAIN characters :
        (/\ characters[c].selected /\ characters[d].selected
         /\ characters[c].player = characters[d].player) => c = d

AssignmentsIn(jobs, assigned) ==
    \A c \in DOMAIN assigned : assigned[c].job \in DOMAIN jobs /\ assigned[c].grade \in jobs[assigned[c].job]

RowsIn(db) ==
    /\ ShapeOf(db)
    /\ OneSelectedIn(db["characters"])
    /\ AssignmentsIn(db["jobs"], db["characterJobs"])

(* What a reducer does when it is accepted keeps the rows.                 *)
Keeps(reducer) == reducer.accepted => RowsIn(reducer.after)

(* A write of one table leaves the others as they were.                    *)
LEMMA OneTable ==
    ASSUME NEW t \in GameplayTables, NEW table, tables = [u \in GameplayTables |-> tables[u]]
    PROVE  LET after == [tables EXCEPT ![t] = table] IN
           /\ after = [u \in GameplayTables |-> after[u]]
           /\ after[t] = table
           /\ \A u \in GameplayTables : u # t => after[u] = tables[u]
OBVIOUS

(* A row of any table but the characters, the jobs and the assignments is  *)
(* beside the invariant.                                                   *)
LEMMA OtherTables ==
    ASSUME NEW t \in GameplayTables \ {"characters", "jobs", "characterJobs"}, NEW table, RowsIn(tables)
    PROVE  RowsIn([tables EXCEPT ![t] = table])
<1> DEFINE after == [tables EXCEPT ![t] = table]
<1>1. /\ after = [u \in GameplayTables |-> after[u]]
      /\ \A u \in GameplayTables : u # t => after[u] = tables[u]
  BY OneTable DEF RowsIn, ShapeOf
<1>2. /\ after["characters"] = tables["characters"]
      /\ after["jobs"] = tables["jobs"]
      /\ after["characterJobs"] = tables["characterJobs"]
  BY <1>1 DEF GameplayTables
<1> HIDE DEF after
<1>3. RowsIn(after)
  BY <1>1, <1>2 DEF RowsIn, ShapeOf
<1> QED BY <1>3 DEF after

(* A job that is registered anew is refused, so the grades of a registered *)
(* job stay (register_job).                                                *)
LEMMA RegisterKeeps ==
    ASSUME NEW t \in Catalogues, NEW key, NEW row, RowsIn(tables)
    PROVE  Keeps(register(t, key, row))
<1> SUFFICES ASSUME key \notin DOMAIN tables[t]
             PROVE  RowsIn(Upsert(t, key, row))
  BY DEF Keeps, register, Reducer
<1> DEFINE after == [tables EXCEPT ![t] = Stored(tables[t], key, row)]
<1>0. Upsert(t, key, row) = after
  BY DEF Upsert
<1>1. CASE t # "jobs"
  <2>1. t \in GameplayTables \ {"characters", "jobs", "characterJobs"}
    BY <1>1 DEF GameplayTables, Catalogues
  <2> QED BY <2>1, <1>0, OtherTables
<1>2. CASE t = "jobs"
  <2>1. /\ after = [u \in GameplayTables |-> after[u]]
        /\ after["jobs"] = Stored(tables["jobs"], key, row)
        /\ after["characters"] = tables["characters"]
        /\ after["characterJobs"] = tables["characterJobs"]
    <3>1. "jobs" \in GameplayTables /\ "characters" \in GameplayTables /\ "characterJobs" \in GameplayTables
      BY DEF GameplayTables, Catalogues
    <3> QED BY <1>2, <3>1, OneTable DEF RowsIn, ShapeOf
  <2> HIDE DEF after
  <2>2. /\ DOMAIN after["jobs"] = DOMAIN tables["jobs"] \cup {key}
        /\ \A k \in DOMAIN tables["jobs"] : after["jobs"][k] = tables["jobs"][k]
    BY <1>2, <2>1 DEF Stored
  <2>3. AssignmentsIn(after["jobs"], after["characterJobs"])
    BY <2>1, <2>2 DEF RowsIn, AssignmentsIn
  <2>4. RowsIn(after)
    BY <2>1, <2>3 DEF RowsIn, ShapeOf
  <2> QED BY <2>4, <1>0
<1> QED BY <1>1, <1>2

(* What is assigned is a registered job and one of its grades (assign_job).*)
LEMMA AssignKeeps ==
    ASSUME NEW character, NEW job, NEW grade, RowsIn(tables)
    PROVE  Keeps(assign_job(character, job, grade))
<1> DEFINE row == [job |-> job, grade |-> grade]
           after == [tables EXCEPT !["characterJobs"] = Stored(tables["characterJobs"], character, row)]
<1> SUFFICES ASSUME job \in DOMAIN tables["jobs"], grade \in tables["jobs"][job]
             PROVE  RowsIn(after)
  BY DEF Keeps, assign_job, Reducer, Upsert
<1>1. /\ after = [u \in GameplayTables |-> after[u]]
      /\ after["jobs"] = tables["jobs"]
      /\ after["characters"] = tables["characters"]
      /\ after["characterJobs"] = Stored(tables["characterJobs"], character, row)
  <2>1. "jobs" \in GameplayTables /\ "characters" \in GameplayTables /\ "characterJobs" \in GameplayTables
    BY DEF GameplayTables, Catalogues
  <2> QED BY <2>1, OneTable DEF RowsIn, ShapeOf
<1> HIDE DEF after
<1>2. /\ DOMAIN after["characterJobs"] = DOMAIN tables["characterJobs"] \cup {character}
      /\ after["characterJobs"][character] = row
      /\ \A c \in DOMAIN tables["characterJobs"] \ {character} :
              after["characterJobs"][c] = tables["characterJobs"][c]
  <2> HIDE DEF row
  <2> QED BY <1>1 DEF Stored
<1>3. AssignmentsIn(after["jobs"], after["characterJobs"])
  BY <1>1, <1>2 DEF RowsIn, AssignmentsIn
<1> QED BY <1>1, <1>3 DEF RowsIn, ShapeOf

(* Whoever is selected takes the selection from the player's others, the   *)
(* ones that came from another player included (upsert_character).         *)
LEMMA CharacterKeeps ==
    ASSUME NEW id, NEW player, NEW selected \in BOOLEAN, RowsIn(tables)
    PROVE  Keeps(upsert_character(id, player, selected))
<1> DEFINE old == tables["characters"]
           Others(c) == selected /\ c # id /\ old[c].player = player
           deselected == [c \in DOMAIN old |-> [old[c] EXCEPT !.selected = @ /\ ~Others(c)]]
           row == [player |-> player, selected |-> selected]
           new == Stored(deselected, id, row)
           after == [tables EXCEPT !["characters"] = new]
<1>0. upsert_character(id, player, selected).after = after
  BY DEF upsert_character, Reducer
<1>1. /\ after = [u \in GameplayTables |-> after[u]]
      /\ after["jobs"] = tables["jobs"]
      /\ after["characters"] = new
      /\ after["characterJobs"] = tables["characterJobs"]
  <2>1. "jobs" \in GameplayTables /\ "characters" \in GameplayTables /\ "characterJobs" \in GameplayTables
    BY DEF GameplayTables, Catalogues
  <2> HIDE DEF new
  <2> QED BY <2>1, OneTable DEF RowsIn, ShapeOf
<1>2. /\ DOMAIN new = DOMAIN old \cup {id}
      /\ new[id] = row
      /\ \A c \in DOMAIN old \ {id} : new[c] = deselected[c]
  <2>1. DOMAIN deselected = DOMAIN old
    OBVIOUS
  <2> HIDE DEF deselected, row
  <2> QED BY <2>1 DEF Stored
<1>3. ASSUME NEW c \in DOMAIN old \ {id}
      PROVE  /\ new[c] = [player |-> old[c].player, selected |-> (old[c].selected /\ ~Others(c))]
             /\ old[c].selected \in BOOLEAN
  <2>1. /\ old[c] = [player |-> old[c].player, selected |-> old[c].selected]
        /\ old[c].selected \in BOOLEAN
    BY DEF RowsIn, ShapeOf
  <2>2. new[c] = [old[c] EXCEPT !.selected = @ /\ ~Others(c)]
    BY <1>2
  <2> HIDE DEF new, Others
  <2> QED BY <2>1, <2>2
<1> HIDE DEF new
<1>4. ASSUME NEW c \in DOMAIN new
      PROVE  /\ new[c] = [player |-> new[c].player, selected |-> new[c].selected]
             /\ new[c].selected \in BOOLEAN
  <2>1. CASE c = id
    BY <1>2, <2>1
  <2>2. CASE c # id
    BY <1>2, <1>3, <2>2
  <2> QED BY <2>1, <2>2
<1>5. OneSelectedIn(new)
  <2> SUFFICES ASSUME NEW c \in DOMAIN new, NEW d \in DOMAIN new,
                      new[c].selected, new[d].selected, new[c].player = new[d].player
               PROVE  c = d
    BY DEF OneSelectedIn
  <2>1. ASSUME NEW e \in DOMAIN new, e # id, new[e].selected
        PROVE  /\ e \in DOMAIN old /\ old[e].selected /\ new[e].player = old[e].player
               /\ ~(selected /\ old[e].player = player)
    BY <2>1, <1>2, <1>3
  <2>2. CASE c # id /\ d # id
    BY <2>1, <2>2 DEF RowsIn, OneSelectedIn
  <2>3. CASE c = id /\ d # id
    BY <2>1, <2>3, <1>2
  <2>4. CASE c # id /\ d = id
    BY <2>1, <2>4, <1>2
  <2> QED BY <2>2, <2>3, <2>4
<1> HIDE DEF after
<1>6. RowsIn(after)
  BY <1>1, <1>4, <1>5 DEF RowsIn, ShapeOf
<1> QED BY <1>0, <1>6 DEF Keeps

(* No reducer a migration or an administrator calls breaks the rows.       *)
LEMMA ReducersKeep ==
    ASSUME RowsIn(tables)
    PROVE  /\ \A key, limit : Keeps(register_item(key, limit))
           /\ \A key, grades : Keeps(register_job(key, grades))
           /\ \A key : Keeps(register_vehicle(key)) /\ Keeps(register_location(key))
           /\ \A type : Keeps(register_plugin_schema(type))
           /\ \A type, id : Keeps(upsert_plugin_entity(type, id))
           /\ \A id, account : Keeps(create_account(id, account))
           /\ \A owner, item, n : Keeps(grant_item(owner, item, n)) /\ Keeps(remove_item(owner, item, n))
<1>1. \A t \in Catalogues : \A key, row : Keeps(register(t, key, row))
  BY RegisterKeeps
<1>2. "items" \in Catalogues /\ "jobs" \in Catalogues /\ "vehicles" \in Catalogues /\ "locations" \in Catalogues
  BY DEF Catalogues
<1>3. \A t \in {"schemas", "entities", "accounts", "stacks"} : \A table : RowsIn([tables EXCEPT ![t] = table])
  <2>1. {"schemas", "entities", "accounts", "stacks"} \subseteq GameplayTables \ {"characters", "jobs", "characterJobs"}
    BY DEF GameplayTables, Catalogues
  <2> QED BY <2>1, OtherTables
<1>4. \A t \in {"schemas", "entities", "accounts", "stacks"} : \A key, row : RowsIn(Upsert(t, key, row))
  BY <1>3 DEF Upsert
<1>5. \A key, limit : Keeps(register_item(key, limit))
  BY <1>1, <1>2 DEF register_item
<1>6. \A key, grades : Keeps(register_job(key, grades))
  BY <1>1, <1>2 DEF register_job
<1>7. \A key : Keeps(register_vehicle(key)) /\ Keeps(register_location(key))
  BY <1>1, <1>2 DEF register_vehicle, register_location
<1>8. \A type : Keeps(register_plugin_schema(type))
  BY <1>4 DEF register_plugin_schema, Keeps, Reducer
<1>9. \A type, id : Keeps(upsert_plugin_entity(type, id))
  BY <1>4 DEF upsert_plugin_entity, Keeps, Reducer
<1>10. \A id, account : Keeps(create_account(id, account))
  BY <1>4 DEF create_account, Keeps, Reducer
<1>11. \A owner, item, n : Keeps(grant_item(owner, item, n))
  BY <1>4 DEF grant_item, Keeps, Reducer
<1>12. \A owner, item, n : Keeps(remove_item(owner, item, n))
  <2> TAKE owner, item, n
  <2> DEFINE id == inventory_stack_id(owner, item)
  <2>1. RowsIn([tables EXCEPT !["stacks"] = [s \in DOMAIN @ \ {id} |-> @[s]]])
    BY <1>3
  <2>2. RowsIn(Upsert("stacks", id, StackWith(id, owner, item, Quantity(id) - n)))
    BY <1>4
  <2> QED BY <2>1, <2>2 DEF remove_item, Keeps, Reducer
<1> QED BY <1>5, <1>6, <1>7, <1>8, <1>9, <1>10, <1>11, <1>12

(* A write of a migration is one of those reducers.                        *)
LEMMA WritesKeep ==
    ASSUME NEW write, RowsIn(tables)
    PROVE  Keeps(ReducerOf(write))
<1> DEFINE row == write.row
<1>1. CASE write.kind = "item"
  BY <1>1, ReducersKeep DEF ReducerOf
<1>2. CASE write.kind = "job"
  BY <1>2, ReducersKeep DEF ReducerOf
<1>3. CASE write.kind = "vehicle"
  BY <1>3, ReducersKeep DEF ReducerOf
<1>4. CASE write.kind = "schema"
  BY <1>4, ReducersKeep DEF ReducerOf
<1>5. CASE write.kind = "entity"
  BY <1>5, ReducersKeep DEF ReducerOf
<1>6. CASE write.kind = "character"
  BY <1>6, CharacterKeeps DEF ReducerOf
<1>7. CASE write.kind = "account"
  BY <1>7, ReducersKeep DEF ReducerOf
<1>8. CASE write.kind \notin {"item", "job", "vehicle", "schema", "entity", "character", "account"}
  BY <1>8, AssignKeeps DEF ReducerOf
<1> QED BY <1>1, <1>2, <1>3, <1>4, <1>5, <1>6, <1>7, <1>8

(* An uninstalled plugin takes two tables along and leaves the others.     *)
LEMMA Uninstalled ==
    ASSUME uninstall_plugin, tables = [t \in GameplayTables |-> tables[t]]
    PROVE  /\ tables' = [t \in GameplayTables |-> tables'[t]]
           /\ tables'["items"] = tables["items"] /\ tables'["jobs"] = tables["jobs"]
           /\ tables'["vehicles"] = tables["vehicles"] /\ tables'["characters"] = tables["characters"]
           /\ tables'["characterJobs"] = tables["characterJobs"] /\ tables'["stacks"] = tables["stacks"]
           /\ tables'["accounts"] = tables["accounts"]
<1>1. tables' = [tables EXCEPT !["schemas"] = <<>>, !["entities"] = <<>>]
  BY DEF uninstall_plugin
<1>2. \A t \in GameplayTables \ {"schemas", "entities"} : tables'[t] = tables[t]
  BY <1>1
<1>3. tables' = [t \in GameplayTables |-> tables'[t]]
  BY <1>1
<1>4. {"items", "jobs", "vehicles", "characters", "characterJobs", "stacks", "accounts"}
        \subseteq GameplayTables \ {"schemas", "entities"}
  BY DEF GameplayTables, Catalogues
<1> QED BY <1>2, <1>3, <1>4

(* The inductive step: an action changes the tables by a reducer, takes    *)
(* away what is beside the rows, or leaves the tables alone.               *)
LEMMA RowsStep ==
    ASSUME RowsIn(tables), [GameplayNext \/ RegistryNext]_gameplayVars
    PROVE  RowsIn(tables')
<1>1. ASSUME NEW reducer, Keeps(reducer), Call(reducer)
      PROVE  RowsIn(tables')
  BY <1>1 DEF Call, Keeps
<1>2. CASE UNCHANGED tables
  BY <1>2
<1>3. CASE RegistryNext
  <2>1. ASSUME NEW item, NEW job, registerPluginPrimitives(item, job) PROVE UNCHANGED tables
    BY <2>1 DEF registerPluginPrimitives, RegistryCall
  <2>2. ASSUME NEW owner, NEW item, NEW quantity, grantItem(owner, item, quantity) PROVE UNCHANGED tables
    BY <2>2 DEF grantItem, RegistryCall
  <2>3. ASSUME NEW owner, NEW job, NEW grade, assignJob(owner, job, grade) PROVE UNCHANGED tables
    BY <2>3 DEF assignJob, RegistryCall
  <2>4. UNCHANGED tables
    BY <1>3, <2>1, <2>2, <2>3 DEF RegistryNext
  <2> QED  BY <1>2, <2>4
<1>4. CASE \E status \in {"installed", "active"} : SetPluginStatus(status)
  BY <1>4, <1>2 DEF SetPluginStatus
<1>14. CASE uninstall_plugin
  BY <1>14, Uninstalled DEF RowsIn, ShapeOf, AssignmentsIn
<1>5. CASE \E item \in ItemInputs : item.limit # Missing /\ registerGameplayItem(item)
  BY <1>5, <1>1, ReducersKeep DEF registerGameplayItem
<1>6. CASE \E j \in JobInputs : registerGameplayJob(j)
  BY <1>6, <1>1, ReducersKeep DEF registerGameplayJob
<1>7. CASE registerGameplayVehicle("car") \/ registerGameplayLocation("garage")
  BY <1>7, <1>1, ReducersKeep DEF registerGameplayVehicle, registerGameplayLocation
<1>8. CASE \E c \in CharacterInputs : upsertGameplayCharacter(c) \/ selectGameplayCharacter(c.id)
  <2>1. PICK c \in CharacterInputs : upsertGameplayCharacter(c) \/ selectGameplayCharacter(c.id)
    BY <1>8
  <2>2. CASE upsertGameplayCharacter(c)
    <3>1. Keeps(upsert_character(c.id, c.player, c.selected))
      BY CharacterKeeps, GameplayAssumption
    <3> QED BY <2>2, <3>1, <1>1 DEF upsertGameplayCharacter
  <2>3. CASE selectGameplayCharacter(c.id)
    <3>1. Keeps(upsert_character(c.id, known[c.id].player, TRUE))
      BY CharacterKeeps
    <3> QED BY <2>3, <3>1, <1>1 DEF selectGameplayCharacter
  <2> QED BY <2>1, <2>2, <2>3
<1>9. CASE \E owner \in Owners, item \in ItemInputs, quantity \in Quantities :
               grantGameplayItem(owner, item.key, quantity) \/ removeGameplayItem(owner, item.key, quantity)
  BY <1>9, <1>1, ReducersKeep DEF grantGameplayItem, removeGameplayItem
<1>10. CASE \E c \in CharacterInputs, j \in JobInputs : \E grade \in j.grades : assignGameplayJob(c.id, j.key, grade)
  BY <1>10, <1>1, AssignKeeps DEF assignGameplayJob
<1>11. CASE CharactersHeard \/ (\E dump \in Dumps : applyQbCoreMigrationPlan(planQbCoreMigration(dump)))
  BY <1>11, <1>2 DEF CharactersHeard, applyQbCoreMigrationPlan
<1>12. CASE \E i \in DOMAIN imports : WriteAccepted(i) \/ WriteRefused(i) \/ WriteThrows(i) \/ ImportDone(i)
  <2>1. PICK i \in DOMAIN imports : WriteAccepted(i) \/ WriteRefused(i) \/ WriteThrows(i) \/ ImportDone(i)
    BY <1>12
  <2>2. CASE WriteRefused(i) \/ ImportDone(i)
    BY <2>2, <1>2 DEF WriteRefused, ImportDone
  <2>3. Keeps(ReducerOf(Head(imports[i].writes)))
    BY WritesKeep
  <2>4. CASE WriteAccepted(i)
    BY <2>3, <2>4 DEF WriteAccepted, Keeps
  <2>5. CASE WriteThrows(i)
    BY <2>3, <2>5 DEF WriteThrows, Keeps
  <2> QED BY <2>1, <2>2, <2>4, <2>5
<1>13. CASE UNCHANGED gameplayVars
  BY <1>13, <1>2 DEF gameplayVars
<1> QED
  BY <1>3, <1>4, <1>5, <1>6, <1>7, <1>8, <1>9, <1>10, <1>11, <1>12, <1>13, <1>14 DEF GameplayNext

(* The empty tables have the invariant.                                    *)
LEMMA RowsInit == GameplayInit => RowsIn(tables)
<1> SUFFICES ASSUME GameplayInit PROVE RowsIn(tables)
  OBVIOUS
<1>1. tables = [t \in GameplayTables |-> <<>>]
  BY DEF GameplayInit
<1>2. "jobs" \in GameplayTables /\ "characters" \in GameplayTables /\ "characterJobs" \in GameplayTables
  BY DEF GameplayTables, Catalogues
<1>3. tables["jobs"] = <<>> /\ tables["characters"] = <<>> /\ tables["characterJobs"] = <<>>
  BY <1>1, <1>2
<1>4. \A c : c \notin DOMAIN <<>>
  OBVIOUS
<1>5. tables = [t \in GameplayTables |-> tables[t]]
  BY <1>1
<1> QED BY <1>3, <1>4, <1>5 DEF RowsIn, ShapeOf, OneSelectedIn, AssignmentsIn

LEMMA RowsInvariant == GameplaySpec => []RowsIn(tables)
<1>1. RowsIn(tables) /\ [GameplayNext \/ RegistryNext]_gameplayVars => RowsIn(tables)'
  BY RowsStep
<1> QED BY RowsInit, <1>1, PTL DEF GameplaySpec

(* Whatever migrations, updates and selections from a stale cache do, a    *)
(* player has at most one selected character (upsert_character).           *)
THEOREM SelectionIsUnique == GameplaySpec => []OneCharacterSelected
<1>1. RowsIn(tables) => OneCharacterSelected
  BY DEF RowsIn, OneSelectedIn, OneCharacterSelected
<1> QED BY <1>1, RowsInvariant, PTL

(* Every assignment a migration or an administrator made names a           *)
(* registered job and one of its grades for ever (assign_job,              *)
(* register_job).                                                          *)
THEOREM AssignmentsStay == GameplaySpec => []AssignmentsHold
<1>1. RowsIn(tables) => AssignmentsHold
  BY DEF RowsIn, AssignmentsIn, AssignmentsHold
<1> QED BY <1>1, RowsInvariant, PTL

-----------------------------------------------------------------------------
(***************************************************************************)
(* Stacks, accounts and what a call may not undo.  Sound is kept by every  *)
(* accepted reducer, and Later says what a reducer leaves of the tables it *)
(* was called on: items, jobs and accounts keep their rows, and no key of  *)
(* the tables a migration writes disappears.                               *)
(***************************************************************************)
ReadsAs(id, item) == \E owner \in Owners : id = inventory_stack_id(owner, item)

StackIn(items, id, stack) ==
    /\ stack.quantity \in Int /\ stack.quantity > 0
    /\ stack.owner \in Owners /\ stack.item \in DOMAIN items
    /\ id = inventory_stack_id(stack.owner, stack.item)
    /\ \E item \in DOMAIN items :
         ReadsAs(id, item) /\ (items[item] > 0 => stack.quantity <= items[item])

StocksIn(items, stacks) ==
    /\ \A k \in DOMAIN items : items[k] \in Int
    /\ \A s \in DOMAIN stacks : StackIn(items, s, stacks[s])

Solvent(accounts) == \A a \in DOMAIN accounts : accounts[a].balance >= 0

Sound(db) ==
    /\ db = [t \in GameplayTables |-> db[t]]
    /\ StocksIn(db["items"], db["stacks"])
    /\ Solvent(db["accounts"])

Kept == {"items", "jobs", "accounts"}
Growing == {"vehicles", "entities", "characters", "characterJobs"}

Later(old, new) ==
    /\ \A t \in Kept : \A k \in DOMAIN old[t] : k \in DOMAIN new[t] /\ new[t][k] = old[t][k]
    /\ \A t \in Growing : DOMAIN old[t] \subseteq DOMAIN new[t]

Grows(reducer) == reducer.accepted => Sound(reducer.after) /\ Later(tables, reducer.after)

LEMMA TableNames ==
    /\ {"items", "jobs", "accounts", "vehicles", "entities", "characters", "characterJobs",
        "stacks", "schemas", "locations"} = GameplayTables
    /\ Kept \subseteq GameplayTables /\ Growing \subseteq GameplayTables
BY DEF GameplayTables, Catalogues, Kept, Growing

(* A table whose rows nobody else's depend on may grow as it likes.        *)
LEMMA GrowingKeeps ==
    ASSUME NEW t \in GameplayTables \ {"items", "jobs", "accounts", "stacks"}, NEW table,
           Sound(tables), DOMAIN tables[t] \subseteq DOMAIN table
    PROVE  /\ Sound([tables EXCEPT ![t] = table])
           /\ Later(tables, [tables EXCEPT ![t] = table])
<1> DEFINE after == [tables EXCEPT ![t] = table]
<1>1. /\ after = [u \in GameplayTables |-> after[u]]
      /\ after[t] = table
      /\ \A u \in GameplayTables : u # t => after[u] = tables[u]
  BY OneTable DEF Sound
<1> HIDE DEF after
<1>2. /\ after["items"] = tables["items"]
      /\ after["stacks"] = tables["stacks"]
      /\ after["accounts"] = tables["accounts"]
  BY <1>1, TableNames
<1>3. \A u \in Kept : after[u] = tables[u]
  BY <1>1, TableNames DEF Kept
<1>4. \A u \in Growing : DOMAIN tables[u] \subseteq DOMAIN after[u]
  BY <1>1, TableNames
<1>5. Sound(after) /\ Later(tables, after)
  BY <1>1, <1>2, <1>3, <1>4 DEF Sound, Later
<1> QED BY <1>5 DEF after

(* A new row of a table whose rows stay.                                   *)
LEMMA InsertKeeps ==
    ASSUME NEW t \in Kept, NEW key, NEW row, Sound(tables), key \notin DOMAIN tables[t],
           t = "items" => row \in Int, t = "accounts" => row.balance >= 0
    PROVE  Sound(Upsert(t, key, row)) /\ Later(tables, Upsert(t, key, row))
<1> DEFINE table == Stored(tables[t], key, row)
           after == [tables EXCEPT ![t] = table]
<1>0. Upsert(t, key, row) = after
  BY DEF Upsert
<1>1. /\ after = [u \in GameplayTables |-> after[u]]
      /\ after[t] = table
      /\ \A u \in GameplayTables : u # t => after[u] = tables[u]
  BY OneTable, TableNames DEF Sound
<1>2. /\ DOMAIN table = DOMAIN tables[t] \cup {key}
      /\ table[key] = row
      /\ \A k \in DOMAIN tables[t] : table[k] = tables[t][k]
  BY DEF Stored
<1> HIDE DEF after, table
<1>3. Later(tables, after)
  <2>1. \A u \in Kept : \A k \in DOMAIN tables[u] : k \in DOMAIN after[u] /\ after[u][k] = tables[u][k]
    BY <1>1, <1>2, TableNames
  <2>2. \A u \in Growing : after[u] = tables[u]
    BY <1>1, TableNames DEF Growing, Kept
  <2> QED BY <2>1, <2>2 DEF Later
<1>4. after["stacks"] = tables["stacks"]
  BY <1>1, TableNames DEF Kept
<1>5. StocksIn(after["items"], after["stacks"])
  <2>1. CASE t = "items"
    <3>1. /\ \A k \in DOMAIN after["items"] : after["items"][k] \in Int
          /\ \A k \in DOMAIN tables["items"] :
                 k \in DOMAIN after["items"] /\ after["items"][k] = tables["items"][k]
      BY <1>1, <1>2, <2>1 DEF Sound, StocksIn
    <3>2. ASSUME NEW s, NEW stack, StackIn(tables["items"], s, stack)
          PROVE  StackIn(after["items"], s, stack)
      BY <3>1, <3>2 DEF StackIn
    <3> QED BY <1>4, <3>1, <3>2 DEF Sound, StocksIn
  <2>2. CASE t # "items"
    <3>1. after["items"] = tables["items"]
      BY <1>1, <2>2, TableNames
    <3> QED BY <1>4, <3>1 DEF Sound
  <2> QED BY <2>1, <2>2
<1>6. Solvent(after["accounts"])
  <2>1. CASE t = "accounts"
    BY <1>1, <1>2, <2>1 DEF Sound, Solvent
  <2>2. CASE t # "accounts"
    <3>1. after["accounts"] = tables["accounts"]
      BY <1>1, <2>2, TableNames
    <3> QED BY <3>1 DEF Sound
  <2> QED BY <2>1, <2>2
<1> QED BY <1>0, <1>1, <1>3, <1>5, <1>6 DEF Sound

(* The stacks may become any that fit their items.                         *)
LEMMA StacksKeep ==
    ASSUME NEW table, Sound(tables), StocksIn(tables["items"], table)
    PROVE  /\ Sound([tables EXCEPT !["stacks"] = table])
           /\ Later(tables, [tables EXCEPT !["stacks"] = table])
<1> DEFINE after == [tables EXCEPT !["stacks"] = table]
<1>1. /\ after = [u \in GameplayTables |-> after[u]]
      /\ after["stacks"] = table
      /\ \A u \in GameplayTables : u # "stacks" => after[u] = tables[u]
  BY OneTable, TableNames DEF Sound
<1> HIDE DEF after
<1>2. after["items"] = tables["items"] /\ after["accounts"] = tables["accounts"]
  BY <1>1, TableNames
<1>3. \A u \in Kept \cup Growing : after[u] = tables[u]
  BY <1>1, TableNames DEF Kept, Growing
<1>4. Sound(after) /\ Later(tables, after)
  BY <1>1, <1>2, <1>3 DEF Sound, Later
<1> QED BY <1>4 DEF after

(* A grant compares the sum with the limit, and a removal leaves no empty  *)
(* stack (grant_item, remove_item).                                        *)
LEMMA GrantGrows ==
    ASSUME Sound(tables), NEW owner \in Owners, NEW item, NEW n \in Int
    PROVE  Grows(grant_item(owner, item, n))
<1> DEFINE id == inventory_stack_id(owner, item)
           q == Quantity(id)
           items == tables["items"]
           stacks == tables["stacks"]
           stack == StackWith(id, owner, item, q + n)
           new == Stored(stacks, id, stack)
<1> SUFFICES ASSUME n > 0, item \in DOMAIN items, items[item] > 0 => q + n <= items[item]
             PROVE  Sound([tables EXCEPT !["stacks"] = new]) /\ Later(tables, [tables EXCEPT !["stacks"] = new])
  BY DEF Grows, grant_item, Reducer, Upsert
<1>0. StocksIn(items, stacks)
  BY DEF Sound
<1>1. q \in Int /\ q >= 0
  BY <1>0 DEF Quantity, StocksIn, StackIn
<1>2. StackIn(items, id, stack)
  BY <1>0, <1>1 DEF StackIn, StocksIn, StackWith, ReadsAs
<1>3. /\ DOMAIN new = DOMAIN stacks \cup {id}
      /\ new[id] = stack
      /\ \A s \in DOMAIN stacks \ {id} : new[s] = stacks[s]
  BY DEF Stored
<1> HIDE DEF id, q, stack, new
<1>4. StocksIn(items, new)
  <2> HIDE DEF items, stacks
  <2> QED BY <1>0, <1>2, <1>3 DEF StocksIn
<1> QED BY <1>4, StacksKeep

LEMMA RemoveGrows ==
    ASSUME Sound(tables), NEW owner, NEW item, NEW n \in Int
    PROVE  Grows(remove_item(owner, item, n))
<1> DEFINE id == inventory_stack_id(owner, item)
           q == Quantity(id)
           items == tables["items"]
           stacks == tables["stacks"]
           without == [s \in DOMAIN stacks \ {id} |-> stacks[s]]
           stack == StackWith(id, owner, item, q - n)
           new == Stored(stacks, id, stack)
           Kept1(table) == /\ Sound([tables EXCEPT !["stacks"] = table])
                           /\ Later(tables, [tables EXCEPT !["stacks"] = table])
<1>0. StocksIn(items, stacks)
  BY DEF Sound
<1>1. CASE n > 0 /\ n <= q /\ n = q
  <2>1. StocksIn(items, without)
    BY <1>0 DEF StocksIn
  <2>2. Kept1(without)
    BY <2>1, StacksKeep
  <2>3. remove_item(owner, item, n).after = [tables EXCEPT !["stacks"] = without]
    BY <1>1 DEF remove_item, Reducer
  <2> QED BY <2>2, <2>3 DEF Grows
<1>2. CASE n > 0 /\ n <= q /\ n # q
  <2>1. id \in DOMAIN stacks /\ q = stacks[id].quantity
    BY <1>2 DEF Quantity
  <2>2. StackIn(items, id, stacks[id]) /\ \A k \in DOMAIN items : items[k] \in Int
    BY <1>0, <2>1 DEF StocksIn
  <2>3. stack = [owner |-> stacks[id].owner, item |-> stacks[id].item, quantity |-> q - n]
    BY <2>1 DEF StackWith
  <2>4. StackIn(items, id, stack)
    <3> HIDE DEF id, q, items, stacks, stack
    <3> QED BY <1>2, <2>1, <2>2, <2>3 DEF StackIn
  <2>5. /\ DOMAIN new = DOMAIN stacks \cup {id}
        /\ new[id] = stack
        /\ \A s \in DOMAIN stacks \ {id} : new[s] = stacks[s]
    BY DEF Stored
  <2>6. remove_item(owner, item, n).after = [tables EXCEPT !["stacks"] = new]
    BY <1>2 DEF remove_item, Reducer, Upsert
  <2> HIDE DEF id, q, stack, new
  <2>7. StocksIn(items, new)
    <3> HIDE DEF items, stacks
    <3> QED BY <1>0, <2>4, <2>5 DEF StocksIn
  <2>8. Kept1(new)
    BY <2>7, StacksKeep
  <2> QED BY <2>6, <2>8 DEF Grows
<1>3. CASE ~(n > 0 /\ n <= q)
  BY <1>3 DEF Grows, remove_item, Reducer
<1> QED BY <1>1, <1>2, <1>3

LEMMA CharacterGrows ==
    ASSUME Sound(tables), NEW id, NEW player, NEW selected
    PROVE  Grows(upsert_character(id, player, selected))
<1> DEFINE old == tables["characters"]
           Others(c) == selected /\ c # id /\ old[c].player = player
           deselected == [c \in DOMAIN old |-> [old[c] EXCEPT !.selected = @ /\ ~Others(c)]]
           new == Stored(deselected, id, [player |-> player, selected |-> selected])
<1>1. upsert_character(id, player, selected).after = [tables EXCEPT !["characters"] = new]
  BY DEF upsert_character, Reducer
<1>2. DOMAIN old \subseteq DOMAIN new
  <2>1. DOMAIN deselected = DOMAIN old
    OBVIOUS
  <2> HIDE DEF deselected, old
  <2> QED BY <2>1 DEF Stored
<1> HIDE DEF new
<1>3. "characters" \in GameplayTables \ {"items", "jobs", "accounts", "stacks"}
  BY TableNames
<1> QED BY <1>1, <1>2, <1>3, GrowingKeeps DEF Grows

(* The others: a row of a growing table, or a new row of one that stays.   *)
LEMMA UpsertGrows ==
    ASSUME Sound(tables), NEW t \in GameplayTables \ {"items", "jobs", "accounts", "stacks"},
           NEW key, NEW row
    PROVE  Sound(Upsert(t, key, row)) /\ Later(tables, Upsert(t, key, row))
BY GrowingKeeps DEF Upsert, Stored

LEMMA RowsGrow ==
    ASSUME Sound(tables)
    PROVE  /\ \A key : \A limit \in Int : Grows(register_item(key, limit))
           /\ \A key, grades : Grows(register_job(key, grades))
           /\ \A key : Grows(register_vehicle(key)) /\ Grows(register_location(key))
           /\ \A type : Grows(register_plugin_schema(type))
           /\ \A type, id : Grows(upsert_plugin_entity(type, id))
           /\ \A id, account : Grows(create_account(id, account))
           /\ \A character, job, grade : Grows(assign_job(character, job, grade))
<1>1. {"vehicles", "locations", "schemas", "entities", "characterJobs"}
        \subseteq GameplayTables \ {"items", "jobs", "accounts", "stacks"}
  BY TableNames
<1>2. "items" \in Kept /\ "jobs" \in Kept /\ "accounts" \in Kept
  BY DEF Kept
<1>3. \A key : \A limit \in Int : Grows(register_item(key, limit))
  BY <1>2, InsertKeeps DEF register_item, register, Grows, Reducer
<1>4. \A key, grades : Grows(register_job(key, grades))
  BY <1>2, InsertKeeps DEF register_job, register, Grows, Reducer
<1>5. \A key : Grows(register_vehicle(key)) /\ Grows(register_location(key))
  BY <1>1, UpsertGrows DEF register_vehicle, register_location, register, Grows, Reducer
<1>6. \A type : Grows(register_plugin_schema(type))
  BY <1>1, UpsertGrows DEF register_plugin_schema, Grows, Reducer
<1>7. \A type, id : Grows(upsert_plugin_entity(type, id))
  BY <1>1, UpsertGrows DEF upsert_plugin_entity, Grows, Reducer
<1>8. \A id, account : Grows(create_account(id, account))
  BY <1>2, InsertKeeps DEF create_account, Grows, Reducer
<1>9. \A character, job, grade : Grows(assign_job(character, job, grade))
  BY <1>1, UpsertGrows DEF assign_job, Grows, Reducer
<1> QED BY <1>3, <1>4, <1>5, <1>6, <1>7, <1>8, <1>9

-----------------------------------------------------------------------------
(***************************************************************************)
(* The writes of a migration.  The lists WritesOf makes hold each write of *)
(* the plan, and characters come before the accounts that are theirs.      *)
(***************************************************************************)
AsWrites(kind, rows) == {[kind |-> kind, row |-> row] : row \in rows}

PlanWrites(plan) ==
    AsWrites("item", {<<k, plan.items[k]>> : k \in DOMAIN plan.items})
    \cup AsWrites("job", {<<k, plan.jobs[k]>> : k \in DOMAIN plan.jobs})
    \cup AsWrites("vehicle", plan.vehicles) \cup AsWrites("schema", plan.schemas)
    \cup AsWrites("entity", plan.entities) \cup AsWrites("character", plan.characters)
    \cup AsWrites("account", plan.accounts) \cup AsWrites("assignment", plan.assignments)

Occurs(w, s) == \E n \in 1..Len(s) : s[n] = w

(* An account still to be written has its character in the database or     *)
(* before it in the list.                                                  *)
IsCharacterOf(w, account) == w.kind = "character" /\ w.row.id = account.row.owner

Led(characters, s) ==
    \A n \in 1..Len(s) : s[n].kind = "account" =>
        \/ s[n].row.owner \in DOMAIN characters
        \/ \E m \in 1..(n - 1) : IsCharacterOf(s[m], s[n])

LEMMA WritesForFacts ==
    ASSUME NEW kind, NEW rows, IsFiniteSet(rows)
    PROVE  /\ WritesFor(kind, rows) \in Seq(AsWrites(kind, rows))
           /\ \A w \in AsWrites(kind, rows) : Occurs(w, WritesFor(kind, rows))
<1> DEFINE f == [row \in rows |-> [kind |-> kind, row |-> row]]
<1>1. {f[row] : row \in rows} = AsWrites(kind, rows)
  BY DEF AsWrites
<1> HIDE DEF f
<1>2. IsFiniteSet(AsWrites(kind, rows))
  BY <1>1, ImageIsFinite
<1>3. WritesFor(kind, rows) = SetToSeq(AsWrites(kind, rows))
  BY DEF WritesFor, AsWrites
<1> QED BY <1>2, <1>3, SequenceOfSet DEF Occurs

LEMMA ConcatFacts ==
    ASSUME NEW S, NEW T, NEW s \in Seq(S), NEW t \in Seq(T)
    PROVE  /\ s \o t \in Seq(S \cup T)
           /\ Len(s \o t) = Len(s) + Len(t)
           /\ Len(s) \in Nat /\ Len(t) \in Nat
           /\ \A n \in 1..Len(s) : (s \o t)[n] = s[n] /\ s[n] \in S
           /\ \A n \in 1..Len(t) : (s \o t)[Len(s) + n] = t[n] /\ t[n] \in T
           /\ \A w : Occurs(w, s) \/ Occurs(w, t) => Occurs(w, s \o t)
<1>1. s \in Seq(S \cup T) /\ t \in Seq(S \cup T)
  OBVIOUS
<1>2. /\ s \o t \in Seq(S \cup T)
      /\ Len(s \o t) = Len(s) + Len(t)
      /\ Len(s) \in Nat /\ Len(t) \in Nat
  BY <1>1
<1>3. \A n \in 1..Len(s) : (s \o t)[n] = s[n] /\ s[n] \in S
  OBVIOUS
<1>4. \A n \in 1..Len(t) : (s \o t)[Len(s) + n] = t[n] /\ t[n] \in T
  OBVIOUS
<1>5. ASSUME NEW w, Occurs(w, s) \/ Occurs(w, t)
      PROVE  Occurs(w, s \o t)
  <2>1. CASE Occurs(w, s)
    <3>1. PICK n \in 1..Len(s) : s[n] = w
      BY <2>1 DEF Occurs
    <3>2. (s \o t)[n] = w /\ n \in 1..Len(s \o t)
      BY <1>2, <1>3, <3>1
    <3> QED BY <3>2 DEF Occurs
  <2>2. CASE Occurs(w, t)
    <3>1. PICK n \in 1..Len(t) : t[n] = w
      BY <2>2 DEF Occurs
    <3>2. (s \o t)[Len(s) + n] = w /\ Len(s) + n \in 1..Len(s \o t)
      BY <1>2, <1>4, <3>1
    <3> QED BY <3>2 DEF Occurs
  <2> QED BY <1>5, <2>1, <2>2
<1> QED BY <1>2, <1>3, <1>4, <1>5

(* The rows of a plan are finitely many.                                   *)
FinitePlan(plan) ==
    /\ IsFiniteSet(DOMAIN plan.items) /\ IsFiniteSet(DOMAIN plan.jobs)
    /\ IsFiniteSet(plan.vehicles) /\ IsFiniteSet(plan.schemas) /\ IsFiniteSet(plan.entities)
    /\ IsFiniteSet(plan.characters) /\ IsFiniteSet(plan.accounts) /\ IsFiniteSet(plan.assignments)

OwnedPlan(plan) ==
    /\ \A k \in DOMAIN plan.items : plan.items[k] \in Int
    /\ \A a \in plan.accounts : \E c \in plan.characters : c.id = a.owner

LEMMA PlanFacts ==
    ASSUME NEW dump \in Dumps
    PROVE  FinitePlan(planQbCoreMigration(dump)) /\ OwnedPlan(planQbCoreMigration(dump))
<1> DEFINE plan == planQbCoreMigration(dump)
           People == DOMAIN dump.players
           Of(citizen) == planPlayer(citizen, dump.players[citizen])
           planned == {Of(citizen) : citizen \in People}
           Money(citizen) == dump.players[citizen].money
           Account(citizen, c) == [owner |-> citizen, currency |-> c, balance |-> Money(citizen)[c]]
<1>0. /\ \A k \in DOMAIN dump.items : dump.items[k].limit \in Int \cup {Missing}
      /\ IsFiniteSet(DOMAIN dump.items) /\ IsFiniteSet(DOMAIN dump.jobs)
      /\ IsFiniteSet(dump.vehicles) /\ IsFiniteSet(dump.gangs) /\ IsFiniteSet(People)
      /\ \A citizen \in People : IsFiniteSet(DOMAIN Money(citizen))
  BY GameplayAssumption DEF GameplayAssumption
<1>1. /\ plan.items = [k \in DOMAIN dump.items |-> planItem(dump.items[k])]
      /\ plan.jobs = [k \in DOMAIN dump.jobs |-> planJob(dump.jobs[k])]
      /\ plan.vehicles = dump.vehicles
      /\ plan.schemas = IF dump.gangs = {} THEN {} ELSE {"qbcore_gang"}
      /\ plan.entities = dump.gangs
      /\ plan.characters = {p.character : p \in planned}
      /\ plan.accounts = UNION {p.accounts : p \in planned}
      /\ plan.assignments = UNION {p.assignments : p \in planned}
  BY DEF planQbCoreMigration
<1>2. ASSUME NEW citizen \in People
      PROVE  /\ Of(citizen).character.id = citizen
             /\ Of(citizen).accounts = {Account(citizen, c) : c \in DOMAIN Money(citizen)}
             /\ \A a \in Of(citizen).accounts : a.owner = citizen
             /\ IsFiniteSet(Of(citizen).assignments)
  <2>1. Of(citizen).character.id = citizen
    BY DEF planPlayer
  <2>2. Of(citizen).accounts = {Account(citizen, c) : c \in DOMAIN Money(citizen)}
    BY DEF planPlayer
  <2>3. \A a \in Of(citizen).accounts : a.owner = citizen
    BY DEF planPlayer
  <2>4. Of(citizen).assignments = {} \/ \E x : Of(citizen).assignments = {x}
    BY DEF planPlayer
  <2>5. IsFiniteSet({}) /\ \A x : IsFiniteSet({x})
    BY FS_EmptySet, FS_Singleton
  <2> HIDE DEF Of
  <2>6. IsFiniteSet(Of(citizen).assignments)
    BY <2>4, <2>5
  <2> QED BY <2>1, <2>2, <2>3, <2>6
<1> HIDE DEF planned, plan, Of, Account, Money
<1>3. IsFiniteSet(planned)
  <2> DEFINE f == [citizen \in People |-> Of(citizen)]
  <2>1. planned = {f[citizen] : citizen \in People}
    BY DEF planned
  <2> HIDE DEF f
  <2> QED BY <1>0, <2>1, ImageIsFinite
<1>4. \A p \in planned : IsFiniteSet(p.accounts) /\ IsFiniteSet(p.assignments)
  <2> SUFFICES ASSUME NEW citizen \in People
               PROVE  IsFiniteSet(Of(citizen).accounts) /\ IsFiniteSet(Of(citizen).assignments)
    BY DEF planned
  <2> DEFINE f == [c \in DOMAIN Money(citizen) |-> Account(citizen, c)]
  <2>1. Of(citizen).accounts = {f[c] : c \in DOMAIN Money(citizen)}
    <3>1. \A c \in DOMAIN Money(citizen) : f[c] = Account(citizen, c)
      OBVIOUS
    <3> HIDE DEF f
    <3> QED BY <1>2, <3>1
  <2> HIDE DEF f
  <2>2. IsFiniteSet(Of(citizen).accounts)
    BY <1>0, <2>1, ImageIsFinite
  <2>3. IsFiniteSet(Of(citizen).assignments)
    BY <1>2
  <2> QED BY <2>2, <2>3
<1>5. IsFiniteSet(plan.characters)
  <2> DEFINE f == [p \in planned |-> p.character]
  <2>1. plan.characters = {f[p] : p \in planned}
    BY <1>1
  <2> HIDE DEF f
  <2> QED BY <1>3, <2>1, ImageIsFinite
<1>6. IsFiniteSet(plan.accounts)
  <2> DEFINE f == [p \in planned |-> p.accounts]
             F == {f[p] : p \in planned}
  <2>1. plan.accounts = UNION F /\ \A T \in F : IsFiniteSet(T)
    BY <1>1, <1>4
  <2>2. IsFiniteSet(F)
    BY <1>3, ImageIsFinite
  <2> HIDE DEF f, F
  <2> QED BY <2>1, <2>2, FS_UNION
<1>7. IsFiniteSet(plan.assignments)
  <2> DEFINE f == [p \in planned |-> p.assignments]
             F == {f[p] : p \in planned}
  <2>1. plan.assignments = UNION F /\ \A T \in F : IsFiniteSet(T)
    BY <1>1, <1>4
  <2>2. IsFiniteSet(F)
    BY <1>3, ImageIsFinite
  <2> HIDE DEF f, F
  <2> QED BY <2>1, <2>2, FS_UNION
<1>8. IsFiniteSet(plan.schemas)
  <2>1. IsFiniteSet({}) /\ IsFiniteSet({"qbcore_gang"})
    BY FS_EmptySet, FS_Singleton
  <2> QED BY <1>1, <2>1
<1>9. /\ IsFiniteSet(DOMAIN plan.items) /\ IsFiniteSet(DOMAIN plan.jobs)
      /\ IsFiniteSet(plan.vehicles) /\ IsFiniteSet(plan.entities)
  <2>1. DOMAIN plan.items = DOMAIN dump.items /\ DOMAIN plan.jobs = DOMAIN dump.jobs
    BY <1>1
  <2> QED BY <1>0, <1>1, <2>1
<1>10. \A k \in DOMAIN plan.items : plan.items[k] \in Int
  BY <1>0, <1>1 DEF planItem
<1>11. ASSUME NEW a \in plan.accounts
       PROVE  \E c \in plan.characters : c.id = a.owner
  <2>1. PICK p \in planned : a \in p.accounts
    BY <1>1
  <2>2. PICK citizen \in People : p = Of(citizen)
    BY <2>1 DEF planned
  <2>3. a.owner = citizen
    BY <1>2, <2>1, <2>2
  <2>4. p.character.id = citizen
    BY <1>2, <2>2
  <2>5. p.character \in plan.characters
    BY <1>1, <2>1
  <2> QED BY <2>3, <2>4, <2>5
<1>12. FinitePlan(plan) /\ OwnedPlan(plan)
  BY <1>5, <1>6, <1>7, <1>8, <1>9, <1>10, <1>11 DEF FinitePlan, OwnedPlan
<1> QED BY <1>12 DEF plan

LEMMA WritesOfFacts ==
    ASSUME NEW plan, FinitePlan(plan), OwnedPlan(plan)
    PROVE  /\ WritesOf(plan) \in Seq(PlanWrites(plan))
           /\ \A w \in PlanWrites(plan) : Occurs(w, WritesOf(plan))
           /\ \A n \in 1..Len(WritesOf(plan)) : WritesOf(plan)[n].kind = "account" =>
                \E m \in 1..(n - 1) : IsCharacterOf(WritesOf(plan)[m], WritesOf(plan)[n])
<1> DEFINE ItemRows == {<<k, plan.items[k]>> : k \in DOMAIN plan.items}
           JobRows == {<<k, plan.jobs[k]>> : k \in DOMAIN plan.jobs}
           A1 == AsWrites("item", ItemRows)
           A2 == AsWrites("job", JobRows)
           A3 == AsWrites("vehicle", plan.vehicles)
           A4 == AsWrites("schema", plan.schemas)
           A5 == AsWrites("entity", plan.entities)
           A6 == AsWrites("character", plan.characters)
           A7 == AsWrites("account", plan.accounts)
           A8 == AsWrites("assignment", plan.assignments)
           s1 == WritesFor("item", ItemRows)
           s2 == WritesFor("job", JobRows)
           s3 == WritesFor("vehicle", plan.vehicles)
           s4 == WritesFor("schema", plan.schemas)
           s5 == WritesFor("entity", plan.entities)
           s6 == WritesFor("character", plan.characters)
           s7 == WritesFor("account", plan.accounts)
           s8 == WritesFor("assignment", plan.assignments)
<1>1. IsFiniteSet(ItemRows) /\ IsFiniteSet(JobRows)
  <2> DEFINE f == [k \in DOMAIN plan.items |-> <<k, plan.items[k]>>]
             g == [k \in DOMAIN plan.jobs |-> <<k, plan.jobs[k]>>]
  <2>1. ItemRows = {f[k] : k \in DOMAIN plan.items} /\ JobRows = {g[k] : k \in DOMAIN plan.jobs}
    OBVIOUS
  <2> HIDE DEF f, g, ItemRows, JobRows
  <2> QED BY <2>1, ImageIsFinite DEF FinitePlan
<1> HIDE DEF ItemRows, JobRows
<1>2. /\ s1 \in Seq(A1) /\ s2 \in Seq(A2) /\ s3 \in Seq(A3) /\ s4 \in Seq(A4)
      /\ s5 \in Seq(A5) /\ s6 \in Seq(A6) /\ s7 \in Seq(A7) /\ s8 \in Seq(A8)
      /\ \A w \in A1 : Occurs(w, s1)
      /\ \A w \in A2 : Occurs(w, s2)
      /\ \A w \in A3 : Occurs(w, s3)
      /\ \A w \in A4 : Occurs(w, s4)
      /\ \A w \in A5 : Occurs(w, s5)
      /\ \A w \in A6 : Occurs(w, s6)
      /\ \A w \in A7 : Occurs(w, s7)
      /\ \A w \in A8 : Occurs(w, s8)
  BY <1>1, WritesForFacts DEF FinitePlan
<1>3. /\ \A w \in A1 \cup A2 \cup A3 \cup A4 \cup A5 : w.kind \notin {"character", "account"}
      /\ \A w \in A6 : w.kind = "character" /\ w.row \in plan.characters
      /\ \A w \in A7 : w.kind = "account" /\ w.row \in plan.accounts
      /\ \A w \in A8 : w.kind \notin {"character", "account"}
      /\ \A c \in plan.characters : \E w \in A6 : w.row = c
  <2>1. \A kind, rows : \A w \in AsWrites(kind, rows) : w.kind = kind /\ w.row \in rows
    BY DEF AsWrites
  <2>2. \A kind, rows : \A row \in rows : \E w \in AsWrites(kind, rows) : w.row = row
    <3> TAKE kind, rows
    <3> TAKE row \in rows
    <3>1. [kind |-> kind, row |-> row] \in AsWrites(kind, rows)
      BY DEF AsWrites
    <3> WITNESS [kind |-> kind, row |-> row] \in AsWrites(kind, rows)
    <3> QED OBVIOUS
  <2> QED BY <2>1, <2>2
<1>4. /\ WritesOf(plan) = ((((((s1 \o s2) \o s3) \o s4) \o s5) \o s6) \o s7) \o s8
      /\ PlanWrites(plan) = ((((((A1 \cup A2) \cup A3) \cup A4) \cup A5) \cup A6) \cup A7) \cup A8
  BY DEF WritesOf, PlanWrites, ItemRows, JobRows
<1> HIDE DEF A1, A2, A3, A4, A5, A6, A7, A8, s1, s2, s3, s4, s5, s6, s7, s8
<1> DEFINE B2 == A1 \cup A2   B3 == B2 \cup A3   B4 == B3 \cup A4   B5 == B4 \cup A5
           B6 == B5 \cup A6   B7 == B6 \cup A7   B8 == B7 \cup A8
           t2 == s1 \o s2   t3 == t2 \o s3   t4 == t3 \o s4   t5 == t4 \o s5
           t6 == t5 \o s6   t7 == t6 \o s7   t8 == t7 \o s8
           All(S, s) == s \in Seq(S) /\ \A w \in S : Occurs(w, s)
<1>5. ASSUME NEW S, NEW T, NEW s, NEW t, All(S, s), All(T, t)
      PROVE  All(S \cup T, s \o t)
  BY <1>5, ConcatFacts
<1>6. All(B5, t5)
  <2>0. All(A1, s1) /\ All(A2, s2) /\ All(A3, s3) /\ All(A4, s4) /\ All(A5, s5)
    BY <1>2
  <2>1. All(B2, t2)
    <3> HIDE DEF All
    <3> QED BY <1>5, <2>0
  <2> HIDE DEF B2, t2
  <2>2. All(B3, t3)
    <3> HIDE DEF All
    <3> QED BY <1>5, <2>0, <2>1
  <2> HIDE DEF B3, t3
  <2>3. All(B4, t4)
    <3> HIDE DEF All
    <3> QED BY <1>5, <2>0, <2>2
  <2> HIDE DEF B4, t4
  <2> HIDE DEF All
  <2> QED BY <1>5, <2>0, <2>3
<1>7. \A w \in B5 : w.kind \notin {"character", "account"}
  BY <1>3
<1>8. WritesOf(plan) = t8 /\ PlanWrites(plan) = B8
  BY <1>4
<1> HIDE DEF B5, t5
<1>9. All(B6, t6)
  BY <1>2, <1>5, <1>6
<1>10. Len(t6) \in Nat /\ \A n \in 1..Len(t6) : t6[n].kind # "account"
  <2>1. t6 \in Seq(B6) /\ \A w \in B6 : w.kind # "account"
    BY <1>3, <1>7, <1>9
  <2>2. Len(t6) \in Nat /\ \A n \in 1..Len(t6) : t6[n] \in B6
    BY <2>1
  <2> QED BY <2>1, <2>2
<1>11. \A c \in plan.characters : \E m \in 1..Len(t6) : t6[m].kind = "character" /\ t6[m].row = c
  <2> SUFFICES ASSUME NEW c \in plan.characters
               PROVE  \E m \in 1..Len(t6) : t6[m].kind = "character" /\ t6[m].row = c
    OBVIOUS
  <2>1. PICK w \in A6 : w.row = c
    BY <1>3
  <2>2. Occurs(w, t6)
    BY <1>9
  <2> QED BY <1>3, <2>1, <2>2 DEF Occurs
<1> HIDE DEF B6, t6
<1>12. All(B7, t7)
  BY <1>2, <1>5, <1>9
<1>13. /\ Len(t7) = Len(t6) + Len(s7) /\ Len(s7) \in Nat
       /\ \A n \in 1..Len(t6) : t7[n] = t6[n]
       /\ \A n \in 1..Len(s7) : t7[Len(t6) + n] = s7[n] /\ s7[n] \in A7
  BY <1>2, <1>9, ConcatFacts
<1>14. \A n \in 1..Len(t7) : t7[n].kind = "account" =>
            /\ n > Len(t6)
            /\ \E m \in 1..Len(t6) : IsCharacterOf(t7[m], t7[n])
  <2> SUFFICES ASSUME NEW n \in 1..Len(t7), t7[n].kind = "account"
               PROVE  n > Len(t6) /\ \E m \in 1..Len(t6) : IsCharacterOf(t7[m], t7[n])
    OBVIOUS
  <2>1. n > Len(t6)
    BY <1>10, <1>13
  <2>2. t7[n] \in A7
    <3>1. n - Len(t6) \in 1..Len(s7) /\ Len(t6) + (n - Len(t6)) = n
      BY <1>10, <1>13, <2>1
    <3> HIDE DEF t7
    <3> QED BY <1>13, <3>1
  <2>3. PICK c \in plan.characters : c.id = t7[n].row.owner
    BY <1>3, <2>2 DEF OwnedPlan
  <2>4. PICK m \in 1..Len(t6) : t6[m].kind = "character" /\ t6[m].row = c
    BY <1>11
  <2>5. IsCharacterOf(t7[m], t7[n])
    BY <1>13, <2>3, <2>4 DEF IsCharacterOf
  <2> QED BY <2>1, <2>5
<1> HIDE DEF B7, t7
<1>15. All(B8, t8)
  BY <1>2, <1>5, <1>12
<1>16. /\ Len(t8) = Len(t7) + Len(s8) /\ Len(s8) \in Nat /\ Len(t7) \in Nat
       /\ \A n \in 1..Len(t7) : t8[n] = t7[n]
       /\ \A n \in 1..Len(s8) : t8[Len(t7) + n] = s8[n] /\ s8[n] \in A8
  BY <1>2, <1>12, ConcatFacts
<1> HIDE DEF B8, t8
<1>17. ASSUME NEW n \in 1..Len(t8), t8[n].kind = "account"
       PROVE  \E m \in 1..(n - 1) : IsCharacterOf(t8[m], t8[n])
  <2>1. n <= Len(t7)
    <3> SUFFICES ASSUME n > Len(t7) PROVE FALSE
      BY <1>16
    <3>1. n - Len(t7) \in 1..Len(s8) /\ Len(t7) + (n - Len(t7)) = n
      BY <1>16
    <3>2. t8[n] \in A8
      BY <1>16, <3>1
    <3> QED BY <1>3, <1>17, <3>2
  <2>2. n \in 1..Len(t7) /\ t8[n] = t7[n]
    BY <1>16, <2>1
  <2>3. n > Len(t6)
    BY <1>14, <1>17, <2>2
  <2>4. PICK m \in 1..Len(t6) : IsCharacterOf(t7[m], t7[n])
    BY <1>14, <1>17, <2>2
  <2>5. m \in 1..(n - 1) /\ m \in 1..Len(t7)
    BY <1>10, <1>13, <2>3
  <2> QED BY <1>16, <2>2, <2>4, <2>5
<1> QED BY <1>8, <1>15, <1>17

-----------------------------------------------------------------------------
(***************************************************************************)
(* What a migration has brought.  An import that runs has each write of    *)
(* its plan in the tables or still before it; one that ended well has them *)
(* all in the tables, where nothing removes them but the end of the plugin *)
(* that owns the entities.                                                 *)
(***************************************************************************)
Present(db, w) ==
    /\ w.kind = "item" => w.row[1] \in DOMAIN db["items"] /\ db["items"][w.row[1]] = w.row[2]
    /\ w.kind = "job" => w.row[1] \in DOMAIN db["jobs"] /\ db["jobs"][w.row[1]] = w.row[2]
    /\ w.kind = "vehicle" => w.row \in DOMAIN db["vehicles"]
    /\ w.kind = "entity" => w.row \in DOMAIN db["entities"]
    /\ w.kind = "character" => w.row.id \in DOMAIN db["characters"]
    /\ w.kind = "account" =>
         /\ <<w.row.owner, w.row.currency>> \in DOMAIN db["accounts"]
         /\ db["accounts"][<<w.row.owner, w.row.currency>>] = w.row
    /\ w.kind = "assignment" => w.row.id \in DOMAIN db["characterJobs"]

(* Every account belongs to a character that exists.                       *)
Owned(db) == \A a \in DOMAIN db["accounts"] : db["accounts"][a].owner \in DOMAIN db["characters"]

Plans == {planQbCoreMigration(dump) : dump \in Dumps}
Writes == UNION {PlanWrites(plan) : plan \in Plans}
Import == [plan : Plans, writes : Seq(Writes), outcome : {"running", "done", "failed"}, uninstalled : BOOLEAN]

Held(db, import, w) == Present(db, w) \/ (import.uninstalled /\ w.kind = "entity")

Tracked(db, import) ==
    /\ import.outcome = "running" =>
         /\ \A w \in PlanWrites(import.plan) : Held(db, import, w) \/ Occurs(w, import.writes)
         /\ Led(db["characters"], import.writes)
    /\ import.outcome = "done" => \A w \in PlanWrites(import.plan) : Held(db, import, w)

ImportsIn(db, all) ==
    /\ all \in Seq(Import)
    /\ \A i \in DOMAIN all : Tracked(db, all[i])

LEMMA PresentLater ==
    ASSUME NEW old, NEW new, NEW w, Later(old, new), Present(old, w)
    PROVE  Present(new, w)
<1>1. /\ "items" \in Kept /\ "jobs" \in Kept /\ "accounts" \in Kept
      /\ "vehicles" \in Growing /\ "entities" \in Growing
      /\ "characters" \in Growing /\ "characterJobs" \in Growing
  BY DEF Kept, Growing
<1> QED BY <1>1 DEF Later, Present

LEMMA TrackedLater ==
    ASSUME NEW old, NEW new, NEW import, Later(old, new), Tracked(old, import)
    PROVE  Tracked(new, import)
<1>1. \A w : Present(old, w) => Present(new, w)
  BY PresentLater
<1>2. Led(old["characters"], import.writes) => Led(new["characters"], import.writes)
  BY DEF Led, Later, Growing
<1> QED BY <1>1, <1>2 DEF Tracked, Held

(* A write that lands leaves the list.                                     *)
LEMMA TrackedTail ==
    ASSUME NEW old, NEW new, NEW import \in Import, Later(old, new), Tracked(old, import),
           import.outcome = "running", import.writes # <<>>, Present(new, Head(import.writes))
    PROVE  Tracked(new, [import EXCEPT !.writes = Tail(@)])
<1> DEFINE s == import.writes
           t == Tail(s)
<1>1. s \in Seq(Writes) /\ s # <<>>
  BY DEF Import
<1>2. /\ Len(s) \in Nat \ {0}
      /\ Len(t) = Len(s) - 1
      /\ \A n \in 1..Len(t) : t[n] = s[n + 1]
      /\ Head(s) = s[1]
  BY <1>1
<1>3. /\ [import EXCEPT !.writes = Tail(@)].outcome = "running"
      /\ [import EXCEPT !.writes = Tail(@)].plan = import.plan
      /\ [import EXCEPT !.writes = Tail(@)].writes = t
      /\ [import EXCEPT !.writes = Tail(@)].uninstalled = import.uninstalled
  BY DEF Import
<1>4. /\ \A w \in PlanWrites(import.plan) : Held(old, import, w) \/ Occurs(w, s)
      /\ Led(old["characters"], s)
  BY DEF Tracked
<1> HIDE DEF s, t
<1>5. ASSUME NEW w \in PlanWrites(import.plan)
      PROVE  Held(new, import, w) \/ Occurs(w, t)
  <2>1. CASE Held(old, import, w)
    BY <2>1, PresentLater DEF Held
  <2>2. CASE Occurs(w, s)
    <3>1. PICK n \in 1..Len(s) : s[n] = w
      BY <2>2 DEF Occurs
    <3>2. CASE n = 1
      BY <1>2, <3>1, <3>2 DEF s, Held
    <3>3. CASE n # 1
      <4>1. n - 1 \in 1..Len(t) /\ (n - 1) + 1 = n
        BY <1>2, <3>3
      <4>2. t[n - 1] = w
        BY <1>2, <3>1, <4>1
      <4> QED BY <4>1, <4>2 DEF Occurs
    <3> QED BY <3>2, <3>3
  <2> QED BY <1>4, <2>1, <2>2
<1>6. Led(new["characters"], t)
  <2> SUFFICES ASSUME NEW n \in 1..Len(t), t[n].kind = "account",
                      t[n].row.owner \notin DOMAIN new["characters"]
               PROVE  \E m \in 1..(n - 1) : IsCharacterOf(t[m], t[n])
    BY DEF Led
  <2>1. n + 1 \in 1..Len(s) /\ t[n] = s[n + 1]
    BY <1>2
  <2>2. t[n].row.owner \notin DOMAIN old["characters"]
    BY DEF Later, Growing
  <2>3. PICK m \in 1..((n + 1) - 1) : IsCharacterOf(s[m], s[n + 1])
    BY <1>4, <2>1, <2>2 DEF Led
  <2>4. m # 1
    <3> SUFFICES ASSUME m = 1 PROVE FALSE
      OBVIOUS
    <3>1. IsCharacterOf(Head(s), t[n])
      BY <1>2, <2>1, <2>3
    <3>2. Head(s).row.id \in DOMAIN new["characters"]
      BY <3>1 DEF IsCharacterOf, Present, s
    <3> QED BY <3>1, <3>2 DEF IsCharacterOf
  <2>5. m - 1 \in 1..(n - 1) /\ m - 1 \in 1..Len(t) /\ (m - 1) + 1 = m
    BY <1>2, <2>4
  <2>6. t[m - 1] = s[m]
    BY <1>2, <2>5
  <2>7. IsCharacterOf(t[m - 1], t[n])
    BY <2>1, <2>3, <2>6
  <2> QED BY <2>5, <2>7
<1> QED BY <1>3, <1>5, <1>6 DEF Tracked, Held

(* A call of a reducer does not touch the accounts, except create_account. *)
Frugal(reducer) == reducer.accepted => reducer.after["accounts"] = tables["accounts"]

LEMMA OthersAreFrugal ==
    ASSUME Sound(tables)
    PROVE  /\ \A key, limit : Frugal(register_item(key, limit))
           /\ \A key, grades : Frugal(register_job(key, grades))
           /\ \A key : Frugal(register_vehicle(key)) /\ Frugal(register_location(key))
           /\ \A type : Frugal(register_plugin_schema(type))
           /\ \A type, id : Frugal(upsert_plugin_entity(type, id))
           /\ \A character, job, grade : Frugal(assign_job(character, job, grade))
           /\ \A id, player, selected : Frugal(upsert_character(id, player, selected))
           /\ \A owner, item, n : Frugal(grant_item(owner, item, n)) /\ Frugal(remove_item(owner, item, n))
<1>1. \A t \in GameplayTables \ {"accounts"} : \A table :
          [tables EXCEPT ![t] = table]["accounts"] = tables["accounts"]
  BY TableNames DEF Sound
<1>2. {"items", "jobs", "vehicles", "locations", "schemas", "entities", "characters", "characterJobs", "stacks"}
        \subseteq GameplayTables \ {"accounts"}
  BY TableNames
<1>3. \A t \in GameplayTables \ {"accounts"} : \A key, row : Upsert(t, key, row)["accounts"] = tables["accounts"]
  BY <1>1 DEF Upsert
<1>4. \A key, limit : Frugal(register_item(key, limit))
  BY <1>2, <1>3 DEF register_item, register, Frugal, Reducer
<1>5. \A key, grades : Frugal(register_job(key, grades))
  BY <1>2, <1>3 DEF register_job, register, Frugal, Reducer
<1>6. \A key : Frugal(register_vehicle(key)) /\ Frugal(register_location(key))
  BY <1>2, <1>3 DEF register_vehicle, register_location, register, Frugal, Reducer
<1>7. \A type : Frugal(register_plugin_schema(type))
  BY <1>2, <1>3 DEF register_plugin_schema, Frugal, Reducer
<1>8. \A type, id : Frugal(upsert_plugin_entity(type, id))
  BY <1>2, <1>3 DEF upsert_plugin_entity, Frugal, Reducer
<1>9. \A character, job, grade : Frugal(assign_job(character, job, grade))
  BY <1>2, <1>3 DEF assign_job, Frugal, Reducer
<1>10. \A id, player, selected : Frugal(upsert_character(id, player, selected))
  BY <1>1, <1>2 DEF upsert_character, Frugal, Reducer
<1>11. \A owner, item, n : Frugal(grant_item(owner, item, n))
  BY <1>2, <1>3 DEF grant_item, Frugal, Reducer
<1>12. \A owner, item, n : Frugal(remove_item(owner, item, n))
  BY <1>1, <1>2, <1>3 DEF remove_item, Frugal, Reducer
<1> QED BY <1>4, <1>5, <1>6, <1>7, <1>8, <1>9, <1>10, <1>11, <1>12

(* What is accepted is there afterwards.                                   *)
Kinds == {"item", "job", "vehicle", "schema", "entity", "character", "account", "assignment"}

LEMMA WriteFacts ==
    ASSUME NEW w \in Writes
    PROVE  w.kind \in Kinds /\ (w.kind = "item" => w.row[2] \in Int)
<1>1. PICK dump \in Dumps : w \in PlanWrites(planQbCoreMigration(dump))
  BY DEF Writes, Plans
<1> DEFINE plan == planQbCoreMigration(dump)
<1>2. OwnedPlan(plan)
  BY PlanFacts
<1>3. w \in PlanWrites(plan)
  BY <1>1
<1> HIDE DEF plan
<1>4. \A kind, rows : \A v \in AsWrites(kind, rows) : v.kind = kind /\ v.row \in rows
  BY DEF AsWrites
<1>5. w.kind \in Kinds
  BY <1>3, <1>4 DEF PlanWrites, Kinds
<1>6. ASSUME w.kind = "item" PROVE w.row[2] \in Int
  <2>1. w \in AsWrites("item", {<<k, plan.items[k]>> : k \in DOMAIN plan.items})
    BY <1>3, <1>4, <1>6 DEF PlanWrites
  <2>2. w.row \in {<<k, plan.items[k]>> : k \in DOMAIN plan.items}
    BY <1>4, <2>1
  <2> QED BY <1>2, <2>2 DEF OwnedPlan
<1> QED BY <1>5, <1>6

LEMMA UpsertFacts ==
    ASSUME Sound(tables), NEW t \in GameplayTables, NEW key, NEW row
    PROVE  key \in DOMAIN Upsert(t, key, row)[t] /\ Upsert(t, key, row)[t][key] = row
BY OneTable DEF Upsert, Stored, Sound

LEMMA WriteLands ==
    ASSUME Sound(tables), NEW w \in Writes, ReducerOf(w).accepted
    PROVE  /\ Grows(ReducerOf(w))
           /\ Present(ReducerOf(w).after, w)
           /\ w.kind # "account" => Frugal(ReducerOf(w))
<1> DEFINE after == ReducerOf(w).after
           Lands == Grows(ReducerOf(w)) /\ Present(after, w) /\ (w.kind # "account" => Frugal(ReducerOf(w)))
<1>0. /\ "items" \in GameplayTables /\ "jobs" \in GameplayTables /\ "vehicles" \in GameplayTables
      /\ "entities" \in GameplayTables /\ "characters" \in GameplayTables
      /\ "accounts" \in GameplayTables /\ "characterJobs" \in GameplayTables
  BY TableNames
<1>1. CASE w.kind = "item"
  <2>1. ReducerOf(w) = register_item(w.row[1], w.row[2]) /\ w.row[2] \in Int
    BY <1>1, WriteFacts DEF ReducerOf
  <2>2. after = Upsert("items", w.row[1], w.row[2])
    BY <2>1 DEF register_item, register, Reducer
  <2>3. Grows(ReducerOf(w)) /\ Frugal(ReducerOf(w))
    BY <2>1, RowsGrow, OthersAreFrugal
  <2> QED BY <1>0, <1>1, <2>2, <2>3, UpsertFacts DEF Present
<1>2. CASE w.kind = "job"
  <2>1. ReducerOf(w) = register_job(w.row[1], w.row[2])
    BY <1>2 DEF ReducerOf
  <2>2. after = Upsert("jobs", w.row[1], w.row[2])
    BY <2>1 DEF register_job, register, Reducer
  <2>3. Grows(ReducerOf(w)) /\ Frugal(ReducerOf(w))
    BY <2>1, RowsGrow, OthersAreFrugal
  <2> QED BY <1>0, <1>2, <2>2, <2>3, UpsertFacts DEF Present
<1>3. CASE w.kind = "vehicle"
  <2>1. ReducerOf(w) = register_vehicle(w.row)
    BY <1>3 DEF ReducerOf
  <2>2. after = Upsert("vehicles", w.row, TRUE)
    BY <2>1 DEF register_vehicle, register, Reducer
  <2>3. Grows(ReducerOf(w)) /\ Frugal(ReducerOf(w))
    BY <2>1, RowsGrow, OthersAreFrugal
  <2> QED BY <1>0, <1>3, <2>2, <2>3, UpsertFacts DEF Present
<1>4. CASE w.kind = "schema"
  <2>1. ReducerOf(w) = register_plugin_schema(w.row)
    BY <1>4 DEF ReducerOf
  <2>2. Grows(ReducerOf(w)) /\ Frugal(ReducerOf(w))
    BY <2>1, RowsGrow, OthersAreFrugal
  <2> QED BY <1>4, <2>2 DEF Present
<1>5. CASE w.kind = "entity"
  <2>1. ReducerOf(w) = upsert_plugin_entity("qbcore_gang", w.row)
    BY <1>5 DEF ReducerOf
  <2>2. after = Upsert("entities", w.row, "qbcore_gang")
    BY <2>1 DEF upsert_plugin_entity, Reducer
  <2>3. Grows(ReducerOf(w)) /\ Frugal(ReducerOf(w))
    BY <2>1, RowsGrow, OthersAreFrugal
  <2> QED BY <1>0, <1>5, <2>2, <2>3, UpsertFacts DEF Present
<1>6. CASE w.kind = "character"
  <2>1. ReducerOf(w) = upsert_character(w.row.id, w.row.player, TRUE)
    BY <1>6 DEF ReducerOf
  <2>2. w.row.id \in DOMAIN after["characters"]
    <3>1. \A f, row : w.row.id \in DOMAIN [tables EXCEPT !["characters"] = Stored(f, w.row.id, row)]["characters"]
      BY <1>0 DEF Stored, Sound
    <3> DEFINE old == tables["characters"]
               Others(c) == TRUE /\ c # w.row.id /\ old[c].player = w.row.player
               f == [c \in DOMAIN old |-> [old[c] EXCEPT !.selected = @ /\ ~Others(c)]]
               row == [player |-> w.row.player, selected |-> TRUE]
    <3>2. after = [tables EXCEPT !["characters"] = Stored(f, w.row.id, row)]
      BY <2>1 DEF upsert_character, Reducer
    <3> HIDE DEF f, row, after
    <3> QED BY <3>1, <3>2
  <2>3. Grows(ReducerOf(w)) /\ Frugal(ReducerOf(w))
    BY <2>1, CharacterGrows, OthersAreFrugal
  <2> QED BY <1>6, <2>2, <2>3 DEF Present
<1>7. CASE w.kind = "account"
  <2>1. ReducerOf(w) = create_account(<<w.row.owner, w.row.currency>>, w.row)
    BY <1>7 DEF ReducerOf
  <2>2. after = Upsert("accounts", <<w.row.owner, w.row.currency>>, w.row)
    BY <2>1 DEF create_account, Reducer
  <2>3. Grows(ReducerOf(w))
    BY <2>1, RowsGrow
  <2> QED BY <1>0, <1>7, <2>2, <2>3, UpsertFacts DEF Present
<1>8. CASE w.kind = "assignment"
  <2>1. ReducerOf(w) = assign_job(w.row.id, w.row.job, w.row.grade)
    BY <1>8 DEF ReducerOf
  <2>2. after = Upsert("characterJobs", w.row.id, [job |-> w.row.job, grade |-> w.row.grade])
    BY <2>1 DEF assign_job, Reducer
  <2>3. Grows(ReducerOf(w)) /\ Frugal(ReducerOf(w))
    BY <2>1, RowsGrow, OthersAreFrugal
  <2> QED BY <1>0, <1>8, <2>2, <2>3, UpsertFacts DEF Present
<1> QED BY <1>1, <1>2, <1>3, <1>4, <1>5, <1>6, <1>7, <1>8, WriteFacts DEF Kinds

-----------------------------------------------------------------------------
(***************************************************************************)
(* The inductive invariant and its step.                                   *)
(***************************************************************************)
TablesInv == Sound(tables) /\ Owned(tables) /\ ImportsIn(tables, imports)

(* A call of an administrator or of the game.                              *)
LEMMA CallStep ==
    ASSUME TablesInv, NEW reducer, Grows(reducer), Frugal(reducer), reducer.accepted,
           tables' = reducer.after, UNCHANGED imports
    PROVE  TablesInv'
<1>1. Sound(tables') /\ Later(tables, tables') /\ tables'["accounts"] = tables["accounts"]
  BY DEF Grows, Frugal
<1>2. Owned(tables')
  BY <1>1 DEF TablesInv, Owned, Later, Growing
<1>3. ImportsIn(tables', imports')
  <2>1. \A import : Tracked(tables, import) => Tracked(tables', import)
    BY <1>1, TrackedLater
  <2> QED BY <2>1 DEF TablesInv, ImportsIn
<1> QED BY <1>1, <1>2, <1>3 DEF TablesInv

(* The tables after a write of a migration that was accepted: an account   *)
(* comes to a character that is there already.                             *)
LEMMA WriteStep ==
    ASSUME TablesInv, NEW i \in DOMAIN imports, Running(i), imports[i].writes # <<>>,
           ReducerOf(Head(imports[i].writes)).accepted
    PROVE  LET after == ReducerOf(Head(imports[i].writes)).after IN
           /\ Sound(after) /\ Later(tables, after) /\ Owned(after)
           /\ Present(after, Head(imports[i].writes))
<1> DEFINE s == imports[i].writes
           w == Head(s)
           after == ReducerOf(w).after
<1>1. imports[i] \in Import /\ Tracked(tables, imports[i])
  BY DEF TablesInv, ImportsIn
<1>2. s \in Seq(Writes) /\ s # <<>>
  BY <1>1 DEF Import
<1>3. Len(s) \in Nat \ {0} /\ 1 \in 1..Len(s) /\ w = s[1] /\ w \in Writes
  BY <1>2
<1>4. /\ Grows(ReducerOf(w))
      /\ Present(after, w)
      /\ w.kind # "account" => Frugal(ReducerOf(w))
  BY <1>3, WriteLands DEF TablesInv
<1>5. Sound(after) /\ Later(tables, after)
  BY <1>4 DEF Grows
<1>6. Owned(after)
  <2>1. CASE w.kind # "account"
    <3>1. after["accounts"] = tables["accounts"]
      BY <1>4, <2>1 DEF Frugal
    <3> HIDE DEF after
    <3> QED BY <1>5, <3>1 DEF TablesInv, Owned, Later, Growing
  <2>2. CASE w.kind = "account"
    <3>1. w.row.owner \in DOMAIN tables["characters"]
      <4>1. Led(tables["characters"], s)
        BY <1>1 DEF Tracked, Running
      <4>2. \A m \in 1..(1 - 1) : FALSE
        OBVIOUS
      <4> HIDE DEF s
      <4> QED BY <1>3, <2>2, <4>1, <4>2 DEF Led
    <3> DEFINE id == <<w.row.owner, w.row.currency>>
    <3>2. after = Upsert("accounts", id, w.row)
      BY <2>2 DEF ReducerOf, create_account, Reducer
    <3>3. after["accounts"] = Stored(tables["accounts"], id, w.row)
      BY <3>2, TableNames, OneTable DEF Upsert, TablesInv, Sound
    <3>4. DOMAIN tables["characters"] \subseteq DOMAIN after["characters"]
      BY <1>5 DEF Later, Growing
    <3> HIDE DEF after, w, id
    <3>5. \A a \in DOMAIN after["accounts"] :
              after["accounts"][a] = w.row \/ (a \in DOMAIN tables["accounts"] /\ after["accounts"][a] = tables["accounts"][a])
      BY <3>3 DEF Stored
    <3> QED BY <3>1, <3>4, <3>5 DEF TablesInv, Owned
  <2> QED BY <2>1, <2>2
<1> QED BY <1>4, <1>5, <1>6

(* The four actions of a migration that runs.                              *)
LEMMA ImportStep ==
    ASSUME TablesInv, NEW i \in DOMAIN imports,
           WriteAccepted(i) \/ WriteRefused(i) \/ WriteThrows(i) \/ ImportDone(i)
    PROVE  TablesInv'
<1> DEFINE import == imports[i]
           w == Head(import.writes)
<1>0. /\ imports \in Seq(Import) /\ \A k \in DOMAIN imports : Tracked(tables, imports[k])
      /\ import \in Import /\ Tracked(tables, import)
      /\ Sound(tables) /\ Owned(tables)
  BY DEF TablesInv, ImportsIn
<1>1. ASSUME NEW changed \in Import, imports' = [imports EXCEPT ![i] = changed],
             Sound(tables'), Owned(tables'), Later(tables, tables'), Tracked(tables', changed)
      PROVE  TablesInv'
  <2>1. imports' \in Seq(Import)
    BY <1>0, <1>1
  <2>2. \A k \in DOMAIN imports' : Tracked(tables', imports'[k])
    BY <1>0, <1>1, TrackedLater
  <2> QED BY <1>1, <2>1, <2>2 DEF TablesInv, ImportsIn
<1>2. Later(tables, tables)
  BY DEF Later
<1>3. ASSUME NEW outcome \in {"done", "failed"}, Ended(i, outcome)
      PROVE  /\ imports' = [imports EXCEPT ![i] = [import EXCEPT !.outcome = outcome]]
             /\ [import EXCEPT !.outcome = outcome] \in Import
             /\ [import EXCEPT !.outcome = outcome].outcome = outcome
             /\ [import EXCEPT !.outcome = outcome].plan = import.plan
             /\ [import EXCEPT !.outcome = outcome].uninstalled = import.uninstalled
  BY <1>0, <1>3 DEF Ended, Import
<1>4. CASE WriteAccepted(i)
  <2>1. /\ Running(i) /\ import.writes # <<>> /\ ReducerOf(w).accepted
        /\ tables' = ReducerOf(w).after
        /\ imports' = [imports EXCEPT ![i] = [import EXCEPT !.writes = Tail(@)]]
    BY <1>0, <1>4 DEF WriteAccepted
  <2>2. Sound(tables') /\ Later(tables, tables') /\ Owned(tables') /\ Present(tables', w)
    BY <2>1, WriteStep
  <2>3. Tracked(tables', [import EXCEPT !.writes = Tail(@)])
    BY <1>0, <2>1, <2>2, TrackedTail DEF Running
  <2>4. [import EXCEPT !.writes = Tail(@)] \in Import
    <3>1. import.writes \in Seq(Writes)
      BY <1>0 DEF Import
    <3>2. Tail(import.writes) \in Seq(Writes)
      BY <2>1, <3>1
    <3> QED BY <1>0, <3>2 DEF Import
  <2> QED BY <1>1, <2>1, <2>2, <2>3, <2>4
<1>5. CASE WriteRefused(i)
  <2>1. Ended(i, "failed") /\ UNCHANGED tables
    BY <1>5 DEF WriteRefused
  <2>2. Tracked(tables, [import EXCEPT !.outcome = "failed"])
    BY <1>3, <2>1 DEF Tracked
  <2> QED BY <1>0, <1>1, <1>2, <1>3, <2>1, <2>2
<1>6. CASE WriteThrows(i)
  <2>1. Ended(i, "failed") /\ Running(i) /\ import.writes # <<>>
    BY <1>6 DEF WriteThrows
  <2>2. Sound(tables') /\ Later(tables, tables') /\ Owned(tables')
    <3>1. CASE tables' = tables
      BY <1>0, <1>2, <3>1
    <3>2. CASE ReducerOf(w).accepted /\ tables' = ReducerOf(w).after
      BY <2>1, <3>2, WriteStep
    <3> QED BY <1>6, <3>1, <3>2 DEF WriteThrows
  <2>3. Tracked(tables', [import EXCEPT !.outcome = "failed"])
    BY <1>3, <2>1 DEF Tracked
  <2> QED BY <1>1, <1>3, <2>1, <2>2, <2>3
<1>7. CASE ImportDone(i)
  <2>1. Ended(i, "done") /\ Running(i) /\ import.writes = <<>> /\ UNCHANGED tables
    BY <1>7 DEF ImportDone
  <2>2. \A v : ~Occurs(v, import.writes)
    BY <2>1 DEF Occurs
  <2>3. Tracked(tables, [import EXCEPT !.outcome = "done"])
    BY <1>0, <1>3, <2>1, <2>2 DEF Tracked, Held, Running
  <2> QED BY <1>0, <1>1, <1>2, <1>3, <2>1, <2>3
<1> QED BY <1>4, <1>5, <1>6, <1>7

(* A migration begins with all of its plan before it.                      *)
LEMMA BeginStep ==
    ASSUME TablesInv, NEW dump \in Dumps, applyQbCoreMigrationPlan(planQbCoreMigration(dump))
    PROVE  TablesInv'
<1> DEFINE plan == planQbCoreMigration(dump)
           import == [plan |-> plan, writes |-> WritesOf(plan), outcome |-> "running", uninstalled |-> FALSE]
<1>1. /\ WritesOf(plan) \in Seq(PlanWrites(plan))
      /\ \A w \in PlanWrites(plan) : Occurs(w, WritesOf(plan))
      /\ Led(tables["characters"], WritesOf(plan))
  <2>1. FinitePlan(plan) /\ OwnedPlan(plan)
    BY PlanFacts
  <2> HIDE DEF plan
  <2> QED BY <2>1, WritesOfFacts DEF Led
<1>2. plan \in Plans
  BY DEF Plans
<1>3. imports' = Append(imports, import) /\ UNCHANGED tables
  BY DEF applyQbCoreMigrationPlan
<1> HIDE DEF plan
<1>4. WritesOf(plan) \in Seq(Writes)
  <2>1. PlanWrites(plan) \subseteq Writes
    BY <1>2 DEF Writes
  <2>2. \A S, T, s : s \in Seq(S) /\ S \subseteq T => s \in Seq(T)
    OBVIOUS
  <2> QED BY <1>1, <2>1, <2>2
<1>5. import \in Import /\ Tracked(tables, import)
  BY <1>1, <1>2, <1>4 DEF Import, Tracked
<1> HIDE DEF import
<1>6. imports \in Seq(Import) /\ \A k \in DOMAIN imports : Tracked(tables, imports[k])
  BY DEF TablesInv, ImportsIn
<1>7. /\ imports' \in Seq(Import)
      /\ \A k \in DOMAIN imports' : imports'[k] = import \/ (k \in DOMAIN imports /\ imports'[k] = imports[k])
  BY <1>3, <1>5, <1>6
<1>8. ImportsIn(tables', imports')
  BY <1>3, <1>5, <1>6, <1>7 DEF ImportsIn
<1> QED BY <1>3, <1>8 DEF TablesInv

(* An uninstalled plugin takes entities of every migration along, those of *)
(* one that runs too.                                                      *)
LEMMA UninstallStep ==
    ASSUME TablesInv, uninstall_plugin
    PROVE  TablesInv'
<1> DEFINE Marked(i) == [imports[i] EXCEPT !.uninstalled = TRUE]
<1>1. /\ tables' = [t \in GameplayTables |-> tables'[t]]
      /\ tables'["items"] = tables["items"] /\ tables'["jobs"] = tables["jobs"]
      /\ tables'["vehicles"] = tables["vehicles"] /\ tables'["characters"] = tables["characters"]
      /\ tables'["characterJobs"] = tables["characterJobs"] /\ tables'["stacks"] = tables["stacks"]
      /\ tables'["accounts"] = tables["accounts"]
  BY Uninstalled DEF TablesInv, Sound
<1>2. Sound(tables') /\ Owned(tables')
  BY <1>1 DEF TablesInv, Sound, Owned
<1>3. /\ imports \in Seq(Import) /\ \A i \in DOMAIN imports : imports[i] \in Import /\ Tracked(tables, imports[i])
      /\ imports' = [i \in DOMAIN imports |-> Marked(i)]
  BY DEF TablesInv, ImportsIn, uninstall_plugin
<1>4. ASSUME NEW i \in DOMAIN imports
      PROVE  Marked(i) \in Import /\ Tracked(tables', Marked(i))
  <2>1. imports[i] \in Import /\ Tracked(tables, imports[i])
    BY <1>3
  <2>2. /\ Marked(i) \in Import /\ Marked(i).uninstalled
        /\ Marked(i).plan = imports[i].plan /\ Marked(i).outcome = imports[i].outcome
        /\ Marked(i).writes = imports[i].writes
    BY <2>1 DEF Import
  <2> HIDE DEF Marked
  <2>3. \A w : Held(tables, imports[i], w) => Held(tables', Marked(i), w)
    BY <1>1, <2>2 DEF Held, Present
  <2> QED BY <1>1, <2>1, <2>2, <2>3 DEF Tracked
<1> HIDE DEF Marked
<1>5. imports' \in Seq(Import)
  <2>1. Len(imports) \in Nat /\ DOMAIN imports = 1..Len(imports)
    BY <1>3
  <2>2. imports' \in [1..Len(imports) -> Import]
    BY <1>3, <1>4, <2>1
  <2> QED BY <2>1, <2>2
<1>6. ImportsIn(tables', imports')
  BY <1>3, <1>4, <1>5 DEF ImportsIn
<1> QED BY <1>2, <1>6 DEF TablesInv

LEMMA TablesStep ==
    ASSUME TablesInv, [GameplayNext \/ RegistryNext]_gameplayVars
    PROVE  TablesInv'
<1>0. Sound(tables)
  BY DEF TablesInv
<1>1. ASSUME NEW reducer, Grows(reducer), Frugal(reducer), Call(reducer)
      PROVE  TablesInv'
  BY <1>1, CallStep DEF Call
<1>2. CASE UNCHANGED <<tables, imports>>
  BY <1>2 DEF TablesInv
<1>3. CASE RegistryNext
  <2>1. ASSUME NEW changed, RegistryCall(changed)
        PROVE  TablesInv'
    BY <2>1, <1>2 DEF RegistryCall
  <2>2. ASSUME NEW item \in ItemInputs, NEW job \in JobInputs, registerPluginPrimitives(item, job)
        PROVE  TablesInv'
    BY <2>1, <2>2 DEF registerPluginPrimitives
  <2>3. ASSUME NEW owner, NEW item, NEW quantity, grantItem(owner, item, quantity)
        PROVE  TablesInv'
    BY <2>1, <2>3 DEF grantItem
  <2>4. ASSUME NEW owner, NEW job, NEW grade, assignJob(owner, job, grade)
        PROVE  TablesInv'
    BY <2>1, <2>4 DEF assignJob
  <2> QED BY <1>3, <2>2, <2>3, <2>4 DEF RegistryNext
<1>4. CASE (\E status \in {"installed", "active"} : SetPluginStatus(status)) \/ CharactersHeard
  BY <1>4, <1>2 DEF SetPluginStatus, CharactersHeard
<1>14. CASE uninstall_plugin
  BY <1>14, UninstallStep
<1>5. ASSUME NEW item \in ItemInputs, item.limit # Missing, registerGameplayItem(item)
      PROVE  TablesInv'
  <2>1. item.limit \in Int
    BY <1>5, GameplayAssumption DEF GameplayAssumption
  <2>2. Grows(register_item(item.key, item.limit)) /\ Frugal(register_item(item.key, item.limit))
    BY <1>0, <2>1, RowsGrow, OthersAreFrugal
  <2> QED BY <1>1, <1>5, <2>2 DEF registerGameplayItem
<1>6. CASE \E j \in JobInputs : registerGameplayJob(j)
  BY <1>6, <1>0, <1>1, RowsGrow, OthersAreFrugal DEF registerGameplayJob
<1>7. CASE registerGameplayVehicle("car") \/ registerGameplayLocation("garage")
  BY <1>7, <1>0, <1>1, RowsGrow, OthersAreFrugal DEF registerGameplayVehicle, registerGameplayLocation
<1>8. CASE \E c \in CharacterInputs : upsertGameplayCharacter(c) \/ selectGameplayCharacter(c.id)
  BY <1>8, <1>0, <1>1, CharacterGrows, OthersAreFrugal DEF upsertGameplayCharacter, selectGameplayCharacter
<1>9. ASSUME NEW owner \in Owners, NEW item \in ItemInputs, NEW quantity \in Quantities,
             grantGameplayItem(owner, item.key, quantity) \/ removeGameplayItem(owner, item.key, quantity)
      PROVE  TablesInv'
  <2>1. quantity \in Int
    BY GameplayAssumption DEF GameplayAssumption
  <2>2. CASE grantGameplayItem(owner, item.key, quantity)
    BY <2>1, <2>2, <1>0, <1>1, GrantGrows, OthersAreFrugal DEF grantGameplayItem
  <2>3. CASE removeGameplayItem(owner, item.key, quantity)
    BY <2>1, <2>3, <1>0, <1>1, RemoveGrows, OthersAreFrugal DEF removeGameplayItem
  <2> QED BY <1>9, <2>2, <2>3
<1>10. CASE \E c \in CharacterInputs, j \in JobInputs : \E grade \in j.grades : assignGameplayJob(c.id, j.key, grade)
  BY <1>10, <1>0, <1>1, RowsGrow, OthersAreFrugal DEF assignGameplayJob
<1>11. CASE \E dump \in Dumps : applyQbCoreMigrationPlan(planQbCoreMigration(dump))
  BY <1>11, BeginStep
<1>12. CASE \E i \in DOMAIN imports : WriteAccepted(i) \/ WriteRefused(i) \/ WriteThrows(i) \/ ImportDone(i)
  BY <1>12, ImportStep
<1>13. CASE UNCHANGED gameplayVars
  BY <1>13, <1>2 DEF gameplayVars
<1> QED
  BY <1>3, <1>4, <1>5, <1>6, <1>7, <1>8, <1>9, <1>10, <1>11, <1>12, <1>13, <1>14 DEF GameplayNext

LEMMA TablesInvariant == GameplaySpec => []TablesInv
<1>1. GameplayInit => TablesInv
  <2> SUFFICES ASSUME GameplayInit PROVE TablesInv
    OBVIOUS
  <2>1. tables = [t \in GameplayTables |-> <<>>] /\ imports = <<>>
    BY DEF GameplayInit
  <2>2. \A t \in GameplayTables : tables[t] = <<>>
    BY <2>1
  <2>3. tables["items"] = <<>> /\ tables["stacks"] = <<>> /\ tables["accounts"] = <<>>
    BY <2>2, TableNames
  <2>4. \A k : k \notin DOMAIN <<>>
    OBVIOUS
  <2>5. Sound(tables)
    BY <2>1, <2>3, <2>4 DEF Sound, StocksIn, Solvent
  <2>6. Owned(tables)
    BY <2>3, <2>4 DEF Owned
  <2>7. ImportsIn(tables, imports)
    <3>1. <<>> \in Seq(Import)
      OBVIOUS
    <3> QED BY <2>1, <2>4, <3>1 DEF ImportsIn
  <2> QED BY <2>5, <2>6, <2>7 DEF TablesInv
<1>2. TablesInv /\ [GameplayNext \/ RegistryNext]_gameplayVars => TablesInv'
  BY TablesStep
<1> QED BY <1>1, <1>2, PTL DEF GameplaySpec

(* A migration leaves no money without its character wherever it stops,    *)
(* has brought its whole plan when it ends well, and nothing that happens  *)
(* later takes any of it away, except that the entities go when the plugin *)
(* that owns them is uninstalled (applyQbCoreMigrationPlan,                *)
(* uninstall_plugin).                                                      *)
THEOREM ImportsStayWhole == GameplaySpec => []ImportsAreWhole
<1>1. TablesInv => ImportsAreWhole
  <2> SUFFICES ASSUME TablesInv PROVE ImportsAreWhole
    OBVIOUS
  <2>1. MoneyHasItsCharacter
    BY DEF TablesInv, Owned, MoneyHasItsCharacter
  <2>2. ASSUME NEW i \in DOMAIN imports, imports[i].outcome = "done"
        PROVE  LET plan == imports[i].plan IN
               /\ \A k \in DOMAIN plan.items : k \in DOMAIN tables.items /\ tables.items[k] = plan.items[k]
               /\ \A k \in DOMAIN plan.jobs : k \in DOMAIN tables.jobs /\ tables.jobs[k] = plan.jobs[k]
               /\ plan.vehicles \subseteq DOMAIN tables.vehicles
               /\ plan.entities \subseteq DOMAIN tables.entities \/ imports[i].uninstalled
               /\ {c.id : c \in plan.characters} \subseteq DOMAIN tables.characters
               /\ \A a \in plan.accounts : tables.accounts[<<a.owner, a.currency>>] = a
               /\ {a.id : a \in plan.assignments} \subseteq DOMAIN tables.characterJobs
    <3> DEFINE plan == imports[i].plan
               ItemRows == {<<k, plan.items[k]>> : k \in DOMAIN plan.items}
               JobRows == {<<k, plan.jobs[k]>> : k \in DOMAIN plan.jobs}
    <3>1. \A w \in PlanWrites(plan) : Present(tables, w) \/ (imports[i].uninstalled /\ w.kind = "entity")
      BY <2>2 DEF TablesInv, ImportsIn, Tracked, Held
    <3> HIDE DEF plan
    <3>2. \A kind, rows : \A row \in rows : [kind |-> kind, row |-> row] \in AsWrites(kind, rows)
      BY DEF AsWrites
    <3>3. /\ \A row \in ItemRows : Present(tables, [kind |-> "item", row |-> row])
          /\ \A row \in JobRows : Present(tables, [kind |-> "job", row |-> row])
          /\ \A row \in plan.vehicles : Present(tables, [kind |-> "vehicle", row |-> row])
          /\ \A row \in plan.characters : Present(tables, [kind |-> "character", row |-> row])
          /\ \A row \in plan.accounts : Present(tables, [kind |-> "account", row |-> row])
          /\ \A row \in plan.assignments : Present(tables, [kind |-> "assignment", row |-> row])
      <4>1. ASSUME NEW kind \in Kinds \ {"entity"}, NEW row, [kind |-> kind, row |-> row] \in PlanWrites(plan)
            PROVE  Present(tables, [kind |-> kind, row |-> row])
        BY <3>1, <4>1
      <4>2. /\ \A row \in ItemRows : [kind |-> "item", row |-> row] \in PlanWrites(plan)
            /\ \A row \in JobRows : [kind |-> "job", row |-> row] \in PlanWrites(plan)
            /\ \A row \in plan.vehicles : [kind |-> "vehicle", row |-> row] \in PlanWrites(plan)
            /\ \A row \in plan.characters : [kind |-> "character", row |-> row] \in PlanWrites(plan)
            /\ \A row \in plan.accounts : [kind |-> "account", row |-> row] \in PlanWrites(plan)
            /\ \A row \in plan.assignments : [kind |-> "assignment", row |-> row] \in PlanWrites(plan)
        BY <3>2 DEF PlanWrites
      <4>3. {"item", "job", "vehicle", "character", "account", "assignment"} \subseteq Kinds \ {"entity"}
        BY DEF Kinds
      <4> QED BY <4>1, <4>2, <4>3
    <3>10. \A row \in plan.entities : Present(tables, [kind |-> "entity", row |-> row]) \/ imports[i].uninstalled
      <4> TAKE row \in plan.entities
      <4>1. [kind |-> "entity", row |-> row] \in PlanWrites(plan)
        BY <3>2 DEF PlanWrites
      <4> QED BY <3>1, <4>1
    <3>4. \A k \in DOMAIN plan.items : k \in DOMAIN tables["items"] /\ tables["items"][k] = plan.items[k]
      <4> TAKE k \in DOMAIN plan.items
      <4>1. Present(tables, [kind |-> "item", row |-> <<k, plan.items[k]>>])
        BY <3>3
      <4> QED BY <4>1 DEF Present
    <3>5. \A k \in DOMAIN plan.jobs : k \in DOMAIN tables["jobs"] /\ tables["jobs"][k] = plan.jobs[k]
      <4> TAKE k \in DOMAIN plan.jobs
      <4>1. Present(tables, [kind |-> "job", row |-> <<k, plan.jobs[k]>>])
        BY <3>3
      <4> QED BY <4>1 DEF Present
    <3>6. /\ plan.vehicles \subseteq DOMAIN tables["vehicles"]
          /\ plan.entities \subseteq DOMAIN tables["entities"] \/ imports[i].uninstalled
      BY <3>3, <3>10 DEF Present
    <3>7. {c.id : c \in plan.characters} \subseteq DOMAIN tables["characters"]
      <4>1. ASSUME NEW c \in plan.characters
            PROVE  c.id \in DOMAIN tables["characters"]
        <5>1. Present(tables, [kind |-> "character", row |-> c])
          BY <3>3
        <5> QED BY <5>1 DEF Present
      <4> QED BY <4>1
    <3>8. \A a \in plan.accounts : tables["accounts"][<<a.owner, a.currency>>] = a
      <4>1. ASSUME NEW a \in plan.accounts
            PROVE  tables["accounts"][<<a.owner, a.currency>>] = a
        <5>1. Present(tables, [kind |-> "account", row |-> a])
          BY <3>3
        <5> QED BY <5>1 DEF Present
      <4> QED BY <4>1, Zenon
    <3>9. {a.id : a \in plan.assignments} \subseteq DOMAIN tables["characterJobs"]
      <4>1. ASSUME NEW a \in plan.assignments
            PROVE  a.id \in DOMAIN tables["characterJobs"]
        <5>1. Present(tables, [kind |-> "assignment", row |-> a])
          BY <3>3
        <5> QED BY <5>1 DEF Present
      <4> QED BY <4>1
    <3> QED BY <3>4, <3>5, <3>6, <3>7, <3>8, <3>9 DEF plan
  <2>3. DoneImportsAreWhole
    BY <2>2 DEF DoneImportsAreWhole
  <2> QED BY <2>1, <2>3 DEF ImportsAreWhole
<1> QED BY <1>1, TablesInvariant, PTL

-----------------------------------------------------------------------------
(***************************************************************************)
(* GameplayRegistry.  What an owner carries of an item is a sum over its   *)
(* stacks: a grant adds to it whether a stack grows or a new one begins.   *)
(***************************************************************************)
StackOf(keys) == [item : keys, quantity : Int]

Amounts(inventory, item) ==
    [n \in DOMAIN inventory |-> IF inventory[n].item = item THEN inventory[n].quantity ELSE 0]

LEMMA AmountsFacts ==
    ASSUME NEW keys, NEW inventory \in Seq(StackOf(keys)), NEW item
    PROVE  /\ IsFiniteSet(DOMAIN inventory)
           /\ \A n \in DOMAIN inventory : Amounts(inventory, item)[n] \in Int
           /\ Carried(inventory, item) = SumFunctionOnSet(Amounts(inventory, item), DOMAIN inventory)
           /\ Carried(inventory, item) \in Int
<1>1. DOMAIN inventory = 1..Len(inventory) /\ Len(inventory) \in Nat
  OBVIOUS
<1>2. IsFiniteSet(DOMAIN inventory)
  BY <1>1, FS_Interval
<1>3. \A n \in DOMAIN inventory : Amounts(inventory, item)[n] \in Int
  <2> TAKE n \in DOMAIN inventory
  <2>1. inventory[n] \in StackOf(keys)
    OBVIOUS
  <2>2. inventory[n].quantity \in Int
    BY <2>1 DEF StackOf
  <2> QED BY <2>2 DEF Amounts
<1>4. Carried(inventory, item) = SumFunctionOnSet(Amounts(inventory, item), DOMAIN inventory)
  BY DEF Carried, Amounts
<1>5. Carried(inventory, item) \in Int
  <2> DEFINE f == Amounts(inventory, item)
             S == DOMAIN inventory
  <2>1. IsFiniteSet(S) /\ \A n \in S : f[n] \in Int
    BY <1>2, <1>3
  <2> HIDE DEF f, S
  <2>2. SumFunctionOnSet(f, S) \in Int
    BY <2>1, SumType
  <2> QED BY <2>2, <1>4 DEF f, S
<1> QED BY <1>2, <1>3, <1>4, <1>5

LEMMA NothingCarried == \A item : Carried(<<>>, item) = 0
<1> TAKE item
<1>1. DOMAIN <<>> = {}
  OBVIOUS
<1> DEFINE f == [n \in DOMAIN <<>> |-> IF <<>>[n].item = item THEN <<>>[n].quantity ELSE 0]
<1>2. Carried(<<>>, item) = SumFunctionOnSet(f, {})
  BY <1>1 DEF Carried
<1> HIDE DEF f
<1> QED BY <1>2, SumOfNone

(* A new stack.                                                            *)
LEMMA NewStack ==
    ASSUME NEW keys, NEW inventory \in Seq(StackOf(keys)), NEW item \in keys, NEW quantity \in Int
    PROVE  LET next == Append(inventory, [item |-> item, quantity |-> quantity]) IN
           /\ next \in Seq(StackOf(keys))
           /\ \A other : Carried(next, other) = Carried(inventory, other) + (IF item = other THEN quantity ELSE 0)
<1> DEFINE stack == [item |-> item, quantity |-> quantity]
           next == Append(inventory, stack)
           S == DOMAIN inventory
           last == Len(inventory) + 1
<1>1. stack \in StackOf(keys)
  BY DEF StackOf
<1>2. next \in Seq(StackOf(keys))
  <2> HIDE DEF stack
  <2> QED BY <1>1
<1>3. /\ DOMAIN next = S \cup {last} /\ last \notin S
      /\ \A n \in S : next[n] = inventory[n]
      /\ next[last] = stack
  <2> HIDE DEF stack
  <2> QED BY <1>1
<1>4. ASSUME NEW other
      PROVE  Carried(next, other) = Carried(inventory, other) + (IF item = other THEN quantity ELSE 0)
  <2> DEFINE f == Amounts(next, other)
             g == Amounts(inventory, other)
  <2>1. /\ IsFiniteSet(S) /\ \A n \in S : g[n] \in Int
        /\ Carried(inventory, other) = SumFunctionOnSet(g, S)
    BY AmountsFacts
  <2>2. /\ \A n \in DOMAIN next : f[n] \in Int
        /\ Carried(next, other) = SumFunctionOnSet(f, DOMAIN next)
    <3> HIDE DEF next
    <3> QED BY <1>2, AmountsFacts
  <2>3. f[last] = IF item = other THEN quantity ELSE 0
    <3>1. f[last] = IF next[last].item = other THEN next[last].quantity ELSE 0
      BY <1>3 DEF Amounts
    <3> QED BY <3>1, <1>3
  <2>4. \A n \in S : f[n] = g[n]
    BY <1>3 DEF Amounts
  <2> HIDE DEF f, g, S, next, last, stack
  <2>5. SumFunctionOnSet(f, S \cup {last}) = SumFunctionOnSet(f, S) + f[last]
    BY <2>1, <2>2, <1>3, SumAdds
  <2>6. SumFunctionOnSet(f, S) = SumFunctionOnSet(g, S)
    BY <2>1, <2>4, SumCongruence
  <2> QED BY <2>1, <2>2, <2>3, <2>5, <2>6, <1>3
<1> QED BY <1>2, <1>4

(* A stack that grows.                                                     *)
Grown(inventory, at, quantity) == [inventory EXCEPT ![at].quantity = @ + quantity]

LEMMA GrownStack ==
    ASSUME NEW keys, NEW inventory \in Seq(StackOf(keys)), NEW item, NEW quantity \in Int,
           NEW at \in DOMAIN inventory, inventory[at].item = item
    PROVE  LET next == Grown(inventory, at, quantity) IN
           /\ next \in Seq(StackOf(keys))
           /\ \A other : Carried(next, other) = Carried(inventory, other) + (IF item = other THEN quantity ELSE 0)
<1> DEFINE next == Grown(inventory, at, quantity)
           S == DOMAIN inventory
<1>1. inventory[at] \in StackOf(keys)
  OBVIOUS
<1>2. inventory[at] = [item |-> item, quantity |-> inventory[at].quantity] /\ inventory[at].quantity \in Int
      /\ item \in keys
  BY <1>1 DEF StackOf
<1>3. /\ DOMAIN next = S
      /\ \A n \in S : n # at => next[n] = inventory[n]
      /\ next[at] = [item |-> item, quantity |-> inventory[at].quantity + quantity]
  BY <1>2 DEF Grown
<1>4. next \in Seq(StackOf(keys))
  <2>1. next[at] \in StackOf(keys)
    BY <1>2, <1>3 DEF StackOf
  <2>2. \A n \in S : next[n] \in StackOf(keys)
    BY <1>3, <2>1
  <2>3. S = 1..Len(inventory) /\ Len(inventory) \in Nat
    OBVIOUS
  <2>4. next = [n \in 1..Len(inventory) |-> next[n]]
    BY <2>3, <1>3 DEF Grown
  <2> HIDE DEF next
  <2>5. next \in [1..Len(inventory) -> StackOf(keys)]
    BY <2>2, <2>3, <2>4
  <2> QED BY <2>3, <2>5
<1>5. ASSUME NEW other
      PROVE  Carried(next, other) = Carried(inventory, other) + (IF item = other THEN quantity ELSE 0)
  <2> DEFINE f == Amounts(next, other)
             g == Amounts(inventory, other)
  <2>1. /\ IsFiniteSet(S) /\ \A n \in S : g[n] \in Int
        /\ Carried(inventory, other) = SumFunctionOnSet(g, S)
    BY AmountsFacts
  <2>2. /\ \A n \in DOMAIN next : f[n] \in Int
        /\ Carried(next, other) = SumFunctionOnSet(f, DOMAIN next)
    <3> HIDE DEF next
    <3> QED BY <1>4, AmountsFacts
  <2>3. f[at] = g[at] + (IF item = other THEN quantity ELSE 0)
    <3>1. f[at] = IF next[at].item = other THEN next[at].quantity ELSE 0
      BY <1>3 DEF Amounts
    <3>2. g[at] = IF item = other THEN inventory[at].quantity ELSE 0
      BY DEF Amounts
    <3> QED BY <3>1, <3>2, <1>2, <1>3
  <2>4. \A n \in S \ {at} : f[n] = g[n]
    BY <1>3 DEF Amounts
  <2> HIDE DEF f, g, S, next
  <2>5. \A n \in S : f[n] \in Int
    BY <2>2, <1>3
  <2>6. /\ SumFunctionOnSet(f, S) = f[at] + SumFunctionOnSet(f, S \ {at})
        /\ SumFunctionOnSet(g, S) = g[at] + SumFunctionOnSet(g, S \ {at})
    <3>1. at \in S
      BY DEF S
    <3> QED BY <2>1, <2>5, <3>1, SumTakesOut
  <2>7. IsFiniteSet(S \ {at})
    BY <2>1, FS_Subset
  <2>8. SumFunctionOnSet(f, S \ {at}) = SumFunctionOnSet(g, S \ {at})
    BY <2>4, <2>7, SumCongruence
  <2>9. SumFunctionOnSet(g, S \ {at}) \in Int /\ g[at] \in Int
    <3>1. \A n \in S \ {at} : g[n] \in Int
      BY <2>1
    <3>2. SumFunctionOnSet(g, S \ {at}) \in Int
      BY <2>7, <3>1, SumType
    <3>3. at \in S
      BY DEF S
    <3> QED BY <3>2, <3>3, <2>1
  <2>10. Carried(next, other) = SumFunctionOnSet(f, S)
    BY <2>2, <1>3
  <2> QED BY <2>1, <2>3, <2>6, <2>8, <2>9, <2>10
<1> QED BY <1>4, <1>5

(* The search finds a stack of the item, or none.                          *)
LEMMA FirstStack ==
    ASSUME NEW keys, NEW inventory \in Seq(StackOf(keys)), NEW item
    PROVE  LET first == SelectInSeq(inventory, LAMBDA stack : stack.item = item) IN
           first # 0 => first \in DOMAIN inventory /\ inventory[first].item = item
<1> DEFINE I == {n \in 1..Len(inventory) : inventory[n].item = item}
           first == SelectInSeq(inventory, LAMBDA stack : stack.item = item)
<1>1. first = IF I # {} THEN CHOOSE m \in I : \A n \in I : m <= n ELSE 0
  BY DEF SelectInSeq, Min
<1>2. I # {} => \E m \in I : \A n \in I : m <= n
  <2>1. I \subseteq Nat
    OBVIOUS
  <2> HIDE DEF I
  <2> QED BY <2>1, LeastElement
<1>3. first # 0 => first \in I
  <2> HIDE DEF I, first
  <2> QED BY <1>1, <1>2
<1> HIDE DEF first
<1> QED BY <1>3 DEF first

(* What every owner carries of every item is what was granted of it, and   *)
(* the stacks are of registered items.                                     *)
RegistryInv ==
    /\ registry = [items |-> registry.items, jobs |-> registry.jobs,
                   inventory |-> registry.inventory, characterJobs |-> registry.characterJobs]
    /\ \A owner : InventoryOf(owner) \in Seq(StackOf(DOMAIN registry.items))
    /\ \A key \in DOMAIN given : key = <<key[1], key[2]>>
    /\ \A owner, item : Carried(InventoryOf(owner), item) = Given(owner, item)

LEMMA MoreKeys ==
    ASSUME NEW keys, NEW more, keys \subseteq more, NEW inventory \in Seq(StackOf(keys))
    PROVE  inventory \in Seq(StackOf(more))
<1>1. \A n \in 1..Len(inventory) : inventory[n] \in StackOf(keys)
  OBVIOUS
<1>2. StackOf(keys) \subseteq StackOf(more)
  BY DEF StackOf
<1>3. Len(inventory) \in Nat /\ inventory = [n \in 1..Len(inventory) |-> inventory[n]]
  OBVIOUS
<1> QED BY <1>1, <1>2, <1>3

(* A grant, whichever stack it goes to.                                    *)
LEMMA GrantStep ==
    ASSUME RegistryInv, NEW owner, NEW item, NEW quantity \in Int, grantItem(owner, item, quantity)
    PROVE  RegistryInv'
<1> DEFINE keys == DOMAIN registry.items
           inventory == InventoryOf(owner)
           first == SelectInSeq(inventory, LAMBDA stack : stack.item = item)
           grows == first # 0 /\ registry.items[item].stackable
           grown == Grown(inventory, first, quantity)
           longer == Append(inventory, [item |-> item, quantity |-> quantity])
           next == IF grows THEN grown ELSE longer
<1>1. /\ item \in keys
      /\ registry' = [registry EXCEPT !.inventory = Stored(@, owner, next)]
      /\ given' = Stored(given, <<owner, item>>, Given(owner, item) + quantity)
  BY DEF grantItem, RegistryCall, Grown
<1>2. inventory \in Seq(StackOf(keys))
  BY DEF RegistryInv
<1>3. /\ next \in Seq(StackOf(keys))
      /\ \A other : Carried(next, other) = Carried(inventory, other) + (IF item = other THEN quantity ELSE 0)
  <2>1. CASE grows
    <3>1. first \in DOMAIN inventory /\ inventory[first].item = item
      <4> HIDE DEF keys, inventory
      <4> QED BY <2>1, <1>2, FirstStack
    <3> HIDE DEF keys, inventory, first
    <3>2. /\ grown \in Seq(StackOf(keys))
          /\ \A other : Carried(grown, other) = Carried(inventory, other) + (IF item = other THEN quantity ELSE 0)
      BY <1>2, <3>1, GrownStack
    <3>3. next = grown
      BY <2>1
    <3> HIDE DEF next, grown
    <3> QED BY <3>2, <3>3
  <2>2. CASE ~grows
    <3> HIDE DEF keys, inventory
    <3>1. /\ longer \in Seq(StackOf(keys))
          /\ \A other : Carried(longer, other) = Carried(inventory, other) + (IF item = other THEN quantity ELSE 0)
      BY <1>1, <1>2, NewStack
    <3>2. next = longer
      BY <2>2
    <3> HIDE DEF next, longer
    <3> QED BY <3>1, <3>2
  <2> HIDE DEF grows, next
  <2> QED BY <2>1, <2>2
<1> HIDE DEF keys, first, grows, grown, longer, next
<1>4. /\ registry'.items = registry.items
      /\ registry'.inventory = Stored(registry.inventory, owner, next)
      /\ registry' = [items |-> registry'.items, jobs |-> registry'.jobs,
                      inventory |-> registry'.inventory, characterJobs |-> registry'.characterJobs]
  BY <1>1 DEF RegistryInv
<1>5. \A o : InventoryOf(o)' = IF o = owner THEN next ELSE InventoryOf(o)
  BY <1>4 DEF InventoryOf, Stored
<1>6. \A o, i : Given(o, i)' = Given(o, i) + (IF o = owner /\ i = item THEN quantity ELSE 0)
  <2> TAKE o, i
  <2>1. Given(o, i) \in Int
    <3>1. InventoryOf(o) \in Seq(StackOf(keys))
      BY DEF RegistryInv, keys
    <3>2. Carried(InventoryOf(o), i) \in Int
      BY <3>1, AmountsFacts
    <3> QED BY <3>2 DEF RegistryInv
  <2>2. Given(o, i)' = IF <<o, i>> = <<owner, item>> THEN Given(owner, item) + quantity ELSE Given(o, i)
    <3>1. DOMAIN given' = DOMAIN given \cup {<<owner, item>>}
      BY <1>1 DEF Stored
    <3>2. \A k \in DOMAIN given' : given'[k] = IF k = <<owner, item>> THEN Given(owner, item) + quantity ELSE given[k]
      BY <1>1 DEF Stored
    <3> QED BY <3>1, <3>2, Zenon DEF Given
  <2> QED BY <2>1, <2>2
<1>7. \A o : InventoryOf(o)' \in Seq(StackOf(DOMAIN registry'.items))
  BY <1>3, <1>4, <1>5 DEF RegistryInv, keys
<1>8. \A k \in DOMAIN given' : k = <<k[1], k[2]>>
  BY <1>1 DEF RegistryInv, Stored
<1>9. \A o, i : Carried(InventoryOf(o)', i) = Given(o, i)'
  <2> TAKE o, i
  <2>1. Carried(InventoryOf(o), i) = Given(o, i)
    BY DEF RegistryInv
  <2>2. InventoryOf(o) \in Seq(StackOf(keys))
    BY DEF RegistryInv, keys
  <2>3. Carried(InventoryOf(o), i) \in Int
    BY <2>2, AmountsFacts
  <2>4. CASE o = owner
    <3>1. InventoryOf(o)' = next
      BY <1>5, <2>4
    <3>2. Carried(next, i) = Carried(InventoryOf(o), i) + (IF item = i THEN quantity ELSE 0)
      BY <1>3, <2>4
    <3>3. Given(o, i)' = Given(o, i) + (IF i = item THEN quantity ELSE 0)
      BY <1>6, <2>4
    <3> QED BY <2>1, <3>1, <3>2, <3>3
  <2>5. CASE o # owner
    <3>1. InventoryOf(o)' = InventoryOf(o)
      BY <1>5, <2>5
    <3>2. Given(o, i)' = Given(o, i) + 0
      BY <1>6, <2>5
    <3> QED BY <2>1, <2>3, <3>1, <3>2
  <2> QED BY <2>4, <2>5
<1> QED BY <1>4, <1>7, <1>8, <1>9 DEF RegistryInv

LEMMA RegistryStep ==
    ASSUME RegistryInv, [GameplayNext \/ RegistryNext]_gameplayVars
    PROVE  RegistryInv'
<1>1. CASE UNCHANGED <<registry, given>>
  BY <1>1 DEF RegistryInv, InventoryOf, Given
<1>2. ASSUME NEW reducer, Call(reducer)
      PROVE  RegistryInv'
  BY <1>2, <1>1 DEF Call
<1>3. ASSUME NEW item \in ItemInputs, NEW job \in JobInputs, registerPluginPrimitives(item, job)
      PROVE  RegistryInv'
  <2>1. /\ registry' = [registry EXCEPT !.items = Stored(@, item.key, item),
                                        !.jobs = Stored(@, job.key, job.grades)]
        /\ UNCHANGED given
    BY <1>3 DEF registerPluginPrimitives, RegistryCall
  <2>2. /\ registry'.inventory = registry.inventory
        /\ DOMAIN registry.items \subseteq DOMAIN registry'.items
        /\ registry' = [items |-> registry'.items, jobs |-> registry'.jobs,
                        inventory |-> registry'.inventory, characterJobs |-> registry'.characterJobs]
    BY <2>1 DEF RegistryInv, Stored
  <2>3. \A o : InventoryOf(o)' = InventoryOf(o)
    BY <2>2 DEF InventoryOf
  <2>4. \A o, i : Given(o, i)' = Given(o, i)
    BY <2>1 DEF Given
  <2>5. \A o : InventoryOf(o)' \in Seq(StackOf(DOMAIN registry'.items))
    <3> TAKE o
    <3>1. InventoryOf(o) \in Seq(StackOf(DOMAIN registry.items))
      BY DEF RegistryInv
    <3>2. InventoryOf(o) \in Seq(StackOf(DOMAIN registry'.items))
      BY <3>1, <2>2, MoreKeys
    <3> QED BY <3>2, <2>3
  <2>6. \A o, i : Carried(InventoryOf(o)', i) = Given(o, i)'
    BY <2>3, <2>4 DEF RegistryInv
  <2> QED BY <2>1, <2>2, <2>5, <2>6 DEF RegistryInv
<1>4. ASSUME NEW owner \in Owners, NEW item \in ItemInputs, NEW quantity \in Quantities,
             grantItem(owner, item.key, quantity)
      PROVE  RegistryInv'
  BY <1>4, GrantStep, GameplayAssumption DEF GameplayAssumption
<1>5. ASSUME NEW owner, NEW job, NEW grade, assignJob(owner, job, grade)
      PROVE  RegistryInv'
  <2>1. registry' = [registry EXCEPT !.characterJobs = Stored(@, owner, [job |-> job, grade |-> grade])]
        /\ UNCHANGED given
    BY <1>5 DEF assignJob, RegistryCall
  <2>2. /\ registry'.inventory = registry.inventory
        /\ registry'.items = registry.items
        /\ registry' = [items |-> registry'.items, jobs |-> registry'.jobs,
                        inventory |-> registry'.inventory, characterJobs |-> registry'.characterJobs]
    BY <2>1 DEF RegistryInv
  <2>3. (\A o : InventoryOf(o)' = InventoryOf(o)) /\ \A o, i : Given(o, i)' = Given(o, i)
    BY <2>1, <2>2 DEF InventoryOf, Given
  <2>4. \A o, i : Carried(InventoryOf(o)', i) = Given(o, i)'
    BY <2>3 DEF RegistryInv
  <2> QED BY <2>1, <2>2, <2>3, <2>4 DEF RegistryInv
<1>6. CASE RegistryNext
  BY <1>6, <1>3, <1>4, <1>5 DEF RegistryNext
<1>7. CASE (\E status \in {"installed", "active"} : SetPluginStatus(status)) \/ uninstall_plugin \/ CharactersHeard
  BY <1>7, <1>1 DEF SetPluginStatus, uninstall_plugin, CharactersHeard
<1>8. CASE \/ \E item \in ItemInputs : item.limit # Missing /\ registerGameplayItem(item)
           \/ \E job \in JobInputs : registerGameplayJob(job)
           \/ registerGameplayVehicle("car") \/ registerGameplayLocation("garage")
  BY <1>8, <1>2 DEF registerGameplayItem, registerGameplayJob, registerGameplayVehicle, registerGameplayLocation
<1>9. CASE \E c \in CharacterInputs : upsertGameplayCharacter(c) \/ selectGameplayCharacter(c.id)
  BY <1>9, <1>2 DEF upsertGameplayCharacter, selectGameplayCharacter
<1>10. CASE \E owner \in Owners, item \in ItemInputs, quantity \in Quantities :
                grantGameplayItem(owner, item.key, quantity) \/ removeGameplayItem(owner, item.key, quantity)
  BY <1>10, <1>2 DEF grantGameplayItem, removeGameplayItem
<1>11. CASE \E c \in CharacterInputs, job \in JobInputs : \E grade \in job.grades :
                assignGameplayJob(c.id, job.key, grade)
  BY <1>11, <1>2 DEF assignGameplayJob
<1>12. CASE \E dump \in Dumps : applyQbCoreMigrationPlan(planQbCoreMigration(dump))
  BY <1>12, <1>1 DEF applyQbCoreMigrationPlan
<1>13. CASE \E i \in DOMAIN imports : WriteAccepted(i) \/ WriteRefused(i) \/ WriteThrows(i) \/ ImportDone(i)
  BY <1>13, <1>1 DEF WriteAccepted, WriteRefused, WriteThrows, ImportDone
<1>14. CASE UNCHANGED gameplayVars
  BY <1>14, <1>1 DEF gameplayVars
<1> QED
  BY <1>6, <1>7, <1>8, <1>9, <1>10, <1>11, <1>12, <1>13, <1>14 DEF GameplayNext

LEMMA RegistryInvariant == GameplaySpec => []RegistryInv
<1>1. GameplayInit => RegistryInv
  <2> SUFFICES ASSUME GameplayInit PROVE RegistryInv
    OBVIOUS
  <2>1. /\ registry = [items |-> <<>>, jobs |-> <<>>, inventory |-> <<>>, characterJobs |-> <<>>]
        /\ given = <<>>
    BY DEF GameplayInit
  <2>2. \A k : k \notin DOMAIN <<>>
    OBVIOUS
  <2>3. (\A o : InventoryOf(o) = <<>>) /\ \A o, i : Given(o, i) = 0
    BY <2>1, <2>2 DEF InventoryOf, Given
  <2>4. \A o : InventoryOf(o) \in Seq(StackOf(DOMAIN registry.items))
    <3>1. \A keys : <<>> \in Seq(keys)
      OBVIOUS
    <3> QED BY <2>3, <3>1
  <2>5. \A o, i : Carried(InventoryOf(o), i) = Given(o, i)
    BY <2>3, NothingCarried
  <2> QED BY <2>1, <2>2, <2>4, <2>5 DEF RegistryInv
<1>2. RegistryInv /\ [GameplayNext \/ RegistryNext]_gameplayVars => RegistryInv'
  BY RegistryStep
<1> QED BY <1>1, <1>2, PTL DEF GameplaySpec

-----------------------------------------------------------------------------
(* The rows of the tables and of the registry fit each other whatever      *)
(* calls, migrations and registrations interleave: a stack is of an owner  *)
(* and a registered item whose id it has and keeps to the limit of one of  *)
(* the items that read so, accounts are not in debt, assignments name a    *)
(* job's grade, and the stacks of an owner add up to what the registry     *)
(* granted (grant_item, create_account, assign_job,                        *)
(* GameplayRegistry.grantItem).                                            *)
THEOREM TablesStaySound == GameplaySpec => []TablesAreSound
<1>1. TablesInv /\ RegistryInv => GameplayTypeOK
  <2> SUFFICES ASSUME TablesInv, RegistryInv PROVE GameplayTypeOK
    OBVIOUS
  <2>1. DOMAIN tables = GameplayTables
    BY DEF TablesInv, Sound
  <2>2. /\ \A s \in DOMAIN tables.stacks :
              LET stack == tables.stacks[s] IN
              /\ stack.quantity > 0 /\ stack.item \in DOMAIN tables.items
              /\ stack.owner \in Owners /\ s = inventory_stack_id(stack.owner, stack.item)
        /\ \A a \in DOMAIN tables.accounts : tables.accounts[a].balance >= 0
    BY DEF TablesInv, Sound, StocksIn, StackIn, Solvent
  <2>3. \A i \in DOMAIN imports : imports[i].outcome \in {"running", "done", "failed"}
    <3> TAKE i \in DOMAIN imports
    <3>1. imports[i] \in Import
      BY DEF TablesInv, ImportsIn
    <3> QED BY <3>1 DEF Import
  <2>4. \A s \in DOMAIN registry.inventory : \A n \in DOMAIN registry.inventory[s] :
            registry.inventory[s][n].item \in DOMAIN registry.items
    <3> TAKE s \in DOMAIN registry.inventory
    <3> TAKE n \in DOMAIN registry.inventory[s]
    <3>1. registry.inventory[s] \in Seq(StackOf(DOMAIN registry.items))
      BY DEF RegistryInv, InventoryOf
    <3>2. registry.inventory[s][n] \in StackOf(DOMAIN registry.items)
      BY <3>1
    <3> QED BY <3>2 DEF StackOf
  <2> QED BY <2>1, <2>2, <2>3, <2>4 DEF GameplayTypeOK
<1>2. TablesInv => StacksWithinLimits
  BY DEF TablesInv, Sound, StocksIn, StackIn, ReadsAs, StacksWithinLimits, Readings
<1>3. RowsIn(tables) => AssignmentsHold
  BY DEF RowsIn, AssignmentsIn, AssignmentsHold
<1>4. RegistryInv => RegistryAddsUp
  <2> SUFFICES ASSUME RegistryInv, NEW key \in DOMAIN given
               PROVE  Carried(InventoryOf(key[1]), key[2]) = given[key]
    BY DEF RegistryAddsUp
  <2>1. key = <<key[1], key[2]>>
    BY DEF RegistryInv
  <2>2. Carried(InventoryOf(key[1]), key[2]) = Given(key[1], key[2])
    BY DEF RegistryInv
  <2> QED BY <2>1, <2>2 DEF Given
<1> QED BY <1>1, <1>2, <1>3, <1>4, TablesInvariant, RowsInvariant, RegistryInvariant, PTL DEF TablesAreSound
=============================================================================
