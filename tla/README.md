# Verification of spbox

spbox runs FiveM game servers on top of a SpacetimeDB database. This directory
holds TLA+ models of its core, the TLC runs that check them on small
instances, and proofs, checked by TLAPS, of the properties that matter most for
every instance. It is written beside the code: every definition that models
code is listed in `PROJECT.json` (`map`) with the lines it stands for.

Contents: [inventory](#1-inventory-of-the-system), [models](#2-what-is-modelled),
[runs](#3-the-runs), [fairness](#4-fairness), [proofs](#5-proofs),
[where code and docs differ](#6-where-code-and-documentation-differ),
[limits](#7-what-is-left-out), [plan](#8-plan).

## 1. Inventory of the system

A SpacetimeDB module (`spacetimedb/src`, Rust) holds the truth: reducers are
atomic transactions over tables. An admin program (`src/`, TypeScript, one
thread) serves the admin panel over HTTP, keeps some state of its own in memory
(plugin registry, deployment manager, permission store, dispatch queues,
sidecars), calls reducers, and reads the tables through a subscription cache. A
sync loop in the same process talks to the game server, whose Lua resource
(`resources/[runtime]/sdb_runtime`) keeps queues of changes made in the game
and executes the events it is sent.

```
 game server (Lua) <--HTTP--> sync loop -> admin service <--> HTTP API <-- admin panel
   FXServer's ACL               |             |   |
                    sidecar supervisor        |   +-- deployment manager, registries (memory)
                      |  driver (external)    +-- write queue --> reducers --> tables
                      v                                             |
                  sandboxes        subscription cache  <------------+
```

| Component | State | Operations | What is hard | What makes it correct |
|---|---|---|---|---|
| Economy reducers `economy.rs` | accounts, transactions, ledger entries, invoices, limits, audit rows | 13 reducers: open account, limits, 7 transfers, 3 single-account postings, invoices, void | retries under an idempotency key without a unique index; voids of spent money; two rows updated in turn; ids shared by two kinds of audit row | money moves only with entries, keys post once, nothing overdrawn, nothing voided or paid twice, history never edited |
| Economy service `core/economy.ts`, `plugin-economy-api.ts` | the same ledger in memory, the capabilities of plugins | the same operations, statements, a report of suspicious moves | retried keys over several methods; statements computed backwards; capability and duty roster change between calls | implements an account book; statements are history; a plugin stays within its capability |
| Deployment manager `plugin-deployment.ts` | bundles, revoked signers, per-key history of deployments, bytes of pending requests | register, deploy, request, approve, download, rollback, fail, kill, revoke signer, revoke bundle | a revocation during a download; restores that verify nothing; four ways to become active | at most one active bundle per plugin and server, only verified and unrevoked ones, failover works, history final |
| Sidecar supervisor `plugin-sidecar.ts`, sync loop `fivem-runtime-loop.ts` | sandboxes, index by deployment, the pass under way | start, stop, reconcile, stale detection, one pass at a time | decides on what it read before its awaits; one failing start or stop ends a pass | one sandbox per deployment, only verified, none stopped while wanted, retired ones stopped in the end |
| Plugin registry and data `plugins.ts`, `plugin-data.ts`, `resource-auto-import.ts` | plugins, manifests, packages, revoked signers, schemas, entities | install, enable, disable with a cascade, uninstall, revoke, import from server.cfg | cascades over ids, resources and capabilities; import order; replaced manifests and packages | an active plugin has what it requires; no revoked signer's package is active; a repeated import enables whatever it can |
| Gameplay `gameplay.rs`, `core/gameplay.ts`, `qbcore-migration.ts` | items, jobs, vehicles, locations, characters, stacks, assignments | register, upsert and select characters, grant, remove, assign, migrate a QBCore server | a migration that stops in the middle, or two at once; a stale cache written back; limits of stacks | stacks within limits; one selected character; a finished migration is whole, an unfinished one leaves no ownerless money |
| Admin service `admin/service.ts`, adapter `spacetime/adapter.ts`, plugin reducers `plugins.rs`, `hooks.rs`, `menus.rs` | registries, a chain of queued writes, ids already mirrored; the tables; the cache | change memory and queue writes; take or refuse them; tell the cache | one refused write ends the chain; order of dependent writes; nothing in memory survives a restart; calls past the queue | tables agree with memory; a revoked or disabled plugin is off; the cache settles |
| Permissions and ACE mirror `permissions.ts`, `permission-store.ts`, `ace.ts`; Discord `discord.ts` | edges, grants, policies, mirror rules; what FXServer was told | edit, resolve, evaluate, synchronise roles, mirror | cycles, expiry, deny over allow; roles taken away; lost answers to an emission | resolution is the closure of the live edges; nothing is allowed without a grant; FXServer ends with the live lines |
| Runtime bridge and control plane `runtime/bridge.ts`, `core/runtime.ts`, `actions.ts`, `menu.ts`, `commands.ts` | calls under way, action envelopes by id and key, nonces, audit log, configuration versions | call an action or command, submit, complete, set and acknowledge configuration, heartbeat | calls interleave at every await; envelopes completed from outside; stale acknowledgements; replayed nonces | every action ends and is audited once; an acknowledged version was current; a nonce counts once |
| Hook and action brokers `plugin-sidecar-hooks.ts`, `plugin-action-broker.ts` | hooks, the dispatch under way, audit | dispatch to sandboxes, check and run the actions they answer | the answer arrives after its deployment was superseded or killed | each action is checked on its own when it is its turn, and after a withdrawal at most the one checked before is still submitted; each hook audited once |
| Connector and queues `connectors/fivem-runtime.ts`, `main.lua`, `admin-dispatchers.ts` | what was last applied per channel, dispatch queues, the game's update queues | one pass over 20 channels: mirror, flush, drain | drained before emitted or stored; a step that throws skips the rest; lost answers; restarts of either side | dispatches in order and not twice; updates stored once, in order; every channel settles |
| HTTP API, panel, compatibility Lua, scripts | | routing, rendering, text | | section 7 |

`PROJECT.json` lists every component with its status, and the hazards of the
code with the lines where they bite.

## 2. What is modelled

| Module | Models | State and actions |
|---|---|---|
| `EconomyReducers` | `economy.rs` | one variable per table (a function over its primary keys); one action per reducer; `ChangePermissions` lets grants change at any step |
| `AccountBook` | nothing in the code: the promise of an economy | balances that move only with a posting under a fresh key |
| `EconomyLedger` | `core/economy.ts`, `plugin-economy-api.ts` | one variable per map of the ledger; one action per method, and per gated method of the plugin API. Implements `AccountBook` (`BookSpec`) |
| `PluginDeployment` | `plugin-deployment.ts` | one variable per field of the manager; one action per method, two for a method that awaits a download (`StartFetch`, then `deployFromArtifact` / `requestDeploymentFromArtifact` or `ArtifactRefused`) |
| `PluginSlots` | nothing in the code: the promise of the manager | a slot per plugin and server that runs at most one trusted bundle. `PluginDeployment` implements it through the mapping `Running`, `Standing` (`SlotsSpec`) |
| `PluginSidecars` | `plugin-sidecar.ts`, the loop, the report of stale sandboxes | extends `PluginDeployment`: the manager's steps interleave with the supervisor's. A pass is split at every await of the driver |
| `PluginRegistry` | `plugins.ts`, `plugin-data.ts`, the import of resources | one variable per map; one action per method, `disableDependents` as a fixed point; the import split in its two halves (`ImportInstalls`, `ImportEnables`), between which other calls run |
| `Gameplay` | `gameplay.rs`, the gameplay calls of the service, `qbcore-migration.ts`, `core/gameplay.ts` | a reducer is a pair of condition and tables after it, so that calls and migrations share it; a migration is its plan and the writes it has left; `GameplayRegistry` has state of its own |
| `AdminMirror` | `admin/service.ts`, `adapter.ts`, `plugins.rs`, `hooks.rs`, `menus.rs` | memory, the write queue with numbered writes, the tables, the transactions the cache has not heard of, the cache; `enqueueWrite` sends the next write, `Restart` forgets everything but the tables |
| `PermissionAccess` | `permission-store.ts`, `permissions.ts`, `discord.ts`, `ace.ts` and the connector's ACE step | the store's maps with expiry, a clock, what the connector remembers, FXServer's list, the emission in flight |
| `RuntimeActions` | `bridge.ts`, `runtime.ts`, `actions.ts`, `hooks.ts`, `menu.ts`, `commands.ts`, the brokers | calls at their stage, the bus with its two indexes, audits, versions, nonces, deployments and sandboxes of plugins, one dispatch of a hook at a time |
| `RuntimeSync` | `fivem-runtime.ts` (18 of the steps of `syncAll`), the queues and QBCore handlers of `service.ts`, the queues of `main.lua` | per channel what the service has, what the connector remembers and what the game was told; queues, updates, one character in game, database and cache; the pass at its step |
| `MC...` | instances | constants for TLC. `MCRuntime` and `MCPluginRegistry` put components that share no state side by side: a behaviour picks one group and leaves the others as they start, so nothing of their interplay is lost |
| `...Proofs`, `DataTheorems` | proofs | section 5 |

Conventions.

* **A reducer is a transaction.** It runs to its end or returns an error and
  changes nothing, so an action is a successful call. A rejected call and a
  repeat of a processed one are stuttering steps. A second insert under a
  primary key aborts the transaction; `Insert` has that as a guard, which is
  how the ids shared by transactions and invoices matter.
* **JavaScript is interrupted only at awaits.** A synchronous method is one
  action, an asynchronous one is an action per stretch between awaits, with
  what its locals remember kept in a variable (`fetching`, `pass`, `calls`,
  `run`, `emission`, `imports`).
* **Ids.** Deployments are pushed in the step that makes their fresh id, so an
  id is a position in push order. Sandboxes, transactions, calls and envelopes
  likewise.
* **Keys.** `deploymentKey` joins plugin and server with a colon,
  `inventory_stack_id` owner and item. Such ids are sequences of segments so that
  the join is modelled as concatenation, without assuming that it is one-to-one:
  whatever holds for every id is proved that way.
* **Cryptography.** A bundle is `signed` or not, its hash is the content it is
  the hash of. Bytes and hashes are compared, never computed.
* **The driver** of the sandboxes is not part of the repository: a start or
  stop succeeds or throws. Heartbeats only move a timestamp, so a running
  sandbox may be found stale at any time.
* **Channels of a pass.** What a snapshot holds is reduced to a value per key
  (0 for absent), a dispatch to its server, target and detail. The three kinds of
  step (mirror, queue, drain) are operators that each channel instantiates with
  its own keys and its own way to emit (`Together` or `Apart`, remembered at once
  or at the end).
* **Faults of a pass.** A read fails; an emission throws, executed or not; the
  answer to a drain is lost; a write throws and is not stored; FXServer restarts
  with nothing; the service, and with it the connector
  (`admin/bootstrap.ts:94`), restarts. Where a fault is allowed to make memory
  and server differ, a history variable (`inDoubt`, `inDoubtOf`, `excuses`) says
  so until the code makes up for it.
* **Left out of all modules:** blank-string checks, messages, timestamps other
  than a due date and an expiry, metadata that nothing reads.

Mutated operators (`transaction_exists_Never` and the like) stand before the
operator they are a mutation of; each names a plausible bug, and `PROJECT.json`
says which property notices it.

## 3. The runs

Run one with `tlc -workers 2 -config X.cfg M`.

| Run | Question | Bounds and why they suffice |
|---|---|---|
| `economy_transfers` (`MCEconomyReducers`) | Are keys single-use and retries answered alike, entries mirrored, invoices paid by one posting, balances equal to opening balance plus entries, under transfers, adjustments, invoices, voids and voids of voids? | 2 accounts, 2 currencies, 3 transactions whose ids invoices share, amounts 0..2: the smallest in which a void is voided, a posting is spent before its void, and a key is retried with another payload. Symmetric ids and keys |
| `economy_every_reducer` | Do limits bind every posting of all thirteen reducers while limits and permissions change? | 2 transactions, 2 limits of four kinds (amount, owners, both, disabled), 2 owner types, permissions granted or not |
| `economy_self_transfer` | section 6 | the smallest instance that shows it |
| `economy_service` (`MCEconomyLedger`) | Does the TypeScript ledger implement the account book, whatever is retried; are statements history, audits chained, large moves reported, plugins held to their capability of the moment? | 2 accounts, 1 actor, 2 moves and any number of voids of them, 1 invoice, 3 keys, a capability that binds in every way and one that binds in none, 1 tick of the clock: a boundary of a statement's range falls on, before and after an entry |
| `plugin_deployments` (`MCPluginDeployment`) | One active record, bytes for every request, failover, nothing untrusted active or pending, and is it all an implementation of `PluginSlots`? | 2 plugins, 2 bundles of 2 signers, 3 records, 1 download under way with right or wrong bytes; a restore after a restore needs three records |
| `sidecar_reconcile` (`MCPluginSidecars`) | Never two sandboxes of a deployment, none unverified, none stopped while wanted; in the end every active deployment has one and every retired one is stopped? | 2 deployments of one slot, so that one is superseded while a pass starts or stops the other; 1 sandbox found stale; the driver may throw at every call |
| `sidecar_kill` | section 6 | two plugins, one with a bundle that is not of a sidecar runtime type |
| `plugin_registry` (`MCPluginRegistry`) | Do cascades, revocations, replacements and imports leave only plugins on that may be? Beside it: stacks, selection, assignments and migrations of `Gameplay`, and the registry in process | three plugins related in all three ways, one provider replaceable by another; two migrations at once over a shared character with other money and another job, whose plugin may be uninstalled under them, 2 calls of others, writes that are refused or throw at any place; two owners and two items of which two pairs have one stack id; 3 calls of the registry |
| `admin_mirror` (`MCAdminMirror`) | Do the tables follow the memory, the cache the tables, and stays off what must be off, with refused writes, a lagging cache, a second server that writes to the same tables and a restart? | one plugin with package, bundle, capability and menu; 4 queued writes per life, 3 deployments, 2 lives; of the other server configuration values and the audit entry of an installation, whose id is the one this server makes; starts empty, and once more with the plugin in use and the other server's value set. One million states |
| `admin_hooks` | section 6 | a plugin with a hook |
| `runtime` (`MCRuntime`) | Permissions decide from the closure and reach FXServer; calls, envelopes, hooks and heartbeats end and are audited once; every channel of a pass settles, in order and without repeats, with the faults above | 3 edits of the store, a cycle of two principals, two mirror rules of one permission, a clock of 2; 2 calls at once, 2 hooks of one plugin whose deployment is replaced; every channel alone and the pairs whose steps bear on each other, 2 faults, 3 pieces of work |
| `money_keys` | section 6 | no faults, so that only the keys can be to blame |

`CHECK_DEADLOCK FALSE` is stated everywhere: at the bounds no call succeeds any
more, and a program nobody calls may rest. What would be a deadlock of the
code, a supervisor, a call or a pass that makes no progress, is the subject of
the liveness properties.

Every property has a mutant in `PROJECT.json` that TLC must catch under the
run's own configuration. A property whose parts only make sense together is a
conjunction of named parts, each with its comment: `LedgerIsSound`,
`DeploymentsAreSound`, `SandboxesAreSound`, `RecordsTellHistory`,
`ActivePluginsMayRun`, `ImportsAreWhole`, `TablesAreSound`, `QueueIsSound`,
`DisabledAreOut`, `AccessIsJustified`, `CallsAreRecorded`, `OnceInOrder`. Most
include the type invariant of their module.

## 4. Fairness

**`PluginSidecars`**, under `Fairness`:

* weak fairness of the pass's own steps: the interval of the sync loop fires
  for ever (`setInterval`) and an asynchronous function that awaits nothing
  goes on;
* strong fairness of a successful start of each deployment and a successful
  stop of each sandbox. It is an assumption about the external driver: asked
  again and again, it succeeds some time. It does not say that a given call
  succeeds, and `DriverThrew` may happen at any of them. It includes that every
  driver call settles: the code has no timeout on start and stop, so a call
  that never settles would block the single-flight loop for ever.

The stages of the sync loop before the reconciliation are assumed not to fail
for ever there: one that throws ends the whole pass, as the loop has no
isolation between its stages. No fairness is assumed of the manager: nobody has
to deploy, approve or kill anything. Nothing calls `failStaleInstances` or
`failPluginSidecarDeployments` inside the repository, so the embedding program
may never do so and no fairness is assumed of them either.

**`PermissionAccess`**: weak fairness of the ACE step and of the end of its
emission. **`RuntimeSync`**: weak fairness of starting a pass, of its reads and
of its writes: `FiveMRuntimeSyncLoop` runs one pass after another, and a call
is answered or throws. Faults are bounded, never fair; administrators and the
game owe nothing.

**`RuntimeActions`**: weak fairness of every step of a call and of the dispatch:
a handler or hook returns or throws. For sandboxes the code sees to that with a
time limit; for handlers and in-process hooks it sets none, so this is an
assumption about them.


## 5. Proofs

All proofs are for every value of the constants under the named assumptions in
the modules; the bounds of the runs do not enter them. The inductive
invariants were checked by TLC on the runs' instances before they were proved.

**`DataTheorems`** holds what the other proofs need of data and the library
does not give. The library's induction theorems take the predicate as an
operator parameter, which the provers cannot instantiate. Here the predicate is
a set: a set of numbers with a member has a least one (`LeastElement`), so a set
that has 0 and is closed under the successor has every number
(`SetOfNaturals`); likewise for families of subsets of a finite set
(`FamilyOfSubsets`). From these: a recursion along `0 .. N`
has a solution and it stays in the set its steps stay in (`RecursionFromZero`,
`RecursiveFunction`); `SumFunctionOnSet` does not depend on the order in which
it takes the elements out (`SumTakesOut`), with the usual laws of sums; a step
that only takes elements out of a finite set has settled after as many rounds
as it has elements (`ShrinkingSettles`); the recursion from the last
transaction down that says which transactions stand has a solution
(`UnstruckExists`); a finite set is the range of a sequence (`SequenceOfSet`).

**`EconomyReducersProofs`.** `IInv` is the conjunction of the invariants and
`PositiveEntries` (entries are positive). The invariants need each other: a void
is safe because what it reverses was posted exactly as its transaction says
(`BalancedPostings`), an invoice is paid once because keys and ids are fresh
(`AuditComplete`), and a void never overdraws because its amounts are positive.
`StepCases` and `StepKinds` reduce the thirteen reducers to four kinds of
posting; one lemma per conjunct shows that a step keeps it. Proved:
`LedgerIsSound` (`LedgerStaysSound`, from one theorem per part), `KeyPostsOnce`,
`VoidedAtMostOnce`, `InvoicePaidOnce`, `RetrySafe` (a key belongs to one
transaction and the stored fingerprint determines the request),
`PostedWithinLimits` (`LimitStep`: what `WithinLimits` let through is what is
posted), and two action properties no run repeats: `HistoryIsFinal` and
`BalanceMovesWithLedger`. `BalanceIsLedgerSum` has the invariant `BookInv`: the
ledger is finite, has at most one entry per transaction and side, and sums up;
a posting adds its entries to one sum and its amounts to the other
(`SumOverUnion`, `SumsCancel`).

**`EconomyLedgerProofs`.** Every posting method of the service ends in `Record`.
`Terms` says what a method must have checked before it gets there (a fresh key,
a positive amount, enough on the debited account); `RecordStep` shows once what
recording does under these terms, and each method only has to meet them. `IInv`
is `LedgerInv` (tables, positive postings, stored results that exist, one audit
entry per transaction, and `ChainInv`: each account's last audit entry ends with
its balance and the one before with what it began with, but for the void of a
transaction between an account and itself, whose entry begins with the balance
between its two postings, `Overwrites`), `InvoiceInv`,
`PaymentInv` (an invoice is open and has no payment, or has exactly the one
between its parties), and two facts about what is voided and the clock. Proved:
`LedgerTypeOK`, `InvoicesPaidOnce`, `AuditChains`, `PluginsStayWithinCapability`
and the refinement of `AccountBook` (`BookSpec`): a successful call is one
posting of the book under a fresh key, anything else a stutter. All of
`RecordsTellHistory` follows with `HistoryInv`: `SumsInv` (balances, now and at
every past tick, are opening balance plus the postings up to then), `AuditInv`
(an audit entry's before and after differ by its posting, or by what the second
of its entries moves when both are of one account) and `VoidInv` (a void
is later than what it voids, mirrors it, and no transaction has two). That only
standing transactions count is then a matter of pairing each struck
transaction with the void that strikes it, however deep voids of voids go.

**`GameplayProofs`.** `RowsIn` is a predicate of the tables alone: their shape, at
most one selected character of a player, assignments that name a job and one
of its grades. `Keeps` says that a reducer preserves it whenever it is
accepted, and `ReducersKeep` that every reducer does. A migration's writes are
calls of reducers (`WritesKeep`), so its position, the stale cache and the
number of migrations do not matter. Proved: `OneCharacterSelected`.
`ImportsAreWhole` needs `TablesInv`, which relates every migration to the tables:
what it has written stays there (`Grows`: only the uninstallation of the plugin
takes rows of a migration away, its entities, which the migration's `uninstalled`
remembers), what it still has to write is the rest of its plan, and an
account's owner comes before the account. `TablesAreSound` says of a
stack only what its id does: ids are not one-to-one, so a stack keeps to the limit
of an item that reads so. It adds `RegistryInv`: the stacks of an owner add up to what the registry granted and did not remove,
for sums over stacks that a grant splits and a removal empties. All of
`GameplaySpec`; `MCPluginRegistry` runs the same steps beside the plugin
registry, with which they share no variable.

**`PluginRegistryProofs`.** `RInv` adds `ShapeInv` to the properties: every
plugin has one of its manifests, and a valid one. The cascade of
`disableDependents` is a recursion of as many rounds as there are plugins.
`RoundsExist` gives it a value, `ShrinkingSettles` says it has settled by then,
so what is left is closed (`CascadeSettles`): whatever stays active has what it
requires without the plugin that went, in cycles and with several providers.
Proved: `ActivePluginsMayRun`, and `ImportEnablesWhatItCan` for lists of any
length, by following the enabling loop along the list (`EnabledIs`): enabling
one plugin never takes a requirement from another.

**`PluginDeploymentProofs`.** `IInv` adds `BundlesKnown` (records name
registered bundles) to the invariants: a revocation must reach every record and
a restored record must inherit a verified bundle. Lemmas about status changes
and pushes are stated once; one lemma per method follows. `AllMoved` and
`BundlesMoved` say how a step may move records and bundles; they give the action
properties and are what the sidecar proofs rest on. Proved:
`DeploymentsAreSound`, `OneActive`, `RevokedNeverLive`, `OnlyVerifiedRan`,
`FailuresFailOver` (`FailFailsOver` for `failDeployment`; the other lemmas show
that no other step fails a record, or that it only refuses a request), and
two action properties no run repeats: `HistoryIsKept`, `BundlesAreImmutable`.
Its second part shows that `PluginDeployment` implements `PluginSlots`
(`ManagerImplementsSlots`). `OneActive` makes the mapping well defined: a slot
runs the bundle of the one record in `ActiveAt(key)`. Every operation then has
one of three shapes: `RunStep` (a key gets an active record with a trusted
bundle), `StopSlots` (active records only go), `RevokeStep` (exactly the active
records of the revoked bundles go). That restored bundles are trusted comes from
`Restorable`, that none of a revoked bundle stays from `RevokedNeverLive`.

Its third part is about `PluginSidecars`. The supervisor acts on stale data, so
the invariant `SInv` says what may still be believed about it. Deployments read at the
beginning of a pass were verified (`PassVerified`) and stay so, because bundles
never change. A sandbox whose deployment a pass does not want is retired for
good (`UndesiredAreRetired`): the pass took one active record per key, there was
no second (`OneActive`), and a record that is retired never becomes active again
(`HistoryIsKept`). A running sandbox is in the index unless it is retired
(`RunningIndexed`), so looking into the index before the await is enough.
Proved: `SidecarSpec` implements the manager's `Spec`, so everything above holds
beside the supervisor as well; `SandboxesAreSound` and `StopsOnlyRetired`.

**`AdminMirrorProofs`.** `MirrorInv` speaks of the writes that wait as a set, in
which a write's number tells its place, and says where they lead.
`StatusesAgree` (first life, nothing refused): of a plugin the last write about
it has the status memory has, and without one the database has it already; a
revocation under way reaches only plugins that are disabled in memory or written
about later. `DeploymentsAgree` says so of deployments. `DisabledAreOut` needs
more than the reducers' own checks, because `register_plugin` checks nothing:
`Registers` says that one that waits turns nothing off that is on by then
(`Off`: what the tables and the earlier writes make of a plugin), nor on a plugin
whose package's signer is revoked by then; a call may queue such a write because
of what the service knows (`SignersKnown`, `StatusesFollow`), which a restart
reduces to what the cache was told at its start. Bundles need no such help
(`RevokedBundlesDoNotRun`): it holds by the checks of the reducers, which take a
deployment or a capability only with its registered bundle. `AuditsFit` keeps the ids of
this server's audit entries apart across lives, and `CacheInv` says of each row of the cache that
it is current or a change the cache has not heard of yet replaces it, of each
row that it is known or under way. Of the configuration value a life may see rows
of several ids; once this life has set it, the cache has this life's, or the
change that brings it is under way. Every call is brought into one form: `Fits`
and `AuditsFollow` say how what it queues fits what it does to memory, `CallStep`
shows once that this keeps the invariant, and each call only has to meet them.
Proved: `QueueIsSound`, `MirrorIsCurrent`, `CacheSettles`, `DisabledAreOut`.

**`RuntimeProofs`** has the three components of the run `runtime`.

* *Calls* (`CallsAreRecorded`, `OneActionAfterWithdrawal`,
  `MenuOffersOnlyCallable`). `CInv` ties the places that must agree: the bus and
  its two indexes (`BusInv`), each call to an envelope of its own whose status
  tells the call's stage (`CallsInv`), the audit log to both by counting
  (`LogTells`: a finished envelope has one entry, a submitted one none, a
  completed one as many "after" entries as hooks, and one whose result could not
  be copied none although it is completed), the dispatch of a hook (`HookInv`),
  what was submitted without its capability (`late`), versions, beats and sandboxes. `ActionsSpec` takes the steps of all
  three groups together; the run checks the groups side by side, because they
  multiply its states. Of a menu, the tree a principal is shown is unfolded by a
  recursion over depth (`TreesExist`).
* *Access* (`AccessIsJustified`, `DiscordFollowsGuild`). `resolvePrincipals` walks
  the edges with a stack. `Walked` says of each position of the walk that what is
  visited or on the stack is reachable, and that every parent of a visited one is
  visited or on the stack; a measure of what is left (`Work`) shrinks in every
  step, so the walk has ended when the recursion has (`WalkEnds`), cycles
  included, and its result is the least closed set. `AccessInv` adds that
  FXServer's lines are what is remembered and that an emission under way was
  planned from it.
* *The pass* (`OnceInOrder`, `GameAndStoreAgree`, `NothingForgotten`). `SyncInv`
  says of each kind of channel what may be under way. Mirrors: what is
  remembered was told, and a setting's version under way lies between what is
  remembered and what the service has (`ConfigUnderWay`). Queues: a dispatch
  in the batch is the only one of its key, later than what was executed and
  earlier than what waits (`FlightSound`). Drains: numbers rise from the last
  update stored through the batch to the game's queue (`LineSound`), and with no
  fault on record the changes under way lead from the database's balance to the
  game's (`Leads`), the last list under way is the game's (`Shows`).

What the constants are assumed to satisfy is stated where they are declared:
shapes of the inputs, finite sets where the code has finite lists, bounds that
are numbers, placeholders (`None`, `Never`, `Unset`) that are not values. Three
say more and rest on code: an action that runs a server command has a
permission (`DefinitionsAssumption`, `upsert_menu_action`, `menus.rs:414`); drawn
keys and nonces are not ones somebody submits (`FreshAssumption`, they are
random UUIDs); the manifest made for an imported resource is valid
(`RegistryAssumption`, it names no permission).

Only model-checked: liveness (`RetiredSandboxesStop`, `ActiveGetsSandbox`, `AceSettles`, `CallsFinish`,
`PassesSettle`). Fairness and `ENABLED` are out of the prover's reach. Every
safety property of a passing run has a theorem.

## 6. Where code and documentation differ

Runs that must find a violation:

* `economy_self_transfer` (bug): a transfer from an account to itself raises
  its balance. Both rows are read, then both are written, and the second write
  wins. `pay_invoice` has the same shape. The ledger properties therefore except
  accounts that pay themselves.
* `sidecar_kill`: a pass that cannot start one deployment never comes to
  stopping another, killed one.
* `admin_hooks`: enabling a plugin with hooks queues the hooks before the status,
  the reducer refuses a hook of a plugin that is not active, and the refusal ends
  the write queue.
* `money_keys` (bug): the game numbers its money updates by their place in a
  queue that every drain empties, so the same change after a drain has a used
  idempotency key and is answered as a repeat.

Seen while modelling and not made a run. *Economy*:

* `buy_item` and `sell_item` remember only the item (`economy.rs:920`), so a used
  key with another price is answered as a repeat (phase04.md:109 promises a
  conflict). `issue_invoice`'s fingerprint leaves out the due date.
* A limit on adjustments is looked up under the transaction type
  (`economy.rs:568`), in the TypeScript service under the permission.
* The void of a transfer from an account to itself writes `before` once per entry,
  so its audit entry shows the balance between the two as the one before
  (`economy.ts:771`; `AuditChains` excepts it).
* Voids ask no limit and no account status; a voided payment leaves its invoice
  paid. Invoice and transaction keys are apart in TypeScript, shared in Rust.
* A plugin's `payInvoice` passes neither amount nor accounts to the gate, so the
  capability's constraints do not apply to it (`PluginsStayWithinCapability`
  excepts it). A repeated `issueInvoice` returns the stored "issued" copy.

*Plugins*:

* A health failure restores the latest other record even if it runs the
  bundle that just failed (`plugin-deployment.ts:626`, operations-runbook.md:148).
* Ids with a colon can share a history. The kill switch mirrors its audit
  entry only when something was killed.
* A plugin reinstalled while active keeps its status though its new
  requirements may be unmet (`RequirementsHold` excepts it); disabling one
  provider disables dependents although another provider remains; local packages
  are never checked against revoked signers.
* A plugin installed from a manifest stays active when the signer of its bundle is
  revoked; the bundle's deployments and capabilities go.
* A package id reused for another plugin moves the package, so that revoking
  its signer later misses the first plugin.

*Mirror*:

* Uninstalled plugins stay as rows, and reinstalling one registers nothing
  again. A second value of a configuration key in one life, a second grant and a
  changed manifest are refused or never sent.
* The id of a configuration value is drawn anew in each life
  (`core/runtime.ts:250`), so a later life inserts a second row of the key. The
  cache knows one row of a key and keeps whichever it is told last, until this
  life sets the value.
* An id of an audit entry has no server in it (`plugins.ts:863`) but is the primary
  key (`tables.rs:54`), and the cache holds this server's only (`adapter.ts:1664`).
  An entry whose id another server used is therefore queued, refused, and ends the
  write queue.
* After a restart `register_plugin` overwrites "active" with "installed", and a
  kill or revocation reaches no deployment of the life before: disabling a plugin
  writes its status, and a deployment of an earlier life stays active.
  `revokePackageSigner` kills deployments in the database but not in the manager.
* The cache holds one deployment per plugin and server, so a pending request
  hides the active one from the HTTP list, from the capabilities and from the
  sync loop, which then stops its sandbox (`adapter.ts:1751`,
  operations-runbook.md:60).
* Discord: a second synchronisation upserts principals that exist and repeats
  its audit id; both are refused and end the write queue.

*Runtime*:

* The answer to an ACE emission is lost and the permission revoked before the
  next pass: the line stays in FXServer. Native permissions and menu signatures
  have the same gap, configuration has versions and has not. A restarted FXServer
  is not told again, and neither is a restarted connector's former list cleared.
* Patches of the world state are merged in the order of their field sets, so
  an older one can override a newer one.
* The game accepts money amounts of 0, which the service refuses together with
  the rest of the batch; it clamps removals at 0 but queues the full amount.
* A handler whose result `structuredClone` refuses leaves its action completed
  without an audit entry, and the call answers `ok: false`
  (`core/runtime.ts:398-410`).
* A sandbox's action is checked before an await and submitted after it
  (`bridge.ts:211`), so one may be submitted after its deployment was killed.
* Two spawns of one model for a player between passes become one. A hook's audit
  says "succeeded" though its actions were refused. `registerServer` counts as a
  heartbeat. An `execute_server_command` entry without permission is visible but
  cannot be called.

*Gameplay*:

* A migration that stopped cannot be repeated: it is refused at its first
  item, as the catalogue only inserts. Unknown jobs and grades, inactive plugins
  and taken keys are noticed only midway (implementation-status.md:255).
* The id of a stack joins owner and item with a colon (`gameplay.rs:376`), and
  owner ids contain colons: two owners can share a stack and its limit.
* Uninstalling a plugin deletes its entities (`plugins.rs:330`), also the ones a
  migration that has begun or ended has brought.
* Grades with a comma in their name are unknown to `grade_exists`. A maximal
  stack of 0 means no limit in Rust and no room in TypeScript.

## 7. What is left out

* The browser panel, compatibility Lua and example resources, scripts and
  generated bindings: input, output and text. Routing and parsing of the HTTP API
  and the text rewriting of the SQL compatibility layer likewise.
* 128-bit overflow of balances and 64-bit overflow of stacks: integers are
  unbounded in the models.
* The HTTP snapshot between manager and supervisor: `PluginSidecars` reads the
  manager's records directly, as the admin service serves them without a database.
  With one, the snapshot comes from the cache, whose content `AdminMirror` models.
  `latestActiveDeployments` decides between two active deployments by their id,
  the time having been dropped by `parseDeploymentRecord`.
* Sandbox events and policy of the supervisor, heartbeat age and server
  registrations of the control plane.
* The reducers of `permissions.rs`, `runtime.rs`, panels and sessions. The runtime
  cache tables store acknowledgements without comparing them
  (`permissions.rs:96`), so there is no property to state.
* Of the tables and the adapter, those not named in `AdminMirror`,
  `EconomyReducers` and `Gameplay`: they are written by the same queue in the same
  way.
* Reducers called directly by other clients than the admin service.
* Edges, grants and rights are known by records in `PermissionAccess`, in the code
  by ids joined with colons (`permission-store.ts:144`); ids whose joins coincide
  are not modelled there. A limit's permission is taken to exist
  (`economy.rs:55`).
* Two dispatches of hooks at once: `RuntimeActions` has one at a time, beside any
  calls of users. A write of `RuntimeSync` that throws has stored nothing.

## 8. Plan

Done: the economy on both sides, deployments and sidecars, plugin registry,
gameplay and migration, the mirror with its cache and restarts, permissions,
the bridge and the brokers, the connector's channels. Left, most valuable first:

1. Proofs: that the game's channels refine a queue with one reader, as the
   manager does `PluginSlots`, and that the tables of `AdminMirror` refine the
   registry within one life.
2. The reducers of `permissions.rs` and `runtime.rs` beside their TypeScript
   stores, as `AdminMirror` does for plugins.
3. More tables in `AdminMirror`.

The runs stay few: a new question goes into a passing run of its component.
