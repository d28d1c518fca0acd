---------------------------- MODULE MCPluginRegistry ----------------------------
(***************************************************************************)
(* An instance of PluginRegistry for TLC: a framework, its replacement     *)
(* that provides the same capability, and a job that needs them; and one   *)
(* of Gameplay, whose tables and in-process registry a plugin fills.  The  *)
(* three share no state, and a behaviour lets one of them work.            *)
(***************************************************************************)
EXTENDS PluginRegistry, Gameplay

CONSTANTS core, alt, job, k1, s1, e1, t1, kit, mod, ems, low, high, ann, bob, alice, driver, cash

Manifest(needs, dependencies, requires, provides, capabilities, names) ==
    [requiredPlugins |-> needs, dependencies |-> dependencies, requiredCapabilities |-> requires,
     provides |-> provides, providedCapabilities |-> capabilities,
     permissions |-> {"use"}, namedPermissions |-> names]
MCManifests ==
    core :> {Manifest({}, {}, {}, {"framework"}, {"bank"}, {"use"}),
             Manifest({}, {}, {}, {}, {}, {})}
    @@ alt :> {Manifest({}, {"framework"}, {}, {}, {"bank"}, {"use"}),
               Manifest({}, {}, {}, {}, {"bank"}, {"undeclared"})}
    @@ job :> {Manifest({alt}, {}, {"bank"}, {}, {}, {"use"})}
MCLists == {<<job, alt, core>>, <<core, alt>>}

(* The items are kit and mod:kit, the owners ann and ann:mod: mod:kit of    *)
(* the one and kit of the other have the same id.                          *)
MCOwners == {<<ann>>, <<ann, mod>>}
MCKit == <<kit>>
MCModKit == <<mod, kit>>

(* Two dumps that share a character, whose money and whose job differ; the *)
(* third has a debt, which no plan carries.                                *)
MCPlayer(principal, amount, grade) == [principal |-> principal, money |-> cash :> amount, job |-> ems, grade |-> grade]
MCDumps ==
    {[items |-> MCKit :> [unique |-> FALSE, limit |-> 2], jobs |-> ems :> {low}, vehicles |-> {"car"},
      gangs |-> {"crew"}, players |-> ann :> MCPlayer(alice, 1, low) @@ bob :> MCPlayer(alice, 0, low)],
     [items |-> MCModKit :> [unique |-> TRUE, limit |-> Missing], jobs |-> ems :> {}, vehicles |-> {},
      gangs |-> {}, players |-> ann :> MCPlayer(driver, 2, Missing)],
     [items |-> <<>>, jobs |-> <<>>, vehicles |-> {}, gangs |-> {}, players |-> ann :> MCPlayer(driver, -1, low)]}
MCItemInputs == {[key |-> MCKit, stackable |-> TRUE, limit |-> 2], [key |-> MCKit, stackable |-> FALSE, limit |-> Missing],
                 [key |-> MCModKit, stackable |-> TRUE, limit |-> 0]}
MCJobInputs == {[key |-> ems, grades |-> {low, high}]}
MCCharacterInputs == {[id |-> ann, player |-> alice, selected |-> TRUE], [id |-> ann, player |-> driver, selected |-> FALSE]}

VARIABLE part

MCInit ==
    /\ Init /\ GameplayInit
    /\ part \in {"registry", "gameplay", "primitives"}
    /\ part = "gameplay" \/ pluginStatus = "absent"
MCNext ==
    \/ part = "registry" /\ Next /\ UNCHANGED <<part, gameplayVars>>
    \/ part = "gameplay" /\ GameplayNext /\ UNCHANGED <<part, vars>>
    \/ part = "primitives" /\ RegistryNext /\ UNCHANGED <<part, vars>>
MCSpec == MCInit /\ [][MCNext]_<<part, vars, gameplayVars>>
=============================================================================
