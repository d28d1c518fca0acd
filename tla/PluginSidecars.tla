---------------------------- MODULE PluginSidecars ----------------------------
(***************************************************************************)
(* The sidecar supervisor of one server (src/core/plugin-sidecar.ts) next  *)
(* to the deployment manager it follows.  The sync loop of the server      *)
(* (src/connectors/fivem-runtime-loop.ts) reads the deployments and lets   *)
(* the supervisor reconcile: start a sandbox for every active deployment   *)
(* that has none, then stop those whose deployment is no longer active.    *)
(*                                                                         *)
(* A pass awaits the sandbox driver at every start and stop.  Meanwhile    *)
(* the manager changes, and the pass goes on with the deployments it read  *)
(* at its beginning; so a pass is one action per await, and `pass' is what *)
(* it remembers.  The loop runs one pass at a time.                        *)
(*                                                                         *)
(* The driver is outside the repository: a start or a stop succeeds or     *)
(* throws.  The deployments are those of the manager in memory, as the     *)
(* admin service serves them without a database.  Heartbeats only move a   *)
(* timestamp, so any running sandbox may be found stale at any time.       *)
(* Sandbox events, error messages and metadata are left out.               *)
(***************************************************************************)
EXTENDS PluginDeployment

CONSTANTS
    Server,           \* the server this supervisor works for
    SidecarBundles,   \* bundles of a sidecar runtime type, all of whose
                      \* sandbox capabilities the supervisor allows
    MaxStale          \* bound: sandboxes found stale

VARIABLES
    instances,                 \* instancesById, in insertion order; ids are positions
    instanceIdByDeploymentId,  \* the latest instance of a deployment
    pass,                      \* the reconciliation under way
    unreported                 \* stale instances the manager was not told of yet

sidecarVars == <<instances, instanceIdByDeploymentId, pass, unreported>>
allVars == <<vars, sidecarVars>>

(* `awaited' is the deployment whose start, or the instance whose stop, the *)
(* pass waits for; 0 between awaits.                                        *)
Instance == [deploymentId: Nat \ {0}, status: {"running", "failed", "stopped"},
             stale: BOOLEAN]
Pass == [stage: {"idle", "starting", "stopping"}, desired: SUBSET Nat,
         todo: SUBSET Nat, awaited: Nat]
NoPass == [stage |-> "idle", desired |-> {}, todo |-> {}, awaited |-> 0]

ASSUME SidecarAssumption ==
    /\ Server \in ServerIds
    /\ SidecarBundles \subseteq BundleIds

SidecarInit ==
    /\ Init
    /\ instances = <<>>
    /\ instanceIdByDeploymentId = [d \in {} |-> 0]
    /\ pass = NoPass
    /\ unreported = {}

-----------------------------------------------------------------------------
IsRunning(i) == instances[i].status = "running"
DeploymentOf(i) == instances[i].deploymentId

(* Mutation: any instance of the deployment counts, running or not.         *)
HasSandbox_AnyInstance(d) == d \in DOMAIN instanceIdByDeploymentId
HasSandbox(d) ==
    d \in DOMAIN instanceIdByDeploymentId /\ IsRunning(instanceIdByDeploymentId[d])

(* Which deployments a pass works for.  Of several active ones under a key  *)
(* the freshest would win, but the snapshot has lost `deployedAt' and the   *)
(* random ids decide: any one of them.                                      *)
OnePerKey(D) ==
    {C \in SUBSET D : \A d \in D : \E c \in C :
        {e \in C : KeyOf(e) = KeyOf(d)} = {c}}
HereWith(statuses) ==
    {d \in DOMAIN deployments : deployments[d].serverId = Server /\ HasStatus(d, statuses)}
latestActiveDeployments == OnePerKey(HereWith({"active"}))

(* The manager lists deployments by their plugin's id, in an order that is  *)
(* the same in every pass; a pass works for one deployment of a plugin.     *)
PlaceOf ==
    CHOOSE place \in [PluginIds -> 1 .. Cardinality(PluginIds)] :
        \A p, q \in PluginIds : place[p] = place[q] => p = q
ListedBefore(d, e) == PlaceOf[deployments[d].pluginId] < PlaceOf[deployments[e].pluginId]

(* The next deployment of a pass that needs a start, and what comes after.  *)
NextToStart(d) ==
    /\ d \in pass.todo
    /\ ~HasSandbox(d)
    /\ \A e \in pass.todo : ListedBefore(e, d) => HasSandbox(e)
AfterIn(d, D) == {e \in D : ListedBefore(d, e)}
AllStarted ==
    \/ pass.stage = "starting" /\ \A d \in pass.todo : HasSandbox(d)
    \/ pass.stage = "stopping"

(* What a pass stops, in insertion order.                                   *)
(* Mutations: a failed sandbox is taken for stopped; or is always stopped.  *)
NeedsStop_RunningOnly(i) == IsRunning(i) /\ DeploymentOf(i) \notin pass.desired
NeedsStop_Failed(i) ==
    instances[i].status # "stopped" /\ (IsRunning(i) => DeploymentOf(i) \notin pass.desired)
NeedsStop(i) == instances[i].status # "stopped" /\ DeploymentOf(i) \notin pass.desired
NextToStop(i) ==
    i \in DOMAIN instances /\ NeedsStop(i) /\ \A j \in 1 .. (i - 1) : ~NeedsStop(j)

WithoutIndexOf(d) ==
    [e \in DOMAIN instanceIdByDeploymentId \ {d} |-> instanceIdByDeploymentId[e]]
WithIndexOf(d, i) ==
    [e \in DOMAIN instanceIdByDeploymentId \cup {d} |->
        IF e = d THEN i ELSE instanceIdByDeploymentId[e]]

-----------------------------------------------------------------------------
(* The sync loop.  Reading the deployments begins a pass; a pass begins     *)
(* only when no other is active.                                            *)
runOnce ==
    /\ pass.stage = "idle"
    /\ \E desired \in latestActiveDeployments :
        pass' = [stage |-> "starting", desired |-> desired, todo |-> desired, awaited |-> 0]
    /\ UNCHANGED <<instances, instanceIdByDeploymentId, unreported>>

(* start up to its await.  A bundle the supervisor cannot run throws before *)
(* the driver is asked, and that ends the pass.                             *)
start(d) ==
    /\ pass.stage = "starting" /\ pass.awaited = 0
    /\ NextToStart(d)
    /\ instanceIdByDeploymentId' = WithoutIndexOf(d)
    /\ pass' = IF deployments[d].bundleId \in SidecarBundles
               THEN [pass EXCEPT !.todo = AfterIn(d, pass.todo), !.awaited = d]
               ELSE NoPass
    /\ UNCHANGED <<instances, unreported>>

(* The driver has started the sandbox.                                      *)
(* Mutation: the instance is stored without its index.                      *)
DriverStarted_Unindexed(d) ==
    /\ pass.stage = "starting" /\ pass.awaited = d
    /\ instances' = Append(instances,
            [deploymentId |-> d, status |-> "running", stale |-> FALSE])
    /\ pass' = [pass EXCEPT !.awaited = 0]
    /\ UNCHANGED <<instanceIdByDeploymentId, unreported>>
DriverStarted(d) ==
    /\ pass.stage = "starting" /\ pass.awaited = d
    /\ instances' = Append(instances,
            [deploymentId |-> d, status |-> "running", stale |-> FALSE])
    /\ instanceIdByDeploymentId' = WithIndexOf(d, Len(instances) + 1)
    /\ pass' = [pass EXCEPT !.awaited = 0]
    /\ UNCHANGED unreported

(* stop up to its await.                                                    *)
stop(i) ==
    /\ AllStarted /\ pass.awaited = 0
    /\ NextToStop(i)
    /\ pass' = [pass EXCEPT !.stage = "stopping", !.todo = {}, !.awaited = i]
    /\ UNCHANGED <<instances, instanceIdByDeploymentId, unreported>>

(* The driver has stopped the sandbox.                                      *)
DriverStopped(i) ==
    /\ pass.stage = "stopping" /\ pass.awaited = i
    /\ instances' = [instances EXCEPT ![i].status = "stopped"]
    /\ instanceIdByDeploymentId' = WithoutIndexOf(DeploymentOf(i))
    /\ pass' = [pass EXCEPT !.awaited = 0]
    /\ UNCHANGED unreported

(* The driver throws at a start or a stop: the pass ends there.             *)
DriverThrew ==
    /\ pass.awaited # 0
    /\ pass' = NoPass
    /\ UNCHANGED <<instances, instanceIdByDeploymentId, unreported>>

PassEnds ==
    /\ AllStarted /\ pass.awaited = 0
    /\ \A i \in DOMAIN instances : ~NeedsStop(i)
    /\ pass' = NoPass
    /\ UNCHANGED <<instances, instanceIdByDeploymentId, unreported>>

(* Running sandboxes whose last heartbeat is too old fail, all at once.     *)
failStaleInstances(S) ==
    /\ S # {} /\ \A i \in S : IsRunning(i)
    /\ Cardinality({i \in DOMAIN instances : instances[i].stale} \cup S) <= MaxStale
    /\ instances' = [i \in DOMAIN instances |->
            IF i \in S THEN [instances[i] EXCEPT !.status = "failed", !.stale = TRUE]
            ELSE instances[i]]
    /\ unreported' = unreported \cup S
    /\ UNCHANGED <<instanceIdByDeploymentId, pass>>

(* The admin service is told of a stale instance and fails its deployment   *)
(* unless that is over already.  A batch is as many of these steps: failing *)
(* one deployment leaves every other record as it is.                       *)
failPluginSidecarDeployments(i) ==
    /\ i \in unreported
    /\ IF HasStatus(DeploymentOf(i), {"active", "pending"})
       THEN failDeployment(DeploymentOf(i))
       ELSE UNCHANGED vars
    /\ unreported' = unreported \ {i}
    /\ UNCHANGED <<instances, instanceIdByDeploymentId, pass>>

-----------------------------------------------------------------------------
ManagerStep == Next /\ UNCHANGED sidecarVars

PassStep ==
    /\ \/ runOnce
       \/ \E d \in DOMAIN deployments : start(d)
       \/ \E d \in DOMAIN deployments : DriverStarted(d)
       \/ \E i \in DOMAIN instances : stop(i)
       \/ \E i \in DOMAIN instances : DriverStopped(i)
       \/ DriverThrew
       \/ PassEnds
    /\ UNCHANGED vars

HealthStep ==
    \/ \E S \in SUBSET DOMAIN instances : failStaleInstances(S) /\ UNCHANGED vars
    \/ \E i \in unreported : failPluginSidecarDeployments(i)

SidecarNext == ManagerStep \/ PassStep \/ HealthStep

SidecarSpec == SidecarInit /\ [][SidecarNext]_allVars

(* The interval keeps beginning passes and a pass that waits for nobody     *)
(* goes on; a driver asked again and again to start a deployment, or to     *)
(* stop a sandbox, eventually succeeds.                                     *)
MaxInstances == MaxDeployments + MaxStale
Fairness ==
    /\ WF_allVars(runOnce /\ UNCHANGED vars)
    /\ WF_allVars((\E d \in DOMAIN deployments : start(d)) /\ UNCHANGED vars)
    /\ WF_allVars((\E i \in DOMAIN instances : stop(i)) /\ UNCHANGED vars)
    /\ WF_allVars((DriverThrew \/ PassEnds) /\ UNCHANGED vars)
    /\ \A d \in 1 .. MaxDeployments : SF_allVars(DriverStarted(d) /\ UNCHANGED vars)
    /\ \A i \in 1 .. MaxInstances : SF_allVars(DriverStopped(i) /\ UNCHANGED vars)

FairSidecarSpec == SidecarSpec /\ Fairness

-----------------------------------------------------------------------------
(***************************************************************************)
(* What the supervisor guarantees.                                         *)
(***************************************************************************)

(* The index leads from a deployment to an instance of that deployment,     *)
(* also while a start or a stop is under way and after one failed.          *)
SidecarTypeOK ==
    /\ instances \in Seq(Instance)
    /\ DOMAIN instanceIdByDeploymentId \subseteq DOMAIN deployments
    /\ \A d \in DOMAIN instanceIdByDeploymentId :
        /\ instanceIdByDeploymentId[d] \in DOMAIN instances
        /\ DeploymentOf(instanceIdByDeploymentId[d]) = d
    /\ pass \in Pass
    /\ unreported \subseteq DOMAIN instances

(* A deployment never has two running sandboxes, although start looks for   *)
(* one before it awaits the driver and stores its own only afterwards.      *)
OneSandbox ==
    \A i, j \in DOMAIN instances :
        IsRunning(i) /\ IsRunning(j) /\ DeploymentOf(i) = DeploymentOf(j) => i = j

(* Only what passed the signature, hash and capability checks ever gets a   *)
(* sandbox, however old the deployments are that the pass has read.         *)
OnlyVerifiedSandboxes ==
    \A i \in DOMAIN instances :
        LET d == DeploymentOf(i) IN
        /\ d \in DOMAIN deployments
        /\ ~HasStatus(d, {"pending"})
        /\ deployments[d].bundleId \in DOMAIN bundlesById
        /\ bundlesById[deployments[d].bundleId].signed
        /\ bundlesById[deployments[d].bundleId].sandboxApproved

(* The supervisor's instances and its index fit whatever is awaited: one    *)
(* running sandbox to a deployment, and none for what was never verified.   *)
SandboxesAreSound == SidecarTypeOK /\ OneSandbox /\ OnlyVerifiedSandboxes

(* A pass never stops the sandbox of a deployment that is active now, even  *)
(* if it became active after the pass had read the deployments.             *)
StopsOnlyRetired ==
    [][\A i \in DOMAIN instances :
        instances[i].status # "stopped" /\ instances'[i].status = "stopped" =>
            ~HasStatus(DeploymentOf(i), {"active"})]_allVars

(* A sandbox whose deployment is no longer active is stopped in the end,    *)
(* the ones that failed included.                                           *)
RetiredSandboxesStop ==
    \A i \in 1 .. MaxInstances :
        (i \in DOMAIN instances /\ ~HasStatus(DeploymentOf(i), {"active"}))
            ~> (i \in DOMAIN instances /\ instances[i].status = "stopped")

(* An active deployment of this server gets a running sandbox unless it is  *)
(* retired before, also after its sandbox failed.                           *)
ActiveGetsSandbox ==
    \A d \in 1 .. MaxDeployments :
        d \in HereWith({"active"}) ~>
            \/ d \notin HereWith({"active"})
            \/ \E i \in DOMAIN instances : DeploymentOf(i) = d /\ IsRunning(i)

(* The sandboxes of a killed deployment are stopped by reconciliation.      *)
KilledSandboxesStop ==
    \A i \in 1 .. MaxInstances :
        (i \in DOMAIN instances /\ HasStatus(DeploymentOf(i), {"killed"}))
            ~> (i \in DOMAIN instances /\ instances[i].status = "stopped")
=============================================================================
