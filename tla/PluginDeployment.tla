--------------------------- MODULE PluginDeployment ---------------------------
(***************************************************************************)
(* The plugin deployment manager (src/core/plugin-deployment.ts): which    *)
(* bundle of a plugin runs on which server, through direct deployments,    *)
(* requests and approvals, rollbacks, health failures, the kill switch and *)
(* the revocation of signers and bundles.                                  *)
(*                                                                         *)
(* The manager is an object of a single-threaded JavaScript program: a     *)
(* method runs to its end without interruption except where it awaits the  *)
(* download of an artifact.  Each synchronous method is one action; the    *)
(* two methods that download are two actions, before and after the await,  *)
(* with the call kept in `fetching' in between.  A method that throws      *)
(* changes nothing and is a stuttering step.  The audit trail, messages    *)
(* and timestamps are left out; blank-string checks are left out.          *)
(*                                                                         *)
(* Deployment ids are fresh and a record is pushed in the step that makes  *)
(* its id, so `deployments' is one sequence in push order, a deployment's  *)
(* id is its position, and the history of a plugin on a server is the set  *)
(* of positions filed under its key.                                       *)
(***************************************************************************)
EXTENDS Integers, Sequences, FiniteSets

CONSTANTS
    PluginIds,       \* plugin ids: sequences of the segments between colons
    ServerIds,       \* server ids, likewise
    BundleIds,       \* ids callers choose for bundles
    SignerIds,       \* signers the manager was constructed with
    UnknownSigners,  \* other signer ids a request may name
    Bytes,           \* contents an artifact may have
    BundleInputs,    \* requests registerBundle is called with
    MaxDeployments,  \* bound: deployment records
    MaxFetches,      \* bound: downloads under way at a time
    None             \* no bundle

VARIABLES
    bundlesById,          \* registered bundles
    deployments,          \* all deployment records, in push order
    revokedSignerIds,     \* signers revoked so far
    pendingBundleBytes,   \* pendingBundleBytesByDeploymentId
    fetching              \* calls waiting for the bytes of an artifact

vars == <<bundlesById, deployments, revokedSignerIds, pendingBundleBytes, fetching>>

(***************************************************************************)
(* Records.  `bundleHash' is the content whose SHA-256 it is, `signed'     *)
(* whether the signature is the signer's HMAC of the signing payload, and  *)
(* `sandboxApproved' whether every sandbox capability of the bundle is     *)
(* allowed and approved (the approved set never changes).                  *)
(***************************************************************************)
BundleInput == [id: BundleIds, pluginId: PluginIds, signerId: SignerIds \cup UnknownSigners,
                bundleHash: Bytes, signed: BOOLEAN, sandboxApproved: BOOLEAN]
BundleStatus == {"registered", "revoked"}
Bundle == [pluginId: PluginIds, signerId: SignerIds, bundleHash: Bytes,
           signed: BOOLEAN, sandboxApproved: BOOLEAN, status: BundleStatus]
DeploymentStatus == {"pending", "active", "failed", "killed", "rolled_back"}
Deployment == [pluginId: PluginIds, serverId: ServerIds, bundleId: BundleIds,
               status: DeploymentStatus]
FetchingCall == [method: {"deploy", "requestDeployment"}, pluginId: PluginIds,
                 serverId: ServerIds, bundleId: BundleIds]

ASSUME DeploymentAssumption ==
    /\ BundleInputs \subseteq BundleInput
    /\ SignerIds \cap UnknownSigners = {}
    /\ None \notin BundleIds
    /\ MaxDeployments \in Nat

TypeOK ==
    /\ DOMAIN bundlesById \subseteq BundleIds
    /\ bundlesById \in [DOMAIN bundlesById -> Bundle]
    /\ deployments \in Seq(Deployment)
    /\ revokedSignerIds \subseteq SignerIds
    /\ DOMAIN pendingBundleBytes \subseteq DOMAIN deployments
    /\ pendingBundleBytes \in [DOMAIN pendingBundleBytes -> Bytes]
    /\ fetching \subseteq FetchingCall

Init ==
    /\ bundlesById = [b \in {} |-> None]
    /\ deployments = <<>>
    /\ revokedSignerIds = {}
    /\ pendingBundleBytes = [d \in {} |-> None]
    /\ fetching = {}

-----------------------------------------------------------------------------
(* Histories.  The key is the template `plugin:server', so ids with a colon *)
(* of their own can share one.                                              *)
deploymentKey(plugin, server) == plugin \o server
KeyOf(d) == deploymentKey(deployments[d].pluginId, deployments[d].serverId)
getHistory(plugin, server) ==
    {d \in DOMAIN deployments : KeyOf(d) = deploymentKey(plugin, server)}
IsLatest(d, D) == d \in D /\ \A e \in D : e <= d

HasStatus(d, statuses) == deployments[d].status \in statuses
Actionable == {d \in DOMAIN deployments : HasStatus(d, {"active", "pending"})}

(* Bundles.                                                                 *)
IsRegistered(b) == b \in DOMAIN bundlesById /\ bundlesById[b].status = "registered"
SignerRevoked(b) == bundlesById[b].signerId \in revokedSignerIds

isRestorableBundle(b) == IsRegistered(b) /\ ~SignerRevoked(b)

(* Mutation: the approval of sandbox capabilities is not asked.             *)
verifyDeploymentActivation_HashOnly(b, bytes) ==
    /\ ~SignerRevoked(b)
    /\ bytes = bundlesById[b].bundleHash
verifyDeploymentActivation(b, bytes) ==
    /\ ~SignerRevoked(b)
    /\ bytes = bundlesById[b].bundleHash
    /\ bundlesById[b].signed
    /\ bundlesById[b].sandboxApproved

requireBundle(plugin, b) == IsRegistered(b) /\ bundlesById[b].pluginId = plugin

-----------------------------------------------------------------------------
(* Changes of the records.                                                  *)
Record(plugin, server, b, status) ==
    [pluginId |-> plugin, serverId |-> server, bundleId |-> b, status |-> status]
WithStatus(D, status) ==
    [d \in DOMAIN deployments |->
        IF d \in D THEN [deployments[d] EXCEPT !.status = status] ELSE deployments[d]]

ActiveIn(plugin, server) ==
    {d \in getHistory(plugin, server) : HasStatus(d, {"active"})}

(* Mutation: the previous active record is left active.                     *)
supersedeActiveDeployments_Keep(plugin, server) == deployments
supersedeActiveDeployments(plugin, server) ==
    WithStatus(ActiveIn(plugin, server), "rolled_back")

(* pushDeployment on top of already changed records.                        *)
pushDeployment(records, record) ==
    /\ Len(deployments) < MaxDeployments
    /\ deployments' = Append(records, record)

(* The bytes kept for pending deployments, less those of D.                 *)
(* Mutation: the whole map is cleared.                                      *)
DropBytes_All(D) == [d \in {} |-> None]
DropBytes(D) ==
    [d \in DOMAIN pendingBundleBytes \ D |-> pendingBundleBytes[d]]

(* Where a rollback and a failover may go back to: any other record of the  *)
(* history that is or was active and whose bundle can still be trusted.     *)
Restorable(plugin, server, current) ==
    {d \in getHistory(plugin, server) \ {current} :
        HasStatus(d, {"active", "rolled_back"}) /\ isRestorableBundle(deployments[d].bundleId)}

(* The deployments an emergency stop takes down, among those of D.          *)
(* Mutation: requests that wait are stopped but what runs is not.           *)
Kill_PendingOnly(D) ==
    /\ deployments' = WithStatus({d \in D : HasStatus(d, {"pending"})}, "killed")
    /\ pendingBundleBytes' = DropBytes(D \cap Actionable)
Kill(D) ==
    /\ deployments' = WithStatus(D \cap Actionable, "killed")
    /\ pendingBundleBytes' = DropBytes(D \cap Actionable)

-----------------------------------------------------------------------------
(* The operations.                                                          *)

registerBundle(input) ==
    /\ input.id \notin DOMAIN bundlesById
    /\ input.signerId \in SignerIds \ revokedSignerIds
    /\ bundlesById' = [b \in DOMAIN bundlesById \cup {input.id} |->
            IF b # input.id THEN bundlesById[b]
            ELSE [pluginId |-> input.pluginId, signerId |-> input.signerId,
                  bundleHash |-> input.bundleHash, signed |-> input.signed,
                  sandboxApproved |-> input.sandboxApproved, status |-> "registered"]]
    /\ UNCHANGED <<deployments, revokedSignerIds, pendingBundleBytes, fetching>>

(* What deploy does once it has the bytes: the record is active, and the    *)
(* previous active one superseded, only when the bundle verifies.           *)
Deploy(plugin, server, b, bytes) ==
    /\ requireBundle(plugin, b)
    /\ IF verifyDeploymentActivation(b, bytes)
       THEN pushDeployment(supersedeActiveDeployments(plugin, server),
                           Record(plugin, server, b, "active"))
       ELSE pushDeployment(deployments, Record(plugin, server, b, "failed"))
    /\ UNCHANGED <<bundlesById, revokedSignerIds, pendingBundleBytes>>

(* What requestDeployment does once it has the bytes.                       *)
(* Mutation: the signer checked before the download is not checked again.   *)
Request_UncheckedSigner(plugin, server, b, bytes) ==
    /\ requireBundle(plugin, b)
    /\ pushDeployment(deployments, Record(plugin, server, b, "pending"))
    /\ pendingBundleBytes' = [d \in DOMAIN pendingBundleBytes \cup {Len(deployments) + 1} |->
            IF d = Len(deployments) + 1 THEN bytes ELSE pendingBundleBytes[d]]
    /\ UNCHANGED <<bundlesById, revokedSignerIds>>
Request(plugin, server, b, bytes) ==
    /\ requireBundle(plugin, b)
    /\ ~SignerRevoked(b)
    /\ pushDeployment(deployments, Record(plugin, server, b, "pending"))
    /\ pendingBundleBytes' = [d \in DOMAIN pendingBundleBytes \cup {Len(deployments) + 1} |->
            IF d = Len(deployments) + 1 THEN bytes ELSE pendingBundleBytes[d]]
    /\ UNCHANGED <<bundlesById, revokedSignerIds>>

deploy(plugin, server, b, bytes) ==
    Deploy(plugin, server, b, bytes) /\ UNCHANGED fetching

requestDeployment(plugin, server, b, bytes) ==
    Request(plugin, server, b, bytes) /\ UNCHANGED fetching

(* deployFromArtifact and requestDeploymentFromArtifact up to the await.    *)
StartFetch(method, plugin, server, b) ==
    LET call == [method |-> method, pluginId |-> plugin, serverId |-> server,
                 bundleId |-> b] IN
    /\ call \notin fetching
    /\ Cardinality(fetching) < MaxFetches
    /\ requireBundle(plugin, b)
    /\ ~SignerRevoked(b)
    /\ fetching' = fetching \cup {call}
    /\ UNCHANGED <<bundlesById, deployments, revokedSignerIds, pendingBundleBytes>>

deployFromArtifact(plugin, server, b) == StartFetch("deploy", plugin, server, b)
requestDeploymentFromArtifact(plugin, server, b) ==
    StartFetch("requestDeployment", plugin, server, b)

(* The download ends and the awaiting method calls its synchronous half.    *)
ArtifactFetched(call, bytes) ==
    /\ \/ /\ call.method = "deploy"
          /\ Deploy(call.pluginId, call.serverId, call.bundleId, bytes)
       \/ /\ call.method = "requestDeployment"
          /\ Request(call.pluginId, call.serverId, call.bundleId, bytes)
    /\ fetching' = fetching \ {call}

(* The download fails, or the synchronous half throws: the caller is told.  *)
ArtifactRefused(call) ==
    /\ fetching' = fetching \ {call}
    /\ UNCHANGED <<bundlesById, deployments, revokedSignerIds, pendingBundleBytes>>

(* A request whose bundle does not verify fails and its bytes stay behind.  *)
approveDeployment(d) ==
    LET r == deployments[d] IN
    /\ HasStatus(d, {"pending"})
    /\ IsRegistered(r.bundleId)
    /\ ~SignerRevoked(r.bundleId)
    /\ d \in DOMAIN pendingBundleBytes
    /\ IF verifyDeploymentActivation(r.bundleId, pendingBundleBytes[d])
       THEN /\ deployments' = [supersedeActiveDeployments(r.pluginId, r.serverId)
                                 EXCEPT ![d].status = "active"]
            /\ pendingBundleBytes' = DropBytes({d})
       ELSE /\ deployments' = WithStatus({d}, "failed")
            /\ UNCHANGED pendingBundleBytes
    /\ UNCHANGED <<bundlesById, revokedSignerIds, fetching>>

killSwitch(plugin) ==
    /\ Kill({d \in DOMAIN deployments : deployments[d].pluginId = plugin})
    /\ UNCHANGED <<bundlesById, revokedSignerIds, fetching>>

revokeSigner(signer) ==
    /\ revokedSignerIds' = revokedSignerIds \cup {signer}
    /\ Kill({d \in DOMAIN deployments :
               bundlesById[deployments[d].bundleId].signerId = signer})
    /\ UNCHANGED <<bundlesById, fetching>>

revokeBundle(b) ==
    /\ IsRegistered(b)
    /\ bundlesById' = [bundlesById EXCEPT ![b].status = "revoked"]
    /\ Kill({d \in DOMAIN deployments : deployments[d].bundleId = b})
    /\ UNCHANGED <<revokedSignerIds, fetching>>

(* The active record gives way to a new one with the bundle of the latest   *)
(* other record that can be trusted.                                        *)
rollback(plugin, server) ==
    /\ \E active, previous \in DOMAIN deployments :
        /\ IsLatest(active, ActiveIn(plugin, server))
        /\ IsLatest(previous, Restorable(plugin, server, active))
        /\ pushDeployment(WithStatus({active}, "rolled_back"),
                Record(plugin, server, deployments[previous].bundleId, "active"))
    /\ UNCHANGED <<bundlesById, revokedSignerIds, pendingBundleBytes, fetching>>

(* Mutation: whether it was active is asked after it was marked failed.     *)
restorePreviousActiveDeployment_Never(d, failed) == deployments' = failed

(* A failed active deployment is followed by a new active record with the   *)
(* bundle of the latest other record that can be trusted, if there is one.  *)
restorePreviousActiveDeployment(d, failed) ==
    LET r == deployments[d]
        candidates == Restorable(r.pluginId, r.serverId, d) IN
    \/ candidates = {} /\ deployments' = failed
    \/ \E previous \in candidates :
        /\ IsLatest(previous, candidates)
        /\ pushDeployment(failed, Record(r.pluginId, r.serverId,
                                         deployments[previous].bundleId, "active"))

failDeployment(d) ==
    LET failed == WithStatus({d}, "failed") IN
    /\ \/ HasStatus(d, {"pending"}) /\ deployments' = failed
       \/ HasStatus(d, {"active"}) /\ restorePreviousActiveDeployment(d, failed)
    /\ pendingBundleBytes' = DropBytes({d})
    /\ UNCHANGED <<bundlesById, revokedSignerIds, fetching>>

-----------------------------------------------------------------------------
BundleStep ==
    \/ \E input \in BundleInputs : registerBundle(input)
    \/ \E b \in BundleIds : revokeBundle(b)
    \/ \E signer \in SignerIds : revokeSigner(signer)

DeployStep ==
    \/ \E plugin \in PluginIds, server \in ServerIds, b \in BundleIds, bytes \in Bytes :
            deploy(plugin, server, b, bytes) \/ requestDeployment(plugin, server, b, bytes)
    \/ \E call \in fetching, bytes \in Bytes : ArtifactFetched(call, bytes)
    \/ \E d \in DOMAIN deployments : approveDeployment(d)

FetchStep ==
    \/ \E plugin \in PluginIds, server \in ServerIds, b \in BundleIds :
            \/ deployFromArtifact(plugin, server, b)
            \/ requestDeploymentFromArtifact(plugin, server, b)
    \/ \E call \in fetching : ArtifactRefused(call)

RetreatStep ==
    \/ \E plugin \in PluginIds : killSwitch(plugin)
    \/ \E plugin \in PluginIds, server \in ServerIds : rollback(plugin, server)
    \/ \E d \in DOMAIN deployments : failDeployment(d)

Next == BundleStep \/ DeployStep \/ FetchStep \/ RetreatStep

Spec == Init /\ [][Next]_vars

-----------------------------------------------------------------------------
(***************************************************************************)
(* What the manager guarantees.                                            *)
(***************************************************************************)

(* Direct deployments, approvals, rollbacks and failovers in any order keep *)
(* at most one deployment of a plugin on a server active.                   *)
OneActive ==
    \A d, e \in DOMAIN deployments :
        KeyOf(d) = KeyOf(e) /\ HasStatus(d, {"active"}) /\ HasStatus(e, {"active"}) => d = e

(* No deployment runs or waits for approval on a bundle that is revoked or  *)
(* whose signer is, however a revocation falls between the check of a       *)
(* request, the end of its download and its approval.                       *)
RevokedNeverLive ==
    \A d \in Actionable : isRestorableBundle(deployments[d].bundleId)

(* What runs, or ran and may be restored without another check, has a valid *)
(* signature and only approved sandbox capabilities.                        *)
OnlyVerifiedRan ==
    \A d \in DOMAIN deployments :
        HasStatus(d, {"active", "rolled_back"}) =>
            /\ deployments[d].bundleId \in DOMAIN bundlesById
            /\ bundlesById[deployments[d].bundleId].signed
            /\ bundlesById[deployments[d].bundleId].sandboxApproved

(* A request that waits for approval still has the bytes it was made with:  *)
(* approveDeployment never meets "Missing pending bundle bytes".            *)
PendingHasBytes ==
    \A d \in DOMAIN deployments : HasStatus(d, {"pending"}) => d \in DOMAIN pendingBundleBytes

(* The two maps of the manager fit: records and bundles have their shape,   *)
(* and what waits for approval can be approved.                             *)
DeploymentsAreSound == TypeOK /\ PendingHasBytes

(* Records are never dropped or refiled, and a deployment that failed, was  *)
(* killed or was rolled back stays so: what is restored is a new record.    *)
StatusMoves ==
    ({"pending"} \X {"active", "failed", "killed"})
        \cup ({"active"} \X {"rolled_back", "failed", "killed"})
HistoryIsKept ==
    [][\A d \in DOMAIN deployments :
        /\ d \in DOMAIN deployments'
        /\ \/ deployments'[d] = deployments[d]
           \/ /\ deployments'[d] = [deployments[d] EXCEPT !.status = deployments'[d].status]
              /\ <<deployments[d].status, deployments'[d].status>> \in StatusMoves]_vars

(* A failure of the active deployment is followed in the same step by the   *)
(* restored one whenever the history has a bundle to trust; the failure of  *)
(* a request adds no record.                                                *)
FailuresFailOver ==
    [][\A d \in DOMAIN deployments :
        LET r == deployments[d] IN
        ~HasStatus(d, {"failed"}) /\ HasStatus(d, {"failed"})' =>
            IF HasStatus(d, {"active"}) /\ Restorable(r.pluginId, r.serverId, d) # {}
            THEN ActiveIn(r.pluginId, r.serverId)' # {}
            ELSE Len(deployments') = Len(deployments)]_vars

(* A registered bundle keeps its plugin, signer, hash and signature for     *)
(* ever, and neither it nor its signer is ever trusted again once revoked.  *)
BundlesAreImmutable ==
    [][/\ revokedSignerIds \subseteq revokedSignerIds'
       /\ \A b \in DOMAIN bundlesById :
            /\ b \in DOMAIN bundlesById'
            /\ bundlesById'[b] \in {bundlesById[b], [bundlesById[b] EXCEPT !.status = "revoked"]}]_vars

-----------------------------------------------------------------------------
(***************************************************************************)
(* The manager implements PluginSlots: a slot runs the bundle of the       *)
(* active deployment filed under its key.                                  *)
(***************************************************************************)
SlotKeys == {deploymentKey(plugin, server) : plugin \in PluginIds, server \in ServerIds}
ActiveAt(k) == {d \in DOMAIN deployments : KeyOf(d) = k /\ HasStatus(d, {"active"})}
Running == [k \in SlotKeys |-> IF ActiveAt(k) = {} THEN None
                               ELSE deployments[CHOOSE d \in ActiveAt(k) : TRUE].bundleId]
Standing == [b \in BundleIds |-> IF b \notin DOMAIN bundlesById THEN "unknown"
                                 ELSE IF isRestorableBundle(b) THEN "trusted" ELSE "revoked"]
Slots == INSTANCE PluginSlots WITH Slots <- SlotKeys, running <- Running, standing <- Standing
SlotsSpec == Slots!Spec
=============================================================================
