------------------------ MODULE PluginDeploymentProofs ------------------------
(***************************************************************************)
(* Proofs about PluginDeployment and PluginSidecars, for every set of      *)
(* plugins, servers, bundles and signers, any number of sandboxes and      *)
(* every bound.                                                            *)
(*                                                                         *)
(* The inductive invariant adds one conjunct to the invariants themselves: *)
(* every record names a registered bundle, so that a revocation reaches it *)
(* and a restored record inherits a bundle that was verified.              *)
(***************************************************************************)
EXTENDS PluginSidecars, TLAPS

BundlesKnown ==
    \A d \in DOMAIN deployments : deployments[d].bundleId \in DOMAIN bundlesById

IInv ==
    /\ TypeOK
    /\ BundlesKnown
    /\ OneActive
    /\ RevokedNeverLive
    /\ OnlyVerifiedRan
    /\ PendingHasBytes

-----------------------------------------------------------------------------
(* Changing statuses keeps the records in their places.                     *)
LEMMA WithStatusFacts ==
    ASSUME TypeOK, NEW D, NEW s \in DeploymentStatus
    PROVE  /\ WithStatus(D, s) \in Seq(Deployment)
           /\ Len(WithStatus(D, s)) = Len(deployments)
           /\ DOMAIN WithStatus(D, s) = DOMAIN deployments
           /\ \A d \in DOMAIN deployments :
                WithStatus(D, s)[d] =
                    IF d \in D THEN [deployments[d] EXCEPT !.status = s] ELSE deployments[d]
<1>1. deployments \in Seq(Deployment)
  BY DEF TypeOK
<1>2. \A d \in DOMAIN deployments :
        [deployments[d] EXCEPT !.status = s] \in Deployment
  <2> TAKE d \in DOMAIN deployments
  <2>1. deployments[d] \in Deployment
    BY <1>1
  <2> QED
    BY <2>1 DEF Deployment
<1>3. DOMAIN deployments = 1 .. Len(deployments)
  BY <1>1
<1>4. WithStatus(D, s) \in [1 .. Len(deployments) -> Deployment]
  BY <1>1, <1>2, <1>3 DEF WithStatus
<1>5. WithStatus(D, s) \in Seq(Deployment) /\ Len(WithStatus(D, s)) = Len(deployments)
  BY <1>1, <1>4
<1> QED
  BY <1>3, <1>5 DEF WithStatus

(* A push adds one record after the others.                                 *)
LEMMA PushFacts ==
    ASSUME TypeOK, NEW records \in Seq(Deployment), Len(records) = Len(deployments),
           NEW record \in Deployment, pushDeployment(records, record)
    PROVE  /\ deployments' \in Seq(Deployment)
           /\ DOMAIN deployments = 1 .. Len(deployments)
           /\ DOMAIN deployments' = 1 .. Len(deployments) + 1
           /\ Len(deployments') = Len(deployments) + 1
           /\ \A d \in 1 .. Len(deployments) : deployments'[d] = records[d]
           /\ deployments'[Len(deployments) + 1] = record
BY DEF TypeOK, pushDeployment

(* A record changes only its status.                                        *)
Restatused(r, q, status) ==
    /\ q.pluginId = r.pluginId
    /\ q.serverId = r.serverId
    /\ q.bundleId = r.bundleId
    /\ q.status = status

LEMMA WithStatusFields ==
    ASSUME TypeOK, NEW D, NEW s \in DeploymentStatus, NEW d \in DOMAIN deployments
    PROVE  Restatused(deployments[d], WithStatus(D, s)[d],
                      IF d \in D THEN s ELSE deployments[d].status)
<1>1. deployments[d] \in Deployment
  BY DEF TypeOK
<1>2. WithStatus(D, s)[d] = IF d \in D THEN [deployments[d] EXCEPT !.status = s]
                            ELSE deployments[d]
  BY WithStatusFacts
<1> QED
  BY <1>1, <1>2 DEF Restatused, Deployment

(* What is already known is what DropBytes keeps.                           *)
LEMMA DropBytesFacts ==
    ASSUME TypeOK, NEW D
    PROVE  /\ DOMAIN DropBytes(D) = DOMAIN pendingBundleBytes \ D
           /\ DropBytes(D) \in [DOMAIN DropBytes(D) -> Bytes]
BY DEF TypeOK, DropBytes

-----------------------------------------------------------------------------
LEMMA InitIInv == Init => IInv
BY DEF Init, IInv, TypeOK, BundlesKnown, OneActive, RevokedNeverLive, OnlyVerifiedRan,
       PendingHasBytes, Actionable, Bundle, FetchingCall

(* Records keep their plugin, server and bundle.                            *)
RecordsKept ==
    \A d \in DOMAIN deployments :
        /\ d \in DOMAIN deployments'
        /\ deployments'[d].pluginId = deployments[d].pluginId
        /\ deployments'[d].serverId = deployments[d].serverId
        /\ deployments'[d].bundleId = deployments[d].bundleId

(* At most one active record per key survives a step that activates at most *)
(* one record and leaves no other record of its key active.                 *)
LEMMA OneActiveKept ==
    ASSUME OneActive, RecordsKept, NEW x,
           \A d \in DOMAIN deployments' \ {x} :
                deployments'[d].status = "active" =>
                    d \in DOMAIN deployments /\ deployments[d].status = "active",
           \A d \in DOMAIN deployments' \ {x} :
                x \in DOMAIN deployments' /\ deployments'[x].status = "active"
                    /\ deployments'[d].status = "active" => KeyOf(d)' # KeyOf(x)'
    PROVE  OneActive'
<1>1. \A d \in DOMAIN deployments : KeyOf(d)' = KeyOf(d)
  BY DEF RecordsKept, KeyOf
<1> QED
  BY <1>1 DEF OneActive, HasStatus

(* What the invariant says of one record: its bundle is known, can be       *)
(* trusted while the record is live, was verified if it ran, and its bytes  *)
(* are kept while it is pending.                                            *)
GoodRecord(d) ==
    /\ deployments[d].bundleId \in DOMAIN bundlesById
    /\ deployments[d].status \in {"active", "pending"} =>
            isRestorableBundle(deployments[d].bundleId)
    /\ deployments[d].status \in {"active", "rolled_back"} =>
            /\ bundlesById[deployments[d].bundleId].signed
            /\ bundlesById[deployments[d].bundleId].sandboxApproved
    /\ deployments[d].status = "pending" => d \in DOMAIN pendingBundleBytes

LEMMA RecordStep ==
    ASSUME TypeOK', OneActive', \A d \in DOMAIN deployments' : GoodRecord(d)'
    PROVE  IInv'
BY DEF IInv, BundlesKnown, RevokedNeverLive, OnlyVerifiedRan, PendingHasBytes, HasStatus,
       Actionable, GoodRecord

LEMMA RecordFacts ==
    ASSUME IInv
    PROVE  \A d \in DOMAIN deployments : GoodRecord(d) /\ deployments[d] \in Deployment
BY DEF IInv, TypeOK, BundlesKnown, RevokedNeverLive, OnlyVerifiedRan, PendingHasBytes,
       HasStatus, Actionable, GoodRecord

-----------------------------------------------------------------------------
(* The two ways a step may move records, as equalities of whole records.    *)
Moved(r, q) ==
    \/ q = r
    \/ /\ q = [r EXCEPT !.status = q.status]
       /\ <<r.status, q.status>> \in StatusMoves

AllMoved ==
    \A d \in DOMAIN deployments :
        d \in DOMAIN deployments' /\ Moved(deployments[d], deployments'[d])

(* Restatused records of the same type are equal up to the status.          *)
LEMMA RestatusedMoved ==
    ASSUME NEW r \in Deployment, NEW q \in Deployment, Restatused(r, q, q.status),
           q.status = r.status \/ <<r.status, q.status>> \in StatusMoves
    PROVE  Moved(r, q)
BY DEF Moved, Restatused, Deployment

(* An active record may retire while another is pushed.                     *)
Retired(r, q) ==
    /\ Restatused(r, q, q.status)
    /\ \/ q.status = r.status
       \/ r.status = "active" /\ q.status \in {"rolled_back", "failed"}

(* Pushed records aside, a push moves records as its first argument does.   *)
LEMMA PushMoves ==
    ASSUME IInv, NEW old \in Seq(Deployment), Len(old) = Len(deployments),
           NEW new \in Deployment, pushDeployment(old, new),
           \A d \in DOMAIN deployments : Retired(deployments[d], old[d])
    PROVE  AllMoved
<1> SUFFICES ASSUME NEW d \in DOMAIN deployments
             PROVE  d \in DOMAIN deployments' /\ Moved(deployments[d], deployments'[d])
  BY DEF AllMoved
<1>1. /\ d \in DOMAIN deployments'
      /\ deployments'[d] = old[d]
      /\ old[d] \in Deployment
      /\ deployments[d] \in Deployment
  BY PushFacts DEF IInv, TypeOK
<1>2. \/ old[d].status = deployments[d].status
      \/ <<deployments[d].status, old[d].status>> \in StatusMoves
  BY DEF Retired, StatusMoves
<1> QED
  BY <1>1, <1>2, RestatusedMoved DEF Retired

-----------------------------------------------------------------------------
(* Pushing one record keeps the invariant when the older records at most    *)
(* retire, the new one is good, and no other of its key stays active.       *)
LEMMA PushStep ==
    ASSUME IInv, TypeOK', UNCHANGED <<bundlesById, revokedSignerIds>>,
           NEW old \in Seq(Deployment), Len(old) = Len(deployments),
           NEW new \in Deployment, pushDeployment(old, new),
           NEW n \in Nat, n = Len(deployments),
           \A d \in DOMAIN deployments : Retired(deployments[d], old[d]),
           \A d \in DOMAIN deployments : old[d].status = "pending"
                /\ d \in DOMAIN pendingBundleBytes => d \in DOMAIN pendingBundleBytes',
           new.bundleId \in DOMAIN bundlesById,
           new.status \in {"active", "pending"} => isRestorableBundle(new.bundleId),
           new.status \in {"active", "rolled_back"} =>
                /\ bundlesById[new.bundleId].signed
                /\ bundlesById[new.bundleId].sandboxApproved,
           new.status = "pending" => n + 1 \in DOMAIN pendingBundleBytes',
           new.status = "active" =>
                \A d \in DOMAIN deployments : old[d].status = "active" =>
                    KeyOf(d) # deploymentKey(new.pluginId, new.serverId)
    PROVE  IInv' /\ AllMoved
<1>1. /\ DOMAIN deployments = 1 .. n
      /\ DOMAIN deployments' = 1 .. n + 1
      /\ \A d \in 1 .. n : deployments'[d] = old[d]
      /\ deployments'[n + 1] = new
  BY PushFacts DEF IInv
<1>2. \A d \in 1 .. n : Retired(deployments[d], deployments'[d])
  BY <1>1
<1>3. \A d \in DOMAIN deployments' \ {n + 1} : d \in 1 .. n /\ d \in DOMAIN deployments
  BY <1>1
<1>4. RecordsKept
  BY <1>1, <1>2 DEF RecordsKept, Retired, Restatused
<1>5. OneActive'
  <2>1. \A d \in DOMAIN deployments' \ {n + 1} :
            deployments'[d].status = "active" =>
                d \in DOMAIN deployments /\ deployments[d].status = "active"
    BY <1>2, <1>3 DEF Retired
  <2>2. ASSUME NEW d \in DOMAIN deployments' \ {n + 1}, deployments'[d].status = "active",
               deployments'[n + 1].status = "active"
        PROVE  KeyOf(d)' # KeyOf(n + 1)'
    <3>1. KeyOf(d) # deploymentKey(new.pluginId, new.serverId)
      BY <1>1, <1>3, <2>2
    <3>2. KeyOf(d)' = KeyOf(d)
      BY <1>3, <1>4 DEF KeyOf, RecordsKept
    <3>3. KeyOf(n + 1)' = deploymentKey(new.pluginId, new.serverId)
      BY <1>1 DEF KeyOf
    <3> QED
      BY <3>1, <3>2, <3>3
  <2> QED
    BY <1>4, <2>1, <2>2, OneActiveKept DEF IInv
<1>6. ASSUME NEW d \in DOMAIN deployments'
      PROVE  GoodRecord(d)'
  <2>1. CASE d = n + 1
    BY <1>1, <2>1 DEF GoodRecord, isRestorableBundle, IsRegistered, SignerRevoked
  <2>2. CASE d # n + 1
    <3>1. GoodRecord(d)
      BY <1>3, <2>2, RecordFacts
    <3>2. Retired(deployments[d], deployments'[d]) /\ deployments'[d] = old[d]
      BY <1>1, <1>2, <1>3, <2>2
    <3> QED
      BY <1>3, <2>2, <3>1, <3>2
         DEF GoodRecord, Retired, Restatused, isRestorableBundle, IsRegistered, SignerRevoked
  <2> QED
    BY <2>1, <2>2
<1> QED
  BY <1>5, <1>6, RecordStep, PushMoves

LEMMA DeployIInv ==
    ASSUME IInv, NEW p \in PluginIds, NEW s \in ServerIds, NEW b \in BundleIds,
           NEW bytes \in Bytes, Deploy(p, s, b, bytes), fetching' \subseteq fetching
    PROVE  IInv' /\ AllMoved
<1>1. PICK n \in Nat : n = Len(deployments)
  BY DEF IInv, TypeOK
<1>2. b \in DOMAIN bundlesById /\ UNCHANGED <<bundlesById, revokedSignerIds, pendingBundleBytes>>
  BY DEF Deploy, requireBundle, IsRegistered
<1>3. deployments \in Seq(Deployment) /\ TypeOK
  BY DEF IInv, TypeOK
<1>4. ASSUME NEW old \in Seq(Deployment), Len(old) = Len(deployments), NEW new \in Deployment,
             pushDeployment(old, new)
      PROVE  TypeOK'
  BY <1>2, <1>3, <1>4, PushFacts DEF TypeOK
<1>5. CASE verifyDeploymentActivation(b, bytes)
  <2> DEFINE old == supersedeActiveDeployments(p, s)
             new == Record(p, s, b, "active")
  <2>1. new \in Deployment /\ new.bundleId = b /\ new.status = "active"
        /\ new.pluginId = p /\ new.serverId = s
    BY DEF Deployment, Record, DeploymentStatus
  <2>2. old \in Seq(Deployment) /\ Len(old) = Len(deployments)
    BY <1>3, WithStatusFacts DEF supersedeActiveDeployments, DeploymentStatus
  <2>3. pushDeployment(old, new)
    BY <1>5 DEF Deploy
  <2>4. \A d \in DOMAIN deployments :
            Restatused(deployments[d], old[d],
                IF d \in ActiveIn(p, s) THEN "rolled_back" ELSE deployments[d].status)
    BY <1>3, WithStatusFields DEF supersedeActiveDeployments, DeploymentStatus
  <2>5. \A d \in DOMAIN deployments : Retired(deployments[d], old[d])
    BY <2>4 DEF Retired, Restatused, ActiveIn, HasStatus
  <2>6. \A d \in DOMAIN deployments : old[d].status = "active" => KeyOf(d) # deploymentKey(p, s)
    BY <2>4 DEF Restatused, ActiveIn, getHistory, HasStatus
  <2>7. isRestorableBundle(b) /\ bundlesById[b].signed /\ bundlesById[b].sandboxApproved
    BY <1>5 DEF Deploy, requireBundle, verifyDeploymentActivation, isRestorableBundle
  <2> HIDE DEF old, new
  <2> QED
    BY <1>1, <1>2, <1>4, <2>1, <2>2, <2>3, <2>5, <2>6, <2>7, PushStep
<1>6. CASE ~verifyDeploymentActivation(b, bytes)
  <2> DEFINE new == Record(p, s, b, "failed")
  <2>1. new \in Deployment /\ new.bundleId = b /\ new.status = "failed"
    BY DEF Deployment, Record, DeploymentStatus
  <2>2. pushDeployment(deployments, new)
    BY <1>6 DEF Deploy
  <2>3. \A d \in DOMAIN deployments : Retired(deployments[d], deployments[d])
    BY DEF Retired, Restatused
  <2> HIDE DEF new
  <2> QED
    BY <1>1, <1>2, <1>3, <1>4, <2>1, <2>2, <2>3, PushStep
<1> QED
  BY <1>5, <1>6

LEMMA RequestIInv ==
    ASSUME IInv, NEW p \in PluginIds, NEW s \in ServerIds, NEW b \in BundleIds,
           NEW bytes \in Bytes, Request(p, s, b, bytes), fetching' \subseteq fetching
    PROVE  IInv' /\ AllMoved
<1> DEFINE new == Record(p, s, b, "pending")
<1>1. PICK n \in Nat : n = Len(deployments)
  BY DEF IInv, TypeOK
<1>2. /\ b \in DOMAIN bundlesById
      /\ UNCHANGED <<bundlesById, revokedSignerIds>>
      /\ isRestorableBundle(b)
  BY DEF Request, requireBundle, IsRegistered, isRestorableBundle
<1>3. deployments \in Seq(Deployment) /\ TypeOK
  BY DEF IInv, TypeOK
<1>4. new \in Deployment /\ new.bundleId = b /\ new.status = "pending"
  BY DEF Deployment, Record, DeploymentStatus
<1>5. pushDeployment(deployments, new)
  BY DEF Request
<1>6. /\ DOMAIN pendingBundleBytes' = DOMAIN pendingBundleBytes \cup {n + 1}
      /\ pendingBundleBytes' \in [DOMAIN pendingBundleBytes' -> Bytes]
  BY <1>1, <1>3 DEF Request, TypeOK
<1>7. \A d \in DOMAIN deployments : Retired(deployments[d], deployments[d])
  BY DEF Retired, Restatused
<1> HIDE DEF new
<1>8. TypeOK'
  BY <1>1, <1>2, <1>3, <1>4, <1>5, <1>6, PushFacts DEF TypeOK
<1> QED
  BY <1>1, <1>2, <1>3, <1>4, <1>5, <1>6, <1>7, <1>8, PushStep

-----------------------------------------------------------------------------
(* A step that only fails or kills records keeps the invariant when every   *)
(* record it leaves live still has a bundle to trust.                       *)
LEMMA StopStep ==
    ASSUME IInv, TypeOK', DOMAIN deployments' = DOMAIN deployments,
           \A d \in DOMAIN deployments :
                /\ Restatused(deployments[d], deployments'[d], deployments'[d].status)
                /\ \/ deployments'[d].status = deployments[d].status
                   \/ /\ deployments[d].status \in {"active", "pending"}
                      /\ deployments'[d].status \in {"failed", "killed"}
                /\ deployments'[d].status \in {"active", "pending"} =>
                        isRestorableBundle(deployments[d].bundleId)'
                /\ deployments'[d].status = "pending" /\ d \in DOMAIN pendingBundleBytes =>
                        d \in DOMAIN pendingBundleBytes',
           \A b \in DOMAIN bundlesById :
                /\ b \in DOMAIN bundlesById'
                /\ bundlesById'[b].signed = bundlesById[b].signed
                /\ bundlesById'[b].sandboxApproved = bundlesById[b].sandboxApproved
    PROVE  IInv' /\ AllMoved
<1>1. OneActive'
  BY DEF IInv, OneActive, HasStatus, KeyOf, Restatused
<1>2. ASSUME NEW d \in DOMAIN deployments'
      PROVE  GoodRecord(d)'
  <2>1. GoodRecord(d)
    BY RecordFacts
  <2> QED
    BY <2>1 DEF GoodRecord, Restatused
<1>3. ASSUME NEW d \in DOMAIN deployments
      PROVE  Moved(deployments[d], deployments'[d])
  <2>1. deployments[d] \in Deployment /\ deployments'[d] \in Deployment
    BY DEF IInv, TypeOK
  <2> QED
    BY <2>1, RestatusedMoved DEF StatusMoves
<1> QED
  BY <1>1, <1>2, <1>3, RecordStep DEF AllMoved

(* What Kill leaves of the records and of the pending bytes.                *)
LEMMA KillFacts ==
    ASSUME IInv, NEW D, Kill(D)
    PROVE  /\ deployments' \in Seq(Deployment)
           /\ DOMAIN deployments' = DOMAIN deployments
           /\ DOMAIN pendingBundleBytes' \subseteq DOMAIN pendingBundleBytes
           /\ pendingBundleBytes' \in [DOMAIN pendingBundleBytes' -> Bytes]
           /\ \A d \in DOMAIN deployments :
                /\ Restatused(deployments[d], deployments'[d], deployments'[d].status)
                /\ (deployments'[d].status = deployments[d].status
                     \/ (deployments[d].status \in {"active", "pending"}
                         /\ deployments'[d].status = "killed"))
                /\ d \in D => deployments'[d].status \notin {"active", "pending"}
                /\ d \notin D => deployments'[d] = deployments[d]
                /\ deployments'[d].status = "pending" /\ d \in DOMAIN pendingBundleBytes =>
                        d \in DOMAIN pendingBundleBytes'
<1>1. TypeOK /\ "killed" \in DeploymentStatus
  BY DEF IInv, DeploymentStatus
<1>2. /\ deployments' \in Seq(Deployment)
      /\ DOMAIN deployments' = DOMAIN deployments
      /\ \A d \in DOMAIN deployments :
            d \notin D \cap Actionable => deployments'[d] = deployments[d]
  <2> DEFINE E == D \cap Actionable
             W == WithStatus(E, "killed")
  <2>1. deployments' = W
    BY DEF Kill
  <2> HIDE DEF E
  <2>2. W \in Seq(Deployment) /\ DOMAIN W = DOMAIN deployments
    BY <1>1, WithStatusFacts
  <2>3. \A d \in DOMAIN deployments : d \notin E => W[d] = deployments[d]
    BY DEF WithStatus
  <2> HIDE DEF W
  <2> QED
    BY <2>1, <2>2, <2>3 DEF E
<1>3. \A d \in DOMAIN deployments :
        Restatused(deployments[d], deployments'[d],
                   IF d \in D \cap Actionable THEN "killed" ELSE deployments[d].status)
  BY <1>1, WithStatusFields DEF Kill
<1>4. /\ DOMAIN pendingBundleBytes' = DOMAIN pendingBundleBytes \ (D \cap Actionable)
      /\ pendingBundleBytes' \in [DOMAIN pendingBundleBytes' -> Bytes]
  BY <1>1, DropBytesFacts DEF Kill
<1>5. ASSUME NEW d \in DOMAIN deployments
      PROVE  /\ Restatused(deployments[d], deployments'[d], deployments'[d].status)
             /\ (deployments'[d].status = deployments[d].status
                  \/ (deployments[d].status \in {"active", "pending"}
                      /\ deployments'[d].status = "killed"))
             /\ d \in D => deployments'[d].status \notin {"active", "pending"}
             /\ d \notin D => deployments'[d] = deployments[d]
             /\ deployments'[d].status = "pending" /\ d \in DOMAIN pendingBundleBytes =>
                        d \in DOMAIN pendingBundleBytes'
  <2>1. CASE d \in D \cap Actionable
    BY <1>3, <2>1 DEF Restatused, Actionable, HasStatus
  <2>2. CASE d \notin D \cap Actionable
    <3>1. deployments'[d] = deployments[d]
      BY <1>2, <2>2
    <3>2. d \in D => deployments[d].status \notin {"active", "pending"}
      BY <2>2 DEF Actionable, HasStatus
    <3> QED
      <4>1. d \in DOMAIN pendingBundleBytes => d \in DOMAIN pendingBundleBytes'
        BY <1>4, <2>2
      <4> QED
        BY <3>1, <3>2, <4>1 DEF Restatused
  <2> QED
    BY <2>1, <2>2
<1> QED
  BY <1>2, <1>4, <1>5

LEMMA KillSwitchIInv ==
    ASSUME IInv, NEW p \in PluginIds, killSwitch(p)
    PROVE  IInv' /\ AllMoved
<1> DEFINE D == {d \in DOMAIN deployments : deployments[d].pluginId = p}
<1>1. Kill(D) /\ UNCHANGED <<bundlesById, revokedSignerIds, fetching>>
  BY DEF killSwitch
<1> HIDE DEF D
<1>2. TypeOK'
  BY <1>1, KillFacts DEF IInv, TypeOK
<1>3. ASSUME NEW d \in DOMAIN deployments, deployments'[d].status \in {"active", "pending"}
      PROVE  isRestorableBundle(deployments[d].bundleId)'
  <2>1. deployments[d].status \in {"active", "pending"}
    BY <1>1, <1>3, KillFacts
  <2>2. isRestorableBundle(deployments[d].bundleId)
    BY <2>1, RecordFacts DEF GoodRecord
  <2>3. deployments'[d].bundleId = deployments[d].bundleId
    BY <1>1, KillFacts DEF Restatused
  <2> QED
    BY <1>1, <2>2, <2>3 DEF isRestorableBundle, IsRegistered, SignerRevoked
<1> QED
  BY <1>1, <1>2, <1>3, KillFacts, StopStep

LEMMA RevokeSignerIInv ==
    ASSUME IInv, NEW signer \in SignerIds, revokeSigner(signer)
    PROVE  IInv' /\ AllMoved
<1> DEFINE D == {d \in DOMAIN deployments :
                    bundlesById[deployments[d].bundleId].signerId = signer}
<1>1. /\ Kill(D)
      /\ revokedSignerIds' = revokedSignerIds \cup {signer}
      /\ UNCHANGED <<bundlesById, fetching>>
  BY DEF revokeSigner
<1>2. \A d \in DOMAIN deployments :
        bundlesById[deployments[d].bundleId].signerId = signer => d \in D
  OBVIOUS
<1> HIDE DEF D
<1>3. TypeOK'
  BY <1>1, KillFacts DEF IInv, TypeOK
<1>4. ASSUME NEW d \in DOMAIN deployments, deployments'[d].status \in {"active", "pending"}
      PROVE  isRestorableBundle(deployments[d].bundleId)'
  <2>1. d \notin D /\ deployments'[d] = deployments[d]
    BY <1>1, <1>4, KillFacts
  <2>2. isRestorableBundle(deployments[d].bundleId)
    BY <1>4, <2>1, RecordFacts DEF GoodRecord
  <2>3. bundlesById[deployments[d].bundleId].signerId # signer
    BY <1>2, <2>1
  <2> QED
    BY <1>1, <2>1, <2>2, <2>3 DEF isRestorableBundle, IsRegistered, SignerRevoked
<1> QED
  BY <1>1, <1>3, <1>4, KillFacts, StopStep

LEMMA RevokeBundleIInv ==
    ASSUME IInv, NEW b \in BundleIds, revokeBundle(b)
    PROVE  IInv' /\ AllMoved
<1> DEFINE D == {d \in DOMAIN deployments : deployments[d].bundleId = b}
<1>1. /\ Kill(D)
      /\ b \in DOMAIN bundlesById
      /\ bundlesById' = [bundlesById EXCEPT ![b].status = "revoked"]
      /\ UNCHANGED <<revokedSignerIds, fetching>>
  BY DEF revokeBundle, IsRegistered
<1>2. \A d \in DOMAIN deployments : deployments[d].bundleId = b => d \in D
  OBVIOUS
<1> HIDE DEF D
<1>3. /\ DOMAIN bundlesById' = DOMAIN bundlesById
      /\ \A c \in DOMAIN bundlesById :
            /\ bundlesById'[c].signed = bundlesById[c].signed
            /\ bundlesById'[c].sandboxApproved = bundlesById[c].sandboxApproved
            /\ bundlesById'[c] \in Bundle
            /\ c # b => bundlesById'[c] = bundlesById[c]
  <2>1. bundlesById[b] \in Bundle /\ \A c \in DOMAIN bundlesById : bundlesById[c] \in Bundle
    BY <1>1 DEF IInv, TypeOK
  <2> QED
    BY <1>1, <2>1 DEF Bundle, BundleStatus
<1>4. bundlesById' \in [DOMAIN bundlesById' -> Bundle]
  BY <1>1, <1>3
<1>5. TypeOK'
  BY <1>1, <1>3, <1>4, KillFacts DEF IInv, TypeOK
<1>6. ASSUME NEW d \in DOMAIN deployments, deployments'[d].status \in {"active", "pending"}
      PROVE  isRestorableBundle(deployments[d].bundleId)'
  <2>1. d \notin D /\ deployments'[d] = deployments[d]
    BY <1>1, <1>6, KillFacts
  <2>2. isRestorableBundle(deployments[d].bundleId)
    BY <1>6, <2>1, RecordFacts DEF GoodRecord
  <2>3. deployments[d].bundleId # b
    BY <1>2, <2>1
  <2> QED
    BY <1>1, <1>3, <2>1, <2>2, <2>3 DEF isRestorableBundle, IsRegistered, SignerRevoked
<1> QED
  BY <1>1, <1>3, <1>5, <1>6, KillFacts, StopStep

LEMMA RegisterBundleIInv ==
    ASSUME IInv, NEW input \in BundleInputs, registerBundle(input)
    PROVE  IInv' /\ AllMoved
<1>1. input \in BundleInput
  BY DeploymentAssumption
<1>2. /\ input.id \notin DOMAIN bundlesById
      /\ DOMAIN bundlesById' = DOMAIN bundlesById \cup {input.id}
      /\ \A c \in DOMAIN bundlesById : bundlesById'[c] = bundlesById[c]
      /\ UNCHANGED <<deployments, revokedSignerIds, pendingBundleBytes, fetching>>
  BY DEF registerBundle
<1>3. bundlesById'[input.id] \in Bundle
  BY <1>1 DEF registerBundle, BundleInput, Bundle, BundleStatus
<1>4. TypeOK'
  <2>1. TypeOK
    BY DEF IInv
  <2>2. DOMAIN bundlesById' \subseteq BundleIds
    BY <1>1, <1>2, <2>1 DEF TypeOK, BundleInput
  <2>3. bundlesById' \in [DOMAIN bundlesById' -> Bundle]
    <3>1. \A c \in DOMAIN bundlesById' : bundlesById'[c] \in Bundle
      BY <1>2, <1>3, <2>1 DEF TypeOK
    <3> QED
      BY <3>1 DEF registerBundle
  <2> QED
    BY <1>2, <2>1, <2>2, <2>3 DEF TypeOK
<1>5. ASSUME NEW d \in DOMAIN deployments, deployments'[d].status \in {"active", "pending"}
      PROVE  isRestorableBundle(deployments[d].bundleId)'
  <2>1. isRestorableBundle(deployments[d].bundleId) /\ deployments' = deployments
    BY <1>2, <1>5, RecordFacts DEF GoodRecord
  <2> QED
    BY <1>2, <2>1 DEF isRestorableBundle, IsRegistered, SignerRevoked
<1>6. \A d \in DOMAIN deployments :
        Restatused(deployments[d], deployments'[d], deployments'[d].status)
  BY <1>2 DEF Restatused
<1> QED
  BY <1>2, <1>4, <1>5, <1>6, StopStep

-----------------------------------------------------------------------------
LEMMA RollbackIInv ==
    ASSUME IInv, NEW p \in PluginIds, NEW s \in ServerIds, rollback(p, s)
    PROVE  IInv' /\ AllMoved
<1>1. PICK a \in DOMAIN deployments, q \in DOMAIN deployments :
        /\ IsLatest(a, ActiveIn(p, s))
        /\ IsLatest(q, Restorable(p, s, a))
        /\ pushDeployment(WithStatus({a}, "rolled_back"),
                          Record(p, s, deployments[q].bundleId, "active"))
  BY DEF rollback
<1>2. UNCHANGED <<bundlesById, revokedSignerIds, pendingBundleBytes, fetching>>
  BY DEF rollback
<1>3. TypeOK /\ "rolled_back" \in DeploymentStatus
  BY DEF IInv, DeploymentStatus
<1> DEFINE old == WithStatus({a}, "rolled_back")
           b == deployments[q].bundleId
           new == Record(p, s, b, "active")
<1>4. /\ b \in DOMAIN bundlesById
      /\ isRestorableBundle(b)
      /\ bundlesById[b].signed /\ bundlesById[b].sandboxApproved
  BY <1>1, RecordFacts DEF IsLatest, Restorable, HasStatus, GoodRecord
<1>5. new \in Deployment /\ new.bundleId = b /\ new.status = "active"
      /\ new.pluginId = p /\ new.serverId = s
  BY RecordFacts DEF Deployment, Record, DeploymentStatus
<1>6. old \in Seq(Deployment) /\ Len(old) = Len(deployments)
  BY <1>3, WithStatusFacts
<1>7. \A d \in DOMAIN deployments :
        Restatused(deployments[d], old[d],
                   IF d \in {a} THEN "rolled_back" ELSE deployments[d].status)
  BY <1>3, WithStatusFields
<1>8. a \in ActiveIn(p, s)
  BY <1>1 DEF IsLatest
<1>9. \A d \in DOMAIN deployments : Retired(deployments[d], old[d])
  BY <1>7, <1>8 DEF Retired, Restatused, ActiveIn, HasStatus
<1>10. \A d \in DOMAIN deployments : old[d].status = "active" => KeyOf(d) # deploymentKey(p, s)
  BY <1>7, <1>8 DEF Restatused, ActiveIn, getHistory, HasStatus, IInv, OneActive
<1> HIDE DEF old, new, b
<1>11. pushDeployment(old, new)
  BY <1>1 DEF old, new, b
<1>12. TypeOK'
  BY <1>2, <1>3, <1>5, <1>6, <1>11, PushFacts DEF TypeOK
<1>13. PICK n \in Nat : n = Len(deployments)
  BY <1>3 DEF TypeOK
<1> QED
  BY <1>2, <1>4, <1>5, <1>6, <1>9, <1>10, <1>11, <1>12, <1>13, PushStep

LEMMA FailIInv ==
    ASSUME IInv, NEW x \in DOMAIN deployments, failDeployment(x)
    PROVE  IInv' /\ AllMoved
<1> DEFINE failed == WithStatus({x}, "failed")
           r == deployments[x]
<1>1. /\ UNCHANGED <<bundlesById, revokedSignerIds, fetching>>
      /\ pendingBundleBytes' = DropBytes({x})
      /\ r.status \in {"active", "pending"}
  BY DEF failDeployment, HasStatus
<1>2. TypeOK /\ "failed" \in DeploymentStatus
  BY DEF IInv, DeploymentStatus
<1>3. /\ DOMAIN pendingBundleBytes' = DOMAIN pendingBundleBytes \ {x}
      /\ pendingBundleBytes' \in [DOMAIN pendingBundleBytes' -> Bytes]
  BY <1>1, <1>2, DropBytesFacts
<1>4. failed \in Seq(Deployment) /\ Len(failed) = Len(deployments)
      /\ DOMAIN failed = DOMAIN deployments
  BY <1>2, WithStatusFacts
<1>5. \A d \in DOMAIN deployments :
        Restatused(deployments[d], failed[d],
                   IF d \in {x} THEN "failed" ELSE deployments[d].status)
  BY <1>2, WithStatusFields
<1>6. CASE deployments' = failed
  <2> HIDE DEF failed
  <2>1. TypeOK'
    BY <1>1, <1>2, <1>3, <1>4, <1>6 DEF TypeOK
  <2>2. ASSUME NEW d \in DOMAIN deployments, deployments'[d].status \in {"active", "pending"}
        PROVE  isRestorableBundle(deployments[d].bundleId)'
    <3>1. /\ deployments'[d].bundleId = deployments[d].bundleId
          /\ deployments[d].status \in {"active", "pending"}
      BY <1>5, <1>6, <2>2 DEF Restatused
    <3>2. isRestorableBundle(deployments[d].bundleId)
      BY <3>1, RecordFacts DEF GoodRecord
    <3> QED
      BY <1>1, <3>1, <3>2 DEF isRestorableBundle, IsRegistered, SignerRevoked
  <2>3. \A d \in DOMAIN deployments :
            /\ Restatused(deployments[d], deployments'[d], deployments'[d].status)
            /\ \/ deployments'[d].status = deployments[d].status
               \/ /\ deployments[d].status \in {"active", "pending"}
                  /\ deployments'[d].status = "failed"
            /\ deployments'[d].status = "pending" /\ d \in DOMAIN pendingBundleBytes =>
                    d \in DOMAIN pendingBundleBytes'
    BY <1>1, <1>3, <1>5, <1>6 DEF Restatused
  <2> QED
    BY <1>1, <1>4, <1>6, <2>1, <2>2, <2>3, StopStep
<1>7. ASSUME r.status = "active", NEW q \in Restorable(r.pluginId, r.serverId, x),
             pushDeployment(failed, Record(r.pluginId, r.serverId,
                                           deployments[q].bundleId, "active"))
      PROVE  IInv' /\ AllMoved
  <2> DEFINE b == deployments[q].bundleId
             new == Record(r.pluginId, r.serverId, b, "active")
  <2>1. q \in DOMAIN deployments /\ deployments[q].status \in {"active", "rolled_back"}
    BY DEF Restorable, getHistory, HasStatus
  <2>2. /\ b \in DOMAIN bundlesById
        /\ isRestorableBundle(b)
        /\ bundlesById[b].signed /\ bundlesById[b].sandboxApproved
    BY <2>1, RecordFacts DEF Restorable, GoodRecord
  <2>3. new \in Deployment /\ new.bundleId = b /\ new.status = "active"
        /\ new.pluginId = r.pluginId /\ new.serverId = r.serverId
    BY <2>1, RecordFacts DEF Deployment, Record, DeploymentStatus
  <2>4. \A d \in DOMAIN deployments : Retired(deployments[d], failed[d])
    BY <1>5, <1>7 DEF Retired, Restatused
  <2>5. \A d \in DOMAIN deployments :
            failed[d].status = "active" => KeyOf(d) # deploymentKey(r.pluginId, r.serverId)
    <3>1. OneActive /\ KeyOf(x) = deploymentKey(r.pluginId, r.serverId)
      BY DEF IInv, KeyOf
    <3>2. \A d \in DOMAIN deployments :
            failed[d].status = "active" => d # x /\ deployments[d].status = "active"
      BY <1>5 DEF Restatused
    <3> QED
      BY <1>7, <3>1, <3>2 DEF OneActive, HasStatus
  <2> HIDE DEF failed, new, b
  <2>6. pushDeployment(failed, new)
    BY <1>7 DEF new, b
  <2>7. TypeOK'
    <3>1. deployments' \in Seq(Deployment) /\ DOMAIN deployments \subseteq DOMAIN deployments'
      BY <1>2, <1>4, <2>3, <2>6, PushFacts
    <3> QED
      BY <1>1, <1>2, <1>3, <3>1 DEF TypeOK
  <2>8. PICK n \in Nat : n = Len(deployments)
    BY <1>2 DEF TypeOK
  <2>9. \A d \in DOMAIN deployments : failed[d].status = "pending"
            /\ d \in DOMAIN pendingBundleBytes => d \in DOMAIN pendingBundleBytes'
    BY <1>3, <1>5 DEF Restatused
  <2> HIDE DEF r
  <2> QED
    BY <1>1, <1>4, <2>2, <2>3, <2>4, <2>5, <2>6, <2>7, <2>8, <2>9, PushStep
<1> HIDE DEF failed
<1>8. CASE r.status = "pending"
  BY <1>6, <1>8 DEF failDeployment, HasStatus, failed
<1>9. CASE r.status = "active"
  <2>1. restorePreviousActiveDeployment(x, failed)
    BY <1>9 DEF failDeployment, HasStatus, failed
  <2> QED
    BY <1>6, <1>7, <1>9, <2>1 DEF restorePreviousActiveDeployment
<1> QED
  BY <1>1, <1>8, <1>9

LEMMA ApproveIInv ==
    ASSUME IInv, NEW x \in DOMAIN deployments, approveDeployment(x)
    PROVE  IInv' /\ AllMoved
<1> DEFINE r == deployments[x]
           b == r.bundleId
           ok == verifyDeploymentActivation(b, pendingBundleBytes[x])
           old == supersedeActiveDeployments(r.pluginId, r.serverId)
<1>1. /\ UNCHANGED <<bundlesById, revokedSignerIds, fetching>>
      /\ r.status = "pending"
      /\ isRestorableBundle(b)
      /\ x \in DOMAIN pendingBundleBytes
  BY DEF approveDeployment, HasStatus, isRestorableBundle
<1>2. TypeOK /\ {"failed", "rolled_back", "active"} \subseteq DeploymentStatus
  BY DEF IInv, DeploymentStatus
<1>3. r \in Deployment /\ GoodRecord(x)
  BY RecordFacts
<1>4. CASE ok
  <2>1. /\ deployments' = [old EXCEPT ![x].status = "active"]
        /\ pendingBundleBytes' = DropBytes({x})
    BY <1>4 DEF approveDeployment
  <2>2. old \in Seq(Deployment) /\ DOMAIN old = DOMAIN deployments
    BY <1>2, WithStatusFacts DEF supersedeActiveDeployments
  <2>3. \A d \in DOMAIN deployments :
            Restatused(deployments[d], old[d],
                IF d \in ActiveIn(r.pluginId, r.serverId) THEN "rolled_back"
                ELSE deployments[d].status)
    BY <1>2, WithStatusFields DEF supersedeActiveDeployments
  <2>4. /\ DOMAIN pendingBundleBytes' = DOMAIN pendingBundleBytes \ {x}
        /\ pendingBundleBytes' \in [DOMAIN pendingBundleBytes' -> Bytes]
    BY <1>2, <2>1, DropBytesFacts
  <2>5. bundlesById[b].signed /\ bundlesById[b].sandboxApproved
    BY <1>4 DEF verifyDeploymentActivation
  <2> HIDE DEF old, ok
  <2>6. DOMAIN deployments' = DOMAIN deployments /\ deployments' \in Seq(Deployment)
    <3>1. old[x] \in Deployment
      BY <2>2
    <3>2. [old[x] EXCEPT !.status = "active"] \in Deployment
      BY <1>2, <3>1 DEF Deployment
    <3> QED
      BY <2>1, <2>2, <3>2
  <2>7. \A d \in DOMAIN deployments :
            Restatused(deployments[d], deployments'[d],
                IF d = x THEN "active"
                ELSE IF d \in ActiveIn(r.pluginId, r.serverId) THEN "rolled_back"
                ELSE deployments[d].status)
    <3> SUFFICES ASSUME NEW d \in DOMAIN deployments
                 PROVE  Restatused(deployments[d], deployments'[d],
                            IF d = x THEN "active"
                            ELSE IF d \in ActiveIn(r.pluginId, r.serverId) THEN "rolled_back"
                            ELSE deployments[d].status)
      OBVIOUS
    <3>1. CASE d # x
      BY <2>1, <2>2, <2>3, <3>1
    <3>2. CASE d = x
      <4>1. old[x] \in Deployment
        BY <2>2
      <4>2. deployments'[x] = [old[x] EXCEPT !.status = "active"]
        BY <2>1, <2>2
      <4> QED
        BY <2>3, <3>2, <4>1, <4>2 DEF Restatused, Deployment
    <3> QED
      BY <3>1, <3>2
  <2>8. RecordsKept
    BY <2>6, <2>7 DEF RecordsKept, Restatused
  <2>9. OneActive'
    <3>1. \A d \in DOMAIN deployments' \ {x} :
            deployments'[d].status = "active" =>
                /\ d \in DOMAIN deployments
                /\ deployments[d].status = "active"
                /\ d \notin ActiveIn(r.pluginId, r.serverId)
      BY <2>6, <2>7 DEF Restatused
    <3>2. \A d \in DOMAIN deployments : KeyOf(d)' = KeyOf(d)
      BY <2>8 DEF RecordsKept, KeyOf
    <3>3. ASSUME NEW d \in DOMAIN deployments' \ {x}, deployments'[d].status = "active"
          PROVE  KeyOf(d)' # KeyOf(x)'
      <4>1. KeyOf(d) # deploymentKey(r.pluginId, r.serverId)
        BY <3>1, <3>3 DEF ActiveIn, getHistory, HasStatus
      <4> QED
        BY <3>1, <3>2, <3>3, <4>1 DEF KeyOf
    <3> QED
      BY <2>8, <3>1, <3>3, OneActiveKept DEF IInv
  <2>10. TypeOK'
    BY <1>1, <1>2, <2>4, <2>6 DEF TypeOK
  <2>11. ASSUME NEW d \in DOMAIN deployments'
         PROVE  GoodRecord(d)'
    <3>1. d \in DOMAIN deployments /\ GoodRecord(d)
      BY <2>6, RecordFacts
    <3>2. CASE d = x
      BY <1>1, <1>3, <2>5, <2>7, <3>1, <3>2
         DEF GoodRecord, Restatused, isRestorableBundle, IsRegistered, SignerRevoked
    <3>3. CASE d # x /\ d \in ActiveIn(r.pluginId, r.serverId)
      <4>1. deployments[d].status = "active"
        BY <3>3 DEF ActiveIn, HasStatus
      <4> QED
        BY <1>1, <2>7, <3>1, <3>3, <4>1 DEF GoodRecord, Restatused
    <3>4. CASE d # x /\ d \notin ActiveIn(r.pluginId, r.serverId)
      BY <1>1, <2>4, <2>7, <3>1, <3>4
         DEF GoodRecord, Restatused, isRestorableBundle, IsRegistered, SignerRevoked
    <3> QED
      BY <3>2, <3>3, <3>4
  <2>12. AllMoved
    <3> SUFFICES ASSUME NEW d \in DOMAIN deployments
                 PROVE  Moved(deployments[d], deployments'[d])
      BY <2>6 DEF AllMoved
    <3>1. deployments[d] \in Deployment /\ deployments'[d] \in Deployment
      BY <1>2, <2>6 DEF TypeOK
    <3>2. d \in ActiveIn(r.pluginId, r.serverId) => deployments[d].status = "active"
      BY DEF ActiveIn, HasStatus
    <3> QED
      BY <1>1, <2>7, <3>1, <3>2, RestatusedMoved DEF Restatused, StatusMoves
  <2> QED
    BY <2>9, <2>10, <2>11, <2>12, RecordStep
<1>5. CASE ~ok
  <2> DEFINE failed == WithStatus({x}, "failed")
  <2>1. deployments' = failed /\ UNCHANGED pendingBundleBytes
    BY <1>5 DEF approveDeployment
  <2>2. failed \in Seq(Deployment) /\ DOMAIN failed = DOMAIN deployments
    BY <1>2, WithStatusFacts
  <2>3. \A d \in DOMAIN deployments :
            Restatused(deployments[d], failed[d],
                       IF d \in {x} THEN "failed" ELSE deployments[d].status)
    BY <1>2, WithStatusFields
  <2> HIDE DEF failed
  <2>4. TypeOK'
    BY <1>1, <1>2, <2>1, <2>2 DEF TypeOK
  <2>5. ASSUME NEW d \in DOMAIN deployments, deployments'[d].status \in {"active", "pending"}
        PROVE  isRestorableBundle(deployments[d].bundleId)'
    <3>1. /\ deployments'[d].bundleId = deployments[d].bundleId
          /\ deployments[d].status \in {"active", "pending"}
      BY <2>1, <2>3, <2>5 DEF Restatused
    <3>2. isRestorableBundle(deployments[d].bundleId)
      BY <3>1, RecordFacts DEF GoodRecord
    <3> QED
      BY <1>1, <3>1, <3>2 DEF isRestorableBundle, IsRegistered, SignerRevoked
  <2>6. \A d \in DOMAIN deployments :
            /\ Restatused(deployments[d], deployments'[d], deployments'[d].status)
            /\ \/ deployments'[d].status = deployments[d].status
               \/ /\ deployments[d].status \in {"active", "pending"}
                  /\ deployments'[d].status = "failed"
    BY <1>1, <2>1, <2>3 DEF Restatused
  <2> QED
    BY <1>1, <2>1, <2>2, <2>4, <2>5, <2>6, StopStep
<1> QED
  BY <1>4, <1>5

-----------------------------------------------------------------------------
LEMMA StepIInv == IInv /\ [Next]_vars => IInv' /\ AllMoved
<1> SUFFICES ASSUME IInv, [Next]_vars PROVE IInv' /\ AllMoved
  OBVIOUS
<1>1. CASE BundleStep
  BY <1>1, RegisterBundleIInv, RevokeBundleIInv, RevokeSignerIInv DEF BundleStep
<1>2. CASE DeployStep
  <2>1. ASSUME NEW p \in PluginIds, NEW s \in ServerIds, NEW b \in BundleIds,
               NEW bytes \in Bytes, deploy(p, s, b, bytes)
        PROVE  IInv' /\ AllMoved
    BY <2>1, DeployIInv DEF deploy
  <2>2. ASSUME NEW p \in PluginIds, NEW s \in ServerIds, NEW b \in BundleIds,
               NEW bytes \in Bytes, requestDeployment(p, s, b, bytes)
        PROVE  IInv' /\ AllMoved
    BY <2>2, RequestIInv DEF requestDeployment
  <2>3. ASSUME NEW call \in fetching, NEW bytes \in Bytes, ArtifactFetched(call, bytes)
        PROVE  IInv' /\ AllMoved
    <3>1. call \in FetchingCall /\ fetching' \subseteq fetching
      BY <2>3 DEF ArtifactFetched, IInv, TypeOK
    <3>2. call.pluginId \in PluginIds /\ call.serverId \in ServerIds /\ call.bundleId \in BundleIds
      BY <3>1 DEF FetchingCall
    <3> QED
      BY <2>3, <3>1, <3>2, DeployIInv, RequestIInv DEF ArtifactFetched
  <2> QED
    BY <1>2, <2>1, <2>2, <2>3, ApproveIInv DEF DeployStep
<1>3. CASE FetchStep
  <2>1. /\ UNCHANGED <<bundlesById, deployments, revokedSignerIds, pendingBundleBytes>>
        /\ fetching' \subseteq FetchingCall
    <3>1. fetching \subseteq FetchingCall
      BY DEF IInv, TypeOK
    <3>2. ASSUME NEW m \in {"deploy", "requestDeployment"}, NEW p \in PluginIds,
                 NEW s \in ServerIds, NEW b \in BundleIds, StartFetch(m, p, s, b)
          PROVE  <2>1!:
      BY <3>1, <3>2 DEF StartFetch, FetchingCall
    <3>3. ASSUME NEW call \in fetching, ArtifactRefused(call)
          PROVE  <2>1!:
      BY <3>1, <3>3 DEF ArtifactRefused
    <3> QED
      BY <1>3, <3>2, <3>3 DEF FetchStep, deployFromArtifact, requestDeploymentFromArtifact
  <2> QED
    BY <2>1 DEF IInv, TypeOK, BundlesKnown, OneActive, RevokedNeverLive, OnlyVerifiedRan,
       PendingHasBytes, HasStatus, KeyOf, Actionable, isRestorableBundle, IsRegistered,
       SignerRevoked, AllMoved, Moved
<1>4. CASE RetreatStep
  BY <1>4, KillSwitchIInv, RollbackIInv, FailIInv DEF RetreatStep
<1>5. CASE UNCHANGED vars
  BY <1>5 DEF vars, IInv, TypeOK, BundlesKnown, OneActive, RevokedNeverLive, OnlyVerifiedRan,
     PendingHasBytes, HasStatus, KeyOf, Actionable, isRestorableBundle, IsRegistered,
     SignerRevoked, AllMoved, Moved
<1> QED
  BY <1>1, <1>2, <1>3, <1>4, <1>5 DEF Next

(* The inductive invariant holds in every reachable state.                  *)
THEOREM Invariance == Spec => []IInv
BY InitIInv, StepIInv, PTL DEF Spec

(* Every table and record of the manager stays well formed.                 *)
THEOREM TypeCorrect == Spec => []TypeOK
BY Invariance, PTL DEF IInv

(* At most one deployment of a plugin on a server is active: no order of    *)
(* deploy, approveDeployment, rollback and failDeployment makes two.        *)
THEOREM ActiveIsUnique == Spec => []OneActive
BY Invariance, PTL DEF IInv

(* No deployment is active or pending on a revoked bundle or signer,        *)
(* whatever revokeBundle and revokeSigner overtake.                         *)
THEOREM RevocationReachesAll == Spec => []RevokedNeverLive
BY Invariance, PTL DEF IInv

(* rollback and failDeployment restore without checking a signature; what   *)
(* they can restore was verified when it was first activated.               *)
THEOREM RestoredWasVerified == Spec => []OnlyVerifiedRan
BY Invariance, PTL DEF IInv

(* The bytes of a request are there for approveDeployment.                  *)
THEOREM PendingKeepsBytes == Spec => []PendingHasBytes
BY Invariance, PTL DEF IInv

(* Deployment records are kept in place, and failed, killed and rolled back *)
(* are final: no operation edits history.                                   *)
THEOREM HistoryNeverChanges == Spec => HistoryIsKept
<1>1. IInv /\ [Next]_vars => [\A d \in DOMAIN deployments :
        /\ d \in DOMAIN deployments'
        /\ \/ deployments'[d] = deployments[d]
           \/ /\ deployments'[d] = [deployments[d] EXCEPT !.status = deployments'[d].status]
              /\ <<deployments[d].status, deployments'[d].status>> \in StatusMoves]_vars
  <2>1. ASSUME IInv, [Next]_vars
        PROVE  \A d \in DOMAIN deployments :
                 d \in DOMAIN deployments' /\ Moved(deployments[d], deployments'[d])
    BY <2>1, StepIInv DEF AllMoved
  <2> QED
    BY <2>1 DEF Moved
<1> QED
  BY <1>1, Invariance, PTL DEF Spec, HistoryIsKept

(* A step only adds bundles, revokes them, and adds revoked signers.        *)
BundlesMoved ==
    /\ revokedSignerIds \subseteq revokedSignerIds'
    /\ \A b \in DOMAIN bundlesById :
        /\ b \in DOMAIN bundlesById'
        /\ bundlesById'[b] \in {bundlesById[b], [bundlesById[b] EXCEPT !.status = "revoked"]}

LEMMA StepBundles == [Next]_vars => BundlesMoved
<1> SUFFICES ASSUME [Next]_vars PROVE BundlesMoved
  OBVIOUS
<1>1. ASSUME UNCHANGED <<bundlesById, revokedSignerIds>> PROVE BundlesMoved
  BY <1>1 DEF BundlesMoved
<1>2. CASE BundleStep
  <2>1. ASSUME NEW input \in BundleInputs, registerBundle(input) PROVE BundlesMoved
    BY <2>1 DEF registerBundle, BundlesMoved
  <2>2. ASSUME NEW b \in BundleIds, revokeBundle(b) PROVE BundlesMoved
    BY <2>2 DEF revokeBundle, BundlesMoved
  <2>3. ASSUME NEW signer \in SignerIds, revokeSigner(signer) PROVE BundlesMoved
    BY <2>3 DEF revokeSigner, BundlesMoved
  <2> QED
    BY <1>2, <2>1, <2>2, <2>3 DEF BundleStep
<1>3. CASE DeployStep
  BY <1>1, <1>3 DEF DeployStep, deploy, requestDeployment, ArtifactFetched,
     approveDeployment, Deploy, Request
<1>4. CASE FetchStep
  BY <1>1, <1>4 DEF FetchStep, deployFromArtifact, requestDeploymentFromArtifact,
     StartFetch, ArtifactRefused
<1>5. CASE RetreatStep
  BY <1>1, <1>5 DEF RetreatStep, killSwitch, rollback, failDeployment
<1>6. CASE UNCHANGED vars
  BY <1>1, <1>6 DEF vars
<1> QED
  BY <1>2, <1>3, <1>4, <1>5, <1>6 DEF Next

(* Registered bundles keep their contents and revocations are final: no     *)
(* operation edits a bundle or trusts a signer again.                       *)
THEOREM BundlesNeverChange == Spec => BundlesAreImmutable
<1>1. [Next]_vars => [BundlesMoved]_vars
  BY StepBundles
<1> QED
  BY <1>1, PTL DEF Spec, BundlesAreImmutable, BundlesMoved

(* The manager's records and its kept bytes fit each other at any time.     *)
THEOREM DeploymentsStaySound == Spec => []DeploymentsAreSound
  BY TypeCorrect, PendingKeepsBytes, PTL DEF DeploymentsAreSound
-----------------------------------------------------------------------------
(***************************************************************************)
(* Failures.                                                               *)
(***************************************************************************)

(* What FailuresFailOver says of a step.                                    *)
FailedOver ==
    \A d \in DOMAIN deployments :
        LET r == deployments[d] IN
        ~HasStatus(d, {"failed"}) /\ HasStatus(d, {"failed"})' =>
            IF HasStatus(d, {"active"}) /\ Restorable(r.pluginId, r.serverId, d) # {}
            THEN ActiveIn(r.pluginId, r.serverId)' # {}
            ELSE Len(deployments') = Len(deployments)

(* A step that fails nothing has nothing to restore.                        *)
LEMMA NoFailure ==
    ASSUME \A d \in DOMAIN deployments :
                deployments'[d].status \in {deployments[d].status, "rolled_back", "killed", "active"}
    PROVE  FailedOver
BY DEF FailedOver, HasStatus

(* A push that at most supersedes fails nothing.                            *)
LEMMA PushFailsNothing ==
    ASSUME TypeOK, NEW old \in Seq(Deployment), Len(old) = Len(deployments),
           NEW new \in Deployment, pushDeployment(old, new),
           \A d \in DOMAIN deployments : old[d].status \in {deployments[d].status, "rolled_back"}
    PROVE  FailedOver
<1>1. \A d \in DOMAIN deployments : deployments'[d] = old[d]
  BY PushFacts
<1> QED
  BY <1>1, NoFailure

LEMMA SupersedeFails ==
    ASSUME TypeOK, NEW D
    PROVE  LET old == WithStatus(D, "rolled_back") IN
           /\ old \in Seq(Deployment) /\ Len(old) = Len(deployments)
           /\ \A d \in DOMAIN deployments : old[d].status \in {deployments[d].status, "rolled_back"}
<1>1. "rolled_back" \in DeploymentStatus
  BY DEF DeploymentStatus
<1> QED
  BY <1>1, WithStatusFacts, WithStatusFields DEF Restatused

LEMMA DeployFailsNothing ==
    ASSUME TypeOK, NEW p \in PluginIds, NEW s \in ServerIds, NEW b \in BundleIds, NEW bytes,
           Deploy(p, s, b, bytes) \/ Request(p, s, b, bytes)
    PROVE  FailedOver
<1> DEFINE new(status) == Record(p, s, b, status)
<1>1. /\ new("active") \in Deployment /\ new("failed") \in Deployment
      /\ new("pending") \in Deployment
  BY DEF Record, Deployment, DeploymentStatus
<1>2. deployments \in Seq(Deployment)
  BY DEF TypeOK
<1>3. \/ pushDeployment(WithStatus(ActiveIn(p, s), "rolled_back"), new("active"))
      \/ pushDeployment(deployments, new("failed"))
      \/ pushDeployment(deployments, new("pending"))
  BY DEF Deploy, Request, supersedeActiveDeployments
<1> HIDE DEF new
<1> QED
  BY <1>1, <1>2, <1>3, SupersedeFails, PushFailsNothing

LEMMA RollbackFailsNothing ==
    ASSUME IInv, NEW p \in PluginIds, NEW s \in ServerIds, rollback(p, s)
    PROVE  FailedOver
<1>1. PICK a \in DOMAIN deployments, q \in DOMAIN deployments :
        pushDeployment(WithStatus({a}, "rolled_back"),
                       Record(p, s, deployments[q].bundleId, "active"))
  BY DEF rollback
<1>2. Record(p, s, deployments[q].bundleId, "active") \in Deployment
  BY RecordFacts DEF Deployment, Record, DeploymentStatus
<1> QED
  BY <1>1, <1>2, SupersedeFails, PushFailsNothing DEF IInv

(* Failing one record leaves the others and their number alone.             *)
LEMMA OneFails ==
    ASSUME TypeOK, NEW x
    PROVE  /\ WithStatus({x}, "failed") \in Seq(Deployment)
           /\ Len(WithStatus({x}, "failed")) = Len(deployments)
           /\ DOMAIN WithStatus({x}, "failed") = DOMAIN deployments
           /\ \A d \in DOMAIN deployments :
                d # x => WithStatus({x}, "failed")[d] = deployments[d]
<1>1. "failed" \in DeploymentStatus
  BY DEF DeploymentStatus
<1>2. /\ WithStatus({x}, "failed") \in Seq(Deployment)
      /\ Len(WithStatus({x}, "failed")) = Len(deployments)
      /\ DOMAIN WithStatus({x}, "failed") = DOMAIN deployments
  BY <1>1, WithStatusFacts
<1>3. ASSUME NEW d \in DOMAIN deployments, d # x
      PROVE  WithStatus({x}, "failed")[d] = deployments[d]
  BY <1>3 DEF WithStatus
<1> QED
  BY <1>2, <1>3

(* A request that is refused for its bytes adds no record, one that is      *)
(* approved fails nothing.                                                  *)
LEMMA ApproveFailsOver ==
    ASSUME TypeOK, NEW x \in DOMAIN deployments, approveDeployment(x)
    PROVE  FailedOver
<1> DEFINE r == deployments[x]
           old == supersedeActiveDeployments(r.pluginId, r.serverId)
<1>1. HasStatus(x, {"pending"})
  BY DEF approveDeployment
<1>2. CASE deployments' = [old EXCEPT ![x].status = "active"]
  <2>1. /\ old \in Seq(Deployment) /\ DOMAIN old = DOMAIN deployments
        /\ \A d \in DOMAIN deployments : old[d].status \in {deployments[d].status, "rolled_back"}
    BY SupersedeFails, WithStatusFacts DEF supersedeActiveDeployments, DeploymentStatus
  <2> HIDE DEF old
  <2>2. old[x] \in Deployment
    BY <2>1
  <2>3. [old[x] EXCEPT !.status = "active"].status = "active"
    BY <2>2 DEF Deployment
  <2>4. \A d \in DOMAIN deployments :
            deployments'[d] = IF d = x THEN [old[x] EXCEPT !.status = "active"] ELSE old[d]
    BY <1>2, <2>1
  <2> QED
    BY <2>1, <2>3, <2>4, NoFailure
<1>3. CASE deployments' = WithStatus({x}, "failed")
  <2>1. /\ Len(deployments') = Len(deployments)
        /\ \A d \in DOMAIN deployments : d # x => deployments'[d] = deployments[d]
    BY <1>3, OneFails
  <2>2. ~HasStatus(x, {"active"})
    BY <1>1 DEF HasStatus
  <2>3. ASSUME NEW d \in DOMAIN deployments, ~HasStatus(d, {"failed"}), HasStatus(d, {"failed"})'
        PROVE  d = x
    BY <2>1, <2>3 DEF HasStatus
  <2> QED
    BY <2>1, <2>2, <2>3 DEF FailedOver
<1> QED
  BY <1>2, <1>3 DEF approveDeployment

LEMMA KillFailsNothing ==
    ASSUME IInv, NEW D, Kill(D)
    PROVE  FailedOver
<1>1. \A d \in DOMAIN deployments :
        deployments'[d].status \in {deployments[d].status, "rolled_back", "killed", "active"}
  BY KillFacts
<1> QED
  BY <1>1, NoFailure

(* failDeployment restores when there is something to restore.              *)
LEMMA FailFailsOver ==
    ASSUME IInv, NEW x \in DOMAIN deployments, failDeployment(x)
    PROVE  FailedOver
<1> DEFINE failed == WithStatus({x}, "failed")
           r == deployments[x]
           candidates == Restorable(r.pluginId, r.serverId, x)
<1>1. TypeOK /\ "failed" \in DeploymentStatus
  BY DEF IInv, DeploymentStatus
<1>2. /\ failed \in Seq(Deployment) /\ Len(failed) = Len(deployments)
      /\ DOMAIN failed = DOMAIN deployments
      /\ \A d \in DOMAIN deployments : d # x => failed[d] = deployments[d]
  BY <1>1, OneFails
<1>3. CASE deployments' = failed /\ (HasStatus(x, {"active"}) => candidates = {})
  <2> HIDE DEF failed
  <2> QED
    BY <1>2, <1>3 DEF FailedOver, HasStatus
<1>4. ASSUME HasStatus(x, {"active"}), NEW q \in candidates,
             pushDeployment(failed, Record(r.pluginId, r.serverId,
                                           deployments[q].bundleId, "active"))
      PROVE  FailedOver
  <2> DEFINE new == Record(r.pluginId, r.serverId, deployments[q].bundleId, "active")
  <2>1. PICK n \in Nat : n = Len(deployments)
    BY <1>1 DEF TypeOK
  <2>2. q \in DOMAIN deployments
    BY DEF Restorable, getHistory
  <2>3. new \in Deployment /\ new.status = "active"
        /\ new.pluginId = r.pluginId /\ new.serverId = r.serverId
    BY <2>2, RecordFacts DEF Deployment, Record, DeploymentStatus
  <2> HIDE DEF failed, new
  <2>4. pushDeployment(failed, new)
    BY <1>4 DEF failed, new
  <2>5. /\ DOMAIN deployments' = 1 .. n + 1
        /\ deployments'[n + 1] = new
        /\ \A d \in DOMAIN deployments : deployments'[d] = failed[d]
    BY <1>1, <1>2, <2>1, <2>3, <2>4, PushFacts
  <2>6. /\ deployments'[x].pluginId = new.pluginId
        /\ deployments'[x].serverId = new.serverId
    BY <1>1, <2>3, <2>5, WithStatusFields DEF Restatused, failed
  <2>7. ActiveIn(deployments[x].pluginId, deployments[x].serverId)' # {}
    <3>1. n + 1 \in DOMAIN deployments'
      BY <2>1, <2>5
    <3>2. deployments'[n + 1].status = "active"
      BY <2>3, <2>5
    <3>3. /\ deployments'[n + 1].pluginId = deployments'[x].pluginId
          /\ deployments'[n + 1].serverId = deployments'[x].serverId
      BY <2>5, <2>6
    <3>4. n + 1 \in ActiveIn(deployments[x].pluginId, deployments[x].serverId)'
      BY <3>1, <3>2, <3>3 DEF ActiveIn, getHistory, KeyOf, HasStatus
    <3> QED
      BY <3>4
  <2> HIDE DEF candidates
  <2>8. ASSUME NEW d \in DOMAIN deployments, d # x
        PROVE  deployments'[d] = deployments[d]
    BY <1>2, <2>5, <2>8
  <2>9. HasStatus(x, {"active"})
    BY <1>4
  <2> QED
    BY <2>7, <2>8, <2>9 DEF FailedOver, HasStatus, candidates
<1> HIDE DEF failed
<1> QED
  BY <1>3, <1>4 DEF failDeployment, restorePreviousActiveDeployment, HasStatus, failed

LEMMA StepFailsOver ==
    ASSUME IInv, Next
    PROVE  FailedOver
<1>1. CASE UNCHANGED deployments
  BY <1>1, NoFailure
<1>2. CASE BundleStep
  <2>1. \A input : registerBundle(input) => UNCHANGED deployments
    BY DEF registerBundle
  <2>2. \A b, signer : revokeBundle(b) \/ revokeSigner(signer) => \E D : Kill(D)
    BY DEF revokeBundle, revokeSigner
  <2> QED
    BY <1>1, <1>2, <2>1, <2>2, KillFailsNothing DEF BundleStep
<1>3. CASE DeployStep
  <2>1. \A call \in fetching :
            call.pluginId \in PluginIds /\ call.serverId \in ServerIds /\ call.bundleId \in BundleIds
    BY DEF IInv, TypeOK, FetchingCall
  <2>2. TypeOK
    BY DEF IInv
  <2> QED
    BY <1>3, <2>1, <2>2, DeployFailsNothing, ApproveFailsOver
       DEF DeployStep, deploy, requestDeployment, ArtifactFetched
<1>4. CASE FetchStep
  BY <1>1, <1>4 DEF FetchStep, deployFromArtifact, requestDeploymentFromArtifact, StartFetch,
                    ArtifactRefused
<1>5. CASE RetreatStep
  <2>1. \A plugin : killSwitch(plugin) => \E D : Kill(D)
    BY DEF killSwitch
  <2> QED
    BY <1>5, <2>1, KillFailsNothing, RollbackFailsNothing, FailFailsOver DEF RetreatStep
<1> QED
  BY <1>2, <1>3, <1>4, <1>5 DEF Next

(* A failure of the active deployment restores in the same step whatever    *)
(* can be restored, and a failed request restores nothing.                  *)
THEOREM FailuresAlwaysFailOver == Spec => FailuresFailOver
<1>1. IInv /\ [Next]_vars => [FailedOver]_vars
  BY StepFailsOver
<1>2. Spec => [][FailedOver]_vars
  <2> HIDE DEF FailedOver
  <2> QED
    BY <1>1, Invariance, PTL DEF Spec
<1> QED
  BY <1>2 DEF FailuresFailOver, FailedOver

-----------------------------------------------------------------------------
(***************************************************************************)
(* PluginDeployment implements PluginSlots: under the mapping of Running   *)
(* and Standing, every step of the manager is a step of the slots or       *)
(* changes none of them.                                                   *)
(*                                                                         *)
(* What a slot runs is read off the active record filed under its key, so  *)
(* each operation is described by what it does to ActiveAt.  Three shapes  *)
(* cover all of them: one key gets an active record (a slot runs a trusted *)
(* bundle), active records only go (slots stop), and they go because their *)
(* bundle is no longer trusted (bundles are revoked).                      *)
(***************************************************************************)
(* The slot of a key with no active record is empty; otherwise it runs the  *)
(* bundle of every active record of the key.                                *)
LEMMA RunningIs ==
    ASSUME IInv, NEW k \in SlotKeys
    PROVE  /\ ActiveAt(k) = {} => Running[k] = None
           /\ \A d \in ActiveAt(k) : Running[k] = deployments[d].bundleId
<1>1. \A d, e \in ActiveAt(k) : d = e
  BY DEF IInv, OneActive, ActiveAt
<1>2. Running[k] = IF ActiveAt(k) = {} THEN None
                   ELSE deployments[CHOOSE d \in ActiveAt(k) : TRUE].bundleId
  BY DEF Running
<1>3. ASSUME NEW d \in ActiveAt(k)
      PROVE  (CHOOSE e \in ActiveAt(k) : TRUE) = d
  BY <1>1
<1> QED
  BY <1>2, <1>3

LEMMA RunningIsNext ==
    ASSUME IInv', NEW k \in SlotKeys
    PROVE  /\ ActiveAt(k)' = {} => Running'[k] = None
           /\ \A d \in ActiveAt(k)' : Running'[k] = deployments'[d].bundleId
<1>1. \A d, e \in ActiveAt(k)' : d = e
  BY DEF IInv, OneActive, ActiveAt
<1>2. Running'[k] = IF ActiveAt(k)' = {} THEN None
                    ELSE deployments'[CHOOSE d \in ActiveAt(k)' : TRUE].bundleId
  BY DEF Running, SlotKeys
<1>3. ASSUME NEW d \in ActiveAt(k)'
      PROVE  (CHOOSE e \in ActiveAt(k)' : TRUE) = d
  BY <1>1
<1> QED
  BY <1>2, <1>3

(* Records that stay active keep their slot's bundle.                       *)
LEMMA SlotKept ==
    ASSUME IInv, IInv', RecordsKept, NEW k \in SlotKeys,
           NEW d \in ActiveAt(k), d \in ActiveAt(k)'
    PROVE  Running'[k] = Running[k]
<1>1. d \in DOMAIN deployments /\ deployments'[d].bundleId = deployments[d].bundleId
  BY DEF ActiveAt, RecordsKept
<1> QED
  BY <1>1, RunningIs, RunningIsNext

LEMMA SlotSame ==
    ASSUME IInv, IInv', RecordsKept, NEW k \in SlotKeys, ActiveAt(k)' = ActiveAt(k)
    PROVE  Running'[k] = Running[k]
<1>1. CASE ActiveAt(k) = {}
  BY <1>1, RunningIs, RunningIsNext
<1>2. CASE ActiveAt(k) # {}
  BY <1>2, SlotKept
<1> QED
  BY <1>1, <1>2

(* The standing of bundles depends on the tables of bundles and signers.    *)
LEMMA StandingSame ==
    ASSUME UNCHANGED <<bundlesById, revokedSignerIds>>
    PROVE  Standing' = Standing
BY DEF Standing, isRestorableBundle, IsRegistered, SignerRevoked

-----------------------------------------------------------------------------
(* The shapes of a step.                                                    *)

(* One key gets an active record with a trusted bundle.                     *)
LEMMA RunStep ==
    ASSUME IInv, IInv', RecordsKept, UNCHANGED <<bundlesById, revokedSignerIds>>,
           NEW key \in SlotKeys, NEW x \in ActiveAt(key)',
           NEW b \in BundleIds, deployments'[x].bundleId = b, isRestorableBundle(b),
           \A k \in SlotKeys \ {key} : ActiveAt(k)' = ActiveAt(k)
    PROVE  Slots!Next
<1>1. Standing[b] = "trusted"
  BY DEF Standing, isRestorableBundle, IsRegistered
<1>2. \A k \in SlotKeys : Running'[k] = IF k = key THEN b ELSE Running[k]
  BY RunningIsNext, SlotSame
<1>3. Running' = [Running EXCEPT ![key] = b]
  <2>1. Running' = [k \in SlotKeys |-> Running'[k]]
    BY DEF Running, SlotKeys
  <2>2. [Running EXCEPT ![key] = b] = [k \in SlotKeys |-> IF k = key THEN b ELSE Running[k]]
    <3>1. DOMAIN Running = SlotKeys
      BY DEF Running
    <3> QED
      BY <3>1
  <2> QED
    BY <1>2, <2>1, <2>2
<1>4. Slots!Run(key, b)
  BY <1>1, <1>3, StandingSame DEF Slots!Run
<1> QED
  BY <1>4 DEF Slots!Next

(* No record becomes active.                                                *)
LEMMA StopSlots ==
    ASSUME IInv, IInv', RecordsKept, UNCHANGED <<bundlesById, revokedSignerIds>>,
           \A k \in SlotKeys : ActiveAt(k)' \subseteq ActiveAt(k)
    PROVE  Slots!Next
<1> DEFINE S == {k \in SlotKeys : ActiveAt(k)' = {}}
<1>1. \A k \in SlotKeys : Running'[k] = IF k \in S THEN None ELSE Running[k]
  BY RunningIsNext, SlotKept
<1>2. Running' = [k \in SlotKeys |-> IF k \in S THEN None ELSE Running[k]]
  <2>1. Running' = [k \in SlotKeys |-> Running'[k]]
    BY DEF Running, SlotKeys
  <2> HIDE DEF S
  <2> QED
    BY <1>1, <2>1
<1>3. S \in SUBSET SlotKeys
  OBVIOUS
<1> HIDE DEF S
<1>4. Slots!Stop(S)
  BY <1>2, StandingSame DEF Slots!Stop
<1> QED
  BY <1>3, <1>4 DEF Slots!Next

(* Trusted bundles are revoked, and exactly the active records that name    *)
(* one of them go.                                                          *)
LEMMA RevokeStep ==
    ASSUME IInv, IInv', RecordsKept, NEW B \in SUBSET BundleIds,
           \A b \in B : Standing[b] = "trusted",
           \A b \in BundleIds : Standing'[b] = IF b \in B THEN "revoked" ELSE Standing[b],
           \A k \in SlotKeys :
                ActiveAt(k)' = {d \in ActiveAt(k) : deployments[d].bundleId \notin B}
    PROVE  Slots!Next
<1>1. ASSUME NEW k \in SlotKeys
      PROVE  Running'[k] = IF Running[k] \in B THEN None ELSE Running[k]
  <2>1. CASE ActiveAt(k) = {}
    <3>1. Running[k] = None /\ ActiveAt(k)' = {}
      BY <2>1, RunningIs
    <3> QED
      BY <3>1, RunningIsNext, DeploymentAssumption
  <2>2. ASSUME NEW d \in ActiveAt(k)
        PROVE  Running'[k] = IF Running[k] \in B THEN None ELSE Running[k]
    <3>1. Running[k] = deployments[d].bundleId
      BY RunningIs
    <3>2. CASE deployments[d].bundleId \in B
      <4>1. \A e \in ActiveAt(k) : e = d
        BY DEF IInv, OneActive, ActiveAt
      <4>2. ActiveAt(k)' = {}
        BY <3>2, <4>1
      <4> QED
        BY <3>1, <3>2, <4>2, RunningIsNext
    <3>3. CASE deployments[d].bundleId \notin B
      <4>1. d \in ActiveAt(k)'
        BY <3>3
      <4> QED
        BY <3>1, <3>3, <4>1, SlotKept
    <3> QED
      BY <3>2, <3>3
  <2> QED
    BY <2>1, <2>2
<1>2. Running' = [k \in SlotKeys |-> IF Running[k] \in B THEN None ELSE Running[k]]
  <2>1. Running' = [k \in SlotKeys |-> Running'[k]]
    BY DEF Running, SlotKeys
  <2> QED
    BY <1>1, <2>1
<1>3. Standing' = [b \in BundleIds |-> IF b \in B THEN "revoked" ELSE Standing[b]]
  <2>1. Standing' = [b \in BundleIds |-> Standing'[b]]
    BY DEF Standing
  <2> QED
    BY <2>1
<1>4. Slots!Revoke(B)
  BY <1>2, <1>3 DEF Slots!Revoke
<1> QED
  BY <1>4 DEF Slots!Next

-----------------------------------------------------------------------------
(* Keys do not change, and the key of a record is a slot.                   *)
LEMMA KeysKept ==
    ASSUME RecordsKept
    PROVE  \A d \in DOMAIN deployments : KeyOf(d)' = KeyOf(d)
BY DEF RecordsKept, KeyOf

LEMMA KeyIsSlot ==
    ASSUME IInv, NEW d \in DOMAIN deployments
    PROVE  KeyOf(d) \in SlotKeys
<1>1. deployments[d].pluginId \in PluginIds /\ deployments[d].serverId \in ServerIds
  BY RecordFacts DEF Deployment
<1> QED
  BY <1>1 DEF KeyOf, SlotKeys

LEMMA MovedKept ==
    ASSUME IInv, IInv', AllMoved
    PROVE  RecordsKept
<1> SUFFICES ASSUME NEW d \in DOMAIN deployments
             PROVE  /\ d \in DOMAIN deployments'
                    /\ deployments'[d].pluginId = deployments[d].pluginId
                    /\ deployments'[d].serverId = deployments[d].serverId
                    /\ deployments'[d].bundleId = deployments[d].bundleId
  BY DEF RecordsKept
<1>1. d \in DOMAIN deployments' /\ Moved(deployments[d], deployments'[d])
  BY DEF AllMoved
<1>2. deployments[d] \in Deployment
  BY RecordFacts
<1> QED
  BY <1>1, <1>2 DEF Moved, Deployment

(* A push of an active record over records that retire under its key only.  *)
LEMMA PushRuns ==
    ASSUME IInv, IInv', AllMoved, UNCHANGED <<bundlesById, revokedSignerIds>>,
           NEW p \in PluginIds, NEW s \in ServerIds, NEW b \in BundleIds, isRestorableBundle(b),
           NEW old \in Seq(Deployment), Len(old) = Len(deployments),
           pushDeployment(old, Record(p, s, b, "active")),
           \A d \in DOMAIN deployments :
                old[d].status = deployments[d].status \/ KeyOf(d) = deploymentKey(p, s)
    PROVE  Slots!Next
<1> DEFINE new == Record(p, s, b, "active")
           key == deploymentKey(p, s)
<1>1. new \in Deployment /\ new.bundleId = b /\ new.status = "active"
      /\ new.pluginId = p /\ new.serverId = s
  BY DEF Deployment, Record, DeploymentStatus
<1>2. pushDeployment(old, new)
  OBVIOUS
<1> HIDE DEF new
<1>3. PICK n \in Nat : n = Len(deployments)
  BY DEF IInv, TypeOK
<1>4. /\ DOMAIN deployments = 1 .. n
      /\ DOMAIN deployments' = 1 .. n + 1
      /\ \A d \in 1 .. n : deployments'[d] = old[d]
      /\ deployments'[n + 1] = new
  BY <1>1, <1>2, <1>3, PushFacts DEF IInv
<1>5. RecordsKept
  BY MovedKept
<1>6. key \in SlotKeys
  BY DEF SlotKeys
<1>7. n + 1 \in ActiveAt(key)'
  <2>1. KeyOf(n + 1)' = key
    BY <1>1, <1>4 DEF KeyOf
  <2> QED
    BY <1>1, <1>4, <2>1 DEF ActiveAt, HasStatus
<1>8. ASSUME NEW k \in SlotKeys \ {key}
      PROVE  ActiveAt(k)' = ActiveAt(k)
  <2>1. KeyOf(n + 1)' # k
    BY <1>1, <1>4, <1>8 DEF KeyOf
  <2>2. ASSUME NEW d \in 1 .. n
        PROVE  d \in ActiveAt(k)' <=> d \in ActiveAt(k)
    <3>1. KeyOf(d)' = KeyOf(d) /\ d \in DOMAIN deployments /\ d \in DOMAIN deployments'
      BY <1>4, <1>5, KeysKept
    <3>2. KeyOf(d) = k => deployments'[d].status = deployments[d].status
      BY <1>4, <1>8, <3>1
    <3> QED
      BY <3>1, <3>2 DEF ActiveAt, HasStatus
  <2>3. ActiveAt(k) \subseteq 1 .. n /\ ActiveAt(k)' \subseteq 1 .. n
    <3>1. ActiveAt(k)' \subseteq (1 .. n + 1) \ {n + 1}
      BY <1>4, <2>1 DEF ActiveAt
    <3> QED
      BY <1>4, <3>1 DEF ActiveAt
  <2> QED
    BY <2>2, <2>3
<1> HIDE DEF key
<1> QED
  BY <1>1, <1>4, <1>5, <1>6, <1>7, <1>8, RunStep

(* A push of a record that is not active changes no slot.                   *)
LEMMA PushStops ==
    ASSUME IInv, IInv', AllMoved, UNCHANGED <<bundlesById, revokedSignerIds>>,
           NEW new \in Deployment, new.status # "active", pushDeployment(deployments, new)
    PROVE  Slots!Next
<1>1. PICK n \in Nat : n = Len(deployments)
  BY DEF IInv, TypeOK
<1>2. /\ DOMAIN deployments = 1 .. n
      /\ DOMAIN deployments' = 1 .. n + 1
      /\ \A d \in 1 .. n : deployments'[d] = deployments[d]
      /\ deployments'[n + 1] = new
  BY <1>1, PushFacts DEF IInv, TypeOK
<1>3. RecordsKept
  BY MovedKept
<1>4. ASSUME NEW k \in SlotKeys, NEW d \in ActiveAt(k)'
      PROVE  d \in ActiveAt(k)
  <2>1. d \in 1 .. n + 1 /\ deployments'[d].status = "active" /\ KeyOf(d)' = k
    BY <1>2 DEF ActiveAt, HasStatus
  <2>2. d \in 1 .. n
    BY <1>2, <2>1
  <2> QED
    BY <1>2, <1>3, <2>1, <2>2, KeysKept DEF ActiveAt, HasStatus
<1> QED
  BY <1>3, <1>4, StopSlots

(* Records in place, none of which becomes active.                          *)
LEMMA NoneActivated ==
    ASSUME IInv, IInv', AllMoved, UNCHANGED <<bundlesById, revokedSignerIds>>,
           DOMAIN deployments' = DOMAIN deployments,
           \A d \in DOMAIN deployments :
                deployments'[d].status = "active" => deployments[d].status = "active"
    PROVE  Slots!Next
<1>1. RecordsKept
  BY MovedKept
<1>2. \A k \in SlotKeys : ActiveAt(k)' \subseteq ActiveAt(k)
  BY <1>1, KeysKept DEF ActiveAt, HasStatus
<1> QED
  BY <1>1, <1>2, StopSlots

-----------------------------------------------------------------------------
(* The operations.                                                          *)
LEMMA DeployRefines ==
    ASSUME IInv, IInv', AllMoved, NEW p \in PluginIds, NEW s \in ServerIds,
           NEW b \in BundleIds, NEW bytes \in Bytes, Deploy(p, s, b, bytes)
    PROVE  Slots!Next
<1>1. UNCHANGED <<bundlesById, revokedSignerIds>> /\ TypeOK
  BY DEF Deploy, IInv
<1>2. CASE verifyDeploymentActivation(b, bytes)
  <2> DEFINE old == supersedeActiveDeployments(p, s)
  <2>1. isRestorableBundle(b)
    BY <1>2 DEF Deploy, requireBundle, verifyDeploymentActivation, isRestorableBundle
  <2>2. old \in Seq(Deployment) /\ Len(old) = Len(deployments)
    BY <1>1, WithStatusFacts DEF supersedeActiveDeployments, DeploymentStatus
  <2>3. \A d \in DOMAIN deployments :
            Restatused(deployments[d], old[d],
                IF d \in ActiveIn(p, s) THEN "rolled_back" ELSE deployments[d].status)
    BY <1>1, WithStatusFields DEF supersedeActiveDeployments, DeploymentStatus
  <2>4. \A d \in DOMAIN deployments :
            old[d].status = deployments[d].status \/ KeyOf(d) = deploymentKey(p, s)
    BY <2>3 DEF Restatused, ActiveIn, getHistory
  <2>5. pushDeployment(old, Record(p, s, b, "active"))
    BY <1>2 DEF Deploy
  <2> HIDE DEF old
  <2> QED
    BY <1>1, <2>1, <2>2, <2>4, <2>5, PushRuns
<1>3. CASE ~verifyDeploymentActivation(b, bytes)
  <2> DEFINE new == Record(p, s, b, "failed")
  <2>1. new \in Deployment /\ new.status # "active"
    BY DEF Deployment, Record, DeploymentStatus
  <2>2. pushDeployment(deployments, new)
    BY <1>3 DEF Deploy
  <2> HIDE DEF new
  <2> QED
    BY <1>1, <2>1, <2>2, PushStops
<1> QED
  BY <1>2, <1>3

LEMMA RequestRefines ==
    ASSUME IInv, IInv', AllMoved, NEW p \in PluginIds, NEW s \in ServerIds,
           NEW b \in BundleIds, NEW bytes \in Bytes, Request(p, s, b, bytes)
    PROVE  Slots!Next
<1> DEFINE new == Record(p, s, b, "pending")
<1>1. new \in Deployment /\ new.status # "active"
  BY DEF Deployment, Record, DeploymentStatus
<1>2. pushDeployment(deployments, new) /\ UNCHANGED <<bundlesById, revokedSignerIds>>
  BY DEF Request
<1> HIDE DEF new
<1> QED
  BY <1>1, <1>2, PushStops

(* An approval runs the bundle of its request in the slot of its key.       *)
LEMMA ApproveRefines ==
    ASSUME IInv, IInv', AllMoved, NEW x \in DOMAIN deployments, approveDeployment(x)
    PROVE  Slots!Next
<1> DEFINE r == deployments[x]
           ok == verifyDeploymentActivation(r.bundleId, pendingBundleBytes[x])
           old == supersedeActiveDeployments(r.pluginId, r.serverId)
<1>1. /\ UNCHANGED <<bundlesById, revokedSignerIds>>
      /\ TypeOK
      /\ {"failed", "rolled_back"} \subseteq DeploymentStatus
      /\ r \in Deployment
      /\ isRestorableBundle(r.bundleId)
  BY RecordFacts DEF approveDeployment, IInv, DeploymentStatus, isRestorableBundle
<1>2. CASE ok
  <2>1. deployments' = [old EXCEPT ![x].status = "active"]
    BY <1>2 DEF approveDeployment
  <2>2. old \in Seq(Deployment) /\ DOMAIN old = DOMAIN deployments
    BY <1>1, WithStatusFacts DEF supersedeActiveDeployments
  <2>3. \A d \in DOMAIN deployments :
            Restatused(deployments[d], old[d],
                IF d \in ActiveIn(r.pluginId, r.serverId) THEN "rolled_back"
                ELSE deployments[d].status)
    BY <1>1, WithStatusFields DEF supersedeActiveDeployments
  <2> HIDE DEF old, ok
  <2>4. DOMAIN deployments' = DOMAIN deployments
    BY <2>1, <2>2
  <2>5. deployments'[x].status = "active" /\ deployments'[x].bundleId = r.bundleId
    <3>1. deployments'[x] = [old[x] EXCEPT !.status = "active"] /\ old[x] \in Deployment
      BY <2>1, <2>2
    <3> QED
      BY <2>3, <3>1 DEF Restatused, Deployment
  <2>6. \A d \in DOMAIN deployments \ {x} :
            deployments'[d].status = deployments[d].status \/ KeyOf(d) = KeyOf(x)
    BY <2>1, <2>2, <2>3 DEF Restatused, ActiveIn, getHistory, KeyOf
  <2>7. RecordsKept /\ KeyOf(x) \in SlotKeys /\ r.bundleId \in BundleIds
    BY <1>1, MovedKept, KeyIsSlot DEF Deployment
  <2>8. x \in ActiveAt(KeyOf(x))'
    BY <2>4, <2>5, <2>7, KeysKept DEF ActiveAt, HasStatus
  <2>9. \A k \in SlotKeys \ {KeyOf(x)} : ActiveAt(k)' = ActiveAt(k)
    BY <2>4, <2>6, <2>7, KeysKept DEF ActiveAt, HasStatus
  <2>10. PICK key \in SlotKeys : key = KeyOf(x)
    BY <2>7
  <2>11. x \in ActiveAt(key)'
    <3>1. deployments'[x].status = "active" /\ KeyOf(x)' = key /\ x \in DOMAIN deployments'
      BY <2>4, <2>5, <2>7, <2>10, KeysKept
    <3> QED
      BY <3>1 DEF ActiveAt, HasStatus
  <2> QED
    BY <1>1, <2>5, <2>7, <2>9, <2>10, <2>11, RunStep
<1>3. CASE ~ok
  <2>1. deployments' = WithStatus({x}, "failed")
    BY <1>3 DEF approveDeployment
  <2>2. DOMAIN deployments' = DOMAIN deployments
    BY <1>1, <2>1, WithStatusFacts
  <2>3. \A d \in DOMAIN deployments :
            Restatused(deployments[d], deployments'[d],
                       IF d \in {x} THEN "failed" ELSE deployments[d].status)
    BY <1>1, <2>1, WithStatusFields
  <2> QED
    BY <1>1, <2>2, <2>3, NoneActivated DEF Restatused
<1> QED
  BY <1>2, <1>3

LEMMA KillSwitchRefines ==
    ASSUME IInv, IInv', AllMoved, NEW p \in PluginIds, killSwitch(p)
    PROVE  Slots!Next
<1> DEFINE D == {d \in DOMAIN deployments : deployments[d].pluginId = p}
<1>1. Kill(D) /\ UNCHANGED <<bundlesById, revokedSignerIds>>
  BY DEF killSwitch
<1> HIDE DEF D
<1> QED
  BY <1>1, KillFacts, NoneActivated

LEMMA RollbackRefines ==
    ASSUME IInv, IInv', AllMoved, NEW p \in PluginIds, NEW s \in ServerIds, rollback(p, s)
    PROVE  Slots!Next
<1>1. PICK a \in DOMAIN deployments, q \in DOMAIN deployments :
        /\ IsLatest(a, ActiveIn(p, s))
        /\ IsLatest(q, Restorable(p, s, a))
        /\ pushDeployment(WithStatus({a}, "rolled_back"),
                          Record(p, s, deployments[q].bundleId, "active"))
  BY DEF rollback
<1> DEFINE old == WithStatus({a}, "rolled_back")
           b == deployments[q].bundleId
<1>2. /\ UNCHANGED <<bundlesById, revokedSignerIds>>
      /\ TypeOK
      /\ "rolled_back" \in DeploymentStatus
  BY DEF rollback, IInv, DeploymentStatus
<1>3. b \in BundleIds /\ isRestorableBundle(b)
  BY <1>1, RecordFacts DEF IsLatest, Restorable, Deployment
<1>4. old \in Seq(Deployment) /\ Len(old) = Len(deployments)
  BY <1>2, WithStatusFacts
<1>5. \A d \in DOMAIN deployments :
        Restatused(deployments[d], old[d],
                   IF d \in {a} THEN "rolled_back" ELSE deployments[d].status)
  BY <1>2, WithStatusFields
<1>6. \A d \in DOMAIN deployments :
        old[d].status = deployments[d].status \/ KeyOf(d) = deploymentKey(p, s)
  BY <1>1, <1>5 DEF Restatused, IsLatest, ActiveIn, getHistory
<1> HIDE DEF old, b
<1>7. pushDeployment(old, Record(p, s, b, "active"))
  BY <1>1 DEF old, b
<1> QED
  BY <1>2, <1>3, <1>4, <1>6, <1>7, PushRuns

(* A failure empties the slot or runs the bundle it falls back to.          *)
LEMMA FailRefines ==
    ASSUME IInv, IInv', AllMoved, NEW x \in DOMAIN deployments, failDeployment(x)
    PROVE  Slots!Next
<1> DEFINE failed == WithStatus({x}, "failed")
           r == deployments[x]
<1>1. /\ UNCHANGED <<bundlesById, revokedSignerIds>>
      /\ TypeOK
      /\ "failed" \in DeploymentStatus
      /\ r \in Deployment
  BY RecordFacts DEF failDeployment, IInv, DeploymentStatus
<1>2. failed \in Seq(Deployment) /\ Len(failed) = Len(deployments)
      /\ DOMAIN failed = DOMAIN deployments
  BY <1>1, WithStatusFacts
<1>3. \A d \in DOMAIN deployments :
        Restatused(deployments[d], failed[d],
                   IF d \in {x} THEN "failed" ELSE deployments[d].status)
  BY <1>1, WithStatusFields
<1>4. \/ deployments' = failed
      \/ \E q \in Restorable(r.pluginId, r.serverId, x) :
            pushDeployment(failed, Record(r.pluginId, r.serverId,
                                          deployments[q].bundleId, "active"))
  <2> HIDE DEF failed
  <2> QED
    BY DEF failDeployment, restorePreviousActiveDeployment, failed
<1> HIDE DEF failed
<1>5. CASE deployments' = failed
  BY <1>1, <1>2, <1>3, <1>5, NoneActivated DEF Restatused
<1>6. ASSUME NEW q \in Restorable(r.pluginId, r.serverId, x),
             pushDeployment(failed, Record(r.pluginId, r.serverId,
                                           deployments[q].bundleId, "active"))
      PROVE  Slots!Next
  <2>1. deployments[q].bundleId \in BundleIds /\ isRestorableBundle(deployments[q].bundleId)
    BY RecordFacts DEF Restorable, getHistory, Deployment
  <2>2. r.pluginId \in PluginIds /\ r.serverId \in ServerIds
    BY <1>1 DEF Deployment
  <2>3. \A d \in DOMAIN deployments :
            \/ failed[d].status = deployments[d].status
            \/ KeyOf(d) = deploymentKey(r.pluginId, r.serverId)
    BY <1>3 DEF Restatused, KeyOf
  <2> HIDE DEF r
  <2> QED
    BY <1>1, <1>2, <1>6, <2>1, <2>2, <2>3, PushRuns
<1> QED
  BY <1>4, <1>5, <1>6

(* Kill takes the active records of D and leaves the others.                *)
LEMMA KillActive ==
    ASSUME IInv, IInv', AllMoved, NEW D, Kill(D)
    PROVE  RecordsKept /\ \A k \in SlotKeys : ActiveAt(k)' = ActiveAt(k) \ D
<1>1. RecordsKept
  BY MovedKept
<1>2. DOMAIN deployments' = DOMAIN deployments
  BY KillFacts
<1>3. \A d \in DOMAIN deployments :
        deployments'[d].status = "active" <=> deployments[d].status = "active" /\ d \notin D
  BY KillFacts
<1> QED
  BY <1>1, <1>2, <1>3, KeysKept DEF ActiveAt, HasStatus

LEMMA RevokeSignerRefines ==
    ASSUME IInv, IInv', AllMoved, NEW signer \in SignerIds, revokeSigner(signer)
    PROVE  Slots!Next
<1> DEFINE D == {d \in DOMAIN deployments :
                    bundlesById[deployments[d].bundleId].signerId = signer}
           B == {b \in BundleIds : b \in DOMAIN bundlesById /\ isRestorableBundle(b)
                                    /\ bundlesById[b].signerId = signer}
<1>1. /\ Kill(D)
      /\ revokedSignerIds' = revokedSignerIds \cup {signer}
      /\ UNCHANGED bundlesById
  BY DEF revokeSigner
<1>2. \A b \in B : Standing[b] = "trusted"
  BY DEF Standing
<1>3. \A b \in BundleIds : Standing'[b] = IF b \in B THEN "revoked" ELSE Standing[b]
  BY <1>1 DEF Standing, isRestorableBundle, IsRegistered, SignerRevoked
<1>4. \A k \in SlotKeys : \A d \in ActiveAt(k) : d \in D <=> deployments[d].bundleId \in B
  <2> SUFFICES ASSUME NEW k \in SlotKeys, NEW d \in ActiveAt(k)
               PROVE  d \in D <=> deployments[d].bundleId \in B
    OBVIOUS
  <2>1. /\ d \in DOMAIN deployments
        /\ deployments[d] \in Deployment
        /\ deployments[d].bundleId \in DOMAIN bundlesById
        /\ isRestorableBundle(deployments[d].bundleId)
    BY RecordFacts DEF ActiveAt, HasStatus, GoodRecord
  <2> QED
    BY <2>1 DEF Deployment
<1>5. B \in SUBSET BundleIds
  OBVIOUS
<1> HIDE DEF D, B
<1>6. RecordsKept /\ \A k \in SlotKeys : ActiveAt(k)' = ActiveAt(k) \ D
  BY <1>1, KillActive
<1>7. \A k \in SlotKeys :
        ActiveAt(k)' = {d \in ActiveAt(k) : deployments[d].bundleId \notin B}
  BY <1>4, <1>6
<1> QED
  BY <1>2, <1>3, <1>5, <1>6, <1>7, RevokeStep

(* A bundle whose signer is already revoked loses no trust.                 *)
LEMMA RevokeBundleRefines ==
    ASSUME IInv, IInv', AllMoved, NEW b \in BundleIds, revokeBundle(b)
    PROVE  Slots!Next
<1> DEFINE D == {d \in DOMAIN deployments : deployments[d].bundleId = b}
           B == {c \in {b} : isRestorableBundle(c)}
<1>1. /\ Kill(D)
      /\ b \in DOMAIN bundlesById
      /\ bundlesById' = [bundlesById EXCEPT ![b].status = "revoked"]
      /\ UNCHANGED revokedSignerIds
  BY DEF revokeBundle, IsRegistered
<1>2. \A c \in B : Standing[c] = "trusted"
  BY <1>1 DEF Standing
<1>3. /\ DOMAIN bundlesById' = DOMAIN bundlesById
      /\ bundlesById'[b].status = "revoked"
      /\ \A c \in DOMAIN bundlesById \ {b} : bundlesById'[c] = bundlesById[c]
  <2>1. bundlesById[b] \in Bundle
    BY <1>1 DEF IInv, TypeOK
  <2>2. bundlesById'[b] = [bundlesById[b] EXCEPT !.status = "revoked"]
    BY <1>1
  <2> QED
    BY <1>1, <2>1, <2>2 DEF Bundle
<1>4. ASSUME NEW c \in BundleIds
      PROVE  Standing'[c] = IF c \in B THEN "revoked" ELSE Standing[c]
  <2>1. CASE c = b
    BY <1>1, <1>3, <2>1 DEF Standing, isRestorableBundle, IsRegistered
  <2>2. CASE c # b
    BY <1>1, <1>3, <2>2 DEF Standing, isRestorableBundle, IsRegistered, SignerRevoked
  <2> QED
    BY <2>1, <2>2
<1>5. \A k \in SlotKeys : \A d \in ActiveAt(k) : d \in D <=> deployments[d].bundleId \in B
  BY RecordFacts DEF ActiveAt, HasStatus, GoodRecord
<1>6. B \in SUBSET BundleIds
  OBVIOUS
<1> HIDE DEF D, B
<1>7. RecordsKept /\ \A k \in SlotKeys : ActiveAt(k)' = ActiveAt(k) \ D
  BY <1>1, KillActive
<1>8. \A k \in SlotKeys :
        ActiveAt(k)' = {d \in ActiveAt(k) : deployments[d].bundleId \notin B}
  BY <1>5, <1>7
<1> QED
  BY <1>2, <1>4, <1>6, <1>7, <1>8, RevokeStep

LEMMA RegisterBundleRefines ==
    ASSUME IInv, IInv', AllMoved, NEW input \in BundleInputs, registerBundle(input)
    PROVE  Slots!Next
<1> DEFINE b == input.id
<1>1. b \in BundleIds /\ input.signerId \notin revokedSignerIds
  BY DeploymentAssumption DEF BundleInput, registerBundle
<1>2. /\ b \notin DOMAIN bundlesById
      /\ DOMAIN bundlesById' = DOMAIN bundlesById \cup {b}
      /\ \A c \in DOMAIN bundlesById : bundlesById'[c] = bundlesById[c]
      /\ bundlesById'[b].signerId = input.signerId
      /\ bundlesById'[b].status = "registered"
      /\ UNCHANGED <<deployments, revokedSignerIds>>
  BY DEF registerBundle
<1> HIDE DEF b
<1>3. RecordsKept
  BY MovedKept
<1>4. \A k \in SlotKeys : Running'[k] = Running[k]
  <2>1. \A k \in SlotKeys : ActiveAt(k)' = ActiveAt(k)
    BY <1>2, <1>3, KeysKept DEF ActiveAt, HasStatus
  <2> QED
    BY <1>3, <2>1, SlotSame
<1>5. Running' = Running
  <2>1. Running' = [k \in SlotKeys |-> Running'[k]]
    BY DEF Running, SlotKeys
  <2>2. Running = [k \in SlotKeys |-> Running[k]]
    BY DEF Running
  <2> QED
    BY <1>4, <2>1, <2>2
<1>6. Standing[b] = "unknown"
  BY <1>1, <1>2 DEF Standing
<1>7. ASSUME NEW c \in BundleIds
      PROVE  Standing'[c] = IF c = b THEN "trusted" ELSE Standing[c]
  BY <1>1, <1>2 DEF Standing, isRestorableBundle, IsRegistered, SignerRevoked
<1>8. Standing' = [Standing EXCEPT ![b] = "trusted"]
  <2>1. Standing' = [c \in BundleIds |-> Standing'[c]]
    BY DEF Standing
  <2>2. [Standing EXCEPT ![b] = "trusted"]
          = [c \in BundleIds |-> IF c = b THEN "trusted" ELSE Standing[c]]
    <3>1. DOMAIN Standing = BundleIds
      BY DEF Standing
    <3> QED
      BY <3>1
  <2> QED
    BY <1>7, <2>1, <2>2
<1>9. Slots!Register(b)
  BY <1>5, <1>6, <1>8 DEF Slots!Register
<1> QED
  BY <1>1, <1>9 DEF Slots!Next

-----------------------------------------------------------------------------
LEMMA InitRefines == Init => Slots!Init
<1> SUFFICES ASSUME Init PROVE Slots!Init
  OBVIOUS
<1>1. \A k \in SlotKeys : Running[k] = None
  BY DEF Init, Running, ActiveAt
<1>2. \A b \in BundleIds : Standing[b] = "unknown"
  BY DEF Init, Standing
<1>3. Running = [k \in SlotKeys |-> None]
  <2>1. Running = [k \in SlotKeys |-> Running[k]]
    BY DEF Running
  <2> QED
    BY <1>1, <2>1
<1>4. Standing = [b \in BundleIds |-> "unknown"]
  <2>1. Standing = [b \in BundleIds |-> Standing[b]]
    BY DEF Standing
  <2> QED
    BY <1>2, <2>1
<1> QED
  BY <1>3, <1>4 DEF Slots!Init

LEMMA StepRefines == IInv /\ IInv' /\ [Next]_vars => [Slots!Next]_(Slots!vars)
<1> SUFFICES ASSUME IInv, IInv', [Next]_vars
             PROVE  Slots!Next \/ UNCHANGED <<Running, Standing>>
  BY DEF Slots!vars
<1>1. AllMoved
  BY StepIInv
<1>2. CASE BundleStep
  BY <1>1, <1>2, RegisterBundleRefines, RevokeBundleRefines, RevokeSignerRefines DEF BundleStep
<1>3. CASE DeployStep
  <2>1. ASSUME NEW call \in fetching, NEW bytes \in Bytes, ArtifactFetched(call, bytes)
        PROVE  Slots!Next
    <3>1. call.pluginId \in PluginIds /\ call.serverId \in ServerIds /\ call.bundleId \in BundleIds
      BY DEF IInv, TypeOK, FetchingCall
    <3> QED
      BY <1>1, <2>1, <3>1, DeployRefines, RequestRefines DEF ArtifactFetched
  <2> QED
    BY <1>1, <1>3, <2>1, DeployRefines, RequestRefines, ApproveRefines
       DEF DeployStep, deploy, requestDeployment
<1>4. ASSUME UNCHANGED <<bundlesById, deployments, revokedSignerIds>>
      PROVE  UNCHANGED <<Running, Standing>>
  BY <1>4 DEF Running, Standing, SlotKeys, ActiveAt, KeyOf, HasStatus, isRestorableBundle,
     IsRegistered, SignerRevoked
<1>5. CASE FetchStep
  BY <1>4, <1>5 DEF FetchStep, deployFromArtifact, requestDeploymentFromArtifact,
     StartFetch, ArtifactRefused
<1>6. CASE RetreatStep
  BY <1>1, <1>6, KillSwitchRefines, RollbackRefines, FailRefines DEF RetreatStep
<1>7. CASE UNCHANGED vars
  BY <1>4, <1>7 DEF vars
<1> QED
  BY <1>2, <1>3, <1>5, <1>6, <1>7 DEF Next

(* The manager implements the slots: whatever deploy, approveDeployment,    *)
(* rollback, failDeployment, killSwitch and the revocations do, a slot only *)
(* starts a bundle that is trusted at that moment, and a revocation empties *)
(* every slot it concerns in the step that makes it.                        *)
THEOREM ManagerImplementsSlots == Spec => SlotsSpec
<1>1. IInv /\ IInv' /\ [Next]_vars => [Slots!Next]_(Slots!vars)
  BY StepRefines
<1> QED
  BY <1>1, InitRefines, Invariance, PTL DEF Spec, SlotsSpec, Slots!Spec

-----------------------------------------------------------------------------
(***************************************************************************)
(* The supervisor works with deployments it read before its last await, so *)
(* the inductive invariant says what may still be believed about them: a   *)
(* desired deployment was verified and never becomes pending again, and an *)
(* instance outside the desired ones is retired for good.  The second      *)
(* needs that histories are final and that a key has one active record.    *)
(***************************************************************************)
(* What holds of a deployment from the moment it may have a sandbox.        *)
Sandboxed(d) ==
    /\ d \in DOMAIN deployments
    /\ deployments[d].serverId = Server
    /\ deployments[d].status # "pending"
    /\ deployments[d].bundleId \in DOMAIN bundlesById
    /\ bundlesById[deployments[d].bundleId].signed
    /\ bundlesById[deployments[d].bundleId].sandboxApproved
Active(d) == deployments[d].status = "active"

InstancesVerified == \A i \in DOMAIN instances : Sandboxed(DeploymentOf(i))

PassVerified ==
    /\ pass.todo \subseteq pass.desired
    /\ \A d \in pass.desired : Sandboxed(d)

(* No sandbox of a deployment runs while another is being started for it.   *)
StartIsNeeded ==
    pass.stage = "starting" /\ pass.awaited # 0 =>
        /\ pass.awaited \in pass.desired
        /\ \A i \in DOMAIN instances : DeploymentOf(i) = pass.awaited => ~IsRunning(i)

StopIsNeeded ==
    pass.stage = "stopping" /\ pass.awaited # 0 =>
        /\ pass.awaited \in DOMAIN instances
        /\ DeploymentOf(pass.awaited) \notin pass.desired

(* What a pass does not desire is retired, whatever happened since it read. *)
UndesiredAreRetired ==
    pass.stage # "idle" =>
        \A i \in DOMAIN instances :
            DeploymentOf(i) \notin pass.desired => ~Active(DeploymentOf(i))

(* A running instance can be missing in the index only when it is retired.  *)
IsIndexed(i) ==
    /\ DeploymentOf(i) \in DOMAIN instanceIdByDeploymentId
    /\ instanceIdByDeploymentId[DeploymentOf(i)] = i
RunningIndexed ==
    \A i \in DOMAIN instances : IsRunning(i) =>
        \/ IsIndexed(i)
        \/ ~Active(DeploymentOf(i)) /\ DeploymentOf(i) \notin pass.desired

SInv ==
    /\ IInv
    /\ SidecarTypeOK
    /\ InstancesVerified
    /\ PassVerified
    /\ StartIsNeeded
    /\ StopIsNeeded
    /\ UndesiredAreRetired
    /\ RunningIndexed
    /\ OneSandbox

-----------------------------------------------------------------------------
LEMMA InitSInv == SidecarInit => SInv
<1> SUFFICES ASSUME SidecarInit PROVE SInv
  OBVIOUS
<1>1. IInv
  BY InitIInv DEF SidecarInit
<1>2. SidecarTypeOK
  BY DEF SidecarInit, SidecarTypeOK, NoPass, Pass
<1> QED
  BY <1>1, <1>2 DEF SidecarInit, SInv, InstancesVerified, PassVerified, StartIsNeeded,
     StopIsNeeded, UndesiredAreRetired, RunningIndexed, OneSandbox, NoPass

(* A step of the manager keeps a sandboxed deployment sandboxed, and does   *)
(* not bring it back once it is retired.                                    *)
LEMMA ManagerKeeps ==
    ASSUME IInv, [Next]_vars, NEW d, Sandboxed(d)
    PROVE  /\ Sandboxed(d)'
           /\ ~Active(d) => ~Active(d)'
<1> DEFINE b == deployments[d].bundleId
<1>1. /\ d \in DOMAIN deployments'
      /\ Moved(deployments[d], deployments'[d])
      /\ deployments[d] \in Deployment
  BY StepIInv DEF AllMoved, Sandboxed, IInv, TypeOK
<1>2. /\ b \in DOMAIN bundlesById'
      /\ bundlesById'[b] \in {bundlesById[b], [bundlesById[b] EXCEPT !.status = "revoked"]}
      /\ bundlesById[b] \in Bundle
  BY StepBundles DEF BundlesMoved, Sandboxed, IInv, TypeOK
<1>3. /\ bundlesById'[b].signed = bundlesById[b].signed
      /\ bundlesById'[b].sandboxApproved = bundlesById[b].sandboxApproved
  BY <1>2 DEF Bundle
<1>4. /\ deployments'[d].serverId = deployments[d].serverId
      /\ deployments'[d].bundleId = b
      /\ \/ deployments'[d].status = deployments[d].status
         \/ <<deployments[d].status, deployments'[d].status>> \in StatusMoves
  BY <1>1 DEF Moved, Deployment
<1>5. deployments[d].status # "pending" =>
        /\ deployments'[d].status # "pending"
        /\ deployments[d].status # "active" => deployments'[d].status # "active"
  BY <1>4 DEF StatusMoves
<1> QED
  BY <1>1, <1>2, <1>3, <1>4, <1>5 DEF Sandboxed, Active

LEMMA ManagerSInv ==
    ASSUME SInv, [Next]_vars,
           UNCHANGED <<instances, instanceIdByDeploymentId, pass>>,
           unreported' \subseteq unreported
    PROVE  SInv'
<1>1. IInv' /\ AllMoved
  BY StepIInv DEF SInv
<1>2. \A d : Sandboxed(d) => Sandboxed(d)' /\ (~Active(d) => ~Active(d)')
  BY ManagerKeeps DEF SInv
<1>3. SidecarTypeOK'
  BY <1>1 DEF SInv, SidecarTypeOK, AllMoved, DeploymentOf
<1>4. InstancesVerified' /\ PassVerified'
  BY <1>2 DEF SInv, InstancesVerified, PassVerified, DeploymentOf
<1>5. \A i \in DOMAIN instances : ~Active(DeploymentOf(i)) => ~Active(DeploymentOf(i))'
  BY <1>2 DEF SInv, InstancesVerified, DeploymentOf, Active
<1>6. UndesiredAreRetired' /\ RunningIndexed'
  BY <1>5 DEF SInv, UndesiredAreRetired, RunningIndexed, DeploymentOf, IsRunning, IsIndexed
<1>7. StartIsNeeded' /\ StopIsNeeded' /\ OneSandbox'
  BY DEF SInv, StartIsNeeded, StopIsNeeded, OneSandbox, DeploymentOf, IsRunning
<1> QED
  BY <1>1, <1>3, <1>4, <1>6, <1>7 DEF SInv

(* Without a step of the manager a deployment stays as it is.               *)
LEMMA ManagerStays ==
    ASSUME SInv, UNCHANGED vars
    PROVE  /\ IInv'
           /\ \A d : Sandboxed(d)' <=> Sandboxed(d)
           /\ \A d : Active(d)' <=> Active(d)
<1>1. IInv'
  BY StepIInv DEF SInv
<1> QED
  BY <1>1 DEF vars, Sandboxed, Active

-----------------------------------------------------------------------------
(* The pass.  What is read at its beginning includes every deployment that  *)
(* is active then, because a key never has two.                             *)
LEMMA DesiredAreActive ==
    ASSUME SInv, NEW desired \in latestActiveDeployments
    PROVE  /\ desired \subseteq DOMAIN deployments
           /\ \A d \in desired : Sandboxed(d) /\ Active(d)
           /\ \A d : Sandboxed(d) /\ Active(d) => d \in desired
<1>1. desired \subseteq HereWith({"active"})
  BY DEF latestActiveDeployments, OnePerKey
<1>2. ASSUME NEW d \in desired PROVE d \in DOMAIN deployments /\ Sandboxed(d) /\ Active(d)
  <2>1. /\ d \in DOMAIN deployments
        /\ deployments[d].serverId = Server
        /\ deployments[d].status = "active"
    BY <1>1, <1>2 DEF HereWith, HasStatus
  <2> QED
    BY <2>1 DEF SInv, IInv, BundlesKnown, OnlyVerifiedRan, HasStatus, Sandboxed, Active
<1>3. ASSUME NEW d, Sandboxed(d), Active(d) PROVE d \in desired
  <2>1. d \in HereWith({"active"})
    BY <1>3 DEF Sandboxed, Active, HereWith, HasStatus
  <2>2. PICK c \in desired : {e \in desired : KeyOf(e) = KeyOf(d)} = {c}
    BY <2>1 DEF latestActiveDeployments, OnePerKey
  <2>3. c \in HereWith({"active"}) /\ KeyOf(c) = KeyOf(d)
    BY <1>1, <2>2
  <2>4. c = d
    BY <2>1, <2>3 DEF SInv, IInv, OneActive, HereWith, HasStatus
  <2> QED
    BY <2>4
<1> QED
  BY <1>2, <1>3

LEMMA RunOnceSInv ==
    ASSUME SInv, runOnce, UNCHANGED vars
    PROVE  SInv'
<1>1. IInv' /\ (\A d : Sandboxed(d)' <=> Sandboxed(d)) /\ (\A d : Active(d)' <=> Active(d))
  BY ManagerStays
<1>2. PICK desired \in latestActiveDeployments :
        pass' = [stage |-> "starting", desired |-> desired, todo |-> desired, awaited |-> 0]
  BY DEF runOnce
<1>3. UNCHANGED <<instances, instanceIdByDeploymentId, unreported, deployments>>
  BY DEF runOnce, vars
<1>4. /\ desired \subseteq DOMAIN deployments
      /\ \A d \in desired : Sandboxed(d) /\ Active(d)
      /\ \A d : Sandboxed(d) /\ Active(d) => d \in desired
  BY DesiredAreActive
<1>5. DOMAIN deployments \subseteq Nat
  BY DEF SInv, IInv, TypeOK
<1>6. SidecarTypeOK'
  BY <1>2, <1>3, <1>4, <1>5 DEF SInv, SidecarTypeOK, Pass, DeploymentOf
<1>7. InstancesVerified' /\ PassVerified'
  BY <1>1, <1>2, <1>3, <1>4 DEF SInv, InstancesVerified, PassVerified, DeploymentOf
<1>8. UndesiredAreRetired'
  BY <1>1, <1>2, <1>3, <1>4 DEF SInv, InstancesVerified, UndesiredAreRetired, DeploymentOf
<1>9. RunningIndexed'
  BY <1>1, <1>2, <1>3, <1>4 DEF SInv, RunningIndexed, IsIndexed, IsRunning, DeploymentOf
<1>10. StartIsNeeded' /\ StopIsNeeded' /\ OneSandbox'
  BY <1>2, <1>3 DEF SInv, StartIsNeeded, StopIsNeeded, OneSandbox, IsRunning, DeploymentOf
<1> QED
  BY <1>1, <1>6, <1>7, <1>8, <1>9, <1>10 DEF SInv

(* The index is what start asks, so it finds every running sandbox of a     *)
(* desired deployment.                                                      *)
LEMMA StartSInv ==
    ASSUME SInv, NEW d \in DOMAIN deployments, start(d), UNCHANGED vars
    PROVE  SInv'
<1>1. IInv' /\ (\A e : Sandboxed(e)' <=> Sandboxed(e)) /\ (\A e : Active(e)' <=> Active(e))
  BY ManagerStays
<1>2. /\ pass.stage = "starting" /\ pass.awaited = 0
      /\ d \in pass.todo /\ d \in pass.desired
      /\ ~HasSandbox(d)
      /\ pass \in Pass
  BY DEF start, NextToStart, SInv, SidecarTypeOK, PassVerified
<1>3. UNCHANGED <<instances, unreported, deployments>>
  BY DEF start, vars
<1>4. \/ pass' = NoPass
      \/ /\ pass' \in Pass
         /\ pass'.stage = "starting" /\ pass'.desired = pass.desired
         /\ pass'.todo \subseteq pass.todo /\ pass'.awaited = d
  <2>1. d \in Nat /\ AfterIn(d, pass.todo) \subseteq pass.todo
    BY DEF SInv, IInv, TypeOK, AfterIn
  <2>2. CASE deployments[d].bundleId \in SidecarBundles
    BY <1>2, <2>1, <2>2 DEF start, Pass
  <2> QED
    BY <2>2 DEF start
<1>5. /\ DOMAIN instanceIdByDeploymentId' = DOMAIN instanceIdByDeploymentId \ {d}
      /\ \A e \in DOMAIN instanceIdByDeploymentId' :
            instanceIdByDeploymentId'[e] = instanceIdByDeploymentId[e]
  BY DEF start, WithoutIndexOf
<1>6. \A i \in DOMAIN instances : DeploymentOf(i) = d => ~IsRunning(i)
  BY <1>2 DEF SInv, RunningIndexed, IsIndexed, HasSandbox
<1>7. SidecarTypeOK'
  BY <1>3, <1>4, <1>5 DEF SInv, SidecarTypeOK, NoPass, Pass, DeploymentOf
<1>8. InstancesVerified' /\ PassVerified'
  BY <1>1, <1>3, <1>4 DEF SInv, InstancesVerified, PassVerified, NoPass, DeploymentOf
<1>9. UndesiredAreRetired'
  BY <1>1, <1>2, <1>3, <1>4 DEF SInv, UndesiredAreRetired, NoPass, DeploymentOf
<1>10. RunningIndexed'
  BY <1>1, <1>3, <1>4, <1>5, <1>6
  DEF SInv, RunningIndexed, IsIndexed, IsRunning, DeploymentOf, NoPass
<1>11. StartIsNeeded' /\ StopIsNeeded' /\ OneSandbox'
  BY <1>2, <1>3, <1>4, <1>6
  DEF SInv, StartIsNeeded, StopIsNeeded, OneSandbox, IsRunning, DeploymentOf, NoPass
<1> QED
  BY <1>1, <1>7, <1>8, <1>9, <1>10, <1>11 DEF SInv

LEMMA DriverStartedSInv ==
    ASSUME SInv, NEW d \in DOMAIN deployments, DriverStarted(d), UNCHANGED vars
    PROVE  SInv'
<1> DEFINE n == Len(instances) + 1
<1>1. IInv' /\ (\A e : Sandboxed(e)' <=> Sandboxed(e)) /\ (\A e : Active(e)' <=> Active(e))
  BY ManagerStays
<1>2. /\ d \in Nat \ {0}
      /\ pass.stage = "starting" /\ pass.awaited = d
      /\ pass \in Pass
      /\ UNCHANGED <<unreported, deployments>>
  BY DEF DriverStarted, vars, SInv, SidecarTypeOK, IInv, TypeOK
<1>3. /\ pass' \in Pass
      /\ pass'.stage = "starting" /\ pass'.awaited = 0
      /\ pass'.desired = pass.desired /\ pass'.todo = pass.todo
  BY <1>2 DEF DriverStarted, Pass
<1>4. d \in pass.desired /\ (\A i \in DOMAIN instances : DeploymentOf(i) = d => ~IsRunning(i))
  BY <1>2 DEF SInv, StartIsNeeded
<1>5. /\ instances' \in Seq(Instance)
      /\ DOMAIN instances' = DOMAIN instances \cup {n}
      /\ n \notin DOMAIN instances
      /\ \A i \in DOMAIN instances : instances'[i] = instances[i]
      /\ instances'[n].deploymentId = d
  BY <1>2 DEF DriverStarted, Instance, SInv, SidecarTypeOK
<1>6. /\ DOMAIN instanceIdByDeploymentId' = DOMAIN instanceIdByDeploymentId \cup {d}
      /\ instanceIdByDeploymentId'[d] = n
      /\ \A e \in DOMAIN instanceIdByDeploymentId :
            e # d => instanceIdByDeploymentId'[e] = instanceIdByDeploymentId[e]
  BY DEF DriverStarted, WithIndexOf
<1> HIDE DEF n
<1>7. SidecarTypeOK'
  BY <1>2, <1>3, <1>5, <1>6 DEF SInv, SidecarTypeOK, DeploymentOf
<1>8. InstancesVerified' /\ PassVerified'
  BY <1>1, <1>3, <1>4, <1>5 DEF SInv, InstancesVerified, PassVerified, DeploymentOf
<1>9. UndesiredAreRetired'
  BY <1>1, <1>2, <1>3, <1>4, <1>5 DEF SInv, UndesiredAreRetired, DeploymentOf
<1>10. RunningIndexed'
  BY <1>1, <1>3, <1>4, <1>5, <1>6
  DEF SInv, SidecarTypeOK, RunningIndexed, IsIndexed, IsRunning, DeploymentOf
<1>11. StartIsNeeded' /\ StopIsNeeded' /\ OneSandbox'
  BY <1>3, <1>4, <1>5 DEF SInv, StartIsNeeded, StopIsNeeded, OneSandbox, IsRunning, DeploymentOf
<1> QED
  BY <1>1, <1>7, <1>8, <1>9, <1>10, <1>11 DEF SInv

LEMMA StopSInv ==
    ASSUME SInv, NEW i \in DOMAIN instances, stop(i), UNCHANGED vars
    PROVE  SInv'
<1>1. IInv' /\ (\A e : Sandboxed(e)' <=> Sandboxed(e)) /\ (\A e : Active(e)' <=> Active(e))
  BY ManagerStays
<1>2. /\ pass.stage # "idle" /\ pass \in Pass
      /\ DeploymentOf(i) \notin pass.desired
      /\ i \in Nat
      /\ UNCHANGED <<instances, instanceIdByDeploymentId, unreported, deployments>>
  BY DEF stop, AllStarted, NextToStop, NeedsStop, vars, SInv, SidecarTypeOK
<1>3. /\ pass' \in Pass
      /\ pass'.stage = "stopping" /\ pass'.awaited = i
      /\ pass'.desired = pass.desired /\ pass'.todo = {}
  BY <1>2 DEF stop, Pass
<1>4. SidecarTypeOK'
  BY <1>2, <1>3 DEF SInv, SidecarTypeOK, DeploymentOf
<1>5. InstancesVerified' /\ PassVerified' /\ UndesiredAreRetired'
  BY <1>1, <1>2, <1>3
  DEF SInv, InstancesVerified, PassVerified, UndesiredAreRetired, DeploymentOf
<1>6. RunningIndexed'
  BY <1>1, <1>2, <1>3 DEF SInv, RunningIndexed, IsIndexed, IsRunning, DeploymentOf
<1>7. StartIsNeeded' /\ StopIsNeeded' /\ OneSandbox'
  BY <1>2, <1>3 DEF SInv, StartIsNeeded, StopIsNeeded, OneSandbox, IsRunning, DeploymentOf
<1> QED
  BY <1>1, <1>4, <1>5, <1>6, <1>7 DEF SInv

(* A stop takes the deployment out of the index, a younger instance of it   *)
(* included; but the deployment is retired.                                 *)
LEMMA DriverStoppedSInv ==
    ASSUME SInv, NEW i \in DOMAIN instances, DriverStopped(i), UNCHANGED vars
    PROVE  SInv'
<1>1. IInv' /\ (\A e : Sandboxed(e)' <=> Sandboxed(e)) /\ (\A e : Active(e)' <=> Active(e))
  BY ManagerStays
<1>2. /\ i \in Nat \ {0}
      /\ pass.stage = "stopping" /\ pass.awaited = i /\ pass \in Pass
      /\ UNCHANGED <<unreported, deployments>>
  BY DEF DriverStopped, vars, SInv, SidecarTypeOK
<1>3. DeploymentOf(i) \notin pass.desired /\ ~Active(DeploymentOf(i))
  BY <1>2 DEF SInv, StopIsNeeded, UndesiredAreRetired
<1>4. /\ pass' \in Pass
      /\ pass'.stage = "stopping" /\ pass'.awaited = 0
      /\ pass'.desired = pass.desired /\ pass'.todo = pass.todo
  BY <1>2 DEF DriverStopped, Pass
<1>5. /\ instances' \in Seq(Instance)
      /\ DOMAIN instances' = DOMAIN instances
      /\ \A j \in DOMAIN instances :
            /\ instances'[j].deploymentId = instances[j].deploymentId
            /\ instances'[j].status \in {instances[j].status, "stopped"}
  <2>1. instances \in Seq(Instance) /\ instances[i] \in Instance
    BY DEF SInv, SidecarTypeOK
  <2>2. instances' = [instances EXCEPT ![i] = [instances[i] EXCEPT !.status = "stopped"]]
    BY DEF DriverStopped
  <2>3. /\ [instances[i] EXCEPT !.status = "stopped"] \in Instance
        /\ [instances[i] EXCEPT !.status = "stopped"].deploymentId = instances[i].deploymentId
        /\ [instances[i] EXCEPT !.status = "stopped"].status = "stopped"
    BY <2>1 DEF Instance
  <2> QED
    BY <2>1, <2>2, <2>3
<1>6. /\ DOMAIN instanceIdByDeploymentId' = DOMAIN instanceIdByDeploymentId \ {DeploymentOf(i)}
      /\ \A e \in DOMAIN instanceIdByDeploymentId' :
            instanceIdByDeploymentId'[e] = instanceIdByDeploymentId[e]
  BY DEF DriverStopped, WithoutIndexOf
<1>7. \A j \in DOMAIN instances : IsRunning(j)' => IsRunning(j)
  BY <1>5 DEF IsRunning
<1>8. SidecarTypeOK'
  BY <1>2, <1>4, <1>5, <1>6 DEF SInv, SidecarTypeOK, DeploymentOf
<1>9. InstancesVerified' /\ PassVerified' /\ UndesiredAreRetired'
  BY <1>1, <1>2, <1>4, <1>5
  DEF SInv, InstancesVerified, PassVerified, UndesiredAreRetired, DeploymentOf
<1>10. RunningIndexed'
  BY <1>1, <1>3, <1>4, <1>5, <1>6, <1>7 DEF SInv, RunningIndexed, IsIndexed, DeploymentOf
<1>11. StartIsNeeded' /\ StopIsNeeded' /\ OneSandbox'
  BY <1>4, <1>5, <1>7 DEF SInv, StartIsNeeded, StopIsNeeded, OneSandbox, DeploymentOf
<1> QED
  BY <1>1, <1>8, <1>9, <1>10, <1>11 DEF SInv

LEMMA PassOverSInv ==
    ASSUME SInv, DriverThrew \/ PassEnds, UNCHANGED vars
    PROVE  SInv'
<1>1. IInv' /\ (\A e : Sandboxed(e)' <=> Sandboxed(e)) /\ (\A e : Active(e)' <=> Active(e))
  BY ManagerStays
<1>2. /\ pass' = NoPass
      /\ UNCHANGED <<instances, instanceIdByDeploymentId, unreported, deployments>>
  BY DEF DriverThrew, PassEnds, vars
<1>3. SidecarTypeOK'
  BY <1>2 DEF SInv, SidecarTypeOK, DeploymentOf, NoPass, Pass
<1>4. InstancesVerified' /\ PassVerified' /\ UndesiredAreRetired'
  BY <1>1, <1>2
  DEF SInv, InstancesVerified, PassVerified, UndesiredAreRetired, DeploymentOf, NoPass
<1>5. RunningIndexed'
  BY <1>1, <1>2 DEF SInv, RunningIndexed, IsIndexed, IsRunning, DeploymentOf, NoPass
<1>6. StartIsNeeded' /\ StopIsNeeded' /\ OneSandbox'
  BY <1>2 DEF SInv, StartIsNeeded, StopIsNeeded, OneSandbox, IsRunning, DeploymentOf, NoPass
<1> QED
  BY <1>1, <1>3, <1>4, <1>5, <1>6 DEF SInv

-----------------------------------------------------------------------------
(* Health.                                                                  *)
LEMMA StaleSInv ==
    ASSUME SInv, NEW S \in SUBSET DOMAIN instances, failStaleInstances(S), UNCHANGED vars
    PROVE  SInv'
<1>1. IInv' /\ (\A e : Sandboxed(e)' <=> Sandboxed(e)) /\ (\A e : Active(e)' <=> Active(e))
  BY ManagerStays
<1>2. UNCHANGED <<instanceIdByDeploymentId, pass, deployments>>
  BY DEF failStaleInstances, vars
<1>3. /\ instances' \in Seq(Instance)
      /\ DOMAIN instances' = DOMAIN instances
      /\ \A j \in DOMAIN instances :
            /\ instances'[j].deploymentId = instances[j].deploymentId
            /\ instances'[j].status \in {instances[j].status, "failed"}
  <2>1. instances \in Seq(Instance)
    BY DEF SInv, SidecarTypeOK
  <2>2. ASSUME NEW j \in DOMAIN instances
        PROVE  /\ instances'[j] \in Instance
               /\ instances'[j].deploymentId = instances[j].deploymentId
               /\ instances'[j].status \in {instances[j].status, "failed"}
    <3>1. instances[j] \in Instance
      BY <2>1
    <3>2. instances'[j] = IF j \in S
                          THEN [instances[j] EXCEPT !.status = "failed", !.stale = TRUE]
                          ELSE instances[j]
      BY DEF failStaleInstances
    <3> QED
      BY <3>1, <3>2 DEF Instance
  <2>3. DOMAIN instances' = 1 .. Len(instances) /\ Len(instances) \in Nat
    <3>1. DOMAIN instances' = DOMAIN instances
      BY DEF failStaleInstances
    <3> QED
      BY <2>1, <3>1
  <2>4. instances' \in [1 .. Len(instances) -> Instance]
    BY <2>1, <2>2, <2>3 DEF failStaleInstances
  <2>5. instances' \in Seq(Instance)
    BY <2>3, <2>4
  <2> QED
    BY <2>1, <2>2, <2>3, <2>5
<1>4. \A j \in DOMAIN instances : IsRunning(j)' => IsRunning(j)
  BY <1>3 DEF IsRunning
<1>5. unreported' \subseteq DOMAIN instances
  BY DEF failStaleInstances, SInv, SidecarTypeOK
<1>6. SidecarTypeOK'
  BY <1>2, <1>3, <1>5 DEF SInv, SidecarTypeOK, DeploymentOf
<1>7. InstancesVerified' /\ PassVerified' /\ UndesiredAreRetired'
  BY <1>1, <1>2, <1>3
  DEF SInv, InstancesVerified, PassVerified, UndesiredAreRetired, DeploymentOf
<1>8. RunningIndexed'
  BY <1>1, <1>2, <1>3, <1>4 DEF SInv, RunningIndexed, IsIndexed, DeploymentOf
<1>9. StartIsNeeded' /\ StopIsNeeded' /\ OneSandbox'
  BY <1>2, <1>3, <1>4 DEF SInv, StartIsNeeded, StopIsNeeded, OneSandbox, DeploymentOf
<1> QED
  BY <1>1, <1>6, <1>7, <1>8, <1>9 DEF SInv

(* Failing the deployments of stale sandboxes is a step of the manager.     *)
LEMMA ReportIsManagerStep ==
    ASSUME SInv, NEW i \in unreported, failPluginSidecarDeployments(i)
    PROVE  [Next]_vars
<1>1. DeploymentOf(i) \in DOMAIN deployments
  BY DEF SInv, SidecarTypeOK, InstancesVerified, Sandboxed
<1> QED
  BY <1>1 DEF failPluginSidecarDeployments, Next, RetreatStep

-----------------------------------------------------------------------------
LEMMA SidecarStep == SInv /\ [SidecarNext]_allVars => SInv' /\ [Next]_vars
<1> SUFFICES ASSUME SInv, [SidecarNext]_allVars PROVE SInv' /\ [Next]_vars
  OBVIOUS
<1>1. CASE ManagerStep
  BY <1>1, ManagerSInv DEF ManagerStep, sidecarVars
<1>2. CASE UNCHANGED allVars
  BY <1>2, ManagerSInv DEF allVars, sidecarVars
<1>3. CASE PassStep
  BY <1>3, RunOnceSInv, StartSInv, DriverStartedSInv, StopSInv, DriverStoppedSInv,
     PassOverSInv DEF PassStep
<1>4. CASE HealthStep
  <2>1. ASSUME NEW S \in SUBSET DOMAIN instances, failStaleInstances(S), UNCHANGED vars
        PROVE  SInv' /\ [Next]_vars
    BY <2>1, StaleSInv
  <2>2. ASSUME NEW i \in unreported, failPluginSidecarDeployments(i)
        PROVE  SInv' /\ [Next]_vars
    BY <2>2, ReportIsManagerStep, ManagerSInv DEF failPluginSidecarDeployments
  <2> QED
    BY <1>4, <2>1, <2>2 DEF HealthStep
<1> QED
  BY <1>1, <1>2, <1>3, <1>4 DEF SidecarNext

(* The inductive invariant holds in every reachable state.                  *)
THEOREM SidecarInvariance == SidecarSpec => []SInv
BY InitSInv, SidecarStep, PTL DEF SidecarSpec

(* Beside its sidecars the manager behaves as without them, so all that is  *)
(* proved of it holds here too.                                             *)
THEOREM SidecarsKeepManager == SidecarSpec => Spec
<1>1. SidecarInit => Init
  BY DEF SidecarInit
<1> QED
  BY <1>1, SidecarInvariance, SidecarStep, PTL DEF SidecarSpec, Spec

(* The supervisor's tables stay well formed while passes are interrupted by *)
(* failures and overtaken by the manager.                                   *)
THEOREM SidecarTypeCorrect == SidecarSpec => []SidecarTypeOK
BY SidecarInvariance, PTL DEF SInv

(* start looks for a running sandbox before it awaits the driver and stores *)
(* its own afterwards; there are never two of a deployment.                 *)
THEOREM SandboxIsUnique == SidecarSpec => []OneSandbox
BY SidecarInvariance, PTL DEF SInv

(* Only verified deployments get a sandbox, whatever changes between the    *)
(* reading of the deployments and the start.                                *)
THEOREM SandboxesVerified == SidecarSpec => []OnlyVerifiedSandboxes
<1>1. SInv => OnlyVerifiedSandboxes
  BY DEF SInv, InstancesVerified, Sandboxed, OnlyVerifiedSandboxes, HasStatus
<1> QED
  BY <1>1, SidecarInvariance, PTL

(* Instances and index fit, for any number of deployments and passes.       *)
THEOREM SandboxesStaySound == SidecarSpec => []SandboxesAreSound
BY SidecarTypeCorrect, SandboxIsUnique, SandboxesVerified, PTL DEF SandboxesAreSound

(* A pass stops no sandbox of a deployment that is active by then.          *)
THEOREM StopsAreRight == SidecarSpec => StopsOnlyRetired
<1> DEFINE A == \A i \in DOMAIN instances :
        instances[i].status # "stopped" /\ instances'[i].status = "stopped" =>
            ~HasStatus(DeploymentOf(i), {"active"})
<1>1. ASSUME UNCHANGED instances PROVE A
  BY <1>1
<1>2. ASSUME SInv, [SidecarNext]_allVars PROVE A
  <2>1. CASE ManagerStep \/ UNCHANGED allVars
    BY <1>1, <2>1 DEF ManagerStep, allVars, sidecarVars
  <2>2. ASSUME NEW d \in DOMAIN deployments, DriverStarted(d) PROVE A
    BY <1>2, <2>2 DEF DriverStarted, SInv, SidecarTypeOK
  <2>3. ASSUME NEW i \in DOMAIN instances, DriverStopped(i) PROVE A
    <3>1. ~Active(DeploymentOf(i))
      BY <1>2, <2>3 DEF DriverStopped, SInv, StopIsNeeded, UndesiredAreRetired,
         SidecarTypeOK
    <3> QED
      BY <2>3, <3>1 DEF DriverStopped, Active, HasStatus
  <2>4. CASE PassStep
    BY <1>1, <2>2, <2>3, <2>4 DEF PassStep, runOnce, start, stop, DriverThrew, PassEnds
  <2>5. CASE HealthStep
    <3>1. ASSUME NEW S \in SUBSET DOMAIN instances, failStaleInstances(S) PROVE A
      <4>1. ASSUME NEW i \in DOMAIN instances, instances'[i].status = "stopped"
            PROVE  instances[i].status = "stopped"
        <5>1. instances[i] \in Instance
          BY <1>2 DEF SInv, SidecarTypeOK
        <5>2. instances'[i] = IF i \in S
                              THEN [instances[i] EXCEPT !.status = "failed", !.stale = TRUE]
                              ELSE instances[i]
          BY <3>1 DEF failStaleInstances
        <5> QED
          BY <4>1, <5>1, <5>2 DEF Instance
      <4> QED
        BY <4>1
    <3> QED
      BY <1>1, <2>5, <3>1 DEF HealthStep, failPluginSidecarDeployments
  <2> QED
    BY <1>2, <2>1, <2>4, <2>5 DEF SidecarNext
<1>3. SInv /\ [SidecarNext]_allVars => [A]_allVars
  BY <1>2
<1> QED
  BY <1>3, SidecarInvariance, PTL DEF SidecarSpec, StopsOnlyRetired
=============================================================================
