-------------------------- MODULE PluginRegistryProofs --------------------------
(***************************************************************************)
(* Proofs about PluginRegistry, for any plugins, manifests, packages,      *)
(* signers and lists of resources.                                         *)
(*                                                                         *)
(* The argument is about the cascade.  It is a recursion over the active   *)
(* plugins in which each round only takes some out, so after as many       *)
(* rounds as there are plugins it no longer changes, and whatever is left  *)
(* has its requirements met among what is left.  Requirements that are met *)
(* stay met when more becomes active, so neither an enabled plugin nor the *)
(* second half of an import takes anything from the others.                *)
(***************************************************************************)
EXTENDS PluginRegistry, DataTheorems, SequenceTheorems, TLAPS

-----------------------------------------------------------------------------
(* More active plugins meet more requirements.                              *)
LEMMA MoreMeetsMore ==
    ASSUME NEW p, NEW A, NEW B, A \subseteq B, RequirementsMet(p, A)
    PROVE  RequirementsMet(p, B)
<1>1. \A field : Provided(A, field) \subseteq Provided(B, field)
  BY DEF Provided
<1> QED
  BY <1>1 DEF RequirementsMet, activeFivemDependencyExists, activeCapabilityExists

(* Requirements depend on the manifests of the plugin and the active ones.  *)
LEMMA MetWithSameManifests ==
    ASSUME NEW p, NEW A, \A q \in A \cup {p} : manifestsByPluginId'[q] = manifestsByPluginId[q]
    PROVE  RequirementsMet(p, A)' = RequirementsMet(p, A)
<1>1. \A field : Provided(A, field)' = Provided(A, field)
  BY DEF Provided
<1>2. manifestsByPluginId'[p] = manifestsByPluginId[p]
  OBVIOUS
<1> QED
  BY <1>1, <1>2 DEF RequirementsMet, activeFivemDependencyExists, activeCapabilityExists

-----------------------------------------------------------------------------
(***************************************************************************)
(* The cascade.                                                            *)
(***************************************************************************)
Stays(p, T, start, lost) ==
    /\ RequirementsMet(p, T)
    /\ manifestsByPluginId[p].requiredCapabilities
          \cap (lost \cup Provided(start \ T, "providedCapabilities")) = {}

Rounds(start, lost, f) ==
    f = [n \in 0 .. Cardinality(start) |->
           IF n = 0 THEN start
           ELSE {p \in f[n - 1] :
                   /\ RequirementsMet(p, f[n - 1])
                   /\ manifestsByPluginId[p].requiredCapabilities
                        \cap (lost \cup Provided(start \ f[n - 1], "providedCapabilities")) = {}}]

LEMMA RoundsExist ==
    ASSUME NEW start, IsFiniteSet(start), NEW lost
    PROVE  \E f : Rounds(start, lost, f)
<1> DEFINE K == Cardinality(start)
           next == [T \in SUBSET start |-> {p \in T : Stays(p, T, start, lost)}]
           step == [n \in 1 .. K |-> next]
<1>1. K \in Nat
  BY FS_CardinalityType
<1>2. \A T \in SUBSET start : next[T] = {p \in T : Stays(p, T, start, lost)}
  OBVIOUS
<1>3. \A n \in 1 .. K : step[n] = next
  OBVIOUS
<1> HIDE DEF K, next, step
<1>4. \A n \in 1 .. K : \A T \in SUBSET start : step[n][T] \in SUBSET start
  <2> SUFFICES ASSUME NEW n \in 1 .. K, NEW T \in SUBSET start PROVE step[n][T] \in SUBSET start
    OBVIOUS
  <2> QED  BY <1>2, <1>3
<1>5. PICK f \in [0 .. K -> SUBSET start] : Recursion(K, start, step, f)
  <2>1. start \in SUBSET start
    OBVIOUS
  <2> QED  BY <1>1, <1>4, <2>1, RecursionFromZero
<1>6. f = [n \in 0 .. K |-> IF n = 0 THEN start ELSE step[n][f[n - 1]]]
  BY <1>5 DEF Recursion
<1>7. ASSUME NEW n \in 0 .. K
      PROVE  f[n] = IF n = 0 THEN start ELSE {p \in f[n - 1] : Stays(p, f[n - 1], start, lost)}
  <2>1. CASE n = 0
    BY <1>6, <2>1
  <2>2. CASE n # 0
    <3>1. n \in 1 .. K /\ n - 1 \in 0 .. K
      BY <1>1, <2>2
    <3>2. f[n] = step[n][f[n - 1]] /\ step[n] = next
      BY <1>3, <1>6, <2>2, <3>1
    <3>3. f[n - 1] \in SUBSET start
      BY <1>5, <3>1
    <3> QED  BY <1>2, <2>2, <3>2, <3>3
  <2> QED  BY <2>1, <2>2
<1>8. f = [n \in 0 .. K |-> f[n]]
  BY <1>5
<1>9. f = [n \in 0 .. K |-> IF n = 0 THEN start ELSE {p \in f[n - 1] : Stays(p, f[n - 1], start, lost)}]
  BY <1>7, <1>8
<1> QED  BY <1>9 DEF Rounds, Stays, K

(* What the cascade leaves needs nothing but itself.                        *)
LEMMA CascadeSettles ==
    ASSUME IsFiniteSet(DOMAIN pluginsById), NEW gone, NEW lost
    PROVE  /\ disableDependents(gone, lost) \subseteq HasStatus("active") \ gone
           /\ \A p \in disableDependents(gone, lost) : RequirementsMet(p, disableDependents(gone, lost))
<1> DEFINE start == HasStatus("active") \ gone
           K == Cardinality(start)
           round == CHOOSE f : Rounds(start, lost, f)
           next == [T \in SUBSET start |-> {p \in T : Stays(p, T, start, lost)}]
<1>1. IsFiniteSet(start)
  <2>1. start \in SUBSET (DOMAIN pluginsById)
    BY DEF HasStatus
  <2> QED  BY <2>1, FS_Subset
<1>2. disableDependents(gone, lost) = round[K]
  BY DEF disableDependents, Rounds
<1>3. \A T \in SUBSET start : next[T] = {p \in T : Stays(p, T, start, lost)}
  OBVIOUS
<1> HIDE DEF start, next
<1>4. Rounds(start, lost, round)
  BY <1>1, RoundsExist
<1> HIDE DEF round
<1>5. K \in Nat
  BY <1>1, FS_CardinalityType
<1>6. round[0] = start /\ \A n \in 1 .. K :
         round[n] = {p \in round[n - 1] : Stays(p, round[n - 1], start, lost)}
  <2>1. \A n \in 0 .. K : round[n] = IF n = 0 THEN start
                                     ELSE {p \in round[n - 1] : Stays(p, round[n - 1], start, lost)}
    BY <1>4 DEF Rounds, Stays
  <2>2. 0 \in 0 .. K /\ \A n \in 1 .. K : n \in 0 .. K /\ n # 0
    BY <1>5
  <2> HIDE DEF K
  <2> QED  BY <2>1, <2>2
<1> DEFINE M == {n \in Nat : n <= K => round[n] \in SUBSET start}
<1>7. Nat \subseteq M
  <2>1. 0 \in M
    BY <1>6
  <2>2. ASSUME NEW n \in Nat, n \in M PROVE n + 1 \in M
    <3> SUFFICES ASSUME n + 1 <= K PROVE round[n + 1] \in SUBSET start
      OBVIOUS
    <3>1. n + 1 \in 1 .. K /\ (n + 1) - 1 = n /\ round[n] \in SUBSET start
      BY <1>5, <2>2
    <3> QED  BY <1>6, <3>1
  <2> HIDE DEF M
  <2> QED  BY <2>1, <2>2, SetOfNaturals
<1>8. \A n \in 1 .. K : round[n] = next[round[n - 1]]
  <2> SUFFICES ASSUME NEW n \in 1 .. K PROVE round[n] = next[round[n - 1]]
    OBVIOUS
  <2>1. n - 1 \in Nat /\ n - 1 <= K
    BY <1>5
  <2>2. round[n - 1] \in SUBSET start
    BY <1>7, <2>1
  <2> QED  BY <1>3, <1>6, <2>2
<1>9. \A T \in SUBSET start : next[T] \subseteq T
  BY <1>3
<1>10. round[K] \in SUBSET start /\ next[round[K]] = round[K]
  BY <1>1, <1>6, <1>8, <1>9, ShrinkingSettles
<1>11. round[K] = {p \in round[K] : Stays(p, round[K], start, lost)}
  BY <1>3, <1>10
<1> QED  BY <1>2, <1>10, <1>11 DEF Stays, start

-----------------------------------------------------------------------------
(***************************************************************************)
(* The invariant.  Beside what the registry guarantees it says that every  *)
(* installed manifest was validated, so that a surface names a permission  *)
(* of its own manifest, and that an import under way has a listed plan.    *)
(***************************************************************************)
ShapeInv ==
    /\ pluginsById \in [DOMAIN pluginsById -> Statuses]
    /\ IsFiniteSet(DOMAIN pluginsById) /\ DOMAIN pluginsById \subseteq PluginIds
    /\ DOMAIN manifestsByPluginId = DOMAIN pluginsById
    /\ \A p \in DOMAIN pluginsById :
          manifestsByPluginId[p] \in ManifestsOf[p] /\ validateManifest(manifestsByPluginId[p])
    /\ \A package \in DOMAIN packagesById : packagesById[package].pluginId \in DOMAIN pluginsById
    /\ \A id \in DOMAIN entitiesById : entitiesById[id] \in Entity
    /\ importing = None \/ importing \in EnsuredLists

RInv == ShapeInv /\ RequirementsHold /\ RevokedSignersInactive

LEMMA ActiveMayRun == ASSUME RInv PROVE ActivePluginsMayRun
<1>1. ASSUME NEW surface \in ActiveSurfaces PROVE surface[2] \in ActivePermissions
  <2>1. /\ surface[1] \in HasStatus("active")
        /\ surface[2] \in manifestsByPluginId[surface[1]].namedPermissions
    BY DEF ActiveSurfaces
  <2>2. surface[1] \in DOMAIN pluginsById
    BY <2>1 DEF HasStatus
  <2>3. surface[2] \in manifestsByPluginId[surface[1]].permissions
    BY <2>1, <2>2 DEF RInv, ShapeInv, validateManifest
  <2> QED  BY <2>1, <2>3 DEF ActivePermissions, Provided
<1>2. RegistryTypeOK
  BY <1>1 DEF RInv, ShapeInv, RegistryTypeOK
<1> QED  BY <1>2 DEF RInv, ActivePluginsMayRun

(* The active plugins after a step, when their requirements are met and     *)
(* their manifests are the ones they had.                                   *)
LEMMA HoldNext ==
    ASSUME NEW A, HasStatus("active")' = A,
           \A q \in A : manifestsByPluginId'[q] = manifestsByPluginId[q],
           \A p \in A : RequirementsMet(p, A)
    PROVE  RequirementsHold'
<1>1. \A p \in A : RequirementsMet(p, A)'
  BY MetWithSameManifests
<1>2. \A p \in A : RequirementsMet(p, HasStatus("active"))'
  BY <1>1 DEF RequirementsMet, Provided, activeFivemDependencyExists, activeCapabilityExists
<1> QED  BY <1>2 DEF RequirementsHold

(* Nothing that matters to the requirements changes.                        *)
LEMMA HoldSame ==
    ASSUME RequirementsHold, replaced' = {} => replaced = {},
           replaced' = {} => /\ HasStatus("active")' = HasStatus("active")
                             /\ \A q \in HasStatus("active") : manifestsByPluginId'[q] = manifestsByPluginId[q]
    PROVE  RequirementsHold'
<1>1. CASE replaced' # {}
  BY <1>1 DEF RequirementsHold
<1>2. CASE replaced' = {}
  <2>1. PICK A : A = HasStatus("active")
    OBVIOUS
  <2>2. \A p \in A : RequirementsMet(p, A)
    BY <1>2, <2>1 DEF RequirementsHold
  <2> QED  BY <1>2, <2>1, <2>2, HoldNext
<1> QED  BY <1>1, <1>2

(* Plugins are disabled, each with what depends on it.                      *)
LEMMA Disabling ==
    ASSUME ShapeInv, NEW kept, kept \subseteq DOMAIN pluginsById, NEW gone, NEW lost,
           DOMAIN pluginsById \ kept \subseteq gone,
           pluginsById' = WithDisabled(kept, gone, lost),
           \A q \in kept : manifestsByPluginId'[q] = manifestsByPluginId[q]
    PROVE  /\ pluginsById' \in [kept -> Statuses]
           /\ HasStatus("active")' \subseteq HasStatus("active") \ gone
           /\ RequirementsHold'
<1>1. PICK A : A = disableDependents(gone, lost)
  OBVIOUS
<1>2. A \subseteq HasStatus("active") \ gone /\ \A p \in A : RequirementsMet(p, A)
  BY <1>1, CascadeSettles DEF ShapeInv
<1>3. pluginsById' = [p \in kept |-> IF p \in gone \/ (pluginsById[p] = "active" /\ p \notin A) THEN "disabled"
                                     ELSE pluginsById[p]]
  BY <1>1 DEF WithDisabled
<1>4. \A p \in kept : pluginsById[p] \in Statuses
  BY DEF ShapeInv
<1>5. pluginsById' \in [kept -> Statuses]
  BY <1>3, <1>4 DEF Statuses
<1>6. A \subseteq kept
  BY <1>2 DEF HasStatus
<1>7. HasStatus("active")' = A
  <2>1. HasStatus("active")' = {p \in kept : pluginsById'[p] = "active"}
    BY <1>5 DEF HasStatus
  <2>2. \A p \in kept : pluginsById'[p] = "active" <=> (p \notin gone /\ pluginsById[p] = "active" /\ p \in A)
    BY <1>3
  <2>3. \A p \in A : p \notin gone /\ pluginsById[p] = "active"
    BY <1>2 DEF HasStatus
  <2> QED  BY <1>6, <2>1, <2>2, <2>3
<1>8. RequirementsHold'
  BY <1>2, <1>6, <1>7, HoldNext
<1> QED  BY <1>2, <1>5, <1>7, <1>8

-----------------------------------------------------------------------------
(***************************************************************************)
(* Each operation keeps the invariant.                                     *)
(***************************************************************************)
(* A manifest is installed, by itself or with a package.                    *)
LEMMA InstallKeeps ==
    ASSUME ShapeInv, RequirementsHold, NEW p \in PluginIds, NEW m \in ManifestsOf[p], validateManifest(m),
           pluginsById' = Put(pluginsById, p, StatusOf(p)),
           manifestsByPluginId' = Put(manifestsByPluginId, p, m),
           replaced' = replaced \cup Replaces(p, m)
    PROVE  /\ pluginsById' \in [DOMAIN pluginsById' -> Statuses]
           /\ DOMAIN pluginsById' = DOMAIN pluginsById \cup {p}
           /\ IsFiniteSet(DOMAIN pluginsById') /\ DOMAIN pluginsById' \subseteq PluginIds
           /\ DOMAIN manifestsByPluginId' = DOMAIN pluginsById'
           /\ \A q \in DOMAIN pluginsById' :
                 manifestsByPluginId'[q] \in ManifestsOf[q] /\ validateManifest(manifestsByPluginId'[q])
           /\ \A q \in DOMAIN pluginsById : pluginsById'[q] = pluginsById[q]
           /\ RequirementsHold'
<1>1. DOMAIN pluginsById' = DOMAIN pluginsById \cup {p} /\ DOMAIN manifestsByPluginId' = DOMAIN pluginsById \cup {p}
  BY DEF Put, ShapeInv
<1>2. \A q \in DOMAIN pluginsById : pluginsById'[q] = pluginsById[q]
  BY DEF Put, StatusOf
<1>3. p \notin DOMAIN pluginsById => pluginsById'[p] = "installed"
  BY DEF Put, StatusOf
<1>4. manifestsByPluginId'[p] = m /\ \A q \in DOMAIN pluginsById \ {p} : manifestsByPluginId'[q] = manifestsByPluginId[q]
  BY DEF Put, ShapeInv
<1>5. IsFiniteSet(DOMAIN pluginsById')
  <2>1. IsFiniteSet(DOMAIN pluginsById)
    BY DEF ShapeInv
  <2>2. IsFiniteSet(DOMAIN pluginsById \cup {p})
    BY <2>1, FS_AddElement
  <2> QED  BY <1>1, <2>2
<1>6. pluginsById' \in [DOMAIN pluginsById' -> Statuses]
  <2>1. \A q \in DOMAIN pluginsById \cup {p} : pluginsById'[q] \in Statuses
    BY <1>2, <1>3 DEF ShapeInv, Statuses
  <2>2. pluginsById' = [q \in DOMAIN pluginsById \cup {p} |-> pluginsById'[q]]
    BY <1>1 DEF Put
  <2> QED  BY <1>1, <2>1, <2>2
<1>7. RequirementsHold'
  <2>1. HasStatus("active")' = HasStatus("active")
    BY <1>1, <1>2, <1>3 DEF HasStatus
  <2>2. replaced' = {} => \A q \in HasStatus("active") : manifestsByPluginId'[q] = manifestsByPluginId[q]
    BY <1>4 DEF Replaces, StatusOf, HasStatus
  <2> QED  BY <2>1, <2>2, HoldSame
<1>8. \A q \in DOMAIN pluginsById' : manifestsByPluginId'[q] \in ManifestsOf[q] /\ validateManifest(manifestsByPluginId'[q])
  BY <1>1, <1>4 DEF ShapeInv
<1> QED  BY <1>1, <1>2, <1>5, <1>6, <1>7, <1>8 DEF ShapeInv

LEMMA StepInstall ==
    ASSUME RInv, NEW p \in PluginIds, NEW m \in ManifestsOf[p], install(p, m)
    PROVE  RInv'
<1>1. /\ pluginsById' \in [DOMAIN pluginsById' -> Statuses]
      /\ DOMAIN pluginsById' = DOMAIN pluginsById \cup {p}
      /\ IsFiniteSet(DOMAIN pluginsById') /\ DOMAIN pluginsById' \subseteq PluginIds
      /\ DOMAIN manifestsByPluginId' = DOMAIN pluginsById'
      /\ \A q \in DOMAIN pluginsById' :
            manifestsByPluginId'[q] \in ManifestsOf[q] /\ validateManifest(manifestsByPluginId'[q])
      /\ \A q \in DOMAIN pluginsById : pluginsById'[q] = pluginsById[q]
      /\ RequirementsHold'
  BY InstallKeeps DEF RInv, install
<1>2. UNCHANGED <<packagesById, revokedPackageSignerIds, entitiesById, importing>>
  BY DEF install, dataVars
<1>3. ShapeInv'
  BY <1>1, <1>2 DEF RInv, ShapeInv
<1>4. RevokedSignersInactive'
  BY <1>1, <1>2 DEF RInv, ShapeInv, RevokedSignersInactive
<1> QED  BY <1>1, <1>3, <1>4 DEF RInv

LEMMA StepInstallPackage ==
    ASSUME RInv, NEW p \in PluginIds, NEW m \in ManifestsOf[p], NEW package, NEW signer, NEW local \in BOOLEAN,
           installPackage(package, p, m, signer, local)
    PROVE  RInv'
<1>1. /\ pluginsById' \in [DOMAIN pluginsById' -> Statuses]
      /\ DOMAIN pluginsById' = DOMAIN pluginsById \cup {p}
      /\ IsFiniteSet(DOMAIN pluginsById') /\ DOMAIN pluginsById' \subseteq PluginIds
      /\ DOMAIN manifestsByPluginId' = DOMAIN pluginsById'
      /\ \A q \in DOMAIN pluginsById' :
            manifestsByPluginId'[q] \in ManifestsOf[q] /\ validateManifest(manifestsByPluginId'[q])
      /\ \A q \in DOMAIN pluginsById : pluginsById'[q] = pluginsById[q]
      /\ RequirementsHold'
  BY InstallKeeps DEF RInv, installPackage
<1>2. UNCHANGED <<revokedPackageSignerIds, entitiesById, importing>>
  BY DEF installPackage, dataVars
<1>3. /\ DOMAIN packagesById' = DOMAIN packagesById \cup {package}
      /\ packagesById'[package] = [pluginId |-> p, signerId |-> signer, local |-> local]
      /\ \A k \in DOMAIN packagesById \ {package} : packagesById'[k] = packagesById[k]
  BY DEF installPackage, Put
<1>4. ShapeInv'
  BY <1>1, <1>2, <1>3 DEF RInv, ShapeInv
<1>5. RevokedSignersInactive'
  <2> SUFFICES ASSUME NEW k \in DOMAIN packagesById',
                      packagesById'[k].signerId \in revokedPackageSignerIds', ~packagesById'[k].local
               PROVE  pluginsById'[packagesById'[k].pluginId] # "active"
    BY DEF RevokedSignersInactive
  <2>1. CASE k = package
    BY <1>2, <1>3, <2>1 DEF installPackage, validatePackage
  <2>2. CASE k # package
    <3>1. k \in DOMAIN packagesById /\ packagesById'[k] = packagesById[k]
      BY <1>3, <2>2
    <3> QED  BY <1>1, <1>2, <3>1 DEF RInv, ShapeInv, RevokedSignersInactive
  <2> QED  BY <2>1, <2>2
<1> QED  BY <1>1, <1>4, <1>5 DEF RInv

(* A plugin becomes active: nothing the others need goes.                   *)
LEMMA StepEnable ==
    ASSUME RInv, NEW p, enable(p)
    PROVE  RInv'
<1>1. /\ p \in DOMAIN pluginsById /\ assertPackageSignerTrusted(p)
      /\ RequirementsMet(p, HasStatus("active"))
      /\ pluginsById' = [pluginsById EXCEPT ![p] = "active"]
      /\ UNCHANGED <<manifestsByPluginId, packagesById, revokedPackageSignerIds, entitiesById, importing, replaced>>
  BY DEF enable, CanEnable, dataVars
<1>2. /\ pluginsById' \in [DOMAIN pluginsById -> Statuses] /\ pluginsById'[p] = "active"
      /\ \A q \in DOMAIN pluginsById \ {p} : pluginsById'[q] = pluginsById[q]
  BY <1>1 DEF RInv, ShapeInv, Statuses
<1>3. ShapeInv'
  BY <1>1, <1>2 DEF RInv, ShapeInv
<1>4. RequirementsHold'
  <2> SUFFICES ASSUME replaced = {} PROVE RequirementsHold'
    BY <1>1 DEF RequirementsHold
  <2>1. PICK A : A = HasStatus("active")
    OBVIOUS
  <2>2. HasStatus("active")' = A \cup {p}
    BY <1>1, <1>2, <2>1 DEF HasStatus
  <2>3. \A q \in A \cup {p} : RequirementsMet(q, A)
    BY <1>1, <2>1 DEF RInv, RequirementsHold
  <2>4. \A q \in A \cup {p} : RequirementsMet(q, A \cup {p})
    BY <2>3, MoreMeetsMore
  <2> QED  BY <1>1, <2>2, <2>4, HoldNext
<1>5. RevokedSignersInactive'
  BY <1>1, <1>2 DEF RInv, ShapeInv, RevokedSignersInactive, assertPackageSignerTrusted
<1> QED  BY <1>3, <1>4, <1>5 DEF RInv

LEMMA StepDisable ==
    ASSUME RInv, NEW p, disable(p)
    PROVE  RInv'
<1>1. /\ pluginsById' \in [DOMAIN pluginsById -> Statuses]
      /\ HasStatus("active")' \subseteq HasStatus("active") \ {p}
      /\ RequirementsHold'
  <2>1. UNCHANGED manifestsByPluginId /\ ShapeInv
    BY DEF RInv, disable
  <2>2. pluginsById' = WithDisabled(DOMAIN pluginsById, {p}, manifestsByPluginId[p].providedCapabilities)
    BY DEF disable
  <2> QED  BY <2>1, <2>2, Disabling
<1>2. UNCHANGED <<manifestsByPluginId, packagesById, revokedPackageSignerIds, entitiesById, importing>>
  BY DEF disable, dataVars
<1>3. ShapeInv'
  BY <1>1, <1>2 DEF RInv, ShapeInv
<1>4. RevokedSignersInactive'
  BY <1>1, <1>2 DEF RInv, ShapeInv, RevokedSignersInactive, HasStatus
<1> QED  BY <1>1, <1>3, <1>4 DEF RInv

LEMMA StepUninstall ==
    ASSUME RInv, NEW p, uninstall(p)
    PROVE  RInv'
<1> DEFINE kept == DOMAIN pluginsById \ {p}
<1>1. /\ DOMAIN manifestsByPluginId' = kept
      /\ \A q \in kept : manifestsByPluginId'[q] = manifestsByPluginId[q]
  BY DEF uninstall, Keep, RInv, ShapeInv
<1>2. pluginsById' = WithDisabled(kept, {p}, manifestsByPluginId[p].providedCapabilities)
  BY DEF uninstall
<1>3. kept \subseteq DOMAIN pluginsById /\ DOMAIN pluginsById \ kept \subseteq {p}
  OBVIOUS
<1> HIDE DEF kept
<1>4. /\ pluginsById' \in [kept -> Statuses]
      /\ HasStatus("active")' \subseteq HasStatus("active") \ {p}
      /\ RequirementsHold'
  <2>1. ShapeInv
    BY DEF RInv
  <2>2. PICK lost : lost = manifestsByPluginId[p].providedCapabilities
    OBVIOUS
  <2>3. pluginsById' = WithDisabled(kept, {p}, lost)
    BY <1>2, <2>2
  <2> QED  BY <1>1, <1>3, <2>1, <2>3, Disabling
<1>5. /\ DOMAIN packagesById' \subseteq DOMAIN packagesById
      /\ \A k \in DOMAIN packagesById' : packagesById'[k] = packagesById[k] /\ packagesById[k].pluginId # p
      /\ UNCHANGED <<revokedPackageSignerIds, entitiesById, importing>>
  BY DEF uninstall, Keep, dataVars
<1>6. IsFiniteSet(kept)
  BY <1>3, FS_Subset DEF RInv, ShapeInv
<1>7. ShapeInv'
  <2>1. \A k \in DOMAIN packagesById' : packagesById'[k].pluginId \in kept
    BY <1>5 DEF RInv, ShapeInv, kept
  <2>2. \A q \in kept : manifestsByPluginId'[q] \in ManifestsOf[q] /\ validateManifest(manifestsByPluginId'[q])
    BY <1>1, <1>3 DEF RInv, ShapeInv
  <2>3. DOMAIN pluginsById' = kept /\ kept \subseteq PluginIds
    BY <1>3, <1>4 DEF RInv, ShapeInv
  <2>4. /\ \A id \in DOMAIN entitiesById' : entitiesById'[id] \in Entity
        /\ importing' = None \/ importing' \in EnsuredLists
    BY <1>5 DEF RInv, ShapeInv
  <2> QED  BY <1>1, <1>4, <1>6, <2>1, <2>2, <2>3, <2>4 DEF ShapeInv
<1>8. RevokedSignersInactive'
  <2> SUFFICES ASSUME NEW k \in DOMAIN packagesById',
                      packagesById'[k].signerId \in revokedPackageSignerIds', ~packagesById'[k].local
               PROVE  pluginsById'[packagesById'[k].pluginId] # "active"
    BY DEF RevokedSignersInactive
  <2>1. k \in DOMAIN packagesById /\ packagesById'[k] = packagesById[k] /\ packagesById[k].pluginId \in kept
    BY <1>5 DEF RInv, ShapeInv, kept
  <2>2. pluginsById[packagesById[k].pluginId] # "active"
    BY <1>5, <2>1 DEF RInv, RevokedSignersInactive
  <2> QED  BY <1>4, <2>1, <2>2 DEF HasStatus
<1> QED  BY <1>4, <1>7, <1>8 DEF RInv

LEMMA StepRevoke ==
    ASSUME RInv, NEW signer, revokePackageSigner(signer)
    PROVE  RInv'
<1> DEFINE affected == {packagesById[package].pluginId :
                          package \in {k \in DOMAIN packagesById : packagesById[k].signerId = signer}}
           gone == {p \in affected \cap DOMAIN pluginsById : pluginsById[p] # "disabled"}
<1>1. /\ revokedPackageSignerIds' = revokedPackageSignerIds \cup {signer}
      /\ pluginsById' = IF gone = {} THEN pluginsById
                        ELSE WithDisabled(DOMAIN pluginsById, gone, Provided(gone, "providedCapabilities"))
      /\ replaced' = IF gone = {} THEN replaced ELSE {}
      /\ UNCHANGED <<manifestsByPluginId, packagesById, entitiesById, importing>>
  BY DEF revokePackageSigner, dataVars
<1>2. ASSUME NEW k \in DOMAIN packagesById, packagesById[k].signerId = signer
      PROVE  packagesById[k].pluginId \in gone \/ pluginsById[packagesById[k].pluginId] = "disabled"
  BY <1>2 DEF RInv, ShapeInv
<1> HIDE DEF affected, gone
<1>3. /\ pluginsById' \in [DOMAIN pluginsById -> Statuses]
      /\ HasStatus("active")' \subseteq HasStatus("active") \ gone
      /\ RequirementsHold'
  <2>1. CASE gone = {}
    <3>1. pluginsById' = pluginsById /\ replaced' = replaced
      BY <1>1, <2>1
    <3>2. HasStatus("active")' = HasStatus("active")
      BY <3>1 DEF HasStatus
    <3>3. RequirementsHold'
      BY <1>1, <3>1, <3>2, HoldSame DEF RInv
    <3> QED  BY <2>1, <3>1, <3>2, <3>3 DEF RInv, ShapeInv
  <2>2. CASE gone # {}
    <3>1. pluginsById' = WithDisabled(DOMAIN pluginsById, gone, Provided(gone, "providedCapabilities"))
      BY <1>1, <2>2
    <3>2. DOMAIN pluginsById \ DOMAIN pluginsById \subseteq gone
      OBVIOUS
    <3> QED  BY <1>1, <3>1, <3>2, Disabling DEF RInv
  <2> QED  BY <2>1, <2>2
<1>4. ShapeInv'
  BY <1>1, <1>3 DEF RInv, ShapeInv
<1>5. RevokedSignersInactive'
  <2> SUFFICES ASSUME NEW k \in DOMAIN packagesById,
                      packagesById[k].signerId \in revokedPackageSignerIds \cup {signer}, ~packagesById[k].local
               PROVE  pluginsById'[packagesById[k].pluginId] # "active"
    BY <1>1 DEF RevokedSignersInactive
  <2>1. packagesById[k].pluginId \in DOMAIN pluginsById
    BY DEF RInv, ShapeInv
  <2>2. pluginsById[packagesById[k].pluginId] # "active" \/ packagesById[k].pluginId \in gone
    BY <1>2 DEF RInv, RevokedSignersInactive
  <2> QED  BY <1>3, <2>1, <2>2 DEF HasStatus
<1> QED  BY <1>3, <1>4, <1>5 DEF RInv

-----------------------------------------------------------------------------
(***************************************************************************)
(* The import.                                                             *)
(***************************************************************************)
LEMMA ResourcesHaveManifests ==
    ASSUME NEW list \in EnsuredLists, NEW p \in ToSet(list)
    PROVE  /\ p \in PluginIds
           /\ ManifestOfResource(p) \in ManifestsOf[p] /\ validateManifest(ManifestOfResource(p))
<1>1. list \in Seq(PluginIds) /\ \E m \in ManifestsOf[p] : validateManifest(m)
  BY RegistryAssumption
<1>2. p \in PluginIds
  BY <1>1 DEF ToSet
<1> QED  BY <1>1, <1>2 DEF ManifestOfResource

LEMMA StepImportInstalls ==
    ASSUME RInv, NEW list \in EnsuredLists, ImportInstalls(list)
    PROVE  RInv'
<1> DEFINE listed == ToSet(list)
           legacy == {<<"legacy", p>> : p \in listed}
<1>1. /\ importing' = list
      /\ pluginsById' = [p \in DOMAIN pluginsById \cup listed |-> StatusOf(p)]
      /\ manifestsByPluginId' = [p \in DOMAIN manifestsByPluginId \cup listed |->
            IF p \in listed THEN ManifestOfResource(p) ELSE manifestsByPluginId[p]]
      /\ packagesById' = [k \in DOMAIN packagesById \cup legacy |->
            IF k \in legacy THEN LegacyPackage(k[2]) ELSE packagesById[k]]
      /\ replaced' = replaced \cup {p \in listed : Replaces(p, ManifestOfResource(p)) # {}}
      /\ UNCHANGED <<revokedPackageSignerIds, entitiesById>>
  BY DEF ImportInstalls, dataVars
<1>2. /\ listed \subseteq PluginIds
      /\ \A p \in listed : ManifestOfResource(p) \in ManifestsOf[p] /\ validateManifest(ManifestOfResource(p))
  BY ResourcesHaveManifests
<1>3. IsFiniteSet(listed)
  <2>1. list \in Seq(PluginIds)
    BY RegistryAssumption
  <2>2. DOMAIN list = 1 .. Len(list) /\ Len(list) \in Nat
    BY <2>1
  <2>3. IsFiniteSet(DOMAIN list)
    BY <2>2, FS_Interval
  <2>4. IsFiniteSet({list[i] : i \in DOMAIN list})
    BY <2>3, ImageIsFinite
  <2> QED  BY <2>4 DEF ToSet
<1>4. \A k \in legacy : LegacyPackage(k[2]).pluginId \in listed /\ LegacyPackage(k[2]).local
  BY DEF LegacyPackage
<1> HIDE DEF listed, legacy
<1>5. DOMAIN pluginsById' = DOMAIN pluginsById \cup listed /\ DOMAIN manifestsByPluginId' = DOMAIN pluginsById \cup listed
  BY <1>1 DEF RInv, ShapeInv
<1>6. /\ \A q \in DOMAIN pluginsById : pluginsById'[q] = pluginsById[q]
      /\ \A q \in listed \ DOMAIN pluginsById : pluginsById'[q] = "installed"
  BY <1>1 DEF StatusOf
<1>7. ShapeInv'
  <2>1. pluginsById' \in [DOMAIN pluginsById' -> Statuses]
    <3>1. \A q \in DOMAIN pluginsById \cup listed : pluginsById'[q] \in Statuses
      BY <1>6 DEF RInv, ShapeInv, Statuses
    <3>2. pluginsById' = [q \in DOMAIN pluginsById \cup listed |-> pluginsById'[q]]
      BY <1>1
    <3> QED  BY <1>5, <3>1, <3>2
  <2>2. IsFiniteSet(DOMAIN pluginsById')
    <3>1. IsFiniteSet(DOMAIN pluginsById)
      BY DEF RInv, ShapeInv
    <3>2. IsFiniteSet(DOMAIN pluginsById \cup listed)
      BY <1>3, <3>1, FS_Union
    <3> QED  BY <1>5, <3>2
  <2>3. DOMAIN pluginsById' \subseteq PluginIds
    BY <1>2, <1>5 DEF RInv, ShapeInv
  <2>4. \A q \in DOMAIN pluginsById' :
           manifestsByPluginId'[q] \in ManifestsOf[q] /\ validateManifest(manifestsByPluginId'[q])
    BY <1>1, <1>2, <1>5 DEF RInv, ShapeInv
  <2>5. \A k \in DOMAIN packagesById' : packagesById'[k].pluginId \in DOMAIN pluginsById'
    BY <1>1, <1>4, <1>5 DEF RInv, ShapeInv
  <2>6. /\ \A id \in DOMAIN entitiesById' : entitiesById'[id] \in Entity
        /\ importing' \in EnsuredLists
    BY <1>1 DEF RInv, ShapeInv
  <2> QED  BY <1>5, <2>1, <2>2, <2>3, <2>4, <2>5, <2>6 DEF ShapeInv
<1>8. RequirementsHold'
  <2>1. HasStatus("active")' = HasStatus("active")
    BY <1>5, <1>6 DEF HasStatus
  <2>2. ASSUME replaced' = {}, NEW q \in HasStatus("active")
        PROVE  manifestsByPluginId'[q] = manifestsByPluginId[q]
    <3>1. q \in DOMAIN pluginsById /\ pluginsById[q] = "active" /\ q \in DOMAIN manifestsByPluginId
      BY DEF HasStatus, RInv, ShapeInv
    <3>2. CASE q \in listed
      <4>1. Replaces(q, ManifestOfResource(q)) = {}
        BY <1>1, <2>2, <3>2
      <4>2. manifestsByPluginId[q] = ManifestOfResource(q)
        BY <3>1, <4>1 DEF Replaces, StatusOf
      <4> QED  BY <1>1, <3>1, <3>2, <4>2
    <3>3. CASE q \notin listed
      BY <1>1, <3>1, <3>3
    <3> QED  BY <3>2, <3>3
  <2>3. replaced' = {} => replaced = {}
    BY <1>1
  <2> QED  BY <2>1, <2>2, <2>3, HoldSame DEF RInv
<1>9. RevokedSignersInactive'
  <2> SUFFICES ASSUME NEW k \in DOMAIN packagesById',
                      packagesById'[k].signerId \in revokedPackageSignerIds', ~packagesById'[k].local
               PROVE  pluginsById'[packagesById'[k].pluginId] # "active"
    BY DEF RevokedSignersInactive
  <2>1. k \notin legacy
    BY <1>1, <1>4
  <2>2. k \in DOMAIN packagesById /\ packagesById'[k] = packagesById[k]
    BY <1>1, <2>1
  <2> QED  BY <1>1, <1>6, <2>2 DEF RInv, ShapeInv, RevokedSignersInactive
<1> QED  BY <1>7, <1>8, <1>9 DEF RInv

(* The second half, as a recursion along the list.                          *)
After(list, f) ==
    f = [n \in 0 .. Len(list) |->
           IF n = 0 THEN HasStatus("active")
           ELSE LET p == list[n] IN
                IF /\ p \in DOMAIN pluginsById
                   /\ assertPackageSignerTrusted(p)
                   /\ RequirementsMet(p, f[n - 1])
                THEN f[n - 1] \cup {p} ELSE f[n - 1]]

May(p, T) == p \in DOMAIN pluginsById /\ assertPackageSignerTrusted(p) /\ RequirementsMet(p, T)

LEMMA AfterExists ==
    ASSUME NEW list, Len(list) \in Nat
    PROVE  \E f : After(list, f)
<1> DEFINE N == Len(list)
           D == DOMAIN pluginsById
           step == [n \in 1 .. N |-> [T \in SUBSET D |-> IF May(list[n], T) THEN T \cup {list[n]} ELSE T]]
<1>1. \A n \in 1 .. N : \A T \in SUBSET D : step[n][T] = IF May(list[n], T) THEN T \cup {list[n]} ELSE T
  OBVIOUS
<1>2. HasStatus("active") \in SUBSET D
  BY DEF HasStatus
<1> HIDE DEF N, step
<1>3. \A n \in 1 .. N : \A T \in SUBSET D : step[n][T] \in SUBSET D
  <2> SUFFICES ASSUME NEW n \in 1 .. N, NEW T \in SUBSET D PROVE step[n][T] \in SUBSET D
    OBVIOUS
  <2>1. May(list[n], T) => list[n] \in D
    BY DEF May
  <2>2. step[n][T] = IF May(list[n], T) THEN T \cup {list[n]} ELSE T
    BY <1>1
  <2> HIDE DEF D
  <2>3. CASE May(list[n], T)
    BY <2>1, <2>2, <2>3
  <2>4. CASE ~May(list[n], T)
    BY <2>2, <2>4
  <2> QED  BY <2>3, <2>4
<1>4. PICK f \in [0 .. N -> SUBSET D] : Recursion(N, HasStatus("active"), step, f)
  <2>1. N \in Nat
    BY DEF N
  <2> HIDE DEF D
  <2> QED  BY <1>2, <1>3, <2>1, RecursionFromZero
<1>5. f = [n \in 0 .. N |-> IF n = 0 THEN HasStatus("active") ELSE step[n][f[n - 1]]]
  BY <1>4 DEF Recursion
<1>6. ASSUME NEW n \in 0 .. N
      PROVE  f[n] = IF n = 0 THEN HasStatus("active")
                    ELSE IF May(list[n], f[n - 1]) THEN f[n - 1] \cup {list[n]} ELSE f[n - 1]
  <2>1. CASE n = 0
    BY <1>5, <2>1
  <2>2. CASE n # 0
    <3>1. n \in 1 .. N /\ n - 1 \in 0 .. N
      BY <2>2 DEF N
    <3>2. f[n] = step[n][f[n - 1]]
      BY <1>5, <2>2
    <3>3. f[n - 1] \in SUBSET D
      BY <1>4, <3>1
    <3> QED  BY <1>1, <2>2, <3>1, <3>2, <3>3
  <2> QED  BY <2>1, <2>2
<1>7. f = [n \in 0 .. N |-> f[n]]
  BY <1>4
<1>8. f = [n \in 0 .. N |-> IF n = 0 THEN HasStatus("active")
                            ELSE IF May(list[n], f[n - 1]) THEN f[n - 1] \cup {list[n]} ELSE f[n - 1]]
  BY <1>6, <1>7
<1> QED  BY <1>8 DEF After, May, N

(* What the second half makes active: what was active before, and listed    *)
(* plugins whose signers are trusted and whose turn came when their         *)
(* requirements were met; none is left out that could be enabled before.    *)
LEMMA EnabledIs ==
    ASSUME NEW list \in EnsuredLists
    PROVE  /\ HasStatus("active") \subseteq Enabled(list)
           /\ Enabled(list) \subseteq HasStatus("active") \cup ToSet(list)
           /\ Enabled(list) \subseteq DOMAIN pluginsById
           /\ \A p \in Enabled(list) \ HasStatus("active") : assertPackageSignerTrusted(p)
           /\ (\A p \in HasStatus("active") : RequirementsMet(p, HasStatus("active")))
                 => \A p \in Enabled(list) : RequirementsMet(p, Enabled(list))
           /\ \A n \in DOMAIN list : CanEnable(list[n]) => list[n] \in Enabled(list)
<1> DEFINE N == Len(list)
           D == DOMAIN pluginsById
           A == HasStatus("active")
           after == CHOOSE f : After(list, f)
           Holds(T) == \A p \in T : RequirementsMet(p, T)
           Good(n, T) == /\ A \subseteq T /\ T \subseteq A \cup ToSet(list) /\ T \subseteq D
                         /\ \A p \in T \ A : assertPackageSignerTrusted(p)
                         /\ Holds(A) => Holds(T)
                         /\ \A m \in 1 .. n : CanEnable(list[m]) => list[m] \in T
           M == {n \in Nat : n <= N => Good(n, after[n])}
<1>1. N \in Nat /\ DOMAIN list = 1 .. N
  BY RegistryAssumption
<1>2. Enabled(list) = after[N]
  BY DEF Enabled, After
<1>3. After(list, after)
  BY <1>1, AfterExists
<1> HIDE DEF after
<1>4. \A n \in 0 .. N : after[n] = IF n = 0 THEN A ELSE IF May(list[n], after[n - 1]) THEN after[n - 1] \cup {list[n]}
                                                         ELSE after[n - 1]
  BY <1>3 DEF After, May
<1>5. 0 \in M
  <2>1. after[0] = A
    <3>1. 0 \in 0 .. N
      BY <1>1
    <3> HIDE DEF N, A
    <3> QED  BY <1>4, <3>1
  <2>2. A \subseteq D
    BY DEF HasStatus
  <2> HIDE DEF A, D
  <2>3. Good(0, A)
    BY <2>2
  <2> QED  BY <2>1, <2>3
<1>6. ASSUME NEW n \in Nat, n \in M
      PROVE  n + 1 \in M
  <2> SUFFICES ASSUME n + 1 <= N PROVE Good(n + 1, after[n + 1])
    OBVIOUS
  <2>1. n <= N /\ n + 1 \in 0 .. N /\ n + 1 \in 1 .. N /\ n + 1 # 0 /\ (n + 1) - 1 = n
    BY <1>1
  <2>2. PICK T : T = after[n]
    OBVIOUS
  <2>3. Good(n, T)
    BY <1>6, <2>1, <2>2
  <2>4. PICK p : p = list[n + 1]
    OBVIOUS
  <2>5. after[n + 1] = IF May(p, T) THEN T \cup {p} ELSE T
    BY <1>4, <2>1, <2>2, <2>4
  <2>6. p \in ToSet(list)
    BY <1>1, <2>1, <2>4 DEF ToSet
  <2>7. CanEnable(p) => May(p, T)
    <3>1. A \subseteq T
      BY <2>3
    <3>2. RequirementsMet(p, A) => RequirementsMet(p, T)
      BY <3>1, MoreMeetsMore
    <3> QED  BY <3>2 DEF CanEnable, May
  <2>8. \A m \in 1 .. n + 1 : m \in 1 .. n \/ m = n + 1
    OBVIOUS
  <2>9. CASE May(p, T)
    <3>1. \A q \in T : RequirementsMet(q, T) => RequirementsMet(q, T \cup {p})
      BY MoreMeetsMore
    <3>2. RequirementsMet(p, T \cup {p})
      BY <2>9, MoreMeetsMore DEF May
    <3>3. Holds(A) => Holds(T \cup {p})
      BY <2>3, <3>1, <3>2
    <3>4. p \in D /\ assertPackageSignerTrusted(p)
      BY <2>9 DEF May
    <3>5. \A m \in 1 .. n + 1 : CanEnable(list[m]) => list[m] \in T \cup {p}
      BY <2>3, <2>4, <2>8
    <3> HIDE DEF A, D, Holds
    <3>6. Good(n + 1, T \cup {p})
      BY <2>3, <2>6, <3>3, <3>4, <3>5
    <3> QED  BY <2>5, <2>9, <3>6
  <2>10. CASE ~May(p, T)
    <3>1. \A m \in 1 .. n + 1 : CanEnable(list[m]) => list[m] \in T
      BY <2>3, <2>4, <2>7, <2>8, <2>10
    <3>2. Good(n + 1, T)
      BY <2>3, <3>1
    <3> QED  BY <2>5, <2>10, <3>2
  <2> QED  BY <2>9, <2>10
<1>7. Nat \subseteq M
  <2> HIDE DEF M
  <2> QED  BY <1>5, <1>6, SetOfNaturals
<1>8. Good(N, Enabled(list))
  BY <1>1, <1>2, <1>7
<1> QED  BY <1>1, <1>8

(* The statuses the second half leaves.                                     *)
LEMMA EnablingLeaves ==
    ASSUME ShapeInv, ImportEnables
    PROVE  /\ importing \in EnsuredLists
           /\ pluginsById' \in [DOMAIN pluginsById -> Statuses]
           /\ \A p \in DOMAIN pluginsById :
                 pluginsById'[p] = IF p \in Enabled(importing) THEN "active" ELSE pluginsById[p]
           /\ HasStatus("active")' = Enabled(importing)
<1>1. importing \in EnsuredLists
  BY DEF ShapeInv, ImportEnables
<1>2. PICK E : E = Enabled(importing)
  OBVIOUS
<1>3. HasStatus("active") \subseteq E /\ E \subseteq DOMAIN pluginsById
  BY <1>1, <1>2, EnabledIs
<1>4. pluginsById' = [p \in DOMAIN pluginsById |-> IF p \in E THEN "active" ELSE pluginsById[p]]
  BY <1>2 DEF ImportEnables
<1>5. \A p \in DOMAIN pluginsById : pluginsById[p] \in Statuses
  BY DEF ShapeInv
<1>6. pluginsById' \in [DOMAIN pluginsById -> Statuses]
  BY <1>4, <1>5 DEF Statuses
<1>7. HasStatus("active")' = E
  <2>1. HasStatus("active")' = {p \in DOMAIN pluginsById : pluginsById'[p] = "active"}
    BY <1>4 DEF HasStatus
  <2>2. \A p \in DOMAIN pluginsById : pluginsById'[p] = "active" <=> (p \in E \/ p \in HasStatus("active"))
    BY <1>4 DEF HasStatus
  <2> QED  BY <1>3, <2>1, <2>2
<1> QED  BY <1>1, <1>2, <1>4, <1>6, <1>7

LEMMA StepImportEnables ==
    ASSUME RInv, ImportEnables
    PROVE  RInv'
<1>1. PICK E : E = Enabled(importing)
  OBVIOUS
<1>2. /\ importing \in EnsuredLists
      /\ pluginsById' \in [DOMAIN pluginsById -> Statuses]
      /\ \A p \in DOMAIN pluginsById : pluginsById'[p] = IF p \in E THEN "active" ELSE pluginsById[p]
      /\ HasStatus("active")' = E
  BY <1>1, EnablingLeaves DEF RInv
<1>3. /\ importing' = None
      /\ UNCHANGED <<manifestsByPluginId, packagesById, revokedPackageSignerIds, entitiesById, replaced>>
  BY DEF ImportEnables, dataVars
<1>4. ShapeInv'
  BY <1>2, <1>3 DEF RInv, ShapeInv
<1>5. /\ \A p \in E \ HasStatus("active") : assertPackageSignerTrusted(p)
      /\ (\A p \in HasStatus("active") : RequirementsMet(p, HasStatus("active")))
            => \A p \in E : RequirementsMet(p, E)
  BY <1>1, <1>2, EnabledIs
<1>6. RequirementsHold'
  <2> SUFFICES ASSUME replaced = {} PROVE RequirementsHold'
    BY <1>3 DEF RequirementsHold
  <2>1. \A p \in E : RequirementsMet(p, E)
    BY <1>5 DEF RInv, RequirementsHold
  <2> QED  BY <1>2, <1>3, <2>1, HoldNext
<1>7. RevokedSignersInactive'
  <2> SUFFICES ASSUME NEW k \in DOMAIN packagesById,
                      packagesById[k].signerId \in revokedPackageSignerIds, ~packagesById[k].local
               PROVE  pluginsById'[packagesById[k].pluginId] # "active"
    BY <1>3 DEF RevokedSignersInactive
  <2>1. packagesById[k].pluginId \in DOMAIN pluginsById /\ pluginsById[packagesById[k].pluginId] # "active"
    BY DEF RInv, ShapeInv, RevokedSignersInactive
  <2>2. packagesById[k].pluginId \notin E
    BY <1>5, <2>1 DEF assertPackageSignerTrusted, HasStatus
  <2> QED  BY <1>2, <2>1, <2>2
<1> QED  BY <1>4, <1>6, <1>7 DEF RInv

-----------------------------------------------------------------------------
(* The data store keeps what it accepts.                                    *)
LEMMA StepRest ==
    ASSUME RInv, UNCHANGED <<registryVars, importing, replaced>>,
           \A id \in DOMAIN entitiesById' : entitiesById'[id] \in Entity
    PROVE  RInv'
<1>1. UNCHANGED <<pluginsById, manifestsByPluginId, packagesById, revokedPackageSignerIds, importing, replaced>>
  BY DEF registryVars
<1>2. ShapeInv'
  BY <1>1 DEF RInv, ShapeInv
<1>3. RequirementsHold'
  <2>1. HasStatus("active")' = HasStatus("active")
    BY <1>1 DEF HasStatus
  <2> QED  BY <1>1, <2>1, HoldSame DEF RInv
<1>4. RevokedSignersInactive'
  BY <1>1 DEF RInv, RevokedSignersInactive
<1> QED  BY <1>2, <1>3, <1>4 DEF RInv

LEMMA StepData ==
    ASSUME RInv, DataStep
    PROVE  RInv'
<1>1. ASSUME NEW p \in DataPlugins, NEW type \in EntityTypes, NEW schema \in Schemas, registerSchema(p, type, schema)
      PROVE  RInv'
  BY <1>1, StepRest DEF registerSchema, RInv, ShapeInv
<1>2. ASSUME NEW p \in DataPlugins, NEW type \in EntityTypes, NEW id \in EntityIds, NEW data \in Data,
             upsertEntity(id, p, type, data)
      PROVE  RInv'
  <2>1. [pluginId |-> p, entityType |-> type, data |-> data] \in Entity
    BY RegistryAssumption DEF Entity
  <2>2. \A k \in DOMAIN entitiesById' : entitiesById'[k] \in Entity
    BY <1>2, <2>1 DEF upsertEntity, Put, RInv, ShapeInv
  <2> QED  BY <1>2, <2>2, StepRest DEF upsertEntity
<1> QED  BY <1>1, <1>2 DEF DataStep

-----------------------------------------------------------------------------
LEMMA RegistryStart == Init => RInv
<1> SUFFICES ASSUME Init PROVE RInv
  OBVIOUS
<1>1. /\ DOMAIN pluginsById = {} /\ DOMAIN manifestsByPluginId = {} /\ DOMAIN packagesById = {}
      /\ DOMAIN entitiesById = {} /\ importing = None
  BY DEF Init, Keep
<1>2. pluginsById \in [DOMAIN pluginsById -> Statuses]
  BY <1>1 DEF Init, Keep
<1>3. IsFiniteSet(DOMAIN pluginsById)
  BY <1>1, FS_EmptySet
<1> QED  BY <1>1, <1>2, <1>3 DEF RInv, ShapeInv, RequirementsHold, RevokedSignersInactive, HasStatus

LEMMA RegistryKeeps == RInv /\ [Next]_vars => RInv'
<1> SUFFICES ASSUME RInv, [Next]_vars PROVE RInv'
  OBVIOUS
<1>1. CASE UNCHANGED vars
  BY <1>1, StepRest DEF vars, dataVars, RInv, ShapeInv
<1>2. CASE RegistryStep
  BY <1>2, StepEnable, StepDisable, StepUninstall, StepInstall, StepInstallPackage, StepRevoke DEF RegistryStep
<1>3. CASE DataStep
  BY <1>3, StepData
<1>4. CASE ImportStep
  BY <1>4, StepImportInstalls, StepImportEnables DEF ImportStep
<1> QED  BY <1>1, <1>2, <1>3, <1>4 DEF Next

(* Whatever is active may be, in every state: through cascades of any       *)
(* depth, cycles of requirements, several providers of one capability,      *)
(* replaced packages, revoked signers and interrupted imports.              *)
THEOREM ActiveAlwaysMayRun == Spec => []ActivePluginsMayRun
<1>1. RInv => ActivePluginsMayRun
  BY ActiveMayRun
<1> QED  BY RegistryStart, RegistryKeeps, <1>1, PTL DEF Spec

(* The second half of an import enables every listed plugin that could have *)
(* been enabled before it, and touches no other.                            *)
LEMMA ImportsEnable ==
    ASSUME RInv, Next, importing # None, importing' = None
    PROVE  /\ \A n \in DOMAIN importing : CanEnable(importing[n]) => pluginsById'[importing[n]] = "active"
           /\ \A p \in DOMAIN pluginsById \ ToSet(importing) : pluginsById'[p] = pluginsById[p]
<1>1. ImportEnables
  <2>1. RegistryStep => importing' = importing
    BY DEF RegistryStep, install, installPackage, enable, disable, uninstall, revokePackageSigner
  <2>2. DataStep => importing' = importing
    BY DEF DataStep, registerSchema, upsertEntity
  <2> QED  BY <2>1, <2>2 DEF Next, ImportStep, ImportInstalls
<1>2. PICK E : E = Enabled(importing)
  OBVIOUS
<1>3. /\ importing \in EnsuredLists
      /\ \A p \in DOMAIN pluginsById : pluginsById'[p] = IF p \in E THEN "active" ELSE pluginsById[p]
  BY <1>1, <1>2, EnablingLeaves DEF RInv
<1>4. /\ E \subseteq HasStatus("active") \cup ToSet(importing)
      /\ E \subseteq DOMAIN pluginsById
      /\ \A n \in DOMAIN importing : CanEnable(importing[n]) => importing[n] \in E
  BY <1>2, <1>3, EnabledIs
<1>5. \A n \in DOMAIN importing : CanEnable(importing[n]) => pluginsById'[importing[n]] = "active"
  BY <1>3, <1>4
<1>6. \A p \in DOMAIN pluginsById \ ToSet(importing) : pluginsById'[p] = pluginsById[p]
  BY <1>3, <1>4 DEF HasStatus
<1> QED  BY <1>5, <1>6

THEOREM ImportsEnableAllTheyCan == Spec => ImportEnablesWhatItCan
<1> DEFINE Enables ==
      importing # None /\ importing' = None =>
        /\ \A n \in DOMAIN importing : CanEnable(importing[n]) => pluginsById'[importing[n]] = "active"
        /\ \A p \in DOMAIN pluginsById \ ToSet(importing) : pluginsById'[p] = pluginsById[p]
<1>1. RInv /\ [Next]_vars => [Enables]_vars
  BY ImportsEnable
<1> QED  BY RegistryStart, RegistryKeeps, <1>1, PTL DEF Spec, ImportEnablesWhatItCan
=============================================================================
