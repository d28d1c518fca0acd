----------------------------- MODULE PluginSlots -----------------------------
(***************************************************************************)
(* What plugin deployment promises, without histories, statuses or         *)
(* approvals: every plugin/server pair is a slot that runs at most one     *)
(* bundle, and a slot only ever runs a bundle that is trusted now.         *)
(*                                                                         *)
(* A bundle is unknown until it is registered, trusted from then on, and   *)
(* revoked for good when it, or its signer, is.  Revocation empties, in    *)
(* the same step, every slot that runs a bundle it touches.                *)
(***************************************************************************)
EXTENDS FiniteSets

CONSTANTS Slots, BundleIds, None

VARIABLES
    running,    \* per slot, the bundle it runs or None
    standing    \* per bundle, what the operator thinks of it

vars == <<running, standing>>

Init ==
    /\ running = [s \in Slots |-> None]
    /\ standing = [b \in BundleIds |-> "unknown"]

(* A bundle becomes known; a bundle whose signer is revoked never does.     *)
Register(b) ==
    /\ standing[b] = "unknown"
    /\ standing' = [standing EXCEPT ![b] = "trusted"]
    /\ UNCHANGED running

(* A slot starts to run a trusted bundle, whatever it ran before.           *)
Run(s, b) ==
    /\ standing[b] = "trusted"
    /\ running' = [running EXCEPT ![s] = b]
    /\ UNCHANGED standing

(* Slots stop, all at once.                                                 *)
Stop(S) ==
    /\ running' = [s \in Slots |-> IF s \in S THEN None ELSE running[s]]
    /\ UNCHANGED standing

(* Trusted bundles are revoked and no slot keeps one of them.               *)
Revoke(B) ==
    /\ \A b \in B : standing[b] = "trusted"
    /\ standing' = [b \in BundleIds |-> IF b \in B THEN "revoked" ELSE standing[b]]
    /\ running' = [s \in Slots |-> IF running[s] \in B THEN None ELSE running[s]]

Next ==
    \/ \E b \in BundleIds : Register(b)
    \/ \E s \in Slots, b \in BundleIds : Run(s, b)
    \/ \E S \in SUBSET Slots : Stop(S)
    \/ \E B \in SUBSET BundleIds : Revoke(B)

Spec == Init /\ [][Next]_vars
=============================================================================
