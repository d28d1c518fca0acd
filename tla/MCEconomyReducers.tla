--------------------------- MODULE MCEconomyReducers ---------------------------
(***************************************************************************)
(* Small instances of EconomyReducers for TLC.                             *)
(***************************************************************************)
EXTENDS EconomyReducers, TLC

CONSTANTS a1, a2, a3, p1, p2, t1, t2, t3, k1, k2, k3, i1, l1, l2, item1, d1

(***************************************************************************)
(* Instance values.                                                        *)
(***************************************************************************)
MCAllPermissions == {PermissionKeys}
MCGrantedOrNot   == {{}, PermissionKeys}
MCNoLimits       == {}
MCAllPairs2      == {a1, a2} \X {a1, a2}
MCNoSelf2        == {<<a1, a2>>, <<a2, a1>>}
MCOneWay         == {<<a1, a2>>}
Limit(permission, action, max, owners, on) ==
    [permission_key |-> permission, action_type |-> action, max_amount |-> max,
     owner_types |-> owners, enabled |-> on]
MCLimits == {Limit("economy.transfer", "economy.transfer", 1, {}, TRUE),
                     Limit("economy.transfer", "economy.transfer", 1, {}, FALSE),
                     Limit("economy.transfer", "economy.transfer", None, {"character"}, TRUE),
                     Limit("economy.deposit_cash", "economy.deposit_cash", 1, {"character"}, TRUE)}

Symmetry2 == Permutations({t1, t2, t3}) \cup Permutations({k1, k2, k3})
SymmetrySmall == Permutations({t1, t2}) \cup Permutations({k1, k2}) \cup Permutations({l1, l2})
=============================================================================
