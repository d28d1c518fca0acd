---------------------------- MODULE MCEconomyLedger ----------------------------
(***************************************************************************)
(* A small instance of EconomyLedger for TLC.                              *)
(***************************************************************************)
EXTENDS EconomyLedger, TLC

CONSTANTS a1, a2, k1, k2, k3, i1, p1, n1

MCAccount(owner, balance) ==
    [ownerType |-> owner, currency |-> "cash", balance |-> balance, status |-> "active"]
MCOpening == a1 :> MCAccount("character", 2) @@ a2 :> MCAccount("business", 1)
MCGranted == {p1} \X PermissionKeys
MCLimits == {[permissionKey |-> "economy.transfer", actionType |-> "economy.transfer",
              maxAmount |-> 1, allowedAccountOwnerTypes |-> None, enabled |-> TRUE],
             [permissionKey |-> "economy.buy_item", actionType |-> "economy.buy_item",
              maxAmount |-> None, allowedAccountOwnerTypes |-> {"character"}, enabled |-> TRUE]}
(* The limits refuse the transfer of 2 and the purchase between a1 and a2,  *)
(* the first capability the salary of 2 and the tax between a1 and a2.      *)
MCCalls == {<<"economy.transfer", a1, a2, 2>>, <<"economy.deposit_cash", a1, a2, 2>>,
            <<"economy.withdraw_cash", a2, a1, 1>>, <<"economy.transfer", a1, a1, 1>>,
            <<"economy.pay_salary", a1, a1, 2>>,
            <<"economy.fine_player", a1, a1, 1>>, <<"economy.charge_tax", a1, a2, 1>>,
            <<"economy.business_payout", a1, a1, 1>>, <<"economy.buy_item", a1, a1, 1>>,
            <<"economy.buy_item", a1, a2, 1>>, <<"economy.sell_item", a1, a1, 1>>,
            <<"economy.pay_salary", a1, a1, 1>>,
            <<"economy.admin.adjust_balance", None, a2, 1>>,
            <<"economy.admin.adjust_balance", a1, None, 2>>,
            <<"economy.issue_invoice", a1, a2, 2>>}
MCCapabilities == {[maxAmount |-> 1, allowedAccountOwnerTypes |-> {"character"},
                    requiresOnDuty |-> TRUE],
                   [maxAmount |-> None, allowedAccountOwnerTypes |-> None,
                    requiresOnDuty |-> FALSE]}
Symmetry == Permutations({k1, k2, k3})
=============================================================================
