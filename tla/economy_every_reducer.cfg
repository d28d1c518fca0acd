SPECIFICATION Spec
CONSTANTS
  a1 = a1  a2 = a2  a3 = a3  p1 = p1  p2 = p2  t1 = t1  t2 = t2  t3 = t3
  d1 = d1  k1 = k1  k2 = k2  k3 = k3  i1 = i1  l1 = l1  l2 = l2  item1 = item1  None = None
  Accounts = {a1, a2}
  Actors = {p1}
  TransactionIds = {t1, t2}
  InvoiceIds = {i1}
  IdempotencyKeys = {k1, k2}
  LimitIds = {l1, l2}
  Items = {item1}
  OwnerTypes = {"character", "business"}
  Currencies = {"cash"}
  DueDates = {d1}
  OpeningBalances = {2}
  Amounts = {1, 2}
  TransferPairs <- MCOneWay
  LimitRows <- MCLimits
  PermissionSets <- MCGrantedOrNot
  CalledTypes = {"economy.transfer", "economy.pay_salary", "economy.fine_player", "economy.charge_tax", "economy.business_payout", "economy.buy_item", "economy.sell_item", "economy.deposit_cash", "economy.withdraw_cash", "economy.admin_adjust_balance", "economy.void_transaction", "economy.issue_invoice", "economy.pay_invoice"}
SYMMETRY SymmetrySmall
CHECK_DEADLOCK FALSE
PROPERTIES PostedWithinLimits
