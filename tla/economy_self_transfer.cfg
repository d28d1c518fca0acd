SPECIFICATION Spec
CONSTANTS
  a1 = a1  a2 = a2  a3 = a3  p1 = p1  p2 = p2  t1 = t1  t2 = t2  t3 = t3
  d1 = d1  k1 = k1  k2 = k2  k3 = k3  i1 = i1  l1 = l1  l2 = l2  item1 = item1  None = None
  Accounts = {a1, a2}
  Actors = {p1}
  TransactionIds = {t1}
  InvoiceIds = {i1}
  IdempotencyKeys = {k1}
  LimitIds = {}
  Items = {item1}
  OwnerTypes = {"character"}
  Currencies = {"cash"}
  DueDates = {}
  OpeningBalances = {0, 2}
  Amounts = {0, 1, 2}
  TransferPairs <- MCAllPairs2
  LimitRows <- MCNoLimits
  PermissionSets <- MCAllPermissions
  CalledTypes = {"economy.transfer"}
PROPERTIES EveryBalanceMoveLedgered
CHECK_DEADLOCK FALSE
