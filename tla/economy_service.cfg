SPECIFICATION Spec
CONSTANTS
  a1 = a1  a2 = a2  k1 = k1  k2 = k2  k3 = k3  i1 = i1  p1 = p1   n1 = n1  None = None
  AccountIds = {a1, a2}
  OpeningAccounts <- MCOpening
  Limits <- MCLimits
  Granted <- MCGranted
  Calls <- MCCalls
  Actors = {p1}
  Amounts = {1, 2}
  Currencies = {"cash"}
  Notes = {n1}
  InvoiceKeys = {i1, None}
  IdempotencyKeys = {k1, k2, k3}
  CapabilityRows <- MCCapabilities
  MaxMoves = 2
  MaxInvoices = 1
  MaxTime = 1
SYMMETRY Symmetry
CHECK_DEADLOCK FALSE
INVARIANTS RecordsTellHistory
PROPERTIES PluginsStayWithinCapability BookSpec
