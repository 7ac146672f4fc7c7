CONSTANTS
  None = None
  Customers = {c1, c2}
  Keys = {k1}
  Amounts = {1, 2}
  Handlers = {h1, h2}
  Transactions = {t1, t2}
  EventIds = {e1, e2}
SPECIFICATION FairSpec
INVARIANTS
  LedgerFollowsPayments
PROPERTIES
  PaidIsCredited
CHECK_DEADLOCK FALSE
