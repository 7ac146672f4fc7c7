CONSTANTS
  None = None
  Customers = {c1, c2}
  Withdrawals = {w1, w2}
  Amounts = {1}
  Handlers = {h1, h2}
  ConfirmationKeys = {k1}
  EventIds = {e1, e2}
  MaxAttempts = 1
SPECIFICATION PersistentSpec
INVARIANTS
  PaidAtMostOnce
  LedgerFollowsProvider
PROPERTIES
  DecidedIsFinal
  OutcomeIsBooked
  RetriedWaitsForFailedOnly
CHECK_DEADLOCK FALSE
