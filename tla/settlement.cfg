CONSTANTS
  None = None
  Yes = Yes
  No = No
  Markets = {m1}
  Officers = {o1, o2}
  Users = {u1, u2}
  Orders = {i1}
  Workers = {w1, w2}
  Quantities = {1}
  PayoutAtoms <- OnePayout
  MaximumPositionQuantity = 1
  MaxFaults = 1
SPECIFICATION FairSpec
INVARIANTS
  CollateralPerOwner
  LockedIsReserved
  NoOrderAfterTrading
  SettledExactlyOnce
  SettlementNeverBlocked
PROPERTIES
  ImplementsPromise
  ImplementsLifecycle
  ResolvedIsSettled
CHECK_DEADLOCK FALSE
