CONSTANTS
  Nothing = Nothing
  c1 = c1
  c2 = c2
  m1 = m1
  m2 = m2
  Customers = {c1, c2}
  Markets = {m1, m2}
  Requests = {t1, t2, t3}
  Spends <- MixedSpends
  Amounts = {1, 2}
  MaximumBalance = 2
SYMMETRY Symmetry
SPECIFICATION BalanceSpec
INVARIANTS
  SolventInOneMarket
  OverdraftBounded
