CONSTANTS
  Nothing = Nothing
  c1 = c1
  c2 = c2
  m1 = m1
  m2 = m2
  Customers = {c1, c2}
  Markets = {m1, m2}
  Requests = {t1, t2}
  Spends <- MixedSpends
  Amounts = {1}
  MaximumBalance = 1
SYMMETRY Symmetry
SPECIFICATION BalanceSpec
INVARIANT AvailableNeverNegative
