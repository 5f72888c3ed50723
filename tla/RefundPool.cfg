SPECIFICATION Spec
CONSTANTS
  b1 = b1
  b2 = b2
  Bounties = {b1, b2}
  AmountOf <- Amounts
  Merged = {b1}
  Rejected = {b2}
  Deleted = {}
  Split = {}
  RewriteSettled = FALSE
  Refunds = {m1}
  Funds = 4
  MaxMishaps = 0
INVARIANT PoolBacked
CHECK_DEADLOCK FALSE
