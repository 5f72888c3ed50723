SPECIFICATION MCSpec
CONSTANTS
  b1 = b1
  b2 = b2
  Bounties = {b1, b2}
  AmountOf <- Amounts
  Merged = {b1}
  Rejected = {b2}
  Deleted = {b1}
  Split = {b1}
  RewriteSettled = FALSE
  Refunds = {m1}
  Funds = 4
  MaxMishaps = 1
ACTION_CONSTRAINT Singly
INVARIANTS TypeOK  RefundSettles
PROPERTIES RefundFinishes
CHECK_DEADLOCK FALSE
