SPECIFICATION Spec
CONSTANTS
  i1 = i1
  i2 = i2
  r1 = r1
  r2 = r2
  r3 = r3
  GitHub = GitHub
  Issues = {i1, i2}
  Requests = {r2, r3}
  Labelled = {r2}
  Legacy = {}
  IssueOf <- TwoIssues
  AmountOf <- Amounts
  Funders = {f1}
  Amount = 2
  MaxAttempts = 2
  MaxStalls = 1
  MaxMishaps = 1
INVARIANT ReservationsCovered
CHECK_DEADLOCK FALSE
