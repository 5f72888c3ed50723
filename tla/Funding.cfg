SPECIFICATION FairSpec
CONSTANTS
  i1 = i1
  i2 = i2
  r1 = r1
  r2 = r2
  r3 = r3
  GitHub = GitHub
  Issues = {i1}
  Requests = {r1, r3}
  Labelled = {r1}
  Legacy = {r3}
  IssueOf <- OneIssue
  AmountOf <- Amounts
  Funders = {f1}
  Amount = 2
  MaxAttempts = 2
  MaxStalls = 1
  MaxMishaps = 1
INVARIANTS TypeOK NothingVanishes
PROPERTIES ComesToRest ListedIsReplayed
CHECK_DEADLOCK FALSE
