SPECIFICATION FairSpec
CONSTANTS
  None = None
  Worker = Worker
  Scanner = Scanner
  Producers = {p1}
  Drainers = {d1}
  MaxHops = 2
  MaxPasses = 2
  MaxRechecks = 1
  MaxAttempts = 2
  MaxEvents = 1
  MaxFaults = 1
  MaxLapses = 1
  Scans = FALSE
INVARIANTS TypeOK LockExclusive NeverSkipped
PROPERTIES Quiet
CHECK_DEADLOCK FALSE
