SPECIFICATION FairSpec
CONSTANTS
  None = None
  Worker = Worker
  Scanner = Scanner
  Producers = {p1}
  Drainers = {d1}
  MaxHops = 2
  MaxPasses = 1
  MaxRechecks = 0
  MaxAttempts = 1
  MaxEvents = 2
  MaxFaults = 0
  MaxLapses = 0
  Scans = TRUE
PROPERTIES EventSeen
CHECK_DEADLOCK FALSE
