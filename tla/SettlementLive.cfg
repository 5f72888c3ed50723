SPECIFICATION EarlyFairSpec
CONSTANTS
  alice = alice
  bob = bob
  None = None
  Contributors = {alice}
  Executors = {w1}
  Tasks = {t1}
  FullReward = 2
  MaxSlots = 2
  MaxWallets = 1
  MaxEvents = 3
  MaxFaults = 1
  Ops = {"merged", "wallet", "payout"}
  QueueModes = {TRUE}
  RewriteSettled = TRUE
PROPERTIES ReadyIsPaid ReleaseIsRecorded
CHECK_DEADLOCK FALSE
