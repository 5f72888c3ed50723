SPECIFICATION AdoptedSpec
CONSTANTS
  alice = alice
  bob = bob
  None = None
  Contributors = {alice, bob}
  Executors = {w1}
  Tasks = {t1}
  FullReward = 2
  MaxSlots = 2
  MaxWallets = 2
  MaxEvents = 1
  MaxFaults = 0
  Ops = {"rejected"}
  QueueModes = {TRUE}
  RewriteSettled = FALSE
PROPERTIES CancelledStaysClosed
CHECK_DEADLOCK FALSE
