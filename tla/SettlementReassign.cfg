SPECIFICATION ReassignSpec
CONSTANTS
  alice = alice
  bob = bob
  None = None
  Contributors = {alice, bob}
  t1 = t1
  w1 = w1
  Executors = {w1, w2}
  Tasks = {t1, t2}
  FullReward = 2
  MaxSlots = 2
  MaxWallets = 2
  MaxEvents = 2
  MaxFaults = 0
  Ops = {"assigned", "unassigned", "payout", "merged", "rejectcmd", "closed", "deleted", "wallet"}
  QueueModes = {TRUE}
  RewriteSettled = FALSE
ACTION_CONSTRAINT Scenario
INVARIANTS PaysOnlyMergedAuthor PaidOncePerAssignment
PROPERTIES KeepsPromise
CHECK_DEADLOCK FALSE
