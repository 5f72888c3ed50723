SPECIFICATION AdoptedSpec
CONSTANTS
  alice = alice
  bob = bob
  None = None
  Contributors = {alice, bob}
  Executors = {w1}
  Tasks = {t1}
  FullReward = 2
  MaxSlots = 2
  MaxWallets = 2
  MaxEvents = 2
  MaxFaults = 1
  Ops = {"assigned", "unassigned", "merged", "rejected", "rejectcmd", "payout", "hold", "reprice", "wallet", "retry"}
  QueueModes = {TRUE, FALSE}
  RewriteSettled = TRUE
INVARIANTS TypeOK PaysOnlyMergedAuthor PaidOncePerAssignment IndexOnChain
CHECK_DEADLOCK FALSE
