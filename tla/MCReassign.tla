----------------------------- MODULE MCReassign ------------------------------
(***************************************************************************)
(* Settlement for TLC in two scenarios: two handlers beside the worker of  *)
(* one instance of the backend, and one handler beside the workers of two. *)
(***************************************************************************)
EXTENDS MCSettlement

CONSTANTS t1, w1

\* As AdoptedInit; the maintainer has a wallet in the first scenario, where a bounty
\* may be split, and none in the second.
ReassignInit ==
  /\ Init
  /\ row.assignee = alice
  /\ merged = {alice}
  /\ wallet = [c \in Contributors |-> 1]
ReassignSpec == ReassignInit /\ [][Next]_vars

\* The second worker, or the second handler, rests.
OneInstance == \A e \in Executors \ {w1} : exec[e].at = "idle"
OneHandler == \A t \in Tasks \ {t1} : task[t].at = "idle"
\* All that happens beside two workers: assignments, and wallets of contributors.
Assignments == \A d \in inbox : d.op = "assigned"

Scenario ==
  /\ maintWallet' = maintWallet
  /\ IF maintWallet
     THEN OneInstance' /\ wallet' = wallet
     ELSE OneHandler' /\ Assignments' /\ Apart'
==============================================================================
