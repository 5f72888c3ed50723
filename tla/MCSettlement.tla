---------------------------- MODULE MCSettlement -----------------------------
(***************************************************************************)
(* Instances of Settlement for TLC.                                        *)
(***************************************************************************)
EXTENDS Settlement

CONSTANTS alice, bob

\* The first assignee was adopted and has merged the work; everyone has a wallet.
AdoptedInit ==
  /\ Init
  /\ row.assignee = alice
  /\ merged = {alice}
  /\ wallet = [c \in Contributors |-> 1]
  /\ maintWallet
AdoptedSpec == AdoptedInit /\ [][Next]_vars

\* Nobody has a wallet yet and nothing is merged.
EarlyInit ==
  /\ Init
  /\ row.assignee = alice
  /\ merged = {}
  /\ wallet = [c \in Contributors |-> 0]
EarlyFairSpec == EarlyInit /\ [][Next]_vars /\ Fairness
AdoptedFairSpec == AdoptedInit /\ [][Next]_vars /\ Fairness
==============================================================================
