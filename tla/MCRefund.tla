------------------------------- MODULE MCRefund -------------------------------
(***************************************************************************)
(* Instances of Refund for TLC: bounties of different size.                *)
(***************************************************************************)
EXTENDS Refund

CONSTANTS b1, b2

\* With a resolver of its own both bounties may be alive, otherwise only the first.
Alive == {b \in Bounties : bounty[b].status = "assigned"}
MCInit == Init /\ (Alive = {b1} \/ (dual /\ Alive = Bounties))
\* An issue is deleted, or its bounty split, where no other bounty is alive, and a
\* bounty that is split is not rejected or deleted.  No step under fairness is cut.
Deletion(b) == reject.at = "idle" /\ b \in Deleted /\ reject'.at # "idle" /\ reject'.b = b
Splitting(b) == bounty'[b].reward < bounty[b].reward
Singly ==
  \A b \in Bounties :
    /\ Deletion(b) \/ Splitting(b) => \A c \in Bounties \ {b} : bounty[c].status = "cancelled"
    /\ Deletion(b) => bounty[b].reward = AmountOf[b]
    /\ Splitting(b) => reject.at = "idle"
MCSpec == MCInit /\ [][Next]_vars /\ Fairness

\* The first can be split.
Amounts == [b \in Bounties |-> IF b = b1 THEN 2 ELSE 1]
==============================================================================
