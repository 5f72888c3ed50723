---------------------------- MODULE PayoutPromise ----------------------------
(***************************************************************************)
(* What the payout side of the backend promises, with every queue, retry   *)
(* and database write left out: money reaches a contributor only after a   *)
(* pull request of that contributor that closes the issue is merged, and   *)
(* each assignment of the issue is paid at most once.                      *)
(*                                                                         *)
(* Settlement implements it: see Promise and KeepsPromise there.           *)
(***************************************************************************)
EXTENDS Naturals, Sequences

CONSTANT Contributors

VARIABLES
  merged,    \* contributors with a merged pull request linked to the issue
  receipts   \* the payments made, oldest first

promiseVars == <<merged, receipts>>

Init ==
  /\ merged \in SUBSET Contributors
  /\ receipts = <<>>

Merge ==
  /\ merged' \in SUBSET Contributors
  /\ merged \subseteq merged'
  /\ UNCHANGED receipts

\* One more receipt: an assignment not settled before, and a merged author.
Pay ==
  /\ Len(receipts') = Len(receipts) + 1
  /\ LET r == receipts'[Len(receipts')]
     IN  /\ receipts' = Append(receipts, r)
         /\ r \in [epoch : Nat, for : merged]
         /\ \A i \in DOMAIN receipts : receipts[i].epoch # r.epoch
  /\ UNCHANGED merged

Next == Merge \/ Pay

Spec == Init /\ [][Next]_promiseVars
==============================================================================
