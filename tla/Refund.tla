-------------------------------- MODULE Refund --------------------------------
(***************************************************************************)
(* The refund of a repository's escrow.  A refund walks over the milestones*)
(* it read at its start, takes each back to the maintainer by a dispute or,*)
(* for an escrow with one signing wallet, by replacing and releasing it,   *)
(* withdraws the rest, and then empties the pool and cancels bounties.     *)
(* Every step is a transaction of its own that may fail; the maintainer    *)
(* asks again, possibly twice at once.  Meanwhile money jobs push, release *)
(* and split milestones, a payout command asks for a split, and a bounty is*)
(* rejected or its issue deleted, which leaves a milestone of amount zero. *)
(***************************************************************************)
EXTENDS Naturals, FiniteSets, Sequences, Folds

CONSTANTS
  Bounties, AmountOf,
  Merged,       \* bounties whose pull request is merged on GitHub
  Refunds,      \* requests to refund the escrow
  Rejected,     \* bounties a maintainer may reject
  Deleted,      \* bounties whose issue may be deleted on GitHub
  Split,        \* bounties a payout command may split
  Funds,        \* what the contract holds at first
  RewriteSettled, \* update-escrow may replace a milestone that is settled or disputed
  MaxMishaps    \* bound: calls that fail, and crashes

ASSUME RefundAssumption ==
  /\ IsFiniteSet(Bounties) /\ Merged \subseteq Bounties
  /\ Rejected \subseteq Bounties /\ Deleted \subseteq Bounties /\ Split \subseteq Bounties
  /\ AmountOf \in [Bounties -> Nat \ {0}]
  /\ Funds \in Nat /\ MaxMishaps \in Nat /\ RewriteSettled \in BOOLEAN

VARIABLES
  dual,        \* the escrow's dispute resolver has its own wallet
  milestones,  \* the escrow's milestones, in order
  balance,     \* what the contract holds
  pool,        \* repositories.escrow_balance
  bounty,      \* bounty -> status, milestone index (0 for none) and reward
  job,         \* the bounty worker
  refund,      \* request -> refund_with_issues
  reject,      \* a reject_issue request, or the handler of a deleted issue
  received,    \* history: bounty -> what its contributor got
  mishaps

vars == <<dual, milestones, balance, pool, bounty, job, refund, reject,
          received, mishaps>>
chain == <<milestones, balance, received>>
rows == <<pool, bounty>>

------------------------------------------------------------------------------
\* A receiver is the contributor, or the maintainer or the platform.
Milestone == [owner : Bounties, to : {"contributor", "maintainer"}, amount : Nat,
              approved : BOOLEAN, disputed : BOOLEAN, released : BOOLEAN, resolved : BOOLEAN]
Fresh(b, to, amount) == [owner |-> b, to |-> to, amount |-> amount, approved |-> FALSE,
                         disputed |-> FALSE, released |-> FALSE, resolved |-> FALSE]
Terminal(m) == m.released \/ m.resolved

\* An open bounty has no assignee and moves no money: it goes as assigned.
Statuses == {"assigned", "merged", "paid", "cancelled"}
\* A push that crashes before it is saved leaves a milestone without a bounty.
MaxMilestones == Cardinality(Bounties) + MaxMishaps
Index == 0..MaxMilestones

\* The bounty of a job or a request that is at rest.
Somebody == CHOOSE b \in Bounties : TRUE

JobStages == {"idle", "chain", "fetch", "put", "save", "approve", "release", "dispute",
              "resolve", "record"}
NoJob == [at |-> "idle", b |-> Somebody, status |-> "assigned", idx |-> 0, reward |-> 0,
          amount |-> 0, doc |-> <<>>]

RefundStages == {"idle", "check", "next", "dispute", "resolve", "put", "approve", "release",
                 "observe", "withdraw", "list", "finalize", "done"}
NoRefund == [at |-> "idle", seen |-> <<>>, k |-> 1, remaining |-> 0, amount |-> 0, list |-> {}]

RejectStages == {"idle", "fetch", "zero", "cancel", "pool", "over"}
NoReject == [at |-> "idle", b |-> Somebody, idx |-> 0, reward |-> 0, balance |-> 0, doc |-> <<>>]

SumOver(f, S) == MapThenFoldSet(+, 0, LAMBDA x : f[x], LAMBDA T : CHOOSE x \in T : TRUE, S)

Init ==
  /\ dual \in BOOLEAN
  /\ milestones = <<>> /\ balance = Funds
  /\ \E S \in SUBSET Bounties :
       bounty = [b \in Bounties |-> [status |-> IF b \in S THEN "assigned" ELSE "cancelled",
                                     idx |-> 0, reward |-> AmountOf[b]]]
  \* A reservation that the pool does not cover is refused.
  /\ pool = Funds - SumOver(AmountOf, {b \in Bounties : bounty[b].status = "assigned"})
  /\ pool \in Nat
  /\ job = NoJob
  /\ refund = [r \in Refunds |-> NoRefund]
  /\ reject = NoReject
  /\ received = [b \in Bounties |-> 0]
  /\ mishaps = 0

------------------------------------------------------------------------------
(* The contract.                                                           *)

CanDispute(k) == ~milestones[k].disputed /\ ~Terminal(milestones[k])
CanResolve(k, amount) ==
  milestones[k].disputed /\ ~Terminal(milestones[k]) /\ amount <= balance
CanApprove(k) == ~milestones[k].disputed /\ ~Terminal(milestones[k])
CanRelease(k) ==
  /\ milestones[k].approved /\ CanApprove(k)
  /\ milestones[k].amount <= balance

Dispute(k) ==
  milestones' = [milestones EXCEPT ![k].disputed = TRUE] /\ UNCHANGED <<balance, received>>
Resolve(k, amount) ==
  /\ milestones' = [milestones EXCEPT ![k].resolved = TRUE]
  /\ balance' = balance - amount
  /\ UNCHANGED received
Approve(k) ==
  milestones' = [milestones EXCEPT ![k].approved = TRUE] /\ UNCHANGED <<balance, received>>
Release(k) ==
  LET m == milestones[k]
  IN  /\ milestones' = [milestones EXCEPT ![k].released = TRUE]
      /\ balance' = balance - m.amount
      /\ received' = IF m.to = "contributor"
                     THEN [received EXCEPT ![m.owner] = @ + m.amount] ELSE received
\* A dispute resolved with two distributions.
PaySplit(k, part, amount) ==
  /\ milestones' = [milestones EXCEPT ![k].resolved = TRUE]
  /\ balance' = balance - amount
  /\ received' = [received EXCEPT ![milestones[k].owner] = @ + part]

\* update-escrow replaces the whole list.  That it refuses a shorter list, and
\* without RewriteSettled a change of what is settled or disputed, are assumptions
\* about the provider: nothing in the repository says so.
CanUpdate(doc) ==
  /\ Len(milestones) <= Len(doc)
  /\ ~RewriteSettled => \A k \in 1..Len(milestones) :
       Terminal(milestones[k]) \/ milestones[k].disputed => doc[k] = milestones[k]
UpdateEscrow(doc) == milestones' = doc /\ UNCHANGED <<balance, received>>

------------------------------------------------------------------------------
(* The bounty worker: evaluate, push_milestone, release_milestone.         *)

JobGoto(stage) == job' = [job EXCEPT !.at = stage]
\* The job is done, waits, is blocked, or fails and is retried: all begin anew.
JobOver == job' = NoJob
JobOnly == UNCHANGED <<dual, refund, reject, mishaps>>

TakeJob(b) ==
  /\ job.at = "idle"
  /\ job' = [NoJob EXCEPT !.at = "chain", !.b = b, !.status = bounty[b].status,
                          !.idx = bounty[b].idx, !.reward = bounty[b].reward]
  /\ UNCHANGED <<chain, pool, bounty>> /\ JobOnly

\* What evaluate decides from the row it loaded and the chain.
\* Mutant: a milestone that was resolved to anybody counts as paid.
SettledOnChain(m) == Terminal(m)
PaidOnChain(m) == m.released
Decision ==
  LET b == job.b   k == job.idx   m == milestones[k]
  IN  IF job.status \in {"paid", "cancelled"} THEN "idle"
      ELSE IF k = 0 THEN "fetch"
      ELSE IF k > Len(milestones) THEN "idle"
      ELSE IF PaidOnChain(m) THEN "record"
      ELSE IF m.disputed \/ m.resolved THEN "idle"
      \* a stale receiver; a milestone whose amount is not the reward is not replaced
      ELSE IF m.to # "contributor" THEN IF m.amount = job.reward THEN "fetch" ELSE "idle"
      ELSE IF job.reward > m.amount \/ b \notin Merged THEN "idle"
      \* a split; both have a wallet
      ELSE IF job.reward < m.amount THEN "dispute"
      ELSE "approve"
Evaluate ==
  /\ job.at = "chain"
  /\ job' = IF Decision = "idle" THEN NoJob
            ELSE [NoJob EXCEPT !.at = Decision, !.b = job.b, !.idx = job.idx, !.reward = job.reward,
                               !.amount = IF Decision = "dispute" THEN milestones[job.idx].amount ELSE 0]
  /\ UNCHANGED <<chain, pool, bounty>> /\ JobOnly

FetchEscrow ==
  /\ job.at = "fetch"
  /\ job' = [job EXCEPT !.at = "put", !.doc = milestones]
  /\ UNCHANGED <<chain, pool, bounty>> /\ JobOnly
\* Mutant: a milestone whose receiver changed is pushed as a new one.
NeverFits(idx, doc) == FALSE
Fits(idx, doc) == idx \in 1..Len(doc)
PutMilestone ==
  LET m == Fresh(job.b, "contributor", job.reward)
      fits == Fits(job.idx, job.doc)
      doc == IF fits THEN [job.doc EXCEPT ![job.idx] = m] ELSE Append(job.doc, m)
  IN  /\ job.at = "put"
      /\ \/ /\ CanUpdate(doc) /\ UpdateEscrow(doc)
            /\ job' = [job EXCEPT !.at = "save", !.idx = IF fits THEN @ ELSE Len(doc), !.doc = <<>>]
         \/ ~CanUpdate(doc) /\ JobOver /\ UNCHANGED chain
      /\ UNCHANGED <<pool, bounty>> /\ JobOnly
SaveMilestone ==
  /\ job.at = "save"
  /\ bounty' = [bounty EXCEPT ![job.b] = [@ EXCEPT !.status = "assigned", !.idx = job.idx]]
  /\ JobOver
  /\ UNCHANGED <<chain, pool>> /\ JobOnly

Released == job' = [NoJob EXCEPT !.at = "record", !.b = job.b]
\* A milestone that is released by now counts as released by this job.
ApproveMilestone ==
  /\ job.at = "approve"
  /\ \/ milestones[job.idx].released /\ Released /\ UNCHANGED chain
     \/ CanApprove(job.idx) /\ Approve(job.idx) /\ JobGoto("release")
     \/ /\ ~milestones[job.idx].released /\ ~CanApprove(job.idx)
        /\ JobOver /\ UNCHANGED chain
  /\ UNCHANGED <<pool, bounty>> /\ JobOnly
ReleaseFunds ==
  /\ job.at = "release"
  /\ \/ milestones[job.idx].released /\ Released /\ UNCHANGED chain
     \/ CanRelease(job.idx) /\ Release(job.idx) /\ Released
     \/ ~milestones[job.idx].released /\ ~CanRelease(job.idx) /\ JobOver /\ UNCHANGED chain
  /\ UNCHANGED <<pool, bounty>> /\ JobOnly

\* release_split: a milestone that somebody disputed already goes on ...
DisputeForSplit ==
  /\ job.at = "dispute"
  /\ \/ CanDispute(job.idx) /\ Dispute(job.idx) /\ JobGoto("resolve")
     \/ /\ milestones[job.idx].disputed /\ ~Terminal(milestones[job.idx])
        /\ JobGoto("resolve") /\ UNCHANGED chain
     \/ Terminal(milestones[job.idx]) /\ JobOver /\ UNCHANGED chain
  /\ UNCHANGED <<pool, bounty>> /\ JobOnly
\* ... and one that somebody resolved or released counts as split.
ResolveForSplit ==
  LET k == job.idx
  IN  /\ job.at = "resolve"
      /\ \/ Terminal(milestones[k]) /\ Released /\ UNCHANGED chain
         \/ CanResolve(k, job.amount) /\ PaySplit(k, job.reward, job.amount) /\ Released
         \/ /\ ~Terminal(milestones[k]) /\ ~CanResolve(k, job.amount)
            /\ JobOver /\ UNCHANGED chain
      /\ UNCHANGED <<pool, bounty>> /\ JobOnly

MarkPaid ==
  /\ job.at = "record"
  /\ bounty' = [bounty EXCEPT ![job.b].status = "paid"]
  /\ JobOver
  /\ UNCHANGED <<chain, pool>> /\ JobOnly

Work == Evaluate \/ FetchEscrow \/ PutMilestone \/ SaveMilestone \/ ApproveMilestone
        \/ ReleaseFunds \/ DisputeForSplit \/ ResolveForSplit \/ MarkPaid

------------------------------------------------------------------------------
(* refund_with_issues.                                                     *)

RefundGoto(r, stage) == refund' = [refund EXCEPT ![r].at = stage]
Refused(r) == refund' = [refund EXCEPT ![r] = NoRefund] /\ UNCHANGED chain
RefundOnly == UNCHANGED <<dual, job, reject, mishaps>>
Quiet == UNCHANGED rows /\ RefundOnly

BeginRefund(r) ==
  /\ refund[r].at = "idle"
  /\ refund' = [refund EXCEPT ![r] =
       [NoRefund EXCEPT !.at = "check",
                        !.seen = milestones, !.remaining = IF dual THEN balance ELSE 0]]
  /\ UNCHANGED chain /\ Quiet
HasAmount(m) == m.amount > 0
\* refund_milestones: one open milestone without an amount refuses the whole refund.
CheckMilestones(r) ==
  LET p == refund[r]
  IN  /\ p.at = "check"
      /\ \/ /\ \A k \in 1..Len(p.seen) : Terminal(p.seen[k]) \/ HasAmount(p.seen[k])
            /\ RefundGoto(r, IF dual THEN "next" ELSE "put") /\ UNCHANGED chain
         \/ /\ \E k \in 1..Len(p.seen) : ~Terminal(p.seen[k]) /\ ~HasAmount(p.seen[k])
            /\ Refused(r)
      /\ Quiet

\* Mutant: a milestone somebody disputed is left to its dispute.
PassedOrDisputed(m) == Terminal(m) \/ m.disputed
Passed(m) == Terminal(m)
\* Mutant: every milestone is disputed first.
DisputeAnyway(m) == "dispute"
FirstStep(m) == IF m.disputed THEN "resolve" ELSE "dispute"
\* The next milestone that is not passed over, and then the balance.
NextMilestone(r) ==
  LET p == refund[r]
      left == {k \in p.k..Len(p.seen) : ~Passed(p.seen[k])}
      k == CHOOSE k \in left : \A j \in left : k <= j
      amount == p.seen[k].amount
      remaining == IF balance < p.remaining THEN balance ELSE p.remaining
  IN  /\ p.at = "next"
      /\ \/ left = {} /\ refund' = [refund EXCEPT ![r] = [p EXCEPT !.at = "observe", !.k = 1]]
         \/ /\ left # {} /\ dual /\ remaining > 0 /\ amount > 0
            /\ refund' = [refund EXCEPT ![r] =
                 [p EXCEPT !.at = FirstStep(p.seen[k]),
                           !.k = k, !.remaining = remaining,
                           !.amount = IF amount < remaining THEN amount ELSE remaining]]
         \* the amount is not positive, or there is no available balance
         \/ left # {} /\ dual /\ (remaining = 0 \/ amount = 0) /\ refund' = [refund EXCEPT ![r] = NoRefund]
         \/ left # {} /\ ~dual /\ refund' = [refund EXCEPT ![r] = [p EXCEPT !.at = "approve", !.k = k]]
      /\ UNCHANGED chain /\ Quiet

DisputeMilestone(r) ==
  LET k == refund[r].k
  IN  /\ refund[r].at = "dispute"
      /\ \/ CanDispute(k) /\ Dispute(k) /\ RefundGoto(r, "resolve")
         \/ ~CanDispute(k) /\ Refused(r)
      /\ Quiet
ResolveDispute(r) ==
  LET p == refund[r]
  IN  /\ p.at = "resolve"
      /\ \/ /\ CanResolve(p.k, p.amount) /\ Resolve(p.k, p.amount)
            /\ refund' = [refund EXCEPT ![r] =
                 [p EXCEPT !.at = "next", !.k = @ + 1, !.remaining = @ - p.amount, !.amount = 0]]
         \/ ~CanResolve(p.k, p.amount) /\ Refused(r)
      /\ Quiet

\* One wallet: every milestone that is not terminal gets the maintainer's address ...
ReplaceMilestones(r) ==
  LET p == refund[r]
      doc == [k \in 1..Len(p.seen) |->
               IF Passed(p.seen[k]) THEN p.seen[k]
               ELSE Fresh(p.seen[k].owner, "maintainer", p.seen[k].amount)]
  IN  /\ p.at = "put"
      /\ \/ CanUpdate(doc) /\ UpdateEscrow(doc) /\ RefundGoto(r, "next")
         \/ ~CanUpdate(doc) /\ Refused(r)
      /\ Quiet
\* ... and is approved and released.
ApproveRefund(r) ==
  LET k == refund[r].k
  IN  /\ refund[r].at = "approve"
      /\ \/ CanApprove(k) /\ Approve(k) /\ RefundGoto(r, "release")
         \/ ~CanApprove(k) /\ Refused(r)
      /\ Quiet
ReleaseRefund(r) ==
  LET p == refund[r]
  IN  /\ p.at = "release"
      /\ \/ CanRelease(p.k) /\ Release(p.k)
            /\ refund' = [refund EXCEPT ![r] = [p EXCEPT !.at = "next", !.k = @ + 1]]
         \/ ~CanRelease(p.k) /\ Refused(r)
      /\ Quiet

ObserveBalance(r) ==
  LET p == refund[r]
      rest == IF dual /\ p.remaining < balance THEN p.remaining ELSE balance
  IN  /\ p.at = "observe"
      /\ refund' = [refund EXCEPT ![r] =
           [p EXCEPT !.at = IF rest > 0 THEN "withdraw" ELSE "list",
                     !.remaining = 0, !.amount = rest]]
      /\ UNCHANGED chain /\ Quiet
WithdrawRest(r) ==
  LET p == refund[r]
  IN  /\ p.at = "withdraw"
      /\ \/ /\ p.amount <= balance /\ balance' = balance - p.amount
            /\ refund' = [refund EXCEPT ![r] = [p EXCEPT !.at = "list", !.amount = 0]]
            /\ UNCHANGED <<milestones, received>>
         \/ p.amount > balance /\ Refused(r)
      /\ Quiet

Cancellable(b) == bounty[b].status = "assigned"
ListToCancel(r) ==
  /\ refund[r].at = "list"
  /\ refund' = [refund EXCEPT ![r] =
       [@ EXCEPT !.at = "finalize", !.list = {b \in Bounties : Cancellable(b)}]]
  /\ UNCHANGED chain /\ Quiet
\* One transaction; the status is tested again in it.
FinalizeRefund(r) ==
  /\ refund[r].at = "finalize"
  /\ pool' = 0
  /\ bounty' = [b \in Bounties |-> IF b \in refund[r].list /\ Cancellable(b)
                                   THEN [bounty[b] EXCEPT !.status = "cancelled"]
                                   ELSE bounty[b]]
  /\ refund' = [refund EXCEPT ![r] = [NoRefund EXCEPT !.at = "done"]]
  /\ UNCHANGED chain /\ RefundOnly

StepRefund(r) ==
  \/ CheckMilestones(r) \/ NextMilestone(r) \/ DisputeMilestone(r) \/ ResolveDispute(r) \/ ReplaceMilestones(r)
  \/ ApproveRefund(r) \/ ReleaseRefund(r) \/ ObserveBalance(r) \/ WithdrawRest(r)
  \/ ListToCancel(r) \/ FinalizeRefund(r)

------------------------------------------------------------------------------
(* The rest of the backend, and what goes wrong.                           *)

\* A payout command sets the row's reward below the milestone's amount.  It writes
\* some time after it found a milestone that was pushed; an index never goes away.
ConfigurePayout(b) ==
  /\ b \in Split /\ bounty[b].idx > 0
  /\ \E part \in 1..AmountOf[b] - 1 : bounty' = [bounty EXCEPT ![b].reward = part]
  /\ UNCHANGED <<dual, chain, pool, job, refund, reject, mishaps>>

\* reject_issue and the deletion of an issue cancel the bounty, and add its reward to
\* the pool: the pool they read with the repository, the amount they read on chain.
EscrowReward(b) ==
  IF bounty[b].idx = 0 THEN bounty[b].reward ELSE milestones[bounty[b].idx].amount
Begins(b, stage) ==
  /\ reject.at = "idle" /\ bounty[b].status \notin {"paid", "cancelled"}
  /\ reject' = [NoReject EXCEPT !.at = stage, !.b = b, !.idx = bounty[b].idx,
                                !.reward = EscrowReward(b), !.balance = pool]
  /\ UNCHANGED <<dual, chain, rows, job, refund, mishaps>>
RejectOnly == UNCHANGED <<dual, pool, job, refund, mishaps>>
BeginReject(b) == b \in Rejected /\ Begins(b, "cancel")
BeginDelete(b) ==
  /\ b \in Deleted
  /\ Begins(b, IF bounty[b].status = "assigned" /\ bounty[b].idx > 0 THEN "fetch" ELSE "cancel")
\* zero_milestone_on_chain: the platform gets nothing for a deleted issue.
FetchForZero ==
  /\ reject.at = "fetch"
  /\ reject' = [reject EXCEPT !.at = "zero", !.doc = milestones]
  /\ UNCHANGED <<chain, bounty>> /\ RejectOnly
ZeroMilestone ==
  LET doc == [reject.doc EXCEPT ![reject.idx] = [@ EXCEPT !.amount = 0, !.to = "maintainer"]]
  IN  /\ reject.at = "zero"
      /\ \/ CanUpdate(doc) /\ UpdateEscrow(doc) /\ reject' = [reject EXCEPT !.at = "cancel", !.doc = <<>>]
         \/ ~CanUpdate(doc) /\ reject' = NoReject /\ UNCHANGED chain
      /\ UNCHANGED bounty /\ RejectOnly
CancelBounty ==
  /\ reject.at = "cancel"
  /\ bounty' = [bounty EXCEPT ![reject.b].status = "cancelled"]
  /\ reject' = [reject EXCEPT !.at = "pool"]
  /\ UNCHANGED chain /\ RejectOnly
RefundPool ==
  /\ reject.at = "pool"
  /\ pool' = reject.balance + reject.reward
  /\ reject' = [NoReject EXCEPT !.at = "over"]
  /\ UNCHANGED <<dual, chain, bounty, job, refund, mishaps>>

\* The webhook of a merged pull request.
MarkMerged(b) ==
  /\ b \in Merged /\ bounty[b].status = "assigned"
  /\ bounty' = [bounty EXCEPT ![b].status = "merged"]
  /\ UNCHANGED <<dual, chain, pool, job, refund, reject, mishaps>>

Mishap == mishaps < MaxMishaps /\ mishaps' = mishaps + 1
\* A call fails, or reports no success although it went through.
RefundFails(r) ==
  /\ refund[r].at \notin {"idle", "done"} /\ Mishap
  /\ Refused(r)
  /\ UNCHANGED <<dual, rows, job, reject>>
Crash ==
  /\ Mishap
  /\ job' = NoJob
  /\ reject' = IF reject.at = "over" THEN reject ELSE NoReject
  /\ refund' = [r \in Refunds |-> IF refund[r].at = "done" THEN refund[r] ELSE NoRefund]
  /\ UNCHANGED <<dual, chain, rows>>

Next ==
  \/ \E b \in Bounties : \/ TakeJob(b) \/ MarkMerged(b) \/ ConfigurePayout(b)
                         \/ BeginReject(b) \/ BeginDelete(b)
  \/ \E r \in Refunds : BeginRefund(r) \/ StepRefund(r) \/ RefundFails(r)
  \/ Work \/ FetchForZero \/ ZeroMilestone \/ CancelBounty \/ RefundPool \/ Crash

Spec == Init /\ [][Next]_vars

\* What has begun goes on; nobody has to ask, to merge or to take a job.
Fairness ==
  /\ WF_vars(Work)
  /\ \A r \in Refunds : WF_vars(StepRefund(r))
FairSpec == Spec /\ Fairness

------------------------------------------------------------------------------
(* Properties.                                                             *)

TypeOK ==
  /\ dual \in BOOLEAN
  /\ milestones \in Seq(Milestone) /\ Len(milestones) <= MaxMilestones
  /\ balance \in Nat /\ pool \in Nat
  /\ bounty \in [Bounties -> [status : Statuses, idx : Index, reward : Nat \ {0}]]
  /\ job \in [at : JobStages, b : Bounties \cup {Somebody}, status : Statuses, idx : Index,
              reward : Nat, amount : Nat, doc : Seq(Milestone)]
  /\ refund \in [Refunds -> [at : RefundStages, seen : Seq(Milestone), k : Nat,
                             remaining : Nat, amount : Nat, list : SUBSET Bounties]]
  /\ reject \in [at : RejectStages, b : Bounties \cup {Somebody}, idx : Index, reward : Nat,
                 balance : Nat, doc : Seq(Milestone)]
  /\ received \in [Bounties -> Nat]
  /\ mishaps \in 0..MaxMishaps

\* A bounty is recorded as paid only if its contributor has the whole reward, with
\* two exceptions: a split was asked for, and a milestone was resolved, by the worker
\* or by anybody, so that the contributor may have nothing; or the issue was deleted,
\* and what was released is a milestone of nothing.  So a milestone the refund took
\* back is never mistaken for a full payout, although both end the milestone and the
\* worker acts on what it loaded before.  It holds for escrows whose resolver has its
\* own wallet; with one wallet the refund itself releases milestones, and the worker
\* repairs the row to paid (see the README).
PaidMeansReceived ==
  dual => \A b \in Bounties : bounty[b].status = "paid" =>
            \/ received[b] = AmountOf[b]
            \/ /\ bounty[b].idx \in 1..Len(milestones) /\ milestones[bounty[b].idx].owner = b
               /\ \/ milestones[bounty[b].idx].resolved /\ bounty[b].reward < AmountOf[b]
                  \/ milestones[bounty[b].idx].released /\ milestones[bounty[b].idx].amount = 0

\* A refund that comes to withdraw the rest, and to cancel bounties, has settled
\* every milestone it found, whoever disputes, releases or refunds them meanwhile;
\* this rests on the provider (~RewriteSettled).
RefundSettles ==
  \A r \in Refunds :
    refund[r].at \in {"observe", "withdraw", "list", "finalize"} =>
      \A k \in 1..Len(refund[r].seen) : Terminal(milestones[k])

Open(k) == ~Terminal(milestones[k])
OpenAmount ==
  SumOver([k \in 1..Len(milestones) |-> IF Open(k) THEN milestones[k].amount ELSE 0],
          1..Len(milestones))
Done == \E r \in Refunds : refund[r].at = "done"
\* A deleted issue's milestone that nobody has settled.
Emptied == \E k \in 1..Len(milestones) : Open(k) /\ milestones[k].amount = 0
AskedAgain == []<><<\E r \in Refunds : BeginRefund(r)>>_vars
\* A refund that is asked for again whenever it failed finishes in the end: the
\* milestones an earlier attempt disputed or resolved, and those the worker takes
\* meanwhile, do not stop a later one.  Two ends are excused: the escrow holds less
\* than its open milestones, and then no refund can pass the first that finds no
\* money; and an open milestone has an amount of zero, which refuses every refund as
\* a whole.  With one wallet the worker and the refund may undo each other's address
\* for ever (see the README).
RefundFinishes == dual /\ AskedAgain => <>(Done \/ OpenAmount > balance \/ Emptied)

\* After a refund the pool promises nothing the escrow does not hold:
\* docs/PROJECT_GUIDE.md has "concurrency-safe reservations/refunds".
PoolBacked == Done => pool <= balance
==============================================================================
