----------------------------- MODULE RefundProofs -----------------------------
(***************************************************************************)
(* A refund settles every milestone it found, and with a resolver of its   *)
(* own a bounty that was not split is only recorded as paid if its         *)
(* contributor was, for any bounties, amounts, funds, requests and numbers *)
(* of mishaps, if the provider keeps what is settled as it is.  The last   *)
(* section has the types in full: nothing is spent below zero.             *)
(***************************************************************************)
EXTENDS Refund, FiniteSetTheorems, TLAPS

------------------------------------------------------------------------------
(* Types, as far as the two properties need them.                          *)

Row == [status : Statuses, idx : Nat, reward : Nat \ {0}]
Job == [at : JobStages, b : Bounties \cup {Somebody}, status : Statuses, idx : Nat,
        reward : Nat, amount : Nat, doc : Seq(Milestone)]
Request == [at : RejectStages, b : Bounties \cup {Somebody}, idx : Nat, reward : Nat,
            balance : Nat, doc : Seq(Milestone)]
Walk == [at : RefundStages, seen : Seq(Milestone), k : Nat \ {0}, remaining : Int,
         amount : Int, list : SUBSET Bounties]

\* The job is at work on a milestone the contract has.
JobShape(j) ==
  /\ j.at # "idle" => j.b \in Bounties
  /\ j.at \in {"save", "approve", "release", "dispute", "resolve"} => j.idx \in 1..Len(milestones)
\* A row's milestone is one the contract has.
Rows ==
  /\ bounty \in [Bounties -> Row]
  /\ \A b \in Bounties : bounty[b].idx <= Len(milestones)

\* A refund has the milestones it has seen and is past, or has gone by, settled.
SettledStages == {"observe", "withdraw", "list", "finalize"}
WalkShape(p) ==
  /\ Len(p.seen) <= Len(milestones)
  /\ ~RewriteSettled => \A j \in 1..Len(p.seen) :
       Terminal(p.seen[j]) \/ j < p.k \/ p.at \in SettledStages => Terminal(milestones[j])
  /\ p.at \in {"dispute", "resolve", "approve", "release"} => p.k \in 1..Len(p.seen)
  /\ p.at \in {"put", "approve", "release"} => ~dual

Typed ==
  /\ dual \in BOOLEAN /\ balance \in Int
  /\ milestones \in Seq(Milestone)
  /\ Rows
  /\ pool \in Nat /\ reject \in Request
  /\ job \in Job /\ JobShape(job)
  /\ refund \in [Refunds -> Walk] /\ \A r \in Refunds : WalkShape(refund[r])
  /\ received \in [Bounties -> Nat]

\* The least of some numbers.
LEMMA Least ==
  ASSUME NEW S \in SUBSET Nat, S # {}
  PROVE  \E k \in S : \A j \in S : k <= j
<1> DEFINE R == StrictSubsetOrdering(Nat)
           T == {0..k : k \in S}
<1>1. IsWellFoundedOn(R, FiniteSubsetsOf(Nat))
  BY FS_StrictSubsetOrderingWellFounded
<1>2. T \subseteq FiniteSubsetsOf(Nat)
  <2>1. \A k \in Nat : IsFiniteSet(0..k) /\ 0..k \subseteq Nat
    BY FS_Interval
  <2> QED BY <2>1 DEF FiniteSubsetsOf
<1>3. T # {}
  OBVIOUS
<1> HIDE DEF R, T
<1>4. PICK t \in T : \A u \in T : ~(<<u, t>> \in R)
  BY <1>1, <1>2, <1>3, WFMin
<1>5. PICK k \in S : t = 0..k
  BY <1>4 DEF T
<1>6. ASSUME NEW j \in S, j < k PROVE FALSE
  <2>1. 0..j \in T
    BY DEF T
  <2>2. 0..j \subseteq 0..k /\ 0..j # 0..k /\ 0..j \subseteq Nat /\ 0..k \subseteq Nat
    <3>1. k \in 0..k /\ k \notin 0..j
      BY <1>6
    <3>2. 0..j \subseteq 0..k
      BY <1>6
    <3> QED BY <3>1, <3>2
  <2>3. <<0..j, t>> \in R
    BY <1>5, <2>2 DEF R, StrictSubsetOrdering
  <2> QED BY <1>4, <2>1, <2>3
<1> QED BY <1>6

\* How the contract may change: one milestone that is not settled gets a flag ...
Flags(k) ==
  \E m \in Milestone :
    /\ k \in 1..Len(milestones) /\ ~Terminal(milestones[k])
    /\ m.owner = milestones[k].owner /\ m.to = milestones[k].to
    /\ m.amount = milestones[k].amount
    /\ milestones' = [milestones EXCEPT ![k] = m]
\* ... or the list is replaced.
Replaces(doc) == doc \in Seq(Milestone) /\ CanUpdate(doc) /\ milestones' = doc

Grows ==
  /\ milestones' \in Seq(Milestone)
  /\ Len(milestones) <= Len(milestones')
  /\ ~RewriteSettled =>
       \A k \in 1..Len(milestones) : Terminal(milestones[k]) => Terminal(milestones'[k])

\* Either way the list grows and what is settled stays settled.
LEMMA ChainGrows ==
  ASSUME milestones \in Seq(Milestone),
         \/ UNCHANGED milestones
         \/ \E k \in 1..Len(milestones) : Flags(k)
         \/ \E doc \in Seq(Milestone) : Replaces(doc)
  PROVE  Grows
<1>1. CASE UNCHANGED milestones
  BY <1>1 DEF Grows
<1>2. ASSUME NEW k \in 1..Len(milestones), Flags(k) PROVE Grows
  BY <1>2 DEF Flags, Grows
<1>3. ASSUME NEW doc \in Seq(Milestone), Replaces(doc) PROVE Grows
  BY <1>3 DEF Replaces, CanUpdate, Grows
<1> QED BY <1>1, <1>2, <1>3

\* The calls of the contract on one milestone.
LEMMA CallFlags ==
  ASSUME milestones \in Seq(Milestone), NEW k \in 1..Len(milestones)
  PROVE  /\ CanDispute(k) /\ Dispute(k) => Flags(k)
         /\ \A n : CanResolve(k, n) /\ Resolve(k, n) => Flags(k)
         /\ \A n, part : CanResolve(k, n) /\ PaySplit(k, part, n) => Flags(k)
         /\ CanApprove(k) /\ Approve(k) => Flags(k)
         /\ CanRelease(k) /\ Release(k) => Flags(k)
<1> DEFINE m == milestones[k]
<1>0. m \in Milestone
  OBVIOUS
<1>1. /\ [m EXCEPT !.disputed = TRUE] \in Milestone
      /\ [m EXCEPT !.resolved = TRUE] \in Milestone
      /\ [m EXCEPT !.approved = TRUE] \in Milestone
      /\ [m EXCEPT !.released = TRUE] \in Milestone
  BY <1>0 DEF Milestone
<1>2. /\ [milestones EXCEPT ![k].disputed = TRUE] = [milestones EXCEPT ![k] = [m EXCEPT !.disputed = TRUE]]
      /\ [milestones EXCEPT ![k].resolved = TRUE] = [milestones EXCEPT ![k] = [m EXCEPT !.resolved = TRUE]]
      /\ [milestones EXCEPT ![k].approved = TRUE] = [milestones EXCEPT ![k] = [m EXCEPT !.approved = TRUE]]
      /\ [milestones EXCEPT ![k].released = TRUE] = [milestones EXCEPT ![k] = [m EXCEPT !.released = TRUE]]
  OBVIOUS
<1>3. ASSUME NEW g \in Milestone, g.owner = m.owner, g.to = m.to, g.amount = m.amount, ~Terminal(m),
             milestones' = [milestones EXCEPT ![k] = g]
      PROVE  Flags(k)
  BY <1>3 DEF Flags
<1>4. \A g \in {[m EXCEPT !.disputed = TRUE], [m EXCEPT !.resolved = TRUE],
                [m EXCEPT !.approved = TRUE], [m EXCEPT !.released = TRUE]} :
        g.owner = m.owner /\ g.to = m.to /\ g.amount = m.amount
  BY <1>0 DEF Milestone
<1> QED BY <1>1, <1>2, <1>3, <1>4
    DEF CanDispute, Dispute, CanResolve, Resolve, PaySplit, CanApprove, Approve, CanRelease, Release

LEMMA AmountTyped == \A b \in Bounties : AmountOf[b] \in Nat
BY RefundAssumption

\* The resting frames are typed.
LEMMA RestTyped ==
  /\ NoJob \in Job /\ NoJob.at = "idle"
  /\ NoRefund \in Walk
  /\ NoRefund.at = "idle" /\ NoRefund.seen = <<>> /\ NoRefund.k = 1
  /\ NoReject \in Request /\ NoReject.at = "idle"
  /\ [NoReject EXCEPT !.at = "over"] \in Request
<1>1. <<>> \in Seq(Milestone)
  OBVIOUS
<1>2. NoJob \in Job /\ NoJob.at = "idle"
  BY <1>1 DEF NoJob, Job, JobStages, Statuses
<1>3. NoRefund \in Walk
  BY <1>1 DEF NoRefund, Walk, RefundStages
<1>4. /\ NoReject \in Request /\ NoReject.at = "idle"
      /\ [NoReject EXCEPT !.at = "over"] \in Request
  BY <1>1 DEF NoReject, Request, RejectStages
<1> QED BY <1>2, <1>3, <1>4 DEF NoRefund

\* A milestone as it is pushed.
LEMMA FreshTyped ==
  ASSUME NEW b \in Bounties, NEW to \in {"contributor", "maintainer"}, NEW n \in Nat
  PROVE  /\ Fresh(b, to, n) \in Milestone /\ Fresh(b, to, n).owner = b /\ Fresh(b, to, n).to = to
         /\ Fresh(b, to, n).amount = n /\ ~Terminal(Fresh(b, to, n))
BY DEF Fresh, Milestone, Terminal

\* Initially there is no milestone.
LEMMA InitTyped == Init => Typed
<1> SUFFICES ASSUME Init PROVE Typed
  OBVIOUS
<1>1. Rows /\ pool \in Nat /\ reject \in Request
  <2>1. PICK S \in SUBSET Bounties :
          bounty = [b \in Bounties |-> [status |-> IF b \in S THEN "assigned" ELSE "cancelled",
                                        idx |-> 0, reward |-> AmountOf[b]]]
    BY DEF Init
  <2>2. \A b \in Bounties : AmountOf[b] \in Nat \ {0}
    BY RefundAssumption
  <2>3. bounty \in [Bounties -> Row] /\ \A b \in Bounties : bounty[b].idx = 0
    BY <2>1, <2>2 DEF Row, Statuses
  <2>4. Len(milestones) = 0
    BY DEF Init
  <2> QED BY <2>3, <2>4, RestTyped DEF Init, Rows
<1>2. dual \in BOOLEAN /\ balance \in Int /\ milestones \in Seq(Milestone)
  BY RefundAssumption DEF Init
<1>3. job \in Job /\ JobShape(job)
  BY RestTyped DEF Init, JobShape
<1>4. received \in [Bounties -> Nat]
  BY DEF Init
<1>5. refund \in [Refunds -> Walk]
  BY RestTyped DEF Init
<1>6. ASSUME NEW r \in Refunds PROVE WalkShape(refund[r])
  <2>1. refund[r] = NoRefund /\ milestones = <<>>
    BY DEF Init
  <2> QED BY <2>1, RestTyped DEF WalkShape, SettledStages
<1> QED BY <1>1, <1>2, <1>3, <1>4, <1>5, <1>6 DEF Typed

\* What a refund relies on is not taken from it by others ...
LEMMA WalkStays ==
  ASSUME Typed, Grows, UNCHANGED dual, NEW p \in Walk, WalkShape(p)
  PROVE  WalkShape(p)'
<1>1. Len(milestones) \in Nat /\ Len(milestones') \in Nat /\ Len(p.seen) \in Nat
  BY DEF Typed, Grows, Walk
<1> QED BY <1>1 DEF Grows, WalkShape, Terminal

\* ... nor is what the job relies on.
LEMMA JobStays ==
  ASSUME Typed, Grows, NEW j \in Job, JobShape(j)
  PROVE  JobShape(j)'
<1>1. Len(milestones) \in Nat /\ Len(milestones') \in Nat /\ j.idx \in Nat
  BY DEF Typed, Grows, Job
<1> QED BY <1>1 DEF Grows, JobShape

\* A row that keeps its milestone has one still.
LEMMA RowsStay ==
  ASSUME Typed, Grows, bounty' \in [Bounties -> Row],
         \A b \in Bounties : bounty'[b].idx = bounty[b].idx \/ bounty'[b].idx <= Len(milestones)
  PROVE  Rows'
<1>1. Len(milestones) \in Nat /\ Len(milestones') \in Nat /\ Len(milestones) <= Len(milestones')
  BY DEF Typed, Grows
<1>2. \A b \in Bounties : bounty'[b].idx \in Nat /\ bounty'[b].idx <= Len(milestones)
  BY DEF Typed, Rows, Row
<1> QED BY <1>1, <1>2 DEF Rows

LEMMA RowsSame == Typed /\ Grows /\ UNCHANGED bounty => Rows'
BY RowsStay DEF Typed, Rows

\* A step of one refund.
LEMMA RefundMoves ==
  ASSUME Typed, NEW r \in Refunds, NEW p \in Walk, refund' = [refund EXCEPT ![r] = p],
         Grows, UNCHANGED <<dual, job, reject>>, WalkShape(p)',
         Rows', pool' \in Nat, balance' \in Int, received' \in [Bounties -> Nat]
  PROVE  Typed'
<1>1. refund' \in [Refunds -> Walk]
  BY DEF Typed
<1>2. ASSUME NEW q \in Refunds PROVE WalkShape(refund[q])'
  <2>1. CASE q = r
    BY <2>1 DEF Typed, WalkShape, SettledStages, Terminal
  <2>2. CASE q # r
    <3>1. refund'[q] = refund[q] /\ refund[q] \in Walk /\ WalkShape(refund[q])
      BY <2>2 DEF Typed
    <3>2. PICK g \in Walk : g = refund[q]
      BY <3>1
    <3>3. WalkShape(g)'
      BY <3>1, <3>2, WalkStays
    <3> QED BY <3>1, <3>2, <3>3 DEF WalkShape, SettledStages, Terminal
  <2> QED BY <2>1, <2>2
<1>3. JobShape(job)'
  <2>1. PICK j \in Job : j = job
    BY DEF Typed
  <2>2. JobShape(j)'
    BY <2>1, JobStays DEF Typed
  <2> QED BY <2>1, <2>2 DEF JobShape
<1> QED BY <1>1, <1>2, <1>3 DEF Typed, Grows

\* A step of everybody else.
LEMMA OthersMove ==
  ASSUME Typed, Grows, UNCHANGED <<dual, refund>>, NEW j \in Job, job' = j, JobShape(j)',
         Rows', pool' \in Nat, reject' \in Request, balance' \in Int, received' \in [Bounties -> Nat]
  PROVE  Typed'
<1>1. ASSUME NEW q \in Refunds PROVE WalkShape(refund[q])'
  <2>1. PICK g \in Walk : g = refund[q]
    BY DEF Typed
  <2>2. WalkShape(g)'
    BY <2>1, WalkStays DEF Typed
  <2> QED BY <2>1, <2>2 DEF WalkShape, SettledStages, Terminal
<1>2. JobShape(job)'
  BY DEF JobShape
<1> QED BY <1>1, <1>2 DEF Typed, Grows

\* The contract keeps its types.
LEMMA CallTyped ==
  ASSUME Typed, NEW k \in 1..Len(milestones)
  PROVE  /\ Dispute(k) \/ Approve(k) \/ Release(k)
              => balance' \in Int /\ received' \in [Bounties -> Nat]
         /\ \A n \in Int : Resolve(k, n) => balance' \in Int /\ received' \in [Bounties -> Nat]
         /\ \A n \in Int, part \in Nat :
              PaySplit(k, part, n) => balance' \in Int /\ received' \in [Bounties -> Nat]
<1>1. milestones[k].owner \in Bounties /\ milestones[k].amount \in Nat
  <2>1. milestones[k] \in Milestone
    BY DEF Typed
  <2> QED BY <2>1 DEF Milestone
<1> QED BY <1>1 DEF Typed, Dispute, Approve, Release, Resolve, PaySplit

\* The bounty worker.
LEMMA WorkTyped ==
  ASSUME Typed, (\E b \in Bounties : TakeJob(b)) \/ Work
  PROVE  Typed'
<1>0. /\ job \in Job /\ JobShape(job) /\ job.idx \in Nat /\ job.doc \in Seq(Milestone)
      /\ job.reward \in Nat /\ job.amount \in Nat
      /\ milestones \in Seq(Milestone) /\ bounty \in [Bounties -> Row]
      /\ pool \in Nat /\ reject \in Request
  BY DEF Typed, Rows, Job
<1>1. UNCHANGED <<dual, refund, reject, pool>>
  BY DEF TakeJob, Work, Evaluate, FetchEscrow, PutMilestone, SaveMilestone, ApproveMilestone,
         ReleaseFunds, DisputeForSplit, ResolveForSplit, MarkPaid, JobOnly
<1>2. ASSUME UNCHANGED <<chain, bounty>>, NEW j \in Job, job' = j, JobShape(j)
      PROVE  Typed'
  <2>1. Grows
    BY <1>0, <1>2, ChainGrows DEF chain
  <2> QED BY <1>0, <1>1, <1>2, <2>1, JobStays, RowsSame, OthersMove DEF chain, Typed
<1>3. JobShape(NoJob)
  BY RestTyped DEF JobShape
<1>4. ASSUME NEW b \in Bounties, TakeJob(b) PROVE Typed'
  <2> DEFINE j == [NoJob EXCEPT !.at = "chain", !.b = b, !.status = bounty[b].status,
                                !.idx = bounty[b].idx, !.reward = bounty[b].reward]
  <2>1. j \in Job /\ j.at = "chain" /\ j.b = b
    BY <1>0, RestTyped DEF Job, JobStages, Row, NoJob
  <2>2. job' = j /\ UNCHANGED <<chain, bounty>>
    BY <1>4 DEF TakeJob
  <2> HIDE DEF j
  <2> QED BY <1>2, <2>1, <2>2 DEF JobShape
<1>5. CASE Evaluate
  <2> DEFINE n == IF Decision = "dispute" THEN milestones[job.idx].amount ELSE 0
             j == [NoJob EXCEPT !.at = Decision, !.b = job.b, !.idx = job.idx,
                                !.reward = job.reward, !.amount = n]
  <2>1. Decision \in {"idle", "fetch", "record", "approve", "dispute"}
    BY DEF Decision
  <2>2. Decision \in {"approve", "dispute"} => job.idx \in 1..Len(milestones)
    BY <1>0 DEF Decision
  <2>3. job.b \in Bounties
    BY <1>0, <1>5 DEF Evaluate, JobShape
  <2>4. n \in Nat
    <3>1. job.idx \in 1..Len(milestones) => milestones[job.idx] \in Milestone
      BY <1>0
    <3> QED BY <2>2, <3>1 DEF Milestone
  <2>5. (job' = NoJob \/ job' = j) /\ UNCHANGED <<chain, bounty>>
    BY <1>5 DEF Evaluate
  <2> HIDE DEF n
  <2>6. j \in Job /\ j.at = Decision /\ j.b = job.b /\ j.idx = job.idx
    BY <1>0, <2>1, <2>3, <2>4, RestTyped DEF Job, JobStages, NoJob
  <2> HIDE DEF j
  <2>7. JobShape(j)
    BY <2>1, <2>2, <2>3, <2>6 DEF JobShape
  <2> QED BY <1>2, <1>3, <2>5, <2>6, <2>7, RestTyped
<1>6. CASE FetchEscrow
  <2> DEFINE j == [job EXCEPT !.at = "put", !.doc = milestones]
  <2>1. j \in Job /\ j.at = "put" /\ j.b = job.b
    BY <1>0 DEF Job, JobStages
  <2>2. job' = j /\ UNCHANGED <<chain, bounty>> /\ job.b \in Bounties
    BY <1>0, <1>6 DEF FetchEscrow, JobShape
  <2> HIDE DEF j
  <2> QED BY <1>2, <2>1, <2>2 DEF JobShape
<1>7. CASE PutMilestone
  <2> DEFINE m == Fresh(job.b, "contributor", job.reward)
             fits == Fits(job.idx, job.doc)
             doc == IF fits THEN [job.doc EXCEPT ![job.idx] = m] ELSE Append(job.doc, m)
             n == IF fits THEN job.idx ELSE Len(doc)
             j == [job EXCEPT !.at = "save", !.idx = n, !.doc = <<>>]
  <2>1. job.b \in Bounties
    BY <1>0, <1>7 DEF PutMilestone, JobShape
  <2>2. m \in Milestone
    BY <1>0, <2>1, FreshTyped
  <2> HIDE DEF m
  <2>3. doc \in Seq(Milestone)
    BY <1>0, <2>2 DEF Fits
  <2>4. CASE CanUpdate(doc) /\ UpdateEscrow(doc) /\ job' = j
    <3>1. Replaces(doc) /\ UNCHANGED <<balance, received>>
      BY <2>3, <2>4 DEF UpdateEscrow, Replaces
    <3>2. n \in 1..Len(doc) /\ n \in Nat
      BY <1>0, <2>2, <2>3 DEF Fits
    <3>3. milestones' = doc
      BY <3>1 DEF Replaces
    <3> HIDE DEF doc, n
    <3>4. j \in Job /\ j.at = "save" /\ j.b = job.b /\ j.idx = n
      <4>1. <<>> \in Seq(Milestone)
        OBVIOUS
      <4> QED BY <1>0, <3>2, <4>1 DEF Job, JobStages
    <3>5. Grows
      BY <1>0, <2>3, <3>1, ChainGrows
    <3> HIDE DEF j
    <3>6. PICK g \in Job : g = j
      BY <3>4
    <3>7. JobShape(g)'
      BY <2>1, <3>2, <3>3, <3>4, <3>6 DEF JobShape
    <3>8. Rows'
      <4>1. UNCHANGED bounty
        BY <1>7 DEF PutMilestone
      <4> QED BY <3>5, <4>1, RowsSame
    <3>9. balance' \in Int /\ received' \in [Bounties -> Nat]
      BY <3>1 DEF Typed
    <3> QED BY <1>0, <1>1, <2>4, <3>5, <3>6, <3>7, <3>8, <3>9, OthersMove
  <2>5. CASE JobOver /\ UNCHANGED chain
    BY <1>2, <1>3, <1>7, <2>5, RestTyped DEF PutMilestone, JobOver
  <2> QED BY <1>7, <2>4, <2>5 DEF PutMilestone, m
<1>8. CASE SaveMilestone \/ MarkPaid
  <2>0. UNCHANGED chain /\ job' = NoJob
    BY <1>8 DEF SaveMilestone, MarkPaid, JobOver
  <2>1. Grows
    BY <1>0, <2>0, ChainGrows DEF chain
  <2>2. job.b \in Bounties /\ bounty[job.b] \in Row
    BY <1>0, <1>8 DEF SaveMilestone, MarkPaid, JobShape
  <2>3. /\ [bounty[job.b] EXCEPT !.status = "assigned", !.idx = job.idx] \in Row
        /\ [bounty[job.b] EXCEPT !.status = "assigned", !.idx = job.idx].idx = job.idx
        /\ [bounty[job.b] EXCEPT !.status = "paid"] \in Row
        /\ [bounty[job.b] EXCEPT !.status = "paid"].idx = bounty[job.b].idx
    BY <1>0, <2>2 DEF Row, Statuses
  <2>4. \/ /\ bounty' = [bounty EXCEPT ![job.b] =
                           [bounty[job.b] EXCEPT !.status = "assigned", !.idx = job.idx]]
           /\ job.idx \in 1..Len(milestones)
        \/ bounty' = [bounty EXCEPT ![job.b] = [bounty[job.b] EXCEPT !.status = "paid"]]
    BY <1>0, <1>8 DEF SaveMilestone, MarkPaid, JobShape
  <2>5. /\ bounty' \in [Bounties -> Row]
        /\ \A b \in Bounties : bounty'[b].idx = bounty[b].idx \/ bounty'[b].idx <= Len(milestones)
    <3>1. ASSUME NEW g \in Row, bounty' = [bounty EXCEPT ![job.b] = g],
                 g.idx = bounty[job.b].idx \/ g.idx <= Len(milestones)
          PROVE  /\ bounty' \in [Bounties -> Row]
                 /\ \A b \in Bounties :
                      bounty'[b].idx = bounty[b].idx \/ bounty'[b].idx <= Len(milestones)
      BY <1>0, <2>2, <3>1
    <3> DEFINE a == [bounty[job.b] EXCEPT !.status = "assigned", !.idx = job.idx]
               d == [bounty[job.b] EXCEPT !.status = "paid"]
    <3>2. /\ a \in Row /\ a.idx = job.idx /\ d \in Row /\ d.idx = bounty[job.b].idx
          /\ \/ bounty' = [bounty EXCEPT ![job.b] = a] /\ job.idx \in 1..Len(milestones)
             \/ bounty' = [bounty EXCEPT ![job.b] = d]
      BY <2>3, <2>4
    <3> HIDE DEF a, d
    <3>3. job.idx \in 1..Len(milestones) => job.idx <= Len(milestones)
      BY <1>0
    <3> QED BY <3>1, <3>2, <3>3
  <2>6. Rows'
    BY <2>1, <2>5, RowsStay
  <2> QED BY <1>0, <1>1, <1>3, <2>0, <2>1, <2>6, RestTyped, JobStays, OthersMove DEF chain, Typed
<1>9. CASE ApproveMilestone \/ ReleaseFunds \/ DisputeForSplit \/ ResolveForSplit
  <2>1. job.idx \in 1..Len(milestones) /\ job.b \in Bounties
    BY <1>0, <1>9 DEF ApproveMilestone, ReleaseFunds, DisputeForSplit, ResolveForSplit, JobShape
  <2> DEFINE g == [NoJob EXCEPT !.at = "record", !.b = job.b]
             h == [job EXCEPT !.at = "release"]
             i == [job EXCEPT !.at = "resolve"]
  <2>2. /\ g \in Job /\ g.at = "record" /\ g.b = job.b
        /\ h \in Job /\ h.at = "release" /\ h.b = job.b /\ h.idx = job.idx
        /\ i \in Job /\ i.at = "resolve" /\ i.b = job.b /\ i.idx = job.idx
    BY <1>0, <2>1, RestTyped DEF Job, JobStages, NoJob
  <2>3. \E j \in {g, h, i, NoJob} : job' = j
    BY <1>9 DEF ApproveMilestone, ReleaseFunds, DisputeForSplit, ResolveForSplit, Released,
                JobGoto, JobOver
  <2> HIDE DEF g, h, i
  <2>4. JobShape(g) /\ JobShape(h) /\ JobShape(i)
    BY <2>1, <2>2 DEF JobShape
  <2>5. UNCHANGED bounty
    BY <1>9 DEF ApproveMilestone, ReleaseFunds, DisputeForSplit, ResolveForSplit
  <2>6. \/ UNCHANGED chain
        \/ CanApprove(job.idx) /\ Approve(job.idx)
        \/ CanRelease(job.idx) /\ Release(job.idx)
        \/ CanDispute(job.idx) /\ Dispute(job.idx)
        \/ CanResolve(job.idx, job.amount) /\ PaySplit(job.idx, job.reward, job.amount)
    BY <1>9 DEF ApproveMilestone, ReleaseFunds, DisputeForSplit, ResolveForSplit
  <2>7. Grows /\ balance' \in Int /\ received' \in [Bounties -> Nat]
    <3>1. UNCHANGED milestones \/ Flags(job.idx)
      BY <1>0, <2>1, <2>6, CallFlags DEF chain
    <3>2. Grows
      BY <1>0, <2>1, <3>1, ChainGrows
    <3>3. UNCHANGED chain => balance' \in Int /\ received' \in [Bounties -> Nat]
      BY DEF chain, Typed
    <3>4. PaySplit(job.idx, job.reward, job.amount)
            => balance' \in Int /\ received' \in [Bounties -> Nat]
      <4>1. job.amount \in Int
        BY <1>0
      <4> QED BY <1>0, <2>1, <4>1, CallTyped, Zenon
    <3> QED BY <2>1, <2>6, <3>2, <3>3, <3>4, CallTyped
  <2> QED BY <1>0, <1>1, <1>3, <2>2, <2>3, <2>4, <2>5, <2>7, RestTyped, JobStays, RowsSame,
             OthersMove DEF Typed
<1> QED BY <1>4, <1>5, <1>6, <1>7, <1>8, <1>9 DEF Work

\* A refund that goes on is typed, and has seen what it had seen.
Goes(q, p, s, k) == q \in Walk /\ q.at = s /\ q.k = k /\ q.seen = p.seen
LEMMA WalkGoes ==
  ASSUME NEW p \in Walk, NEW s \in RefundStages
  PROVE  /\ Goes([p EXCEPT !.at = s], p, s, p.k)
         /\ \A k \in Nat \ {0} : Goes([p EXCEPT !.at = s, !.k = k], p, s, k)
         /\ \A k \in Nat \ {0}, m \in Int, a \in Int :
              Goes([p EXCEPT !.at = s, !.k = k, !.remaining = m, !.amount = a], p, s, k)
         /\ \A m \in Int, a \in Int :
              Goes([p EXCEPT !.at = s, !.remaining = m, !.amount = a], p, s, p.k)
         /\ \A a \in Int : Goes([p EXCEPT !.at = s, !.amount = a], p, s, p.k)
         /\ \A l \in SUBSET Bounties : Goes([p EXCEPT !.at = s, !.list = l], p, s, p.k)
BY DEF Goes, Walk

\* A step of a refund goes by what it has seen and passed.
LEMMA RefundTyped ==
  ASSUME Typed, NEW r \in Refunds, BeginRefund(r) \/ StepRefund(r) \/ RefundFails(r)
  PROVE  Typed'
<1> DEFINE p == refund[r]
           n == Len(milestones)
<1>0. /\ p = refund[r] /\ p \in Walk /\ WalkShape(p)
      /\ p.seen \in Seq(Milestone) /\ p.k \in Nat \ {0} /\ p.remaining \in Int /\ p.amount \in Int
      /\ p.list \in SUBSET Bounties /\ Len(p.seen) \in Nat /\ n \in Nat
      /\ milestones \in Seq(Milestone) /\ balance \in Int /\ dual \in BOOLEAN
      /\ refund \in [Refunds -> Walk] /\ pool \in Nat
  BY DEF Typed, Walk
<1> HIDE DEF p
<1>1. UNCHANGED <<dual, job, reject>> /\ pool' \in Nat
  <2>1. UNCHANGED <<dual, job, reject>> /\ (UNCHANGED pool \/ pool' = 0)
    BY DEF BeginRefund, StepRefund, RefundFails, CheckMilestones, NextMilestone, DisputeMilestone,
           ResolveDispute, ReplaceMilestones, ApproveRefund, ReleaseRefund, ObserveBalance,
           WithdrawRest, ListToCancel, FinalizeRefund, Quiet, RefundOnly, rows
  <2> QED BY <1>0, <2>1
\* It only looks, or it is refused.
<1>2. ASSUME NEW q \in Walk, refund' = [refund EXCEPT ![r] = q], WalkShape(q),
             UNCHANGED <<milestones, bounty>>,
             balance' \in Int, received' \in [Bounties -> Nat]
      PROVE  Typed'
  <2>1. Grows
    BY <1>0, <1>2, ChainGrows
  <2> QED BY <1>1, <1>2, <2>1, RowsSame, WalkStays, RefundMoves
<1>3. WalkShape(NoRefund)
  BY <1>0, RestTyped DEF WalkShape, SettledStages
<1>4. ASSUME Refused(r), UNCHANGED bounty PROVE Typed'
  BY <1>2, <1>3, <1>4, RestTyped DEF Refused, chain, Typed
\* It makes one call on a milestone it has seen.
<1>5. ASSUME NEW q \in Walk, refund' = [refund EXCEPT ![r] = q], UNCHANGED bounty, p.k \in 1..n,
             \/ CanDispute(p.k) /\ Dispute(p.k)
             \/ CanResolve(p.k, p.amount) /\ Resolve(p.k, p.amount)
             \/ CanApprove(p.k) /\ Approve(p.k)
             \/ CanRelease(p.k) /\ Release(p.k),
             \/ WalkShape(q)
             \/ /\ q.seen = p.seen /\ q.k = p.k + 1 /\ q.at = "next" /\ p.at \notin SettledStages
                /\ Terminal(milestones'[p.k])
      PROVE  Typed'
  <2>1. Flags(p.k)
    BY <1>0, <1>5, CallFlags
  <2>2. Grows
    BY <1>0, <1>5, <2>1, ChainGrows
  <2>3. balance' \in Int /\ received' \in [Bounties -> Nat]
    BY <1>0, <1>5, CallTyped
  <2>4. WalkShape(q)'
    <3>1. CASE WalkShape(q)
      BY <1>1, <1>5, <2>2, <3>1, WalkStays
    <3>2. CASE ~WalkShape(q)
      <4>1. WalkShape(p)
        BY <1>0
      <4>2. ~RewriteSettled => \A j \in 1..Len(p.seen) :
               Terminal(p.seen[j]) \/ j < p.k => Terminal(milestones[j])
        BY <4>1 DEF WalkShape
      <4>3. Len(p.seen) <= Len(milestones')
        BY <1>0, <2>2, <4>1 DEF Grows, WalkShape
      <4>4. ~RewriteSettled => \A j \in 1..Len(p.seen) :
               Terminal(p.seen[j]) \/ j < p.k + 1 => Terminal(milestones'[j])
        <5>1. \A j \in 1..Len(p.seen) : j \in 1..n
          BY <1>0, <4>1 DEF WalkShape
        <5>2. \A j \in 1..Len(p.seen) : j < p.k + 1 => j < p.k \/ j = p.k
          BY <1>0
        <5> QED BY <1>5, <2>2, <3>2, <4>2, <5>1, <5>2 DEF Grows
      <4>5. q.seen = p.seen /\ q.k = p.k + 1 /\ q.at = "next"
        BY <1>5, <3>2
      <4> QED BY <4>3, <4>4, <4>5 DEF WalkShape, SettledStages, Terminal
    <3> QED BY <3>1, <3>2
  <2> QED BY <1>1, <1>5, <2>2, <2>3, <2>4, RowsSame, RefundMoves
<1>6. CASE BeginRefund(r)
  <2> DEFINE m == IF dual THEN balance ELSE 0
             q == [NoRefund EXCEPT !.at = "check", !.seen = milestones, !.remaining = m]
  <2>1. m \in Int
    BY <1>0
  <2>2. refund' = [refund EXCEPT ![r] = q] /\ UNCHANGED <<chain, bounty>>
    BY <1>6 DEF BeginRefund, Quiet, rows
  <2> HIDE DEF m
  <2>3. q \in Walk /\ q.seen = milestones /\ q.k = 1 /\ q.at = "check"
    BY <1>0, <2>1, RestTyped DEF Walk, RefundStages, NoRefund
  <2> HIDE DEF q
  <2>4. WalkShape(q)
    BY <1>0, <2>3 DEF WalkShape, SettledStages
  <2> QED BY <1>0, <1>2, <2>2, <2>3, <2>4 DEF chain, Typed
<1>c. CASE CheckMilestones(r)
  <2> DEFINE s == IF dual THEN "next" ELSE "put"
             q == [p EXCEPT !.at = s]
  <2>1. p.at = "check" /\ UNCHANGED <<chain, bounty>>
        /\ (Refused(r) \/ refund' = [refund EXCEPT ![r] = q])
    BY <1>0, <1>c DEF CheckMilestones, RefundGoto, Refused, Quiet, rows
  <2>2. s \in RefundStages /\ s \in {"next", "put"} /\ (s = "put" => ~dual)
    BY DEF RefundStages
  <2> HIDE DEF s
  <2>3. q \in Walk /\ q.seen = p.seen /\ q.k = p.k /\ q.at = s
    <3>1. Goes(q, p, s, p.k)
      BY <1>0, <2>2, WalkGoes, Zenon
    <3> QED BY <3>1 DEF Goes
  <2> HIDE DEF q
  <2>4. WalkShape(q)
    BY <1>0, <2>1, <2>2, <2>3 DEF WalkShape, SettledStages
  <2> QED BY <1>0, <1>2, <1>4, <2>1, <2>3, <2>4 DEF chain, Typed
<1>7. CASE NextMilestone(r)
  <2> DEFINE left == {k \in p.k..Len(p.seen) : ~Passed(p.seen[k])}
             k == CHOOSE k \in left : \A j \in left : k <= j
             amount == p.seen[k].amount
             remaining == IF balance < p.remaining THEN balance ELSE p.remaining
  <2>0. p.at = "next" /\ UNCHANGED <<chain, bounty>>
    BY <1>0, <1>7 DEF NextMilestone, Quiet, rows
  <2>1. CASE left = {} /\ refund' = [refund EXCEPT ![r] = [p EXCEPT !.at = "observe", !.k = 1]]
    <3> DEFINE q == [p EXCEPT !.at = "observe", !.k = 1]
    <3>1. q \in Walk /\ q.seen = p.seen /\ q.k = 1 /\ q.at = "observe"
      <4>s. "observe" \in RefundStages /\ 1 \in Nat \ {0}
        BY <1>0 DEF RefundStages
      <4>q. Goes(q, p, "observe", 1)
        BY <1>0, <4>s, WalkGoes, Zenon
      <4> QED BY <4>q DEF Goes
    <3>2. \A j \in 1..Len(p.seen) : Terminal(p.seen[j]) \/ j < p.k
      BY <1>0, <2>1 DEF Passed
    <3>3. WalkShape(q)
      BY <1>0, <3>1, <3>2 DEF WalkShape
    <3> HIDE DEF q
    <3> QED BY <1>0, <1>2, <2>0, <2>1, <3>1, <3>3 DEF chain, Typed, q
  <2>2. CASE left # {} /\ refund' = [refund EXCEPT ![r] = NoRefund]
    BY <1>0, <1>2, <1>3, <2>0, <2>2, RestTyped DEF chain, Typed
  <2>3. ASSUME left # {}
        PROVE  /\ k \in p.k..Len(p.seen) /\ amount \in Nat
               /\ \A j \in 1..Len(p.seen) : j < k => Terminal(p.seen[j]) \/ j < p.k
    <3>1. left \in SUBSET Nat
      BY <1>0
    <3>2. \E m \in left : \A j \in left : m <= j
      BY <1>0, <2>3, <3>1, Least
    <3>3. k \in left /\ \A j \in left : k <= j
      BY <3>2
    <3>4. PICK h \in p.k..Len(p.seen) : h = k /\ \A j \in left : h <= j
      BY <3>3
    <3> HIDE DEF k
    <3>5. p.seen[h] \in Milestone
      BY <1>0
    <3>6. \A j \in 1..Len(p.seen) : j < h => Terminal(p.seen[j]) \/ j < p.k
      <4>1. ASSUME NEW j \in 1..Len(p.seen), j < h, ~(j < p.k) PROVE Terminal(p.seen[j])
        <5>1. j \in p.k..Len(p.seen) /\ ~(h <= j)
          BY <1>0, <4>1
        <5>2. j \notin left
          BY <3>4, <5>1
        <5> QED BY <5>1, <5>2 DEF Passed
      <4> QED BY <4>1
    <3>7. p.seen[h].amount \in Nat
      BY <3>5 DEF Milestone
    <3> QED BY <3>4, <3>6, <3>7
  <2>4. CASE /\ left # {}
             /\ refund' = [refund EXCEPT ![r] =
                  [p EXCEPT !.at = FirstStep(p.seen[k]),
                            !.k = k, !.remaining = remaining,
                            !.amount = IF amount < remaining THEN amount ELSE remaining]]
    <3> DEFINE s == FirstStep(p.seen[k])
               a == IF amount < remaining THEN amount ELSE remaining
               q == [p EXCEPT !.at = s, !.k = k, !.remaining = remaining, !.amount = a]
    <3>k. k \in p.k..Len(p.seen) /\ amount \in Nat
      BY <2>3, <2>4
    <3> HIDE DEF k, amount
    <3>1. s \in {"dispute", "resolve"} /\ a \in Int /\ remaining \in Int
      BY <1>0, <3>k DEF FirstStep
    <3>2. k \in Nat \ {0} /\ k \in 1..Len(p.seen)
      BY <1>0, <3>k
    <3> USE DEF k, amount
    <3>3. \A j \in 1..Len(p.seen) : j < k => Terminal(p.seen[j]) \/ j < p.k
      BY <1>0, <2>3, <2>4
    <3>4. refund' = [refund EXCEPT ![r] = q]
      BY <1>0, <2>4
    <3> HIDE DEF s, a, k, remaining, left
    <3>5. q \in Walk /\ q.seen = p.seen /\ q.k = k /\ q.at = s
      <4>s. s \in RefundStages /\ k \in Nat \ {0}
        BY <1>0, <3>1, <3>2 DEF RefundStages
      <4>q. Goes(q, p, s, k)
        BY <1>0, <3>1, <3>2, <4>s, WalkGoes, Zenon
      <4> QED BY <4>q DEF Goes
    <3> HIDE DEF q
    <3>6. WalkShape(q)
      BY <1>0, <3>1, <3>2, <3>3, <3>5 DEF WalkShape, SettledStages
    <3> QED BY <1>0, <1>2, <2>0, <3>4, <3>5, <3>6 DEF chain, Typed
  <2>5. CASE left # {} /\ ~dual /\ refund' = [refund EXCEPT ![r] = [p EXCEPT !.at = "approve", !.k = k]]
    <3> DEFINE q == [p EXCEPT !.at = "approve", !.k = k]
    <3>1. k \in Nat \ {0} /\ k \in 1..Len(p.seen)
      <4>1. k \in p.k..Len(p.seen)
        BY <2>3, <2>5
      <4> HIDE DEF k
      <4> QED BY <1>0, <4>1
    <3>2. \A j \in 1..Len(p.seen) : j < k => Terminal(p.seen[j]) \/ j < p.k
      BY <1>0, <2>3, <2>5
    <3>3. refund' = [refund EXCEPT ![r] = q]
      BY <1>0, <2>5
    <3> HIDE DEF k, left
    <3>4. q \in Walk /\ q.seen = p.seen /\ q.k = k /\ q.at = "approve"
      <4>s. "approve" \in RefundStages /\ k \in Nat \ {0}
        BY <1>0, <3>1 DEF RefundStages
      <4>q. Goes(q, p, "approve", k)
        BY <1>0, <3>1, <4>s, WalkGoes, Zenon
      <4> QED BY <4>q DEF Goes
    <3> HIDE DEF q
    <3>5. WalkShape(q)
      BY <1>0, <2>5, <3>1, <3>2, <3>4 DEF WalkShape, SettledStages
    <3> QED BY <1>0, <1>2, <2>0, <3>3, <3>4, <3>5 DEF chain, Typed
  <2> QED BY <1>7, <2>1, <2>2, <2>4, <2>5 DEF NextMilestone, p
<1>8. CASE DisputeMilestone(r)
  <2> DEFINE q == [p EXCEPT !.at = "resolve"]
  <2>1. p.at = "dispute" /\ UNCHANGED bounty
    BY <1>0, <1>8 DEF DisputeMilestone, Quiet, rows
  <2>2. CASE CanDispute(p.k) /\ Dispute(p.k) /\ RefundGoto(r, "resolve")
    <3>1. q \in Walk /\ q.seen = p.seen /\ q.k = p.k /\ q.at = "resolve"
      <4>s. "resolve" \in RefundStages
        BY <1>0 DEF RefundStages
      <4>q. Goes(q, p, "resolve", p.k)
        BY <1>0, <4>s, WalkGoes, Zenon
      <4> QED BY <4>q DEF Goes
    <3>2. refund' = [refund EXCEPT ![r] = q]
      BY <1>0, <2>2 DEF RefundGoto
    <3> HIDE DEF q
    <3>3. WalkShape(q) /\ p.k \in 1..n
      BY <1>0, <2>1, <3>1 DEF WalkShape, SettledStages
    <3> QED BY <1>0, <1>5, <2>1, <2>2, <3>1, <3>2, <3>3
  <2> QED BY <1>0, <1>4, <1>8, <2>1, <2>2 DEF DisputeMilestone
<1>9. CASE ResolveDispute(r)
  <2> DEFINE q == [p EXCEPT !.at = "next", !.k = p.k + 1, !.remaining = p.remaining - p.amount,
                            !.amount = 0]
  <2>1. p.at = "resolve" /\ UNCHANGED bounty
    BY <1>0, <1>9 DEF ResolveDispute, Quiet, rows
  <2>2. CASE CanResolve(p.k, p.amount) /\ Resolve(p.k, p.amount) /\ refund' = [refund EXCEPT ![r] = q]
    <3>1. q \in Walk /\ q.seen = p.seen /\ q.k = p.k + 1 /\ q.at = "next"
      <4>1. /\ "next" \in RefundStages /\ p.k + 1 \in Nat \ {0}
            /\ p.remaining - p.amount \in Int /\ 0 \in Int
        BY <1>0 DEF RefundStages
      <4>2. Goes(q, p, "next", p.k + 1)
        BY <1>0, <4>1, WalkGoes, Zenon
      <4> QED BY <4>2 DEF Goes
    <3> HIDE DEF q
    <3>2. p.k \in 1..n /\ p.at \notin SettledStages
      BY <1>0, <2>1 DEF WalkShape, SettledStages
    <3>3. Terminal(milestones'[p.k])
      <4>1. milestones[p.k] \in Milestone
        BY <1>0, <3>2
      <4>2. milestones'[p.k] = [milestones[p.k] EXCEPT !.resolved = TRUE]
        <5>1. milestones' = [milestones EXCEPT ![p.k] = [milestones[p.k] EXCEPT !.resolved = TRUE]]
          BY <1>0, <2>2 DEF Resolve
        <5>2. p.k \in DOMAIN milestones
          BY <1>0, <3>2
        <5> QED BY <5>1, <5>2, Zenon
      <4> QED BY <1>0, <4>1, <4>2 DEF Milestone, Terminal
    <3> QED BY <1>0, <1>5, <2>1, <2>2, <3>1, <3>2, <3>3
  <2> QED BY <1>0, <1>4, <1>9, <2>1, <2>2 DEF ResolveDispute
<1>10. CASE ReplaceMilestones(r)
  <2> DEFINE doc == [k \in 1..Len(p.seen) |->
                      IF Passed(p.seen[k]) THEN p.seen[k] ELSE Fresh(p.seen[k].owner, "maintainer", p.seen[k].amount)]
             q == [p EXCEPT !.at = "next"]
  <2>1. p.at = "put" /\ UNCHANGED bounty
    BY <1>0, <1>10 DEF ReplaceMilestones, Quiet, rows
  <2>2. CASE CanUpdate(doc) /\ UpdateEscrow(doc) /\ RefundGoto(r, "next")
    <3>1. doc \in Seq(Milestone)
      <4>1. \A k \in 1..Len(p.seen) :
              p.seen[k] \in Milestone /\ p.seen[k].owner \in Bounties /\ p.seen[k].amount \in Nat
        <5>1. \A k \in 1..Len(p.seen) : p.seen[k] \in Milestone
          BY <1>0
        <5> QED BY <5>1 DEF Milestone
      <4>2. \A k \in 1..Len(p.seen) : doc[k] \in Milestone
        BY <1>0, <4>1, FreshTyped
      <4>3. Len(p.seen) \in Nat /\ doc \in [1..Len(p.seen) -> Milestone]
        BY <1>0, <4>2
      <4> HIDE DEF doc
      <4> QED BY <1>0, <4>3
    <3>2. Replaces(doc) /\ UNCHANGED <<balance, received>>
      BY <1>0, <2>2, <3>1 DEF UpdateEscrow, Replaces
    <3>3. Grows
      BY <1>0, <3>1, <3>2, ChainGrows
    <3>4. q \in Walk /\ q.seen = p.seen /\ q.k = p.k /\ q.at = "next"
      <4>s. "next" \in RefundStages
        BY <1>0 DEF RefundStages
      <4>q. Goes(q, p, "next", p.k)
        BY <1>0, <4>s, WalkGoes, Zenon
      <4> QED BY <4>q DEF Goes
    <3>5. refund' = [refund EXCEPT ![r] = q]
      BY <1>0, <2>2 DEF RefundGoto
    <3> HIDE DEF q
    <3>6. WalkShape(q)
      BY <1>0, <2>1, <3>4 DEF WalkShape, SettledStages
    <3>7. balance' \in Int /\ received' \in [Bounties -> Nat] /\ Rows'
      BY <2>1, <3>2, <3>3, RowsSame DEF Typed
    <3> QED BY <1>1, <3>3, <3>4, <3>5, <3>6, <3>7, WalkStays, RefundMoves
  <2> QED BY <1>0, <1>4, <1>10, <2>1, <2>2 DEF ReplaceMilestones
<1>11. CASE ApproveRefund(r)
  <2> DEFINE q == [p EXCEPT !.at = "release"]
  <2>1. p.at = "approve" /\ UNCHANGED bounty
    BY <1>0, <1>11 DEF ApproveRefund, Quiet, rows
  <2>2. CASE CanApprove(p.k) /\ Approve(p.k) /\ RefundGoto(r, "release")
    <3>1. q \in Walk /\ q.seen = p.seen /\ q.k = p.k /\ q.at = "release"
      <4>s. "release" \in RefundStages
        BY <1>0 DEF RefundStages
      <4>q. Goes(q, p, "release", p.k)
        BY <1>0, <4>s, WalkGoes, Zenon
      <4> QED BY <4>q DEF Goes
    <3>2. refund' = [refund EXCEPT ![r] = q]
      BY <1>0, <2>2 DEF RefundGoto
    <3> HIDE DEF q
    <3>3. WalkShape(q) /\ p.k \in 1..n
      BY <1>0, <2>1, <3>1 DEF WalkShape, SettledStages
    <3> QED BY <1>0, <1>5, <2>1, <2>2, <3>1, <3>2, <3>3
  <2> QED BY <1>0, <1>4, <1>11, <2>1, <2>2 DEF ApproveRefund
<1>12. CASE ReleaseRefund(r)
  <2> DEFINE q == [p EXCEPT !.at = "next", !.k = p.k + 1]
  <2>1. p.at = "release" /\ UNCHANGED bounty
    BY <1>0, <1>12 DEF ReleaseRefund, Quiet, rows
  <2>2. CASE CanRelease(p.k) /\ Release(p.k) /\ refund' = [refund EXCEPT ![r] = q]
    <3>1. q \in Walk /\ q.seen = p.seen /\ q.k = p.k + 1 /\ q.at = "next"
      <4>1. /\ "next" \in RefundStages /\ p.k + 1 \in Nat \ {0}
            /\ p.remaining - p.amount \in Int /\ 0 \in Int
        BY <1>0 DEF RefundStages
      <4>2. Goes(q, p, "next", p.k + 1)
        BY <1>0, <4>1, WalkGoes, Zenon
      <4> QED BY <4>2 DEF Goes
    <3> HIDE DEF q
    <3>2. p.k \in 1..n /\ p.at \notin SettledStages
      BY <1>0, <2>1 DEF WalkShape, SettledStages
    <3>3. Terminal(milestones'[p.k])
      <4>1. milestones[p.k] \in Milestone
        BY <1>0, <3>2
      <4>2. milestones'[p.k] = [milestones[p.k] EXCEPT !.released = TRUE]
        <5>1. milestones' = [milestones EXCEPT ![p.k] = [milestones[p.k] EXCEPT !.released = TRUE]]
          BY <1>0, <2>2 DEF Release
        <5>2. p.k \in DOMAIN milestones
          BY <1>0, <3>2
        <5> QED BY <5>1, <5>2, Zenon
      <4> QED BY <1>0, <4>1, <4>2 DEF Milestone, Terminal
    <3> QED BY <1>0, <1>5, <2>1, <2>2, <3>1, <3>2, <3>3
  <2> QED BY <1>4, <1>12, <2>1, <2>2 DEF ReleaseRefund, p
<1>13. CASE ObserveBalance(r) \/ WithdrawRest(r) \/ ListToCancel(r)
  <2>1. /\ p.at \in SettledStages /\ UNCHANGED <<milestones, received, bounty>>
        /\ UNCHANGED balance \/ balance' = balance - p.amount
    BY <1>0, <1>13 DEF ObserveBalance, WithdrawRest, ListToCancel, SettledStages, chain, Quiet, rows,
                 Refused
  <2>2. Refused(r) \/ \E q \in Walk :
          /\ refund' = [refund EXCEPT ![r] = q]
          /\ q.seen = p.seen /\ q.at \in SettledStages
    <3>1. CASE ObserveBalance(r)
      <4> DEFINE rest == IF dual /\ p.remaining < balance THEN p.remaining ELSE balance
                 s == IF rest > 0 THEN "withdraw" ELSE "list"
                 q == [p EXCEPT !.at = s, !.remaining = 0, !.amount = rest]
      <4>1. s \in RefundStages /\ s \in SettledStages /\ rest \in Int /\ 0 \in Int
        BY <1>0 DEF RefundStages, SettledStages
      <4>2. refund' = [refund EXCEPT ![r] = q]
        BY <1>0, <3>1 DEF ObserveBalance
      <4> HIDE DEF s, rest
      <4>3. q \in Walk /\ q.seen = p.seen /\ q.at = s
        <5>s. s \in RefundStages
          BY <1>0, <4>1 DEF RefundStages
        <5>q. Goes(q, p, s, p.k)
          BY <1>0, <4>1, <5>s, WalkGoes, Zenon
        <5> QED BY <5>q DEF Goes
      <4> HIDE DEF q
      <4> QED BY <4>1, <4>2, <4>3
    <3>2. CASE WithdrawRest(r)
      <4> DEFINE q == [p EXCEPT !.at = "list", !.amount = 0]
      <4>1. Refused(r) \/ refund' = [refund EXCEPT ![r] = q]
        BY <1>0, <3>2 DEF WithdrawRest
      <4>2. q \in Walk /\ q.seen = p.seen /\ q.at = "list"
        <5>s. "list" \in RefundStages
          BY DEF RefundStages
        <5>z. 0 \in Int
          OBVIOUS
        <5>q. Goes(q, p, "list", p.k)
          BY <1>0, <5>s, <5>z, WalkGoes, Zenon
        <5> QED BY <5>q DEF Goes
      <4> HIDE DEF q
      <4> QED BY <4>1, <4>2 DEF SettledStages
    <3>3. CASE ListToCancel(r)
      <4> DEFINE l == {b \in Bounties : Cancellable(b)}
                 q == [p EXCEPT !.at = "finalize", !.list = l]
      <4>1. l \in SUBSET Bounties
        OBVIOUS
      <4>2. refund' = [refund EXCEPT ![r] = q]
        BY <1>0, <3>3 DEF ListToCancel
      <4> HIDE DEF l
      <4>3. q \in Walk /\ q.seen = p.seen /\ q.at = "finalize"
        <5>s. "finalize" \in RefundStages
          BY <1>0, <4>1 DEF RefundStages
        <5>q. Goes(q, p, "finalize", p.k)
          BY <1>0, <4>1, <5>s, WalkGoes, Zenon
        <5> QED BY <5>q DEF Goes
      <4> HIDE DEF q
      <4> QED BY <4>2, <4>3 DEF SettledStages
    <3> QED BY <1>0, <1>13, <3>1, <3>2, <3>3
  <2>3. ASSUME NEW q \in Walk, q.seen = p.seen, q.at \in SettledStages PROVE WalkShape(q)
    BY <1>0, <2>1, <2>3 DEF WalkShape, SettledStages
  <2> QED BY <1>0, <1>2, <1>4, <2>1, <2>2, <2>3 DEF Typed
<1>14. CASE FinalizeRefund(r)
  <2> DEFINE q == [NoRefund EXCEPT !.at = "done"]
  <2>1. q \in Walk /\ q.seen = <<>> /\ q.at = "done"
    BY RestTyped DEF Walk, RefundStages, NoRefund
  <2>2. refund' = [refund EXCEPT ![r] = q] /\ UNCHANGED chain
    BY <1>14 DEF FinalizeRefund
  <2> HIDE DEF q
  <2>3. /\ bounty' \in [Bounties -> Row]
        /\ \A b \in Bounties : bounty'[b].idx = bounty[b].idx
    <3>1. ASSUME NEW b \in Bounties
          PROVE  /\ bounty[b] \in Row /\ [bounty[b] EXCEPT !.status = "cancelled"] \in Row
                 /\ [bounty[b] EXCEPT !.status = "cancelled"].idx = bounty[b].idx
      <4>1. bounty[b] \in Row
        BY DEF Typed, Rows
      <4> QED BY <4>1 DEF Row, Statuses
    <3>2. \A b \in Bounties :
            \/ bounty'[b] = bounty[b]
            \/ bounty'[b] = [bounty[b] EXCEPT !.status = "cancelled"]
      BY <1>14 DEF FinalizeRefund
    <3>3. bounty' = [b \in Bounties |-> bounty'[b]]
      BY <1>14 DEF FinalizeRefund
    <3> QED BY <3>1, <3>2, <3>3
  <2>4. WalkShape(q)
    BY <1>0, <2>1 DEF WalkShape
  <2>5. Grows
    BY <1>0, <2>2, ChainGrows DEF chain
  <2>6. Rows'
    BY <2>3, <2>5, RowsStay
  <2> QED BY <1>1, <2>1, <2>2, <2>4, <2>5, <2>6, WalkStays, RefundMoves DEF chain, Typed
<1> QED BY <1>4, <1>6, <1>c, <1>7, <1>8, <1>9, <1>10, <1>11, <1>12, <1>13, <1>14
    DEF StepRefund, RefundFails, rows

\* What a rejected or deleted bounty gives back.
LEMMA RewardTyped ==
  ASSUME Typed, NEW b \in Bounties
  PROVE  EscrowReward(b) \in Nat
<1>1. bounty[b] \in Row /\ bounty[b].idx <= Len(milestones) /\ milestones \in Seq(Milestone)
  BY DEF Typed, Rows
<1>2. bounty[b].idx = 0 \/ milestones[bounty[b].idx] \in Milestone
  BY <1>1 DEF Row
<1> QED BY <1>1, <1>2 DEF EscrowReward, Row, Milestone

\* A milestone of a deleted issue is emptied in what was read.
Zeroing == [reject.doc EXCEPT ![reject.idx] = [@ EXCEPT !.amount = 0, !.to = "maintainer"]]
LEMMA ZeroingTyped ==
  ASSUME reject \in Request
  PROVE  /\ Zeroing \in Seq(Milestone) /\ Len(Zeroing) = Len(reject.doc)
         /\ \A k \in 1..Len(reject.doc) :
              Zeroing[k] = IF k = reject.idx
                           THEN [reject.doc[k] EXCEPT !.amount = 0, !.to = "maintainer"]
                           ELSE reject.doc[k]
<1>1. reject.doc \in Seq(Milestone) /\ reject.idx \in Nat
  BY DEF Request
<1> DEFINE m == [reject.doc[reject.idx] EXCEPT !.amount = 0, !.to = "maintainer"]
<1>2. CASE reject.idx \in 1..Len(reject.doc)
  <2>1. m \in Milestone
    <3>1. reject.doc[reject.idx] \in Milestone
      BY <1>1, <1>2
    <3> QED BY <3>1 DEF Milestone
  <2>2. Zeroing = [reject.doc EXCEPT ![reject.idx] = m]
    BY DEF Zeroing
  <2>3. Len(Zeroing) = Len(reject.doc) /\ Zeroing \in Seq(Milestone)
    <3> HIDE DEF m
    <3> QED BY <1>1, <1>2, <2>1, <2>2
  <2>4. ASSUME NEW k \in 1..Len(reject.doc)
        PROVE  Zeroing[k] = IF k = reject.idx THEN m ELSE reject.doc[k]
    <3> HIDE DEF m
    <3> QED BY <1>1, <1>2, <2>2
  <2> QED BY <2>3, <2>4
<1>3. CASE reject.idx \notin 1..Len(reject.doc)
  <2>1. Zeroing = [reject.doc EXCEPT ![reject.idx] = m]
    BY DEF Zeroing
  <2> HIDE DEF m
  <2>2. Zeroing = reject.doc
    BY <1>1, <1>3, <2>1
  <2> QED BY <1>1, <1>3, <2>2
<1> QED BY <1>2, <1>3

\* What is neither the worker, a refund nor a crash.
Elsewhere ==
  \/ \E b \in Bounties : MarkMerged(b) \/ ConfigurePayout(b) \/ BeginReject(b) \/ BeginDelete(b)
  \/ FetchForZero \/ ZeroMilestone \/ CancelBounty \/ RefundPool \/ UNCHANGED vars

\* A row's new status or reward.
LEMMA RowWritten ==
  ASSUME Typed, NEW b,
         \/ \E s \in Statuses : bounty' = [bounty EXCEPT ![b].status = s]
         \/ b \in Bounties /\ \E n \in Nat \ {0} : bounty' = [bounty EXCEPT ![b].reward = n]
  PROVE  /\ bounty' \in [Bounties -> Row]
         /\ \A c \in Bounties : bounty'[c].idx = bounty[c].idx
<1>0. bounty \in [Bounties -> Row]
  BY DEF Typed, Rows
<1>1. CASE b \in Bounties
  <2>1. ASSUME NEW g \in Row, g.idx = bounty[b].idx, bounty' = [bounty EXCEPT ![b] = g]
        PROVE  /\ bounty' \in [Bounties -> Row]
               /\ \A c \in Bounties : bounty'[c].idx = bounty[c].idx
    BY <1>0, <1>1, <2>1
  <2>2. ASSUME NEW s \in Statuses
        PROVE  /\ [bounty[b] EXCEPT !.status = s] \in Row
               /\ [bounty[b] EXCEPT !.status = s].idx = bounty[b].idx
    <3>1. bounty[b] \in Row
      BY <1>0, <1>1
    <3> QED BY <3>1 DEF Row
  <2>3. ASSUME NEW n \in Nat \ {0}
        PROVE  /\ [bounty[b] EXCEPT !.reward = n] \in Row
               /\ [bounty[b] EXCEPT !.reward = n].idx = bounty[b].idx
    <3>1. bounty[b] \in Row
      BY <1>0, <1>1
    <3> QED BY <3>1 DEF Row
  <2>4. ASSUME NEW s \in Statuses, bounty' = [bounty EXCEPT ![b].status = s]
        PROVE  bounty' = [bounty EXCEPT ![b] = [bounty[b] EXCEPT !.status = s]]
    BY <2>4
  <2>5. ASSUME NEW n \in Nat \ {0}, bounty' = [bounty EXCEPT ![b].reward = n]
        PROVE  bounty' = [bounty EXCEPT ![b] = [bounty[b] EXCEPT !.reward = n]]
    BY <2>5
  <2>6. CASE \E s \in Statuses : bounty' = [bounty EXCEPT ![b].status = s]
    <3>1. PICK s \in Statuses : bounty' = [bounty EXCEPT ![b].status = s]
      BY <2>6
    <3> DEFINE g == [bounty[b] EXCEPT !.status = s]
    <3>2. g \in Row /\ g.idx = bounty[b].idx /\ bounty' = [bounty EXCEPT ![b] = g]
      BY <2>2, <2>4, <3>1
    <3> HIDE DEF g
    <3> QED BY <2>1, <3>2
  <2>7. CASE \E n \in Nat \ {0} : bounty' = [bounty EXCEPT ![b].reward = n]
    <3>1. PICK n \in Nat \ {0} : bounty' = [bounty EXCEPT ![b].reward = n]
      BY <2>7
    <3> DEFINE g == [bounty[b] EXCEPT !.reward = n]
    <3>2. g \in Row /\ g.idx = bounty[b].idx /\ bounty' = [bounty EXCEPT ![b] = g]
      BY <2>3, <2>5, <3>1
    <3> HIDE DEF g
    <3> QED BY <2>1, <3>2
  <2> QED BY <2>6, <2>7
<1>2. CASE b \notin Bounties
  <2>1. PICK s \in Statuses : bounty' = [bounty EXCEPT ![b].status = s]
    BY <1>2
  <2>2. bounty' = bounty
    BY <1>0, <1>2, <2>1
  <2> QED BY <1>0, <2>2
<1> QED BY <1>1, <1>2

\* What each of them does to the rows, the pool and the contract.
LEMMA RowsMove ==
  ASSUME Typed, Elsewhere
  PROVE  /\ UNCHANGED <<dual, balance, received, job, refund, mishaps>>
         /\ pool' \in Nat /\ reject' \in Request
         /\ bounty' \in [Bounties -> Row]
         /\ \A b \in Bounties : bounty'[b].idx = bounty[b].idx
         /\ \/ UNCHANGED milestones
            \/ reject.at = "zero" /\ Replaces(Zeroing) /\ UNCHANGED bounty
<1>0. /\ bounty \in [Bounties -> Row] /\ pool \in Nat /\ reject \in Request
      /\ reject.idx \in Nat /\ reject.reward \in Nat /\ reject.balance \in Nat
      /\ reject.doc \in Seq(Milestone) /\ milestones \in Seq(Milestone)
  BY DEF Typed, Rows, Request
<1> DEFINE Same == UNCHANGED <<dual, balance, received, job, refund, mishaps>>
           Written == /\ bounty' \in [Bounties -> Row]
                      /\ \A b \in Bounties : bounty'[b].idx = bounty[b].idx
           Money == pool' \in Nat /\ reject' \in Request
           Chain == \/ UNCHANGED milestones
                    \/ reject.at = "zero" /\ Replaces(Zeroing) /\ UNCHANGED bounty
<1> SUFFICES Same /\ Written /\ Money /\ Chain
  OBVIOUS
<1>1. UNCHANGED bounty => Written
  BY <1>0
<1>2. ASSUME NEW b \in Bounties, MarkMerged(b) \/ ConfigurePayout(b)
      PROVE  Same /\ Written /\ Money /\ Chain
  <2>1. Same /\ Money /\ UNCHANGED milestones
    BY <1>0, <1>2 DEF MarkMerged, ConfigurePayout, chain
  <2>2. \/ \E s \in Statuses : bounty' = [bounty EXCEPT ![b].status = s]
        \/ \E n \in Nat \ {0} : bounty' = [bounty EXCEPT ![b].reward = n]
    <3>1. AmountOf[b] \in Nat
      BY AmountTyped
    <3>2. "merged" \in Statuses
      BY DEF Statuses
    <3>3. CASE MarkMerged(b)
      BY <3>2, <3>3 DEF MarkMerged
    <3>4. CASE ConfigurePayout(b)
      <4>1. \A n \in 1..AmountOf[b] - 1 : n \in Nat \ {0}
        BY <3>1
      <4> QED BY <3>4, <4>1 DEF ConfigurePayout
    <3> QED BY <1>2, <3>3, <3>4
  <2>3. Written
    BY <2>2, RowWritten
  <2> QED BY <2>1, <2>3
<1>3. ASSUME NEW b \in Bounties, NEW s \in RejectStages, Begins(b, s)
      PROVE  Same /\ Written /\ Money /\ Chain
  <2>1. UNCHANGED <<dual, milestones, balance, received, job, refund, mishaps, pool, bounty>>
    BY <1>3 DEF Begins, chain, rows
  <2>2. reject' \in Request
    <3>1. EscrowReward(b) \in Nat /\ bounty[b] \in Row
      BY <1>0, RewardTyped
    <3>2. reject' = [NoReject EXCEPT !.at = s, !.b = b, !.idx = bounty[b].idx,
                                     !.reward = EscrowReward(b), !.balance = pool]
      BY <1>3 DEF Begins
    <3>3. bounty[b].idx \in Nat
      BY <3>1 DEF Row
    <3> QED BY <1>0, <3>1, <3>2, <3>3, RestTyped DEF Request
  <2> QED BY <1>0, <1>1, <2>1, <2>2
<1>4. ASSUME NEW b \in Bounties, BeginReject(b) \/ BeginDelete(b)
      PROVE  Same /\ Written /\ Money /\ Chain
  <2>1. "cancel" \in RejectStages /\ "fetch" \in RejectStages
    BY DEF RejectStages
  <2>2. Begins(b, "cancel") \/ Begins(b, "fetch")
    BY <1>4 DEF BeginReject, BeginDelete
  <2> QED BY <1>3, <2>1, <2>2
<1>5. CASE FetchForZero
  <2>1. [reject EXCEPT !.at = "zero", !.doc = milestones] \in Request
    BY <1>0 DEF Request, RejectStages
  <2> QED BY <1>0, <1>1, <1>5, <2>1 DEF FetchForZero, RejectOnly, chain
<1>6. CASE ZeroMilestone
  <2>1. Same /\ UNCHANGED <<bounty, pool>> /\ reject.at = "zero"
    BY <1>6 DEF ZeroMilestone, RejectOnly, UpdateEscrow, chain
  <2>2. \/ CanUpdate(Zeroing) /\ UpdateEscrow(Zeroing) /\ reject' = [reject EXCEPT !.at = "cancel", !.doc = <<>>]
        \/ reject' = NoReject /\ UNCHANGED milestones
    BY <1>6 DEF ZeroMilestone, Zeroing, chain
  <2>3. [reject EXCEPT !.at = "cancel", !.doc = <<>>] \in Request
    <3>1. <<>> \in Seq(Milestone)
      OBVIOUS
    <3> QED BY <1>0, <3>1 DEF Request, RejectStages
  <2>4. Money
    BY <1>0, <2>1, <2>2, <2>3, RestTyped
  <2>5. Chain
    BY <1>0, <2>1, <2>2, ZeroingTyped DEF Replaces, UpdateEscrow
  <2> QED BY <1>1, <2>1, <2>4, <2>5
<1>7. CASE CancelBounty
  <2>1. /\ bounty' = [bounty EXCEPT ![reject.b].status = "cancelled"]
        /\ reject' = [reject EXCEPT !.at = "pool"] /\ Same /\ UNCHANGED <<milestones, pool>>
    BY <1>7 DEF CancelBounty, RejectOnly, chain
  <2>2. Written
    BY <2>1, RowWritten DEF Statuses
  <2>3. reject' \in Request
    BY <1>0, <2>1 DEF Request, RejectStages
  <2> QED BY <1>0, <2>1, <2>2, <2>3
<1>8. CASE RefundPool
  <2>1. /\ pool' = reject.balance + reject.reward /\ reject' = [NoReject EXCEPT !.at = "over"]
        /\ Same /\ UNCHANGED <<milestones, bounty>>
    BY <1>8 DEF RefundPool, chain
  <2> QED BY <1>0, <1>1, <2>1, RestTyped
<1>9. CASE UNCHANGED vars
  BY <1>0, <1>1, <1>9 DEF vars
<1> QED BY <1>2, <1>4, <1>5, <1>6, <1>7, <1>8, <1>9 DEF Elsewhere

\* Bounties that are split, rejected, deleted or merged, and the pool.
LEMMA RowsTyped ==
  ASSUME Typed, Elsewhere
  PROVE  Typed'
<1>1. /\ UNCHANGED <<dual, balance, received, job, refund>>
      /\ pool' \in Nat /\ reject' \in Request
      /\ bounty' \in [Bounties -> Row]
      /\ \A b \in Bounties : bounty'[b].idx = bounty[b].idx
      /\ UNCHANGED milestones \/ Replaces(Zeroing)
  BY RowsMove
<1>2. Grows
  BY <1>1, ChainGrows DEF Typed, Replaces
<1>3. Rows'
  BY <1>1, <1>2, RowsStay
<1>4. PICK j \in Job : j = job /\ JobShape(j)
  BY DEF Typed
<1> QED BY <1>1, <1>2, <1>3, <1>4, JobStays, OthersMove DEF Typed

\* A crash leaves the contract and what is done.
LEMMA CrashTyped ==
  ASSUME Typed, Crash
  PROVE  Typed'
<1>1. UNCHANGED <<dual, milestones, balance, received, bounty, pool>>
  BY DEF Crash, chain, rows
<1>2. Grows
  BY <1>1, ChainGrows DEF Typed
<1>3. job' \in Job /\ JobShape(job)' /\ reject' \in Request
  BY RestTyped DEF Crash, JobShape, Typed
<1>4. ASSUME NEW q \in Refunds PROVE WalkShape(refund[q])'
  <2>1. PICK g \in Walk : g = refund'[q] /\ WalkShape(g)
    <3>1. WalkShape(NoRefund)
      BY RestTyped DEF Typed, WalkShape, SettledStages
    <3>2. refund'[q] = refund[q] \/ refund'[q] = NoRefund
      BY DEF Crash
    <3> QED BY <3>1, <3>2, RestTyped DEF Typed
  <2>2. WalkShape(g)'
    BY <1>1, <1>2, <2>1, WalkStays
  <2> QED BY <2>1, <2>2 DEF WalkShape, SettledStages, Terminal
<1>5. refund' \in [Refunds -> Walk]
  BY RestTyped DEF Crash, Typed
<1> QED BY <1>1, <1>2, <1>3, <1>4, <1>5, RowsSame DEF Typed, Grows

LEMMA StepTyped == Typed /\ [Next]_vars => Typed'
BY WorkTyped, RefundTyped, RowsTyped, CrashTyped DEF Next, Elsewhere

\* A refund that withdraws, or cancels bounties, has settled what it found.
LEMMA TypedSettles == ~RewriteSettled /\ Typed => RefundSettles
BY DEF Typed, WalkShape, SettledStages, RefundSettles

\* A refund that comes to withdraw the rest, and to cancel bounties, has settled
\* every milestone it found, whatever the worker and other refunds do meanwhile,
\* whatever fails, and wherever the server crashes, as long as the provider keeps
\* a milestone that is settled.
THEOREM SettledFirst == ~RewriteSettled => (Spec => []RefundSettles)
<1> SUFFICES ASSUME ~RewriteSettled PROVE Spec => []RefundSettles
  OBVIOUS
<1>1. Init => Typed
  BY InitTyped
<1>2. Typed /\ [Next]_vars => Typed'
  BY StepTyped
<1>3. Typed => RefundSettles
  BY TypedSettles
<1> QED BY <1>1, <1>2, <1>3, PTL DEF Spec

------------------------------------------------------------------------------
(* With a resolver of its own, who is recorded as paid was paid, or split, *)
(* or had a milestone of nothing.                                          *)

\* A milestone is as it was pushed, or emptied for a deleted issue.
Whole(m) == m.to = "contributor" /\ m.amount = AmountOf[m.owner]
Zeroed(m) == m.to = "maintainer" /\ m.amount = 0
ChainKept == \A k \in 1..Len(milestones) : Whole(milestones[k]) \/ Zeroed(milestones[k])

\* A bounty's own milestone was released, or resolved after a split was asked for.
SettledFor(b) ==
  /\ bounty[b].idx # 0
  /\ \/ milestones[bounty[b].idx].released
     \/ milestones[bounty[b].idx].resolved /\ bounty[b].reward < AmountOf[b]

\* A row points to a milestone of its bounty, and the contributor has what that
\* milestone gave when it was released, and nothing before.
RowKept(b) ==
  LET k == bounty[b].idx
  IN  /\ k # 0 => k \in 1..Len(milestones) /\ milestones[k].owner = b
      /\ k = 0 => bounty[b].reward = AmountOf[b]
      /\ k = 0 \/ ~Terminal(milestones[k]) => received[b] = 0
      /\ k # 0 /\ milestones[k].released /\ milestones[k].amount # 0 => received[b] = AmountOf[b]
      /\ bounty[b].status = "paid" => SettledFor(b)
RowsKept == \A b \in Bounties : RowKept(b)

\* What was read of the contract, some time ago.
DocKept(doc) ==
  /\ Len(doc) <= Len(milestones)
  /\ \A k \in 1..Len(doc) :
       /\ doc[k].owner = milestones[k].owner
       /\ Whole(doc[k]) \/ Zeroed(doc[k])
       /\ doc[k].released => milestones[k].released
\* What the worker knows: a bounty gets one milestone, and is recorded for that one.
JobKept(j) ==
  /\ j.at = "chain" => /\ j.idx = bounty[j.b].idx /\ j.reward # 0
                       /\ j.idx = 0 => j.reward = AmountOf[j.b]
                       /\ j.reward < AmountOf[j.b] => bounty[j.b].reward < AmountOf[j.b]
  /\ j.at \in {"fetch", "put"} => j.idx = 0 /\ j.reward = AmountOf[j.b]
  /\ j.at \in {"fetch", "put", "save"} => bounty[j.b].idx = 0
  /\ j.at = "put" => DocKept(j.doc) /\ Len(j.doc) = Len(milestones)
  /\ j.at = "save" => /\ j.idx \in 1..Len(milestones) /\ milestones[j.idx].owner = j.b
                      /\ ~milestones[j.idx].released
  /\ j.at \in {"approve", "release", "dispute", "resolve"} => j.idx # 0 /\ j.idx = bounty[j.b].idx
  /\ j.at \in {"dispute", "resolve"} => bounty[j.b].reward < AmountOf[j.b]
  /\ j.at = "record" => SettledFor(j.b)
RejectKept == reject.at = "zero" => DocKept(reject.doc)

DualKeeps == dual => RowsKept /\ ChainKept /\ JobKept(job) /\ RejectKept
Kept == Typed /\ DualKeeps

\* A milestone that may follow the one there is: nobody is paid by it.
Follows(k, m) ==
  /\ m.owner = milestones[k].owner /\ m.released = milestones[k].released
  /\ m.released => m.amount = milestones[k].amount
  /\ milestones[k].resolved => m.resolved
  /\ Whole(m) \/ Zeroed(m)
ChainFollows ==
  /\ Len(milestones) <= Len(milestones')
  /\ \A k \in 1..Len(milestones) : Follows(k, milestones'[k])
\* A row that is not pushed for, nor recorded as paid.
RowFollows(b) ==
  /\ bounty'[b].idx = bounty[b].idx
  /\ bounty'[b].status = "paid" => bounty[b].status = "paid"
  /\ \/ bounty'[b].reward = bounty[b].reward
     \/ bounty[b].idx # 0 /\ bounty'[b].reward < AmountOf[b]
Alike ==
  /\ ChainFollows /\ Len(milestones') = Len(milestones)
  /\ \A b \in Bounties : RowFollows(b)
  /\ UNCHANGED <<dual, received>>

LEMMA RowAlike ==
  ASSUME Typed, NEW b \in Bounties, RowKept(b), ChainFollows, RowFollows(b),
         received'[b] = received[b]
  PROVE  RowKept(b)'
<1>1. bounty[b] \in Row /\ milestones \in Seq(Milestone)
  BY DEF Typed, Rows
<1>2. CASE bounty[b].idx = 0
  BY <1>1, <1>2 DEF RowKept, RowFollows, SettledFor
<1>3. CASE bounty[b].idx # 0
  <2>1. bounty[b].idx \in 1..Len(milestones) /\ Len(milestones) \in Nat
        /\ Follows(bounty[b].idx, milestones'[bounty[b].idx])
    BY <1>1, <1>3 DEF RowKept, ChainFollows
  <2>2. bounty'[b].idx = bounty[b].idx /\ bounty[b].idx \in 1..Len(milestones')
    BY <1>1, <2>1 DEF RowFollows, ChainFollows
  <2>3. SettledFor(b) => SettledFor(b)'
    BY <1>3, <2>1, <2>2 DEF SettledFor, Follows, RowFollows
  <2> QED BY <1>1, <1>3, <2>1, <2>2, <2>3 DEF RowKept, RowFollows, Follows, Terminal
<1> QED BY <1>2, <1>3

LEMMA AlikeKeeps ==
  ASSUME Typed, RowsKept, ChainKept, Alike
  PROVE  RowsKept' /\ ChainKept'
<1>1. ASSUME NEW b \in Bounties PROVE RowKept(b)'
  BY RowAlike DEF RowsKept, Alike
<1>2. ChainKept'
  BY DEF ChainKept, Alike, ChainFollows, Follows
<1> QED BY <1>1, <1>2 DEF RowsKept

\* What was read stays as good as it was, while the list follows or grows.
LEMMA DocStays ==
  ASSUME Typed, NEW doc \in Seq(Milestone), DocKept(doc),
         Len(milestones) <= Len(milestones'), Len(milestones') \in Nat,
         \A k \in 1..Len(milestones) :
           /\ milestones'[k].owner = milestones[k].owner
           /\ milestones[k].released => milestones'[k].released
  PROVE  DocKept(doc)'
<1>1. Len(doc) \in Nat /\ Len(milestones) \in Nat
  BY DEF Typed
<1> QED BY <1>1 DEF DocKept

LEMMA AlikeJob ==
  ASSUME Typed, Typed', RowsKept, Alike, NEW j \in Job, j.at # "idle" => j.b \in Bounties, JobKept(j)
  PROVE  JobKept(j)'
<1>1. CASE j.at = "idle"
  BY <1>1 DEF JobKept
<1>2. CASE j.at # "idle"
  <2>1. j.b \in Bounties /\ RowKept(j.b) /\ RowFollows(j.b)
    BY <1>2 DEF RowsKept, Alike
  <2>2. SettledFor(j.b) => SettledFor(j.b)'
    BY <2>1 DEF SettledFor, RowKept, RowFollows, Alike, ChainFollows, Follows
  <2>3. j.at = "put" => DocKept(j.doc)' /\ Len(j.doc) = Len(milestones')
    <3>1. j.doc \in Seq(Milestone) /\ Len(milestones') \in Nat
      BY DEF Job, Typed
    <3> QED BY <3>1, DocStays DEF JobKept, Alike, ChainFollows, Follows
  <2>4. j.at = "save" => /\ j.idx \in 1..Len(milestones') /\ milestones'[j.idx].owner = j.b
                         /\ ~milestones'[j.idx].released
    BY DEF JobKept, Alike, ChainFollows, Follows
  <2> QED BY <2>1, <2>2, <2>3, <2>4 DEF JobKept, RowFollows
<1> QED BY <1>1, <1>2

LEMMA IdleKept == JobKept(NoJob)
BY RestTyped DEF JobKept

\* A call that only disputes, resolves or approves.
LEMMA CallAlike ==
  ASSUME milestones \in Seq(Milestone), ChainKept, NEW k \in 1..Len(milestones),
         UNCHANGED <<dual, bounty>>,
         Dispute(k) \/ Approve(k) \/ \E n : Resolve(k, n)
  PROVE  Alike
<1> DEFINE m == milestones[k]
<1>0. m \in Milestone
  OBVIOUS
<1>1. \/ milestones' = [milestones EXCEPT ![k] = [m EXCEPT !.disputed = TRUE]]
      \/ milestones' = [milestones EXCEPT ![k] = [m EXCEPT !.approved = TRUE]]
      \/ milestones' = [milestones EXCEPT ![k] = [m EXCEPT !.resolved = TRUE]]
  BY DEF Dispute, Approve, Resolve
<1>2. \A i \in 1..Len(milestones) : Follows(i, milestones[i])
  BY DEF ChainKept, Follows
<1>3. ASSUME NEW g \in Milestone, Follows(k, g), milestones' = [milestones EXCEPT ![k] = g]
      PROVE  Alike
  <2>1. UNCHANGED received
    BY DEF Dispute, Approve, Resolve
  <2>2. ChainFollows /\ Len(milestones') = Len(milestones)
    BY <1>2, <1>3 DEF ChainFollows
  <2> QED BY <2>1, <2>2 DEF Alike, RowFollows
<1>4. \A g \in {[m EXCEPT !.disputed = TRUE], [m EXCEPT !.approved = TRUE], [m EXCEPT !.resolved = TRUE]} :
        /\ g \in Milestone /\ g.owner = m.owner /\ g.released = m.released
        /\ g.amount = m.amount /\ g.to = m.to /\ (m.resolved => g.resolved)
  BY <1>0 DEF Milestone
<1>5. \A g \in {[m EXCEPT !.disputed = TRUE], [m EXCEPT !.approved = TRUE], [m EXCEPT !.resolved = TRUE]} :
        g \in Milestone /\ Follows(k, g)
  BY <1>4 DEF ChainKept, Follows, Whole, Zeroed
<1> QED BY <1>1, <1>3, <1>5

\* A list that was read may replace the list there is, where the provider lets it.
LEMMA UpdateFollows ==
  ASSUME ~RewriteSettled, milestones \in Seq(Milestone), NEW d \in Seq(Milestone), DocKept(d),
         NEW doc \in Seq(Milestone), CanUpdate(doc), NEW k \in 1..Len(milestones), k <= Len(d),
         doc[k] = d[k]
  PROVE  Follows(k, doc[k])
<1>1. /\ k \in 1..Len(d) /\ d[k].owner = milestones[k].owner /\ (Whole(d[k]) \/ Zeroed(d[k]))
      /\ d[k].released => milestones[k].released
  BY DEF DocKept
<1>2. milestones[k] \in Milestone /\ d[k] \in Milestone
  BY <1>1
<1>3. Terminal(milestones[k]) => d[k] = milestones[k]
  BY DEF CanUpdate
<1> QED BY <1>1, <1>2, <1>3 DEF Follows, Terminal, Milestone

LEMMA InitKept == Init => Kept
<1> SUFFICES ASSUME Init PROVE Kept
  OBVIOUS
<1>1. ASSUME NEW b \in Bounties PROVE RowKept(b)
  BY DEF Init, RowKept, SettledFor
<1>2. ChainKept
  BY DEF Init, ChainKept
<1>3. RejectKept
  BY RestTyped DEF Init, RejectKept
<1> QED BY <1>1, <1>2, <1>3, InitTyped, IdleKept DEF Init, Kept, DualKeeps, RowsKept

\* A step of a refund, of a rejection, of a deletion, of a command or of the webhook
\* pays nobody.
LEMMA OthersKeep ==
  ASSUME ~RewriteSettled, Typed, Typed', dual, RowsKept, ChainKept, RejectKept,
         (\E r \in Refunds : BeginRefund(r) \/ StepRefund(r) \/ RefundFails(r)) \/ Elsewhere
  PROVE  Alike /\ UNCHANGED job /\ RejectKept'
<1>0. /\ milestones \in Seq(Milestone) /\ bounty \in [Bounties -> Row]
      /\ reject \in Request /\ reject.doc \in Seq(Milestone)
  BY DEF Typed, Rows, Request
<1>1. \A k \in 1..Len(milestones) : Follows(k, milestones[k])
  BY DEF ChainKept, Follows
<1>2. UNCHANGED milestones => ChainFollows /\ Len(milestones') = Len(milestones)
  BY <1>0, <1>1 DEF ChainFollows
<1>3. \A b \in Bounties : bounty'[b] = bounty[b] => RowFollows(b)
  BY DEF RowFollows
<1>4. Alike /\ UNCHANGED reject => RejectKept'
  <2>1. ASSUME Alike, UNCHANGED reject, reject.at = "zero" PROVE DocKept(reject.doc)'
    <3>1. PICK d \in Seq(Milestone) : d = reject.doc
      BY <1>0
    <3>2. Len(milestones') \in Nat /\ DocKept(d)
      BY <2>1, <3>1 DEF RejectKept, Typed
    <3>3. DocKept(d)'
      BY <2>1, <3>2, DocStays DEF Alike, ChainFollows, Follows
    <3> QED BY <2>1, <3>1, <3>3 DEF DocKept
  <2> QED BY <2>1 DEF RejectKept
<1>5. ASSUME NEW b, NEW s \in {"merged", "cancelled"}, bounty' = [bounty EXCEPT ![b].status = s]
      PROVE  \A c \in Bounties : RowFollows(c)
  <2>1. ASSUME NEW c \in Bounties PROVE RowFollows(c)
    <3>1. bounty[c] \in Row
      BY <1>0
    <3>2. bounty'[c] = bounty[c] \/ bounty'[c] = [bounty[c] EXCEPT !.status = s]
      BY <1>0, <1>5
    <3>3. /\ [bounty[c] EXCEPT !.status = s].idx = bounty[c].idx
          /\ [bounty[c] EXCEPT !.status = s].reward = bounty[c].reward
          /\ [bounty[c] EXCEPT !.status = s].status = s
      BY <3>1 DEF Row
    <3> QED BY <3>2, <3>3 DEF RowFollows
  <2> QED BY <2>1
<1>6. ASSUME NEW b \in Bounties, ConfigurePayout(b) PROVE \A c \in Bounties : RowFollows(c)
  <2>1. PICK n \in 1..AmountOf[b] - 1 : bounty' = [bounty EXCEPT ![b].reward = n]
    BY <1>6 DEF ConfigurePayout
  <2>2. bounty[b] \in Row /\ bounty[b].idx # 0 /\ n < AmountOf[b]
    BY <1>0, <1>6, AmountTyped DEF ConfigurePayout, Row
  <2>3. /\ [bounty[b] EXCEPT !.reward = n].idx = bounty[b].idx
        /\ [bounty[b] EXCEPT !.reward = n].reward = n
        /\ [bounty[b] EXCEPT !.reward = n].status = bounty[b].status
    BY <2>2 DEF Row
  <2>4. bounty'[b] = [bounty[b] EXCEPT !.reward = n] /\ \A c \in Bounties : c # b => bounty'[c] = bounty[c]
    BY <1>0, <2>1
  <2> QED BY <1>3, <2>2, <2>3, <2>4 DEF RowFollows
<1>7. CASE Elsewhere
  <2>1. /\ UNCHANGED <<dual, received, job>>
        /\ \/ UNCHANGED milestones
           \/ reject.at = "zero" /\ Replaces(Zeroing) /\ UNCHANGED bounty
    BY <1>7, RowsMove
  <2>2. \A b \in Bounties : RowFollows(b)
    <3>1. ASSUME NEW b \in Bounties, MarkMerged(b) PROVE \A c \in Bounties : RowFollows(c)
      BY <1>5, <3>1 DEF MarkMerged
    <3>2. CancelBounty => \A c \in Bounties : RowFollows(c)
      BY <1>5 DEF CancelBounty
    <3>3. \A b \in Bounties : BeginReject(b) \/ BeginDelete(b) => UNCHANGED bounty
      BY DEF BeginReject, BeginDelete, Begins, rows
    <3>4. FetchForZero \/ ZeroMilestone \/ RefundPool \/ UNCHANGED vars => UNCHANGED bounty
      BY DEF FetchForZero, ZeroMilestone, RefundPool, vars
    <3> QED BY <1>3, <1>6, <1>7, <3>1, <3>2, <3>3, <3>4 DEF Elsewhere
  <2>3. Alike
    <3>1. CASE UNCHANGED milestones
      BY <1>2, <2>1, <2>2, <3>1 DEF Alike
    <3>2. CASE reject.at = "zero" /\ Replaces(Zeroing)
      <4>1. DocKept(reject.doc)
        BY <3>2 DEF RejectKept
      <4>2. /\ Zeroing \in Seq(Milestone) /\ Len(Zeroing) = Len(reject.doc)
            /\ \A k \in 1..Len(reject.doc) :
                 Zeroing[k] = IF k = reject.idx
                              THEN [reject.doc[k] EXCEPT !.amount = 0, !.to = "maintainer"]
                              ELSE reject.doc[k]
        BY <1>0, ZeroingTyped
      <4>3. PICK d \in Seq(Milestone) : d = Zeroing
        BY <4>2
      <4>4. DocKept(d)
        <5>1. ASSUME NEW k \in 1..Len(d)
              PROVE  /\ d[k].owner = milestones[k].owner
                     /\ Whole(d[k]) \/ Zeroed(d[k])
                     /\ d[k].released => milestones[k].released
          <6>1. reject.doc[k] \in Milestone /\ k \in 1..Len(reject.doc)
            <7>1. Len(d) = Len(reject.doc)
              BY <4>2, <4>3
            <7>2. k \in 1..Len(reject.doc)
              BY <7>1
            <7> QED BY <1>0, <7>2
          <6>2. /\ reject.doc[k].owner = milestones[k].owner
                /\ Whole(reject.doc[k]) \/ Zeroed(reject.doc[k])
                /\ reject.doc[k].released => milestones[k].released
            BY <4>1, <6>1 DEF DocKept
          <6>3. CASE k = reject.idx
            <7>1. d[k] = [reject.doc[k] EXCEPT !.amount = 0, !.to = "maintainer"]
              BY <4>2, <4>3, <6>1, <6>3
            <7>2. /\ d[k].owner = reject.doc[k].owner /\ d[k].released = reject.doc[k].released
                  /\ d[k].to = "maintainer" /\ d[k].amount = 0
              BY <6>1, <7>1 DEF Milestone
            <7> QED BY <6>2, <7>2 DEF Zeroed
          <6>4. CASE k # reject.idx
            <7>1. d[k] = reject.doc[k]
              BY <4>2, <4>3, <6>1, <6>4
            <7> QED BY <6>2, <7>1
          <6> QED BY <6>3, <6>4
        <5>2. Len(d) <= Len(milestones)
          BY <4>1, <4>2, <4>3 DEF DocKept
        <5> QED BY <5>1, <5>2 DEF DocKept
      <4>5. CanUpdate(d) /\ milestones' = d
        BY <3>2, <4>3 DEF Replaces
      <4>6. Len(d) = Len(milestones)
        BY <1>0, <4>4, <4>5 DEF DocKept, CanUpdate
      <4>7. \A k \in 1..Len(milestones) : Follows(k, d[k])
        BY <1>0, <4>4, <4>5, <4>6, UpdateFollows
      <4>8. ChainFollows /\ Len(milestones') = Len(milestones)
        BY <1>0, <4>5, <4>6, <4>7 DEF ChainFollows
      <4> QED BY <2>1, <2>2, <4>8 DEF Alike
    <3> QED BY <2>1, <3>1, <3>2
  <2>4. RejectKept'
    <3>1. CASE UNCHANGED reject
      BY <1>4, <2>3, <3>1
    <3>2. CASE FetchForZero
      <4>1. reject' = [reject EXCEPT !.at = "zero", !.doc = milestones] /\ UNCHANGED milestones
        BY <3>2 DEF FetchForZero, chain
      <4>2. reject'.doc = milestones
        BY <1>0, <4>1 DEF Request
      <4> QED BY <1>0, <4>1, <4>2 DEF RejectKept, DocKept, ChainKept
    <3>3. CASE reject'.at # "zero"
      BY <3>3 DEF RejectKept
    <3>4. UNCHANGED reject \/ FetchForZero \/ reject'.at # "zero"
      <4>1. ASSUME NEW b \in Bounties, BeginReject(b) \/ BeginDelete(b) PROVE reject'.at # "zero"
        <5>1. PICK s \in {"cancel", "fetch"} : Begins(b, s)
          BY <4>1 DEF BeginReject, BeginDelete
        <5> QED BY <5>1 DEF Begins, NoReject
      <4>2. ZeroMilestone \/ CancelBounty \/ RefundPool => reject'.at # "zero"
        BY <1>0, RestTyped DEF ZeroMilestone, CancelBounty, RefundPool, Request, NoReject
      <4>3. \A b \in Bounties : MarkMerged(b) \/ ConfigurePayout(b) => UNCHANGED reject
        BY DEF MarkMerged, ConfigurePayout
      <4> QED BY <1>7, <4>1, <4>2, <4>3 DEF Elsewhere, vars
    <3> QED BY <3>1, <3>2, <3>3, <3>4
  <2> QED BY <2>1, <2>3, <2>4
<1>8. ASSUME NEW r \in Refunds, BeginRefund(r) \/ StepRefund(r) \/ RefundFails(r)
      PROVE  Alike /\ UNCHANGED job /\ RejectKept'
  <2>1. UNCHANGED <<dual, job, reject>>
    BY <1>8 DEF BeginRefund, StepRefund, RefundFails, CheckMilestones, NextMilestone,
         DisputeMilestone, ResolveDispute, ReplaceMilestones, ApproveRefund, ReleaseRefund,
         ObserveBalance, WithdrawRest, ListToCancel, FinalizeRefund, Quiet, RefundOnly
  <2>2. ASSUME UNCHANGED <<milestones, received, bounty>> PROVE Alike
    BY <1>2, <1>3, <2>1, <2>2 DEF Alike
  <2>3. CASE DisputeMilestone(r) \/ ResolveDispute(r)
    <3>1. UNCHANGED bounty
      BY <2>3 DEF DisputeMilestone, ResolveDispute, Quiet, rows
    <3>2. CASE UNCHANGED chain
      BY <2>1, <2>2, <1>4, <3>1, <3>2 DEF chain
    <3>3. CASE ~UNCHANGED chain
      <4>1. /\ refund[r].at \in {"dispute", "resolve"}
            /\ Dispute(refund[r].k) \/ Resolve(refund[r].k, refund[r].amount)
        BY <2>3, <3>3 DEF DisputeMilestone, ResolveDispute, Refused
      <4>2. refund[r].k \in 1..Len(milestones)
        <5>1. refund[r] \in Walk /\ WalkShape(refund[r])
          BY DEF Typed
        <5>2. /\ refund[r].k \in 1..Len(refund[r].seen) /\ Len(refund[r].seen) <= Len(milestones)
              /\ Len(refund[r].seen) \in Nat /\ Len(milestones) \in Nat
          BY <1>0, <4>1, <5>1 DEF Walk, WalkShape
        <5> QED BY <5>2
      <4>3. Alike
        BY <1>0, <2>1, <3>1, <4>1, <4>2, CallAlike
      <4> QED BY <1>4, <2>1, <4>3
    <3> QED BY <3>2, <3>3
  <2>4. CASE FinalizeRefund(r)
    <3>1. ASSUME NEW b \in Bounties PROVE RowFollows(b)
      <4>1. bounty[b] \in Row
        BY <1>0
      <4>2. bounty'[b] = bounty[b] \/ bounty'[b] = [bounty[b] EXCEPT !.status = "cancelled"]
        BY <2>4 DEF FinalizeRefund
      <4>3. /\ [bounty[b] EXCEPT !.status = "cancelled"].idx = bounty[b].idx
            /\ [bounty[b] EXCEPT !.status = "cancelled"].reward = bounty[b].reward
            /\ [bounty[b] EXCEPT !.status = "cancelled"].status = "cancelled"
        BY <4>1 DEF Row
      <4> QED BY <4>2, <4>3 DEF RowFollows
    <3>2. Alike
      BY <1>2, <2>1, <2>4, <3>1 DEF FinalizeRefund, Alike, chain
    <3> QED BY <1>4, <2>1, <3>2
  <2>5. CASE BeginRefund(r) \/ CheckMilestones(r) \/ NextMilestone(r) \/ RefundFails(r)
             \/ ObserveBalance(r) \/ WithdrawRest(r) \/ ListToCancel(r)
    <3>1. UNCHANGED <<milestones, received, bounty>>
      BY <2>5 DEF BeginRefund, CheckMilestones, NextMilestone, RefundFails, ObserveBalance,
                  WithdrawRest, ListToCancel, Refused, Quiet, chain, rows
    <3> QED BY <1>4, <2>1, <2>2, <3>1
  <2>6. ~(ReplaceMilestones(r) \/ ApproveRefund(r) \/ ReleaseRefund(r))
    BY DEF Typed, WalkShape, ReplaceMilestones, ApproveRefund, ReleaseRefund
  <2> QED BY <1>8, <2>3, <2>4, <2>5, <2>6 DEF StepRefund
<1> QED BY <1>7, <1>8

\* The worker pushes a bounty's first milestone only, and records what it released
\* or what was resolved after a split was asked for.
LEMMA WorkKeeps ==
  ASSUME ~RewriteSettled, Kept, dual, (\E b \in Bounties : TakeJob(b)) \/ Work
  PROVE  RowsKept' /\ ChainKept' /\ JobKept(job)' /\ RejectKept'
<1> DEFINE Goal == RowsKept' /\ ChainKept' /\ JobKept(job)' /\ RejectKept'
           c == job.b
           k == job.idx
           L == Len(milestones)
<1>0. /\ Typed /\ RowsKept /\ ChainKept /\ JobKept(job) /\ RejectKept
      /\ job \in Job /\ JobShape(job) /\ k \in Nat /\ job.doc \in Seq(Milestone)
      /\ job.reward \in Nat
      /\ milestones \in Seq(Milestone) /\ L \in Nat /\ bounty \in [Bounties -> Row]
      /\ received \in [Bounties -> Nat] /\ reject \in Request /\ reject.doc \in Seq(Milestone)
  BY DEF Kept, DualKeeps, Typed, Rows, Job, Request
<1>1. UNCHANGED <<dual, reject>>
  BY DEF TakeJob, Work, Evaluate, FetchEscrow, PutMilestone, SaveMilestone, ApproveMilestone,
         ReleaseFunds, DisputeForSplit, ResolveForSplit, MarkPaid, JobOnly
<1>t. Typed' /\ Len(milestones') \in Nat /\ milestones' \in Seq(Milestone)
  <2>1. Typed'
    BY <1>0, WorkTyped
  <2> QED BY <2>1 DEF Typed
<1>r. ASSUME L <= Len(milestones'),
             \A i \in 1..L : /\ milestones'[i].owner = milestones[i].owner
                             /\ milestones[i].released => milestones'[i].released
      PROVE  RejectKept'
  <2>1. ASSUME reject.at = "zero" PROVE DocKept(reject.doc)'
    <3>1. PICK d \in Seq(Milestone) : d = reject.doc
      BY <1>0
    <3>2. DocKept(d)
      BY <1>0, <2>1, <3>1 DEF RejectKept
    <3>3. DocKept(d)'
      BY <1>0, <1>t, <1>r, <3>2, DocStays
    <3> QED BY <1>1, <3>1, <3>3 DEF DocKept
  <2> QED BY <1>1, <2>1 DEF RejectKept
<1>2. ASSUME Alike, NEW j \in Job, job' = j, JobShape(j), JobKept(j) PROVE Goal
  <2>1. RowsKept' /\ ChainKept'
    BY <1>0, <1>2, AlikeKeeps
  <2>2. JobKept(j)'
    BY <1>0, <1>t, <1>2, AlikeJob DEF JobShape
  <2>3. RejectKept'
    BY <1>0, <1>2, <1>r DEF Alike, ChainFollows, Follows
  <2> QED BY <1>2, <2>1, <2>2, <2>3 DEF JobKept, DocKept, SettledFor
<1>3. UNCHANGED <<chain, bounty>> => Alike
  BY <1>0, <1>1 DEF Alike, ChainFollows, Follows, RowFollows, ChainKept, chain
<1>4. NoJob \in Job /\ JobShape(NoJob) /\ JobKept(NoJob)
  BY RestTyped, IdleKept DEF JobShape
<1>5. ASSUME NEW b \in Bounties, TakeJob(b) PROVE Goal
  <2> DEFINE j == [NoJob EXCEPT !.at = "chain", !.b = b, !.status = bounty[b].status,
                                !.idx = bounty[b].idx, !.reward = bounty[b].reward]
  <2>0. bounty[b] \in Row /\ RowKept(b)
    BY <1>0 DEF RowsKept
  <2>1. /\ j \in Job /\ j.at = "chain" /\ j.b = b /\ j.idx = bounty[b].idx
        /\ j.reward = bounty[b].reward /\ j.reward # 0
    BY <2>0, RestTyped DEF Job, JobStages, Row, NoJob
  <2>2. job' = j /\ UNCHANGED <<chain, bounty>>
    BY <1>5 DEF TakeJob
  <2> HIDE DEF j
  <2>3. JobShape(j) /\ JobKept(j)
    BY <2>0, <2>1 DEF JobShape, JobKept, RowKept
  <2> QED BY <1>2, <1>3, <2>1, <2>2, <2>3
<1>6. CASE Evaluate
  <2> DEFINE n == IF Decision = "dispute" THEN milestones[k].amount ELSE 0
             j == [NoJob EXCEPT !.at = Decision, !.b = c, !.idx = k,
                                !.reward = job.reward, !.amount = n]
  <2>1. /\ c \in Bounties /\ RowKept(c) /\ k = bounty[c].idx /\ job.reward # 0
        /\ k = 0 => job.reward = AmountOf[c]
        /\ job.reward < AmountOf[c] => bounty[c].reward < AmountOf[c]
    BY <1>0, <1>6 DEF Evaluate, JobShape, JobKept, RowsKept
  <2>2. /\ Decision \in {"idle", "fetch", "record", "approve", "dispute"}
        /\ Decision = "fetch" => k = 0
        /\ Decision \in {"approve", "dispute"} => k # 0 /\ k \in 1..L
        /\ Decision = "dispute" => bounty[c].reward < AmountOf[c]
        /\ Decision = "record" => k # 0 /\ milestones[k].released
    <3>1. k # 0 => k \in 1..L /\ milestones[k].owner = c
                   /\ (Whole(milestones[k]) \/ Zeroed(milestones[k]))
      BY <1>0, <2>1 DEF RowKept, ChainKept
    <3> QED BY <1>0, <2>1, <3>1 DEF Decision, PaidOnChain, Whole, Zeroed
  <2>3. n \in Nat
    <3>1. k \in 1..L => milestones[k] \in Milestone
      BY <1>0
    <3> QED BY <2>2, <3>1 DEF Milestone
  <2>4. (job' = NoJob \/ job' = j) /\ UNCHANGED <<chain, bounty>>
    BY <1>6 DEF Evaluate
  <2> HIDE DEF n
  <2>5. j \in Job /\ j.at = Decision /\ j.b = c /\ j.idx = k /\ j.reward = job.reward
    BY <1>0, <2>1, <2>2, <2>3, RestTyped DEF Job, JobStages, NoJob
  <2> HIDE DEF j
  <2>6. JobShape(j) /\ JobKept(j)
    BY <2>1, <2>2, <2>5 DEF JobShape, JobKept, SettledFor
  <2> QED BY <1>2, <1>3, <1>4, <2>4, <2>5, <2>6
<1>7. CASE FetchEscrow
  <2> DEFINE j == [job EXCEPT !.at = "put", !.doc = milestones]
  <2>1. /\ j \in Job /\ j.at = "put" /\ j.b = c /\ j.idx = k /\ j.doc = milestones
        /\ j.reward = job.reward
    BY <1>0 DEF Job, JobStages
  <2>2. job' = j /\ UNCHANGED <<chain, bounty>> /\ job.at = "fetch"
    BY <1>7 DEF FetchEscrow
  <2> HIDE DEF j
  <2>3. JobShape(j) /\ JobKept(j)
    BY <1>0, <2>1, <2>2 DEF JobShape, JobKept, DocKept, ChainKept
  <2> QED BY <1>2, <1>3, <2>1, <2>2, <2>3
<1>8. CASE PutMilestone
  <2> DEFINE m == Fresh(c, "contributor", job.reward)
             doc == Append(job.doc, m)
             j == [job EXCEPT !.at = "save", !.idx = Len(doc), !.doc = <<>>]
  <2>1. /\ c \in Bounties /\ RowKept(c) /\ k = 0 /\ bounty[c].idx = 0 /\ DocKept(job.doc)
        /\ Len(job.doc) = L /\ job.reward = AmountOf[c] /\ UNCHANGED bounty
    BY <1>0, <1>8 DEF PutMilestone, JobShape, JobKept, RowsKept
  <2>2. ~Fits(k, job.doc)
    BY <1>0, <2>1 DEF Fits
  <2>3. \/ CanUpdate(doc) /\ UpdateEscrow(doc) /\ job' = j
        \/ job' = NoJob /\ UNCHANGED chain
    BY <1>8, <2>2 DEF PutMilestone, JobOver
  <2>4. CASE job' = NoJob /\ UNCHANGED chain
    BY <1>2, <1>3, <1>4, <2>1, <2>4
  <2>5. CASE CanUpdate(doc) /\ UpdateEscrow(doc) /\ job' = j
    <3>1. /\ m \in Milestone /\ m.owner = c /\ Whole(m) /\ ~m.released
      BY <1>0, <2>1, FreshTyped DEF Terminal, Whole
    <3> HIDE DEF m
    <3>2. /\ doc \in Seq(Milestone) /\ Len(doc) = L + 1 /\ doc[L + 1] = m
          /\ \A i \in 1..L : doc[i] = job.doc[i]
      BY <1>0, <2>1, <3>1
    <3>3. j.at = "save" /\ j.b = c /\ j.idx = Len(doc)
      BY <1>0 DEF Job
    <3> HIDE DEF doc, j
    <3>4. milestones' = doc /\ UNCHANGED <<received, bounty>>
      BY <2>1, <2>5 DEF UpdateEscrow
    <3>5. \A i \in 1..L : Follows(i, doc[i])
      <4>1. ASSUME NEW i \in 1..L PROVE Follows(i, doc[i])
        <5>1. i <= Len(job.doc) /\ doc[i] = job.doc[i] /\ DocKept(job.doc) /\ CanUpdate(doc)
          BY <1>0, <2>1, <2>5, <3>2
        <5> QED BY <1>0, <3>2, <5>1, UpdateFollows
      <4> QED BY <4>1
    <3>6. ChainFollows
      BY <1>0, <3>2, <3>4, <3>5 DEF ChainFollows
    <3>7. RowsKept'
      <4>1. ASSUME NEW b \in Bounties PROVE RowKept(b)'
        <5>1. RowFollows(b) /\ received'[b] = received[b] /\ RowKept(b)
          BY <1>0, <3>4 DEF RowFollows, RowsKept
        <5> QED BY <1>0, <3>6, <5>1, RowAlike
      <4> QED BY <4>1 DEF RowsKept
    <3>8. ChainKept'
      BY <1>0, <3>1, <3>2, <3>4, <3>5 DEF ChainKept, Follows
    <3>9. JobKept(job)'
      BY <1>0, <2>1, <2>5, <3>1, <3>2, <3>3, <3>4 DEF JobKept
    <3>10. RejectKept'
      BY <1>0, <1>r, <3>6 DEF ChainFollows, Follows
    <3> QED BY <3>7, <3>8, <3>9, <3>10
  <2> QED BY <2>3, <2>4, <2>5
<1>9. CASE SaveMilestone
  <2>1. /\ c \in Bounties /\ bounty[c].idx = 0 /\ k \in 1..L /\ milestones[k].owner = c
        /\ ~milestones[k].released /\ bounty[c] \in Row
    BY <1>0, <1>9 DEF SaveMilestone, JobShape, JobKept
  <2> DEFINE g == [bounty[c] EXCEPT !.status = "assigned", !.idx = k]
  <2>2. /\ bounty' = [bounty EXCEPT ![c] = g]
        /\ job' = NoJob /\ UNCHANGED <<milestones, received>>
    BY <1>9 DEF SaveMilestone, JobOver, chain
  <2>3. g.status = "assigned" /\ g.idx = k
    BY <2>1 DEF Row
  <2> HIDE DEF g
  <2>4. ASSUME NEW b \in Bounties PROVE RowKept(b)'
    <3>1. RowKept(b)
      BY <1>0 DEF RowsKept
    <3>2. CASE b = c
      <4>1. received[c] = 0
        BY <2>1, <3>1, <3>2 DEF RowKept
      <4>2. bounty'[c].idx = k /\ bounty'[c].status = "assigned"
        BY <1>0, <2>1, <2>2, <2>3
      <4>3. k # 0
        BY <2>1
      <4> QED BY <2>1, <2>2, <3>2, <4>1, <4>2, <4>3 DEF RowKept, SettledFor
    <3>3. CASE b # c
      <4>1. bounty'[b] = bounty[b]
        BY <1>0, <2>2, <3>3
      <4> QED BY <2>2, <3>1, <4>1 DEF RowKept, SettledFor
    <3> QED BY <3>2, <3>3
  <2>5. ChainKept'
    BY <1>0, <2>2 DEF ChainKept
  <2>6. JobKept(job)'
    BY <2>2, RestTyped DEF JobKept
  <2>7. RejectKept'
    BY <1>0, <1>r, <2>2
  <2> QED BY <2>4, <2>5, <2>6, <2>7 DEF RowsKept
<1>10. CASE MarkPaid
  <2>1. c \in Bounties /\ SettledFor(c)
    BY <1>0, <1>10 DEF MarkPaid, JobShape, JobKept
  <2>2. /\ bounty' = [bounty EXCEPT ![c] = [bounty[c] EXCEPT !.status = "paid"]]
        /\ job' = NoJob /\ UNCHANGED <<milestones, received>>
    BY <1>10 DEF MarkPaid, JobOver, chain
  <2>3. ASSUME NEW b \in Bounties PROVE RowKept(b)'
    <3>1. RowKept(b)
      BY <1>0 DEF RowsKept
    <3>2. /\ bounty'[b].idx = bounty[b].idx /\ bounty'[b].reward = bounty[b].reward
          /\ b # c => bounty'[b].status = bounty[b].status
      <4>1. bounty[b] \in Row
        BY <1>0
      <4>2. /\ [bounty[b] EXCEPT !.status = "paid"].idx = bounty[b].idx
            /\ [bounty[b] EXCEPT !.status = "paid"].reward = bounty[b].reward
        BY <4>1 DEF Row
      <4>3. IF b = c THEN bounty'[b] = [bounty[b] EXCEPT !.status = "paid"]
                     ELSE bounty'[b] = bounty[b]
        BY <1>0, <2>2
      <4> QED BY <4>2, <4>3
    <3> QED BY <2>1, <2>2, <3>1, <3>2 DEF RowKept, SettledFor
  <2>4. ChainKept'
    BY <1>0, <2>2 DEF ChainKept
  <2>5. JobKept(job)'
    BY <2>2, RestTyped DEF JobKept
  <2>6. RejectKept'
    BY <1>0, <1>r, <2>2
  <2> QED BY <2>3, <2>4, <2>5, <2>6 DEF RowsKept
<1>11. CASE ApproveMilestone \/ ReleaseFunds \/ DisputeForSplit \/ ResolveForSplit
  <2> DEFINE g == [NoJob EXCEPT !.at = "record", !.b = c]
             h == [job EXCEPT !.at = "release"]
             i == [job EXCEPT !.at = "resolve"]
  <2>1. /\ c \in Bounties /\ RowKept(c) /\ k # 0 /\ k = bounty[c].idx /\ k \in 1..L
        /\ milestones[k] \in Milestone /\ milestones[k].owner = c
        /\ Whole(milestones[k]) \/ Zeroed(milestones[k])
        /\ UNCHANGED bounty
    <3>1. /\ c \in Bounties /\ k # 0 /\ k = bounty[c].idx /\ UNCHANGED bounty
      BY <1>0, <1>11 DEF ApproveMilestone, ReleaseFunds, DisputeForSplit, ResolveForSplit,
                         JobShape, JobKept
    <3>2. RowKept(c)
      BY <1>0, <3>1 DEF RowsKept
    <3>3. k \in 1..L /\ milestones[k].owner = c
      BY <3>1, <3>2 DEF RowKept
    <3>4. milestones[k] \in Milestone
      BY <1>0, <3>3
    <3>5. Whole(milestones[k]) \/ Zeroed(milestones[k])
      BY <1>0, <3>3 DEF ChainKept
    <3> QED BY <3>1, <3>2, <3>3, <3>4, <3>5
  <2>2. /\ g \in Job /\ g.at = "record" /\ g.b = c
        /\ h \in Job /\ h.at = "release" /\ h.b = c /\ h.idx = k
        /\ i \in Job /\ i.at = "resolve" /\ i.b = c /\ i.idx = k
    BY <1>0, <2>1, RestTyped DEF Job, JobStages, NoJob
  <2>3. \/ UNCHANGED chain /\ job' = g /\ milestones[k].released
        \/ UNCHANGED chain /\ job' = NoJob
        \/ Approve(k) /\ job' = h
        \/ CanRelease(k) /\ Release(k) /\ job' = g
        \/ job.at = "dispute" /\ Dispute(k) /\ job' = i
        \/ job.at = "dispute" /\ UNCHANGED chain /\ job' = i
        \/ job.at = "resolve" /\ UNCHANGED chain /\ Terminal(milestones[k]) /\ job' = g
        \/ /\ job.at = "resolve" /\ CanResolve(k, job.amount)
           /\ PaySplit(k, job.reward, job.amount) /\ job' = g
    BY <1>11 DEF ApproveMilestone, ReleaseFunds, DisputeForSplit, ResolveForSplit, Released,
                 JobGoto, JobOver
  <2>s. job.at \in {"dispute", "resolve"} => bounty[c].reward < AmountOf[c]
    BY <1>0 DEF JobKept
  <2> HIDE DEF g, h, i
  <2>4. /\ JobShape(g) /\ JobShape(h) /\ JobShape(i) /\ JobKept(h)
        /\ job.at = "dispute" => JobKept(i)
        /\ milestones[k].released => JobKept(g)
        /\ job.at = "resolve" /\ Terminal(milestones[k]) => JobKept(g)
    BY <2>1, <2>2, <2>s DEF JobShape, JobKept, SettledFor, Terminal
  <2>5. CASE /\ UNCHANGED chain
             /\ \/ job' = NoJob
                \/ job' = g /\ milestones[k].released
                \/ job' = i /\ job.at = "dispute"
                \/ job' = g /\ job.at = "resolve" /\ Terminal(milestones[k])
    BY <1>2, <1>3, <1>4, <2>1, <2>2, <2>4, <2>5
  <2>6. CASE \/ Approve(k) /\ job' = h
             \/ Dispute(k) /\ job' = i /\ job.at = "dispute"
    <3>1. Alike
      BY <1>0, <1>1, <2>1, <2>6, CallAlike
    <3> QED BY <1>2, <2>2, <2>4, <2>6, <3>1
  \* The contributor is paid: its milestone ends, and nobody else's changes.
  <2>7. ASSUME NEW m \in Milestone, m.owner = c, m.amount = milestones[k].amount,
               m.to = milestones[k].to, m.released \/ (m.resolved /\ bounty[c].reward < AmountOf[c]),
               milestones[k].released => m.released,
               milestones' = [milestones EXCEPT ![k] = m], NEW n \in Nat,
               received' = [received EXCEPT ![c] = n],
               m.released /\ m.amount # 0 => n = AmountOf[c], job' = g
        PROVE  Goal
    <3>1. /\ Len(milestones') = L /\ milestones'[k] = m
          /\ \A x \in 1..L : x # k => milestones'[x] = milestones[x]
      BY <1>0, <2>1, <2>7
    <3>2. ASSUME NEW b \in Bounties PROVE RowKept(b)'
      <4>1. RowKept(b)
        BY <1>0 DEF RowsKept
      <4>2. CASE b = c
        <5>1. received'[c] = n
          BY <1>0, <2>1, <2>7
        <5> QED BY <2>1, <2>7, <3>1, <4>1, <4>2, <5>1 DEF RowKept, SettledFor, Terminal
      <4>3. CASE b # c
        <5>1. bounty[b].idx # k
          BY <2>1, <4>1, <4>3 DEF RowKept
        <5>2. received'[b] = received[b]
          BY <1>0, <2>7, <4>3
        <5> QED BY <2>1, <3>1, <4>1, <5>1, <5>2 DEF RowKept, SettledFor
      <4> QED BY <4>2, <4>3
    <3>3. ChainKept'
      BY <1>0, <2>1, <2>7, <3>1 DEF ChainKept, Whole, Zeroed
    <3>4. JobKept(job)'
      BY <2>1, <2>2, <2>7, <3>1 DEF JobKept, SettledFor
    <3>5. RejectKept'
      BY <1>0, <1>r, <2>1, <2>7, <3>1
    <3> QED BY <3>2, <3>3, <3>4, <3>5 DEF RowsKept
  <2>8. CASE CanRelease(k) /\ Release(k) /\ job' = g
    <3> DEFINE m == [milestones[k] EXCEPT !.released = TRUE]
               n == IF milestones[k].to = "contributor"
                    THEN received[c] + milestones[k].amount ELSE received[c]
    <3>1. /\ m \in Milestone /\ m.owner = c /\ m.amount = milestones[k].amount
          /\ m.to = milestones[k].to /\ m.released
      BY <2>1 DEF Milestone
    <3>2. milestones' = [milestones EXCEPT ![k] = m]
      BY <2>8 DEF Release
    <3>3. received[c] = 0
      BY <2>1, <2>8 DEF RowKept, CanRelease, CanApprove
    <3>4. received' = [received EXCEPT ![c] = n]
      BY <1>0, <2>1, <2>8 DEF Release
    <3>5. n \in Nat /\ (m.amount # 0 => n = AmountOf[c])
      <4>1. AmountOf[c] \in Nat
        BY <2>1, AmountTyped
      <4>2. milestones[k].amount \in Nat /\ m.amount = milestones[k].amount
        BY <2>1, <3>1 DEF Milestone
      <4>3. CASE Whole(milestones[k])
        BY <2>1, <3>3, <4>1, <4>3 DEF Whole
      <4>4. CASE Zeroed(milestones[k])
        <5>1. n = 0 /\ milestones[k].amount = 0
          BY <3>3, <4>4 DEF Zeroed
        <5> QED BY <4>2, <5>1
      <4> QED BY <2>1, <4>3, <4>4
    <3> HIDE DEF m, n
    <3> QED BY <2>7, <2>8, <3>1, <3>2, <3>4, <3>5
  <2>9. CASE /\ job.at = "resolve" /\ CanResolve(k, job.amount)
             /\ PaySplit(k, job.reward, job.amount) /\ job' = g
    <3> DEFINE m == [milestones[k] EXCEPT !.resolved = TRUE]
               n == received[c] + job.reward
    <3>1. /\ m \in Milestone /\ m.owner = c /\ m.amount = milestones[k].amount
          /\ m.to = milestones[k].to /\ m.resolved /\ ~m.released /\ ~milestones[k].released
      BY <2>1, <2>9 DEF Milestone, CanResolve, Terminal
    <3>2. milestones' = [milestones EXCEPT ![k] = m]
      BY <2>9 DEF PaySplit
    <3>3. received' = [received EXCEPT ![c] = n] /\ n \in Nat
      BY <1>0, <2>1, <2>9 DEF PaySplit
    <3> HIDE DEF m, n
    <3> QED BY <2>7, <2>9, <2>s, <3>1, <3>2, <3>3
  <2> QED BY <2>3, <2>5, <2>6, <2>8, <2>9
<1> QED BY <1>5, <1>6, <1>7, <1>8, <1>9, <1>10, <1>11 DEF Work

LEMMA StepKept == ~RewriteSettled /\ Kept /\ [Next]_vars => Kept'
<1> SUFFICES ASSUME ~RewriteSettled, Kept, [Next]_vars PROVE Kept'
  OBVIOUS
<1>1. Typed /\ Typed' /\ DualKeeps
  BY StepTyped DEF Kept
<1>2. UNCHANGED dual
  <2>1. CASE (\E b \in Bounties : TakeJob(b)) \/ Work \/ Crash
    BY <2>1 DEF TakeJob, Work, Evaluate, FetchEscrow, PutMilestone, SaveMilestone,
         ApproveMilestone, ReleaseFunds, DisputeForSplit, ResolveForSplit, MarkPaid, JobOnly, Crash
  <2>2. CASE \E r \in Refunds : BeginRefund(r) \/ StepRefund(r) \/ RefundFails(r)
    BY <2>2 DEF BeginRefund, StepRefund, RefundFails, CheckMilestones, NextMilestone,
         DisputeMilestone, ResolveDispute, ReplaceMilestones, ApproveRefund, ReleaseRefund,
         ObserveBalance, WithdrawRest, ListToCancel, FinalizeRefund, Quiet, RefundOnly
  <2>3. CASE Elsewhere
    BY <1>1, <2>3, RowsMove
  <2> QED BY <2>1, <2>2, <2>3 DEF Next, Elsewhere
<1>3. ASSUME dual PROVE RowsKept' /\ ChainKept' /\ JobKept(job)' /\ RejectKept'
  <2>1. /\ RowsKept /\ ChainKept /\ JobKept(job) /\ RejectKept /\ job \in Job /\ JobShape(job)
        /\ reject \in Request
    BY <1>1, <1>3 DEF DualKeeps, Typed
  <2>2. CASE (\E b \in Bounties : TakeJob(b)) \/ Work
    BY <1>3, <2>2, WorkKeeps
  <2>3. CASE Crash
    <3>1. Alike
      BY <2>1, <2>3 DEF Crash, Alike, ChainFollows, Follows, RowFollows, ChainKept, chain, rows
    <3>2. RowsKept' /\ ChainKept'
      BY <1>1, <1>3, <2>1, <3>1, AlikeKeeps
    <3>3. JobKept(job)' /\ RejectKept'
      BY <2>3, RestTyped DEF Crash, JobKept, RejectKept
    <3> QED BY <3>2, <3>3
  <2>4. CASE (\E r \in Refunds : BeginRefund(r) \/ StepRefund(r) \/ RefundFails(r)) \/ Elsewhere
    <3>1. Alike /\ UNCHANGED job /\ RejectKept'
      BY <1>1, <1>3, <2>1, <2>4, OthersKeep
    <3>2. RowsKept' /\ ChainKept'
      BY <1>1, <1>3, <2>1, <3>1, AlikeKeeps
    <3>3. PICK j \in Job : j = job
      BY <2>1
    <3>4. JobKept(j)'
      BY <1>1, <2>1, <3>1, <3>3, AlikeJob DEF JobShape
    <3> QED BY <3>1, <3>2, <3>3, <3>4 DEF JobKept, DocKept, SettledFor
  <2> QED BY <2>2, <2>3, <2>4 DEF Next, Elsewhere
<1> QED BY <1>1, <1>2, <1>3 DEF Kept, DualKeeps

LEMMA KeptPaid == Kept => PaidMeansReceived
BY DEF Kept, DualKeeps, RowsKept, RowKept, SettledFor, PaidMeansReceived

\* When the resolver has its own wallet and the provider keeps what is settled, a
\* bounty is recorded as paid only if its contributor has its amount, or a split was
\* asked for and its milestone resolved, or its milestone was emptied and released,
\* whatever is refunded, rejected, deleted, or fails meanwhile: the worker never
\* takes a refunded milestone for a full payout.
THEOREM PaidIsReceived == ~RewriteSettled => (Spec => []PaidMeansReceived)
<1> SUFFICES ASSUME ~RewriteSettled PROVE Spec => []PaidMeansReceived
  OBVIOUS
<1>1. Init => Kept
  BY InitKept
<1>2. Kept /\ [Next]_vars => Kept'
  BY StepKept
<1>3. Kept => PaidMeansReceived
  BY KeptPaid
<1> QED BY <1>1, <1>2, <1>3, PTL DEF Spec

------------------------------------------------------------------------------
(* Types in full: no sum of money falls below zero, and the contract never *)
(* holds more milestones than bounties and crashes account for.            *)

\* A refund never takes more than it may still spend.
Affordable(p) ==
  /\ p.remaining \in Nat /\ p.amount \in Nat
  /\ p.at \in {"dispute", "resolve"} => p.amount <= p.remaining
Solvent == \A r \in Refunds : Affordable(refund[r])

\* A milestone is that of a bounty, one that is about to be saved, or left by a crash.
Pushed ==
  {b \in Bounties : bounty[b].idx # 0 \/ (job.at = "save" /\ job.b = b)}
Room ==
  /\ \A b \in Bounties : bounty[b].idx <= Len(milestones)
  /\ job.idx <= Len(milestones)
  /\ job.at \in {"chain", "fetch", "put"} => job.idx = bounty[job.b].idx
  /\ job.at = "put" => job.idx <= Len(job.doc) /\ Len(job.doc) <= Len(milestones)
  /\ job.at = "save" => job.idx # 0
  /\ Len(milestones) <= Cardinality(Pushed) + mishaps
\* A deletion knows a milestone there is, and has read no more than there are.
RejectRoom ==
  /\ reject.idx <= Len(milestones)
  /\ reject.at = "zero" => Len(reject.doc) <= Len(milestones)

Counted ==
  /\ Typed /\ Room /\ RejectRoom
  /\ balance \in Nat /\ mishaps \in 0..MaxMishaps
  /\ Solvent

\* What a refund that goes on may spend.
Pays(q, s, m, a) == q.at = s /\ q.remaining = m /\ q.amount = a
LEMMA WalkPays ==
  ASSUME NEW p \in Walk
  PROVE  /\ \A s : Pays([p EXCEPT !.at = s], s, p.remaining, p.amount)
         /\ \A s, k : Pays([p EXCEPT !.at = s, !.k = k], s, p.remaining, p.amount)
         /\ \A s, k, m, a :
              Pays([p EXCEPT !.at = s, !.k = k, !.remaining = m, !.amount = a], s, m, a)
         /\ \A s, m, a : Pays([p EXCEPT !.at = s, !.remaining = m, !.amount = a], s, m, a)
         /\ \A s, a : Pays([p EXCEPT !.at = s, !.amount = a], s, p.remaining, a)
         /\ \A s, l : Pays([p EXCEPT !.at = s, !.list = l], s, p.remaining, p.amount)
BY DEF Pays, Walk

LEMMA PaysAffordable ==
  ASSUME NEW q, NEW s, NEW m \in Nat, NEW a \in Nat, Pays(q, s, m, a),
         s \in {"dispute", "resolve"} => a <= m
  PROVE  Affordable(q)
BY DEF Pays, Affordable

LEMMA RestAffordable ==
  Affordable(NoRefund) /\ Affordable([NoRefund EXCEPT !.at = "done"])
<1>1. Affordable(NoRefund)
  BY DEF NoRefund, Affordable
<1>2. Pays([NoRefund EXCEPT !.at = "done"], "done", NoRefund.remaining, NoRefund.amount)
  BY RestTyped, WalkPays, Zenon
<1>3. Affordable([NoRefund EXCEPT !.at = "done"])
  BY <1>1, <1>2 DEF Affordable, Pays
<1> QED BY <1>1, <1>3

\* A refund spends what it may, and the contract pays what it has.
LEMMA RefundSpends ==
  ASSUME Counted, NEW r \in Refunds, BeginRefund(r) \/ StepRefund(r) \/ RefundFails(r)
  PROVE  balance' \in Nat /\ Solvent'
<1> DEFINE p == refund[r]
<1>0. /\ p = refund[r] /\ p \in Walk /\ Affordable(p) /\ p.k \in Nat \ {0} /\ p.seen \in Seq(Milestone)
      /\ p.remaining \in Nat /\ p.amount \in Nat /\ balance \in Nat
      /\ refund \in [Refunds -> Walk] /\ milestones \in Seq(Milestone)
  BY DEF Counted, Solvent, Typed, Walk, Affordable
<1> HIDE DEF p
<1>1. ASSUME NEW q, refund' = [refund EXCEPT ![r] = q], Affordable(q) PROVE Solvent'
  BY <1>0, <1>1 DEF Counted, Solvent
<1>2. ASSUME NEW q, NEW s, NEW m \in Nat, NEW a \in Nat, Pays(q, s, m, a),
             s \in {"dispute", "resolve"} => a <= m, refund' = [refund EXCEPT ![r] = q]
      PROVE  Solvent'
  BY <1>1, <1>2, PaysAffordable
<1>3. Refused(r) => Solvent' /\ UNCHANGED balance
  BY <1>1, RestAffordable DEF Refused, chain
\* It goes on with the same sums.
<1>4. ASSUME NEW s \in RefundStages \ {"dispute"}, refund' = [refund EXCEPT ![r] = [p EXCEPT !.at = s]],
             s = "resolve" => p.at = "dispute"
      PROVE  Solvent'
  <2>1. Pays([p EXCEPT !.at = s], s, p.remaining, p.amount)
    BY <1>0, WalkPays, Zenon
  <2>2. s \in {"dispute", "resolve"} => p.amount <= p.remaining
    BY <1>0, <1>4 DEF Affordable
  <2> QED BY <1>0, <1>2, <1>4, <2>1, <2>2
<1>5. ASSUME NEW s \in RefundStages \ {"dispute", "resolve"}, NEW k,
             refund' = [refund EXCEPT ![r] = [p EXCEPT !.at = s, !.k = k]]
      PROVE  Solvent'
  <2>1. Pays([p EXCEPT !.at = s, !.k = k], s, p.remaining, p.amount)
    BY <1>0, WalkPays, Zenon
  <2> QED BY <1>0, <1>2, <1>5, <2>1
\* A release by the contract.
<1>6. ASSUME NEW k \in 1..Len(milestones), CanRelease(k), Release(k) PROVE balance' \in Nat
  <2>1. milestones[k].amount \in Nat
    <3>1. milestones[k] \in Milestone
      BY <1>0
    <3> QED BY <3>1 DEF Milestone
  <2> QED BY <1>0, <1>6, <2>1 DEF CanRelease, Release
<1>7. CASE BeginRefund(r)
  <2> DEFINE m == IF dual THEN balance ELSE 0
             q == [NoRefund EXCEPT !.at = "check", !.seen = milestones, !.remaining = m]
  <2>1. UNCHANGED balance /\ refund' = [refund EXCEPT ![r] = q]
    BY <1>7 DEF BeginRefund, chain
  <2>2. m \in Nat
    BY <1>0
  <2>3. Pays(q, "check", m, 0)
    BY DEF NoRefund, Pays
  <2> HIDE DEF q, m
  <2>4. Affordable(q)
    BY <2>2, <2>3 DEF Pays, Affordable
  <2> QED BY <1>0, <1>1, <2>1, <2>4
<1>c. CASE CheckMilestones(r)
  <2>1. UNCHANGED balance /\ (Refused(r) \/ RefundGoto(r, "next") \/ RefundGoto(r, "put"))
    BY <1>c DEF CheckMilestones, Refused, chain
  <2>2. {"next", "put"} \subseteq RefundStages \ {"dispute"}
    BY DEF RefundStages
  <2>3. \A s : RefundGoto(r, s) => refund' = [refund EXCEPT ![r] = [p EXCEPT !.at = s]]
    BY <1>0 DEF RefundGoto
  <2> QED BY <1>0, <1>3, <1>4, <2>1, <2>2, <2>3
<1>8. CASE NextMilestone(r)
  <2> DEFINE left == {k \in p.k..Len(p.seen) : ~Passed(p.seen[k])}
             k == CHOOSE k \in left : \A j \in left : k <= j
             amount == p.seen[k].amount
             remaining == IF balance < p.remaining THEN balance ELSE p.remaining
             a == IF amount < remaining THEN amount ELSE remaining
             s == FirstStep(p.seen[k])
  <2>0. UNCHANGED balance
    BY <1>8 DEF NextMilestone, chain
  <2>1. \/ refund' = [refund EXCEPT ![r] = [p EXCEPT !.at = "observe", !.k = 1]]
        \/ left # {} /\ refund' = [refund EXCEPT ![r] =
             [p EXCEPT !.at = s, !.k = k, !.remaining = remaining, !.amount = a]]
        \/ refund' = [refund EXCEPT ![r] = NoRefund]
        \/ refund' = [refund EXCEPT ![r] = [p EXCEPT !.at = "approve", !.k = k]]
    BY <1>8 DEF NextMilestone, p
  <2>2. ASSUME left # {} PROVE amount \in Nat
    <3>1. left \in SUBSET Nat
      BY <1>0
    <3>2. \E m \in left : \A j \in left : m <= j
      BY <1>0, <2>2, <3>1, Least
    <3>3. k \in left
      BY <3>2
    <3>4. PICK h \in p.k..Len(p.seen) : h = k
      BY <3>3
    <3> HIDE DEF k
    <3>5. p.seen[h] \in Milestone
      BY <1>0
    <3> QED BY <3>4, <3>5 DEF Milestone
  <2>3. CASE left # {} /\ refund' = [refund EXCEPT ![r] =
               [p EXCEPT !.at = s, !.k = k, !.remaining = remaining, !.amount = a]]
    <3>1. amount \in Nat /\ remaining \in Nat
      BY <1>0, <2>2, <2>3
    <3> HIDE DEF amount, remaining
    <3>2. a \in Nat /\ a <= remaining
      BY <3>1
    <3> HIDE DEF a, s, k, left
    <3>3. Pays([p EXCEPT !.at = s, !.k = k, !.remaining = remaining, !.amount = a], s, remaining, a)
      BY <1>0, WalkPays, Zenon
    <3> QED BY <1>0, <1>2, <2>0, <2>3, <3>1, <3>2, <3>3
  <2>4. "observe" \in RefundStages \ {"dispute", "resolve"}
        /\ "approve" \in RefundStages \ {"dispute", "resolve"}
    BY DEF RefundStages
  <2> HIDE DEF left, k, amount, remaining, a, s
  <2>5. CASE refund' = [refund EXCEPT ![r] = NoRefund]
    BY <1>0, <1>1, <2>0, <2>5, RestAffordable
  <2> QED BY <1>0, <1>5, <2>0, <2>1, <2>3, <2>4, <2>5
<1>9. CASE DisputeMilestone(r) \/ ReplaceMilestones(r) \/ ApproveRefund(r)
  <2>1. UNCHANGED balance
    BY <1>9 DEF DisputeMilestone, ReplaceMilestones, ApproveRefund, Dispute, UpdateEscrow, Approve,
                Refused, chain
  <2>2. \/ Refused(r)
        \/ p.at = "dispute" /\ RefundGoto(r, "resolve")
        \/ RefundGoto(r, "next") \/ RefundGoto(r, "release")
    BY <1>0, <1>9 DEF DisputeMilestone, ReplaceMilestones, ApproveRefund
  <2>3. {"resolve", "next", "release"} \subseteq RefundStages \ {"dispute"}
    BY DEF RefundStages
  <2>4. \A s : RefundGoto(r, s) => refund' = [refund EXCEPT ![r] = [p EXCEPT !.at = s]]
    BY <1>0 DEF RefundGoto
  <2> QED BY <1>0, <1>3, <1>4, <2>1, <2>2, <2>3, <2>4
<1>10. CASE ResolveDispute(r)
  <2> DEFINE q == [p EXCEPT !.at = "next", !.k = p.k + 1, !.remaining = p.remaining - p.amount,
                            !.amount = 0]
  <2>1. /\ p.amount <= p.remaining
        /\ \/ Refused(r)
           \/ refund' = [refund EXCEPT ![r] = q] /\ p.amount <= balance /\ balance' = balance - p.amount
    BY <1>0, <1>10 DEF ResolveDispute, CanResolve, Resolve, Affordable
  <2>2. Pays(q, "next", p.remaining - p.amount, 0)
    BY <1>0, WalkPays, Zenon
  <2>3. p.remaining - p.amount \in Nat
    BY <1>0, <2>1
  <2> HIDE DEF q
  <2> QED BY <1>0, <1>2, <1>3, <2>1, <2>2, <2>3
<1>11. CASE ReleaseRefund(r)
  <2>1. \/ Refused(r)
        \/ /\ CanRelease(p.k) /\ Release(p.k)
           /\ refund' = [refund EXCEPT ![r] = [p EXCEPT !.at = "next", !.k = p.k + 1]]
    BY <1>0, <1>11 DEF ReleaseRefund
  <2>2. p.k \in 1..Len(milestones)
    BY <1>0, <1>11 DEF Counted, Typed, WalkShape, ReleaseRefund
  <2>3. "next" \in RefundStages \ {"dispute", "resolve"}
    BY DEF RefundStages
  <2> QED BY <1>0, <1>3, <1>5, <1>6, <2>1, <2>2, <2>3
<1>12. CASE ObserveBalance(r)
  <2> DEFINE rest == IF dual /\ p.remaining < balance THEN p.remaining ELSE balance
             s == IF rest > 0 THEN "withdraw" ELSE "list"
             q == [p EXCEPT !.at = s, !.remaining = 0, !.amount = rest]
  <2>1. refund' = [refund EXCEPT ![r] = q] /\ UNCHANGED balance
    BY <1>0, <1>12 DEF ObserveBalance, chain
  <2>2. rest \in Nat /\ s \notin {"dispute", "resolve"}
    BY <1>0
  <2> HIDE DEF rest, s
  <2>3. Pays(q, s, 0, rest)
    BY <1>0, WalkPays, Zenon
  <2> HIDE DEF q
  <2> QED BY <1>0, <1>2, <2>1, <2>2, <2>3
<1>13. CASE WithdrawRest(r)
  <2> DEFINE q == [p EXCEPT !.at = "list", !.amount = 0]
  <2>1. \/ Refused(r)
        \/ p.amount <= balance /\ balance' = balance - p.amount /\ refund' = [refund EXCEPT ![r] = q]
    BY <1>0, <1>13 DEF WithdrawRest
  <2>2. Pays(q, "list", p.remaining, 0)
    BY <1>0, WalkPays, Zenon
  <2> HIDE DEF q
  <2> QED BY <1>0, <1>2, <1>3, <2>1, <2>2
<1>14. CASE ListToCancel(r)
  <2> DEFINE q == [p EXCEPT !.at = "finalize", !.list = {b \in Bounties : Cancellable(b)}]
  <2>1. refund' = [refund EXCEPT ![r] = q] /\ UNCHANGED balance
    BY <1>0, <1>14 DEF ListToCancel, chain
  <2>2. Pays(q, "finalize", p.remaining, p.amount)
    BY <1>0, WalkPays, Zenon
  <2> HIDE DEF q
  <2> QED BY <1>0, <1>2, <2>1, <2>2
<1>15. CASE FinalizeRefund(r)
  <2>1. /\ refund' = [refund EXCEPT ![r] = [NoRefund EXCEPT !.at = "done"]] /\ UNCHANGED balance
    BY <1>15 DEF FinalizeRefund, chain
  <2> QED BY <1>0, <1>1, <2>1, RestAffordable
<1>16. CASE RefundFails(r)
  BY <1>0, <1>3, <1>16 DEF RefundFails
<1> QED
  BY <1>7, <1>c, <1>8, <1>9, <1>10, <1>11, <1>12, <1>13, <1>14, <1>15, <1>16 DEF StepRefund

\* Nobody but the worker pushes a milestone ...
LEMMA RefundLength ==
  ASSUME Typed, NEW r \in Refunds, BeginRefund(r) \/ StepRefund(r) \/ RefundFails(r)
  PROVE  Len(milestones') = Len(milestones)
<1> DEFINE p == refund[r]
           k == p.k
           Calls == \/ CanDispute(k) /\ Dispute(k)
                    \/ CanResolve(k, p.amount) /\ Resolve(k, p.amount)
                    \/ CanApprove(k) /\ Approve(k)
                    \/ CanRelease(k) /\ Release(k)
           doc == [i \in 1..Len(p.seen) |->
                    IF Passed(p.seen[i]) THEN p.seen[i] ELSE Fresh(p.seen[i].owner, "maintainer", p.seen[i].amount)]
<1>0. p \in Walk /\ WalkShape(p) /\ milestones \in Seq(Milestone) /\ p.seen \in Seq(Milestone)
  BY DEF Typed, Walk
<1>1. ASSUME k \in 1..Len(milestones),
             Calls
      PROVE  Len(milestones') = Len(milestones)
  <2>1. Flags(k)
    BY <1>0, <1>1, CallFlags
  <2> QED BY <1>0, <2>1 DEF Flags
<1>2. CASE DisputeMilestone(r) \/ ResolveDispute(r) \/ ApproveRefund(r) \/ ReleaseRefund(r)
  <2>1. k \in 1..Len(milestones)
    BY <1>0, <1>2 DEF WalkShape, DisputeMilestone, ResolveDispute, ApproveRefund, ReleaseRefund
  <2>2. \/ UNCHANGED milestones
        \/ Calls
    BY <1>2 DEF DisputeMilestone, ResolveDispute, ApproveRefund, ReleaseRefund, Refused, chain
  <2> QED BY <1>1, <2>1, <2>2
<1>3. CASE ReplaceMilestones(r)
  <2>1. UNCHANGED milestones \/ (CanUpdate(doc) /\ milestones' = doc)
    BY <1>3 DEF ReplaceMilestones, UpdateEscrow, Refused, chain
  <2>2. Len(doc) = Len(p.seen) /\ Len(p.seen) <= Len(milestones)
    BY <1>0 DEF WalkShape
  <2> HIDE DEF doc
  <2> QED BY <1>0, <2>1, <2>2 DEF CanUpdate
<1>4. CASE BeginRefund(r) \/ CheckMilestones(r) \/ NextMilestone(r) \/ ObserveBalance(r) \/ WithdrawRest(r)
           \/ ListToCancel(r) \/ FinalizeRefund(r) \/ RefundFails(r)
  BY <1>4 DEF BeginRefund, CheckMilestones, NextMilestone, ObserveBalance, WithdrawRest, ListToCancel,
              FinalizeRefund, RefundFails, Refused, chain
<1> QED BY <1>2, <1>3, <1>4 DEF StepRefund

LEMMA PushedFinite ==
  /\ IsFiniteSet(Pushed) /\ Cardinality(Pushed) \in Nat
  /\ Cardinality(Pushed) <= Cardinality(Bounties) /\ Cardinality(Bounties) \in Nat
<1>1. Pushed \subseteq Bounties /\ IsFiniteSet(Bounties)
  BY RefundAssumption DEF Pushed
<1> QED BY <1>1, FS_Subset, FS_CardinalityType

\* ... and then there is room as before.
LEMMA RoomStays ==
  ASSUME Room, Len(milestones') = Len(milestones), Len(milestones) \in Nat, mishaps \in Nat,
         UNCHANGED job, mishaps' \in {mishaps, mishaps + 1},
         job.b \in Bounties \/ job.at = "idle",
         \A b \in Bounties : bounty'[b].idx = bounty[b].idx
  PROVE  Room'
<1>1. Pushed' = Pushed
  BY DEF Pushed
<1>2. Len(milestones) <= Cardinality(Pushed) + mishaps'
  BY PushedFinite DEF Room
<1> QED BY <1>1, <1>2 DEF Room

LEMMA OneMore ==
  ASSUME NEW S, IsFiniteSet(S), NEW x
  PROVE  /\ IsFiniteSet(S \cup {x}) /\ Cardinality(S \cup {x}) \in Nat
         /\ Cardinality(S \cup {x}) <= Cardinality(S) + 1
<1>0. Cardinality(S) \in Nat
  BY FS_CardinalityType
<1>1. CASE x \in S
  <2>1. S \cup {x} = S
    BY <1>1
  <2>2. IsFiniteSet(S \cup {x}) /\ Cardinality(S \cup {x}) = Cardinality(S)
    BY <2>1, Zenon
  <2> QED BY <1>0, <2>2
<1>2. CASE x \notin S
  <2>1. IsFiniteSet(S \cup {x}) /\ Cardinality(S \cup {x}) = Cardinality(S) + 1
    BY <1>2, FS_AddElement
  <2> QED BY <1>0, <2>1
<1> QED BY <1>1, <1>2

\* A crash leaves at most one milestone without its bounty, and is one mishap.
LEMMA CrashRoom ==
  ASSUME Counted, Crash
  PROVE  Room'
<1>0. /\ UNCHANGED <<milestones, bounty>> /\ mishaps' = mishaps + 1 /\ job' = NoJob
      /\ mishaps \in Nat /\ Len(milestones) \in Nat /\ bounty \in [Bounties -> Row]
  BY RefundAssumption DEF Crash, Mishap, chain, rows, Counted, Typed, Rows
<1>1. Len(milestones) <= Cardinality(Pushed) + mishaps
  BY DEF Counted, Room
<1>2. NoJob.at = "idle" /\ NoJob.idx = 0
  BY DEF NoJob
<1>3. IsFiniteSet(Pushed) /\ IsFiniteSet(Pushed') /\ Cardinality(Pushed) \in Nat
      /\ Cardinality(Pushed') \in Nat
  <2>1. Pushed' \subseteq Bounties /\ IsFiniteSet(Bounties)
    BY RefundAssumption DEF Pushed
  <2> QED BY <2>1, PushedFinite, FS_Subset, FS_CardinalityType
<1>4. Cardinality(Pushed) <= Cardinality(Pushed') + 1
  <2>1. Pushed \subseteq Pushed' \cup {job.b}
    BY <1>0 DEF Pushed
  <2>2. IsFiniteSet(Pushed' \cup {job.b}) /\ Cardinality(Pushed' \cup {job.b}) \in Nat
        /\ Cardinality(Pushed' \cup {job.b}) <= Cardinality(Pushed') + 1
    BY <1>3, OneMore
  <2>3. Cardinality(Pushed) <= Cardinality(Pushed' \cup {job.b})
    BY <2>1, <2>2, FS_Subset
  <2> QED BY <1>3, <2>2, <2>3
<1>5. Len(milestones') <= Cardinality(Pushed') + mishaps'
  BY <1>0, <1>1, <1>3, <1>4
<1> QED BY <1>0, <1>2, <1>5 DEF Counted, Room

\* The worker pushes a milestone for a bounty that has none.
LEMMA WorkRoom ==
  ASSUME Counted, (\E b \in Bounties : TakeJob(b)) \/ Work
  PROVE  Room' /\ balance' \in Nat /\ Len(milestones) <= Len(milestones')
<1> DEFINE c == job.b
           k == job.idx
           L == Len(milestones)
           C == Cardinality(Pushed)
<1>0. /\ Typed /\ Room /\ job \in Job /\ JobShape(job) /\ k \in Nat /\ job.doc \in Seq(Milestone)
      /\ milestones \in Seq(Milestone) /\ L \in Nat /\ balance \in Nat /\ mishaps \in Nat
      /\ bounty \in [Bounties -> Row] /\ L <= C + mishaps /\ C \in Nat
  BY RefundAssumption, PushedFinite DEF Counted, Typed, Rows, Job, Room
<1>1. UNCHANGED mishaps
  BY DEF TakeJob, Work, Evaluate, FetchEscrow, PutMilestone, SaveMilestone, ApproveMilestone,
         ReleaseFunds, DisputeForSplit, ResolveForSplit, MarkPaid, JobOnly
<1>2. /\ NoJob \in Job /\ NoJob.at = "idle" /\ NoJob.idx = 0 /\ NoJob.doc = <<>>
  BY RestTyped DEF NoJob
\* It goes on or rests, before the push or after the save.
<1>3. ASSUME Len(milestones') = L, \A b \in Bounties : bounty'[b].idx = bounty[b].idx,
             job'.idx <= L, job'.at # "save", job.at # "save", c \in Bounties \/ job.at = "idle",
             job'.at \in {"chain", "fetch", "put"} => job'.b \in Bounties /\ job'.idx = bounty[job'.b].idx,
             job'.at = "put" => job'.idx <= Len(job'.doc) /\ Len(job'.doc) <= L
      PROVE  Room'
  <2>1. Pushed' = Pushed
    BY <1>3 DEF Pushed
  <2> QED BY <1>0, <1>1, <1>3, <2>1 DEF Room
<1>4. ASSUME NEW b \in Bounties, TakeJob(b) PROVE Room' /\ balance' \in Nat /\ L <= Len(milestones')
  <2> DEFINE j == [NoJob EXCEPT !.at = "chain", !.b = b, !.status = bounty[b].status,
                                !.idx = bounty[b].idx, !.reward = bounty[b].reward]
  <2>1. j.at = "chain" /\ j.b = b /\ j.idx = bounty[b].idx
    BY DEF NoJob
  <2>2. job' = j /\ UNCHANGED <<milestones, balance, bounty>> /\ job.at = "idle"
    BY <1>4 DEF TakeJob, chain
  <2> HIDE DEF j
  <2>3. bounty[b].idx <= L
    BY <1>0 DEF Room
  <2> QED BY <1>0, <1>3, <2>1, <2>2, <2>3
<1>5. CASE Evaluate
  <2> DEFINE n == IF Decision = "dispute" THEN milestones[k].amount ELSE 0
             j == [NoJob EXCEPT !.at = Decision, !.b = c, !.idx = k,
                                !.reward = job.reward, !.amount = n]
  <2>1. Decision \in {"idle", "fetch", "record", "approve", "dispute"}
    BY DEF Decision
  <2>2. c \in Bounties /\ k = bounty[c].idx /\ k <= L
    BY <1>0, <1>5 DEF Evaluate, JobShape, Room
  <2>3. j.at = Decision /\ j.b = c /\ j.idx = k
    BY DEF NoJob
  <2>4. (job' = NoJob \/ job' = j) /\ UNCHANGED <<milestones, balance, bounty>> /\ job.at = "chain"
    BY <1>5 DEF Evaluate, chain
  <2> HIDE DEF j
  <2> QED BY <1>0, <1>2, <1>3, <2>1, <2>2, <2>3, <2>4
<1>6. CASE FetchEscrow
  <2> DEFINE j == [job EXCEPT !.at = "put", !.doc = milestones]
  <2>1. j.at = "put" /\ j.b = c /\ j.idx = k /\ j.doc = milestones
    BY <1>0 DEF Job
  <2>2. job' = j /\ UNCHANGED <<milestones, balance, bounty>> /\ job.at = "fetch"
    BY <1>6 DEF FetchEscrow, chain
  <2>3. c \in Bounties /\ k = bounty[c].idx /\ k <= L
    BY <1>0, <2>2 DEF JobShape, Room
  <2> HIDE DEF j
  <2> QED BY <1>0, <1>3, <2>1, <2>2, <2>3
<1>7. CASE PutMilestone
  <2> DEFINE m == Fresh(c, "contributor", job.reward)
             fits == Fits(k, job.doc)
             doc == IF fits THEN [job.doc EXCEPT ![k] = m] ELSE Append(job.doc, m)
             n == IF fits THEN k ELSE Len(doc)
             j == [job EXCEPT !.at = "save", !.idx = n, !.doc = <<>>]
  <2>1. /\ c \in Bounties /\ k = bounty[c].idx /\ k <= Len(job.doc) /\ Len(job.doc) <= L
        /\ job.at = "put" /\ UNCHANGED <<balance, bounty>>
    BY <1>0, <1>7 DEF PutMilestone, JobShape, Room, UpdateEscrow, chain
  <2>2. \/ CanUpdate(doc) /\ milestones' = doc /\ job' = j
        \/ job' = NoJob /\ UNCHANGED milestones
    BY <1>7 DEF PutMilestone, UpdateEscrow, JobOver, chain
  <2>3. CASE job' = NoJob /\ UNCHANGED milestones
    BY <1>0, <1>2, <1>3, <2>1, <2>3
  <2>4. CASE CanUpdate(doc) /\ milestones' = doc /\ job' = j
    <3>1. j.at = "save" /\ j.b = c /\ j.idx = n
      BY <1>0 DEF Job
    <3> HIDE DEF j, m
    <3>2. L <= Len(doc)
      BY <2>4 DEF CanUpdate
    <3>3. CASE fits
      <4>1. Len(doc) = Len(job.doc) /\ n = k /\ k # 0 /\ k \in 1..Len(job.doc)
        BY <1>0, <3>3 DEF Fits
      <4> HIDE DEF doc, fits, n
      <4>2. Pushed' = Pushed
        BY <2>1, <2>4, <3>1, <4>1 DEF Pushed
      <4> QED BY <1>0, <1>1, <2>1, <2>4, <3>1, <3>2, <4>1, <4>2 DEF Room
    <3>4. CASE ~fits
      <4>1. k = 0
        BY <1>0, <2>1, <3>4 DEF Fits
      <4>2. Len(doc) = Len(job.doc) + 1 /\ n = Len(doc)
        BY <1>0, <3>4
      <4> HIDE DEF doc, fits, n
      <4>3. Pushed' = Pushed \cup {c} /\ c \notin Pushed
        BY <2>1, <2>4, <3>1, <4>1 DEF Pushed
      <4>4. Cardinality(Pushed') = C + 1
        BY <4>3, PushedFinite, FS_AddElement
      <4>5. Len(doc) <= L + 1 /\ Len(doc) \in Nat /\ n # 0
        BY <1>0, <2>1, <4>2
      <4>6. Len(milestones') <= Cardinality(Pushed') + mishaps'
        BY <1>0, <1>1, <2>4, <4>4, <4>5
      <4>7. \A b \in Bounties : bounty'[b].idx <= Len(milestones')
        <5>1. \A b \in Bounties : bounty[b].idx \in Nat /\ bounty[b].idx <= L
          BY <1>0 DEF Room, Row
        <5> QED BY <1>0, <2>1, <2>4, <3>2, <4>5, <5>1
      <4>8. job'.idx = Len(milestones') /\ job'.idx # 0 /\ job'.at = "save"
        BY <2>4, <3>1, <4>2, <4>5
      <4>9. Len(milestones') \in Nat /\ balance' \in Nat
        BY <1>0, <2>1, <2>4, <4>5
      <4> QED BY <1>0, <2>1, <2>4, <3>2, <4>6, <4>7, <4>8, <4>9 DEF Room
    <3> QED BY <1>0, <2>1, <3>3, <3>4
  <2> QED BY <2>2, <2>3, <2>4
<1>8. CASE SaveMilestone
  <2> DEFINE g == [bounty[c] EXCEPT !.status = "assigned", !.idx = k]
  <2>1. /\ c \in Bounties /\ k # 0 /\ k <= L /\ bounty[c] \in Row
    BY <1>0, <1>8 DEF SaveMilestone, JobShape, Room
  <2>2. /\ bounty' = [bounty EXCEPT ![c] = g] /\ g.idx = k
        /\ job' = NoJob /\ UNCHANGED <<milestones, balance>> /\ job.at = "save"
    BY <1>8, <2>1 DEF SaveMilestone, JobOver, chain, Row
  <2> HIDE DEF g
  <2>3. bounty'[c].idx = k /\ \A b \in Bounties : b # c => bounty'[b] = bounty[b]
    BY <1>0, <2>1, <2>2
  <2>4. Pushed' = Pushed
    BY <1>2, <2>1, <2>2, <2>3 DEF Pushed
  <2>5. \A b \in Bounties : bounty'[b].idx <= L
    BY <1>0, <2>1, <2>3 DEF Room
  <2>6. job'.at = "idle" /\ job'.idx = 0
    BY <1>2, <2>2
  <2>7. Len(milestones') = L /\ L <= Cardinality(Pushed') + mishaps'
    BY <1>0, <1>1, <2>2, <2>4
  <2> QED BY <1>0, <2>2, <2>5, <2>6, <2>7 DEF Room
<1>9. CASE MarkPaid
  <2>1. c \in Bounties /\ job.at = "record"
    BY <1>0, <1>9 DEF MarkPaid, JobShape
  <2>2. /\ bounty' = [bounty EXCEPT ![c] = [bounty[c] EXCEPT !.status = "paid"]]
        /\ job' = NoJob /\ UNCHANGED <<milestones, balance>>
    BY <1>9 DEF MarkPaid, JobOver, chain
  <2>3. \A b \in Bounties : bounty'[b].idx = bounty[b].idx
    <3>1. [bounty[c] EXCEPT !.status = "paid"].idx = bounty[c].idx
      BY <1>0, <2>1 DEF Row
    <3> QED BY <1>0, <2>2, <3>1
  <2> QED BY <1>0, <1>2, <1>3, <2>1, <2>2, <2>3
<1>10. CASE ApproveMilestone \/ ReleaseFunds \/ DisputeForSplit \/ ResolveForSplit
  <2> DEFINE g == [NoJob EXCEPT !.at = "record", !.b = c]
             h == [job EXCEPT !.at = "release"]
             i == [job EXCEPT !.at = "resolve"]
  <2>1. /\ k \in 1..L /\ c \in Bounties /\ job.at \in {"approve", "release", "dispute", "resolve"}
        /\ UNCHANGED bounty
    BY <1>0, <1>10 DEF ApproveMilestone, ReleaseFunds, DisputeForSplit, ResolveForSplit, JobShape
  <2>2. /\ g.at = "record" /\ g.idx = 0 /\ h.at = "release" /\ h.idx = k
        /\ i.at = "resolve" /\ i.idx = k
    BY <1>0 DEF Job, NoJob
  <2>3. /\ \E j \in {g, h, i, NoJob} : job' = j
        /\ \/ UNCHANGED chain
           \/ CanApprove(k) /\ Approve(k)
           \/ CanRelease(k) /\ Release(k)
           \/ CanDispute(k) /\ Dispute(k)
           \/ CanResolve(k, job.amount) /\ PaySplit(k, job.reward, job.amount)
    BY <1>10 DEF ApproveMilestone, ReleaseFunds, DisputeForSplit, ResolveForSplit, Released,
                 JobGoto, JobOver
  <2> HIDE DEF g, h, i
  <2>4. Len(milestones') = L
    <3>1. UNCHANGED milestones \/ Flags(k)
      BY <1>0, <2>1, <2>3, CallFlags DEF chain
    <3> QED BY <1>0, <3>1 DEF Flags
  <2>5. balance' \in Nat
    <3>1. milestones[k] \in Milestone /\ job.amount \in Nat
      BY <1>0, <2>1 DEF Job
    <3>2. milestones[k].amount \in Nat
      BY <3>1 DEF Milestone
    <3> QED BY <1>0, <2>3, <3>1, <3>2 DEF chain, Approve, Dispute, CanRelease, Release,
                                          CanResolve, PaySplit
  <2> QED BY <1>0, <1>2, <1>3, <2>1, <2>2, <2>3, <2>4, <2>5
<1> QED BY <1>4, <1>5, <1>6, <1>7, <1>8, <1>9, <1>10 DEF Work

LEMMA InitCounted == Init => Counted
<1> SUFFICES ASSUME Init PROVE Counted
  OBVIOUS
<1>1. Typed
  BY InitTyped
<1>2. Solvent
  BY RestAffordable DEF Init, Solvent
<1>3. reject.at = "idle" /\ reject.idx = 0
  BY DEF Init, NoReject
<1>4. /\ balance \in Nat /\ mishaps = 0 /\ 0 \in 0..MaxMishaps
      /\ milestones = <<>> /\ Len(milestones) = 0
  BY RefundAssumption DEF Init
<1>5. \A b \in Bounties : bounty[b].idx = 0
  BY DEF Init
<1>6. job.at = "idle" /\ job.idx = 0
  BY DEF Init, NoJob
<1>7. Room /\ RejectRoom
  BY <1>3, <1>4, <1>5, <1>6, PushedFinite DEF Room, RejectRoom
<1> QED BY <1>1, <1>2, <1>4, <1>7 DEF Counted

\* What a deletion knows stays within what there is.
LEMMA RejectRoomStays ==
  ASSUME Counted, UNCHANGED reject, Len(milestones') \in Nat, Len(milestones) <= Len(milestones')
  PROVE  RejectRoom'
<1>1. reject.idx \in Nat /\ Len(reject.doc) \in Nat /\ Len(milestones) \in Nat
  BY DEF Counted, Typed, Request
<1> QED BY <1>1 DEF Counted, RejectRoom

LEMMA ElsewhereRoom ==
  ASSUME Counted, Elsewhere
  PROVE  Len(milestones') = Len(milestones) /\ RejectRoom'
<1>0. /\ reject \in Request /\ reject.idx \in Nat /\ reject.doc \in Seq(Milestone)
      /\ milestones \in Seq(Milestone) /\ Len(milestones) \in Nat /\ RejectRoom
      /\ \A b \in Bounties : bounty[b].idx \in Nat /\ bounty[b].idx <= Len(milestones)
  BY DEF Counted, Typed, Rows, Row, Request
<1>1. Len(milestones') = Len(milestones)
  <2>1. \/ UNCHANGED milestones
        \/ reject.at = "zero" /\ Replaces(Zeroing)
    BY RowsMove DEF Counted
  <2>2. CASE reject.at = "zero" /\ Replaces(Zeroing)
    <3>1. Len(Zeroing) = Len(reject.doc)
      BY <1>0, ZeroingTyped
    <3>2. Len(reject.doc) <= Len(milestones) /\ Len(milestones) <= Len(Zeroing)
      BY <1>0, <2>2 DEF RejectRoom, Replaces, CanUpdate
    <3>3. milestones' = Zeroing
      BY <2>2 DEF Replaces
    <3> QED BY <1>0, <3>1, <3>2, <3>3
  <2> QED BY <2>1, <2>2
<1>2. CASE UNCHANGED reject
  BY <1>0, <1>1, <1>2, RejectRoomStays
<1>3. ASSUME reject'.idx \in {reject.idx, 0} \cup {bounty[b].idx : b \in Bounties},
             reject'.at = "zero" => reject'.doc = milestones
      PROVE  RejectRoom'
  <2>1. reject'.idx <= Len(milestones)
    BY <1>0, <1>3 DEF RejectRoom
  <2>2. reject'.at = "zero" => Len(reject'.doc) <= Len(milestones)
    BY <1>0, <1>3
  <2> QED BY <1>1, <2>1, <2>2 DEF RejectRoom
<1>4. ASSUME NEW b \in Bounties, BeginReject(b) \/ BeginDelete(b) PROVE RejectRoom'
  <2>1. PICK s \in {"cancel", "fetch"} : Begins(b, s)
    BY <1>4 DEF BeginReject, BeginDelete
  <2>2. reject'.idx = bounty[b].idx /\ reject'.at = s
    BY <2>1 DEF Begins, NoReject
  <2> QED BY <1>3, <2>2
<1>5. CASE FetchForZero
  <2>1. reject' = [reject EXCEPT !.at = "zero", !.doc = milestones]
    BY <1>5 DEF FetchForZero
  <2>2. reject'.idx = reject.idx /\ reject'.doc = milestones
    BY <1>0, <2>1 DEF Request
  <2> QED BY <1>1, <1>3, <2>2
<1>6. CASE ZeroMilestone \/ CancelBounty \/ RefundPool
  <2>1. \/ reject' = [reject EXCEPT !.at = "cancel", !.doc = <<>>]
        \/ reject' = [reject EXCEPT !.at = "pool"]
        \/ reject' = [NoReject EXCEPT !.at = "over"]
        \/ reject' = NoReject
    BY <1>6 DEF ZeroMilestone, CancelBounty, RefundPool
  <2>2. reject'.idx \in {reject.idx, 0} /\ reject'.at # "zero"
    <3>1. NoReject.idx = 0 /\ NoReject.at = "idle" /\ [NoReject EXCEPT !.at = "over"].idx = 0
          /\ [NoReject EXCEPT !.at = "over"].at = "over"
      BY DEF NoReject
    <3>2. \A s : [reject EXCEPT !.at = s].idx = reject.idx /\ [reject EXCEPT !.at = s].at = s
      BY <1>0 DEF Request
    <3>3. [reject EXCEPT !.at = "cancel", !.doc = <<>>].idx = reject.idx
          /\ [reject EXCEPT !.at = "cancel", !.doc = <<>>].at = "cancel"
      BY <1>0 DEF Request
    <3> QED BY <2>1, <3>1, <3>2, <3>3
  <2> QED BY <1>1, <1>3, <2>2
<1>7. \A b \in Bounties : MarkMerged(b) \/ ConfigurePayout(b) => UNCHANGED reject
  BY DEF MarkMerged, ConfigurePayout
<1> QED BY <1>1, <1>2, <1>4, <1>5, <1>6, <1>7 DEF Elsewhere, vars

LEMMA StepCounted == Counted /\ [Next]_vars => Counted'
<1> SUFFICES ASSUME Counted, [Next]_vars PROVE Counted'
  OBVIOUS
<1>0. /\ Typed /\ Typed' /\ Room /\ Solvent /\ MaxMishaps \in Nat
      /\ balance \in Nat /\ mishaps \in 0..MaxMishaps
      /\ bounty \in [Bounties -> Row] /\ Len(milestones) \in Nat /\ Len(milestones') \in Nat
      /\ job.b \in Bounties \/ job.at = "idle"
  BY StepTyped, RefundAssumption DEF Counted, Typed, Rows, JobShape
<1>1. ASSUME NEW r \in Refunds, BeginRefund(r) \/ StepRefund(r) \/ RefundFails(r) PROVE Counted'
  <2>1. balance' \in Nat /\ Solvent'
    BY <1>1, RefundSpends
  <2>2. UNCHANGED <<job, reject>>
    BY <1>1 DEF BeginRefund, StepRefund, RefundFails, CheckMilestones, NextMilestone,
         DisputeMilestone, ResolveDispute, ReplaceMilestones, ApproveRefund, ReleaseRefund,
         ObserveBalance, WithdrawRest, ListToCancel, FinalizeRefund, Quiet, RefundOnly
  <2>3. UNCHANGED mishaps \/ Mishap
    BY <1>1 DEF BeginRefund, StepRefund, RefundFails, CheckMilestones, NextMilestone,
         DisputeMilestone, ResolveDispute, ReplaceMilestones, ApproveRefund, ReleaseRefund,
         ObserveBalance, WithdrawRest, ListToCancel, FinalizeRefund, Quiet, RefundOnly
  <2>4. mishaps' \in 0..MaxMishaps /\ mishaps' \in {mishaps, mishaps + 1}
    BY <1>0, <2>3 DEF Mishap
  <2>5. \A b \in Bounties : bounty'[b].idx = bounty[b].idx
    <3>1. CASE UNCHANGED bounty
      BY <3>1
    <3>2. CASE FinalizeRefund(r)
      <4>1. \A b \in Bounties : bounty[b] \in Row
        BY <1>0
      <4>2. \A b \in Bounties : [bounty[b] EXCEPT !.status = "cancelled"].idx = bounty[b].idx
        BY <4>1 DEF Row
      <4> QED BY <3>2, <4>2 DEF FinalizeRefund
    <3>3. UNCHANGED bounty \/ FinalizeRefund(r)
      BY <1>1 DEF BeginRefund, StepRefund, RefundFails, CheckMilestones, NextMilestone,
           DisputeMilestone, ResolveDispute, ReplaceMilestones, ApproveRefund, ReleaseRefund,
           ObserveBalance, WithdrawRest, ListToCancel, Quiet, rows
    <3> QED BY <3>1, <3>2, <3>3
  <2>6. Len(milestones') = Len(milestones)
    BY <1>0, <1>1, RefundLength
  <2>7. Room' /\ RejectRoom'
    BY <1>0, <2>2, <2>4, <2>5, <2>6, RoomStays, RejectRoomStays
  <2> QED BY <1>0, <2>1, <2>4, <2>7 DEF Counted
<1>2. CASE (\E b \in Bounties : TakeJob(b)) \/ Work
  <2>1. UNCHANGED <<refund, reject, mishaps>>
    BY <1>2 DEF TakeJob, Work, Evaluate, FetchEscrow, PutMilestone, SaveMilestone, ApproveMilestone,
         ReleaseFunds, DisputeForSplit, ResolveForSplit, MarkPaid, JobOnly
  <2>2. Room' /\ balance' \in Nat /\ Len(milestones) <= Len(milestones')
    BY <1>2, WorkRoom
  <2>3. RejectRoom'
    BY <1>0, <2>1, <2>2, RejectRoomStays
  <2> QED BY <1>0, <2>1, <2>2, <2>3 DEF Counted, Solvent
<1>3. CASE Crash
  <2>1. /\ UNCHANGED <<milestones, balance>> /\ reject' \in {reject, NoReject} /\ Mishap
        /\ refund' = [r \in Refunds |-> IF refund[r].at = "done" THEN refund[r] ELSE NoRefund]
    BY <1>3 DEF Crash, chain
  <2>2. Solvent'
    BY <1>0, <2>1, RestAffordable DEF Solvent
  <2>3. RejectRoom'
    <3>1. NoReject.at = "idle" /\ NoReject.idx = 0
      BY DEF NoReject
    <3>2. CASE UNCHANGED reject
      BY <1>0, <2>1, <3>2, RejectRoomStays
    <3>3. CASE reject' = NoReject
      BY <1>0, <3>1, <3>3 DEF RejectRoom
    <3> QED BY <2>1, <3>2, <3>3
  <2>4. Room'
    BY <1>3, CrashRoom
  <2>5. mishaps' \in 0..MaxMishaps
    BY <1>0, <2>1 DEF Mishap
  <2> QED BY <1>0, <2>1, <2>2, <2>3, <2>4, <2>5 DEF Counted
<1>4. CASE Elsewhere
  <2>1. /\ UNCHANGED <<balance, job, refund, mishaps>>
        /\ \A b \in Bounties : bounty'[b].idx = bounty[b].idx
    BY <1>0, <1>4, RowsMove
  <2>2. Len(milestones') = Len(milestones) /\ RejectRoom'
    BY <1>4, ElsewhereRoom
  <2>3. Room'
    BY <1>0, <2>1, <2>2, RoomStays
  <2> QED BY <1>0, <2>1, <2>2, <2>3 DEF Counted, Solvent
<1> QED BY <1>1, <1>2, <1>3, <1>4 DEF Next, Elsewhere

LEMMA CountedTypeOK == Counted => TypeOK
<1> SUFFICES ASSUME Counted PROVE TypeOK
  OBVIOUS
<1>0. /\ Typed /\ Room /\ RejectRoom /\ milestones \in Seq(Milestone) /\ Len(milestones) \in Nat
      /\ mishaps \in 0..MaxMishaps /\ MaxMishaps \in Nat
  BY RefundAssumption DEF Counted, Typed
<1>1. Len(milestones) <= MaxMilestones /\ MaxMilestones \in Nat
  BY <1>0, PushedFinite DEF Room, MaxMilestones
<1>2. bounty \in [Bounties -> [status : Statuses, idx : Index, reward : Nat \ {0}]]
  <2>1. \A b \in Bounties : bounty[b].idx \in Nat /\ bounty[b].idx <= Len(milestones)
    BY <1>0 DEF Typed, Rows, Row
  <2>2. \A b \in Bounties : bounty[b].idx \in Index
    BY <1>0, <1>1, <2>1 DEF Index
  <2> QED BY <1>0, <2>2 DEF Typed, Rows, Row
<1>3. job \in [at : JobStages, b : Bounties \cup {Somebody}, status : Statuses, idx : Index,
               reward : Nat, amount : Nat, doc : Seq(Milestone)]
  <2>1. job \in Job /\ job.idx \in Nat /\ job.idx <= Len(milestones)
    BY <1>0 DEF Typed, Room, Job
  <2>2. job.idx \in Index
    BY <1>0, <1>1, <2>1 DEF Index
  <2> QED BY <2>1, <2>2 DEF Job
<1>4. refund \in [Refunds -> [at : RefundStages, seen : Seq(Milestone), k : Nat,
                              remaining : Nat, amount : Nat, list : SUBSET Bounties]]
  <2>1. ASSUME NEW r \in Refunds
        PROVE  refund[r] \in [at : RefundStages, seen : Seq(Milestone), k : Nat,
                              remaining : Nat, amount : Nat, list : SUBSET Bounties]
    <3>1. refund[r] \in Walk /\ refund[r].remaining \in Nat /\ refund[r].amount \in Nat
      BY DEF Counted, Typed, Solvent, Affordable
    <3> QED BY <3>1 DEF Walk
  <2> QED BY <1>0, <2>1 DEF Typed
<1>5. reject \in [at : RejectStages, b : Bounties \cup {Somebody}, idx : Index, reward : Nat,
                  balance : Nat, doc : Seq(Milestone)]
  <2>1. reject \in Request /\ reject.idx \in Nat /\ reject.idx <= Len(milestones)
    BY <1>0 DEF Typed, RejectRoom, Request
  <2>2. reject.idx \in Index
    BY <1>0, <1>1, <2>1 DEF Index
  <2> QED BY <2>1, <2>2 DEF Request
<1> QED BY <1>0, <1>1, <1>2, <1>3, <1>4, <1>5 DEF Counted, Typed, TypeOK

\* Every variable keeps its type: no sum falls below zero, and the list of
\* milestones grows with the bounties pushed and the crashes between a push and
\* its save, and by nothing else.
THEOREM TypeCorrect == Spec => []TypeOK
BY InitCounted, StepCounted, CountedTypeOK, PTL DEF Spec
==============================================================================
