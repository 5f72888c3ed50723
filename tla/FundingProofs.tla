----------------------------- MODULE FundingProofs -----------------------------
(***************************************************************************)
(* Type correctness of Funding, and that no accepted request vanishes, for *)
(* any issues, requests, funders, amounts and numbers of mishaps.          *)
(***************************************************************************)
EXTENDS Funding, TLAPS

------------------------------------------------------------------------------
(* Types, and what the stage of a process says of what it holds.           *)

\* A job that waits may be attempted once more; one that stalled too often is over.
JobShape(j) ==
  /\ j.state = "waiting" => j.attempts < MaxAttempts /\ j.stalls <= MaxStalls
  /\ j.state = "active" => j.attempts > 0 /\ j.stalls <= MaxStalls

\* Only an active job has a handler, and one about to write the pool has enough.
RunShape(u, j) ==
  /\ u.at # "idle" => j.state = "active"
  /\ u.at = "update" => j.amount <= u.balance + u.reward
  /\ u.at = "create" => j.amount <= u.balance

\* The money of a funding under way is on chain.
FundShape(u, n) == u.at \in {"read", "balance"} => Amount <= n

MoneyOK ==
  /\ deployed \in BOOLEAN /\ chain \in Nat /\ pool \in Nat
  /\ bounty \in [Issues -> Bounty]
JobOK == job \in [Requests -> Job] /\ \A r \in Requests : JobShape(job[r])
RowOK == row \in [Requests -> RowStatuses]
RunOK == run \in [Requests -> Run] /\ \A r \in Requests : RunShape(run[r], job[r])
CallOK == call \in [Callers -> Call]
FundOK == fund \in [Funders -> Fund] /\ \A f \in Funders : FundShape(fund[f], chain)
HistoryOK ==
  /\ accepted \subseteq Requests /\ outcome \in [Requests -> Outcomes] /\ cut \subseteq Requests
BudgetOK == mishaps \in 0..MaxMishaps

Typed == MoneyOK /\ JobOK /\ RowOK /\ RunOK /\ CallOK /\ FundOK /\ HistoryOK /\ BudgetOK

\* What Typed is for.
LEMMA TypedImplies == Typed => TypeOK
BY DEF Typed, MoneyOK, JobOK, RowOK, RunOK, CallOK, FundOK, HistoryOK, BudgetOK, TypeOK

\* The resting frames are typed.
LEMMA RestTyped ==
  NoJob \in Job /\ NoRun \in Run /\ NoCall \in Call /\ NoFund \in Fund /\ NoBounty \in Bounty
<1>1. NoJob \in Job
  BY BoundsAssumption DEF NoJob, Job, JobStates
<1>2. NoRun \in Run /\ NoFund \in Fund /\ NoBounty \in Bounty
  BY DEF NoRun, Run, RunStages, NoFund, Fund, FundStages, NoBounty, Bounty, BountyStatuses
<1>3. (CHOOSE r \in Requests : TRUE) \in Requests
  BY RequestsAssumption
<1>4. NoCall \in Call
  BY <1>3 DEF NoCall, Call, CallStages
<1> QED BY <1>1, <1>2, <1>4

\* The amounts a replay may ask for are amounts of requests.
LEMMA AmountsTyped == \A r \in Requests : AmountOf[r] \in Nat /\ AmountsNow(r) \subseteq Nat
BY RequestsAssumption DEF AmountsNow

\* Initially everything rests.
LEMMA InitTyped == Init => Typed
<1> SUFFICES ASSUME Init PROVE Typed
  OBVIOUS
<1>1. MoneyOK
  BY RestTyped DEF Init, MoneyOK
<1>2. JobOK
  BY RestTyped DEF Init, JobOK, JobShape, NoJob
<1>3. RowOK
  BY DEF Init, RowOK, RowStatuses
<1>4. RunOK
  BY RestTyped DEF Init, RunOK, RunShape, NoRun
<1>5. CallOK
  BY RestTyped DEF Init, CallOK
<1>6. FundOK
  BY RestTyped DEF Init, FundOK, FundShape, NoFund
<1>7. HistoryOK /\ BudgetOK
  BY RequestsAssumption, BoundsAssumption DEF Init, HistoryOK, Outcomes, BudgetOK
<1> QED BY <1>1, <1>2, <1>3, <1>4, <1>5, <1>6, <1>7 DEF Typed

\* A handler goes to a stage that asks nothing of what it holds.
LEMMA GotoOK ==
  ASSUME RunOK, NEW r \in Requests, NEW s \in RunStages \ {"update", "create"},
         run[r].at # "idle", Goto(r, s), UNCHANGED job
  PROVE  RunOK'
<1> DEFINE g == [NoRun EXCEPT !.at = s]
<1>1. g \in Run /\ g.at = s
  BY RestTyped DEF Run, NoRun
<1>2. run' = [run EXCEPT ![r] = g]
  BY DEF Goto
<1> HIDE DEF g
<1> QED BY <1>1, <1>2 DEF RunOK, RunShape

\* A handler takes on a frame that is in shape.
LEMMA RunBecomes ==
  ASSUME RunOK, NEW r \in Requests, NEW g \in Run, RunShape(g, job[r]),
         run' = [run EXCEPT ![r] = g], UNCHANGED job
  PROVE  RunOK'
BY DEF RunOK

\* A step of a handler that only moves it, and reads.
LEMMA ReadsTyped ==
  ASSUME Typed, NEW r \in Requests,
         \/ Accept(r) \/ Load(r) \/ Reprice(r) \/ ReadChain(r) \/ SkipSync(r)
         \/ Reserve(r) \/ Report(r) \/ Fault(r)
  PROVE  Typed'
<1> DEFINE u == run[r]
           b == bounty[IssueOf[r]]
<1>0. /\ u \in Run /\ RunShape(u, job[r]) /\ job[r] \in Job /\ b \in Bounty
      /\ chain \in Nat /\ pool \in Nat /\ IssueOf[r] \in Issues
  BY RequestsAssumption DEF Typed, RunOK, JobOK, MoneyOK
<1>1. u.at # "idle"
  BY DEF Accept, Load, Reprice, ReadChain, SkipSync, Reserve, Report, Fault
<1>2. UNCHANGED <<money, job, row, call, fund>>
  BY DEF Accept, Load, Reprice, ReadChain, SkipSync, Reserve, Report, Fault, Quiet, money
<1>3. HistoryOK'
  BY DEF Accept, Load, Reprice, ReadChain, SkipSync, Reserve, Report, Fault, Typed, HistoryOK,
         Outcome, Outcomes, history
<1>4. BudgetOK'
  BY BoundsAssumption
  DEF Accept, Load, Reprice, ReadChain, SkipSync, Reserve, Report, Fault, Typed, BudgetOK,
      Mishap, Quiet
<1>5. RunOK'
  <2>1. CASE Accept(r) \/ Report(r) \/ Fault(r)
    <3>1. \E s \in {"load", "resolve", "fault"} : Goto(r, s)
      BY <2>1 DEF Accept, Report, Fault
    <3> QED BY <1>1, <1>2, <3>1, GotoOK DEF Typed, RunStages
  <2>2. CASE Load(r)
    <3>1. CASE \E s \in {"park", "resolve", "reprice"} : Goto(r, s)
      BY <1>1, <1>2, <3>1, GotoOK DEF Typed, RunStages
    <3>2. CASE run' = [run EXCEPT ![r] = [u EXCEPT !.at = "sync", !.balance = pool]]
      <4> DEFINE g == [u EXCEPT !.at = "sync", !.balance = pool]
      <4>1. g \in Run /\ g.at = "sync"
        BY <1>0 DEF Run, RunStages
      <4> HIDE DEF g
      <4>2. RunShape(g, job[r])
        BY <1>0, <1>1, <4>1 DEF RunShape
      <4> QED BY <1>2, <3>2, <4>1, <4>2, RunBecomes DEF Typed, g
    <3> QED BY <2>2, <3>1, <3>2 DEF Load
  <2>3. CASE Reprice(r)
    <3>1. CASE Goto(r, "park")
      BY <1>1, <1>2, <3>1, GotoOK DEF Typed, RunStages
    <3> DEFINE g == [at |-> "update", balance |-> pool, reward |-> b.reward]
    <3>2. CASE job[r].amount <= b.reward + pool /\ run' = [run EXCEPT ![r] = g]
      <4>1. g \in Run /\ RunShape(g, job[r])
        BY <1>0, <1>1, <3>2 DEF Run, RunStages, RunShape, Bounty, Job
      <4> QED BY <1>2, <3>2, <4>1, RunBecomes DEF Typed
    <3> QED BY <2>3, <3>1, <3>2 DEF Reprice, Goto
  <2>4. CASE ReadChain(r) \/ SkipSync(r)
    <3> DEFINE g == [u EXCEPT !.at = "store", !.balance = chain]
               h == [u EXCEPT !.at = "reserve"]
    <3>1. /\ g \in Run /\ RunShape(g, job[r])
          /\ h \in Run /\ RunShape(h, job[r])
      BY <1>0, <1>1 DEF Run, RunStages, RunShape
    <3>2. run' = [run EXCEPT ![r] = g] \/ run' = [run EXCEPT ![r] = h]
      BY <2>4 DEF ReadChain, SkipSync, Typed, RunOK
    <3> HIDE DEF g, h
    <3> QED BY <1>2, <3>1, <3>2, RunBecomes DEF Typed
  <2>5. CASE Reserve(r)
    <3>1. CASE Goto(r, "park")
      BY <1>1, <1>2, <3>1, GotoOK DEF Typed, RunStages
    <3> DEFINE g == [u EXCEPT !.at = "create", !.balance = pool]
    <3>2. CASE job[r].amount <= pool /\ run' = [run EXCEPT ![r] = g]
      <4>1. g \in Run /\ RunShape(g, job[r])
        BY <1>0, <1>1, <3>2 DEF Run, RunStages, RunShape, Job
      <4> HIDE DEF g
      <4> QED BY <1>2, <3>2, <4>1, RunBecomes DEF Typed
    <3> QED BY <2>5, <3>1, <3>2 DEF Reserve, Goto
  <2> QED BY <2>1, <2>2, <2>3, <2>4, <2>5
<1> QED BY <1>2, <1>3, <1>4, <1>5
    DEF Typed, MoneyOK, JobOK, RowOK, CallOK, FundOK, money

\* A handler that writes the rows or the balance and moves on.
LEMMA WritesTyped ==
  ASSUME Typed, NEW r \in Requests,
         \/ Supersede(r) \/ Update(r) \/ StoreBalance(r) \/ Create(r) \/ Resolve(r)
         \/ Park(r) \/ RecordFault(r)
  PROVE  Typed'
<1> DEFINE u == run[r]
           i == IssueOf[r]
           a == job[r].amount
<1>0. /\ u \in Run /\ RunShape(u, job[r]) /\ job[r] \in Job /\ i \in Issues
      /\ bounty[i] \in Bounty
      /\ chain \in Nat /\ pool \in Nat
  BY RequestsAssumption DEF Typed, RunOK, JobOK, MoneyOK
<1>1. u.at # "idle"
  BY DEF Supersede, Update, StoreBalance, Create, Resolve, Park, RecordFault
<1>2. UNCHANGED <<deployed, chain, job, call, fund, mishaps>>
  BY DEF Supersede, Update, StoreBalance, Create, Resolve, Park, RecordFault, Quiet, money
<1>3. HistoryOK'
  BY DEF Supersede, Update, StoreBalance, Create, Resolve, Park, RecordFault, Typed, HistoryOK,
         Outcome, Outcomes, history
<1>4. RowOK'
  BY DEF Supersede, Update, StoreBalance, Create, Resolve, Park, RecordFault, Quiet, Typed, RowOK,
         RowStatuses, FailureStatus
<1>5. RunOK'
  <2>1. CASE ~StoreBalance(r)
    <3>1. \E s \in {"load", "report", "resolve", "complete", "fail", "retry"} : Goto(r, s)
      BY <2>1 DEF Supersede, Update, Create, Resolve, Park, RecordFault
    <3> QED BY <1>1, <1>2, <3>1, GotoOK DEF Typed, RunStages
  <2>2. CASE StoreBalance(r)
    <3> DEFINE g == [u EXCEPT !.at = "reserve"]
    <3>1. g \in Run /\ RunShape(g, job[r])
      BY <1>0, <1>1 DEF Run, RunStages, RunShape
    <3>2. run' = [run EXCEPT ![r] = g]
      BY <2>2 DEF StoreBalance, Typed, RunOK
    <3> HIDE DEF g
    <3> QED BY <1>2, <3>1, <3>2, RunBecomes DEF Typed
  <2> QED BY <2>1, <2>2
<1>6. MoneyOK'
  <2>1. CASE Supersede(r) \/ Resolve(r) \/ Park(r) \/ RecordFault(r)
    BY <2>1 DEF Supersede, Resolve, Park, RecordFault, money, Typed, MoneyOK
  <2>2. CASE StoreBalance(r)
    BY <1>0, <2>2 DEF StoreBalance, Typed, MoneyOK, Run
  <2>3. CASE Update(r)
    <3>1. a \in Nat /\ u.balance \in Nat /\ u.reward \in Nat /\ a <= u.balance + u.reward
      BY <1>0, <2>3 DEF Update, RunShape, Run, Job
    <3>2. pool' \in Nat
      BY <2>3, <3>1 DEF Update
    <3>3. [bounty[i] EXCEPT !.reward = a] \in Bounty
      BY <1>0, <3>1 DEF Bounty
    <3>4. bounty' = [bounty EXCEPT ![i] = [bounty[i] EXCEPT !.reward = a]]
      BY <2>3 DEF Update, Typed, MoneyOK
    <3>5. bounty' \in [Issues -> Bounty]
      BY <1>0, <3>3, <3>4 DEF Typed, MoneyOK
    <3> QED BY <1>2, <3>2, <3>5 DEF Typed, MoneyOK
  <2>4. CASE Create(r)
    <3>1. a \in Nat /\ u.balance \in Nat /\ a <= u.balance
      BY <1>0, <2>4 DEF Create, RunShape, Run, Job
    <3>2. [status |-> "open", reward |-> a] \in Bounty
      BY <3>1 DEF Bounty, BountyStatuses
    <3>3. pool' \in Nat /\ bounty' \in [Issues -> Bounty]
      BY <1>0, <2>4, <3>1, <3>2 DEF Create, Typed, MoneyOK
    <3> QED BY <1>2, <3>3 DEF Typed, MoneyOK
  <2> QED BY <2>1, <2>2, <2>3, <2>4
<1> QED BY <1>2, <1>3, <1>4, <1>5, <1>6 DEF Typed, JobOK, CallOK, FundOK, BudgetOK

\* A job that is taken on or over: it changes, and its handler with it.
LEMMA JobBecomes ==
  ASSUME Typed, NEW r \in Requests, NEW j \in Job, JobShape(j), NEW g \in Run, RunShape(g, j),
         job' = [job EXCEPT ![r] = j], run' = [run EXCEPT ![r] = g]
  PROVE  JobOK' /\ RunOK'
BY DEF Typed, JobOK, RunOK

\* The worker takes a job and ends it.
LEMMA JobTyped ==
  ASSUME Typed, NEW r \in Requests, Take(r) \/ Complete(r) \/ Fail(r) \/ Retry(r)
  PROVE  Typed'
<1>0. /\ run[r] \in Run /\ RunShape(run[r], job[r])
      /\ job[r] \in Job /\ JobShape(job[r])
  BY DEF Typed, RunOK, JobOK
<1>1. UNCHANGED <<money, row, call, fund, history, mishaps>>
  BY DEF Take, Complete, Fail, Retry, EndJob
<1>2. JobOK' /\ RunOK'
  <2>1. CASE Take(r)
    <3> DEFINE j == [job[r] EXCEPT !.state = "active", !.attempts = @ + 1]
               g == [NoRun EXCEPT !.at = IF job[r].replay THEN "accept" ELSE "supersede"]
    <3>1. job[r].attempts + 1 \in 0..MaxAttempts /\ job[r].attempts + 1 > 0
      BY <1>0, <2>1, BoundsAssumption DEF Take, JobShape, Job
    <3>2. j \in Job /\ JobShape(j) /\ j.state = "active"
      BY <1>0, <2>1, <3>1 DEF Take, Job, JobStates, JobShape
    <3>3. g \in Run /\ g.at \in {"accept", "supersede"}
      BY RestTyped DEF Run, RunStages, NoRun
    <3>4. job' = [job EXCEPT ![r] = j] /\ run' = [run EXCEPT ![r] = g]
      BY <2>1 DEF Take, Typed, JobOK
    <3> HIDE DEF j, g
    <3>5. RunShape(g, j)
      BY <3>2, <3>3 DEF RunShape
    <3> QED BY <3>2, <3>3, <3>4, <3>5, JobBecomes
  <2>2. CASE Complete(r) \/ Fail(r) \/ Retry(r)
    <3>1. PICK s \in {"completed", "failed", "waiting"} :
            EndJob(r, s) /\ (s = "waiting" => job[r].attempts < MaxAttempts)
      BY <2>2 DEF Complete, Fail, Retry
    <3> DEFINE j == [job[r] EXCEPT !.state = s]
    <3>2. job[r].state = "active"
      BY <1>0, <2>2 DEF Complete, Fail, Retry, RunShape
    <3>3. j \in Job /\ JobShape(j)
      BY <1>0, <3>1, <3>2 DEF Job, JobStates, JobShape
    <3>4. job' = [job EXCEPT ![r] = j] /\ run' = [run EXCEPT ![r] = NoRun]
      BY <3>1 DEF EndJob, Typed, JobOK
    <3>5. NoRun \in Run /\ RunShape(NoRun, j)
      BY RestTyped DEF NoRun, RunShape
    <3> HIDE DEF j
    <3> QED BY <3>3, <3>4, <3>5, JobBecomes
  <2> QED BY <2>1, <2>2
<1> QED BY <1>1, <1>2
    DEF Typed, MoneyOK, RowOK, CallOK, FundOK, HistoryOK, BudgetOK, money, history

\* A step of enqueue_webhook.
LEMMA EnqueueTyped ==
  ASSUME Typed, NEW c \in Callers, ReadJobState(c) \/ RemoveJob(c) \/ AddJob(c)
  PROVE  Typed'
<1> DEFINE r == call[c].req
<1>0. /\ call[c] \in Call /\ r \in Requests /\ call[c].amount \in Nat
      /\ call[c].replay \in BOOLEAN
      /\ job[r] \in Job /\ run[r] \in Run /\ RunShape(run[r], job[r])
  BY DEF Typed, CallOK, Call, JobOK, RunOK
<1>1. UNCHANGED <<money, row, run, mishaps>>
  BY DEF ReadJobState, RemoveJob, AddJob
<1>2. HistoryOK'
  BY <1>0 DEF ReadJobState, RemoveJob, AddJob, Answered, history, Typed, HistoryOK
<1>3. CallOK'
  <2>1. \/ CallOver(c)
        \/ \E s \in {"add", "remove"} : CallGoto(c, s)
    BY DEF ReadJobState, RemoveJob, AddJob
  <2>2. CASE CallOver(c)
    BY <2>2, RestTyped DEF CallOver, Typed, CallOK
  <2>3. ASSUME NEW s \in {"add", "remove"}, CallGoto(c, s)
        PROVE  CallOK'
    <3>1. [call[c] EXCEPT !.at = s] \in Call
      BY <1>0 DEF Call, CallStages
    <3>2. call' = [call EXCEPT ![c] = [call[c] EXCEPT !.at = s]]
      BY <2>3 DEF CallGoto, Typed, CallOK
    <3> QED BY <3>1, <3>2 DEF Typed, CallOK
  <2> QED BY <2>1, <2>2, <2>3
<1>4. FundOK'
  <2>1. UNCHANGED fund \/
        fund' = [f \in Funders |-> IF f = c THEN [NoFund EXCEPT !.at = "aborted"] ELSE fund[f]]
    BY DEF ReadJobState, RemoveJob, AddJob
  <2>2. /\ [NoFund EXCEPT !.at = "aborted"] \in Fund
        /\ [NoFund EXCEPT !.at = "aborted"].at = "aborted"
    BY RestTyped DEF Fund, FundStages, NoFund
  <2> DEFINE w == [NoFund EXCEPT !.at = "aborted"]
  <2>3. UNCHANGED chain
    BY <1>1 DEF money
  <2> HIDE DEF w
  <2>4. CASE UNCHANGED fund
    BY <2>3, <2>4 DEF Typed, FundOK
  <2>5. CASE fund' = [f \in Funders |-> IF f = c THEN w ELSE fund[f]]
    BY <2>2, <2>3, <2>5 DEF Typed, FundOK, FundShape, w
  <2> QED BY <2>1, <2>4, <2>5 DEF w
<1>5. JobOK' /\ RunOK'
  <2>1. CASE UNCHANGED job
    BY <1>1, <2>1 DEF Typed, JobOK, RunOK
  <2>2. ASSUME NEW j \in Job, JobShape(j), job[r].state # "active", job' = [job EXCEPT ![r] = j]
        PROVE  JobOK' /\ RunOK'
    <3>1. run[r].at = "idle"
      BY <1>0, <2>2 DEF RunShape
    <3>2. RunShape(run[r], j) /\ run' = [run EXCEPT ![r] = run[r]]
      BY <1>1, <3>1 DEF RunShape, Typed, RunOK
    <3> QED BY <1>0, <2>2, <3>2, JobBecomes
  <2> DEFINE n == [NoJob EXCEPT !.state = "waiting", !.replay = call[c].replay,
                                !.amount = call[c].amount]
  <2>3. /\ NoJob \in Job /\ JobShape(NoJob)
        /\ n \in Job /\ JobShape(n)
    <3>1. MaxAttempts \in Nat /\ MaxAttempts > 0 /\ MaxStalls \in Nat
      BY BoundsAssumption
    <3>2. n \in Job
      BY <1>0, RestTyped DEF Job, JobStates
    <3>3. n.state = "waiting" /\ n.attempts = 0 /\ n.stalls = 0
      BY RestTyped DEF Job, NoJob
    <3> HIDE DEF n
    <3>4. JobShape(n) /\ JobShape(NoJob)
      BY <3>1, <3>3 DEF JobShape, NoJob
    <3> QED BY <3>2, <3>4, RestTyped
  <2>4. \/ UNCHANGED job
        \/ job[r].state # "active" /\ job' = [job EXCEPT ![r] = NoJob]
        \/ job[r].state # "active" /\ job' = [job EXCEPT ![r] = n]
    BY DEF ReadJobState, RemoveJob, AddJob
  <2> HIDE DEF n
  <2> QED BY <2>1, <2>2, <2>3, <2>4
<1> QED BY <1>1, <1>2, <1>3, <1>4, <1>5 DEF Typed, MoneyOK, RowOK, BudgetOK, money

\* A step of a funding, of the wake after it, or of GitHub.
LEMMA FundingTyped ==
  ASSUME Typed,
         \/ \E r \in Requests : Deliver(r)
         \/ \E f \in Funders :
              \/ Submit(f) \/ ReadBalance(f) \/ AwaitBalance(f) \/ WriteBalance(f) \/ WakeRepo(f)
              \/ (\E r \in Requests : RecoverTask(f, r)) \/ RecoverFails(f) \/ WakeOver(f)
  PROVE  Typed'
<1>1. ASSUME NEW c \in Callers, NEW r \in Requests, NEW p \in BOOLEAN, NEW a \in Nat,
             call' = [call EXCEPT ![c] = Asking(r, p, a)]
      PROVE  CallOK'
  <2>1. Asking(r, p, a) \in Call
    BY DEF Asking, Call, CallStages
  <2> QED BY <1>1, <2>1 DEF Typed, CallOK
<1>2. ASSUME NEW r \in Requests, Deliver(r)
      PROVE  Typed'
  <2>1. CallOK'
    BY <1>1, <1>2, AmountsTyped DEF Deliver, Callers
  <2>2. BudgetOK'
    BY <1>2, BoundsAssumption DEF Deliver, Mishap, Typed, BudgetOK
  <2> QED BY <1>2, <2>1, <2>2
      DEF Deliver, Typed, MoneyOK, JobOK, RowOK, RunOK, FundOK, HistoryOK, money, history
<1>3. ASSUME NEW f \in Funders, NEW w \in Fund, FundShape(w, chain'),
             fund' = [fund EXCEPT ![f] = w], chain' \in Nat, chain' >= chain
      PROVE  FundOK'
  <2>1. \A g \in Funders : FundShape(fund[g], chain')
    BY <1>3, BoundsAssumption DEF Typed, MoneyOK, FundOK, FundShape
  <2> QED BY <1>3, <2>1 DEF Typed, FundOK
<1>4. ASSUME NEW f \in Funders,
             \/ Submit(f) \/ ReadBalance(f) \/ AwaitBalance(f) \/ WriteBalance(f) \/ WakeRepo(f)
             \/ (\E r \in Requests : RecoverTask(f, r)) \/ RecoverFails(f) \/ WakeOver(f)
      PROVE  Typed'
  <2> DEFINE u == fund[f]
  <2>0. /\ u \in Fund /\ FundShape(u, chain) /\ chain \in Nat /\ pool \in Nat
        /\ f \in Callers /\ Amount \in Nat \ {0}
    BY BoundsAssumption DEF Typed, FundOK, MoneyOK, Callers
  <2>1. UNCHANGED <<deployed, bounty, job, row, run, history>>
    BY <1>4 DEF Submit, ReadBalance, AwaitBalance, WriteBalance, WakeRepo, RecoverTask,
                RecoverFails, WakeOver, Still, money
  <2>2. BudgetOK'
    <3>1. UNCHANGED mishaps \/ Mishap
      BY <1>4 DEF Submit, ReadBalance, AwaitBalance, WriteBalance, WakeRepo, RecoverTask,
                  RecoverFails, WakeOver, Still
    <3> QED BY <3>1, BoundsAssumption DEF Mishap, Typed, BudgetOK
  <2>3. CallOK'
    <3>1. CASE \E r \in Requests : RecoverTask(f, r)
      <4>1. PICK r \in Requests : RecoverTask(f, r)
        BY <3>1
      <4>2. PICK a \in AmountsNow(r) : call' = [call EXCEPT ![f] = Asking(r, TRUE, a)]
        BY <4>1 DEF RecoverTask
      <4>3. a \in Nat
        BY AmountsTyped
      <4> QED BY <1>1, <2>0, <4>2, <4>3
    <3>2. CASE UNCHANGED call
      BY <3>2 DEF Typed, CallOK
    <3> QED BY <1>4, <3>1, <3>2
        DEF Submit, ReadBalance, AwaitBalance, WriteBalance, WakeRepo, RecoverFails, WakeOver, Still
  <2>4. MoneyOK' /\ chain' \in Nat /\ chain' >= chain
    <3>1. \/ UNCHANGED money
          \/ chain' = chain + Amount /\ UNCHANGED <<deployed, pool, bounty>>
          \/ pool' = u.balance /\ UNCHANGED <<deployed, chain, bounty>>
      BY <1>4 DEF Submit, ReadBalance, AwaitBalance, WriteBalance, WakeRepo, RecoverTask,
                  RecoverFails, WakeOver
    <3>2. u.balance \in Nat
      BY <2>0 DEF Fund
    <3> QED BY <2>0, <3>1, <3>2 DEF money, Typed, MoneyOK
  <2>5. FundOK'
    <3>1. ASSUME NEW s \in FundStages \ {"read", "balance"}, FundGoto(f, s)
          PROVE  FundOK'
      <4>1. [NoFund EXCEPT !.at = s] \in Fund /\ [NoFund EXCEPT !.at = s].at = s
        BY RestTyped DEF Fund, NoFund
      <4> QED BY <1>3, <2>4, <3>1, <4>1 DEF FundGoto, FundShape
    <3>2. CASE WriteBalance(f) \/ RecoverFails(f) \/ WakeOver(f)
      BY <3>1, <3>2 DEF WriteBalance, RecoverFails, WakeOver, FundStages
    <3>3. CASE Submit(f)
      <4>1. /\ [NoFund EXCEPT !.at = "read"] \in Fund
            /\ Amount <= chain'
        BY <2>0, <3>3, RestTyped DEF Submit, Fund, FundStages, NoFund
      <4> QED BY <1>3, <2>4, <3>3, <4>1 DEF Submit, FundGoto, FundShape
    <3>4. CASE ReadBalance(f)
      <4> DEFINE w == [u EXCEPT !.at = "balance", !.balance = pool]
      <4>1. w \in Fund /\ FundShape(w, chain) /\ fund' = [fund EXCEPT ![f] = w]
        BY <2>0, <3>4 DEF ReadBalance, Fund, FundStages, FundShape, Typed, FundOK
      <4>2. UNCHANGED chain
        BY <3>4 DEF ReadBalance, money
      <4> HIDE DEF w
      <4> QED BY <1>3, <2>4, <4>1, <4>2
    <3>5. CASE AwaitBalance(f)
      <4>1. PICK b \in Nat : fund' = [fund EXCEPT ![f] = [u EXCEPT !.at = "write", !.balance = b]]
        <5>1. u.at = "balance"
          BY <3>5 DEF AwaitBalance
        <5>2. chain - Amount \in Nat /\ u.balance + Amount \in Nat
          BY <2>0, <5>1 DEF FundShape, Fund
        <5> DEFINE Believed(n) == n > u.balance \/ n >= u.balance + Amount
                   After(n) == IF Believed(n) THEN n ELSE u.balance + Amount
        <5>3. PICK n \in {chain, chain - Amount} :
                fund' = [fund EXCEPT ![f] = [u EXCEPT !.at = "write", !.balance = After(n)]]
          BY <3>5 DEF AwaitBalance, Typed, FundOK
        <5>4. After(n) \in Nat
          BY <2>0, <5>2
        <5> HIDE DEF After
        <5> QED BY <5>3, <5>4
      <4> DEFINE w == [u EXCEPT !.at = "write", !.balance = b]
      <4>2. w \in Fund /\ FundShape(w, chain)
        BY <2>0 DEF Fund, FundStages, FundShape
      <4>3. UNCHANGED chain
        BY <3>5 DEF AwaitBalance, money
      <4> HIDE DEF w
      <4> QED BY <1>3, <2>4, <4>1, <4>2, <4>3 DEF w
    <3>6. CASE WakeRepo(f)
      <4> DEFINE w == [NoFund EXCEPT !.at = "next", !.list = {r \in Requests : row[r] \in Parked}]
      <4>1. w \in Fund /\ w.at = "next"
        BY RestTyped DEF Fund, FundStages, NoFund
      <4>2. fund' = [fund EXCEPT ![f] = w]
        BY <3>6 DEF WakeRepo
      <4> HIDE DEF w
      <4> QED BY <1>3, <2>4, <4>1, <4>2 DEF FundShape
    <3>7. CASE \E r \in Requests : RecoverTask(f, r)
      <4>1. PICK r \in Requests : RecoverTask(f, r)
        BY <3>7
      <4> DEFINE w == [u EXCEPT !.list = @ \ {r}]
      <4>2. w \in Fund /\ w.at = "next"
        BY <2>0, <4>1 DEF RecoverTask, Fund
      <4>3. fund' = [fund EXCEPT ![f] = w]
        BY <4>1 DEF RecoverTask, Typed, FundOK
      <4> HIDE DEF w
      <4> QED BY <1>3, <2>4, <4>2, <4>3 DEF FundShape
    <3> QED BY <1>4, <3>2, <3>3, <3>4, <3>5, <3>6, <3>7
  <2> QED BY <2>1, <2>2, <2>3, <2>4, <2>5
      DEF Typed, JobOK, RowOK, RunOK, HistoryOK, history
<1> QED BY <1>2, <1>4

\* A crash takes the handlers and the calls and stalls the jobs.
LEMMA CrashTyped == ASSUME Typed, Crash PROVE Typed'
<1>1. JobOK'
  <2>1. ASSUME NEW r \in Requests PROVE Stalled(job[r]) \in Job /\ JobShape(Stalled(job[r]))
    <3>1. job[r] \in Job /\ JobShape(job[r])
      BY DEF Typed, JobOK
    <3> DEFINE j == job[r]
               s == [j EXCEPT !.stalls = @ + 1,
                              !.state = IF j.stalls < MaxStalls THEN "waiting" ELSE "failed",
                              !.attempts = @ - 1]
    <3>2. CASE j.state # "active"
      BY <3>1, <3>2 DEF Stalled
    <3>3. CASE j.state = "active"
      <4>1. /\ j.attempts - 1 \in 0..MaxAttempts /\ j.attempts - 1 < MaxAttempts
            /\ j.stalls + 1 \in 0..(MaxStalls + 1)
            /\ j.stalls < MaxStalls => j.stalls + 1 <= MaxStalls
        BY <3>1, <3>3, BoundsAssumption DEF Job, JobShape
      <4>2. s \in Job /\ JobShape(s)
        BY <3>1, <4>1 DEF Job, JobStates, JobShape
      <4> QED BY <3>3, <4>2 DEF Stalled
    <3> QED BY <3>2, <3>3
  <2> QED BY <2>1 DEF Crash, JobOK
<1>2. RunOK'
  <2>1. NoRun \in Run /\ NoRun.at = "idle"
    BY RestTyped DEF NoRun
  <2> QED BY <2>1 DEF Crash, RunOK, RunShape
<1>3. CallOK'
  BY RestTyped DEF Crash, CallOK
<1>4. FundOK'
  <2>1. [NoFund EXCEPT !.at = "aborted"] \in Fund /\ [NoFund EXCEPT !.at = "aborted"].at = "aborted"
    BY RestTyped DEF Fund, FundStages, NoFund
  <2> DEFINE w == [NoFund EXCEPT !.at = "aborted"]
  <2>2. fund' = [f \in Funders |-> IF fund[f].at \in {"idle", "over"} THEN fund[f] ELSE w]
    BY DEF Crash
  <2>3. UNCHANGED chain
    BY DEF Crash, money
  <2> HIDE DEF w
  <2> QED BY <2>1, <2>2, <2>3 DEF Typed, FundOK, FundShape, w
<1>5. BudgetOK'
  BY BoundsAssumption DEF Crash, Mishap, Typed, BudgetOK
<1> QED BY <1>1, <1>2, <1>3, <1>4, <1>5
    DEF Crash, Typed, MoneyOK, RowOK, HistoryOK, money

\* Every step keeps the types.
LEMMA StepTyped == ASSUME Typed, [Next]_vars PROVE Typed'
<1>1. ASSUME NEW c \in Callers, Enqueue(c) PROVE Typed'
  BY <1>1, EnqueueTyped DEF Enqueue
<1>2. ASSUME NEW r \in Requests, Deliver(r) PROVE Typed'
  BY <1>2, FundingTyped
<1>3. ASSUME NEW r \in Requests, Handle(r) \/ SkipSync(r) \/ Fault(r) PROVE Typed'
  BY <1>3, ReadsTyped, WritesTyped, JobTyped DEF Handle
<1>4. ASSUME NEW r \in Requests, Recover(r) PROVE Typed'
  BY <1>4 DEF Recover, Typed, MoneyOK, JobOK, RowOK, RowStatuses, RunOK, CallOK, FundOK,
              HistoryOK, BudgetOK, money, history
<1>5. ASSUME NEW f \in Funders, Submit(f) \/ Wake(f) \/ RecoverFails(f) PROVE Typed'
  BY <1>5, FundingTyped DEF Wake
<1>6. ASSUME NEW i \in Issues, PushMilestone(i) PROVE Typed'
  <2>1. [bounty[i] EXCEPT !.status = "locked"] \in Bounty
    BY DEF Typed, MoneyOK, Bounty, BountyStatuses
  <2>2. bounty' = [bounty EXCEPT ![i] = [bounty[i] EXCEPT !.status = "locked"]]
    BY <1>6 DEF PushMilestone, Typed, MoneyOK
  <2>3. bounty' \in [Issues -> Bounty]
    BY <2>1, <2>2 DEF Typed, MoneyOK
  <2> QED BY <1>6, <2>3 DEF PushMilestone, Typed, MoneyOK, JobOK, RowOK, RunOK, CallOK, FundOK,
                            HistoryOK, BudgetOK, history
<1>7. CASE Deploy
  BY <1>7 DEF Deploy, Quiet, Typed, MoneyOK, JobOK, RowOK, RunOK, CallOK, FundOK,
              HistoryOK, BudgetOK, history
<1>8. CASE Crash
  BY <1>8, CrashTyped
<1>9. CASE UNCHANGED vars
  BY <1>9 DEF vars, Typed, MoneyOK, JobOK, RowOK, RunOK, CallOK, FundOK, HistoryOK, BudgetOK
<1> QED BY <1>1, <1>2, <1>3, <1>4, <1>5, <1>6, <1>7, <1>8, <1>9 DEF Next

\* Every variable keeps its type, whatever is delivered, funded, lost or crashes.
THEOREM TypeCorrect == Spec => []TypeOK
<1>1. Init => Typed
  BY InitTyped
<1>2. Typed /\ [Next]_vars => Typed'
  BY StepTyped
<1>3. Typed => TypeOK
  BY TypedImplies
<1> QED BY <1>1, <1>2, <1>3, PTL DEF Spec

------------------------------------------------------------------------------
(* No request vanishes.  What a request came to, or its row, keeps it: only *)
(* the handler of an active job may drop the row before there is an outcome, *)
(* and it does so with its job in the queue.                                *)

Has(r) == outcome[r] # "none" \/ r \in cut
Kept(r) == Has(r) \/ row[r] \in Parked \cup {"dead"}
Active(r) == job[r].state = "active"
Held(r) == Active(r) \/ Kept(r)

\* A job that is over, replays, or was accepted and is gone, left something.
JobKeeps ==
  \A r \in Requests :
    /\ job[r].state \in {"failed", "completed"} => Kept(r)
    /\ job[r].replay => Kept(r)
    /\ job[r].state = "none" /\ r \in accepted => Kept(r)
\* What a handler has done by the stage it is at; a replay skips one of them.
RunKeeps ==
  \A r \in Requests :
    /\ run[r].at \in {"report", "resolve", "complete"} => Has(r)
    /\ run[r].at \in {"fail", "retry"} => Kept(r)
    /\ run[r].at = "supersede" => ~job[r].replay
    /\ run[r].at = "accept" => job[r].replay
\* A call about to remove a job, or to replay one, is for a request that is kept,
\* as long as nobody works on it ...
CallKeeps ==
  \A c \in Callers :
    (call[c].at = "remove" \/ (call[c].at # "idle" /\ call[c].replay))
      => Held(call[c].req)
\* ... and so are those a wake has listed.
FundKeeps ==
  \A f \in Funders :
    /\ fund[f].list # {} => fund[f].at = "next"
    /\ \A r \in fund[f].list : Held(r)

Safe == JobKeeps /\ RunKeeps /\ CallKeeps /\ FundKeeps

\* Safe is what the property asks for.
LEMMA SafeImplies == Typed /\ Safe => NothingVanishes
<1> SUFFICES ASSUME Typed, Safe, NEW r \in accepted \ cut
             PROVE  InFlight(r) \/ outcome[r] # "none" \/ row[r] \in Parked \cup {"dead"}
  BY DEF NothingVanishes
<1>1. r \in Requests /\ job[r].state \in JobStates
  BY DEF Typed, HistoryOK, JobOK, Job
<1>2. job[r].state \in {"waiting", "active"} \/ Kept(r)
  BY <1>1 DEF Safe, JobKeeps, JobStates
<1> QED BY <1>2 DEF InFlight, Kept, Has

\* Initially only the rows of an older version are accepted.
LEMMA InitSafe == Init => Safe
BY DEF Init, Safe, JobKeeps, RunKeeps, CallKeeps, FundKeeps, NoJob, NoRun, NoCall, NoFund,
       Held, Kept, Has, Parked

\* What a handler that leaves the jobs and the calls alone has to show.
LEMMA KeepsFrame ==
  ASSUME Typed, Safe, UNCHANGED <<job, call, fund, accepted>>,
         \A q \in Requests : Kept(q) /\ run[q].at # "supersede" => Kept(q)'
  PROVE  JobKeeps' /\ CallKeeps' /\ FundKeeps'
<1>1. \A q \in Requests : run[q].at = "supersede" => Active(q) /\ ~job[q].replay
  BY DEF Safe, RunKeeps, Typed, RunOK, RunShape, Active
<1>2. \A q \in Requests : Kept(q) => Kept(q)' \/ (Active(q) /\ ~job[q].replay)
  BY <1>1
<1>3. \A q \in Requests : Active(q)' <=> Active(q)
  BY DEF Active
<1>4. JobKeeps'
  <2>1. \A q \in Requests : Active(q) <=> job[q].state = "active"
    BY DEF Active
  <2> QED BY <1>2, <2>1 DEF Safe, JobKeeps
<1>5. CallKeeps'
  <2>1. \A c \in Callers : call[c].req \in Requests
    BY DEF Typed, CallOK, Call
  <2> QED BY <1>2, <1>3, <2>1 DEF Safe, CallKeeps, Held
<1>6. FundKeeps'
  <2>1. \A f \in Funders : fund[f].list \subseteq Requests
    BY DEF Typed, FundOK, Fund
  <2> QED BY <1>2, <1>3, <2>1 DEF Safe, FundKeeps, Held
<1> QED BY <1>4, <1>5, <1>6

\* Where a step of a handler leads.
LEMMA StageAfter ==
  ASSUME Typed, NEW r \in Requests
  PROVE  /\ Accept(r) => run'[r].at = IF row[r] \in Parked THEN "load" ELSE "resolve"
         /\ Supersede(r) => run'[r].at = "load"
         /\ Load(r) => \/ run'[r].at \in {"park", "reprice", "sync"}
                       \/ run'[r].at = "resolve" /\ outcome'[r] = "settled"
         /\ Reprice(r) => run'[r].at \in {"update", "park"}
         /\ Update(r) => run'[r].at = "report" /\ outcome'[r] = "applied"
         /\ ReadChain(r) => run'[r].at = "store"
         /\ SkipSync(r) \/ StoreBalance(r) => run'[r].at = "reserve"
         /\ Reserve(r) => run'[r].at \in {"create", "park"}
         /\ Create(r) => run'[r].at \in {"report", "resolve"} /\ outcome'[r] \in {"applied", "yielded"}
         /\ Report(r) => run'[r].at = "resolve"
         /\ Resolve(r) => run'[r].at = "complete"
         /\ Park(r) => run'[r].at = "fail"
         /\ Fault(r) => run'[r].at = "fault"
         /\ RecordFault(r) => run'[r].at = "retry"
<1>0. run \in [Requests -> Run] /\ outcome \in [Requests -> Outcomes]
  BY DEF Typed, RunOK, HistoryOK
<1>1. ASSUME NEW t, Goto(r, t) PROVE run'[r].at = t
  <2>1. [NoRun EXCEPT !.at = t].at = t
    BY DEF NoRun
  <2> QED BY <1>0, <1>1, <2>1 DEF Goto
<1>2. ASSUME NEW o, Outcome(r, o) PROVE outcome'[r] = o
  BY <1>0, <1>2 DEF Outcome
<1>3. ASSUME NEW t, NEW n,
             \/ run' = [run EXCEPT ![r] = [run[r] EXCEPT !.at = t, !.balance = n]]
             \/ run' = [run EXCEPT ![r] = [run[r] EXCEPT !.at = t]]
             \/ run' = [run EXCEPT ![r].at = t]
      PROVE  run'[r].at = t
  BY <1>0, <1>3 DEF Run
<1>4. Accept(r) => run'[r].at = IF row[r] \in Parked THEN "load" ELSE "resolve"
  BY <1>1 DEF Accept
<1>5. Supersede(r) => run'[r].at = "load"
  BY <1>1 DEF Supersede
<1>6. Load(r) => \/ run'[r].at \in {"park", "reprice", "sync"}
                 \/ run'[r].at = "resolve" /\ outcome'[r] = "settled"
  BY <1>1, <1>2, <1>3 DEF Load
<1>7. Reprice(r) => run'[r].at \in {"update", "park"}
  <2>1. ASSUME Reprice(r) PROVE run'[r].at \in {"update", "park"}
    <3> DEFINE g == [at |-> "update", balance |-> pool, reward |-> bounty[IssueOf[r]].reward]
    <3>1. Goto(r, "park") \/ run' = [run EXCEPT ![r] = g]
      BY <2>1 DEF Reprice, Goto
    <3> QED BY <1>0, <1>1, <3>1
  <2> QED BY <2>1
<1>8. Update(r) => run'[r].at = "report" /\ outcome'[r] = "applied"
  BY <1>1, <1>2 DEF Update
<1>9. /\ ReadChain(r) => run'[r].at = "store"
      /\ SkipSync(r) \/ StoreBalance(r) => run'[r].at = "reserve"
  BY <1>3 DEF ReadChain, SkipSync, StoreBalance
<1>10. Reserve(r) => run'[r].at \in {"create", "park"}
  <2>1. Reserve(r) => \/ Goto(r, "park")
                      \/ run' = [run EXCEPT ![r] = [run[r] EXCEPT !.at = "create", !.balance = pool]]
    BY <1>0 DEF Reserve, Goto
  <2> QED BY <1>1, <1>3, <2>1
<1>11. Create(r) => run'[r].at \in {"report", "resolve"} /\ outcome'[r] \in {"applied", "yielded"}
  BY <1>1, <1>2 DEF Create
<1>12. /\ Report(r) => run'[r].at = "resolve"
       /\ Resolve(r) => run'[r].at = "complete"
       /\ Park(r) => run'[r].at = "fail"
       /\ Fault(r) => run'[r].at = "fault"
       /\ RecordFault(r) => run'[r].at = "retry"
  BY <1>1 DEF Report, Resolve, Park, Fault, RecordFault
<1> QED BY <1>4, <1>5, <1>6, <1>7, <1>8, <1>9, <1>10, <1>11, <1>12

\* A handler at work keeps what the others have, and shows its own stage.
LEMMA HandlerSafe ==
  ASSUME Typed, Safe, NEW r \in Requests,
         \/ Accept(r) \/ Supersede(r) \/ Load(r) \/ Reprice(r) \/ Update(r)
         \/ ReadChain(r) \/ SkipSync(r) \/ StoreBalance(r) \/ Reserve(r) \/ Create(r)
         \/ Report(r) \/ Resolve(r) \/ Park(r) \/ Fault(r) \/ RecordFault(r)
  PROVE  Safe'
<1>0. /\ outcome \in [Requests -> Outcomes] /\ row \in [Requests -> RowStatuses]
      /\ run \in [Requests -> Run]
  BY DEF Typed, HistoryOK, RowOK, RunOK
<1>1. UNCHANGED <<job, call, fund, accepted>>
  BY DEF Accept, Supersede, Load, Reprice, Update, ReadChain, SkipSync, StoreBalance, Reserve,
         Create, Report, Resolve, Park, Fault, RecordFault, Quiet, history, Outcome
<1>2. \A q \in Requests \ {r} : run'[q] = run[q]
  BY <1>0 DEF Accept, Supersede, Load, Reprice, Update, ReadChain, SkipSync, StoreBalance, Reserve,
         Create, Report, Resolve, Park, Fault, RecordFault, Goto
<1>3. \A q \in Requests : Has(q) => Has(q)'
  <2>1. cut \subseteq cut'
    BY DEF Accept, Supersede, Load, Reprice, Update, ReadChain, SkipSync, StoreBalance, Reserve,
           Create, Report, Resolve, Park, Fault, RecordFault, history, Outcome
  <2>2. \/ UNCHANGED outcome
        \/ \E o \in {"settled", "applied", "yielded"} : outcome' = [outcome EXCEPT ![r] = o]
        \/ \A q \in Requests : outcome'[q] = outcome[q] \/ outcome'[q] = "superseded"
    BY DEF Accept, Supersede, Load, Reprice, Update, ReadChain, SkipSync, StoreBalance, Reserve,
           Create, Report, Resolve, Park, Fault, RecordFault, history, Outcome
  <2> QED BY <1>0, <2>1, <2>2 DEF Has
<1>4. \A q \in Requests : Kept(q) /\ run[q].at # "supersede" => Kept(q)'
  <2>1. CASE UNCHANGED row
    BY <1>3, <2>1 DEF Kept
  <2>2. CASE Supersede(r)
    BY <1>3, <2>2 DEF Supersede, Kept, Has, Parked
  <2>3. CASE Resolve(r)
    <3>1. Has(r)
      BY <2>3 DEF Safe, RunKeeps, Resolve
    <3>2. \A q \in Requests \ {r} : row'[q] = row[q]
      BY <1>0, <2>3 DEF Resolve
    <3> QED BY <1>3, <3>1, <3>2 DEF Kept
  <2>4. CASE Park(r) \/ RecordFault(r)
    <3>1. row'[r] \in {"waiting_funding", "dead"}
      BY <1>0, <2>4 DEF Park, RecordFault, FailureStatus
    <3>2. \A q \in Requests \ {r} : row'[q] = row[q]
      BY <1>0, <2>4 DEF Park, RecordFault
    <3> QED BY <1>3, <3>1, <3>2 DEF Kept, Parked
  <2> QED BY <2>1, <2>2, <2>3, <2>4
      DEF Accept, Load, Reprice, Update, ReadChain, SkipSync, StoreBalance, Reserve,
          Create, Report, Fault, Quiet
<1>5. JobKeeps' /\ CallKeeps' /\ FundKeeps'
  BY <1>1, <1>4, KeepsFrame
<1>6. run'[r].at \notin {"supersede", "accept"}
  BY StageAfter
<1>7. run'[r].at \in {"report", "resolve", "complete"} => Has(r)'
  <2>1. CASE Accept(r) /\ row[r] \notin Parked
    \* The row of a replay was resolved by an outcome, or it is dead.
    <3>1. Kept(r)
      BY <2>1 DEF Accept, Safe, RunKeeps, JobKeeps
    <3> QED BY <2>1, <3>1 DEF Accept, Kept, Has
  <2>2. CASE Report(r) \/ Resolve(r)
    BY <1>3, <2>2 DEF Report, Resolve, Safe, RunKeeps
  <2>3. CASE Load(r) \/ Update(r) \/ Create(r)
    BY <2>3, StageAfter DEF Has
  <2> QED BY <2>1, <2>2, <2>3, StageAfter
<1>8. run'[r].at \in {"fail", "retry"} => Kept(r)'
  <2>1. Park(r) \/ RecordFault(r) => row'[r] \in {"waiting_funding", "dead"}
    BY <1>0 DEF Park, RecordFault, FailureStatus
  <2> QED BY <2>1, StageAfter DEF Kept, Parked
<1>9. RunKeeps'
  <2>1. ASSUME NEW q \in Requests \ {r}, run[q].at \in {"fail", "retry"} PROVE Kept(q)'
    BY <1>4, <2>1 DEF Safe, RunKeeps
  <2> QED BY <1>1, <1>2, <1>3, <1>6, <1>7, <1>8, <2>1 DEF Safe, RunKeeps
<1> QED BY <1>5, <1>9 DEF Safe

\* A step that leaves what is kept alone.
LEMMA KeptFrame ==
  ASSUME UNCHANGED <<row, outcome, cut>>
  PROVE  \A q \in Requests : (Kept(q)' <=> Kept(q)) /\ (Has(q)' <=> Has(q))
BY DEF Kept, Has

\* The worker takes and ends jobs.
LEMMA WorkerSafe ==
  ASSUME Typed, Safe, NEW r \in Requests, Take(r) \/ Complete(r) \/ Fail(r) \/ Retry(r)
  PROVE  Safe'
<1>0. /\ job \in [Requests -> Job] /\ run \in [Requests -> Run]
      /\ RunShape(run[r], job[r])
  BY DEF Typed, JobOK, RunOK
<1>1. UNCHANGED <<row, call, fund, history>>
  BY DEF Take, Complete, Fail, Retry, EndJob
<1>2. \A q \in Requests : (Kept(q)' <=> Kept(q)) /\ (Has(q)' <=> Has(q))
  BY <1>1, KeptFrame DEF history
<1>3. \A q \in Requests \ {r} : job'[q] = job[q] /\ run'[q] = run[q]
  BY <1>0 DEF Take, Complete, Fail, Retry, EndJob
<1>4. /\ job'[r].replay = job[r].replay
      /\ job'[r].state \in {"active", "waiting", "failed", "completed"}
  BY <1>0 DEF Take, Complete, Fail, Retry, EndJob, Job
\* A job that ends leaves something.
<1>5. Active(r)' \/ Kept(r)
  <2>1. CASE Take(r)
    BY <1>0, <2>1 DEF Take, Active, Job
  <2>2. CASE Complete(r) \/ Fail(r) \/ Retry(r)
    BY <2>2 DEF Complete, Fail, Retry, Safe, RunKeeps, Kept
  <2> QED BY <2>1, <2>2
<1>6. JobKeeps'
  <2>1. job'[r].state \in {"failed", "completed"} => Kept(r)
    BY <1>5 DEF Active
  <2> QED BY <1>1, <1>2, <1>3, <1>4, <2>1 DEF Safe, JobKeeps, history
<1>7. RunKeeps'
  <2>1. run'[r].at \in {"idle", "accept", "supersede"}
    BY <1>0, RestTyped DEF Take, Complete, Fail, Retry, EndJob, NoRun, Run
  <2>2. /\ run'[r].at = "accept" => job[r].replay
        /\ run'[r].at = "supersede" => ~job[r].replay
    BY <1>0, RestTyped DEF Take, Complete, Fail, Retry, EndJob, NoRun, Run
  <2> QED BY <1>2, <1>3, <1>4, <2>1, <2>2 DEF Safe, RunKeeps
<1>8. \A q \in Requests : Held(q) => Held(q)'
  BY <1>2, <1>3, <1>5 DEF Held, Active
<1>9. CallKeeps'
  <2>1. \A c \in Callers : call[c].req \in Requests
    BY DEF Typed, CallOK, Call
  <2> QED BY <1>1, <1>8, <2>1 DEF Safe, CallKeeps
<1>10. FundKeeps'
  <2>1. \A f \in Funders : fund[f].list \subseteq Requests
    BY DEF Typed, FundOK, Fund
  <2> QED BY <1>1, <1>8, <2>1 DEF Safe, FundKeeps
<1> QED BY <1>6, <1>7, <1>9, <1>10 DEF Safe

\* A caller takes a request over, and leaves it when its call is done.
LEMMA CallFrame ==
  ASSUME Typed, Safe, NEW c \in Callers,
         \A q \in Requests : Held(q) => Held(q)',
         \/ call'[c].at = "idle"
         \/ \E q \in Requests :
              /\ call'[c].req = q
              /\ Held(q)' \/ (call'[c].at # "remove" /\ ~call'[c].replay),
         \A d \in Callers \ {c} : call'[d] = call[d]
  PROVE  CallKeeps'
<1>1. ASSUME NEW d \in Callers \ {c},
             call'[d].at = "remove" \/ (call'[d].at # "idle" /\ call'[d].replay)
      PROVE  \E q \in Requests : call'[d].req = q /\ Held(q)'
  <2>1. call'[d] = call[d] /\ call[d].req \in Requests
    BY DEF Typed, CallOK, Call
  <2>2. Held(call[d].req)
    BY <1>1, <2>1 DEF Safe, CallKeeps
  <2> QED BY <2>1, <2>2
<1>2. ASSUME call'[c].at = "remove" \/ (call'[c].at # "idle" /\ call'[c].replay)
      PROVE  \E q \in Requests : call'[c].req = q /\ Held(q)'
  BY <1>2
<1>3. \A d \in Callers :
        (call'[d].at = "remove" \/ (call'[d].at # "idle" /\ call'[d].replay))
          => \E q \in Requests : call'[d].req = q /\ Held(q)'
  BY <1>1, <1>2
<1> QED BY <1>3 DEF CallKeeps, Held, Active, Kept, Has

\* A call to the queue.
LEMMA EnqueueSafe ==
  ASSUME Typed, Safe, NEW c \in Callers, ReadJobState(c) \/ RemoveJob(c) \/ AddJob(c)
  PROVE  Safe'
<1> DEFINE r == call[c].req
<1>0. /\ job \in [Requests -> Job] /\ run \in [Requests -> Run] /\ call \in [Callers -> Call]
      /\ fund \in [Funders -> Fund] /\ r \in Requests /\ job[r].state \in JobStates
      /\ RunShape(run[r], job[r])
  BY DEF Typed, JobOK, RunOK, CallOK, FundOK, Call, Job
<1>1. UNCHANGED <<row, run, outcome, cut>>
  BY DEF ReadJobState, RemoveJob, AddJob, Answered, history
<1>2. \A q \in Requests : (Kept(q)' <=> Kept(q)) /\ (Has(q)' <=> Has(q))
  BY <1>1, KeptFrame
<1>4. ASSUME CallOver(c), \A q \in Requests : Held(q) => Held(q)'
      PROVE  CallKeeps'
  <2>1. call'[c].at = "idle" /\ \A d \in Callers \ {c} : call'[d] = call[d]
    BY <1>0, <1>4 DEF CallOver, NoCall
  <2> QED BY <1>4, <2>1, CallFrame
<1>5. ASSUME NEW t \in {"add", "remove"}, CallGoto(c, t), t = "remove" => Kept(r),
             \A q \in Requests : Held(q) => Held(q)'
      PROVE  CallKeeps'
  <2>1. /\ call'[c].at = t /\ call'[c].req = r /\ call'[c].replay = call[c].replay
        /\ \A d \in Callers \ {c} : call'[d] = call[d]
    BY <1>0, <1>5 DEF CallGoto, Call
  <2>2. call[c].at # "idle"
    BY DEF ReadJobState, RemoveJob, AddJob
  <2>3. call[c].replay \/ t = "remove" => Held(r)
    BY <1>5, <2>2 DEF Safe, CallKeeps, Held
  <2>4. PICK p \in Requests : p = r
    BY <1>0
  <2>5. call[c].replay \/ t = "remove" => Held(p)'
    BY <1>5, <2>3, <2>4
  <2>6. \E q \in Requests :
          /\ call'[c].req = q
          /\ Held(q)' \/ (call'[c].at # "remove" /\ ~call'[c].replay)
    BY <2>1, <2>4, <2>5
  <2> QED BY <1>5, <2>1, <2>6, CallFrame
<1>6. ASSUME \A f \in Funders : fund'[f] = fund[f] \/ fund'[f].list = {},
             \A q \in Requests : Held(q) => Held(q)'
      PROVE  FundKeeps'
  <2>1. \A f \in Funders : fund[f].list \subseteq Requests
    BY <1>0 DEF Fund
  <2>2. ASSUME NEW f \in Funders
        PROVE  /\ fund'[f].list # {} => fund'[f].at = "next"
               /\ \A q \in fund'[f].list : Held(q)'
    BY <1>6, <2>1 DEF Safe, FundKeeps
  <2> QED BY <2>2 DEF FundKeeps, Held, Active, Kept, Has
\* A failed job is about to be removed, or the job counts as a duplicate.
<1>7. CASE ReadJobState(c)
  <2>1. UNCHANGED <<job, fund>>
    BY <1>7 DEF ReadJobState
  <2>2. \A q \in Requests : Held(q)' <=> Held(q)
    BY <1>2, <2>1 DEF Held, Active
  <2>3. CallKeeps'
    <3>1. job[r].state = "failed" => Kept(r)
      BY <1>0 DEF Safe, JobKeeps
    <3> QED BY <1>4, <1>5, <1>7, <2>2, <3>1 DEF ReadJobState
  <2>4. JobKeeps'
    <3>1. accepted' \subseteq accepted \/ (accepted' \subseteq accepted \cup {r} /\ job[r].state # "none")
      BY <1>7 DEF ReadJobState, Answered, history
    <3> QED BY <1>2, <2>1, <3>1 DEF Safe, JobKeeps
  <2>5. RunKeeps'
    BY <1>1, <1>2, <2>1 DEF Safe, RunKeeps
  <2> QED BY <1>6, <2>1, <2>2, <2>3, <2>4, <2>5 DEF Safe
\* The job that is removed is not at work, so its request is kept.
<1>8. CASE RemoveJob(c)
  <2>1. accepted' = accepted
    BY <1>8 DEF RemoveJob, history
  <2>2. CASE job[r].state = "active"
    <3>1. job' = job /\ CallOver(c)
      BY <1>8, <2>2 DEF RemoveJob
    <3>2. \A q \in Requests : Held(q)' <=> Held(q)
      BY <1>2, <3>1 DEF Held, Active
    <3>3. \A f \in Funders : fund'[f] = fund[f] \/ fund'[f].list = {}
      BY <1>0, <1>8, <2>2 DEF RemoveJob, NoFund
    <3>4. JobKeeps' /\ RunKeeps'
      BY <1>1, <1>2, <2>1, <3>1 DEF Safe, JobKeeps, RunKeeps
    <3> QED BY <1>4, <1>6, <3>1, <3>2, <3>3, <3>4 DEF Safe
  <2>3. CASE job[r].state # "active"
    <3>1. /\ job' = [job EXCEPT ![r] = NoJob] /\ CallGoto(c, "add") /\ fund' = fund
          /\ run[r].at = "idle" /\ ~Active(r)
      BY <1>0, <1>8, <2>3 DEF RemoveJob, RunShape, Active
    <3>2. Kept(r)
      BY <1>0, <1>8, <3>1 DEF RemoveJob, Safe, CallKeeps, Held
    <3>3. job'[r] = NoJob /\ \A q \in Requests \ {r} : job'[q] = job[q]
      BY <1>0, <3>1
    <3>4. \A q \in Requests : Held(q) => Held(q)'
      BY <1>2, <3>2, <3>3 DEF Held, Active
    <3>5. JobKeeps'
      BY <1>2, <2>1, <3>2, <3>3 DEF Safe, JobKeeps
    <3>6. RunKeeps'
      BY <1>1, <1>2, <3>1, <3>3 DEF Safe, RunKeeps
    <3> QED BY <1>5, <1>6, <3>1, <3>4, <3>5, <3>6 DEF Safe
  <2> QED BY <2>2, <2>3
\* A replay is added for a request that is kept; BullMQ may have a job already.
<1>9. CASE AddJob(c)
  <2> DEFINE n == [NoJob EXCEPT !.state = "waiting", !.replay = call[c].replay,
                                !.amount = call[c].amount]
  <2>1. fund' = fund /\ CallOver(c) /\ accepted' \subseteq accepted \cup {r}
    BY <1>9 DEF AddJob, Answered
  <2>2. CASE job[r].state # "none"
    <3>1. job' = job
      BY <1>9, <2>2 DEF AddJob
    <3>2. \A q \in Requests : Held(q)' <=> Held(q)
      BY <1>2, <3>1 DEF Held, Active
    <3>3. JobKeeps' /\ RunKeeps'
      BY <1>1, <1>2, <2>1, <2>2, <3>1 DEF Safe, JobKeeps, RunKeeps
    <3> QED BY <1>4, <1>6, <2>1, <3>2, <3>3 DEF Safe
  <2>3. CASE job[r].state = "none"
    <3>1. job'[r] = n /\ \A q \in Requests \ {r} : job'[q] = job[q]
      BY <1>0, <1>9, <2>3 DEF AddJob
    <3>2. n.state = "waiting" /\ n.replay = call[c].replay
      BY DEF NoJob
    <3> HIDE DEF n
    <3>3. run[r].at = "idle" /\ ~Active(r)
      BY <1>0, <2>3 DEF RunShape, Active
    <3>4. call[c].replay => Kept(r)
      BY <1>0, <1>9, <3>3 DEF AddJob, Safe, CallKeeps, Held
    <3>5. \A q \in Requests : Held(q) => Held(q)'
      BY <1>2, <3>1, <3>3 DEF Held, Active
    <3>6. JobKeeps'
      BY <1>2, <2>1, <3>1, <3>2, <3>4 DEF Safe, JobKeeps
    <3>7. RunKeeps'
      BY <1>1, <1>2, <3>1, <3>3 DEF Safe, RunKeeps
    <3> QED BY <1>4, <1>6, <2>1, <3>5, <3>6, <3>7 DEF Safe
  <2> QED BY <2>2, <2>3
<1> QED BY <1>7, <1>8, <1>9

\* A delivery, a funding and its wake.
LEMMA FundingSafe ==
  ASSUME Typed, Safe,
         \/ \E r \in Requests : Deliver(r)
         \/ \E f \in Funders :
              \/ Submit(f) \/ ReadBalance(f) \/ AwaitBalance(f) \/ WriteBalance(f) \/ WakeRepo(f)
              \/ (\E r \in Requests : RecoverTask(f, r)) \/ RecoverFails(f) \/ WakeOver(f)
  PROVE  Safe'
<1>0. /\ call \in [Callers -> Call] /\ fund \in [Funders -> Fund]
      /\ GitHub \in Callers /\ Funders \subseteq Callers
  BY DEF Typed, CallOK, FundOK, Callers
<1>1. UNCHANGED <<job, row, run, history>>
  BY DEF Deliver, Submit, ReadBalance, AwaitBalance, WriteBalance, WakeRepo, RecoverTask,
         RecoverFails, WakeOver, Still
<1>2. \A q \in Requests : (Kept(q)' <=> Kept(q)) /\ (Has(q)' <=> Has(q)) /\ (Held(q)' <=> Held(q))
  BY <1>1, KeptFrame DEF history, Active, Held
<1>3. JobKeeps' /\ RunKeeps'
  BY <1>1, <1>2 DEF Safe, JobKeeps, RunKeeps, history
<1>4. ASSUME NEW c \in Callers, NEW r \in Requests, NEW p \in BOOLEAN, NEW a,
             call' = [call EXCEPT ![c] = Asking(r, p, a)], p => Held(r)
      PROVE  CallKeeps'
  <2>1. call'[c].at = "state" /\ call'[c].req = r /\ call'[c].replay = p
    BY <1>0, <1>4 DEF Asking
  <2>2. \A d \in Callers \ {c} : call'[d] = call[d]
    BY <1>0, <1>4
  <2>3. \E q \in Requests :
          /\ call'[c].req = q
          /\ Held(q)' \/ (call'[c].at # "remove" /\ ~call'[c].replay)
    BY <1>2, <1>4, <2>1
  <2> QED BY <1>2, <2>2, <2>3, CallFrame
<1>5. ASSUME UNCHANGED call PROVE CallKeeps'
  <2>1. \A d \in Callers : call[d].req \in Requests
    BY <1>0 DEF Call
  <2> QED BY <1>2, <1>5, <2>1 DEF Safe, CallKeeps
\* A wake lists parked requests; later its list only shrinks.
<1>6. ASSUME NEW f \in Funders, NEW w, fund' = [fund EXCEPT ![f] = w],
             w.list # {} => w.at = "next", \A q \in w.list : q \in Requests /\ Held(q)
      PROVE  FundKeeps'
  <2>1. \A g \in Funders : fund[g].list \subseteq Requests
    BY <1>0 DEF Fund
  <2>2. ASSUME NEW g \in Funders
        PROVE  /\ fund'[g].list # {} => fund'[g].at = "next"
               /\ \A q \in fund'[g].list : Held(q)'
    <3>1. CASE g = f
      BY <1>0, <1>2, <1>6, <3>1
    <3>2. CASE g # f
      BY <1>0, <1>2, <1>6, <2>1, <3>2 DEF Safe, FundKeeps
    <3> QED BY <3>1, <3>2
  <2> QED BY <2>2 DEF FundKeeps, Held, Active, Kept, Has
<1>7. ASSUME NEW r \in Requests, Deliver(r) PROVE Safe'
  <2>1. CallKeeps'
    BY <1>0, <1>4, <1>7 DEF Deliver
  <2>2. FundKeeps'
    <3>1. \A f \in Funders : fund[f].list \subseteq Requests
      BY <1>0 DEF Fund
    <3> QED BY <1>2, <1>7, <3>1 DEF Deliver, Safe, FundKeeps
  <2> QED BY <1>3, <2>1, <2>2 DEF Safe
<1>8. ASSUME NEW f \in Funders, NEW r \in Requests, RecoverTask(f, r) PROVE Safe'
  <2>0. fund[f] \in Fund
    BY <1>0
  <2>1. r \in fund[f].list /\ Held(r)
    BY <1>8 DEF RecoverTask, Safe, FundKeeps
  <2>2. PICK a \in AmountsNow(r) : call' = [call EXCEPT ![f] = Asking(r, TRUE, a)]
    BY <1>8 DEF RecoverTask
  <2>3. CallKeeps'
    BY <1>0, <1>4, <2>1, <2>2
  <2> DEFINE w == [fund[f] EXCEPT !.list = @ \ {r}]
  <2>4. w.at = "next" /\ w.list = fund[f].list \ {r}
    BY <1>8, <2>0 DEF RecoverTask, Fund
  <2>5. \A q \in fund[f].list : q \in Requests /\ Held(q)
    BY <2>0 DEF Fund, Safe, FundKeeps
  <2>6. fund' = [fund EXCEPT ![f] = w]
    BY <1>0, <1>8 DEF RecoverTask
  <2> HIDE DEF w
  <2>7. FundKeeps'
    BY <1>6, <2>4, <2>5, <2>6
  <2> QED BY <1>3, <2>3, <2>7 DEF Safe
<1>9. ASSUME NEW f \in Funders,
             \/ Submit(f) \/ ReadBalance(f) \/ AwaitBalance(f) \/ WriteBalance(f)
             \/ RecoverFails(f) \/ WakeOver(f) \/ WakeRepo(f)
      PROVE  Safe'
  <2>0. fund[f] \in Fund
    BY <1>0
  <2>1. CallKeeps'
    BY <1>5, <1>9 DEF Submit, ReadBalance, AwaitBalance, WriteBalance, RecoverFails, WakeOver,
                      WakeRepo, Still
  <2>2. FundKeeps'
    <3>1. ASSUME NEW t, FundGoto(f, t) PROVE FundKeeps'
      <4>1. [NoFund EXCEPT !.at = t].list = {}
        BY DEF NoFund
      <4> QED BY <1>6, <3>1, <4>1 DEF FundGoto
    <3>2. CASE Submit(f) \/ WriteBalance(f) \/ RecoverFails(f) \/ WakeOver(f)
      BY <3>1, <3>2 DEF Submit, WriteBalance, RecoverFails, WakeOver
    <3>3. CASE WakeRepo(f)
      <4> DEFINE w == [NoFund EXCEPT !.at = "next", !.list = {q \in Requests : row[q] \in Parked}]
      <4>1. w.at = "next" /\ w.list = {q \in Requests : row[q] \in Parked}
        BY DEF NoFund
      <4>2. fund' = [fund EXCEPT ![f] = w]
        BY <3>3 DEF WakeRepo
      <4> HIDE DEF w
      <4>3. \A q \in w.list : q \in Requests /\ Held(q)
        BY <4>1 DEF Held, Kept
      <4> QED BY <1>6, <4>1, <4>2, <4>3
    <3>4. CASE ReadBalance(f) \/ AwaitBalance(f)
      <4>1. fund[f].list = {}
        BY <3>4 DEF ReadBalance, AwaitBalance, Safe, FundKeeps
      <4>2. \A g \in Funders : fund'[g] = fund[g] \/ fund'[g].list = {}
        <5>1. \A g \in Funders \ {f} : fund'[g] = fund[g]
          BY <1>0, <3>4 DEF ReadBalance, AwaitBalance
        <5>2. fund'[f].list = fund[f].list
          <6>1. PICK t, n : fund' = [fund EXCEPT ![f] = [fund[f] EXCEPT !.at = t, !.balance = n]]
            BY <1>0, <3>4 DEF ReadBalance, AwaitBalance
          <6>2. fund'[f] = [fund[f] EXCEPT !.at = t, !.balance = n]
            BY <1>0, <6>1
          <6> QED BY <2>0, <6>2 DEF Fund
        <5> QED BY <4>1, <5>1, <5>2
      <4>3. \A g \in Funders : fund[g].list \subseteq Requests
        BY <1>0 DEF Fund
      <4> QED BY <1>2, <4>2, <4>3 DEF Safe, FundKeeps
    <3> QED BY <1>9, <3>2, <3>3, <3>4
  <2> QED BY <1>3, <2>1, <2>2 DEF Safe
<1> QED BY <1>7, <1>8, <1>9

\* A crash ends the calls and the wakes; a job it puts an end to is in cut.
LEMMA CrashSafe == ASSUME Typed, Safe, Crash PROVE Safe'
<1>0. /\ job \in [Requests -> Job] /\ fund \in [Funders -> Fund]
  BY DEF Typed, JobOK, FundOK
<1>1. \A q \in Requests : Kept(q) => Kept(q)'
  BY DEF Crash, Kept, Has
<1>2. ASSUME NEW q \in Requests
      PROVE  /\ job'[q].replay = job[q].replay
             /\ job'[q].state = "none" => job[q].state = "none"
             /\ job'[q].state \in {"failed", "completed"} =>
                  \/ job[q].state \in {"failed", "completed"}
                  \/ q \in cut'
  <2>1. job'[q] = Stalled(job[q]) /\ job[q] \in Job
    BY <1>0 DEF Crash
  <2>2. CASE job[q].state # "active"
    BY <2>1, <2>2 DEF Stalled
  <2>3. CASE job[q].state = "active"
    <3>1. /\ job'[q].replay = job[q].replay
          /\ job'[q].state = IF job[q].stalls < MaxStalls THEN "waiting" ELSE "failed"
      BY <2>1, <2>3 DEF Stalled, Job
    <3>2. ~(job[q].stalls < MaxStalls) => q \in cut'
      BY <2>1, <2>3, BoundsAssumption DEF Crash, Job
    <3> QED BY <3>1, <3>2
  <2> QED BY <2>2, <2>3
<1>3. JobKeeps'
  BY <1>1, <1>2 DEF Safe, JobKeeps, Crash, Kept, Has
<1>4. RunKeeps'
  BY DEF Crash, RunKeeps, NoRun
<1>5. CallKeeps'
  BY DEF Crash, CallKeeps, NoCall
<1>6. FundKeeps'
  <2>1. \A f \in Funders : fund'[f].list = {}
    BY <1>0 DEF Crash, NoFund, Safe, FundKeeps
  <2> QED BY <2>1 DEF FundKeeps
<1> QED BY <1>3, <1>4, <1>5, <1>6 DEF Safe

\* Every step keeps what is kept.
LEMMA StepSafe == ASSUME Typed, Safe, [Next]_vars PROVE Safe'
<1>1. ASSUME NEW c \in Callers, Enqueue(c) PROVE Safe'
  BY <1>1, EnqueueSafe DEF Enqueue
<1>2. ASSUME NEW r \in Requests, Deliver(r) PROVE Safe'
  BY <1>2, FundingSafe
<1>3. ASSUME NEW r \in Requests, Handle(r) \/ SkipSync(r) \/ Fault(r) PROVE Safe'
  BY <1>3, HandlerSafe, WorkerSafe DEF Handle
<1>4. ASSUME UNCHANGED <<job, run, call, fund, history>>,
             \A q \in Requests : Kept(q) => Kept(q)'
      PROVE  Safe'
  <2>1. RunKeeps'
    BY <1>4 DEF Safe, RunKeeps, Has, history
  <2> QED BY <1>4, <2>1, KeepsFrame DEF Safe, history
<1>5. ASSUME NEW r \in Requests, Recover(r) PROVE Safe'
  <2>1. row \in [Requests -> RowStatuses]
    BY DEF Typed, RowOK
  <2>2. \A q \in Requests : Kept(q) => Kept(q)'
    BY <1>5, <2>1 DEF Recover, Kept, Has, Parked, history
  <2> QED BY <1>4, <1>5, <2>2 DEF Recover
<1>6. ASSUME NEW f \in Funders, Submit(f) \/ Wake(f) \/ RecoverFails(f) PROVE Safe'
  BY <1>6, FundingSafe DEF Wake
<1>7. CASE Crash
  BY <1>7, CrashSafe
<1>8. CASE UNCHANGED <<job, row, run, call, fund, history>>
  BY <1>4, <1>8 DEF Kept, Has, history
<1> QED BY <1>1, <1>2, <1>3, <1>5, <1>6, <1>7, <1>8
    DEF Next, PushMilestone, Deploy, Quiet, vars, history

\* A request GitHub was told is accepted does not vanish, however calls, replays,
\* faults, crashes and newer requests interleave.
THEOREM AcceptedIsKept == Spec => []NothingVanishes
<1>1. Init => Typed /\ Safe
  BY InitTyped, InitSafe
<1>2. Typed /\ Safe /\ [Next]_vars => (Typed /\ Safe)'
  BY StepTyped, StepSafe
<1>3. Typed /\ Safe => NothingVanishes
  BY SafeImplies
<1> QED BY <1>1, <1>2, <1>3, PTL DEF Spec
==============================================================================
