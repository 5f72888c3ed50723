------------------------------- MODULE Funding -------------------------------
(***************************************************************************)
(* The balance of one repository, the requests that reserve from it, and   *)
(* what becomes of a request the balance cannot cover.                     *)
(*                                                                         *)
(* A request is a GitHub delivery: a reward label, or a comment with an    *)
(* amount.  It runs as a webhook job, several at a time, and a job that    *)
(* finds too little money fails once and leaves a failed_tasks row that    *)
(* waits for funding.  Funding the escrow wakes the rows: each is enqueued *)
(* again under its delivery id, marked as a replay.  Nothing locks the     *)
(* balance: requests, funding and the sync with the chain read it and      *)
(* write it in separate statements.                                        *)
(***************************************************************************)
EXTENDS Naturals, FiniteSets, Folds

CONSTANTS
  Issues, Requests,
  Labelled,      \* requests made by a label; the others are comments
  IssueOf,       \* request -> the issue it is about
  AmountOf,      \* request -> the reward it asks for
  Legacy,        \* requests an older version parked with status pending
  Funders,       \* submit_fund requests, one funding each
  Amount,        \* what one funding adds
  GitHub,        \* the sender of deliveries
  MaxAttempts,   \* WEBHOOK_ATTEMPTS
  MaxStalls,     \* BULLMQ_MAX_STALLED_COUNT
  MaxMishaps     \* bound: transient failures, crashes and redeliveries

Callers == Funders \cup {GitHub}

ASSUME RequestsAssumption ==
  /\ Requests # {}
  /\ Labelled \subseteq Requests /\ Legacy \subseteq Requests
  /\ IssueOf \in [Requests -> Issues]
  /\ AmountOf \in [Requests -> Nat \ {0}]
  /\ GitHub \notin Funders
  /\ IsFiniteSet(Issues)
ASSUME BoundsAssumption ==
  /\ Amount \in Nat \ {0} /\ MaxAttempts \in Nat \ {0}
  /\ MaxStalls \in Nat /\ MaxMishaps \in Nat

VARIABLES
  deployed,   \* the repository has an escrow contract
  chain,      \* what the contract holds
  pool,       \* repositories.escrow_balance
  bounty,     \* issue -> its bounties row
  job,        \* request -> the webhook job with its delivery id
  row,        \* request -> status of its failed_tasks row
  run,        \* request -> the handler working on it
  call,       \* caller -> the enqueue_webhook it is in
  fund,       \* funder -> its submit_fund request
  accepted,   \* requests GitHub was told are accepted
  outcome,    \* history: what a request came to
  cut,        \* history: requests of a job whose end nothing records: a replay
              \* refused because the row is dead, a job that stalled too often
  mishaps

vars == <<deployed, chain, pool, bounty, job, row, run, call, fund,
          accepted, outcome, cut, mishaps>>
money == <<deployed, chain, pool, bounty>>
history == <<accepted, outcome, cut>>

------------------------------------------------------------------------------
(* The state each part keeps.                                              *)

\* locked: a milestone was pushed, so the reward is fixed.
BountyStatuses == {"none", "open", "locked"}
Bounty == [status : BountyStatuses, reward : Nat]
NoBounty == [status |-> "none", reward |-> 0]

JobStates == {"none", "waiting", "active", "failed", "completed"}
Job == [state : JobStates, replay : BOOLEAN, amount : Nat,
        attempts : 0..MaxAttempts, stalls : 0..(MaxStalls + 1)]
NoJob == [state |-> "none", replay |-> FALSE, amount |-> 0, attempts |-> 0, stalls |-> 0]

RowStatuses == {"none", "pending", "waiting_funding", "dead", "resolved"}
Parked == {"pending", "waiting_funding"}

RunStages == {"idle", "accept", "supersede", "load", "reprice", "update", "sync",
              "store", "reserve", "create", "report", "resolve", "complete",
              "park", "fail", "fault", "retry"}
\* balance: the balance the handler goes by; reward: the old reward its
\* transaction read.
Run == [at : RunStages, balance : Nat, reward : Nat]
NoRun == [at |-> "idle", balance |-> 0, reward |-> 0]

CallStages == {"idle", "state", "remove", "add"}
Call == [at : CallStages, req : Requests, replay : BOOLEAN, amount : Nat]
NoCall == [at |-> "idle", req |-> CHOOSE r \in Requests : TRUE, replay |-> FALSE, amount |-> 0]

FundStages == {"idle", "read", "balance", "write", "wake", "next", "over", "aborted"}
Fund == [at : FundStages, balance : Nat, list : SUBSET Requests]
NoFund == [at |-> "idle", balance |-> 0, list |-> {}]

Outcomes == {"none", "applied", "superseded", "settled", "yielded"}

Init ==
  /\ deployed = FALSE /\ chain = 0 /\ pool = 0
  /\ bounty = [i \in Issues |-> NoBounty]
  /\ job = [r \in Requests |-> NoJob]
  /\ row = [r \in Requests |-> IF r \in Legacy THEN "pending" ELSE "none"]
  /\ run = [r \in Requests |-> NoRun]
  /\ call = [c \in Callers |-> NoCall]
  /\ fund = [f \in Funders |-> NoFund]
  /\ accepted = Legacy
  /\ outcome = [r \in Requests |-> "none"]
  /\ cut = {}
  /\ mishaps = 0

------------------------------------------------------------------------------
(* enqueue_webhook: the job id is the delivery id.                         *)

Mishap == mishaps < MaxMishaps /\ mishaps' = mishaps + 1

CallGoto(c, stage) == call' = [call EXCEPT ![c].at = stage]
CallOver(c) == call' = [call EXCEPT ![c] = NoCall]
Asking(r, replay, amount) ==
  [at |-> "state", req |-> r, replay |-> replay, amount |-> amount]
\* The caller carries on: GitHub is answered, a wake goes to the next row.
Answered(c) ==
  /\ accepted' = IF c = GitHub THEN accepted \cup {call[c].req} ELSE accepted
  /\ UNCHANGED <<outcome, cut>>

\* Mutant: a failed job counts as one that has been handled.
FailedIsDuplicate(c) ==
  LET state == job[call[c].req].state
  IN  /\ call[c].at = "state"
      /\ \/ state = "none" /\ CallGoto(c, "add") /\ UNCHANGED history
         \/ state # "none" /\ CallOver(c) /\ Answered(c)
      /\ UNCHANGED <<money, job, row, run, fund, mishaps>>
ReadJobState(c) ==
  LET state == job[call[c].req].state
  IN  /\ call[c].at = "state"
      /\ \/ state = "none" /\ CallGoto(c, "add") /\ UNCHANGED history
         \/ state = "failed" /\ CallGoto(c, "remove") /\ UNCHANGED history
         \/ /\ state \in {"waiting", "active", "completed"}  \* Duplicate
            /\ CallOver(c) /\ Answered(c)
      /\ UNCHANGED <<money, job, row, run, fund, mishaps>>

\* A job that is active again by now cannot be removed: the call fails.
RemoveJob(c) ==
  LET r == call[c].req
  IN  /\ call[c].at = "remove"
      /\ \/ /\ job[r].state # "active"
            /\ job' = [job EXCEPT ![r] = NoJob]
            /\ CallGoto(c, "add")
            /\ UNCHANGED fund
         \/ /\ job[r].state = "active"
            /\ CallOver(c)
            /\ fund' = [f \in Funders |->
                         IF f = c THEN [NoFund EXCEPT !.at = "aborted"] ELSE fund[f]]
            /\ UNCHANGED job
      /\ UNCHANGED <<money, row, run, history, mishaps>>

\* BullMQ keeps the job it has when the id is taken.
AddJob(c) ==
  LET r == call[c].req
  IN  /\ call[c].at = "add"
      /\ job' = IF job[r].state = "none"
                THEN [job EXCEPT ![r] = [NoJob EXCEPT !.state = "waiting",
                                           !.replay = call[c].replay, !.amount = call[c].amount]]
                ELSE job
      /\ CallOver(c)
      /\ Answered(c)
      /\ UNCHANGED <<money, row, run, fund, mishaps>>

\* A delivery, or the same one sent again.
Deliver(r) ==
  /\ call[GitHub].at = "idle"
  /\ \/ r \notin accepted /\ UNCHANGED mishaps
     \/ r \in accepted /\ Mishap
  /\ call' = [call EXCEPT ![GitHub] = Asking(r, FALSE, AmountOf[r])]
  /\ UNCHANGED <<money, job, row, run, fund, history>>

------------------------------------------------------------------------------
(* The webhook job: process, process_webhook_job, handle_issue_labeled and *)
(* create_or_update_manual_bounty.                                         *)

Goto(r, stage) == run' = [run EXCEPT ![r] = [NoRun EXCEPT !.at = stage]]
Quiet == UNCHANGED <<job, row, call, fund, mishaps>>
Outcome(r, o) == outcome' = [outcome EXCEPT ![r] = o] /\ UNCHANGED <<accepted, cut>>

Take(r) ==
  /\ job[r].state = "waiting"
  /\ job' = [job EXCEPT ![r].state = "active", ![r].attempts = @ + 1]
  /\ run' = [run EXCEPT ![r] =
       [NoRun EXCEPT !.at = IF job[r].replay THEN "accept" ELSE "supersede"]]
  /\ UNCHANGED <<money, row, call, fund, history, mishaps>>

\* accepts_recovered_webhook: a replay whose row was resolved meanwhile, or is
\* dead, is over before it begins.
Accept(r) ==
  /\ run[r].at = "accept"
  /\ Goto(r, IF row[r] \in Parked THEN "load" ELSE "resolve")
  /\ cut' = IF row[r] = "dead" THEN cut \cup {r} ELSE cut
  /\ UNCHANGED <<money, accepted, outcome>> /\ Quiet

\* supersede_funding; its reads and writes are one step.
Supersede(r) ==
  LET old == {q \in Requests : IssueOf[q] = IssueOf[r] /\ row[q] \in Parked}
  IN  /\ run[r].at = "supersede"
      /\ row' = [q \in Requests |-> IF q \in old THEN "resolved" ELSE row[q]]
      /\ outcome' = [q \in Requests |->
                      IF q \in old \ {r} /\ outcome[q] = "none" THEN "superseded" ELSE outcome[q]]
      /\ Goto(r, "load")
      /\ UNCHANGED <<money, job, call, fund, accepted, cut, mishaps>>

Changeable(b) == b.status = "open"

Load(r) ==
  LET b == bounty[IssueOf[r]]
  IN  /\ run[r].at = "load"
      /\ \/ ~deployed /\ Goto(r, "park") /\ UNCHANGED history
         \/ /\ deployed /\ b.status # "none" /\ ~Changeable(b)
            /\ Goto(r, "resolve") /\ Outcome(r, "settled")
         \/ deployed /\ Changeable(b) /\ Goto(r, "reprice") /\ UNCHANGED history
         \/ /\ deployed /\ b.status = "none"
            /\ run' = [run EXCEPT ![r] = [@ EXCEPT !.at = "sync", !.balance = pool]]
            /\ UNCHANGED history
      /\ UNCHANGED money /\ Quiet

\* update_pending_bounty_reward reads the bounty and the balance; false sends
\* the request to wait.
Reprice(r) ==
  LET b == bounty[IssueOf[r]]
      covered == job[r].amount <= b.reward + pool
  IN  /\ run[r].at = "reprice"
      /\ run' = [run EXCEPT ![r] =
           IF Changeable(b) /\ covered
           THEN [at |-> "update", balance |-> pool, reward |-> b.reward]
           ELSE [NoRun EXCEPT !.at = "park"]]
      /\ UNCHANGED <<money, history>> /\ Quiet

\* Both rows are written by primary key, whatever they are by now.
Update(r) ==
  LET i == IssueOf[r]
  IN  /\ run[r].at = "update"
      /\ pool' = (run[r].balance + run[r].reward) - job[r].amount
      /\ bounty' = [bounty EXCEPT ![i].reward = job[r].amount]
      /\ Goto(r, "report") /\ Outcome(r, "applied")
      /\ UNCHANGED <<deployed, chain>> /\ Quiet

\* sync_repo_balance: the chain is read, then the balance is overwritten.  A
\* comment goes on with the balance it loaded when the chain cannot be read.
ReadChain(r) ==
  /\ run[r].at = "sync"
  /\ run' = [run EXCEPT ![r] = [@ EXCEPT !.at = "store", !.balance = chain]]
  /\ UNCHANGED <<money, history>> /\ Quiet
SkipSync(r) ==
  /\ run[r].at = "sync" /\ r \notin Labelled
  /\ Mishap
  /\ run' = [run EXCEPT ![r].at = "reserve"]
  /\ UNCHANGED <<money, job, row, call, fund, history>>
StoreBalance(r) ==
  /\ run[r].at = "store"
  /\ pool' = run[r].balance
  /\ run' = [run EXCEPT ![r].at = "reserve"]
  /\ UNCHANGED <<deployed, chain, bounty, history>> /\ Quiet

\* Mutant: the transaction trusts the handler's comparison.
ReserveUnchecked(r) ==
  /\ run[r].at = "reserve"
  /\ run' = [run EXCEPT ![r] =
       IF job[r].amount <= run[r].balance
       THEN [@ EXCEPT !.at = "create", !.balance = pool]
       ELSE [NoRun EXCEPT !.at = "park"]]
  /\ UNCHANGED <<money, history>> /\ Quiet
\* The handler compares its own balance, the transaction the stored one.
Reserve(r) ==
  /\ run[r].at = "reserve"
  /\ run' = [run EXCEPT ![r] =
       IF job[r].amount <= run[r].balance /\ job[r].amount <= pool
       THEN [@ EXCEPT !.at = "create", !.balance = pool]
       ELSE [NoRun EXCEPT !.at = "park"]]
  /\ UNCHANGED <<money, history>> /\ Quiet

\* A unique violation rolls back and is taken for success.
Create(r) ==
  LET i == IssueOf[r]
  IN  /\ run[r].at = "create"
      /\ \/ /\ bounty[i].status = "none"
            /\ pool' = run[r].balance - job[r].amount
            /\ bounty' = [bounty EXCEPT ![i] = [status |-> "open", reward |-> job[r].amount]]
            /\ Goto(r, "report") /\ Outcome(r, "applied")
         \/ /\ bounty[i].status # "none"
            /\ Goto(r, "resolve") /\ Outcome(r, "yielded")
            /\ UNCHANGED <<pool, bounty>>
      /\ UNCHANGED <<deployed, chain>> /\ Quiet

\* The comment is posted and an assignee adopted.
Report(r) ==
  /\ run[r].at = "report"
  /\ Goto(r, "resolve")
  /\ UNCHANGED <<money, history>> /\ Quiet

\* Mutant: every row of the issue is resolved.
ResolveIssue(r) ==
  /\ run[r].at = "resolve"
  /\ row' = [q \in Requests |-> IF IssueOf[q] = IssueOf[r] /\ row[q] # "none"
                                THEN "resolved" ELSE row[q]]
  /\ Goto(r, "complete")
  /\ UNCHANGED <<money, job, call, fund, history, mishaps>>
\* resolve_recovered_webhook and resolve: one row, its id is made from the job's.
Resolve(r) ==
  /\ run[r].at = "resolve"
  /\ row' = [row EXCEPT ![r] = IF @ = "none" THEN "none" ELSE "resolved"]
  /\ Goto(r, "complete")
  /\ UNCHANGED <<money, job, call, fund, history, mishaps>>
EndJob(r, state) ==
  /\ job' = [job EXCEPT ![r].state = state]
  /\ run' = [run EXCEPT ![r] = NoRun]
  /\ UNCHANGED <<money, row, call, fund, history, mishaps>>
Complete(r) == run[r].at = "complete" /\ EndJob(r, "completed")

\* failure_status of a webhook job.
FailureStatus(funding) == IF funding THEN "waiting_funding" ELSE "dead"
\* record_failure, before the job fails: for want of funds ...
Park(r) ==
  /\ run[r].at = "park"
  /\ row' = [row EXCEPT ![r] = FailureStatus(TRUE)]
  /\ Goto(r, "fail")
  /\ UNCHANGED <<money, job, call, fund, history, mishaps>>
\* ... or for a transient reason, at any call that leaves the process.
Fault(r) ==
  /\ run[r].at \in {"load", "sync", "report", "park"}
  /\ Mishap
  /\ Goto(r, "fault")
  /\ UNCHANGED <<money, job, row, call, fund, history>>
RecordFault(r) ==
  /\ run[r].at = "fault"
  /\ row' = [row EXCEPT ![r] = FailureStatus(FALSE)]
  /\ Goto(r, "retry")
  /\ UNCHANGED <<money, job, call, fund, history, mishaps>>

\* to_job_error: waiting for funds is unrecoverable, the rest is tried again.
Fail(r) == run[r].at = "fail" /\ EndJob(r, "failed")
Retry(r) ==
  /\ run[r].at = "retry"
  /\ EndJob(r, IF job[r].attempts < MaxAttempts THEN "waiting" ELSE "failed")

------------------------------------------------------------------------------
(* submit_deploy and submit_fund, and the wake of the parked requests.     *)

Deploy ==
  /\ ~deployed
  /\ deployed' = TRUE
  /\ UNCHANGED <<chain, pool, bounty, run, history>> /\ Quiet

FundGoto(f, stage) == fund' = [fund EXCEPT ![f] = [NoFund EXCEPT !.at = stage]]
Still == UNCHANGED <<job, row, run, call, history, mishaps>>

\* The signed transaction is sent: the contract holds the money.
Submit(f) ==
  /\ deployed /\ fund[f].at = "idle"
  /\ chain' = chain + Amount
  /\ FundGoto(f, "read")
  /\ UNCHANGED <<deployed, pool, bounty>> /\ Still
ReadBalance(f) ==
  /\ fund[f].at = "read"
  /\ fund' = [fund EXCEPT ![f] = [@ EXCEPT !.at = "balance", !.balance = pool]]
  /\ UNCHANGED money /\ Still
\* wait_for_balance_after_fund, with the balance before or after the indexer
\* has seen the funding: a balance that is not above the stored one is not
\* believed.
AwaitBalance(f) ==
  \E seen \in {chain, chain - Amount} :
    LET believed == seen > fund[f].balance \/ seen >= fund[f].balance + Amount
    IN  /\ fund[f].at = "balance"
        /\ fund' = [fund EXCEPT ![f].at = "write",
                                ![f].balance = IF believed THEN seen ELSE @ + Amount]
        /\ UNCHANGED money /\ Still
WriteBalance(f) ==
  /\ fund[f].at = "write"
  /\ pool' = fund[f].balance
  /\ FundGoto(f, "wake")
  /\ UNCHANGED <<deployed, chain, bounty>> /\ Still

\* wake_repo lists the rows once.
WakeRepo(f) ==
  /\ fund[f].at = "wake"
  /\ fund' = [fund EXCEPT ![f] =
       [NoFund EXCEPT !.at = "next", !.list = {r \in Requests : row[r] \in Parked}]]
  /\ UNCHANGED money /\ Still

\* recover_task: a label's amount is read again from the labels the issue has
\* now, a comment's is the one it was made with.
AmountsNow(r) ==
  IF r \in Labelled
  THEN {AmountOf[q] : q \in {q \in Labelled \cap (accepted \cup {r}) : IssueOf[q] = IssueOf[r]}}
  ELSE {AmountOf[r]}
RecoverTask(f, r) ==
  /\ fund[f].at = "next" /\ r \in fund[f].list /\ call[f].at = "idle"
  /\ fund' = [fund EXCEPT ![f].list = @ \ {r}]
  /\ \E a \in AmountsNow(r) : call' = [call EXCEPT ![f] = Asking(r, TRUE, a)]
  /\ UNCHANGED <<money, job, row, run, history, mishaps>>
\* The issue cannot be fetched: the first error ends the wake.
RecoverFails(f) ==
  /\ fund[f].at = "next" /\ fund[f].list # {} /\ call[f].at = "idle"
  /\ Mishap
  /\ FundGoto(f, "aborted")
  /\ UNCHANGED <<money, job, row, run, call, history>>
WakeOver(f) ==
  /\ fund[f].at = "next" /\ fund[f].list = {} /\ call[f].at = "idle"
  /\ FundGoto(f, "over")
  /\ UNCHANGED money /\ Still

\* Mutant: the scan replays rows that wait for funding.
RecoverWaiting(r) ==
  /\ row[r] \in Parked /\ job[r].state \in {"none", "failed"}
  /\ job' = [job EXCEPT ![r] = [NoJob EXCEPT !.state = "waiting", !.replay = TRUE,
                                             !.amount = AmountOf[r]]]
  /\ UNCHANGED <<money, row, run, call, fund, history, mishaps>>
\* recover: a pending row that lacks funds is parked and not replayed.
Recover(r) ==
  /\ row[r] = "pending"
  /\ row' = [row EXCEPT ![r] = "waiting_funding"]
  /\ UNCHANGED <<money, job, run, call, fund, history, mishaps>>

\* The settlement of an assigned bounty pushes its milestone.
PushMilestone(i) ==
  /\ bounty[i].status = "open"
  /\ bounty' = [bounty EXCEPT ![i].status = "locked"]
  /\ UNCHANGED <<deployed, chain, pool, job, row, run, call, fund, history, mishaps>>

\* Requests and handlers are gone; active jobs stall and are run again, or are
\* failed by BullMQ when they stall too often.
Stalled(j) ==
  IF j.state # "active" THEN j
  ELSE [j EXCEPT !.stalls = @ + 1,
                 !.state = IF j.stalls < MaxStalls THEN "waiting" ELSE "failed",
                 !.attempts = @ - 1]
Crash ==
  /\ Mishap
  /\ job' = [r \in Requests |-> Stalled(job[r])]
  /\ run' = [r \in Requests |-> NoRun]
  /\ call' = [c \in Callers |-> NoCall]
  /\ fund' = [f \in Funders |-> IF fund[f].at \in {"idle", "over"} THEN fund[f]
                                ELSE [NoFund EXCEPT !.at = "aborted"]]
  /\ cut' = cut \cup {r \in Requests : job[r].state = "active" /\ job[r].stalls >= MaxStalls}
  /\ UNCHANGED <<money, row, accepted, outcome>>

------------------------------------------------------------------------------
Enqueue(c) == ReadJobState(c) \/ RemoveJob(c) \/ AddJob(c)
Handle(r) ==
  \/ Take(r) \/ Accept(r) \/ Supersede(r) \/ Load(r) \/ Reprice(r) \/ Update(r)
  \/ ReadChain(r) \/ StoreBalance(r) \/ Reserve(r) \/ Create(r) \/ Report(r)
  \/ Resolve(r) \/ Complete(r) \/ Park(r) \/ Fail(r) \/ RecordFault(r) \/ Retry(r)
Wake(f) ==
  \/ ReadBalance(f) \/ AwaitBalance(f) \/ WriteBalance(f) \/ WakeRepo(f)
  \/ (\E r \in Requests : RecoverTask(f, r)) \/ WakeOver(f)

Next ==
  \/ \E c \in Callers : Enqueue(c)
  \/ \E r \in Requests : Deliver(r) \/ Handle(r) \/ SkipSync(r) \/ Fault(r) \/ Recover(r)
  \/ \E f \in Funders : Submit(f) \/ Wake(f) \/ RecoverFails(f)
  \/ \E i \in Issues : PushMilestone(i)
  \/ Deploy \/ Crash

Spec == Init /\ [][Next]_vars

\* Every process goes on with what it began, and the worker and the scan run;
\* nobody has to deliver, fund or fail.
Fairness ==
  /\ \A c \in Callers : WF_vars(Enqueue(c))
  /\ \A r \in Requests : WF_vars(Handle(r)) /\ WF_vars(Recover(r))
  /\ \A f \in Funders : WF_vars(Wake(f))
FairSpec == Spec /\ Fairness

------------------------------------------------------------------------------
(* Properties.                                                             *)

TypeOK ==
  /\ deployed \in BOOLEAN /\ chain \in Nat /\ pool \in Nat
  /\ bounty \in [Issues -> Bounty]
  /\ job \in [Requests -> Job]
  /\ row \in [Requests -> RowStatuses]
  /\ run \in [Requests -> Run]
  /\ call \in [Callers -> Call]
  /\ fund \in [Funders -> Fund]
  /\ accepted \subseteq Requests
  /\ outcome \in [Requests -> Outcomes]
  /\ cut \subseteq Requests
  /\ mishaps \in 0..MaxMishaps

InFlight(r) ==
  \/ job[r].state \in {"waiting", "active"}
  \/ \E c \in Callers : call[c].req = r /\ call[c].at = "add"

\* A request GitHub was told is accepted does not vanish: it is on its way, or
\* it came to something, or its row shows that it waits or has died.  The
\* exceptions are jobs that BullMQ fails for stalling (nothing records them)
\* and a replay that finds its row dead, which is skipped and resolves the row
\* (see the README).  A wake and a redelivery may take each other's job away, a
\* crash may fall between row and job, a newer request may supersede one whose
\* replay is running.
NothingVanishes ==
  \A r \in accepted \ cut :
    \/ InFlight(r)
    \/ outcome[r] # "none"
    \/ row[r] \in Parked \cup {"dead"}

\* A request that lacks funds is not tried again and again: once nobody funds
\* or delivers any more, every job comes to rest (recovery.rs and jobs/mod.rs
\* promise "durable recovery instead of hot queue retries").
ComesToRest == <>[](\A r \in Requests : job[r].state \notin {"waiting", "active"})

\* A wake that has listed a parked request gets it run again, unless the
\* request is taken up by someone else or the wake ends with an error.
ListedIsReplayed ==
  \A f \in Funders, r \in Requests :
    (fund[f].at = "next" /\ r \in fund[f].list /\ job[r].state = "failed")
      ~> (InFlight(r) \/ row[r] \notin Parked \/ fund[f].at = "aborted")

RewardOf(i) == bounty[i].reward
\* Creation "does not create an unsafe reservation" (docs/PROJECT_GUIDE.md): the
\* escrow holds the rewards of all open bounties.
ReservationsCovered ==
  MapThenFoldSet(+, 0, RewardOf, LAMBDA S : CHOOSE x \in S : TRUE, Issues) <= chain
==============================================================================
