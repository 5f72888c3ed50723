----------------------------- MODULE Settlement ------------------------------
(***************************************************************************)
(* One bounty from assignment to payout.                                   *)
(*                                                                         *)
(* The bounty is a Postgres row, a list of milestones in an on-chain       *)
(* escrow, and an issue on GitHub.  Two kinds of process change the first  *)
(* two: executors run the money jobs (the bounty worker, or an HTTP        *)
(* request when there is no queue) and tasks run the webhook and HTTP      *)
(* handlers.  None of them holds a lock across its steps: a handler reads  *)
(* the row, awaits the provider, and writes the row later, so a step here  *)
(* is one read or one write of one of the three systems.                   *)
(***************************************************************************)
EXTENDS Naturals, Sequences, FiniteSets

CONSTANTS
  Contributors,   \* GitHub accounts that may be assigned
  Executors,      \* bounty workers, or concurrent HTTP requests when inline
  Tasks,          \* handlers that may run at the same time
  None,           \* no contributor
  FullReward,     \* the configured reward, in units
  MaxSlots,       \* bound: milestones this bounty may append to the escrow
  MaxWallets,     \* bound: wallets a contributor connects, one after another
  MaxEvents,      \* bound: things users and GitHub do
  MaxFaults,      \* bound: crashes, timeouts and failed calls
  Ops,            \* the handlers this instance exercises
  QueueModes,     \* is Redis reachable at boot: TRUE, FALSE, or either
  RewriteSettled  \* TRUE: the provider lets update-escrow replace any milestone

ASSUME NoneAssumption == None \notin Contributors
ASSUME BoundsAssumption ==
  /\ FullReward \in Nat \ {0}
  /\ MaxSlots \in Nat
  /\ MaxWallets \in Nat
  /\ MaxEvents \in Nat
  /\ MaxFaults \in Nat
ASSUME ModesAssumption == QueueModes \subseteq BOOLEAN /\ RewriteSettled \in BOOLEAN

VARIABLES
  row,          \* the bounties row
  chain,        \* the milestones of this bounty in the escrow contract
  pushed,       \* how many of them exist
  payouts,      \* history: payments to contributors, oldest first
  wallet,       \* contributor -> number of the connected wallet, 0 for none
  maintWallet,  \* a maintainer connected a Stellar wallet
  ghAssignees,  \* assignees of the issue on GitHub
  merged,       \* contributors with a merged, linked pull request
  closed,       \* the GitHub issue is closed as completed
  enabled,      \* QueueHandle::is_enabled: FALSE makes requests run jobs inline
  inbox,        \* webhook deliveries and requests not yet handled
  queue,        \* bounty jobs waiting, delayed ones included
  failed,       \* money jobs with a failed_tasks row whose status is pending
  exec,         \* executor -> the job it runs
  task,         \* task -> the handler it runs
  events, faults  \* what is used of the two budgets

bountyVars == <<row, chain, pushed, payouts>>
worldVars == <<wallet, maintWallet, ghAssignees, merged, closed, enabled>>
jobVars == <<queue, failed>>
vars == <<row, chain, pushed, payouts, wallet, maintWallet, ghAssignees,
          merged, closed, enabled, inbox, queue, failed, exec, task, events, faults>>

------------------------------------------------------------------------------
(* The state each part keeps.                                              *)

Statuses == {"open", "assigned", "merged", "paid", "cancelled", "failed"}

\* index is milestone_index + 1, so that 0 is NULL.  epoch is history: how
\* often an assignment was taken back, i.e. which assignment this is.
Row == [status : Statuses, assignee : Contributors \cup {None},
        index : 0..MaxSlots, reward : 0..FullReward, epoch : Nat]

\* <<c, n>> is the n-th wallet of c, <<c, 0>> no wallet; the platform's own
\* account stands in where a milestone is zeroed.
Address == (Contributors \cup {None}) \X (0..MaxWallets)
PlatformAccount == <<None, 0>>

\* done abstracts the status string: it is "completed".  outcome: funds still
\* held, released to the receiver, split by a dispute resolution, or returned
\* to a maintainer by one.
Outcomes == {"none", "released", "split", "returned"}
Milestone == [to : Address, amount : 0..FullReward, done : BOOLEAN,
              approved : BOOLEAN, disputed : BOOLEAN, outcome : Outcomes]
FreshMilestone(to, amount) ==
  [to |-> to, amount |-> amount, done |-> FALSE, approved |-> FALSE,
   disputed |-> FALSE, outcome |-> "none"]
NoMilestone == FreshMilestone(PlatformAccount, 0)

Receipt == [epoch : Nat, for : Contributors, to : Address]

Jobs == {"advance", "push", "release", "inline"}
ExecStages == {"idle", "load", "assignee", "github", "evaluate", "merge",
               "fetch", "put", "save", "handoff", "precheck", "complete", "approve", "pay", "wallets",
               "dispute", "resolve", "label", "record", "confirm"}
\* What a money job holds: the context it loaded, the amount it read on chain,
\* the slot it is about to write.
Frame == [at : ExecStages, job : Jobs, row : Row,
          who : Contributors \cup {None}, addr : Address,
          amount : 0..FullReward, slot : 0..MaxSlots]

NoRow == [status |-> "open", assignee |-> None, index |-> 0, reward |-> 0, epoch |-> 0]
IdleFrame == [at |-> "idle", job |-> "advance", row |-> NoRow, who |-> None,
              addr |-> PlatformAccount, amount |-> 0, slot |-> 0]

OpNames == {"assigned", "unassigned", "merged", "closed", "rejected", "deleted",
            "rejectcmd", "payout", "hold", "reprice", "wallet", "retry"}
Delivery == [op : OpNames, who : Contributors \cup {None}]
TaskStages == {"idle", "check", "upsert", "notify", "mark", "restore", "inspect",
               "dispute", "status", "strike", "clear", "reset", "zero", "cancel",
               "resolve", "close", "fail", "amount"}
TaskFrame == [at : TaskStages, op : OpNames, who : Contributors \cup {None},
              row : Row, ms : Milestone]
IdleTask == [at |-> "idle", op |-> "closed", who |-> None, row |-> NoRow,
             ms |-> NoMilestone]

ASSUME OpsAssumption == Ops \subseteq OpNames

\* A bounty is created open, or adopts the assignee the issue already has.
Unpushed(status, c) ==
  [status |-> status, assignee |-> c, index |-> 0, reward |-> FullReward, epoch |-> 0]

Init ==
  /\ enabled \in QueueModes
  /\ \/ row = Unpushed("open", None) /\ ghAssignees = {} /\ queue = {}
     \/ \E c \in Contributors :
          /\ row = Unpushed("assigned", c)
          /\ ghAssignees = {c}
          /\ queue = IF enabled THEN {"advance"} ELSE {}
  /\ chain = [s \in 1..MaxSlots |-> NoMilestone]
  /\ pushed = 0
  /\ payouts = <<>>
  /\ wallet \in [Contributors -> {n \in 0..MaxWallets : n <= 1}]
  /\ maintWallet \in BOOLEAN
  /\ merged \in SUBSET Contributors
  /\ closed = FALSE
  /\ inbox = {}
  /\ failed = {}
  /\ exec = [e \in Executors |-> IdleFrame]
  /\ task = [t \in Tasks |-> IdleTask]
  /\ events = 0
  /\ faults = 0

------------------------------------------------------------------------------
(* The queue, seen from one bounty: one job of each kind at a time.  Asking  *)
(* for a job that is running is ignored, except that advance-issue is asked  *)
(* to look again; BountyQueue shows that this wish can be lost, so here it   *)
(* may be.                                                                   *)

Running(j) == \E e \in Executors : exec[e].at # "idle" /\ exec[e].job = j

\* A fault: jobs have no id of their own, so that a kind may run twice.
EnqueueAnyway(j) == IF enabled THEN queue' = queue \cup {j} ELSE UNCHANGED queue
Enqueue(j) ==
  \/ /\ enabled
     /\ j = "advance" \/ ~Running(j)
     /\ queue' = queue \cup {j}
  \/ /\ ~enabled \/ Running(j)
     /\ UNCHANGED queue

------------------------------------------------------------------------------
(* Money jobs.                                                             *)

Become(e, frame) == exec' = [exec EXCEPT ![e] = frame]
Goto(e, stage) == Become(e, [exec[e] EXCEPT !.at = stage])

\* The job ends well: its failed_tasks row, if any, is resolved.
Finish(e) ==
  /\ Become(e, IdleFrame)
  /\ failed' = failed \ {exec[e].job}

\* A job that fails is on record as well (record_failure); a request is not.
Record(e) == failed' = IF enabled THEN failed \cup {exec[e].job} ELSE failed

\* The job ends with an error BullMQ retries.
Retry(e) ==
  /\ Become(e, IdleFrame)
  /\ queue' = IF enabled THEN queue \cup {exec[e].job} ELSE queue
  /\ Record(e)

\* The job ends with an error BullMQ does not retry.
GiveUp(e) ==
  /\ Become(e, IdleFrame)
  /\ Record(e)
  /\ UNCHANGED queue

Loading(job) == [IdleFrame EXCEPT !.at = "load", !.job = job]
Settled(r) == r.status \in {"paid", "cancelled"}
Listed(f) == f.row.index \in 1..pushed
WalletOf(c) == IF c = None THEN PlatformAccount ELSE <<c, wallet[c]>>

Take(e, j) ==
  /\ exec[e].at = "idle"
  /\ j \in queue
  /\ queue' = queue \ {j}
  /\ Become(e, Loading(j))
  /\ UNCHANGED <<bountyVars, worldVars, failed, inbox, task, events, faults>>

\* A request runs the state machine itself when there is no queue.
AdvanceInline(e) ==
  /\ ~enabled
  /\ "retry" \in Ops
  /\ events < MaxEvents
  /\ events' = events + 1
  /\ exec[e].at = "idle"
  /\ Become(e, Loading("inline"))
  /\ UNCHANGED <<bountyVars, worldVars, jobVars, inbox, task, faults>>

\* load_context: the row, then the assignee of the row as it is by then.
LoadBounty(e) ==
  /\ exec[e].at = "load"
  /\ Become(e, [exec[e] EXCEPT !.at = "assignee", !.row = row])
  /\ UNCHANGED <<bountyVars, worldVars, jobVars, inbox, task, events, faults>>

LoadAssignee(e) ==
  /\ exec[e].at = "assignee"
  /\ \/ /\ exec[e].job = "push" /\ row.assignee = None
        /\ Finish(e)
     \/ /\ exec[e].job # "push" \/ row.assignee # None
        /\ Become(e, [exec[e] EXCEPT
              !.at = IF exec[e].job = "push" THEN "github" ELSE "evaluate",
              !.who = row.assignee, !.addr = WalletOf(row.assignee)])
        /\ UNCHANGED failed
  /\ UNCHANGED <<bountyVars, worldVars, queue, inbox, task, events, faults>>

CheckLiveAssignee(e) ==
  /\ exec[e].at = "github"
  /\ IF exec[e].who \in ghAssignees
       THEN Goto(e, "evaluate") /\ UNCHANGED failed
       ELSE Finish(e)
  /\ UNCHANGED <<bountyVars, worldVars, queue, inbox, task, events, faults>>

\* Faults of these checks that a run must notice.
ReleaseOverlooked(f) == FALSE
ReceiverUnchecked(f) == TRUE

\* What the chain says of the milestone the job loaded: a missing one says nothing.
Released(f) == Listed(f) /\ chain[f.row.index].outcome = "released"
Contested(f) ==
  Listed(f) /\ (chain[f.row.index].disputed \/ chain[f.row.index].outcome \in {"split", "returned"})
Addressed(f) == chain[f.row.index].to = f.addr

\* evaluate, up to the point where it asks GitHub about the merge.
Decision(f) ==
  LET r == f.row
      m == chain[r.index]
  IN  IF Settled(r) THEN "settled"
      ELSE IF f.who = None \/ r.reward = 0 THEN "waiting"
      ELSE IF Released(f) THEN "repair"
      ELSE IF Contested(f) THEN "blocked"
      ELSE IF f.addr[2] = 0 THEN "waiting"
      ELSE IF r.index = 0 THEN "push"
      ELSE IF ~Listed(f) THEN "blocked"
      ELSE IF ~Addressed(f) THEN IF m.amount = r.reward THEN "push" ELSE "blocked"
      ELSE IF r.reward > m.amount THEN "blocked"
      ELSE "confirm-merge"

\* What a job does with a decision.  Only the job made for it moves funds; a
\* request does every step itself and loads the bounty again before a push.
Apply(e, decision) ==
  LET job == exec[e].job
      f == exec[e]
  IN  \/ /\ decision = "waiting" /\ job = "advance"
         /\ Become(e, IdleFrame)
         /\ queue' = queue \cup {"advance"}
         /\ UNCHANGED failed
      \/ /\ decision \in {"push", "release"} /\ job = "advance"
         /\ Finish(e) /\ Enqueue(decision)
      \/ /\ decision = "push" /\ job = "push"
         /\ Goto(e, "fetch") /\ UNCHANGED jobVars
      \/ /\ decision = "push" /\ job = "inline"
         /\ Become(e, Loading("push"))
         /\ UNCHANGED jobVars
      \/ /\ decision = "release" /\ job \in {"release", "inline"}
         /\ Goto(e, IF f.row.reward = f.amount THEN "precheck" ELSE "wallets")
         /\ UNCHANGED jobVars
      \/ /\ decision = "repair" /\ job # "push"
         /\ Goto(e, "record") /\ UNCHANGED jobVars
      \/ /\ \/ decision \in {"settled", "blocked"}
            \/ decision = "waiting" /\ job # "advance"
            \/ decision = "push" /\ job = "release"
            \/ decision \in {"release", "repair"} /\ job = "push"
         /\ Finish(e) /\ UNCHANGED queue

Evaluate(e) ==
  /\ exec[e].at = "evaluate"
  /\ LET d == Decision(exec[e])
     IN  IF d = "confirm-merge"
           THEN /\ Become(e, [exec[e] EXCEPT !.at = "merge",
                                !.amount = chain[exec[e].row.index].amount])
                /\ UNCHANGED jobVars
           ELSE Apply(e, d)
  /\ UNCHANGED <<bountyVars, worldVars, inbox, task, events, faults>>

\* A fault: the pull request is not looked up.
MergeUnconfirmed(e) ==
  /\ exec[e].at = "merge"
  /\ Apply(e, "release")
  /\ UNCHANGED <<bountyVars, worldVars, inbox, task, events, faults>>

ConfirmLiveMerge(e) ==
  /\ exec[e].at = "merge"
  /\ LET split == exec[e].row.reward < exec[e].amount
     IN  Apply(e, IF exec[e].who \in merged /\ (split => maintWallet)
                    THEN "release" ELSE "waiting")
  /\ UNCHANGED <<bountyVars, worldVars, inbox, task, events, faults>>

\* A fault: Postgres is written before the chain.
SavesBeforePut(e) ==
  /\ exec[e].at = "fetch"
  /\ Become(e, [exec[e] EXCEPT !.at = "save", !.slot = pushed + 1])
  /\ UNCHANGED <<bountyVars, worldVars, jobVars, inbox, task, events, faults>>

\* push_milestone: read the escrow, write the milestone list, then Postgres.
FetchEscrow(e) ==
  /\ exec[e].at = "fetch"
  /\ LET slot == IF Listed(exec[e]) THEN exec[e].row.index ELSE pushed + 1
     IN  IF slot <= MaxSlots
           THEN /\ Become(e, [exec[e] EXCEPT !.at = "put", !.slot = slot])
                /\ UNCHANGED jobVars
           ELSE Retry(e)
  /\ UNCHANGED <<bountyVars, worldVars, inbox, task, events, faults>>

SetMilestone(s, m) == chain' = [chain EXCEPT ![s] = m]
Rewritable(m) == RewriteSettled \/ (~m.disputed /\ m.outcome = "none")

UpdateEscrow(e) ==
  /\ exec[e].at = "put"
  /\ LET f == exec[e]
     IN  IF f.slot > pushed \/ Rewritable(chain[f.slot])
           THEN /\ SetMilestone(f.slot, FreshMilestone(f.addr, f.row.reward))
                /\ pushed' = IF f.slot > pushed THEN f.slot ELSE pushed
                /\ Goto(e, "save")
                /\ UNCHANGED jobVars
           ELSE Retry(e) /\ UNCHANGED <<chain, pushed>>
  /\ UNCHANGED <<row, payouts, worldVars, inbox, task, events, faults>>

\* update_issue_status(.., "assigned", Some(index)), whatever the row says by now.
SaveMilestone(e) ==
  /\ exec[e].at = "save"
  /\ row' = [row EXCEPT !.status = "assigned", !.index = exec[e].slot]
  /\ Goto(e, "handoff")
  /\ UNCHANGED <<chain, pushed, payouts, worldVars, jobVars, inbox, task, events, faults>>

Handoff(e) ==
  /\ exec[e].at = "handoff"
  /\ Finish(e) /\ Enqueue("advance")
  /\ UNCHANGED <<bountyVars, worldVars, inbox, task, events, faults>>

------------------------------------------------------------------------------
(* release_payout.  In full: complete, approve, release.  Split between the *)
(* contributor and a maintainer: dispute the milestone and resolve it.      *)

Slot(e) == exec[e].row.index
Held(e) == chain[Slot(e)]

RequireReleasable(e) ==
  /\ exec[e].at = "precheck"
  /\ IF Held(e).outcome = "released" THEN Goto(e, "record") /\ UNCHANGED jobVars
     ELSE IF Held(e).disputed THEN GiveUp(e)
     ELSE Goto(e, "complete") /\ UNCHANGED jobVars
  /\ UNCHANGED <<bountyVars, worldVars, inbox, task, events, faults>>

CompleteMilestone(e) ==
  /\ exec[e].at = "complete"
  /\ SetMilestone(Slot(e), [Held(e) EXCEPT !.done = TRUE])
  /\ Goto(e, "approve")
  /\ UNCHANGED <<row, pushed, payouts, worldVars, jobVars, inbox, task, events, faults>>

ApproveMilestone(e) ==
  /\ exec[e].at = "approve"
  /\ IF Held(e).done \/ Held(e).outcome = "released"
       THEN /\ SetMilestone(Slot(e), [Held(e) EXCEPT !.approved = TRUE])
            /\ Goto(e, "pay") /\ UNCHANGED jobVars
       ELSE Retry(e) /\ UNCHANGED chain
  /\ UNCHANGED <<row, pushed, payouts, worldVars, inbox, task, events, faults>>

\* The receipt names the assignment and the contributor the job verified.
Receive(e, to) ==
  payouts' = IF to[1] \in Contributors
               THEN Append(payouts, [epoch |-> exec[e].row.epoch,
                                     for |-> exec[e].who, to |-> to])
               ELSE payouts

\* The contract pays the receiver it holds, once, unless it is in dispute.
ReleaseFunds(e) ==
  /\ exec[e].at = "pay"
  /\ IF Held(e).outcome = "released"
       THEN Goto(e, "label") /\ UNCHANGED <<chain, payouts, jobVars>>
     ELSE IF Held(e).approved /\ ~Held(e).disputed /\ Held(e).outcome = "none"
       THEN /\ SetMilestone(Slot(e), [Held(e) EXCEPT !.outcome = "released"])
            /\ Receive(e, Held(e).to)
            /\ Goto(e, "label") /\ UNCHANGED jobVars
     ELSE Retry(e) /\ UNCHANGED <<chain, payouts>>
  /\ UNCHANGED <<row, pushed, worldVars, inbox, task, events, faults>>

RequireWallets(e) ==
  /\ exec[e].at = "wallets"
  /\ IF maintWallet THEN Goto(e, "dispute") /\ UNCHANGED jobVars ELSE Retry(e)
  /\ UNCHANGED <<bountyVars, worldVars, inbox, task, events, faults>>

\* "already in dispute" is taken for success; a settled milestone refuses.
CanDispute(s) == chain[s].outcome = "none"
DisputeForSplit(e) ==
  /\ exec[e].at = "dispute"
  /\ IF CanDispute(Slot(e))
       THEN /\ SetMilestone(Slot(e), [Held(e) EXCEPT !.disputed = TRUE])
            /\ Goto(e, "resolve") /\ UNCHANGED jobVars
       ELSE Retry(e) /\ UNCHANGED chain
  /\ UNCHANGED <<row, pushed, payouts, worldVars, inbox, task, events, faults>>

\* The distributions come from the job, not from the chain.  "already resolved"
\* and "already released" are taken for success too.
ResolveForSplit(e) ==
  /\ exec[e].at = "resolve"
  /\ IF Held(e).outcome # "none"
       THEN Goto(e, "record") /\ UNCHANGED <<chain, payouts, jobVars>>
     ELSE IF Held(e).disputed
       THEN /\ SetMilestone(Slot(e), [Held(e) EXCEPT !.outcome = "split", !.disputed = FALSE])
            /\ Receive(e, exec[e].addr)
            /\ Goto(e, "label") /\ UNCHANGED jobVars
     ELSE Retry(e) /\ UNCHANGED <<chain, payouts>>
  /\ UNCHANGED <<row, pushed, worldVars, inbox, task, events, faults>>

\* set_milestone_status after the money moved: "paid" or "resolved".
LabelSettled(e) ==
  /\ exec[e].at = "label"
  /\ SetMilestone(Slot(e), [Held(e) EXCEPT !.done = FALSE])
  /\ Goto(e, "record")
  /\ UNCHANGED <<row, pushed, payouts, worldVars, jobVars, inbox, task, events, faults>>

\* update_assignment_payout_status "released", then update_bounty_status "paid";
\* repair_database makes the same two writes.
RecordPayout(e) ==
  /\ exec[e].at = "record"
  /\ row' = [row EXCEPT !.status = "paid"]
  /\ Goto(e, "confirm")
  /\ UNCHANGED <<chain, pushed, payouts, worldVars, jobVars, inbox, task, events, faults>>

MarkPaid(e) ==
  /\ exec[e].at = "confirm"
  /\ row' = [row EXCEPT !.status = "paid"]
  /\ Finish(e)
  /\ UNCHANGED <<chain, pushed, payouts, worldVars, queue, inbox, task, events, faults>>

\* A call fails, or the process dies and the job stalls.  BullMQ runs a stalled job
\* again, unless it stalled twice: then it is gone, and not on record either.
Stall(e) ==
  /\ Become(e, IdleFrame)
  /\ \/ queue' = IF enabled THEN queue \cup {exec[e].job} ELSE queue
     \/ UNCHANGED queue
  /\ UNCHANGED failed

JobFault(e) ==
  /\ faults < MaxFaults
  /\ faults' = faults + 1
  /\ exec[e].at # "idle"
  /\ Retry(e) \/ GiveUp(e) \/ Stall(e)
  /\ UNCHANGED <<bountyVars, worldVars, inbox, task, events>>

Progress(e) ==
  \/ LoadBounty(e) \/ LoadAssignee(e) \/ CheckLiveAssignee(e)
  \/ Evaluate(e) \/ ConfirmLiveMerge(e)
  \/ FetchEscrow(e) \/ UpdateEscrow(e) \/ SaveMilestone(e) \/ Handoff(e)
  \/ RequireReleasable(e) \/ CompleteMilestone(e) \/ ApproveMilestone(e)
  \/ ReleaseFunds(e) \/ RequireWallets(e) \/ DisputeForSplit(e)
  \/ ResolveForSplit(e) \/ LabelSettled(e) \/ RecordPayout(e) \/ MarkPaid(e)

------------------------------------------------------------------------------
(* Webhook and HTTP handlers.  Each reads the row once, decides from that   *)
(* snapshot, and writes single columns later.                              *)

TaskBecome(t, frame) == task' = [task EXCEPT ![t] = frame]
TaskGoto(t, stage) == TaskBecome(t, [task[t] EXCEPT !.at = stage])
TaskDone(t) == TaskBecome(t, IdleTask)
TaskSlot(t) == task[t].row.index

\* The handler fails: its webhook job is retried, or is out of attempts.
Abort(t) ==
  /\ TaskDone(t)
  /\ \/ inbox' = inbox \cup {[op |-> task[t].op, who |-> task[t].who]}
     \/ UNCHANGED inbox

\* Where a handler goes after its early returns; "idle" is a return.
Entry(op, r) ==
  CASE op = "closed" -> "notify"
    [] op = "payout" -> IF r.status \in {"assigned", "merged"} THEN "check" ELSE "idle"
    [] op = "hold" -> IF Settled(r) \/ r.index = 0 THEN "idle" ELSE "dispute"
    [] op \in {"assigned", "unassigned", "merged", "rejected", "deleted", "rejectcmd"} ->
         IF Settled(r) THEN "idle"
         ELSE IF op = "assigned" THEN "upsert"
         ELSE IF op \in {"unassigned", "merged"} THEN "check"
         ELSE IF op = "rejected" /\ r.index # 0 THEN "strike"
         ELSE IF op = "deleted" /\ r.status = "assigned" /\ r.index # 0 THEN "zero"
         ELSE IF op = "rejectcmd" /\ r.status \in {"assigned", "merged"} THEN "check"
         ELSE "cancel"
    [] OTHER -> "idle"

Receiving(t, d) ==
  /\ task[t].at = "idle"
  /\ d \in inbox
  /\ inbox' = inbox \ {d}
  /\ IF Entry(d.op, row) = "idle" THEN TaskDone(t)
     ELSE TaskBecome(t, [at |-> Entry(d.op, row), op |-> d.op, who |-> d.who,
                         row |-> row, ms |-> NoMilestone])
  /\ UNCHANGED <<bountyVars, worldVars, jobVars, exec, events, faults>>

\* get_assignment_for_issue reads the row again.
CheckedStage(f) ==
  CASE f.op = "unassigned" ->
         IF row.assignee \notin {None, f.who} THEN "idle"
         ELSE IF f.row.index = 0 THEN "clear"
         ELSE IF f.row.status = "assigned" THEN "restore" ELSE "inspect"
    [] f.op = "merged" ->
         IF row.status = "paid" \/ row.assignee # f.who THEN "idle" ELSE "mark"
    [] f.op = "payout" ->
         IF row.assignee = None \/ f.row.index = 0 THEN "idle" ELSE "amount"
    [] OTHER ->
         IF row.assignee = None THEN "idle"
         ELSE IF f.row.index = 0 THEN "cancel"
         ELSE IF maintWallet THEN "dispute" ELSE "idle"

\* The amounts that follow are computed from the milestone as it is now.
CheckAssignment(t) ==
  /\ task[t].at = "check"
  /\ LET next == CheckedStage(task[t])
     IN  IF next = "idle" THEN TaskDone(t)
         ELSE IF next \in {"restore", "amount"}
           THEN TaskBecome(t, [task[t] EXCEPT !.at = next, !.ms = chain[TaskSlot(t)]])
         ELSE TaskGoto(t, next)
  /\ UNCHANGED <<bountyVars, worldVars, inbox, jobVars, exec, events, faults>>

AssignBounty(t) ==
  /\ task[t].at = "upsert"
  /\ row' = [row EXCEPT !.assignee = task[t].who, !.status = "assigned"]
  /\ IF task[t].row.reward > 0 THEN TaskGoto(t, "notify") ELSE TaskDone(t)
  /\ UNCHANGED <<chain, pushed, payouts, worldVars, inbox, jobVars, exec, events, faults>>

MarkMerged(t) ==
  /\ task[t].at = "mark"
  /\ row' = [row EXCEPT !.status = "merged"]
  /\ TaskGoto(t, "notify")
  /\ UNCHANGED <<chain, pushed, payouts, worldVars, inbox, jobVars, exec, events, faults>>

EnqueueAdvance(t) ==
  /\ task[t].at = "notify"
  /\ TaskDone(t) /\ Enqueue("advance")
  /\ UNCHANGED <<bountyVars, worldVars, inbox, failed, exec, events, faults>>

\* A fault: the amount is added, which a redelivery does again.
AddsReward(t) ==
  /\ task[t].at = "restore"
  /\ row' = [row EXCEPT !.reward = @ + task[t].ms.amount]
  /\ TaskGoto(t, "inspect")
  /\ UNCHANGED <<chain, pushed, payouts, worldVars, inbox, jobVars, exec, events, faults>>

\* Unassigning restores the full reward from the chain; a payout command sets
\* the contributor's part of it.
RestoreReward(t) ==
  /\ task[t].at = "restore"
  /\ row' = [row EXCEPT !.reward = task[t].ms.amount]
  /\ TaskGoto(t, "inspect")
  /\ UNCHANGED <<chain, pushed, payouts, worldVars, inbox, jobVars, exec, events, faults>>

SavePayoutAmount(t, a) ==
  /\ task[t].at = "amount"
  /\ a \in 1..task[t].ms.amount
  /\ row' = [row EXCEPT !.reward = a]
  /\ TaskGoto(t, "notify")
  /\ UNCHANGED <<chain, pushed, payouts, worldVars, inbox, jobVars, exec, events, faults>>

\* No amount is valid when the milestone was zeroed.
RefusePayoutAmount(t) ==
  /\ task[t].at = "amount"
  /\ task[t].ms.amount = 0
  /\ TaskDone(t)
  /\ UNCHANGED <<bountyVars, worldVars, inbox, jobVars, exec, events, faults>>

InspectMilestone(t) ==
  /\ task[t].at = "inspect"
  /\ LET m == chain[TaskSlot(t)]
     IN  IF m.outcome # "none" THEN TaskDone(t)
         ELSE TaskBecome(t, [task[t] EXCEPT !.at = "dispute", !.ms = m])
  /\ UNCHANGED <<bountyVars, worldVars, inbox, jobVars, exec, events, faults>>

DisputeMilestone(t) ==
  /\ task[t].at = "dispute"
  /\ LET s == TaskSlot(t)
     IN  IF CanDispute(s)
           THEN /\ SetMilestone(s, [chain[s] EXCEPT !.disputed = TRUE])
                /\ TaskGoto(t, IF task[t].op = "rejectcmd" THEN "resolve" ELSE "status")
                /\ UNCHANGED inbox
           ELSE Abort(t) /\ UNCHANGED chain
  /\ UNCHANGED <<row, pushed, payouts, worldVars, jobVars, exec, events, faults>>

\* Status "disputed" ends a hold.  An unassignment goes on, unless the work was
\* completed or approved when it looked.
LabelDisputed(t) ==
  /\ task[t].at = "status"
  /\ SetMilestone(TaskSlot(t), [chain[TaskSlot(t)] EXCEPT !.done = FALSE])
  /\ IF task[t].op = "hold" \/ task[t].ms.approved \/ task[t].ms.done
       THEN TaskDone(t) ELSE TaskGoto(t, "strike")
  /\ UNCHANGED <<row, pushed, payouts, worldVars, inbox, jobVars, exec, events, faults>>

LabelRejected(t) ==
  /\ task[t].at = "strike"
  /\ SetMilestone(TaskSlot(t), [chain[TaskSlot(t)] EXCEPT !.done = FALSE])
  /\ TaskGoto(t, IF task[t].op = "unassigned" THEN "clear" ELSE "cancel")
  /\ UNCHANGED <<row, pushed, payouts, worldVars, inbox, jobVars, exec, events, faults>>

\* unassign_bounty and then reset_bounty_to_open clear the same columns.
Unassigned(r) ==
  [r EXCEPT !.status = "open", !.assignee = None, !.index = 0, !.epoch = @ + 1]

UnassignBounty(t) ==
  /\ task[t].at = "clear"
  /\ row' = Unassigned(row)
  /\ TaskGoto(t, "reset")
  /\ UNCHANGED <<chain, pushed, payouts, worldVars, inbox, jobVars, exec, events, faults>>

ResetToOpen(t) ==
  /\ task[t].at = "reset"
  /\ row' = Unassigned(row)
  /\ TaskDone(t)
  /\ UNCHANGED <<chain, pushed, payouts, worldVars, inbox, jobVars, exec, events, faults>>

ZeroMilestone(t) ==
  /\ task[t].at = "zero"
  /\ LET s == TaskSlot(t)
     IN  IF Rewritable(chain[s])
           THEN /\ SetMilestone(s, [chain[s] EXCEPT !.amount = 0, !.to = PlatformAccount])
                /\ TaskGoto(t, "cancel") /\ UNCHANGED inbox
           ELSE Abort(t) /\ UNCHANGED chain
  /\ UNCHANGED <<row, pushed, payouts, worldVars, jobVars, exec, events, faults>>

CancelBounty(t) ==
  /\ task[t].at = "cancel"
  /\ row' = [row EXCEPT !.status = "cancelled"]
  /\ TaskDone(t)
  /\ UNCHANGED <<chain, pushed, payouts, worldVars, inbox, jobVars, exec, events, faults>>

\* The reject command sends the whole milestone to the maintainer.
ResolveToMaintainer(t) ==
  /\ task[t].at = "resolve"
  /\ LET s == TaskSlot(t)
     IN  IF chain[s].outcome # "none"
           THEN TaskGoto(t, "close") /\ UNCHANGED <<chain, inbox>>
         ELSE IF chain[s].disputed /\ chain[s].amount > 0
           THEN /\ SetMilestone(s, [chain[s] EXCEPT !.outcome = "returned",
                                     !.disputed = FALSE, !.done = FALSE])
                /\ TaskGoto(t, "close") /\ UNCHANGED inbox
         ELSE Abort(t) /\ UNCHANGED chain
  /\ UNCHANGED <<row, pushed, payouts, worldVars, jobVars, exec, events, faults>>

CloseRejected(t) ==
  /\ task[t].at = "close"
  /\ row' = [row EXCEPT !.status = "cancelled"]
  /\ TaskGoto(t, "fail")
  /\ UNCHANGED <<chain, pushed, payouts, worldVars, inbox, jobVars, exec, events, faults>>

\* update_assignment_payout_status(.., "failed", ..) writes the same column.
FailRejected(t) ==
  /\ task[t].at = "fail"
  /\ row' = [row EXCEPT !.status = "failed"]
  /\ TaskDone(t)
  /\ UNCHANGED <<chain, pushed, payouts, worldVars, inbox, jobVars, exec, events, faults>>

TaskFault(t) ==
  /\ faults < MaxFaults
  /\ faults' = faults + 1
  /\ task[t].at # "idle"
  /\ Abort(t)
  /\ UNCHANGED <<bountyVars, worldVars, jobVars, exec, events>>

TaskProgress(t) ==
  \/ CheckAssignment(t) \/ AssignBounty(t) \/ MarkMerged(t) \/ EnqueueAdvance(t)
  \/ RestoreReward(t) \/ InspectMilestone(t) \/ DisputeMilestone(t)
  \/ LabelDisputed(t) \/ LabelRejected(t) \/ UnassignBounty(t) \/ ResetToOpen(t)
  \/ ZeroMilestone(t) \/ CancelBounty(t) \/ ResolveToMaintainer(t)
  \/ CloseRejected(t) \/ FailRejected(t) \/ RefusePayoutAmount(t)
  \/ \E a \in 1..FullReward : SavePayoutAmount(t, a)

------------------------------------------------------------------------------
(* Users, GitHub and the periodic scans.                                   *)

Happens(op) ==
  /\ op \in Ops
  /\ events < MaxEvents
  /\ events' = events + 1
  /\ UNCHANGED <<failed, exec, task, faults>>

Deliver(op, c) == inbox' = inbox \cup {[op |-> op, who |-> c]}

GitHubAssign(c) ==
  /\ Happens("assigned")
  /\ c \notin ghAssignees
  /\ ghAssignees' = ghAssignees \cup {c}
  /\ Deliver("assigned", c)
  /\ UNCHANGED <<bountyVars, wallet, maintWallet, merged, closed, enabled, queue>>

GitHubUnassign(c) ==
  /\ Happens("unassigned")
  /\ c \in ghAssignees
  /\ ghAssignees' = ghAssignees \ {c}
  /\ Deliver("unassigned", c)
  /\ UNCHANGED <<bountyVars, wallet, maintWallet, merged, closed, enabled, queue>>

\* merged also stands for "the pull request links the issue and is not rejected".
GitHubMerge(c) ==
  /\ Happens("merged")
  /\ c \notin merged
  /\ merged' = merged \cup {c}
  /\ Deliver("merged", c)
  /\ UNCHANGED <<bountyVars, wallet, maintWallet, ghAssignees, closed, enabled, queue>>

GitHubClose ==
  /\ Happens("closed")
  /\ ~closed
  /\ closed' = TRUE
  /\ Deliver("closed", None)
  /\ UNCHANGED <<bountyVars, wallet, maintWallet, ghAssignees, merged, enabled, queue>>

\* A maintainer's label, comment command or HTTP request about this bounty.
MaintainerCommand(op) ==
  /\ op \in {"rejected", "deleted", "rejectcmd", "payout", "hold"}
  /\ Happens(op)
  /\ Deliver(op, None)
  /\ UNCHANGED <<bountyVars, worldVars, queue>>

\* update_pending_bounty_reward, in one transaction; refused once an index is set.
ChangeReward(a) ==
  /\ Happens("reprice")
  /\ a # row.reward
  /\ row.status = "open" \/ (row.status \in {"assigned", "merged"} /\ row.index = 0)
  /\ row' = [row EXCEPT !.reward = a]
  /\ IF row.status = "open" THEN UNCHANGED queue ELSE Enqueue("advance")
  /\ UNCHANGED <<chain, pushed, payouts, worldVars, inbox>>

ConnectWallet(c) ==
  /\ Happens("wallet")
  /\ wallet[c] < MaxWallets
  /\ wallet' = [wallet EXCEPT ![c] = @ + 1]
  /\ IF row.assignee = c /\ ~Settled(row) THEN Enqueue("advance") ELSE UNCHANGED queue
  /\ UNCHANGED <<bountyVars, maintWallet, ghAssignees, merged, closed, enabled, inbox>>

ConnectMaintainerWallet ==
  /\ Happens("wallet")
  /\ ~maintWallet
  /\ maintWallet' = TRUE
  /\ IF row.status \in {"assigned", "merged"} THEN Enqueue("advance") ELSE UNCHANGED queue
  /\ UNCHANGED <<bountyVars, wallet, ghAssignees, merged, closed, enabled, inbox>>

\* The retry button and the /retry command.
RetryBounty ==
  /\ Happens("retry")
  /\ Enqueue("advance")
  /\ UNCHANGED <<bountyVars, worldVars, inbox>>

\* recover and reconcile_assigned, once a minute and once in five.
Recover(j) ==
  /\ enabled
  /\ j \in failed
  /\ Enqueue(j)
  /\ UNCHANGED <<bountyVars, worldVars, failed, inbox, exec, task, events, faults>>

\* A fault: the scan leaves out bounties that are still "assigned".
ReconcileMerged ==
  /\ enabled
  /\ row.status = "merged"
  /\ Enqueue("advance")
  /\ UNCHANGED <<bountyVars, worldVars, failed, inbox, exec, task, events, faults>>

Reconcile ==
  /\ enabled
  /\ row.status \in {"assigned", "merged"}
  /\ Enqueue("advance")
  /\ UNCHANGED <<bountyVars, worldVars, failed, inbox, exec, task, events, faults>>

World ==
  \/ \E c \in Contributors :
       GitHubAssign(c) \/ GitHubUnassign(c) \/ GitHubMerge(c) \/ ConnectWallet(c)
  \/ GitHubClose \/ ConnectMaintainerWallet \/ RetryBounty
  \/ \E op \in Ops : MaintainerCommand(op)
  \/ \E a \in 1..FullReward : ChangeReward(a)

Next ==
  \/ World \/ Reconcile
  \/ \E j \in Jobs : Recover(j) \/ \E e \in Executors : Take(e, j)
  \/ \E e \in Executors : Progress(e) \/ JobFault(e) \/ AdvanceInline(e)
  \/ \E t \in Tasks :
       \/ TaskProgress(t) \/ TaskFault(t)
       \/ \E d \in inbox : Receiving(t, d)

Spec == Init /\ [][Next]_vars

\* Started steps run on (tokio keeps polling them), BullMQ serves every kind of
\* waiting job, and the scans repeat.  Nothing is assumed of users or GitHub.
Fairness ==
  /\ \A e \in Executors : WF_vars(Progress(e)) /\ \A j \in Jobs : SF_vars(Take(e, j))
  /\ \A t \in Tasks : WF_vars(TaskProgress(t)) /\ WF_vars(\E d \in inbox : Receiving(t, d))
  /\ \A j \in Jobs : WF_vars(Recover(j))
  /\ WF_vars(Reconcile)

FairSpec == Spec /\ Fairness

------------------------------------------------------------------------------
(* Properties.                                                             *)

\* Every variable keeps its type.
TypeOK ==
  /\ row \in Row
  /\ chain \in [1..MaxSlots -> Milestone]
  /\ pushed \in 0..MaxSlots
  /\ payouts \in Seq(Receipt)
  /\ wallet \in [Contributors -> 0..MaxWallets]
  /\ maintWallet \in BOOLEAN /\ closed \in BOOLEAN /\ enabled \in BOOLEAN
  /\ ghAssignees \subseteq Contributors /\ merged \subseteq Contributors
  /\ inbox \subseteq Delivery
  /\ queue \subseteq Jobs /\ failed \subseteq Jobs
  /\ exec \in [Executors -> Frame] /\ task \in [Tasks -> TaskFrame]
  /\ events \in 0..MaxEvents /\ faults \in 0..MaxFaults

\* The payout goes to a wallet of the contributor the job verified, whose linked
\* pull request is merged - although the wallet, the assignee and the milestone
\* may all change between the check and the transfer.
PaysOnlyMergedAuthor ==
  \A i \in DOMAIN payouts :
    /\ payouts[i].for \in merged
    /\ payouts[i].to[1] = payouts[i].for
    /\ payouts[i].to[2] \in 1..wallet[payouts[i].for]

\* From the check of the merge to the label that follows a split.
ReleaseStages == {"merge", "precheck", "complete", "approve", "pay", "wallets",
                  "dispute", "resolve", "label"}
\* No job is about to rewrite a milestone that another, which compared its receiver, is
\* about to release.  One worker cannot; two instances can, and then
\* PaysOnlyMergedAuthor does not hold.
Apart ==
  \A d, e \in Executors :
    d # e /\ exec[d].at = "put" /\ exec[e].at \in ReleaseStages =>
      exec[d].slot # exec[e].row.index

\* However often jobs crash after the transfer and run again, are retried,
\* recovered or reconciled, one assignment is paid once.
PaidOncePerAssignment ==
  \A i, j \in DOMAIN payouts : payouts[i].epoch = payouts[j].epoch => i = j

\* The milestone the row points at is one the escrow has, for every snapshot of
\* the row that a job or a handler still works from.
IndexOnChain ==
  /\ row.index <= pushed
  /\ \A e \in Executors : exec[e].row.index <= pushed
  /\ \A t \in Tasks : task[t].row.index <= pushed

\* Settlement implements PayoutPromise.
Promise == INSTANCE PayoutPromise WITH
  receipts <- [i \in DOMAIN payouts |-> [epoch |-> payouts[i].epoch, for |-> payouts[i].for]]
KeepsPromise == Promise!Spec

\* The milestone of the row is neither disputed nor settled and holds the reward.
Undisputed ==
  IF row.index = 0 THEN pushed < MaxSlots
  ELSE LET m == chain[row.index]
       IN  ~m.disputed /\ m.outcome = "none" /\ row.reward <= m.amount

\* An assigned bounty whose contributor did everything asked for, and which no
\* maintainer holds.  A split also needs the maintainer's wallet.
Ready ==
  /\ row.status \in {"assigned", "merged"}
  /\ row.assignee \in ghAssignees \cap merged
  /\ wallet[row.assignee] > 0
  /\ row.reward > 0
  /\ row.index # 0 /\ row.reward < chain[row.index].amount => maintWallet
  /\ row.index # 0 => \/ chain[row.index].to = WalletOf(row.assignee)
                     \/ chain[row.index].amount = row.reward
  /\ Undisputed

\* With a queue, no bounty stays ready for ever: it is paid, or someone withdraws it.
\* Crashes may drop jobs and the queue may lose wishes; the scans make up for both.
ReadyIsPaid == []<>(~enabled \/ ~Ready)

\* A full release that crashed before Postgres heard of it is recorded in the end.
Unrecorded ==
  /\ row.status \in {"assigned", "merged"}
  /\ row.assignee # None /\ row.reward > 0 /\ row.index # 0
  /\ chain[row.index].outcome = "released"
ReleaseIsRecorded == []<>(~enabled \/ ~Unrecorded)

\* A cancelled bounty, whose reward went back to the pool, stays closed.
CancelledStaysClosed ==
  [][row.status = "cancelled" => row'.status \notin {"open", "assigned", "merged", "paid"}]_vars
==============================================================================
