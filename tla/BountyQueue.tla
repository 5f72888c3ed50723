----------------------------- MODULE BountyQueue -----------------------------
(***************************************************************************)
(* The queue of money jobs, seen from one bounty.                          *)
(*                                                                         *)
(* A bounty has one advance-issue job and one push-milestone job at a time *)
(* (release-payout is a push without a handoff): the job id is the key.    *)
(* Whoever wants the bounty looked at asks for the advance job, and what   *)
(* the request does depends on the state the job is in.  The request is    *)
(* several Redis calls under a lock that expires and that is done without  *)
(* when it cannot be had, and the worker changes the job's state without   *)
(* taking it.  A request that finds the job running sets a dirty flag that *)
(* the worker looks at between passes and after the job.                   *)
(***************************************************************************)
EXTENDS Naturals, FiniteSets

CONSTANTS
  Producers,    \* handlers and requests with something to report
  Drainers,     \* bound: drain tasks spawned and not yet over
  Worker,       \* the bounty worker, of concurrency 1
  Scanner,      \* the recovery task
  None,         \* nobody
  MaxHops,      \* MAX_HOPS
  MaxPasses,    \* MAX_PASSES
  MaxRechecks,  \* MAX_RECHECKS
  MaxAttempts,  \* BOUNTY_ATTEMPTS
  MaxEvents,    \* bound: things that happen to the bounty
  MaxFaults,    \* bound: failed runs and crashes
  MaxLapses,    \* bound: locks not had in time, expired, and waits given up
  Scans         \* TRUE: the recovery task runs

Callers == Producers \cup Drainers \cup {Worker, Scanner}

ASSUME CallersAssumption ==
  /\ None \notin Callers
  /\ Worker \notin Producers \cup Drainers \cup {Scanner}
  /\ Scanner \notin Producers \cup Drainers
  /\ Producers \cap Drainers = {}
\* push hands over at an odd count and advance at an even one, so an even budget
\* runs out in a push.
ASSUME BudgetsAssumption ==
  /\ MaxHops \in Nat /\ MaxHops % 2 = 0
  /\ MaxPasses \in Nat \ {0} /\ MaxAttempts \in Nat \ {0} /\ MaxRechecks \in Nat
  /\ MaxEvents \in Nat /\ MaxFaults \in Nat /\ MaxLapses \in Nat
  /\ Scans \in BOOLEAN

VARIABLES
  job,       \* kind -> the job with that id: its state and its data
  dirty,     \* the dirty flag of the bounty
  lock,      \* kind -> who holds toss:enqueue:<kind>:<bounty>
  call,      \* caller -> the enqueue_bounty_job it is in
  worker,    \* the job being run
  drainer,   \* drain task -> what it does
  recorded,  \* kinds with a pending failed_tasks row
  events,    \* things that happened; the n-th is event n
  reported,  \* the last event whose producer was told it is queued
  seen,      \* events the last evaluation could see
  faults, lapses

vars == <<job, dirty, lock, call, worker, drainer, recorded,
          events, reported, seen, faults, lapses>>
history == <<events, reported, seen>>
budgets == <<faults, lapses>>

Kinds == {"advance", "push"}
JobStates == {"none", "waiting", "delayed", "active", "failed"}
Job == [state : JobStates, hops : Nat, recheck : 0..MaxRechecks, attempts : 0..MaxAttempts]
NoJob == [state |-> "none", hops |-> 0, recheck |-> 0, attempts |-> 0]

\* Stages of enqueue_bounty_job.  locked: the lock is this caller's, as far as
\* Redis knows.  failed: the call ends with an error.
CallStages == {"idle", "lock", "state", "remove", "add", "promote", "mark", "unlock"}
Call == [at : CallStages, kind : Kinds, hops : Nat, recheck : 0..MaxRechecks,
         locked : BOOLEAN, failed : BOOLEAN, event : 0..MaxEvents]
NoCall == [at |-> "idle", kind |-> "advance", hops |-> 0, recheck |-> 0,
           locked |-> FALSE, failed |-> FALSE, event |-> 0]
\* BountyJobData::new, and next when it is called with what a job carries.
Asking(kind, hops, recheck, n) ==
  [at |-> "lock", kind |-> kind, hops |-> hops, recheck |-> recheck,
   locked |-> FALSE, failed |-> FALSE, event |-> n]

WorkerStages == {"idle", "begin", "clear", "look", "apply", "check", "park", "take",
                 "drained", "leave", "run", "handoff", "complete"}
Run == [at : WorkerStages, kind : Kinds, hops : Nat, recheck : 0..MaxRechecks,
        pass : 0..MaxPasses, park : BOOLEAN]
NoRun == [at |-> "idle", kind |-> "advance", hops |-> 0, recheck |-> 0,
          pass |-> 0, park |-> FALSE]
DrainStages == {"idle", "wait", "take", "calling"}

Init ==
  /\ job = [k \in Kinds |-> NoJob]
  /\ dirty = FALSE
  /\ lock = [k \in Kinds |-> None]
  /\ call = [c \in Callers |-> NoCall]
  /\ worker = NoRun
  /\ drainer = [d \in Drainers |-> "idle"]
  /\ recorded = {}
  /\ events = 0 /\ reported = 0 /\ seen = 0
  /\ faults = 0 /\ lapses = 0

------------------------------------------------------------------------------
(* enqueue_bounty_job, one Redis call at a time.                           *)

Calling(c, new) == call' = [call EXCEPT ![c] = new]
CallGoto(c, stage) == Calling(c, [call[c] EXCEPT !.at = stage])
SetJob(k, j) == job' = [job EXCEPT ![k] = j]
SetState(k, state) == SetJob(k, [job[k] EXCEPT !.state = state])

Lapse == lapses < MaxLapses /\ lapses' = lapses + 1 /\ UNCHANGED faults

AcquireLock(c) ==
  LET k == call[c].kind
  IN  /\ call[c].at = "lock"
      /\ lock[k] = None
      /\ lock' = [lock EXCEPT ![k] = c]
      /\ Calling(c, [call[c] EXCEPT !.at = "state", !.locked = TRUE])
      /\ UNCHANGED <<job, dirty, worker, drainer, recorded, history, budgets>>

\* ENQUEUE_LOCK_RETRIES is used up: go on without.
SkipLock(c) ==
  /\ call[c].at = "lock"
  /\ lock[call[c].kind] # None
  /\ Lapse
  /\ CallGoto(c, "state")
  /\ UNCHANGED <<job, dirty, lock, worker, drainer, recorded, history>>

\* ENQUEUE_LOCK_TTL_MS is over; nothing but time frees the lock of a dead caller.
ExpireLock(k) ==
  /\ lock[k] # None
  /\ lock' = [lock EXCEPT ![k] = None]
  /\ IF call[lock[k]].at = "idle" \/ ~call[lock[k]].locked
       THEN UNCHANGED <<call, budgets>>
       ELSE Lapse /\ Calling(lock[k], [call[lock[k]] EXCEPT !.locked = FALSE])
  /\ UNCHANGED <<job, dirty, worker, drainer, recorded, history>>

NextAction(kind, state) ==
  CASE state = "none" -> "add"
    [] state = "failed" -> "remove"
    [] state = "delayed" -> "promote"
    [] state = "active" /\ kind = "advance" -> "mark"
    [] OTHER -> "unlock"

ReadState(c) ==
  /\ call[c].at = "state"
  /\ CallGoto(c, NextAction(call[c].kind, job[call[c].kind].state))
  /\ UNCHANGED <<job, dirty, lock, worker, drainer, recorded, history, budgets>>

\* BullMQ does not remove a job that is running.
RemoveFinished(c) ==
  LET k == call[c].kind
  IN  /\ call[c].at = "remove"
      /\ IF job[k].state = "active" THEN UNCHANGED job ELSE SetState(k, "none")
      /\ CallGoto(c, "add")
      /\ UNCHANGED <<dirty, lock, worker, drainer, recorded, history, budgets>>

\* BullMQ ignores an add whose job id exists.
AddJob(c) ==
  LET k == call[c].kind
  IN  /\ call[c].at = "add"
      /\ IF job[k].state # "none" THEN UNCHANGED job
         ELSE SetJob(k, [state |-> "waiting", hops |-> call[c].hops,
                         recheck |-> call[c].recheck, attempts |-> 0])
      /\ CallGoto(c, "unlock")
      /\ UNCHANGED <<dirty, lock, worker, drainer, recorded, history, budgets>>

\* A job that is gone counts as promoted, one that is no longer delayed is an error.
PromoteJob(c) ==
  LET k == call[c].kind
  IN  /\ call[c].at = "promote"
      /\ IF job[k].state = "delayed" THEN SetState(k, "waiting") ELSE UNCHANGED job
      /\ Calling(c, [call[c] EXCEPT !.at = "unlock",
                       !.failed = job[k].state \in {"waiting", "active", "failed"}])
      /\ UNCHANGED <<dirty, lock, worker, drainer, recorded, history, budgets>>

MarkDirty(c) ==
  /\ call[c].at = "mark"
  /\ dirty' = TRUE
  /\ CallGoto(c, "unlock")
  /\ UNCHANGED <<job, lock, worker, drainer, recorded, history, budgets>>

\* A fault: the lock is deleted without a look at the token.
FreedAnyway(c) == [lock EXCEPT ![call[c].kind] = None]

\* The lock is released only by its token.  A producer that got an error is a
\* webhook job, and asks again; the others look at call.failed.
Freed(c) == IF lock[call[c].kind] = c THEN [lock EXCEPT ![call[c].kind] = None] ELSE lock

ReleaseLock(c) ==
  /\ call[c].at = "unlock"
  /\ lock' = Freed(c)
  /\ IF c \in Producers /\ call[c].failed
       THEN Calling(c, Asking("advance", 0, 0, call[c].event)) /\ UNCHANGED reported
       ELSE /\ Calling(c, [NoCall EXCEPT !.failed = call[c].failed])
            /\ reported' = IF call[c].event > reported THEN call[c].event ELSE reported
  /\ UNCHANGED <<job, dirty, worker, drainer, recorded, events, seen, budgets>>

Enqueueing(c) ==
  \/ AcquireLock(c) \/ ReadState(c) \/ RemoveFinished(c) \/ AddJob(c)
  \/ PromoteJob(c) \/ MarkDirty(c) \/ ReleaseLock(c)

------------------------------------------------------------------------------
(* The worker.  It holds no lock on the job's name.                        *)

WorkerGoto(stage) == worker' = [worker EXCEPT !.at = stage]
Answered == call[Worker].at = "idle"

\* A delay is over, be it a recheck or a backoff.
DelayOver(k) ==
  /\ job[k].state = "delayed"
  /\ SetState(k, "waiting")
  /\ UNCHANGED <<dirty, lock, call, worker, drainer, recorded, history, budgets>>

TakeJob(k) ==
  /\ worker.at = "idle"
  /\ job[k].state = "waiting"
  /\ SetState(k, "active")
  /\ worker' = [at |-> "begin", kind |-> k, hops |-> job[k].hops,
                recheck |-> job[k].recheck, pass |-> 0, park |-> FALSE]
  /\ UNCHANGED <<dirty, lock, call, drainer, recorded, history, budgets>>

\* A fault: one handoff too many.
ExhaustedLate(hops) == hops > MaxHops + 1
Exhausted(hops) == hops > MaxHops

BeginJob ==
  /\ worker.at = "begin"
  /\ WorkerGoto(IF worker.kind = "advance"
                  THEN IF Exhausted(worker.hops) THEN "leave" ELSE "clear"
                  ELSE IF Exhausted(worker.hops) THEN "complete" ELSE "run")
  /\ UNCHANGED <<job, dirty, lock, call, drainer, recorded, history, budgets>>

ClearDirty ==
  /\ worker.at = "clear"
  /\ dirty' = FALSE
  /\ WorkerGoto("look")
  /\ UNCHANGED <<job, lock, call, drainer, recorded, history, budgets>>

\* load_context and evaluate.  What they decide is Settlement's matter; any
\* decision may come of it here.
Look ==
  /\ worker.at = "look"
  /\ seen' = events
  /\ \/ /\ worker' = [worker EXCEPT !.at = "apply", !.park = FALSE]
        /\ Calling(Worker, Asking("push", worker.hops + 1, worker.recheck, 0))
     \/ /\ \E p \in BOOLEAN : worker' = [worker EXCEPT !.at = "check", !.park = p]
        /\ UNCHANGED call
  /\ UNCHANGED <<job, dirty, lock, drainer, recorded, events, reported, budgets>>

\* The run fails.  BullMQ backs off while attempts are left and the error is not final.
FailJob ==
  /\ LET left == job[worker.kind].attempts + 1 < MaxAttempts
     IN  \E state \in IF left THEN {"delayed", "failed"} ELSE {"failed"} :
           SetJob(worker.kind, [job[worker.kind] EXCEPT !.state = state,
                                  !.attempts = IF state = "delayed" THEN @ + 1 ELSE 0])
  /\ recorded' = recorded \cup {worker.kind}
  /\ worker' = NoRun

Applied ==
  /\ worker.at \in {"apply", "handoff"}
  /\ Answered
  /\ IF call[Worker].failed
       THEN FailJob /\ Calling(Worker, NoCall)
       ELSE /\ WorkerGoto(IF worker.at = "apply" THEN "check" ELSE "complete")
            /\ UNCHANGED <<job, recorded, call>>
  /\ UNCHANGED <<dirty, lock, drainer, history, budgets>>

CheckDirty ==
  /\ worker.at = "check"
  /\ worker' = IF dirty /\ worker.pass + 1 < MaxPasses
                 THEN [worker EXCEPT !.at = "clear", !.pass = @ + 1]
                 ELSE [worker EXCEPT !.at = IF worker.park THEN "park" ELSE "leave"]
  /\ UNCHANGED <<job, dirty, lock, call, drainer, recorded, history, budgets>>

\* A fault: the recheck budget is not looked at.
ParkAlways ==
  /\ worker.at = "park"
  /\ SetJob("advance", [job["advance"] EXCEPT !.state = "delayed", !.hops = 0,
                          !.recheck = worker.recheck + 1])
  /\ WorkerGoto("take")
  /\ UNCHANGED <<dirty, lock, call, drainer, recorded, history, budgets>>

\* The job becomes its own recheck, with a fresh hop budget.
ParkJob ==
  /\ worker.at = "park"
  /\ IF worker.recheck < MaxRechecks
       THEN /\ SetJob("advance", [job["advance"] EXCEPT !.state = "delayed", !.hops = 0,
                                    !.recheck = worker.recheck + 1])
            /\ WorkerGoto("take")
       ELSE WorkerGoto("leave") /\ UNCHANGED job
  /\ UNCHANGED <<dirty, lock, call, drainer, recorded, history, budgets>>

\* drain_dirty_advance after parking; its error is only logged.
TakeDirty ==
  /\ worker.at = "take"
  /\ dirty' = FALSE
  /\ IF dirty THEN Calling(Worker, Asking("advance", 0, 0, 0)) ELSE UNCHANGED call
  /\ WorkerGoto("drained")
  /\ UNCHANGED <<job, lock, drainer, recorded, history, budgets>>

\* schedule_dirty_drain; a task that still waits stands for the new one as well.
SpawnDrain(d) ==
  /\ drainer[d] \in {"idle", "wait"}
  /\ drainer' = [drainer EXCEPT ![d] = "wait"]

LeaveParked(d) ==
  /\ worker.at = "drained"
  /\ Answered
  /\ SpawnDrain(d)
  /\ worker' = NoRun
  /\ Calling(Worker, NoCall)
  /\ UNCHANGED <<job, dirty, lock, recorded, history, budgets>>

Leave(d) ==
  /\ worker.at = "leave"
  /\ SpawnDrain(d)
  /\ WorkerGoto("complete")
  /\ UNCHANGED <<job, dirty, lock, call, recorded, history, budgets>>

\* The failed_tasks row is resolved, and BullMQ removes the job.
CompleteJob ==
  /\ worker.at = "complete"
  /\ SetJob(worker.kind, NoJob)
  /\ recorded' = recorded \ {worker.kind}
  /\ worker' = NoRun
  /\ UNCHANGED <<dirty, lock, call, drainer, history, budgets>>

\* A fault: the handoff starts a fresh budget.
FreshHandoff ==
  /\ worker.at = "run"
  /\ WorkerGoto("handoff")
  /\ Calling(Worker, Asking("advance", 0, worker.recheck, 0))
  /\ UNCHANGED <<job, dirty, lock, drainer, recorded, history, budgets>>

\* run_push_milestone: the rules still call for it, or not.
RunPush ==
  /\ worker.at = "run"
  /\ \/ /\ WorkerGoto("handoff")
        /\ Calling(Worker, Asking("advance", worker.hops + 1, worker.recheck, 0))
     \/ WorkerGoto("complete") /\ UNCHANGED call
  /\ UNCHANGED <<job, dirty, lock, drainer, recorded, history, budgets>>

JobFails ==
  /\ worker.at \notin {"idle", "take", "drained", "leave", "complete"}
  /\ Answered
  /\ faults < MaxFaults
  /\ faults' = faults + 1
  /\ FailJob
  /\ Calling(Worker, NoCall)
  /\ UNCHANGED <<dirty, lock, drainer, history, lapses>>

WorkerStep ==
  \/ BeginJob \/ ClearDirty \/ Look \/ Applied \/ CheckDirty \/ ParkJob \/ TakeDirty
  \/ CompleteJob \/ RunPush \/ \E d \in Drainers : LeaveParked(d) \/ Leave(d)

------------------------------------------------------------------------------
(* Drain tasks, producers, the recovery task, and the process itself.      *)

\* wait_until_advance_idle gives up after two seconds.
AwaitIdle(d) ==
  /\ drainer[d] = "wait"
  /\ IF job["advance"].state = "active" THEN Lapse ELSE UNCHANGED budgets
  /\ drainer' = [drainer EXCEPT ![d] = "take"]
  /\ UNCHANGED <<job, dirty, lock, call, worker, recorded, history>>

Drain(d) ==
  /\ drainer[d] = "take"
  /\ dirty' = FALSE
  /\ IF dirty
       THEN /\ Calling(d, Asking("advance", 0, 0, 0))
            /\ drainer' = [drainer EXCEPT ![d] = "calling"]
       ELSE /\ drainer' = [drainer EXCEPT ![d] = "idle"]
            /\ UNCHANGED call
  /\ UNCHANGED <<job, lock, worker, recorded, history, budgets>>

DrainDone(d) ==
  /\ drainer[d] = "calling"
  /\ call[d].at = "idle"
  /\ drainer' = [drainer EXCEPT ![d] = "idle"]
  /\ Calling(d, NoCall)
  /\ UNCHANGED <<job, dirty, lock, worker, recorded, history, budgets>>

DrainStep(d) == AwaitIdle(d) \/ Drain(d) \/ DrainDone(d)

\* The row, GitHub or a wallet changed; the producer then asks for the look.
Happen(p) ==
  /\ call[p].at = "idle"
  /\ events < MaxEvents
  /\ events' = events + 1
  /\ Calling(p, Asking("advance", 0, 0, events + 1))
  /\ UNCHANGED <<job, dirty, lock, worker, drainer, recorded, reported, seen, budgets>>

\* A fault: the scan follows the failed tasks only.
ScanRecorded(k) ==
  /\ Scans
  /\ call[Scanner].at = "idle"
  /\ k \in recorded
  /\ Calling(Scanner, Asking(k, 0, 0, 0))
  /\ UNCHANGED <<job, dirty, lock, worker, drainer, recorded, history, budgets>>

\* recover_task for a recorded failure, reconcile_assigned for the bounty.
Scan(k) ==
  /\ Scans
  /\ call[Scanner].at = "idle"
  /\ k \in recorded \cup {"advance"}
  /\ Calling(Scanner, Asking(k, 0, 0, 0))
  /\ UNCHANGED <<job, dirty, lock, worker, drainer, recorded, history, budgets>>

\* The process dies.  The running job stalls and runs again, or has stalled once
\* before; webhook jobs run again; locks stay until they expire.
Crash ==
  /\ faults < MaxFaults
  /\ faults' = faults + 1
  /\ \/ worker.at = "idle" /\ UNCHANGED job
     \/ /\ worker.at # "idle"
        /\ IF job[worker.kind].state # "active" THEN UNCHANGED job
           ELSE \E state \in {"waiting", "failed"} : SetState(worker.kind, state)
  /\ worker' = NoRun
  /\ drainer' = [d \in Drainers |-> "idle"]
  /\ call' = [c \in Callers |->
                IF c \in Producers /\ call[c].at # "idle"
                  THEN Asking("advance", 0, 0, call[c].event) ELSE NoCall]
  /\ UNCHANGED <<dirty, lock, recorded, history, lapses>>

Next ==
  \/ \E c \in Callers : Enqueueing(c) \/ SkipLock(c)
  \/ \E k \in Kinds : ExpireLock(k) \/ DelayOver(k) \/ TakeJob(k) \/ Scan(k)
  \/ WorkerStep \/ JobFails \/ Crash
  \/ \E d \in Drainers : DrainStep(d)
  \/ \E p \in Producers : Happen(p)

Spec == Init /\ [][Next]_vars

\* Redis answers, time passes, BullMQ serves both kinds, tokio polls its tasks and
\* the scans repeat.  An event need not happen.
Fairness ==
  /\ \A c \in Callers : WF_vars(Enqueueing(c)) /\ SF_vars(AcquireLock(c))
  /\ \A k \in Kinds : /\ WF_vars(ExpireLock(k)) /\ WF_vars(DelayOver(k))
                      /\ SF_vars(TakeJob(k)) /\ WF_vars(Scan(k))
  /\ WF_vars(WorkerStep)
  /\ \A d \in Drainers : WF_vars(DrainStep(d))

FairSpec == Spec /\ Fairness

------------------------------------------------------------------------------
(* Properties.                                                             *)

\* Every variable keeps its type.
TypeOK ==
  /\ job \in [Kinds -> Job] /\ dirty \in BOOLEAN
  /\ lock \in [Kinds -> Callers \cup {None}]
  /\ call \in [Callers -> Call]
  /\ worker \in Run
  /\ drainer \in [Drainers -> DrainStages]
  /\ recorded \subseteq Kinds
  /\ events \in 0..MaxEvents /\ reported \in 0..MaxEvents /\ seen \in 0..MaxEvents
  /\ faults \in 0..MaxFaults /\ lapses \in 0..MaxLapses

\* Two callers that both hold the lock of one job name are one: a caller whose
\* lock expired does not free, when it is done, the lock of the next holder.
LockExclusive ==
  \A c, d \in Callers :
    call[c].locked /\ call[d].locked /\ call[c].kind = call[d].kind => c = d

\* The hop budget never costs a look: the advance job that a producer was told is
\* pending is not the one that is skipped for an exhausted budget.  Handoffs that
\* began in an advance job end in a push, since push hands over at an odd count.
NeverSkipped == ~Scans => job["advance"].hops <= MaxHops

\* With the scans, every reported event is looked at in the end, whatever was lost.
EventSeen == \A n \in 1..MaxEvents : (reported >= n) ~> (seen >= n)

\* Without scans and new events the jobs come to an end: neither rechecks, handoffs
\* nor the dirty flag keep a bounty going for ever.
Quiet == <>[](\A k \in Kinds : job[k].state \in {"none", "failed"})
==============================================================================
