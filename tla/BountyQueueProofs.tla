-------------------------- MODULE BountyQueueProofs --------------------------
(***************************************************************************)
(* Type correctness of BountyQueue, LockExclusive and NeverSkipped, for    *)
(* any number of producers and drain tasks and any budgets.                *)
(*                                                                         *)
(* TypeOK is inductive.  LockExclusive is not: that a caller whose lock    *)
(* expired does not think it still has it is what LocksHeld adds.          *)
(* NeverSkipped follows the parity of the hop count through the job, the   *)
(* request and the run, in HopsBounded.                                    *)
(***************************************************************************)
EXTENDS BountyQueue, TLAPS

\* What a caller, the worker and an absent job hold at rest is well typed.
LEMMA RestTyped == NoCall \in Call /\ NoRun \in Run /\ NoJob \in Job
BY BudgetsAssumption DEF NoCall, Call, CallStages, Kinds, NoRun, Run, WorkerStages,
                         NoJob, Job, JobStates

\* A new request is a well-typed call.
LEMMA AskingTyped ==
  ASSUME NEW kind \in Kinds, NEW hops \in Nat, NEW recheck \in 0..MaxRechecks,
         NEW n \in 0..MaxEvents
  PROVE  Asking(kind, hops, recheck, n) \in Call
BY DEF Asking, Call, CallStages

\* A step of one caller leaves all calls typed.
LEMMA CallTyped ==
  ASSUME TypeOK, NEW c \in Callers, NEW new \in Call, Calling(c, new)
  PROVE  call' \in [Callers -> Call]
BY DEF TypeOK, Calling

\* So does replacing one job by a typed one.
LEMMA JobTyped ==
  ASSUME TypeOK, NEW k \in Kinds, NEW j \in Job, SetJob(k, j)
  PROVE  job' \in [Kinds -> Job]
BY DEF TypeOK, SetJob

\* A job that only changes its state stays a job.
LEMMA StateTyped ==
  ASSUME TypeOK, NEW k \in Kinds, NEW s \in JobStates
  PROVE  [job[k] EXCEPT !.state = s] \in Job
BY DEF TypeOK, Job

\* A call that only moves on stays a call.
LEMMA StageTyped ==
  ASSUME TypeOK, NEW c \in Callers, NEW s \in CallStages
  PROVE  [call[c] EXCEPT !.at = s] \in Call
BY DEF TypeOK, Call

\* The worker that only moves on stays a run.
LEMMA WorkerTyped ==
  ASSUME TypeOK, NEW s \in WorkerStages, WorkerGoto(s)
  PROVE  worker' \in Run
BY DEF TypeOK, WorkerGoto, Run

\* enqueue_bounty_job keeps the types, with the lock or without it.
LEMMA EnqueueingTyped ==
  ASSUME TypeOK, NEW c \in Callers, Enqueueing(c) \/ SkipLock(c)
  PROVE  TypeOK'
<1>k. call[c].kind \in Kinds /\ call[c] \in Call BY DEF TypeOK, Call
<1>1. CASE AcquireLock(c)
  <2>1. [call[c] EXCEPT !.at = "state", !.locked = TRUE] \in Call BY <1>k DEF Call, CallStages
  <2>2. call' \in [Callers -> Call] BY <1>1, <2>1, CallTyped DEF AcquireLock
  <2> QED BY <1>1, <1>k, <2>2 DEF AcquireLock, TypeOK, history, budgets
<1>2. CASE SkipLock(c)
  <2>1. call' \in [Callers -> Call]
    BY <1>2, CallTyped, StageTyped DEF SkipLock, CallGoto, CallStages
  <2> QED BY <1>2, <2>1, BudgetsAssumption DEF SkipLock, TypeOK, history, budgets, Lapse
<1>3. CASE ReadState(c)
  <2>1. NextAction(call[c].kind, job[call[c].kind].state) \in CallStages
    BY DEF NextAction, CallStages
  <2>2. call' \in [Callers -> Call] BY <1>3, <2>1, CallTyped, StageTyped DEF ReadState, CallGoto
  <2> QED BY <1>3, <2>2 DEF ReadState, TypeOK, history, budgets
<1>4. CASE RemoveFinished(c)
  <2>1. call' \in [Callers -> Call]
    BY <1>4, CallTyped, StageTyped DEF RemoveFinished, CallGoto, CallStages
  <2>2. job' \in [Kinds -> Job]
    <3>1. CASE UNCHANGED job BY <3>1 DEF TypeOK
    <3>2. CASE SetState(call[c].kind, "none")
      BY <3>2, <1>k, JobTyped, StateTyped DEF SetState, JobStates
    <3> QED BY <1>4, <3>1, <3>2 DEF RemoveFinished
  <2> QED BY <1>4, <2>1, <2>2 DEF RemoveFinished, TypeOK, history, budgets
<1>5. CASE AddJob(c)
  <2>1. call' \in [Callers -> Call] BY <1>5, CallTyped, StageTyped DEF AddJob, CallGoto, CallStages
  <2>2. [state |-> "waiting", hops |-> call[c].hops, recheck |-> call[c].recheck,
         attempts |-> 0] \in Job
    BY <1>k, BudgetsAssumption DEF Call, Job, JobStates
  <2>3. job' \in [Kinds -> Job]
    <3>1. CASE UNCHANGED job BY <3>1 DEF TypeOK
    <3> QED BY <1>5, <1>k, <2>2, <3>1, JobTyped DEF AddJob
  <2> QED BY <1>5, <2>1, <2>3 DEF AddJob, TypeOK, history, budgets
<1>6. CASE PromoteJob(c)
  <2>1. \A b \in BOOLEAN : [call[c] EXCEPT !.at = "unlock", !.failed = b] \in Call
    BY <1>k DEF Call, CallStages
  <2>2. call' \in [Callers -> Call]
    <3> DEFINE b == job[call[c].kind].state \in {"waiting", "active", "failed"}
    <3>1. Calling(c, [call[c] EXCEPT !.at = "unlock", !.failed = b])
      BY <1>6 DEF PromoteJob
    <3>2. b \in BOOLEAN OBVIOUS
    <3> HIDE DEF b
    <3> QED BY <2>1, <3>1, <3>2, CallTyped
  <2>3. job' \in [Kinds -> Job]
    <3>1. CASE UNCHANGED job BY <3>1 DEF TypeOK
    <3>2. CASE SetState(call[c].kind, "waiting")
      BY <3>2, <1>k, JobTyped, StateTyped DEF SetState, JobStates
    <3> QED BY <1>6, <3>1, <3>2 DEF PromoteJob
  <2> QED BY <1>6, <2>2, <2>3 DEF PromoteJob, TypeOK, history, budgets
<1>7. CASE MarkDirty(c)
  <2>1. call' \in [Callers -> Call]
    BY <1>7, CallTyped, StageTyped DEF MarkDirty, CallGoto, CallStages
  <2> QED BY <1>7, <2>1 DEF MarkDirty, TypeOK, history, budgets
<1>8. CASE ReleaseLock(c)
  <2>1. lock' \in [Kinds -> Callers \cup {None}]
    BY <1>8, <1>k DEF ReleaseLock, Freed, TypeOK
  <2>2. call[c].event \in 0..MaxEvents BY <1>k DEF Call
  <2>3. reported' \in 0..MaxEvents BY <1>8, <2>2 DEF ReleaseLock, TypeOK
  <2>4. Asking("advance", 0, 0, call[c].event) \in Call
    BY <2>2, AskingTyped, BudgetsAssumption DEF Kinds
  <2>5. [NoCall EXCEPT !.failed = call[c].failed] \in Call BY <1>k, RestTyped DEF Call
  <2>6. call' \in [Callers -> Call] BY <1>8, <2>4, <2>5, CallTyped DEF ReleaseLock
  <2> QED BY <1>8, <2>1, <2>3, <2>6 DEF ReleaseLock, TypeOK, budgets
<1> QED BY <1>1, <1>2, <1>3, <1>4, <1>5, <1>6, <1>7, <1>8 DEF Enqueueing

\* A failed run counts an attempt only while some are left.
LEMMA FailTyped ==
  ASSUME TypeOK, FailJob
  PROVE  job' \in [Kinds -> Job] /\ recorded' \subseteq Kinds /\ worker' \in Run
<1> DEFINE k == worker.kind
           old == job[k]
<1>k. k \in Kinds /\ old \in Job BY DEF TypeOK, Run
<1>1. PICK s \in {"delayed", "failed"} :
        /\ s = "delayed" => old.attempts + 1 < MaxAttempts
        /\ SetJob(k, [old EXCEPT !.state = s,
                        !.attempts = IF s = "delayed" THEN old.attempts + 1 ELSE 0])
  BY DEF FailJob
<1>2. [old EXCEPT !.state = s,
          !.attempts = IF s = "delayed" THEN old.attempts + 1 ELSE 0] \in Job
  <2>1. (IF s = "delayed" THEN old.attempts + 1 ELSE 0) \in 0..MaxAttempts
    BY <1>k, <1>1, BudgetsAssumption DEF Job
  <2>2. \A n \in 0..MaxAttempts : [old EXCEPT !.state = s, !.attempts = n] \in Job
    BY <1>k DEF Job, JobStates
  <2> QED BY <2>1, <2>2
<1>3. job' \in [Kinds -> Job] BY <1>k, <1>1, <1>2, JobTyped
<1> QED BY <1>k, <1>3, RestTyped DEF FailJob, TypeOK

\* The worker keeps the types.
LEMMA WorkerStepTyped ==
  ASSUME TypeOK, WorkerStep \/ JobFails \/ \E k \in Kinds : TakeJob(k)
  PROVE  TypeOK'
<1>w. worker \in Run /\ worker.kind \in Kinds /\ worker.hops \in Nat
      /\ worker.recheck \in 0..MaxRechecks
  BY DEF TypeOK, Run
<1>c. Worker \in Callers BY DEF Callers
<1>n. NoCall \in Call /\ NoRun \in Run /\ NoJob \in Job BY RestTyped
<1>0. CASE \E k \in Kinds : TakeJob(k)
  <2>1. PICK k \in Kinds : TakeJob(k) BY <1>0
  <2>2. job' \in [Kinds -> Job]
    BY <2>1, JobTyped, StateTyped DEF TakeJob, SetState, JobStates
  <2>3. worker' \in Run
    BY <2>1, BudgetsAssumption DEF TakeJob, TypeOK, Job, Run, WorkerStages
  <2> QED BY <2>1, <2>2, <2>3 DEF TakeJob, TypeOK, history, budgets
<1>1. CASE BeginJob
  <2>1. worker' \in Run BY <1>1, WorkerTyped DEF BeginJob, WorkerStages
  <2> QED BY <1>1, <2>1 DEF BeginJob, TypeOK, history, budgets
<1>2. CASE ClearDirty
  <2>1. worker' \in Run BY <1>2, WorkerTyped DEF ClearDirty, WorkerStages
  <2> QED BY <1>2, <2>1 DEF ClearDirty, TypeOK, history, budgets
<1>3. CASE Look
  <2>1. worker' \in Run BY <1>3, <1>w DEF Look, Run, WorkerStages
  <2>2. Asking("push", worker.hops + 1, worker.recheck, 0) \in Call
    BY <1>w, AskingTyped, BudgetsAssumption DEF Kinds
  <2>3. call' \in [Callers -> Call]
    <3>1. CASE UNCHANGED call BY <3>1 DEF TypeOK
    <3> QED BY <1>3, <1>c, <2>2, <3>1, CallTyped DEF Look
  <2> QED BY <1>3, <2>1, <2>3 DEF Look, TypeOK, budgets
<1>4. CASE Applied
  <2>1. CASE call[Worker].failed
    <3>1. call' \in [Callers -> Call] BY <1>4, <1>c, <1>n, <2>1, CallTyped DEF Applied
    <3> QED BY <1>4, <2>1, <3>1, FailTyped DEF Applied, TypeOK, history, budgets
  <2>2. CASE ~call[Worker].failed
    <3>1. worker' \in Run BY <1>4, <2>2, WorkerTyped DEF Applied, WorkerStages
    <3> QED BY <1>4, <2>2, <3>1 DEF Applied, TypeOK, history, budgets
  <2> QED BY <2>1, <2>2
<1>5. CASE CheckDirty
  <2>1. CASE dirty /\ worker.pass + 1 < MaxPasses
    <3> DEFINE n == worker.pass + 1
    <3>1. n \in 0..MaxPasses BY <1>w, <2>1, BudgetsAssumption DEF Run
    <3>2. worker' \in Run
      <4>1. worker' = [worker EXCEPT !.at = "clear", !.pass = n] BY <1>5, <2>1 DEF CheckDirty
      <4> HIDE DEF n
      <4> QED BY <1>w, <3>1, <4>1 DEF Run, WorkerStages
    <3> QED BY <1>5, <3>2 DEF CheckDirty, TypeOK, history, budgets
  <2>2. CASE ~(dirty /\ worker.pass + 1 < MaxPasses)
    <3>1. WorkerGoto(IF worker.park THEN "park" ELSE "leave")
      BY <1>5, <2>2 DEF CheckDirty, WorkerGoto
    <3>2. worker' \in Run BY <3>1, WorkerTyped DEF WorkerStages
    <3> QED BY <1>5, <3>2 DEF CheckDirty, TypeOK, history, budgets
  <2> QED BY <2>1, <2>2
<1>6. CASE ParkJob
  <2>1. worker' \in Run BY <1>6, WorkerTyped DEF ParkJob, WorkerStages
  <2>2. CASE worker.recheck < MaxRechecks
    <3>0. worker.recheck + 1 \in 0..MaxRechecks BY <1>w, <2>2, BudgetsAssumption
    <3>1. [job["advance"] EXCEPT !.state = "delayed", !.hops = 0,
             !.recheck = worker.recheck + 1] \in Job
      <4>1. \A n \in 0..MaxRechecks :
              [job["advance"] EXCEPT !.state = "delayed", !.hops = 0, !.recheck = n] \in Job
        BY DEF TypeOK, Kinds, Job, JobStates
      <4> QED BY <3>0, <4>1
    <3>2. job' \in [Kinds -> Job] BY <1>6, <2>2, <3>1, JobTyped DEF ParkJob, Kinds
    <3> QED BY <1>6, <2>1, <3>2 DEF ParkJob, TypeOK, history, budgets
  <2>3. CASE ~(worker.recheck < MaxRechecks)
    BY <1>6, <2>1, <2>3 DEF ParkJob, TypeOK, history, budgets
  <2> QED BY <2>2, <2>3
<1>7. CASE TakeDirty
  <2>1. worker' \in Run BY <1>7, WorkerTyped DEF TakeDirty, WorkerStages
  <2>2. Asking("advance", 0, 0, 0) \in Call BY AskingTyped, BudgetsAssumption DEF Kinds
  <2>3. call' \in [Callers -> Call]
    <3>1. CASE UNCHANGED call BY <3>1 DEF TypeOK
    <3> QED BY <1>7, <1>c, <2>2, <3>1, CallTyped DEF TakeDirty
  <2> QED BY <1>7, <2>1, <2>3 DEF TakeDirty, TypeOK, history, budgets
<1>8. CASE CompleteJob
  <2>1. job' \in [Kinds -> Job] BY <1>8, <1>n, <1>w, JobTyped DEF CompleteJob
  <2> QED BY <1>8, <1>n, <2>1 DEF CompleteJob, TypeOK, history, budgets
<1>9. CASE RunPush
  <2>1. worker' \in Run BY <1>9, WorkerTyped DEF RunPush, WorkerStages
  <2>2. Asking("advance", worker.hops + 1, worker.recheck, 0) \in Call
    BY <1>w, AskingTyped, BudgetsAssumption DEF Kinds
  <2>3. call' \in [Callers -> Call]
    <3>1. CASE UNCHANGED call BY <3>1 DEF TypeOK
    <3> QED BY <1>9, <1>c, <2>2, <3>1, CallTyped DEF RunPush
  <2> QED BY <1>9, <2>1, <2>3 DEF RunPush, TypeOK, history, budgets
<1>10. CASE \E d \in Drainers : LeaveParked(d) \/ Leave(d)
  <2>1. PICK d \in Drainers : LeaveParked(d) \/ Leave(d) BY <1>10
  <2>2. drainer' \in [Drainers -> DrainStages]
    BY <2>1 DEF LeaveParked, Leave, SpawnDrain, TypeOK, DrainStages
  <2>3. CASE LeaveParked(d)
    <3>1. call' \in [Callers -> Call] BY <2>3, <1>c, <1>n, CallTyped DEF LeaveParked
    <3> QED BY <2>2, <2>3, <3>1, <1>n DEF LeaveParked, TypeOK, history, budgets
  <2>4. CASE Leave(d)
    <3>1. worker' \in Run BY <2>4, WorkerTyped DEF Leave, WorkerStages
    <3> QED BY <2>2, <2>4, <3>1 DEF Leave, TypeOK, history, budgets
  <2> QED BY <2>1, <2>3, <2>4
<1>11. CASE JobFails
  <2>1. call' \in [Callers -> Call] BY <1>11, <1>c, <1>n, CallTyped DEF JobFails
  <2>2. faults' \in 0..MaxFaults BY <1>11, BudgetsAssumption DEF JobFails, TypeOK
  <2>3. FailJob BY <1>11 DEF JobFails
  <2> QED BY <1>11, <2>1, <2>2, <2>3, FailTyped DEF JobFails, TypeOK, history
<1> QED BY <1>0, <1>1, <1>2, <1>3, <1>4, <1>5, <1>6, <1>7, <1>8, <1>9, <1>10, <1>11 DEF WorkerStep

\* So do expiry, delays, scans, drain tasks, producers and a crash.
LEMMA OutsideTyped ==
  ASSUME TypeOK,
         \/ Crash
         \/ \E k \in Kinds : ExpireLock(k) \/ DelayOver(k) \/ Scan(k)
         \/ \E d \in Drainers : DrainStep(d)
         \/ \E p \in Producers : Happen(p)
  PROVE  TypeOK'
<1>n. NoCall \in Call /\ NoRun \in Run BY RestTyped
<1>a. \A k \in Kinds : Asking(k, 0, 0, 0) \in Call BY AskingTyped, BudgetsAssumption
<1>1. CASE Crash
  <2>1. faults' \in 0..MaxFaults BY <1>1, BudgetsAssumption DEF Crash, TypeOK
  <2>2. job' \in [Kinds -> Job]
    <3>1. CASE UNCHANGED job BY <3>1 DEF TypeOK
    <3>2. CASE \E s \in {"waiting", "failed"} : SetState(worker.kind, s)
      BY <3>2, JobTyped, StateTyped DEF SetState, JobStates, TypeOK, Run
    <3> QED BY <1>1, <3>1, <3>2 DEF Crash
  <2>3. call' \in [Callers -> Call]
    <3>1. \A c \in Callers : call[c].event \in 0..MaxEvents BY DEF TypeOK, Call
    <3>2. \A c \in Callers : Asking("advance", 0, 0, call[c].event) \in Call
      BY <3>1, AskingTyped, BudgetsAssumption DEF Kinds
    <3> QED BY <1>1, <1>n, <3>2 DEF Crash
  <2> QED BY <1>1, <1>n, <2>1, <2>2, <2>3 DEF Crash, TypeOK, history, DrainStages
<1>2. ASSUME NEW k \in Kinds, ExpireLock(k) PROVE TypeOK'
  <2>1. lock[k] \in Callers BY <1>2 DEF ExpireLock, TypeOK
  <2>2. lock' \in [Kinds -> Callers \cup {None}] BY <1>2 DEF ExpireLock, TypeOK
  <2>3. CASE UNCHANGED <<call, budgets>>
    BY <1>2, <2>2, <2>3 DEF ExpireLock, TypeOK, history, budgets
  <2>4. CASE Lapse /\ Calling(lock[k], [call[lock[k]] EXCEPT !.locked = FALSE])
    <3>1. [call[lock[k]] EXCEPT !.locked = FALSE] \in Call BY <2>1 DEF TypeOK, Call
    <3>2. call' \in [Callers -> Call] BY <2>1, <2>4, <3>1, CallTyped
    <3> QED BY <1>2, <2>2, <2>4, <3>2, BudgetsAssumption
         DEF ExpireLock, TypeOK, history, Lapse
  <2> QED BY <1>2, <2>3, <2>4 DEF ExpireLock
<1>3. ASSUME NEW k \in Kinds, DelayOver(k) PROVE TypeOK'
  <2>1. job' \in [Kinds -> Job]
    BY <1>3, JobTyped, StateTyped DEF DelayOver, SetState, JobStates
  <2> QED BY <1>3, <2>1 DEF DelayOver, TypeOK, history, budgets
<1>4. ASSUME NEW k \in Kinds, Scan(k) PROVE TypeOK'
  <2>1. call' \in [Callers -> Call] BY <1>4, <1>a, CallTyped DEF Scan, Callers
  <2> QED BY <1>4, <2>1 DEF Scan, TypeOK, history, budgets
<1>5. ASSUME NEW d \in Drainers, DrainStep(d) PROVE TypeOK'
  <2>0. d \in Callers BY DEF Callers
  <2>1. drainer' \in [Drainers -> DrainStages]
    BY <1>5 DEF DrainStep, AwaitIdle, Drain, DrainDone, TypeOK, DrainStages
  <2>2. call' \in [Callers -> Call]
    <3>1. CASE UNCHANGED call BY <3>1 DEF TypeOK
    <3>2. CASE Calling(d, Asking("advance", 0, 0, 0)) BY <3>2, <2>0, <1>a, CallTyped DEF Kinds
    <3>3. CASE Calling(d, NoCall) BY <3>3, <2>0, <1>n, CallTyped
    <3> QED BY <1>5, <3>1, <3>2, <3>3 DEF DrainStep, AwaitIdle, Drain, DrainDone
  <2>3. faults' \in 0..MaxFaults /\ lapses' \in 0..MaxLapses
    BY <1>5, BudgetsAssumption
    DEF DrainStep, AwaitIdle, Drain, DrainDone, TypeOK, Lapse, budgets
  <2> QED BY <1>5, <2>1, <2>2, <2>3
       DEF DrainStep, AwaitIdle, Drain, DrainDone, TypeOK, history
<1>6. ASSUME NEW p \in Producers, Happen(p) PROVE TypeOK'
  <2>1. events' \in 0..MaxEvents /\ events + 1 \in 0..MaxEvents
    BY <1>6, BudgetsAssumption DEF Happen, TypeOK
  <2>2. Asking("advance", 0, 0, events + 1) \in Call
    BY <2>1, AskingTyped, BudgetsAssumption DEF Kinds
  <2>3. call' \in [Callers -> Call] BY <1>6, <2>2, CallTyped DEF Happen, Callers
  <2> QED BY <1>6, <2>1, <2>3 DEF Happen, TypeOK, budgets
<1> QED BY <1>1, <1>2, <1>3, <1>4, <1>5, <1>6

\* TypeOK is inductive.
LEMMA StepTyped == TypeOK /\ [Next]_vars => TypeOK'
<1> SUFFICES ASSUME TypeOK, [Next]_vars PROVE TypeOK' OBVIOUS
<1>1. CASE UNCHANGED vars BY <1>1 DEF vars, TypeOK
<1>2. CASE Next BY <1>2, EnqueueingTyped, WorkerStepTyped, OutsideTyped DEF Next
<1> QED BY <1>1, <1>2

\* Every variable keeps its type, for any number of producers and drain tasks and
\* any budgets.
THEOREM TypeCorrect == Spec => []TypeOK
<1>1. ASSUME Init PROVE TypeOK
  <2>1. job \in [Kinds -> Job] /\ call \in [Callers -> Call] /\ worker \in Run
    BY <1>1, RestTyped DEF Init
  <2>2. /\ events \in 0..MaxEvents /\ reported \in 0..MaxEvents /\ seen \in 0..MaxEvents
        /\ faults \in 0..MaxFaults /\ lapses \in 0..MaxLapses
    BY <1>1, BudgetsAssumption DEF Init
  <2>3. /\ dirty \in BOOLEAN /\ lock \in [Kinds -> Callers \cup {None}]
        /\ drainer \in [Drainers -> DrainStages] /\ recorded \subseteq Kinds
    BY <1>1 DEF Init, DrainStages
  <2> QED BY <2>1, <2>2, <2>3 DEF TypeOK
<1> QED BY <1>1, StepTyped, PTL DEF Spec

------------------------------------------------------------------------------
(* LockExclusive.                                                          *)

\* A caller that believes it holds a lock is the one that the lock names.
LocksHeld ==
  \A c \in Callers : call[c].locked => lock[call[c].kind] = c /\ call[c].at # "idle"

\* A call that moves on and keeps its lock, or has none, leaves LocksHeld true.
LEMMA LocksKept ==
  ASSUME TypeOK, LocksHeld, NEW c \in Callers, NEW new, Calling(c, new), UNCHANGED lock,
         new.locked => call[c].locked /\ new.kind = call[c].kind /\ new.at # "idle"
  PROVE  LocksHeld'
<1>1. call'[c] = new /\ \A d \in Callers : d # c => call'[d] = call[d]
  BY DEF Calling, TypeOK
<1> SUFFICES ASSUME NEW d \in Callers, call'[d].locked
             PROVE  lock'[call'[d].kind] = d /\ call'[d].at # "idle"
  BY DEF LocksHeld
<1>2. CASE d = c BY <1>1, <1>2 DEF LocksHeld
<1>3. CASE d # c BY <1>1, <1>3 DEF LocksHeld
<1> QED BY <1>2, <1>3

\* A call that starts afresh or ends has no lock.
LEMMA UnlockedKept ==
  ASSUME TypeOK, LocksHeld, NEW c \in Callers, UNCHANGED lock,
         \/ Calling(c, NoCall)
         \/ \E k \in Kinds, h \in Nat, r \in 0..MaxRechecks, n \in 0..MaxEvents :
              Calling(c, Asking(k, h, r, n))
  PROVE  LocksHeld'
<1>1. CASE Calling(c, NoCall) BY <1>1, LocksKept DEF NoCall
<1>2. ASSUME NEW k \in Kinds, NEW h \in Nat, NEW r \in 0..MaxRechecks, NEW n \in 0..MaxEvents,
             Calling(c, Asking(k, h, r, n))
      PROVE  LocksHeld'
  BY <1>2, LocksKept DEF Asking
<1> QED BY <1>1, <1>2

\* A call that only moves on keeps what it holds.
LEMMA StageKept ==
  ASSUME TypeOK, LocksHeld, NEW c \in Callers, NEW s, CallGoto(c, s), s # "idle", UNCHANGED lock
  PROVE  LocksHeld'
<1> DEFINE new == [call[c] EXCEPT !.at = s]
<1>1. new.at = s /\ new.locked = call[c].locked /\ new.kind = call[c].kind
  BY DEF TypeOK, Call
<1>2. Calling(c, new) BY DEF CallGoto
<1> HIDE DEF new
<1> QED BY <1>1, <1>2, LocksKept

\* No step breaks LocksHeld: a lock is taken when it is free, released by its token
\* and, when it expires, lost to the caller that thinks it has it.
LEMMA LocksStep == TypeOK /\ LocksHeld /\ [Next]_vars => LocksHeld'
<1> SUFFICES ASSUME TypeOK, LocksHeld, [Next]_vars PROVE LocksHeld' OBVIOUS
<1>s. CASE UNCHANGED <<call, lock>> BY <1>s DEF LocksHeld
<1>w. Worker \in Callers /\ Scanner \in Callers BY DEF Callers
<1>a. ASSUME NEW c \in Callers, Calling(c, Asking("advance", 0, 0, 0)), UNCHANGED lock
      PROVE  LocksHeld'
  BY <1>a, UnlockedKept, BudgetsAssumption DEF Kinds
<1>1. ASSUME NEW c \in Callers, AcquireLock(c) PROVE LocksHeld'
  <2> DEFINE k == call[c].kind
             new == [call[c] EXCEPT !.at = "state", !.locked = TRUE]
  <2>1. lock[k] = None /\ lock' = [lock EXCEPT ![k] = c] /\ Calling(c, new)
    BY <1>1 DEF AcquireLock
  <2>2. new.kind = k /\ new.at = "state" /\ k \in Kinds BY DEF TypeOK, Call
  <2>3. call'[c] = new /\ \A d \in Callers : d # c => call'[d] = call[d]
    BY <2>1 DEF Calling, TypeOK
  <2>4. lock'[k] = c /\ \A j \in Kinds : j # k => lock'[j] = lock[j]
    BY <2>1, <2>2 DEF TypeOK
  <2> HIDE DEF k, new
  <2>5. ASSUME NEW d \in Callers, d # c, call'[d].locked
        PROVE  lock'[call'[d].kind] = d /\ call'[d].at # "idle"
    <3>1. lock[call[d].kind] = d /\ call[d].at # "idle" BY <2>3, <2>5 DEF LocksHeld
    <3>2. call[d].kind # k BY <2>1, <2>5, <3>1, CallersAssumption
    <3>3. call[d].kind \in Kinds BY DEF TypeOK, Call
    <3> QED BY <2>3, <2>4, <2>5, <3>1, <3>2, <3>3
  <2>6. lock'[call'[c].kind] = c /\ call'[c].at # "idle" BY <2>2, <2>3, <2>4
  <2> QED BY <2>5, <2>6 DEF LocksHeld
<1>2. ASSUME NEW c \in Callers, ReleaseLock(c) PROVE LocksHeld'
  <2> DEFINE k == call[c].kind
  <2>1. k \in Kinds BY DEF TypeOK, Call
  <2>2. PICK new : ~new.locked /\ Calling(c, new)
    <3>1. CASE Calling(c, Asking("advance", 0, 0, call[c].event)) BY <3>1 DEF Asking
    <3>2. CASE Calling(c, [NoCall EXCEPT !.failed = call[c].failed]) BY <3>2 DEF NoCall
    <3> QED BY <1>2, <3>1, <3>2 DEF ReleaseLock
  <2>3. call'[c] = new /\ \A d \in Callers : d # c => call'[d] = call[d]
    BY <2>2 DEF Calling, TypeOK
  <2>4. \A j \in Kinds : lock[j] # c => lock'[j] = lock[j]
    BY <1>2, <2>1 DEF ReleaseLock, Freed, TypeOK
  <2>5. ASSUME NEW d \in Callers, call'[d].locked
        PROVE  lock'[call'[d].kind] = d /\ call'[d].at # "idle"
    <3>1. d # c /\ call'[d] = call[d] BY <2>2, <2>3, <2>5
    <3>2. lock[call[d].kind] = d /\ call[d].at # "idle" BY <2>5, <3>1 DEF LocksHeld
    <3>3. call[d].kind \in Kinds BY DEF TypeOK, Call
    <3> QED BY <2>4, <3>1, <3>2, <3>3
  <2> QED BY <2>5 DEF LocksHeld
<1>3. ASSUME NEW k \in Kinds, ExpireLock(k) PROVE LocksHeld'
  <2> DEFINE c == lock[k]
  <2>1. c \in Callers BY <1>3 DEF ExpireLock, TypeOK
  <2>2. \A j \in Kinds : j # k => lock'[j] = lock[j] BY <1>3 DEF ExpireLock, TypeOK
  <2>3. ~call'[c].locked /\ \A d \in Callers : d # c => call'[d] = call[d]
    <3>1. CASE UNCHANGED call /\ (call[c].at = "idle" \/ ~call[c].locked)
      BY <2>1, <3>1 DEF LocksHeld
    <3>2. CASE Calling(c, [call[c] EXCEPT !.locked = FALSE])
      BY <2>1, <3>2 DEF Calling, TypeOK, Call
    <3> QED BY <1>3, <3>1, <3>2 DEF ExpireLock
  <2> HIDE DEF c
  <2>4. ASSUME NEW d \in Callers, call'[d].locked
        PROVE  lock'[call'[d].kind] = d /\ call'[d].at # "idle"
    <3>1. d # c /\ call'[d] = call[d] BY <2>3, <2>4
    <3>2. lock[call[d].kind] = d /\ call[d].at # "idle" BY <2>4, <3>1 DEF LocksHeld
    <3>3. call[d].kind \in Kinds BY DEF TypeOK, Call
    <3>4. call[d].kind # k BY <3>1, <3>2 DEF c
    <3> QED BY <2>2, <3>1, <3>2, <3>3, <3>4
  <2> QED BY <2>4 DEF LocksHeld
<1>4. ASSUME NEW c \in Callers,
             \/ SkipLock(c) \/ ReadState(c) \/ RemoveFinished(c) \/ AddJob(c) \/ MarkDirty(c)
      PROVE  LocksHeld'
  <2>1. NextAction(call[c].kind, job[call[c].kind].state) # "idle" BY DEF NextAction
  <2> QED BY <1>4, <2>1, StageKept DEF SkipLock, ReadState, RemoveFinished, AddJob, MarkDirty
<1>5. ASSUME NEW c \in Callers, PromoteJob(c) PROVE LocksHeld'
  <2> DEFINE new == [call[c] EXCEPT !.at = "unlock",
                       !.failed = job[call[c].kind].state \in {"waiting", "active", "failed"}]
  <2>1. new.at = "unlock" /\ new.locked = call[c].locked /\ new.kind = call[c].kind
    BY DEF TypeOK, Call
  <2>2. Calling(c, new) BY <1>5 DEF PromoteJob
  <2> HIDE DEF new
  <2> QED BY <1>5, <2>1, <2>2, LocksKept DEF PromoteJob
<1>6. CASE WorkerStep \/ JobFails
  <2>1. UNCHANGED lock
    BY <1>6 DEF WorkerStep, BeginJob, ClearDirty, Look, Applied, CheckDirty, ParkJob, TakeDirty,
                CompleteJob, RunPush, LeaveParked, Leave, JobFails
  <2>2. \/ UNCHANGED call \/ Calling(Worker, NoCall)
        \/ Calling(Worker, Asking("advance", 0, 0, 0))
        \/ Calling(Worker, Asking("push", worker.hops + 1, worker.recheck, 0))
        \/ Calling(Worker, Asking("advance", worker.hops + 1, worker.recheck, 0))
    BY <1>6 DEF WorkerStep, BeginJob, ClearDirty, Look, Applied, CheckDirty, ParkJob, TakeDirty,
                CompleteJob, RunPush, LeaveParked, Leave, JobFails
  <2>3. worker.hops + 1 \in Nat /\ worker.recheck \in 0..MaxRechecks BY DEF TypeOK, Run
  <2> QED BY <1>s, <1>w, <1>a, <2>1, <2>2, <2>3, UnlockedKept, BudgetsAssumption DEF Kinds
<1>7. CASE Crash
  <2>1. \A c \in Callers : ~call'[c].locked BY <1>7 DEF Crash, Asking, NoCall
  <2> QED BY <2>1 DEF LocksHeld
<1>8. ASSUME NEW k \in Kinds, DelayOver(k) \/ TakeJob(k) \/ Scan(k) PROVE LocksHeld'
  BY <1>8, <1>s, <1>w, UnlockedKept, BudgetsAssumption DEF DelayOver, TakeJob, Scan
<1>9. ASSUME NEW d \in Drainers, DrainStep(d) PROVE LocksHeld'
  <2>1. d \in Callers BY DEF Callers
  <2> QED BY <1>9, <1>s, <1>a, <2>1, UnlockedKept DEF DrainStep, AwaitIdle, Drain, DrainDone
<1>10. ASSUME NEW p \in Producers, Happen(p) PROVE LocksHeld'
  <2>1. p \in Callers /\ events + 1 \in 0..MaxEvents
    BY <1>10, BudgetsAssumption DEF Happen, Callers, TypeOK
  <2> QED BY <1>10, <2>1, UnlockedKept, BudgetsAssumption DEF Happen, Kinds
<1>11. CASE UNCHANGED vars BY <1>11, <1>s DEF vars
<1> QED BY <1>1, <1>2, <1>3, <1>4, <1>5, <1>6, <1>7, <1>8, <1>9, <1>10, <1>11
     DEF Next, Enqueueing

\* Two callers cannot both be the one that the lock names.
LEMMA LocksHeldImplies == LocksHeld => LockExclusive
BY DEF LocksHeld, LockExclusive

\* enqueue_bounty_job: two requests for one job id never both hold its lock, though
\* locks expire under their holders.
THEOREM LocksExclude == Spec => []LockExclusive
<1>1. Init => LocksHeld BY DEF Init, LocksHeld, NoCall
<1> QED BY <1>1, LocksStep, LocksHeldImplies, TypeCorrect, PTL DEF Spec

------------------------------------------------------------------------------
(* NeverSkipped.                                                           *)

\* An advance job has an even hop count within the budget, a push an odd one.
HopsFit(kind, hops) ==
  IF kind = "advance" THEN hops % 2 = 0 /\ hops <= MaxHops ELSE hops % 2 = 1

\* The stages in which the job the worker runs is active, and may still fail.
Holding == {"begin", "clear", "look", "apply", "check", "park", "run", "handoff"}
\* A push that is gone may have left any count behind.
JobHops ==
  /\ HopsFit("advance", job["advance"].hops)
  /\ job["push"].state # "none" => HopsFit("push", job["push"].hops)
CallHops == \A c \in Callers : HopsFit(call[c].kind, call[c].hops)
\* What the stage of the worker says about the kind and the hops of its job.
WorkerHops ==
  /\ HopsFit(worker.kind, worker.hops)
  /\ worker.at \in {"clear", "look", "apply", "check"} => worker.kind = "advance"
  /\ worker.at = "run" => worker.kind = "push" /\ worker.hops <= MaxHops
WorkerHolds ==
  worker.at \in Holding => job[worker.kind].state = "active"

HopsBounded == JobHops /\ CallHops /\ WorkerHops /\ WorkerHolds

\* Fresh requests fit.
LEMMA ZeroFits == HopsFit("advance", 0)
BY BudgetsAssumption DEF HopsFit

\* One hop more fits the other kind: the parity of MaxHops makes the last one a push.
LEMMA OneMoreFits ==
  ASSUME NEW n \in Nat
  PROVE  /\ HopsFit("advance", n) => HopsFit("push", n + 1)
         /\ HopsFit("push", n) /\ n <= MaxHops => HopsFit("advance", n + 1)
BY BudgetsAssumption DEF HopsFit

\* A call that changes to a fitting one.
LEMMA CallHopsKept ==
  ASSUME TypeOK, CallHops, NEW c \in Callers, NEW new, Calling(c, new),
         HopsFit(new.kind, new.hops)
  PROVE  CallHops'
<1>1. call'[c] = new /\ \A d \in Callers : d # c => call'[d] = call[d]
  BY DEF Calling, TypeOK
<1>2. ASSUME NEW d \in Callers PROVE HopsFit(call'[d].kind, call'[d].hops)
  <2>1. CASE d = c BY <1>1, <2>1
  <2>2. CASE d # c BY <1>1, <2>2 DEF CallHops
  <2> QED BY <2>1, <2>2
<1> QED BY <1>2 DEF CallHops, HopsFit

\* A call that ends, or a fitting request that begins.
LEMMA AskingHopsKept ==
  ASSUME TypeOK, CallHops, NEW c \in Callers
  PROVE  /\ Calling(c, NoCall) => CallHops'
         /\ \A k, h, r, n : HopsFit(k, h) /\ Calling(c, Asking(k, h, r, n)) => CallHops'
<1>1. NoCall.kind = "advance" /\ NoCall.hops = 0 BY DEF NoCall
<1>2. \A k, h, r, n : Asking(k, h, r, n).kind = k /\ Asking(k, h, r, n).hops = h BY DEF Asking
<1> QED BY <1>1, <1>2, ZeroFits, CallHopsKept

\* A call that only moves on keeps its hops.
LEMMA StageHopsKept ==
  ASSUME TypeOK, CallHops, NEW c \in Callers, NEW s, CallGoto(c, s)
  PROVE  CallHops'
<1> DEFINE new == [call[c] EXCEPT !.at = s]
<1>1. new.hops = call[c].hops /\ new.kind = call[c].kind BY DEF TypeOK, Call
<1>2. Calling(c, new) BY DEF CallGoto
<1>3. HopsFit(call[c].kind, call[c].hops) BY DEF CallHops
<1> HIDE DEF new
<1> QED BY <1>1, <1>2, <1>3, CallHopsKept

\* A job that is replaced by a fitting one.
LEMMA JobHopsKept ==
  ASSUME TypeOK, JobHops, NEW k \in Kinds, NEW j, SetJob(k, j),
         (k = "advance" \/ j.state # "none") => HopsFit(k, j.hops)
  PROVE  JobHops'
<1>1. job'[k] = j /\ \A i \in Kinds : i # k => job'[i] = job[i] BY DEF SetJob, TypeOK
<1> QED BY <1>1 DEF JobHops, HopsFit, Kinds

\* A job that only changes its state, and is not brought to life by it.
LEMMA StateHopsKept ==
  ASSUME TypeOK, JobHops, NEW k \in Kinds, NEW s, SetState(k, s),
         s # "none" => job[k].state # "none"
  PROVE  JobHops'
<1> DEFINE j == [job[k] EXCEPT !.state = s]
<1>1. j.state = s /\ j.hops = job[k].hops BY DEF TypeOK, Job
<1>2. SetJob(k, j) BY DEF SetState
<1>3. (k = "advance" \/ s # "none") => HopsFit(k, job[k].hops) BY DEF JobHops, Kinds
<1> HIDE DEF j
<1> QED BY <1>1, <1>2, <1>3, JobHopsKept

\* A job that does not run may change under the worker.
LEMMA HoldsKept ==
  ASSUME TypeOK, WorkerHolds, UNCHANGED worker, NEW k \in Kinds, NEW j,
         job[k].state # "active", SetJob(k, j)
  PROVE  WorkerHolds'
<1>1. \A i \in Kinds : i # k => job'[i] = job[i] BY DEF SetJob, TypeOK
<1>2. worker.kind \in Kinds BY DEF TypeOK, Run
<1> QED BY <1>1, <1>2 DEF WorkerHolds

\* enqueue_bounty_job adds jobs with the hops it was asked with, and never touches
\* the running one.
LEMMA EnqueueingHops ==
  ASSUME TypeOK, HopsBounded, NEW c \in Callers, Enqueueing(c) \/ SkipLock(c)
  PROVE  HopsBounded'
<1> USE DEF HopsBounded
<1> DEFINE k == call[c].kind
<1>k. k \in Kinds BY DEF TypeOK, Call
<1>h. HopsFit(k, call[c].hops) BY DEF CallHops
<1>w. WorkerHops'
  <2>1. UNCHANGED worker
    BY DEF Enqueueing, SkipLock, AcquireLock, ReadState, RemoveFinished, AddJob,
           PromoteJob, MarkDirty, ReleaseLock
  <2> QED BY <2>1 DEF WorkerHops, HopsFit
<1>s. UNCHANGED <<job, worker>> => JobHops' /\ WorkerHolds'
  BY DEF JobHops, WorkerHolds, HopsFit
<1>1. CASE AcquireLock(c)
  <2> DEFINE new == [call[c] EXCEPT !.at = "state", !.locked = TRUE]
  <2>1. new.kind = k /\ new.hops = call[c].hops BY DEF TypeOK, Call
  <2>2. Calling(c, new) BY <1>1 DEF AcquireLock
  <2> HIDE DEF new, k
  <2>3. CallHops' BY <2>1, <2>2, <1>h, CallHopsKept
  <2> QED BY <1>1, <1>s, <1>w, <2>3 DEF AcquireLock
<1>2. CASE SkipLock(c) \/ ReadState(c) \/ MarkDirty(c)
  <2>1. CallHops' BY <1>2, StageHopsKept DEF SkipLock, ReadState, MarkDirty
  <2> QED BY <1>2, <1>s, <1>w, <2>1 DEF SkipLock, ReadState, MarkDirty
<1>3. CASE RemoveFinished(c)
  <2>1. CallHops' BY <1>3, StageHopsKept DEF RemoveFinished
  <2>2. CASE UNCHANGED job BY <1>3, <1>s, <1>w, <2>1, <2>2 DEF RemoveFinished
  <2>3. CASE job[k].state # "active" /\ SetState(k, "none")
    <3>1. JobHops' BY <1>k, <2>3, StateHopsKept
    <3>2. WorkerHolds' BY <1>3, <1>k, <2>3, HoldsKept DEF SetState, RemoveFinished
    <3> QED BY <1>w, <2>1, <3>1, <3>2
  <2> QED BY <1>3, <2>2, <2>3 DEF RemoveFinished
<1>4. CASE AddJob(c)
  <2>1. CallHops' BY <1>4, StageHopsKept DEF AddJob
  <2>2. CASE UNCHANGED job BY <1>4, <1>s, <1>w, <2>1, <2>2 DEF AddJob
  <2>3. CASE job[k].state = "none" /\ ~UNCHANGED job
    <3>1. PICK j : j.hops = call[c].hops /\ SetJob(k, j) BY <1>4, <2>3 DEF AddJob
    <3>2. JobHops' BY <1>k, <1>h, <3>1, JobHopsKept
    <3>3. WorkerHolds' BY <1>4, <1>k, <2>3, <3>1, HoldsKept DEF AddJob
    <3> QED BY <1>w, <2>1, <3>2, <3>3
  <2> QED BY <1>4, <2>2, <2>3 DEF AddJob
<1>5. CASE PromoteJob(c)
  <2> DEFINE new == [call[c] EXCEPT !.at = "unlock",
                       !.failed = job[k].state \in {"waiting", "active", "failed"}]
  <2>1. new.kind = k /\ new.hops = call[c].hops BY DEF TypeOK, Call
  <2>2. Calling(c, new) BY <1>5 DEF PromoteJob
  <2>3. CallHops'
    <3> HIDE DEF new, k
    <3> QED BY <2>1, <2>2, <1>h, CallHopsKept
  <2>4. CASE UNCHANGED job BY <1>5, <1>s, <1>w, <2>3, <2>4 DEF PromoteJob
  <2>5. CASE job[k].state = "delayed" /\ SetState(k, "waiting")
    <3>1. JobHops' BY <1>k, <2>5, StateHopsKept
    <3>2. WorkerHolds' BY <1>5, <1>k, <2>5, HoldsKept DEF SetState, PromoteJob
    <3> QED BY <1>w, <2>3, <3>1, <3>2
  <2> QED BY <1>5, <2>4, <2>5 DEF PromoteJob
<1>6. CASE ReleaseLock(c)
  <2>1. CASE Calling(c, Asking("advance", 0, 0, call[c].event))
    <3>1. CallHops' BY <2>1, ZeroFits, AskingHopsKept
    <3> QED BY <1>6, <1>s, <1>w, <3>1 DEF ReleaseLock
  <2>2. CASE Calling(c, [NoCall EXCEPT !.failed = call[c].failed])
    <3>1. PICK new : new.kind = "advance" /\ new.hops = 0 /\ Calling(c, new)
      BY <2>2 DEF NoCall
    <3>2. CallHops' BY <3>1, ZeroFits, CallHopsKept
    <3> QED BY <1>6, <1>s, <1>w, <3>2 DEF ReleaseLock
  <2> QED BY <1>6, <2>1, <2>2 DEF ReleaseLock
<1> QED BY <1>1, <1>2, <1>3, <1>4, <1>5, <1>6 DEF Enqueueing

\* The worker at rest fits.
LEMMA WorkerRests == worker' = NoRun => WorkerHops' /\ WorkerHolds'
BY ZeroFits DEF WorkerHops, WorkerHolds, Holding, NoRun, HopsFit

\* The worker moves on with its kind and hops, to a stage that they allow.
LEMMA WorkerMoves ==
  ASSUME TypeOK, WorkerHops, WorkerHolds, UNCHANGED job, NEW s,
         /\ worker'.at = s /\ worker'.kind = worker.kind /\ worker'.hops = worker.hops
         /\ s \in {"clear", "look", "apply", "check"} => worker.kind = "advance"
         /\ s = "run" => worker.kind = "push" /\ worker.hops <= MaxHops
         /\ s \in Holding => worker.at \in Holding
  PROVE  WorkerHops' /\ WorkerHolds'
BY DEF WorkerHops, WorkerHolds, HopsFit

\* The same for a step that changes nothing but the stage.
LEMMA WorkerGoes ==
  ASSUME TypeOK, WorkerHops, WorkerHolds, UNCHANGED job, NEW s, WorkerGoto(s),
         /\ s \in {"clear", "look", "apply", "check"} => worker.kind = "advance"
         /\ s = "run" => worker.kind = "push" /\ worker.hops <= MaxHops
         /\ s \in Holding => worker.at \in Holding
  PROVE  WorkerHops' /\ WorkerHolds'
<1>1. worker'.at = s /\ worker'.kind = worker.kind /\ worker'.hops = worker.hops
  BY DEF WorkerGoto, TypeOK, Run
<1> QED BY <1>1, WorkerMoves

\* A failed run leaves its job with its hops.
LEMMA FailHops ==
  ASSUME TypeOK, JobHops, job[worker.kind].state = "active", FailJob
  PROVE  JobHops' /\ WorkerHops' /\ WorkerHolds'
<1> DEFINE k == worker.kind
<1>k. k \in Kinds BY DEF TypeOK, Run
<1>1. PICK j : j.hops = job[k].hops /\ SetJob(k, j)
  BY <1>k DEF FailJob, TypeOK, Job
<1>2. HopsFit(k, job[k].hops) BY <1>k DEF JobHops, Kinds
<1>3. JobHops' BY <1>k, <1>1, <1>2, JobHopsKept
<1> QED BY <1>3, WorkerRests DEF FailJob

\* The worker hands over one hop more than it has, from an advance job to a push
\* and from a push whose budget is not spent to an advance job.
LEMMA WorkerStepHops ==
  ASSUME TypeOK, HopsBounded, WorkerStep \/ JobFails \/ \E k \in Kinds : TakeJob(k)
  PROVE  HopsBounded'
<1> USE DEF HopsBounded, Holding
<1>w. Worker \in Callers BY DEF Callers
<1>k. worker.kind \in Kinds /\ worker.hops \in Nat BY DEF TypeOK, Run
<1>n. Calling(Worker, NoCall) => CallHops' BY <1>w, AskingHopsKept
<1>c. UNCHANGED call => CallHops' BY DEF CallHops, HopsFit
<1>j. UNCHANGED job => JobHops' BY DEF JobHops, HopsFit
<1>0. CASE \E k \in Kinds : TakeJob(k)
  <2>1. PICK k \in Kinds : TakeJob(k) BY <1>0
  <2>2. SetState(k, "active") /\ job[k].state = "waiting" BY <2>1 DEF TakeJob
  <2>3. JobHops' BY <2>2, StateHopsKept
  <2>4. HopsFit(k, job[k].hops) BY <2>2 DEF JobHops, Kinds
  <2>5. job'[k].state = "active" BY <2>2 DEF SetState, SetJob, TypeOK, Job
  <2>6. worker'.at = "begin" /\ worker'.kind = k /\ worker'.hops = job[k].hops
    BY <2>1 DEF TakeJob
  <2>7. WorkerHops' /\ WorkerHolds' BY <2>4, <2>5, <2>6 DEF WorkerHops, WorkerHolds, HopsFit
  <2> QED BY <2>1, <1>c, <2>3, <2>7 DEF TakeJob
<1>1. CASE BeginJob
  <2>1. PICK s \in {"leave", "clear", "complete", "run"} :
          /\ WorkerGoto(s)
          /\ s = "clear" => worker.kind = "advance"
          /\ s = "run" => worker.kind # "advance" /\ worker.hops <= MaxHops
    BY <1>1, <1>k, BudgetsAssumption DEF BeginJob, Exhausted
  <2>2. WorkerHops' /\ WorkerHolds' BY <1>1, <1>k, <2>1, WorkerGoes DEF BeginJob, Kinds
  <2> QED BY <1>1, <1>c, <1>j, <2>2 DEF BeginJob
<1>2. CASE ClearDirty
  <2>1. WorkerHops' /\ WorkerHolds' BY <1>2, WorkerGoes DEF ClearDirty, WorkerHops
  <2> QED BY <1>2, <1>c, <1>j, <2>1 DEF ClearDirty
<1>3. CASE Look
  <2>1. worker.kind = "advance" BY <1>3 DEF Look, WorkerHops
  <2>2. PICK s \in {"apply", "check"} :
          worker'.at = s /\ worker'.kind = worker.kind /\ worker'.hops = worker.hops
    BY <1>3 DEF Look, TypeOK, Run
  <2>3. WorkerHops' /\ WorkerHolds' BY <1>3, <2>1, <2>2, WorkerMoves DEF Look
  <2>4. HopsFit("push", worker.hops + 1) BY <1>k, <2>1, OneMoreFits DEF WorkerHops
  <2>5. CallHops' BY <1>3, <1>c, <1>w, <2>4, AskingHopsKept DEF Look
  <2> QED BY <1>3, <1>j, <2>3, <2>5 DEF Look
<1>4. CASE Applied
  <2>1. job[worker.kind].state = "active" BY <1>4 DEF Applied, WorkerHolds
  <2>2. CASE call[Worker].failed BY <1>4, <1>n, <2>1, <2>2, FailHops DEF Applied
  <2>3. CASE ~call[Worker].failed
    <3>1. worker.at = "apply" => worker.kind = "advance" BY DEF WorkerHops
    <3>2. WorkerHops' /\ WorkerHolds' BY <1>4, <2>3, <3>1, WorkerGoes DEF Applied
    <3> QED BY <1>4, <1>c, <1>j, <2>3, <3>2 DEF Applied
  <2> QED BY <2>2, <2>3
<1>5. CASE CheckDirty
  <2>1. worker.kind = "advance" BY <1>5 DEF CheckDirty, WorkerHops
  <2>2. PICK s \in {"clear", "park", "leave"} :
          worker'.at = s /\ worker'.kind = worker.kind /\ worker'.hops = worker.hops
    BY <1>5 DEF CheckDirty, TypeOK, Run
  <2>3. WorkerHops' /\ WorkerHolds' BY <1>5, <2>1, <2>2, WorkerMoves DEF CheckDirty
  <2> QED BY <1>5, <1>c, <1>j, <2>3 DEF CheckDirty
<1>6. CASE ParkJob
  <2>1. PICK s \in {"take", "leave"} : WorkerGoto(s) BY <1>6 DEF ParkJob
  <2>2. worker'.at = s /\ worker'.kind = worker.kind /\ worker'.hops = worker.hops
    BY <2>1 DEF WorkerGoto, TypeOK, Run
  <2>3. WorkerHops' /\ WorkerHolds' BY <2>2 DEF WorkerHops, WorkerHolds, HopsFit
  <2>4. CASE worker.recheck < MaxRechecks
    <3>1. PICK j : j.hops = 0 /\ SetJob("advance", j)
      BY <1>6, <2>4 DEF ParkJob, TypeOK, Job, Kinds
    <3>2. JobHops' BY <3>1, ZeroFits, JobHopsKept DEF Kinds
    <3> QED BY <1>6, <1>c, <2>3, <3>2 DEF ParkJob
  <2>5. CASE ~(worker.recheck < MaxRechecks)
    BY <1>6, <1>c, <1>j, <2>3, <2>5 DEF ParkJob
  <2> QED BY <2>4, <2>5
<1>7. CASE TakeDirty
  <2>1. WorkerHops' /\ WorkerHolds' BY <1>7, WorkerGoes DEF TakeDirty
  <2>2. CallHops' BY <1>7, <1>c, <1>w, ZeroFits, AskingHopsKept DEF TakeDirty
  <2> QED BY <1>7, <1>j, <2>1, <2>2 DEF TakeDirty
<1>8. CASE CompleteJob
  <2>1. SetJob(worker.kind, NoJob) /\ NoJob.state = "none" /\ NoJob.hops = 0
    BY <1>8 DEF CompleteJob, NoJob
  <2>2. JobHops' BY <1>k, <2>1, ZeroFits, JobHopsKept
  <2> QED BY <1>8, <1>c, <2>2, WorkerRests DEF CompleteJob
<1>9. CASE RunPush
  <2>1. worker.kind = "push" /\ worker.hops <= MaxHops BY <1>9 DEF RunPush, WorkerHops
  <2>2. WorkerHops' /\ WorkerHolds' BY <1>9, WorkerGoes DEF RunPush
  <2>3. HopsFit("advance", worker.hops + 1) BY <1>k, <2>1, OneMoreFits DEF WorkerHops
  <2>4. CallHops' BY <1>9, <1>c, <1>w, <2>3, AskingHopsKept DEF RunPush
  <2> QED BY <1>9, <1>j, <2>2, <2>4 DEF RunPush
<1>10. CASE \E d \in Drainers : LeaveParked(d)
  BY <1>10, <1>j, <1>n, WorkerRests DEF LeaveParked
<1>11. CASE \E d \in Drainers : Leave(d)
  <2>1. WorkerHops' /\ WorkerHolds' BY <1>11, WorkerGoes DEF Leave
  <2> QED BY <1>11, <1>c, <1>j, <2>1 DEF Leave
<1>12. CASE JobFails
  <2>1. worker.at \in WorkerStages BY DEF TypeOK, Run
  <2>2. job[worker.kind].state = "active"
    BY <1>12, <2>1 DEF JobFails, WorkerHolds, WorkerStages
  <2> QED BY <1>12, <1>n, <2>2, FailHops DEF JobFails
<1> QED BY <1>0, <1>1, <1>2, <1>3, <1>4, <1>5, <1>6, <1>7, <1>8, <1>9, <1>10, <1>11, <1>12
     DEF WorkerStep

\* Everyone else asks at hop 0 for an advance job or asks for nothing.
LEMMA OutsideHops ==
  ASSUME TypeOK, HopsBounded,
         \/ Crash
         \/ \E k \in Kinds : ExpireLock(k) \/ DelayOver(k)
         \/ \E d \in Drainers : DrainStep(d)
         \/ \E p \in Producers : Happen(p)
  PROVE  HopsBounded'
<1> USE DEF HopsBounded
<1>w. UNCHANGED worker => WorkerHops' BY DEF WorkerHops, HopsFit
<1>s. UNCHANGED <<job, worker>> => JobHops' /\ WorkerHolds'
  BY DEF JobHops, WorkerHolds, HopsFit
<1>c. UNCHANGED call => CallHops' BY DEF CallHops, HopsFit
<1>1. CASE Crash
  <2>1. CallHops'
    <3>1. \A c \in Callers : call'[c].kind = "advance" /\ call'[c].hops = 0
      BY <1>1 DEF Crash, Asking, NoCall
    <3> QED BY <3>1, ZeroFits DEF CallHops, HopsFit
  <2>2. JobHops'
    <3>1. CASE UNCHANGED job BY <3>1 DEF JobHops, HopsFit
    <3>2. CASE /\ job[worker.kind].state = "active"
               /\ \E s \in {"waiting", "failed"} : SetState(worker.kind, s)
      BY <3>2, StateHopsKept DEF TypeOK, Run
    <3> QED BY <1>1, <3>1, <3>2 DEF Crash
  <2> QED BY <1>1, <2>1, <2>2, WorkerRests DEF Crash
<1>2. ASSUME NEW k \in Kinds, ExpireLock(k) PROVE HopsBounded'
  <2>1. lock[k] \in Callers BY <1>2 DEF ExpireLock, TypeOK
  <2>2. CASE UNCHANGED call BY <1>2, <1>w, <1>s, <1>c, <2>2 DEF ExpireLock
  <2>3. CASE Calling(lock[k], [call[lock[k]] EXCEPT !.locked = FALSE])
    <3>1. PICK new : /\ new.kind = call[lock[k]].kind /\ new.hops = call[lock[k]].hops
                     /\ Calling(lock[k], new)
      BY <2>1, <2>3 DEF TypeOK, Call
    <3>2. HopsFit(call[lock[k]].kind, call[lock[k]].hops) BY <2>1 DEF CallHops
    <3>3. CallHops' BY <2>1, <3>1, <3>2, CallHopsKept
    <3> QED BY <1>2, <1>w, <1>s, <3>3 DEF ExpireLock
  <2> QED BY <1>2, <2>2, <2>3 DEF ExpireLock, budgets
<1>3. ASSUME NEW k \in Kinds, DelayOver(k) PROVE HopsBounded'
  <2>1. job[k].state = "delayed" /\ SetState(k, "waiting") BY <1>3 DEF DelayOver
  <2>2. JobHops' BY <2>1, StateHopsKept
  <2>3. WorkerHolds' BY <1>3, <2>1, HoldsKept DEF SetState, DelayOver
  <2> QED BY <1>3, <1>w, <1>c, <2>2, <2>3 DEF DelayOver
<1>4. ASSUME NEW d \in Drainers, DrainStep(d) PROVE HopsBounded'
  <2>1. d \in Callers BY DEF Callers
  <2>2. UNCHANGED <<job, worker>> BY <1>4 DEF DrainStep, AwaitIdle, Drain, DrainDone
  <2>3. UNCHANGED call \/ Calling(d, NoCall) \/ Calling(d, Asking("advance", 0, 0, 0))
    BY <1>4 DEF DrainStep, AwaitIdle, Drain, DrainDone
  <2>4. CallHops' BY <1>c, <2>1, <2>3, ZeroFits, AskingHopsKept
  <2> QED BY <1>w, <1>s, <2>2, <2>4
<1>5. ASSUME NEW p \in Producers, Happen(p) PROVE HopsBounded'
  <2>1. p \in Callers BY DEF Callers
  <2>2. CallHops' BY <1>5, <2>1, ZeroFits, AskingHopsKept DEF Happen
  <2> QED BY <1>5, <1>w, <1>s, <2>2 DEF Happen
<1> QED BY <1>1, <1>2, <1>3, <1>4, <1>5

\* No step breaks HopsBounded when nothing restarts a push by itself.
LEMMA HopsStep == ~Scans /\ TypeOK /\ HopsBounded /\ [Next]_vars => HopsBounded'
<1> SUFFICES ASSUME ~Scans, TypeOK, HopsBounded, [Next]_vars PROVE HopsBounded' OBVIOUS
<1>1. CASE UNCHANGED vars
  BY <1>1 DEF vars, HopsBounded, JobHops, CallHops, WorkerHops, WorkerHolds, HopsFit
<1>2. ASSUME NEW k \in Kinds, Scan(k) PROVE FALSE BY <1>2 DEF Scan
<1>3. CASE Next BY <1>2, <1>3, EnqueueingHops, WorkerStepHops, OutsideHops DEF Next
<1> QED BY <1>1, <1>3

\* run_advance: without the recovery scan no advance job ever reaches the hop count
\* at which it would be skipped.
THEOREM AdvanceNeverSkipped == Spec => []NeverSkipped
<1>1. CASE Scans
  <2>1. NeverSkipped BY <1>1 DEF NeverSkipped
  <2> QED BY <2>1, PTL
<1>2. CASE ~Scans
  <2>1. Init => HopsBounded
    <3>1. ASSUME Init PROVE JobHops /\ CallHops
      BY <3>1, ZeroFits DEF Init, JobHops, CallHops, NoJob, NoCall, Kinds
    <3>2. ASSUME Init PROVE WorkerHops /\ WorkerHolds
      BY <3>2, ZeroFits DEF Init, WorkerHops, WorkerHolds, Holding, NoRun
    <3> QED BY <3>1, <3>2 DEF HopsBounded
  <2>2. HopsBounded => NeverSkipped BY DEF HopsBounded, JobHops, HopsFit, NeverSkipped
  <2>3. TypeOK /\ HopsBounded /\ [Next]_vars => HopsBounded' BY <1>2, HopsStep
  <2> QED BY <2>1, <2>2, <2>3, TypeCorrect, PTL DEF Spec
<1> QED BY <1>1, <1>2
==============================================================================
