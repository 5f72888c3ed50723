------------------------- MODULE SettlementPayouts ---------------------------
(***************************************************************************)
(* What holds of the payments however many instances run money jobs.       *)
(*                                                                         *)
(* With Redis, and a provider that does not replace settled milestones,    *)
(* each assignment is paid once, to the profit of a merged author: so      *)
(* Settlement implements PayoutPromise.  The proof rests on the job ids    *)
(* (one push of a bounty at a time) and on what a stale snapshot may still *)
(* say: the index of its assignment, or none.                              *)
(*                                                                         *)
(* That the money reaches a wallet of that author, with Redis or without,  *)
(* holds as long as no job rewrites a milestone which another is about to  *)
(* release.                                                                *)
(***************************************************************************)
EXTENDS SettlementProofs

\* Redis is reachable, and settled milestones stay as they are.
Queued == FALSE \notin QueueModes
Durable == Queued /\ ~RewriteSettled

PushStages == {"fetch", "put", "save"}
PayeeStages == {"github", "evaluate"} \cup ReleaseStages
PayingStages == ReleaseStages \ {"merge"}
\* The snapshot still matters: everything after the load and before the end.
SnapshotStages == ExecStages \ {"idle", "load", "handoff"}

\* A contributor about to be paid is a merged author.
Checked(e) == exec[e].at \in PayingStages => exec[e].who \in merged

------------------------------------------------------------------------------
(* Numbers, frames and stages.                                             *)

\* The numbers in the row.
LEMMA RowTyped == Typed => row \in Row /\ row.epoch \in Nat /\ row.index \in 0..pushed
<1> SUFFICES ASSUME Typed PROVE row \in Row /\ row.epoch \in Nat /\ row.index \in 0..pushed
  OBVIOUS
<1>1. row \in Row /\ row.index <= pushed /\ pushed \in 0..MaxSlots
  BY DEF Typed, BountyOK
<1> QED BY <1>1, BoundsAssumption DEF Row

\* A job's frame, its index and its numbers.
LEMMA FrameTyped ==
  ASSUME Typed, NEW e \in Executors
  PROVE  /\ exec[e] \in Frame /\ FrameShape(exec[e], pushed)
         /\ exec[e].row.index \in 0..pushed /\ exec[e].row.epoch \in Nat
         /\ exec[e].addr \in Address /\ exec[e].who \in Contributors \cup {None}
         /\ pushed \in 0..MaxSlots /\ MaxSlots \in Nat
<1>1. exec[e] \in Frame /\ FrameShape(exec[e], pushed) /\ pushed \in 0..MaxSlots
  BY DEF Typed, ExecOK, BountyOK
<1>2. /\ exec[e].row \in Row /\ exec[e].addr \in Address
      /\ exec[e].who \in Contributors \cup {None}
  BY <1>1 DEF Frame
<1>3. exec[e].row.index \in 0..MaxSlots /\ exec[e].row.epoch \in Nat
  BY <1>2 DEF Row
<1>4. exec[e].row.index <= pushed
  BY <1>1 DEF FrameShape
<1> QED BY <1>1, <1>2, <1>3, <1>4, BoundsAssumption

\* A job that takes a new frame has it, and the others keep theirs.
LEMMA BecomeFrame ==
  ASSUME Typed, NEW e \in Executors, NEW g, Become(e, g)
  PROVE  exec'[e] = g /\ \A x \in Executors \ {e} : exec'[x] = exec[x]
BY DEF Typed, ExecOK, Become

\* A job that ends or starts over is idle or loading.
LEMMA BecomeIdle ==
  ASSUME Typed, NEW e \in Executors, NEW j \in Jobs,
         Become(e, IdleFrame) \/ Become(e, Loading(j))
  PROVE  exec'[e].at \in {"idle", "load"}
<1>1. IdleFrame \in Frame /\ IdleFrame.at = "idle" /\ Loading(j).at = "load"
  BY IdleTyped DEF IdleFrame, Loading
<1> QED BY <1>1, BecomeFrame

\* A job goes on to a stage, with the frame it has.
LEMMA GotoFrame ==
  ASSUME Typed, NEW e \in Executors, NEW s, Goto(e, s)
  PROVE  /\ exec'[e].at = s /\ exec'[e].row = exec[e].row /\ exec'[e].job = exec[e].job
         /\ exec'[e].who = exec[e].who /\ exec'[e].addr = exec[e].addr
         /\ exec'[e].slot = exec[e].slot
<1>1. exec'[e] = [exec[e] EXCEPT !.at = s] /\ exec[e] \in Frame
  BY DEF Typed, ExecOK, Goto, Become
<1> QED BY <1>1 DEF Frame

\* A job that goes on keeps what it read, and goes to a stage it passed the checks for.
GoesOn(e) ==
  LET f == exec[e]
      g == exec'[e]
  IN  /\ g.row = f.row /\ g.who = f.who /\ g.addr = f.addr /\ g.job = f.job
      /\ f.at \in SnapshotStages
      /\ g.at \in PayeeStages => f.at \in PayeeStages
      /\ g.at = "merge" => f.at = "evaluate" /\ Decision(f) = "confirm-merge"
      /\ g.at \in PayingStages =>
           f.at \in PayingStages \/ (f.at = "merge" /\ f.who \in merged)
      /\ g.at \in PushStages \cup {"handoff"} => f.job = "push" \/ f.at \in PushStages
      /\ g.at = "put" /\ f.row.index # 0 => g.slot = f.row.index
      /\ g.at = "save" => f.at = "put" /\ g.slot = f.slot

\* So does every job that has loaded the bounty, unless it ends or, run by a request,
\* starts over to push.
Onward(e) ==
  \/ exec'[e] = IdleFrame
  \/ exec'[e] = Loading("push") /\ exec[e].job = "inline"
  \/ GoesOn(e)

LEMMA OnwardStage ==
  ASSUME NEW e, Onward(e)
  PROVE  exec'[e].at \in {"idle", "load"} \/ GoesOn(e)
<1>1. IdleFrame.at = "idle" /\ Loading("push").at = "load"
  BY DEF IdleFrame, Loading
<1> QED BY <1>1 DEF Onward

\* The stages between which a job goes with the frame it has.
LEMMA GotoOnward ==
  ASSUME Typed, NEW e \in Executors, NEW s, Goto(e, s),
         \/ s = "evaluate" /\ exec[e].at = "github"
         \/ s = "fetch" /\ exec[e].at = "evaluate" /\ exec[e].job = "push"
         \/ s = "save" /\ exec[e].at = "put"
         \/ s = "handoff" /\ exec[e].at = "save"
         \/ s \in {"precheck", "wallets"} /\ exec[e].at = "merge" /\ exec[e].who \in merged
         \/ s \in PayingStages /\ exec[e].at \in PayingStages
         \/ s \in {"record", "confirm"} /\ exec[e].at \in SnapshotStages
  PROVE  Onward(e)
<1> DEFINE f == exec[e]
           g == exec'[e]
<1>1. /\ g.at = s /\ g.row = f.row /\ g.job = f.job
      /\ g.who = f.who /\ g.addr = f.addr /\ g.slot = f.slot
  BY GotoFrame
<1> USE DEF SnapshotStages, PushStages, PayeeStages, PayingStages, ReleaseStages, ExecStages
<1>2. f.at \in SnapshotStages
  OBVIOUS
<1>3. s \in PayeeStages => f.at \in PayeeStages
  OBVIOUS
<1>4. s # "merge" /\ s # "put" /\ (s = "save" => f.at = "put")
  OBVIOUS
<1>5. s \in PayingStages => f.at \in PayingStages \/ (f.at = "merge" /\ f.who \in merged)
  OBVIOUS
<1>6. s \in PushStages \cup {"handoff"} => f.job = "push" \/ f.at \in PushStages
  OBVIOUS
<1> QED BY <1>1, <1>2, <1>3, <1>4, <1>5, <1>6 DEF Onward, GoesOn

\* A job that ends, in whatever way, or starts over.
LEMMA EndOnward ==
  ASSUME Typed, NEW e \in Executors,
         \/ Finish(e) \/ Retry(e) \/ GiveUp(e) \/ Become(e, IdleFrame)
         \/ Become(e, Loading("push")) /\ exec[e].job = "inline"
  PROVE  Onward(e)
BY BecomeFrame DEF Finish, Retry, GiveUp, Onward

\* Every step of a job after its load moves it onward.
LEMMA ProgressOnward ==
  ASSUME Typed, NEW e \in Executors, Progress(e), exec[e].at \notin {"load", "assignee"}
  PROVE  Onward(e)
<1> DEFINE f == exec[e]
           g == exec'[e]
<1>1. CASE CheckLiveAssignee(e)
  BY <1>1, EndOnward, GotoOnward DEF CheckLiveAssignee
<1>2. CASE Evaluate(e)
  <2>1. CASE Decision(f) = "confirm-merge"
    <3>1. g = [f EXCEPT !.at = "merge", !.amount = chain[f.row.index].amount]
      BY <1>2, <2>1, BecomeFrame DEF Evaluate
    <3>2. f \in Frame /\ f.at = "evaluate"
      BY <1>2, FrameTyped DEF Evaluate
    <3>3. /\ g.at = "merge" /\ g.row = f.row /\ g.who = f.who /\ g.addr = f.addr
          /\ g.job = f.job
      BY <3>1, <3>2 DEF Frame
    <3> QED BY <2>1, <3>2, <3>3
        DEF Onward, GoesOn, SnapshotStages, PushStages, PayeeStages, PayingStages, ReleaseStages,
            ExecStages
  <2>2. CASE Decision(f) # "confirm-merge"
    <3> DEFINE d == Decision(f)
    <3>1. Apply(e, d) /\ d # "release"
      BY <1>2, <2>2 DEF Evaluate, Decision
    <3> HIDE DEF d
    <3>2. \/ Finish(e) \/ Become(e, IdleFrame)
          \/ Become(e, Loading("push")) /\ f.job = "inline"
          \/ Goto(e, "record")
          \/ f.job = "push" /\ Goto(e, "fetch")
      BY <3>1, Zenon DEF Apply
    <3> QED BY <1>2, <3>2, EndOnward, GotoOnward DEF Evaluate, SnapshotStages, ExecStages
  <2> QED BY <2>1, <2>2
<1>3. CASE ConfirmLiveMerge(e)
  <2>1. (f.who \in merged /\ Apply(e, "release")) \/ Apply(e, "waiting")
    BY <1>3 DEF ConfirmLiveMerge
  <2>2. \/ Finish(e) \/ Become(e, IdleFrame)
        \/ f.who \in merged /\ (Goto(e, "precheck") \/ Goto(e, "wallets"))
    BY <2>1 DEF Apply
  <2> QED BY <1>3, <2>2, EndOnward, GotoOnward DEF ConfirmLiveMerge
<1>4. CASE FetchEscrow(e)
  <2> DEFINE slot == IF Listed(f) THEN f.row.index ELSE pushed + 1
             h == [f EXCEPT !.at = "put", !.slot = slot]
  <2>1. CASE Become(e, h)
    <3>1. g = h /\ f \in Frame
      BY <2>1, BecomeFrame, FrameTyped
    <3>2. /\ g.at = "put" /\ g.row = f.row /\ g.who = f.who /\ g.addr = f.addr
          /\ g.job = f.job /\ g.slot = slot
      BY <3>1 DEF Frame
    <3>3. f.row.index # 0 => slot = f.row.index
      BY FrameTyped DEF Listed
    <3> QED BY <1>4, <3>2, <3>3
        DEF Onward, GoesOn, FetchEscrow, SnapshotStages, PushStages, PayeeStages, PayingStages,
            ReleaseStages, ExecStages
  <2> QED BY <1>4, <2>1, EndOnward DEF FetchEscrow
<1>5. CASE UpdateEscrow(e) \/ SaveMilestone(e) \/ Handoff(e)
  BY <1>5, EndOnward, GotoOnward DEF UpdateEscrow, SaveMilestone, Handoff
<1>6. CASE \/ RequireReleasable(e) \/ CompleteMilestone(e) \/ ApproveMilestone(e)
           \/ RequireWallets(e) \/ DisputeForSplit(e)
  BY <1>6, EndOnward, GotoOnward
  DEF RequireReleasable, CompleteMilestone, ApproveMilestone, RequireWallets, DisputeForSplit,
      PayingStages, ReleaseStages, SnapshotStages, ExecStages
<1>7. CASE \/ ReleaseFunds(e) \/ ResolveForSplit(e) \/ LabelSettled(e) \/ RecordPayout(e)
           \/ MarkPaid(e)
  BY <1>7, EndOnward, GotoOnward
  DEF ReleaseFunds, ResolveForSplit, LabelSettled, RecordPayout, MarkPaid,
      PayingStages, ReleaseStages, SnapshotStages, ExecStages
<1> QED BY <1>1, <1>2, <1>3, <1>4, <1>5, <1>6, <1>7 DEF Progress, LoadBounty, LoadAssignee

\* The two steps of the load.
LEMMA Loads ==
  ASSUME Typed, NEW e \in Executors, Progress(e), exec[e].at \in {"load", "assignee"}
  PROVE  /\ UNCHANGED <<bountyVars, worldVars, queue>>
         /\ \/ /\ exec[e].at = "load" /\ exec'[e].at = "assignee"
               /\ exec'[e].row = row /\ exec'[e].job = exec[e].job /\ UNCHANGED jobVars
            \/ /\ exec[e].at = "assignee" /\ exec'[e].at \in {"github", "evaluate"}
               /\ exec'[e].row = exec[e].row /\ exec'[e].job = exec[e].job
               /\ exec'[e].who = row.assignee /\ exec'[e].addr = WalletOf(row.assignee)
               /\ UNCHANGED jobVars
            \/ Finish(e)
<1>0. LoadBounty(e) \/ LoadAssignee(e)
  BY DEF Progress, LoadBounty, LoadAssignee, CheckLiveAssignee, Evaluate, ConfirmLiveMerge,
         FetchEscrow, UpdateEscrow, SaveMilestone, Handoff, RequireReleasable,
         CompleteMilestone, ApproveMilestone, ReleaseFunds, RequireWallets, DisputeForSplit,
         ResolveForSplit, LabelSettled, RecordPayout, MarkPaid
<1>1. CASE LoadBounty(e)
  <2>1. exec'[e] = [exec[e] EXCEPT !.at = "assignee", !.row = row] /\ exec[e] \in Frame
    BY <1>1, BecomeFrame, FrameTyped DEF LoadBounty
  <2> QED BY <1>1, <2>1 DEF LoadBounty, Frame, jobVars
<1>2. CASE LoadAssignee(e)
  <2> DEFINE g == [exec[e] EXCEPT !.at = IF exec[e].job = "push" THEN "github" ELSE "evaluate",
                                  !.who = row.assignee, !.addr = WalletOf(row.assignee)]
  <2>1. CASE Become(e, g) /\ UNCHANGED failed
    <3>1. exec'[e] = g /\ exec[e] \in Frame
      BY <2>1, BecomeFrame, FrameTyped
    <3> QED BY <1>2, <2>1, <3>1 DEF LoadAssignee, Frame, jobVars
  <2>2. CASE Finish(e)
    BY <1>2, <2>2 DEF LoadAssignee
  <2> QED BY <1>2, <2>1, <2>2 DEF LoadAssignee
<1> QED BY <1>0, <1>1, <1>2

\* Nobody else's frame changes.
LEMMA OthersWait ==
  ASSUME Typed, NEW e \in Executors, NEW j \in Jobs,
         Progress(e) \/ Take(e, j) \/ AdvanceInline(e) \/ JobFault(e)
  PROVE  \A x \in Executors \ {e} : exec'[x] = exec[x]
<1>1. \E g : Become(e, g)
  BY Zenon
  DEF Progress, LoadBounty, LoadAssignee, CheckLiveAssignee, Evaluate, ConfirmLiveMerge, Apply,
      FetchEscrow, UpdateEscrow, SaveMilestone, Handoff, RequireReleasable,
      CompleteMilestone, ApproveMilestone, ReleaseFunds, RequireWallets, DisputeForSplit,
      ResolveForSplit, LabelSettled, RecordPayout, MarkPaid, Goto, Finish, Retry, GiveUp,
      Take, AdvanceInline, JobFault, Stall
<1> QED BY <1>1, BecomeFrame

\* The end of a step for the frames: started or failed jobs are idle or loading.
LEMMA Starts ==
  ASSUME Typed, NEW e \in Executors, NEW j \in Jobs,
         Take(e, j) \/ AdvanceInline(e) \/ JobFault(e)
  PROVE  exec'[e].at \in {"idle", "load"}
<1>1. "inline" \in Jobs
  BY DEF Jobs
<1>2. Become(e, IdleFrame) \/ Become(e, Loading(j)) \/ Become(e, Loading("inline"))
  BY DEF Take, AdvanceInline, JobFault, Retry, GiveUp, Stall
<1> QED BY <1>1, <1>2, BecomeIdle

\* Only steps of money jobs move executors.
LEMMA OthersBeside ==
  ASSUME Typed,
         \/ World \/ Reconcile \/ (\E j \in Jobs : Recover(j)) \/ UNCHANGED vars
         \/ \E t \in Tasks : \/ TaskProgress(t) \/ TaskFault(t)
                             \/ \E d \in inbox : Receiving(t, d)
  PROVE  UNCHANGED <<exec, failed, payouts, enabled>> /\ merged \subseteq merged'
<1>1. CASE World \/ Reconcile \/ (\E j \in Jobs : Recover(j)) \/ UNCHANGED vars
  BY <1>1 DEF World, Reconcile, Recover, Happens, GitHubAssign, GitHubUnassign, vars,
         GitHubMerge, ConnectWallet, GitHubClose, ConnectMaintainerWallet, RetryBounty,
         MaintainerCommand, ChangeReward, bountyVars, worldVars
<1>2. CASE \E t \in Tasks : \/ TaskProgress(t) \/ TaskFault(t)
                            \/ \E d \in inbox : Receiving(t, d)
  BY <1>2, TaskFrameConditions DEF TaskFault, Receiving, bountyVars, worldVars, jobVars
<1> QED BY <1>1, <1>2

\* A merge is checked before anything is paid, and stays.
LEMMA CheckedStep ==
  ASSUME Typed, [Next]_vars, \A e \in Executors : Checked(e)
  PROVE  \A e \in Executors : Checked(e)'
<1>1. ASSUME NEW e \in Executors, exec'[e] = exec[e], merged \subseteq merged'
      PROVE  Checked(e)'
  BY <1>1 DEF Checked
<1>2. CASE \/ World \/ Reconcile \/ (\E j \in Jobs : Recover(j)) \/ UNCHANGED vars
           \/ \E t \in Tasks : \/ TaskProgress(t) \/ TaskFault(t)
                               \/ \E d \in inbox : Receiving(t, d)
  BY <1>1, <1>2, OthersBeside
<1>3. ASSUME NEW e \in Executors, NEW j \in Jobs,
             Take(e, j) \/ AdvanceInline(e) \/ JobFault(e)
      PROVE  \A x \in Executors : Checked(x)'
  <2>1. UNCHANGED merged
    BY <1>3 DEF Take, AdvanceInline, JobFault, worldVars
  <2>2. Checked(e)'
    BY <1>3, Starts DEF Checked, PayingStages, ReleaseStages
  <2> QED BY <1>1, <1>3, <2>1, <2>2, OthersWait
<1>4. ASSUME NEW e \in Executors, Progress(e)
      PROVE  \A x \in Executors : Checked(x)'
  <2>1. UNCHANGED merged
    BY <1>4, ProgressFrame
  <2>2. Checked(e)'
    <3>1. CASE exec[e].at \in {"load", "assignee"}
      <4>1. exec'[e].at \in {"assignee", "github", "evaluate", "idle", "load"}
        BY <1>4, <3>1, Loads, EndOnward, BecomeIdle DEF Finish, Jobs
      <4> QED BY <4>1 DEF Checked, PayingStages, ReleaseStages
    <3>2. CASE exec[e].at \notin {"load", "assignee"}
      <4>1. exec'[e].at \in {"idle", "load"} \/ GoesOn(e)
        BY <1>4, <3>2, ProgressOnward, OnwardStage
      <4> QED BY <2>1, <4>1 DEF GoesOn, Checked, PayingStages, ReleaseStages
    <3> QED BY <3>1, <3>2
  <2> QED BY <1>1, <1>4, <2>1, <2>2, OthersWait DEF Jobs
<1>5. "advance" \in Jobs
  BY DEF Jobs
<1> QED BY <1>2, <1>3, <1>4, <1>5 DEF Next

\* In the beginning no job runs.
LEMMA InitIdle == Init => \A e \in Executors : exec[e].at = "idle" /\ exec[e].job = "advance"
BY DEF Init, IdleFrame

LEMMA InitChecked == Init => \A e \in Executors : Checked(e)
BY InitIdle DEF Checked, PayingStages, ReleaseStages

\* So it holds always.
LEMMA AlwaysChecked == Spec => [](Typed /\ \A e \in Executors : Checked(e))
<1> DEFINE I == \A e \in Executors : Checked(e)
<1>1. Typed /\ I /\ [Next]_vars => I'
  BY CheckedStep
<1> QED BY <1>1, InitChecked, AlwaysTyped, PTL DEF Spec

------------------------------------------------------------------------------
(* With a queue, one push of the bounty at a time.                         *)

Pushing(e) == exec[e].at # "idle" /\ exec[e].job = "push"

\* A job that writes the milestone list is a push; it writes the slot of the index
\* it loaded, if it loaded one.
Ordered(f) ==
  /\ f.job # "inline"
  /\ f.at \in PushStages \cup {"handoff"} => f.job = "push"
  /\ f.at \in {"put", "save"} /\ f.row.index # 0 => f.slot = f.row.index

Serial ==
  /\ enabled
  /\ "inline" \notin queue \cup failed
  /\ \A e \in Executors : Ordered(exec[e])
  /\ \A d, e \in Executors : Pushing(d) /\ Pushing(e) => d = e
  /\ "push" \in queue => \A e \in Executors : ~Pushing(e)

\* No job runs, and at most advance waits.
LEMMA InitSerial == Queued /\ Init => Serial
<1> SUFFICES ASSUME Queued, Init PROVE Serial
  OBVIOUS
<1>1. enabled /\ "inline" \notin queue \cup failed /\ "push" \notin queue
  BY ModesAssumption DEF Queued, Init
<1>2. \A e \in Executors : Ordered(exec[e]) /\ ~Pushing(e)
  BY InitIdle DEF Ordered, Pushing, PushStages
<1> QED BY <1>1, <1>2 DEF Serial

\* A running job goes on.
LEMMA SerialGoesOn ==
  ASSUME Typed, Serial, NEW e \in Executors, \A x \in Executors \ {e} : exec'[x] = exec[x],
         exec[e].at # "idle", exec'[e].job = exec[e].job, Ordered(exec'[e]),
         UNCHANGED <<enabled, queue, failed>>
  PROVE  Serial'
<1>1. \A x \in Executors : Ordered(exec'[x])
  BY DEF Serial
<1>2. \A x \in Executors : Pushing(x)' => Pushing(x)
  BY DEF Pushing
<1> QED BY <1>1, <1>2 DEF Serial

\* A job ends; it may come again, and asks for a push only when none runs.
Ends(e) ==
  /\ Become(e, IdleFrame)
  /\ failed' \subseteq failed \cup {exec[e].job}
  /\ queue' \subseteq queue \cup {exec[e].job, "advance", "release"}
                          \cup (IF Running("push") THEN {} ELSE {"push"})

LEMMA SerialEnds ==
  ASSUME Typed, Serial, NEW e \in Executors, exec[e].at # "idle", Ends(e), UNCHANGED enabled
  PROVE  Serial'
<1>1. exec'[e] = IdleFrame /\ \A x \in Executors \ {e} : exec'[x] = exec[x]
  BY BecomeFrame DEF Ends
<1>2. Ordered(IdleFrame) /\ ~Pushing(e)'
  BY <1>1 DEF Ordered, Pushing, IdleFrame, PushStages
<1>3. \A x \in Executors : Ordered(exec'[x])
  BY <1>1, <1>2 DEF Serial
<1>4. \A x \in Executors : Pushing(x)' => x # e /\ Pushing(x)
  BY <1>1, <1>2 DEF Pushing
<1>5. "inline" \notin queue' \cup failed'
  BY DEF Serial, Ordered, Ends
<1>6. ASSUME "push" \in queue', NEW x \in Executors, Pushing(x)' PROVE FALSE
  <2>1. Pushing(x) /\ x # e
    BY <1>4, <1>6
  <2>2. Running("push")
    BY <2>1 DEF Running, Pushing
  <2>3. "push" \in queue \/ exec[e].job = "push"
    BY <1>6, <2>2 DEF Ends
  <2> QED BY <2>1, <2>3 DEF Serial, Pushing
<1> QED BY <1>3, <1>4, <1>5, <1>6 DEF Serial

\* Somebody else asks for a job.
LEMMA SerialAsked ==
  ASSUME Serial, UNCHANGED <<exec, failed, enabled>>,
         UNCHANGED queue \/ \E j \in Jobs \ {"inline"} : Enqueue(j)
  PROVE  Serial'
<1>1. \/ queue' = queue
      \/ \E j \in Jobs \ {"inline"} : queue' = queue \cup {j} /\ (j = "advance" \/ ~Running(j))
  BY DEF Enqueue
<1>2. "inline" \notin queue' \cup failed'
  BY <1>1 DEF Serial
<1>3. \A x \in Executors : Ordered(exec'[x]) /\ (Pushing(x)' <=> Pushing(x))
  BY DEF Serial, Pushing
<1>4. "push" \in queue' => \A x \in Executors : ~Pushing(x)
  BY <1>1 DEF Serial, Running, Pushing
<1> QED BY <1>2, <1>3, <1>4 DEF Serial

\* What a step of a job does to the queue.
LEMMA ProgressJobs ==
  ASSUME Typed, Serial, NEW e \in Executors, Progress(e)
  PROVE  exec[e].at # "idle" /\ (UNCHANGED jobVars \/ Ends(e))
<1>1. exec[e].at # "idle"
  BY DEF Progress, LoadBounty, LoadAssignee, CheckLiveAssignee, Evaluate, ConfirmLiveMerge,
         FetchEscrow, UpdateEscrow, SaveMilestone, Handoff, RequireReleasable,
         CompleteMilestone, ApproveMilestone, ReleaseFunds, RequireWallets, DisputeForSplit,
         ResolveForSplit, LabelSettled, RecordPayout, MarkPaid
<1>2. Retry(e) \/ (GiveUp(e)) \/ (Finish(e) /\ UNCHANGED queue) => Ends(e)
  BY DEF Retry, GiveUp, Finish, Record, Ends
<1>3. \A j \in {"advance", "push", "release"} : Finish(e) /\ Enqueue(j) => Ends(e)
  <2>1. ASSUME NEW j \in {"advance", "push", "release"}, Finish(e), Enqueue(j) PROVE Ends(e)
    <3>1. queue' \subseteq queue \cup (IF j = "advance" \/ ~Running(j) THEN {j} ELSE {})
      BY <2>1 DEF Enqueue
    <3>2. Become(e, IdleFrame) /\ failed' \subseteq failed
      BY <2>1 DEF Finish
    <3> QED BY <3>1, <3>2 DEF Ends
  <2> QED BY <2>1
<1>4. \A d : Apply(e, d) => UNCHANGED jobVars \/ Ends(e)
  <2>1. ASSUME NEW d, Apply(e, d) PROVE UNCHANGED jobVars \/ Ends(e)
    <3>1. \/ Become(e, IdleFrame) /\ queue' = queue \cup {"advance"} /\ UNCHANGED failed
          \/ d \in {"push", "release"} /\ Finish(e) /\ Enqueue(d)
          \/ UNCHANGED jobVars
          \/ Finish(e) /\ UNCHANGED queue
      BY <2>1, Zenon DEF Apply
    <3>2. CASE Become(e, IdleFrame) /\ queue' = queue \cup {"advance"} /\ UNCHANGED failed
      BY <3>2 DEF Ends
    <3> QED BY <1>2, <1>3, <3>1, <3>2
  <2> QED BY <2>1
<1>5. CASE LoadBounty(e) \/ LoadAssignee(e) \/ CheckLiveAssignee(e)
  BY <1>2, <1>5 DEF LoadBounty, LoadAssignee, CheckLiveAssignee, jobVars
<1>6. CASE Evaluate(e) \/ ConfirmLiveMerge(e)
  BY <1>4, <1>6, Zenon DEF Evaluate, ConfirmLiveMerge
<1>7. CASE FetchEscrow(e) \/ UpdateEscrow(e) \/ SaveMilestone(e) \/ Handoff(e)
  BY <1>2, <1>3, <1>7 DEF FetchEscrow, UpdateEscrow, SaveMilestone, Handoff
<1>8. CASE \/ RequireReleasable(e) \/ CompleteMilestone(e) \/ ApproveMilestone(e)
           \/ ReleaseFunds(e) \/ RequireWallets(e)
  BY <1>2, <1>8
  DEF RequireReleasable, CompleteMilestone, ApproveMilestone, ReleaseFunds, RequireWallets
<1>9. CASE DisputeForSplit(e) \/ ResolveForSplit(e) \/ LabelSettled(e)
           \/ RecordPayout(e) \/ MarkPaid(e)
  BY <1>2, <1>9 DEF DisputeForSplit, ResolveForSplit, LabelSettled, RecordPayout, MarkPaid
<1> QED BY <1>1, <1>5, <1>6, <1>7, <1>8, <1>9 DEF Progress

\* Every step keeps the pushes apart.
LEMMA SerialStep == ASSUME Typed, Typed', Serial, [Next]_vars PROVE Serial'
<1>1. CASE World \/ Reconcile \/ \E j \in Jobs : Recover(j)
  <2>1. UNCHANGED <<exec, failed, enabled>>
    BY <1>1, OthersBeside
  <2>2. UNCHANGED queue \/ \E j \in Jobs \ {"inline"} : Enqueue(j)
    BY <1>1
    DEF World, Reconcile, Recover, GitHubAssign, GitHubUnassign, GitHubMerge, ConnectWallet,
        GitHubClose, ConnectMaintainerWallet, RetryBounty, MaintainerCommand, ChangeReward,
        Serial, Jobs
  <2> QED BY <2>1, <2>2, SerialAsked
<1>2. CASE \E t \in Tasks : \/ TaskProgress(t) \/ TaskFault(t)
                            \/ \E d \in inbox : Receiving(t, d)
  <2>1. UNCHANGED <<exec, failed, enabled>>
    BY <1>2, OthersBeside
  <2>2. UNCHANGED queue \/ Enqueue("advance")
    BY <1>2
    DEF TaskProgress, TaskFault, Receiving, CheckAssignment, AssignBounty, MarkMerged,
        EnqueueAdvance, RestoreReward, InspectMilestone, DisputeMilestone, LabelDisputed,
        LabelRejected, UnassignBounty, ResetToOpen, ZeroMilestone, CancelBounty,
        ResolveToMaintainer, CloseRejected, FailRejected, RefusePayoutAmount,
        SavePayoutAmount, jobVars
  <2> QED BY <2>1, <2>2, SerialAsked DEF Jobs
<1>3. ASSUME NEW e \in Executors, NEW j \in Jobs, Take(e, j) PROVE Serial'
  <2>1. /\ exec'[e] = Loading(j) /\ \A x \in Executors \ {e} : exec'[x] = exec[x]
        /\ queue' = queue \ {j} /\ UNCHANGED <<failed, enabled>>
    BY <1>3, BecomeFrame DEF Take, worldVars
  <2>2. j \in queue /\ j # "inline"
    BY <1>3 DEF Take, Serial
  <2>3. Loading(j).job = j /\ Loading(j).at = "load"
    BY DEF Loading, IdleFrame
  <2>4. \A x \in Executors : Ordered(exec'[x])
    <3>1. Ordered(Loading(j))
      BY <2>2, <2>3 DEF Ordered, PushStages
    <3> QED BY <2>1, <3>1 DEF Serial
  <2>5. \A x \in Executors \ {e} : Pushing(x)' <=> Pushing(x)
    BY <2>1 DEF Pushing
  <2>6. Pushing(e)' => j = "push"
    BY <2>1, <2>3 DEF Pushing
  <2>7. j = "push" => \A x \in Executors : ~Pushing(x)
    BY <2>2 DEF Serial
  <2>8. \A x, y \in Executors : Pushing(x)' /\ Pushing(y)' => x = y
    BY <2>5, <2>6, <2>7 DEF Serial
  <2>9. "push" \in queue' => \A x \in Executors : ~Pushing(x)'
    BY <2>1, <2>5, <2>6 DEF Serial
  <2> QED BY <2>1, <2>4, <2>8, <2>9 DEF Serial
<1>4. ASSUME NEW e \in Executors, JobFault(e) PROVE Serial'
  <2>1. Ends(e) /\ UNCHANGED enabled /\ exec[e].at # "idle"
    BY <1>4 DEF JobFault, Ends, Retry, GiveUp, Stall, Record, worldVars
  <2> QED BY <2>1, SerialEnds
<1>5. ASSUME NEW e \in Executors, AdvanceInline(e) PROVE Serial'
  BY <1>5 DEF AdvanceInline, Serial
<1>6. ASSUME NEW e \in Executors, Progress(e) PROVE Serial'
  <2>1. /\ exec[e].at # "idle" /\ (UNCHANGED jobVars \/ Ends(e)) /\ UNCHANGED enabled
        /\ \A x \in Executors \ {e} : exec'[x] = exec[x]
    BY <1>6, ProgressJobs, ProgressFrame, OthersWait DEF Jobs
  <2>2. CASE Ends(e)
    BY <2>1, <2>2, SerialEnds
  <2>3. CASE UNCHANGED jobVars /\ exec'[e].job = exec[e].job /\ Ordered(exec'[e])
    BY <2>1, <2>3, SerialGoesOn DEF jobVars
  <2>4. ASSUME UNCHANGED jobVars, ~Ends(e)
        PROVE  exec'[e].job = exec[e].job /\ Ordered(exec'[e])
    <3>1. CASE exec[e].at \in {"load", "assignee"}
      <4>1. ~Finish(e)
        BY <1>6, <2>4, <3>1, Loads DEF Finish, Ends
      <4> QED BY <1>6, <3>1, <4>1, Loads DEF Serial, Ordered, PushStages
    <3>2. CASE exec[e].at \notin {"load", "assignee"}
      <4>1. Onward(e)
        BY <1>6, <3>2, ProgressOnward
      <4>2. exec'[e] # IdleFrame
        BY <2>1, <2>4 DEF Ends, Become, Typed, ExecOK, jobVars
      <4> QED BY <4>1, <4>2 DEF Onward, GoesOn, Serial, Ordered, PushStages
    <3> QED BY <3>1, <3>2
  <2> QED BY <2>1, <2>2, <2>3, <2>4
<1>7. CASE UNCHANGED vars
  BY <1>7, SerialAsked DEF vars
<1> QED BY <1>1, <1>2, <1>3, <1>4, <1>5, <1>6, <1>7 DEF Next

------------------------------------------------------------------------------
(* One payment per assignment.                                             *)

\* The assignment numbered n has been paid.
Paid(n) == \E i \in DOMAIN payouts : payouts[i].epoch = n

\* Milestone s is settled: nothing can be paid from it any more.
Spent(s) == s # 0 /\ chain[s].outcome # "none"

\* A snapshot of the present assignment has the row's index, or none.  A push has it
\* exactly; and when its assignment was taken back, the row has had none since.
Current(e) ==
  LET f == exec[e]
  IN  f.at \in SnapshotStages =>
        /\ f.row.epoch <= row.epoch
        /\ f.row.epoch = row.epoch /\ f.row.index # 0 => f.row.index = row.index
        /\ f.job = "push" /\ f.row.epoch = row.epoch => f.row.index = row.index
        /\ f.job = "push" /\ f.row.epoch < row.epoch => row.index = 0

\* Two snapshots of one assignment do not know different milestones.
Agree(d, e) ==
  /\ exec[d].at \in SnapshotStages /\ exec[e].at \in SnapshotStages
  /\ exec[d].row.epoch = exec[e].row.epoch
  /\ exec[d].row.index # 0 /\ exec[e].row.index # 0
  => exec[d].row.index = exec[e].row.index

\* The milestone of a paid assignment is spent.
Unpaid(e) ==
  LET f == exec[e]
  IN  f.at \in SnapshotStages /\ f.row.index # 0 /\ Paid(f.row.epoch) => Spent(f.row.index)
Ledger ==
  /\ \A i \in DOMAIN payouts : payouts[i].epoch <= row.epoch
  /\ Paid(row.epoch) => Spent(row.index)

Settles ==
  /\ PaidOncePerAssignment
  /\ Ledger
  /\ \A e \in Executors : Current(e) /\ Unpaid(e)
  /\ \A d, e \in Executors : Agree(d, e)

\* The invariant, all of it.
Safe ==
  /\ Typed /\ Serial /\ Settles
  /\ \A e \in Executors : Checked(e)

LEMMA InitSafe == Queued /\ Init => Safe
<1> SUFFICES ASSUME Queued, Init PROVE Safe
  OBVIOUS
<1>1. payouts = <<>> /\ DOMAIN payouts = {}
  BY DEF Init
<1>2. PaidOncePerAssignment /\ Ledger
  BY <1>1 DEF PaidOncePerAssignment, Ledger, Paid
<1>3. \A e \in Executors : exec[e].at \notin SnapshotStages
  BY InitIdle DEF SnapshotStages
<1> QED BY <1>2, <1>3, InitTyped, InitSerial, InitChecked
    DEF Safe, Settles, Current, Unpaid, Agree

\* What anything but a payment and a new index may do to the bounty.
RowKept ==
  \/ row'.epoch = row.epoch /\ row'.index = row.index
  \/ row'.epoch = row.epoch + 1 /\ row'.index = 0
SpentKept == \A s \in 1..pushed : chain[s].outcome # "none" => chain'[s].outcome # "none"
Beside == UNCHANGED payouts /\ RowKept /\ SpentKept

\* The job drops its snapshot, or goes on with it.
Follows(e) ==
  exec'[e].at \in SnapshotStages =>
    /\ exec[e].at \in SnapshotStages
    /\ exec'[e].row = exec[e].row /\ exec'[e].job = exec[e].job

\* What is spent stays so, and nobody is paid.
LEMMA PaidKept ==
  ASSUME Typed, UNCHANGED payouts, SpentKept
  PROVE  /\ \A n : Paid(n)' <=> Paid(n)
         /\ \A s \in 0..pushed : Spent(s) => Spent(s)'
<1>1. \A n : Paid(n)' <=> Paid(n)
  BY DEF Paid
<1>2. pushed \in Nat
  BY RowTyped, BoundsAssumption DEF Typed, BountyOK
<1> QED BY <1>1, <1>2 DEF SpentKept, Spent

\* Such a step, with every job going on or ending, keeps the invariant.
LEMMA BesideSettles ==
  ASSUME Typed, Typed', Settles, Beside, \A e \in Executors : Follows(e)
  PROVE  Settles'
<1>0. /\ row.epoch \in Nat /\ row'.epoch \in Nat /\ row.index \in 0..pushed
      /\ payouts \in Seq(Receipt)
  BY RowTyped DEF Typed, BountyOK, Row
<1>1. PaidOncePerAssignment'
  BY DEF Settles, PaidOncePerAssignment, Beside
<1>2. Ledger'
  <2>1. \A i \in DOMAIN payouts : payouts[i].epoch \in Nat /\ payouts[i].epoch <= row.epoch
    <3>1. \A i \in DOMAIN payouts : payouts[i] \in Receipt
      BY <1>0
    <3>2. \A r \in Receipt : r.epoch \in Nat
      BY DEF Receipt
    <3> QED BY <3>1, <3>2 DEF Settles, Ledger
  <2>2. CASE row'.epoch = row.epoch /\ row'.index = row.index
    <3>1. Paid(row.epoch)' => Paid(row.epoch)
      BY <2>2 DEF Beside, Paid
    <3>2. Spent(row.index) => Spent(row.index)'
      BY <1>0, <2>2, PaidKept DEF Beside, Spent
    <3> QED BY <2>1, <2>2, <3>1, <3>2 DEF Settles, Ledger, Beside
  <2>3. CASE row'.epoch = row.epoch + 1
    BY <1>0, <2>1, <2>3 DEF Ledger, Beside, Paid
  <2> QED BY <2>2, <2>3 DEF Beside, RowKept
<1>3. ASSUME NEW e \in Executors PROVE Current(e)' /\ Unpaid(e)'
  <2> DEFINE f == exec[e]
             g == exec'[e]
  <2> SUFFICES ASSUME g.at \in SnapshotStages PROVE Current(e)' /\ Unpaid(e)'
    BY DEF Current, Unpaid
  <2>0. /\ f.at \in SnapshotStages /\ g.row = f.row /\ g.job = f.job
        /\ f.row.epoch \in Nat /\ f.row.index \in 0..pushed
    BY FrameTyped DEF Follows
  <2>1. Current(e) /\ Unpaid(e)
    BY DEF Settles
  <2>2. Current(e)'
    BY <1>0, <2>0, <2>1 DEF Current, Beside, RowKept
  <2>3. Unpaid(e)'
    <3>1. Paid(f.row.epoch)' => Paid(f.row.epoch)
      BY <2>0, PaidKept DEF Beside, Paid
    <3>2. Spent(f.row.index) => Spent(f.row.index)'
      BY <2>0, PaidKept DEF Beside, Spent
    <3> QED BY <2>0, <2>1, <3>1, <3>2 DEF Unpaid
  <2> QED BY <2>2, <2>3
<1>4. \A d, e \in Executors : Agree(d, e)'
  BY DEF Settles, Agree, Follows
<1> QED BY <1>1, <1>2, <1>3, <1>4 DEF Settles

\* Steps that leave the bounty alone, but for other columns of the row.
LEMMA Unchanging ==
  ASSUME UNCHANGED <<chain, payouts>>, row'.epoch = row.epoch, row'.index = row.index
  PROVE  Beside
BY DEF Beside, RowKept, SpentKept

\* One milestone is written and does not become payable again.
LEMMA MilestoneWritten ==
  ASSUME Typed, NEW s \in 1..MaxSlots, NEW m, SetMilestone(s, m),
         chain[s].outcome # "none" => m.outcome # "none"
  PROVE  SpentKept
<1>1. pushed \in 0..MaxSlots /\ MaxSlots \in Nat
  BY BoundsAssumption DEF Typed, BountyOK
<1> QED BY <1>1 DEF Typed, BountyOK, SetMilestone, SpentKept

\* Users, GitHub, the scans and the handlers pay nobody; the handlers withdraw: they
\* dispute, return or zero a milestone and clear the row's index with its assignment.
LEMMA OthersKeep ==
  ASSUME Typed,
         \/ World \/ Reconcile \/ (\E j \in Jobs : Recover(j)) \/ UNCHANGED vars
         \/ \E t \in Tasks : \/ TaskProgress(t) \/ TaskFault(t)
                             \/ \E d \in inbox : Receiving(t, d)
  PROVE  Beside /\ \A e \in Executors : Follows(e)
<1>0. UNCHANGED <<payouts, exec>>
  BY OthersBeside
<1>f. \A e \in Executors : Follows(e)
  BY <1>0 DEF Follows
<1>1. CASE World \/ Reconcile \/ (\E j \in Jobs : Recover(j)) \/ UNCHANGED vars
  <2>1. /\ UNCHANGED chain
        /\ UNCHANGED row \/ \E a \in 1..FullReward : row' = [row EXCEPT !.reward = a]
    BY <1>1 DEF World, Reconcile, Recover, GitHubAssign, GitHubUnassign, vars,
           GitHubMerge, ConnectWallet, GitHubClose, ConnectMaintainerWallet, RetryBounty,
           MaintainerCommand, ChangeReward, bountyVars
  <2>2. row'.epoch = row.epoch /\ row'.index = row.index
    BY <2>1, RowTyped DEF Row
  <2> QED BY <1>0, <1>f, <2>1, <2>2, Unchanging
<1>2. ASSUME NEW t \in Tasks, \/ TaskProgress(t) \/ TaskFault(t)
                              \/ \E d \in inbox : Receiving(t, d)
      PROVE  Beside
  <2>s. ASSUME task[t].at \in SlotStages
        PROVE  TaskSlot(t) \in 1..MaxSlots /\ chain[TaskSlot(t)] \in Milestone
    BY <2>s, TaskSlotTyped DEF Typed, BountyOK, HandlerOK, JobsOK
  <2>1. CASE \/ AssignBounty(t) \/ MarkMerged(t) \/ RestoreReward(t) \/ CancelBounty(t)
             \/ CloseRejected(t) \/ FailRejected(t) \/ UnassignBounty(t) \/ ResetToOpen(t)
             \/ \E a \in 1..FullReward : SavePayoutAmount(t, a)
    <3>1. /\ UNCHANGED chain
          /\ \/ row' = [row EXCEPT !.assignee = task[t].who, !.status = "assigned"]
             \/ \E st \in Statuses : row' = [row EXCEPT !.status = st]
             \/ \E a : row' = [row EXCEPT !.reward = a]
             \/ row' = Unassigned(row)
      BY <2>1
      DEF AssignBounty, MarkMerged, CancelBounty, CloseRejected, FailRejected, RestoreReward,
          UnassignBounty, ResetToOpen, SavePayoutAmount, Statuses
    <3>2. RowKept
      BY <3>1, RowTyped DEF RowKept, Unassigned, Row
    <3> QED BY <1>0, <3>1, <3>2 DEF Beside, SpentKept
  <2>2. CASE \/ DisputeMilestone(t) \/ LabelDisputed(t) \/ LabelRejected(t)
             \/ ZeroMilestone(t) \/ ResolveToMaintainer(t)
    <3>1. task[t].at \in SlotStages /\ UNCHANGED row
      BY <2>2 DEF SlotStages, DisputeMilestone, LabelDisputed, LabelRejected, ZeroMilestone,
                  ResolveToMaintainer
    <3> DEFINE s == TaskSlot(t)
               m == chain[s]
    <3>2. \/ UNCHANGED chain
          \/ SetMilestone(s, [m EXCEPT !.disputed = TRUE])
          \/ SetMilestone(s, [m EXCEPT !.done = FALSE])
          \/ SetMilestone(s, [m EXCEPT !.amount = 0, !.to = PlatformAccount])
          \/ SetMilestone(s, [m EXCEPT !.outcome = "returned", !.disputed = FALSE,
                                       !.done = FALSE])
      BY <2>2 DEF DisputeMilestone, LabelDisputed, LabelRejected, ZeroMilestone,
                  ResolveToMaintainer
    <3>3. CASE UNCHANGED chain
      BY <1>0, <3>1, <3>3, Unchanging
    <3>4. CASE ~UNCHANGED chain
      <4>1. SpentKept
        BY <2>s, <3>1, <3>2, <3>4, MilestoneWritten DEF Milestone
      <4> QED BY <1>0, <3>1, <4>1 DEF Beside, RowKept
    <3> QED BY <3>3, <3>4
  <2>3. CASE UNCHANGED <<row, chain>>
    BY <1>0, <2>3, Unchanging
  <2> QED BY <1>2, <2>1, <2>2, <2>3
      DEF TaskProgress, TaskFault, Receiving, CheckAssignment, EnqueueAdvance,
          InspectMilestone, RefusePayoutAmount, bountyVars
<1> QED BY <1>f, <1>1, <1>2

\* Jobs that start, fail or stall have no snapshot.
LEMMA StartKeeps ==
  ASSUME Typed, NEW e \in Executors, NEW j \in Jobs,
         Take(e, j) \/ AdvanceInline(e) \/ JobFault(e)
  PROVE  Beside /\ \A x \in Executors : Follows(x)
<1>1. UNCHANGED bountyVars
  BY DEF Take, AdvanceInline, JobFault
<1>2. Follows(e)
  BY Starts DEF Follows, SnapshotStages
<1> QED BY <1>1, <1>2, OthersWait, Unchanging DEF Follows, bountyVars

\* After its load a job goes on with the snapshot it has.
LEMMA OnwardFollows ==
  ASSUME Typed, NEW e \in Executors, Progress(e), exec[e].at # "load"
  PROVE  \A x \in Executors : Follows(x)
<1>1. CASE exec[e].at = "assignee"
  <2>1. Finish(e) => exec'[e].at = "idle"
    BY BecomeFrame DEF Finish, IdleFrame
  <2> QED BY <1>1, <2>1, Loads, OthersWait DEF Follows, SnapshotStages, ExecStages, Jobs
<1>2. CASE exec[e].at # "assignee"
  <2>1. exec'[e].at \in {"idle", "load"} \/ GoesOn(e)
    BY <1>2, ProgressOnward, OnwardStage
  <2> QED BY <2>1, OthersWait DEF GoesOn, Follows, SnapshotStages, Jobs
<1> QED BY <1>1, <1>2

\* The job reads the row: it has the present assignment.
LEMMA LoadSettles ==
  ASSUME Safe, Typed', NEW e \in Executors, LoadBounty(e)
  PROVE  Settles' /\ UNCHANGED payouts
<1>1. /\ UNCHANGED <<row, chain, pushed, payouts>>
      /\ exec'[e].row = row /\ \A x \in Executors \ {e} : exec'[x] = exec[x]
  <2>1. exec[e] \in Frame
    BY FrameTyped DEF Safe
  <2>2. /\ exec'[e] = [exec[e] EXCEPT !.at = "assignee", !.row = row]
        /\ \A x \in Executors \ {e} : exec'[x] = exec[x]
    BY BecomeFrame DEF LoadBounty, Safe
  <2>3. exec'[e].row = row
    BY <2>1, <2>2 DEF Frame
  <2> QED BY <2>2, <2>3 DEF LoadBounty, bountyVars
<1>2. row.epoch \in Nat
  BY RowTyped DEF Safe
<1>3. \A x \in Executors \ {e} : Current(x)' /\ Unpaid(x)'
  BY <1>1 DEF Safe, Settles, Current, Unpaid, Paid, Spent
<1>4. Current(e)' /\ Unpaid(e)'
  BY <1>1, <1>2 DEF Safe, Settles, Current, Unpaid, Ledger, Paid, Spent
<1>5. PaidOncePerAssignment' /\ Ledger'
  BY <1>1 DEF Safe, Settles, Ledger, PaidOncePerAssignment, Paid, Spent
<1>6. ASSUME NEW x \in Executors, NEW y \in Executors PROVE Agree(x, y)'
  <2>1. \A z \in Executors : Current(z)
    BY DEF Safe, Settles
  <2>2. Agree(x, y)
    BY DEF Safe, Settles
  <2>3. CASE x # e /\ y # e
    BY <1>1, <2>2, <2>3 DEF Agree
  <2>4. CASE x = e /\ y # e
    BY <1>1, <2>1, <2>4 DEF Agree, Current
  <2>5. CASE x # e /\ y = e
    BY <1>1, <2>1, <2>5 DEF Agree, Current
  <2> QED BY <2>3, <2>4, <2>5 DEF Agree
<1> QED BY <1>1, <1>3, <1>4, <1>5, <1>6 DEF Settles

\* The row gets the index of the milestone a push wrote: it had the same one, or none,
\* and then nobody was paid for its assignment and no other snapshot has an index.
LEMMA SaveSettles ==
  ASSUME Safe, Typed', NEW e \in Executors, SaveMilestone(e)
  PROVE  Settles' /\ UNCHANGED payouts
<1> DEFINE f == exec[e]
<1>0. /\ UNCHANGED <<chain, pushed, payouts>> /\ f.at = "save" /\ Progress(e)
      /\ row' = [row EXCEPT !.status = "assigned", !.index = f.slot]
  BY DEF SaveMilestone, Progress
<1>1. row'.epoch = row.epoch /\ row'.index = f.slot /\ row.epoch \in Nat
  BY <1>0, RowTyped DEF Safe, Row
<1>2. f.job = "push" /\ (f.row.index # 0 => f.slot = f.row.index)
  BY <1>0 DEF Safe, Serial, Ordered, PushStages
<1>3. /\ f.at \in SnapshotStages /\ f.row.epoch \in Nat
      /\ f.row.epoch <= row.epoch
      /\ f.row.epoch = row.epoch => f.row.index = row.index
      /\ f.row.epoch < row.epoch => row.index = 0
  <2>1. f.at \in SnapshotStages
    BY <1>0 DEF SnapshotStages, ExecStages
  <2> QED BY <1>2, <2>1, FrameTyped DEF Safe, Settles, Current
<1>f. \A x \in Executors : Follows(x)
  BY <1>0, OnwardFollows DEF Safe
<1>4. CASE row.index # 0
  <2>1. row'.index = row.index
    BY <1>1, <1>2, <1>3, <1>4
  <2> QED BY <1>0, <1>1, <1>f, <2>1, Unchanging, BesideSettles DEF Safe
<1>5. CASE row.index = 0
  <2>1. ~Paid(row.epoch)
    BY <1>5 DEF Safe, Settles, Ledger, Spent
  <2>2. PaidOncePerAssignment' /\ Ledger'
    BY <1>0, <1>1, <2>1 DEF Safe, Settles, Ledger, PaidOncePerAssignment, Paid
  <2>3. \A x \in Executors : exec'[x].at \in SnapshotStages => ~(exec'[x].job = "push")
    <3>1. ~Pushing(e)' \/ exec'[e].at = "handoff"
      BY <1>0, GotoFrame DEF SaveMilestone, Safe
    <3>2. Pushing(e)
      BY <1>0, <1>2 DEF Pushing
    <3>3. \A x \in Executors \ {e} : ~Pushing(x) /\ exec'[x] = exec[x]
      BY <1>0, <3>2, OthersWait DEF Safe, Serial, Jobs
    <3> QED BY <3>1, <3>3 DEF Pushing, SnapshotStages, ExecStages
  <2>4. ASSUME NEW x \in Executors PROVE Current(x)' /\ Unpaid(x)'
    <3> SUFFICES ASSUME exec'[x].at \in SnapshotStages PROVE Current(x)' /\ Unpaid(x)'
      BY DEF Current, Unpaid
    <3>1. exec'[x].row = exec[x].row /\ exec[x].at \in SnapshotStages
      BY <1>f DEF Follows
    <3>2. Current(x) /\ Unpaid(x) /\ exec[x].row.index \in 0..pushed
      BY FrameTyped DEF Safe, Settles
    <3>3. Unpaid(x)'
      BY <1>0, <3>1, <3>2 DEF Unpaid, Paid, Spent
    <3>4. Current(x)'
      BY <1>1, <1>5, <2>3, <3>1, <3>2 DEF Current
    <3> QED BY <3>3, <3>4
  <2>5. \A x, y \in Executors : Agree(x, y)'
    BY <1>f DEF Safe, Settles, Agree, Follows
  <2> QED BY <1>0, <2>2, <2>4, <2>5 DEF Settles
<1> QED BY <1>4, <1>5

\* A new receipt, for a merged author and an assignment without one.
PaysNow ==
  /\ UNCHANGED merged
  /\ \E r \in Receipt : /\ payouts' = Append(payouts, r)
                        /\ ~Paid(r.epoch)
                        /\ r.for \in merged

\* Settling a milestone that is not, whether for a contributor or not.
LEMMA PayoutSettles ==
  ASSUME Safe, Typed', NEW e \in Executors, exec[e].at \in {"pay", "resolve"}, Progress(e),
         NEW m, SetMilestone(Slot(e), m), m.outcome # "none", Held(e).outcome = "none",
         NEW to \in Address, Receive(e, to), UNCHANGED <<row, pushed, merged>>
  PROVE  Settles' /\ (UNCHANGED payouts \/ PaysNow)
<1> DEFINE f == exec[e]
           r == [epoch |-> f.row.epoch, for |-> f.who, to |-> to]
<1>t. /\ f.row.epoch \in Nat /\ f.who \in Contributors /\ f.row.index \in 1..pushed
      /\ f.at \in PayingStages /\ f.at \in SnapshotStages
      /\ Slot(e) = f.row.index /\ f.row.index \in 1..MaxSlots
  <2>1. f.at \in PayingStages /\ f.at \in SnapshotStages /\ f.at \in ReleaseStages
    BY DEF ReleaseStages, PayingStages, SnapshotStages, ExecStages
  <2>2. f.row.epoch \in Nat /\ f.row.index \in 0..pushed /\ pushed \in 0..MaxSlots
    BY FrameTyped DEF Safe
  <2>3. f.who \in Contributors /\ Slot(e) \in 1..MaxSlots
    BY <2>1, HeldTyped DEF Safe, Typed, MoneyOK
  <2> QED BY <2>1, <2>2, <2>3 DEF Slot
<1>c. SpentKept /\ chain'[f.row.index].outcome # "none"
  <2>1. SpentKept
    BY <1>t, MilestoneWritten DEF Safe, Held
  <2>2. chain'[f.row.index] = m
    BY <1>t DEF SetMilestone, Safe, Typed, BountyOK
  <2> QED BY <2>1, <2>2
<1>f. \A x \in Executors : Follows(x)
  BY OnwardFollows DEF Safe
<1>1. CASE UNCHANGED payouts
  BY <1>1, <1>c, <1>f, BesideSettles DEF Beside, RowKept, Safe
<1>2. CASE payouts' = Append(payouts, r)
  <2>1. payouts \in Seq(Receipt) /\ r \in Receipt
    BY <1>t DEF Safe, Typed, BountyOK, Receipt
  <2>2. /\ DOMAIN payouts' = 1..(Len(payouts) + 1) /\ DOMAIN payouts = 1..Len(payouts)
        /\ Len(payouts) \in Nat
        /\ \A i \in DOMAIN payouts : payouts'[i] = payouts[i]
        /\ payouts'[Len(payouts) + 1] = r
    BY <1>2, <2>1
  <2>3. ~Paid(f.row.epoch)
    <3>1. ~Spent(f.row.index)
      BY <1>t DEF Spent, Held
    <3> QED BY <1>t, <3>1 DEF Safe, Settles, Unpaid
  <2>4. \A n : Paid(n)' <=> Paid(n) \/ n = f.row.epoch
    BY <2>2 DEF Paid
  <2>5. PaysNow
    BY <1>2, <1>t, <2>1, <2>3 DEF PaysNow, Safe, Checked
  <2>6. PaidOncePerAssignment'
    <3>1. \A i \in DOMAIN payouts : payouts[i].epoch # r.epoch
      BY <2>3 DEF Paid
    <3>2. \A i, j \in DOMAIN payouts : payouts[i].epoch = payouts[j].epoch => i = j
      BY DEF Safe, Settles, PaidOncePerAssignment
    <3> QED BY <2>2, <3>1, <3>2 DEF PaidOncePerAssignment
  <2>7. Ledger'
    <3>0. row.index \in 0..pushed /\ pushed \in Nat /\ Current(e)
      BY RowTyped DEF Safe, Settles, Typed, BountyOK
    <3>1. \A i \in DOMAIN payouts' : payouts'[i].epoch <= row.epoch
      BY <1>t, <2>2, <3>0 DEF Safe, Settles, Ledger, Current
    <3>2. CASE f.row.epoch = row.epoch
      <4>1. f.row.index = row.index
        BY <1>t, <3>0, <3>2 DEF Current
      <4>2. Spent(row.index)'
        BY <1>c, <1>t, <3>0, <4>1 DEF Spent
      <4> QED BY <3>1, <4>2 DEF Ledger
    <3>3. CASE f.row.epoch # row.epoch
      <4>1. Paid(row.epoch)' => Paid(row.epoch)
        BY <2>4, <3>3 DEF Paid
      <4>2. Spent(row.index) => Spent(row.index)'
        BY <1>c, <3>0 DEF Spent, SpentKept
      <4> QED BY <3>1, <4>1, <4>2 DEF Safe, Settles, Ledger
    <3> QED BY <3>2, <3>3
  <2>8. ASSUME NEW x \in Executors PROVE Current(x)' /\ Unpaid(x)'
    <3> SUFFICES ASSUME exec'[x].at \in SnapshotStages PROVE Current(x)' /\ Unpaid(x)'
      BY DEF Current, Unpaid
    <3>1. exec'[x].row = exec[x].row /\ exec'[x].job = exec[x].job
          /\ exec[x].at \in SnapshotStages /\ exec[x].row.index \in 0..pushed
      BY <1>f, FrameTyped DEF Follows, Safe
    <3>2. Current(x) /\ Unpaid(x) /\ Agree(x, e)
      BY DEF Safe, Settles
    <3>3. Current(x)'
      BY <3>1, <3>2 DEF Current
    <3>4. Unpaid(x)'
      <4> SUFFICES ASSUME exec[x].row.index # 0, NEW n, n = exec[x].row.epoch, Paid(n)'
                   PROVE  chain'[exec[x].row.index].outcome # "none"
        BY <3>1 DEF Unpaid, Paid, Spent
      <4>1. CASE n = f.row.epoch
        <5>1. exec[x].row.index = f.row.index
          BY <1>t, <3>1, <3>2, <4>1 DEF Agree
        <5> QED BY <1>c, <5>1
      <4>2. CASE n # f.row.epoch
        <5>1. Paid(exec[x].row.epoch)
          BY <2>4, <4>2 DEF Paid
        <5>2. Spent(exec[x].row.index)
          BY <3>1, <3>2, <5>1 DEF Unpaid
        <5> QED BY <1>c, <3>1, <5>2 DEF Spent, SpentKept
      <4> QED BY <4>1, <4>2
    <3> QED BY <3>3, <3>4
  <2>9. \A x, y \in Executors : Agree(x, y)'
    BY <1>f DEF Safe, Settles, Agree, Follows
  <2> QED BY <2>5, <2>6, <2>7, <2>8, <2>9 DEF Settles
<1> QED BY <1>1, <1>2 DEF Receive

\* The two transfers: to the receiver the contract holds, or to the one the job holds.
LEMMA TransferSettles ==
  ASSUME Safe, Typed', NEW e \in Executors, ReleaseFunds(e) \/ ResolveForSplit(e)
  PROVE  Settles' /\ ((UNCHANGED <<payouts, merged>>) \/ PaysNow)
<1> DEFINE f == exec[e]
           m == Held(e)
<1>0. /\ f.at \in {"pay", "resolve"} /\ f.at \in ReleaseStages /\ Progress(e)
      /\ UNCHANGED <<row, pushed, merged>>
  BY DEF ReleaseFunds, ResolveForSplit, ReleaseStages, Progress, worldVars
<1>t. m \in Milestone /\ f.addr \in Address /\ m.to \in Address
  BY <1>0, HeldTyped, FrameTyped DEF Safe, Typed, MoneyOK, Milestone
<1>1. CASE UNCHANGED <<chain, payouts>>
  <2>1. \A x \in Executors : Follows(x)
    BY <1>0, OnwardFollows DEF Safe
  <2> QED BY <1>0, <1>1, <2>1, BesideSettles, Unchanging DEF Safe
<1>2. CASE /\ m.outcome = "none" /\ Receive(e, m.to)
           /\ SetMilestone(Slot(e), [m EXCEPT !.outcome = "released"])
  <2> DEFINE n == [m EXCEPT !.outcome = "released"]
  <2>1. n.outcome # "none"
    BY <1>t DEF Milestone
  <2> HIDE DEF n
  <2> QED BY <1>0, <1>t, <1>2, <2>1, PayoutSettles DEF n
<1>3. CASE /\ m.outcome = "none" /\ Receive(e, f.addr)
           /\ SetMilestone(Slot(e), [m EXCEPT !.outcome = "split", !.disputed = FALSE])
  <2> DEFINE n == [m EXCEPT !.outcome = "split", !.disputed = FALSE]
  <2>1. n.outcome # "none"
    BY <1>t DEF Milestone
  <2> HIDE DEF n
  <2> QED BY <1>0, <1>t, <1>3, <2>1, PayoutSettles DEF n
<1> QED BY <1>1, <1>2, <1>3 DEF ReleaseFunds, ResolveForSplit

\* The other steps of a money job pay nobody and make nothing payable again: with a
\* durable chain, a push writes a new milestone or one that is not settled.
LEMMA ProgressKeeps ==
  ASSUME Safe, ~RewriteSettled, NEW e \in Executors, Progress(e),
         ~LoadBounty(e), ~SaveMilestone(e), ~ReleaseFunds(e), ~ResolveForSplit(e)
  PROVE  Beside
<1> DEFINE f == exec[e]
<1>1. CASE \/ LoadAssignee(e) \/ CheckLiveAssignee(e) \/ Evaluate(e) \/ ConfirmLiveMerge(e)
           \/ FetchEscrow(e) \/ Handoff(e) \/ RequireReleasable(e) \/ RequireWallets(e)
  <2>1. UNCHANGED bountyVars
    BY <1>1 DEF LoadAssignee, CheckLiveAssignee, Evaluate, ConfirmLiveMerge,
                FetchEscrow, Handoff, RequireReleasable, RequireWallets
  <2> QED BY <2>1, Unchanging DEF bountyVars
<1>2. CASE RecordPayout(e) \/ MarkPaid(e)
  <2>1. row' = [row EXCEPT !.status = "paid"] /\ UNCHANGED <<chain, payouts>>
    BY <1>2 DEF RecordPayout, MarkPaid
  <2> QED BY <2>1, RowTyped, Unchanging DEF Safe, Row
<1>3. CASE \/ CompleteMilestone(e) \/ ApproveMilestone(e) \/ DisputeForSplit(e)
           \/ LabelSettled(e)
  <2>1. Slot(e) \in 1..MaxSlots /\ Held(e) \in Milestone
    BY <1>3, HeldTyped
    DEF Safe, Typed, MoneyOK, ReleaseStages, CompleteMilestone, ApproveMilestone,
        DisputeForSplit, LabelSettled
  <2>2. /\ UNCHANGED <<row, payouts>>
        /\ \/ UNCHANGED chain
           \/ SetMilestone(Slot(e), [Held(e) EXCEPT !.done = TRUE])
           \/ SetMilestone(Slot(e), [Held(e) EXCEPT !.done = FALSE])
           \/ SetMilestone(Slot(e), [Held(e) EXCEPT !.approved = TRUE])
           \/ SetMilestone(Slot(e), [Held(e) EXCEPT !.disputed = TRUE])
    BY <1>3 DEF CompleteMilestone, ApproveMilestone, DisputeForSplit, LabelSettled
  <2>3. CASE UNCHANGED chain
    BY <2>2, <2>3, Unchanging
  <2>4. CASE ~UNCHANGED chain
    <3>1. SpentKept
      BY <2>1, <2>2, <2>4, MilestoneWritten DEF Milestone, Held, Safe
    <3> QED BY <2>2, <3>1 DEF Beside, RowKept
  <2> QED BY <2>3, <2>4
<1>4. CASE UpdateEscrow(e)
  <2>1. UNCHANGED <<row, payouts>>
    BY <1>4 DEF UpdateEscrow
  <2>2. SpentKept
    <3>1. CASE UNCHANGED chain
      BY <3>1 DEF SpentKept
    <3>2. CASE /\ f.slot > pushed \/ Rewritable(chain[f.slot])
               /\ SetMilestone(f.slot, FreshMilestone(f.addr, f.row.reward))
      <4> SUFFICES ASSUME NEW s \in 1..pushed, chain[s].outcome # "none"
                   PROVE  chain'[s].outcome # "none"
        BY DEF SpentKept
      <4>1. s \in 1..MaxSlots /\ s # f.slot
        <5>1. pushed \in 0..MaxSlots /\ MaxSlots \in Nat
          BY FrameTyped DEF Safe
        <5>2. ~(s > pushed) /\ s \in 1..MaxSlots
          BY <5>1
        <5>3. ~Rewritable(chain[s])
          BY DEF Rewritable
        <5> QED BY <3>2, <5>2, <5>3
      <4>2. chain'[s] = chain[s]
        BY <3>2, <4>1 DEF SetMilestone, Safe, Typed, BountyOK
      <4> QED BY <4>2
    <3> QED BY <1>4, <3>1, <3>2 DEF UpdateEscrow
  <2> QED BY <2>1, <2>2 DEF Beside, RowKept
<1> QED BY <1>1, <1>2, <1>3, <1>4 DEF Progress

\* Nobody is paid by this step, and nobody's merge is undone.
PaysNobody == UNCHANGED payouts /\ merged \subseteq merged'

\* Safe is inductive, and a step that pays keeps the promise.
LEMMA StepSafe ==
  ASSUME ~RewriteSettled, Safe, [Next]_vars
  PROVE  Safe' /\ (PaysNobody \/ PaysNow)
<1>t. Typed /\ Typed' /\ Serial' /\ \A e \in Executors : Checked(e)'
  BY StepTyped, SerialStep, CheckedStep DEF Safe
<1> SUFFICES Settles' /\ (PaysNobody \/ PaysNow)
  BY <1>t DEF Safe
<1>b. ASSUME Beside, \A e \in Executors : Follows(e) PROVE Settles' /\ UNCHANGED payouts
  BY <1>t, <1>b, BesideSettles DEF Safe, Beside
<1>1. CASE \/ World \/ Reconcile \/ (\E j \in Jobs : Recover(j)) \/ UNCHANGED vars
           \/ \E t \in Tasks : \/ TaskProgress(t) \/ TaskFault(t)
                               \/ \E d \in inbox : Receiving(t, d)
  BY <1>t, <1>b, <1>1, OthersKeep, OthersBeside DEF PaysNobody
<1>2. ASSUME NEW e \in Executors, NEW j \in Jobs,
             Take(e, j) \/ AdvanceInline(e) \/ JobFault(e)
      PROVE  Settles' /\ (PaysNobody \/ PaysNow)
  <2>1. Beside /\ \A x \in Executors : Follows(x)
    BY <1>t, <1>2, StartKeeps
  <2>2. UNCHANGED merged
    BY <1>2 DEF Take, AdvanceInline, JobFault, worldVars
  <2> QED BY <1>b, <2>1, <2>2 DEF PaysNobody
<1>3. ASSUME NEW e \in Executors, Progress(e)
      PROVE  Settles' /\ (PaysNobody \/ PaysNow)
  <2>1. UNCHANGED merged
    BY <1>3, ProgressFrame
  <2>2. CASE LoadBounty(e)
    BY <1>t, <2>1, <2>2, LoadSettles DEF PaysNobody
  <2>3. CASE SaveMilestone(e)
    BY <1>t, <2>1, <2>3, SaveSettles DEF PaysNobody
  <2>4. CASE ReleaseFunds(e) \/ ResolveForSplit(e)
    BY <1>t, <2>1, <2>4, TransferSettles DEF PaysNobody
  <2>5. CASE ~LoadBounty(e) /\ ~SaveMilestone(e) /\ ~ReleaseFunds(e) /\ ~ResolveForSplit(e)
    <3>1. Beside
      BY <1>3, <2>5, ProgressKeeps
    <3>2. exec[e].at # "load"
      BY <1>3, <2>5
      DEF Progress, LoadAssignee, CheckLiveAssignee, Evaluate, ConfirmLiveMerge,
          FetchEscrow, UpdateEscrow, Handoff, RequireReleasable, CompleteMilestone,
          ApproveMilestone, RequireWallets, DisputeForSplit, LabelSettled, RecordPayout,
          MarkPaid
    <3>3. \A x \in Executors : Follows(x)
      BY <1>t, <1>3, <3>2, OnwardFollows
    <3> QED BY <1>b, <2>1, <3>1, <3>3 DEF PaysNobody
  <2> QED BY <2>2, <2>3, <2>4, <2>5
<1>4. "advance" \in Jobs
  BY DEF Jobs
<1> QED BY <1>1, <1>2, <1>3, <1>4 DEF Next

\* Safe holds in every reachable state.
LEMMA AlwaysSafe == ASSUME Durable PROVE Spec => []Safe
<1>1. Safe /\ [Next]_vars => Safe'
  BY StepSafe DEF Durable
<1>2. Init => Safe
  BY InitSafe DEF Durable
<1> QED BY <1>1, <1>2, PTL DEF Spec

\* However many instances run the jobs, and however often a job crashes after the
\* transfer and runs again, is retried, recovered or reconciled, one assignment is paid
\* once.
THEOREM AssignmentPaidOnce == ASSUME Durable PROVE Spec => []PaidOncePerAssignment
<1>1. Safe => PaidOncePerAssignment
  BY DEF Safe, Settles
<1> QED BY <1>1, AlwaysSafe, PTL

\* What PayoutPromise sees of the payments.
Seen == [i \in DOMAIN payouts |-> [epoch |-> payouts[i].epoch, for |-> payouts[i].for]]

\* A step that pays is a payment of PayoutPromise.
LEMMA PayMaps == ASSUME Typed, PaysNow PROVE Promise!Pay
<1>1. PICK r \in Receipt : payouts' = Append(payouts, r) /\ ~Paid(r.epoch) /\ r.for \in merged
  BY DEF PaysNow
<1>2. payouts \in Seq(Receipt)
  BY DEF Typed, BountyOK
<1> DEFINE n == Len(payouts)
           q == [epoch |-> r.epoch, for |-> r.for]
<1>3. /\ DOMAIN payouts = 1..n /\ DOMAIN payouts' = 1..(n + 1) /\ n \in Nat
      /\ \A i \in 1..n : payouts'[i] = payouts[i]
      /\ payouts'[n + 1] = r
  BY <1>1, <1>2
<1>4. /\ Seen \in Seq([epoch : Nat, for : Contributors]) /\ Len(Seen) = n
      /\ Seen' = [i \in 1..(n + 1) |-> [epoch |-> payouts'[i].epoch, for |-> payouts'[i].for]]
  <2>1. \A i \in 1..n : payouts[i] \in Receipt
    BY <1>2, <1>3
  <2>2. \A i \in 1..n : [epoch |-> payouts[i].epoch, for |-> payouts[i].for]
                          \in [epoch : Nat, for : Contributors]
    BY <2>1 DEF Receipt
  <2> QED BY <1>3, <2>2 DEF Seen
<1>5. Seen' = Append(Seen, q) /\ Len(Seen') = n + 1 /\ Seen'[n + 1] = q
  BY <1>3, <1>4 DEF Seen
<1>6. q \in [epoch : Nat, for : merged]
  BY <1>1 DEF Receipt
<1>7. \A i \in DOMAIN Seen : Seen[i].epoch # q.epoch
  BY <1>1, <1>3 DEF Seen, Paid
<1> QED BY <1>5, <1>6, <1>7 DEF Promise!Pay, Seen, PaysNow

\* Settlement implements PayoutPromise, however many instances run the jobs: every step
\* is a merge, a payment of a new assignment for a merged author, or nothing to it.
THEOREM PromiseKept == ASSUME Durable PROVE Spec => KeepsPromise
<1>1. Init => Promise!Init
  BY DEF Init, Promise!Init
<1>2. Safe /\ [Next]_vars => [Promise!Next]_(Promise!promiseVars)
  <2> SUFFICES ASSUME Safe, [Next]_vars
               PROVE  Promise!Next \/ UNCHANGED Promise!promiseVars
    OBVIOUS
  <2>1. PaysNobody \/ PaysNow
    BY StepSafe DEF Durable
  <2>2. CASE PaysNobody
    <3>1. merged' \subseteq Contributors
      BY StepSafe DEF Durable, Safe, Typed, WorldOK
    <3> QED BY <2>2, <3>1 DEF PaysNobody, Promise!Next, Promise!Merge
  <2>3. CASE PaysNow
    BY <2>3, PayMaps DEF Safe, Promise!Next
  <2> QED BY <2>1, <2>2, <2>3
<1> QED BY <1>1, <1>2, AlwaysSafe, PTL DEF Spec, KeepsPromise, Promise!Spec

------------------------------------------------------------------------------
(* The receiver.  The contract pays the wallet it holds, and the job does   *)
(* not look again; so this needs that no other job moves it meanwhile.      *)

\* From the merge check on, the receiver on chain is the wallet the job compared it
\* with, or nobody; that wallet is the contributor's.
Payee(e) ==
  LET f == exec[e]
  IN  /\ f.at \in PayeeStages /\ f.who # None =>
           f.addr[1] = f.who /\ f.addr[2] <= wallet[f.who]
      /\ f.at \in ReleaseStages =>
           f.addr[2] # 0 /\ chain[f.row.index].to \in {f.addr, PlatformAccount}

\* The invariant of this part.
Addressees ==
  /\ Typed /\ PaysOnlyMergedAuthor
  /\ \A e \in Executors : Checked(e) /\ Payee(e)

LEMMA InitAddressees == Init => Addressees
<1> SUFFICES ASSUME Init PROVE Addressees
  OBVIOUS
<1>1. DOMAIN payouts = {}
  BY DEF Init
<1>2. \A e \in Executors : Payee(e)
  BY InitIdle DEF Payee, PayeeStages, ReleaseStages
<1> QED BY <1>1, <1>2, InitTyped, InitChecked DEF Addressees, PaysOnlyMergedAuthor

\* Wallets are only replaced by later ones, and merges stay.
WorldGrows == merged \subseteq merged' /\ \A c \in Contributors : wallet[c] <= wallet'[c]

\* A step leaves the receivers of the milestones under release, or removes them.
ReceiversKept ==
  \A e \in Executors :
    exec[e].at \in ReleaseStages =>
      chain'[exec[e].row.index].to \in {chain[exec[e].row.index].to, PlatformAccount}

LEMMA WorldStep ==
  ASSUME Typed, [Next]_vars
  PROVE  WorldGrows
<1>0. /\ wallet \in [Contributors -> 0..MaxWallets]
      /\ \A c \in Contributors : wallet[c] \in Nat
  BY BoundsAssumption DEF Typed, WorldOK
<1>1. CASE UNCHANGED wallet /\ merged \subseteq merged'
  BY <1>0, <1>1 DEF WorldGrows
<1>2. ASSUME NEW e \in Executors, NEW j \in Jobs,
             Progress(e) \/ Take(e, j) \/ AdvanceInline(e) \/ JobFault(e)
      PROVE  UNCHANGED wallet /\ merged \subseteq merged'
  BY <1>2, ProgressFrame DEF Take, AdvanceInline, JobFault, worldVars
<1>3. ASSUME NEW t \in Tasks, \/ TaskProgress(t) \/ TaskFault(t)
                              \/ \E d \in inbox : Receiving(t, d)
      PROVE  UNCHANGED wallet /\ merged \subseteq merged'
  BY <1>3, TaskFrameConditions DEF TaskFault, Receiving, worldVars
<1>4. ASSUME World \/ Reconcile \/ (\E j \in Jobs : Recover(j)) \/ UNCHANGED vars
      PROVE  WorldGrows
  <2>1. /\ \/ UNCHANGED wallet
           \/ \E c \in Contributors : wallet' = [wallet EXCEPT ![c] = @ + 1]
        /\ merged \subseteq merged'
    BY <1>4 DEF World, Reconcile, Recover, GitHubAssign, GitHubUnassign, vars,
           GitHubMerge, ConnectWallet, GitHubClose, ConnectMaintainerWallet, RetryBounty,
           MaintainerCommand, ChangeReward, worldVars
  <2> QED BY <1>0, <2>1 DEF WorldGrows
<1>5. "advance" \in Jobs
  BY DEF Jobs
<1> QED BY <1>1, <1>2, <1>3, <1>4, <1>5 DEF Next

\* A job that waits or goes on while receivers are kept still has its payee.
LEMMA PayeeKept ==
  ASSUME Typed, Typed', WorldGrows, ReceiversKept, NEW e \in Executors, Payee(e),
         \/ exec'[e].at \in {"idle", "load"}
         \/ /\ exec'[e].row = exec[e].row /\ exec'[e].who = exec[e].who
            /\ exec'[e].addr = exec[e].addr
            /\ exec'[e].at \in PayeeStages => exec[e].at \in PayeeStages
            /\ exec'[e].at \in ReleaseStages => exec[e].at \in ReleaseStages
  PROVE  Payee(e)'
<1> DEFINE f == exec[e]
           g == exec'[e]
<1>1. CASE g.at \in {"idle", "load"}
  BY <1>1 DEF Payee, PayeeStages, ReleaseStages
<1>2. CASE g.at \notin {"idle", "load"}
  <2>1. ASSUME g.at \in PayeeStages, f.who # None
        PROVE  f.addr[1] = f.who /\ f.addr[2] <= wallet'[f.who]
    <3>1. f.addr[1] = f.who /\ f.addr[2] <= wallet[f.who]
      BY <1>2, <2>1 DEF Payee
    <3>2. f.who \in Contributors /\ f.addr[2] \in 0..MaxWallets
      BY <2>1, FrameTyped DEF Address
    <3>3. wallet[f.who] \in Nat /\ wallet'[f.who] \in Nat /\ wallet[f.who] <= wallet'[f.who]
      BY <3>2, BoundsAssumption DEF Typed, WorldOK, WorldGrows
    <3> QED BY <3>1, <3>2, <3>3, BoundsAssumption
  <2>2. ASSUME g.at \in ReleaseStages
        PROVE  f.addr[2] # 0 /\ chain'[f.row.index].to \in {f.addr, PlatformAccount}
    <3>1. f.at \in ReleaseStages
      BY <1>2, <2>2
    <3> QED BY <3>1 DEF Payee, ReceiversKept
  <2> QED BY <1>2, <2>1, <2>2 DEF Payee
<1> QED BY <1>1, <1>2

\* Receipts stay right when nobody is paid.
LEMMA ReceiptsKept ==
  ASSUME Typed, Typed', PaysOnlyMergedAuthor, UNCHANGED payouts, WorldGrows
  PROVE  PaysOnlyMergedAuthor'
<1> SUFFICES ASSUME NEW i \in DOMAIN payouts
             PROVE  /\ payouts[i].for \in merged'
                    /\ payouts[i].to[1] = payouts[i].for
                    /\ payouts[i].to[2] \in 1..wallet'[payouts[i].for]
  BY DEF PaysOnlyMergedAuthor
<1>1. payouts[i] \in Receipt
  BY DEF Typed, BountyOK
<1>2. payouts[i].for \in Contributors
  BY <1>1 DEF Receipt
<1>3. /\ wallet[payouts[i].for] \in Nat /\ wallet'[payouts[i].for] \in Nat
      /\ wallet[payouts[i].for] <= wallet'[payouts[i].for]
  BY <1>2, BoundsAssumption DEF Typed, WorldOK, WorldGrows
<1> QED BY <1>3 DEF PaysOnlyMergedAuthor, WorldGrows

\* One milestone is written, and its receiver stays or is the platform.
LEMMA ReceiverWritten ==
  ASSUME Typed, NEW s \in 1..MaxSlots, NEW m, SetMilestone(s, m),
         m.to \in {chain[s].to, PlatformAccount}
  PROVE  ReceiversKept
<1>1. \A e \in Executors : exec[e].at \in ReleaseStages => exec[e].row.index \in 1..MaxSlots
  BY HeldTyped DEF Typed, MoneyOK, Slot
<1> QED BY <1>1 DEF Typed, BountyOK, SetMilestone, ReceiversKept

\* Users, GitHub, the scans and the handlers move no receiver but to the platform.
LEMMA OthersKeepReceivers ==
  ASSUME Typed,
         \/ World \/ Reconcile \/ (\E j \in Jobs : Recover(j)) \/ UNCHANGED vars
         \/ \E t \in Tasks : \/ TaskProgress(t) \/ TaskFault(t)
                             \/ \E d \in inbox : Receiving(t, d)
  PROVE  ReceiversKept
<1>c. (UNCHANGED chain) => ReceiversKept
  BY DEF ReceiversKept
<1>1. CASE World \/ Reconcile \/ (\E j \in Jobs : Recover(j)) \/ UNCHANGED vars
  BY <1>1, <1>c DEF World, Reconcile, Recover, GitHubAssign, GitHubUnassign, vars,
         GitHubMerge, ConnectWallet, GitHubClose, ConnectMaintainerWallet, RetryBounty,
         MaintainerCommand, ChangeReward, bountyVars
<1>2. ASSUME NEW t \in Tasks, \/ TaskProgress(t) \/ TaskFault(t)
                              \/ \E d \in inbox : Receiving(t, d)
      PROVE  ReceiversKept
  <2> DEFINE s == TaskSlot(t)
             m == chain[s]
  <2>1. \/ UNCHANGED chain
        \/ /\ task[t].at \in SlotStages
           /\ \/ SetMilestone(s, [m EXCEPT !.disputed = TRUE])
              \/ SetMilestone(s, [m EXCEPT !.done = FALSE])
              \/ SetMilestone(s, [m EXCEPT !.amount = 0, !.to = PlatformAccount])
              \/ SetMilestone(s, [m EXCEPT !.outcome = "returned", !.disputed = FALSE,
                                           !.done = FALSE])
    BY <1>2
    DEF TaskProgress, TaskFault, Receiving, CheckAssignment, AssignBounty, MarkMerged,
        EnqueueAdvance, RestoreReward, InspectMilestone, DisputeMilestone, LabelDisputed,
        LabelRejected, UnassignBounty, ResetToOpen, ZeroMilestone, CancelBounty,
        ResolveToMaintainer, CloseRejected, FailRejected, RefusePayoutAmount,
        SavePayoutAmount, bountyVars, SlotStages
  <2>2. task[t].at \in SlotStages => s \in 1..MaxSlots /\ m \in Milestone
    BY TaskSlotTyped DEF Typed, BountyOK, HandlerOK, JobsOK
  <2> QED BY <1>c, <2>1, <2>2, ReceiverWritten DEF Milestone
<1> QED BY <1>1, <1>2

\* A push moves a receiver, but not one that is under release.
LEMMA UpdateReceivers ==
  ASSUME Typed, Apart, NEW d \in Executors, UpdateEscrow(d)
  PROVE  ReceiversKept
<1>0. exec[d].at = "put"
  BY DEF UpdateEscrow
<1>1. ASSUME NEW e \in Executors, exec[e].at \in ReleaseStages
      PROVE  chain'[exec[e].row.index] = chain[exec[e].row.index]
  <2>1. exec[e].row.index \in 1..MaxSlots
    BY <1>1, HeldTyped DEF Typed, MoneyOK, Slot
  <2>2. e # d
    BY <1>0, <1>1 DEF ReleaseStages
  <2>3. exec[d].slot # exec[e].row.index
    BY <1>0, <1>1, <2>2 DEF Apart
  <2> QED BY <2>1, <2>3 DEF UpdateEscrow, SetMilestone, Typed, BountyOK
<1> QED BY <1>1 DEF ReceiversKept

\* The other steps of a money job mark milestones and move no receiver.
LEMMA ProgressReceivers ==
  ASSUME Typed, Apart, NEW e \in Executors, Progress(e)
  PROVE  ReceiversKept
<1>1. CASE UpdateEscrow(e)
  BY <1>1, UpdateReceivers
<1>2. CASE UNCHANGED chain
  BY <1>2 DEF ReceiversKept
<1>3. CASE \/ CompleteMilestone(e) \/ ApproveMilestone(e) \/ DisputeForSplit(e)
           \/ LabelSettled(e) \/ ReleaseFunds(e) \/ ResolveForSplit(e)
  <2>1. Slot(e) \in 1..MaxSlots /\ Held(e) \in Milestone
    BY <1>3, HeldTyped
    DEF Typed, MoneyOK, ReleaseStages, CompleteMilestone, ApproveMilestone,
        DisputeForSplit, LabelSettled, ReleaseFunds, ResolveForSplit
  <2>2. \/ UNCHANGED chain
        \/ SetMilestone(Slot(e), [Held(e) EXCEPT !.done = TRUE])
        \/ SetMilestone(Slot(e), [Held(e) EXCEPT !.done = FALSE])
        \/ SetMilestone(Slot(e), [Held(e) EXCEPT !.approved = TRUE])
        \/ SetMilestone(Slot(e), [Held(e) EXCEPT !.disputed = TRUE])
        \/ SetMilestone(Slot(e), [Held(e) EXCEPT !.outcome = "released"])
        \/ SetMilestone(Slot(e), [Held(e) EXCEPT !.outcome = "split", !.disputed = FALSE])
    BY <1>3 DEF CompleteMilestone, ApproveMilestone, DisputeForSplit, LabelSettled,
                ReleaseFunds, ResolveForSplit
  <2> QED BY <1>2, <2>1, <2>2, ReceiverWritten DEF Milestone, Held
<1> QED BY <1>1, <1>2, <1>3
    DEF Progress, LoadBounty, LoadAssignee, CheckLiveAssignee, Evaluate, ConfirmLiveMerge,
        FetchEscrow, SaveMilestone, Handoff, RequireReleasable, RequireWallets,
        RecordPayout, MarkPaid, bountyVars

\* After each step of a job, what it verified holds of the frame it has now.
LEMMA ProgressPayee ==
  ASSUME Addressees, Typed', Apart, WorldGrows, NEW e \in Executors, Progress(e)
  PROVE  \A x \in Executors : Payee(x)'
<1> DEFINE f == exec[e]
           g == exec'[e]
<1>0. Typed /\ ReceiversKept /\ (\A x \in Executors : Payee(x))
  BY ProgressReceivers DEF Addressees
<1>1. \A x \in Executors \ {e} : Payee(x)'
  BY <1>0, OthersWait, PayeeKept DEF Jobs
<1>2. CASE f.at \in {"load", "assignee"}
  <2>1. /\ UNCHANGED <<row, wallet>>
        /\ \/ g.at \in {"assignee", "idle"}
           \/ /\ g.at \in {"github", "evaluate"}
              /\ g.who = row.assignee /\ g.addr = WalletOf(row.assignee)
    <3>1. Finish(e) => g.at = "idle"
      BY <1>0, BecomeFrame DEF Finish, IdleFrame
    <3> QED BY <1>0, <1>2, <3>1, Loads DEF bountyVars, worldVars
  <2>2. CASE g.at \in {"assignee", "idle"}
    BY <1>1, <2>2 DEF Payee, PayeeStages, ReleaseStages
  <2>3. CASE g.at \in {"github", "evaluate"}
    <3> DEFINE c == row.assignee
    <3>1. c # None => c \in Contributors /\ wallet[c] \in Nat
      BY <1>0, RowTyped, BoundsAssumption DEF Row, Typed, WorldOK
    <3>2. c # None => WalletOf(c)[1] = c /\ WalletOf(c)[2] <= wallet[c]
      BY <3>1 DEF WalletOf
    <3>3. Payee(e)'
      BY <2>1, <2>3, <3>2 DEF Payee, ReleaseStages
    <3> QED BY <1>1, <3>3
  <2> QED BY <2>1, <2>2, <2>3
<1>3. CASE f.at \notin {"load", "assignee"}
  <2>1. g.at \in {"idle", "load"} \/ GoesOn(e)
    BY <1>0, <1>3, ProgressOnward, OnwardStage
  <2>2. CASE g.at = "merge" /\ GoesOn(e)
    <3>1. /\ f.at = "evaluate" /\ Decision(f) = "confirm-merge"
          /\ g.row = f.row /\ g.who = f.who /\ g.addr = f.addr
      BY <2>2 DEF GoesOn
    <3>2. f.addr[2] # 0 /\ chain[f.row.index].to = f.addr
      BY <3>1 DEF Decision, Addressed
    <3>3. UNCHANGED <<chain, wallet>>
      BY <3>1
      DEF Progress, LoadBounty, LoadAssignee, CheckLiveAssignee, Evaluate, ConfirmLiveMerge,
          FetchEscrow, UpdateEscrow, SaveMilestone, Handoff, RequireReleasable,
          CompleteMilestone, ApproveMilestone, ReleaseFunds, RequireWallets, DisputeForSplit,
          ResolveForSplit, LabelSettled, RecordPayout, MarkPaid, bountyVars, worldVars
    <3>4. Payee(e)'
      BY <1>0, <2>2, <3>1, <3>2, <3>3 DEF Payee, PayeeStages
    <3> QED BY <1>1, <3>4
  <2>3. CASE g.at \in {"idle", "load"}
    BY <1>0, <1>1, <2>3, PayeeKept
  <2>4. CASE g.at # "merge" /\ GoesOn(e)
    <3>1. g.at \in ReleaseStages => f.at \in ReleaseStages
      BY <2>4 DEF GoesOn, PayingStages, ReleaseStages
    <3> QED BY <1>0, <1>1, <2>4, <3>1, PayeeKept DEF GoesOn
  <2> QED BY <2>1, <2>2, <2>3, <2>4
<1> QED BY <1>2, <1>3

\* The two transfers reach a wallet of the contributor the job verified.
LEMMA TransferPayee ==
  ASSUME Addressees, Typed', NEW e \in Executors, ReleaseFunds(e) \/ ResolveForSplit(e),
         ~UNCHANGED payouts
  PROVE  PaysOnlyMergedAuthor'
<1> DEFINE f == exec[e]
<1>0. /\ f.at \in ReleaseStages /\ f.at \in PayingStages /\ f.at \in PayeeStages
      /\ UNCHANGED <<wallet, merged>>
  BY DEF ReleaseFunds, ResolveForSplit, ReleaseStages, PayingStages, PayeeStages, worldVars
<1>1. PICK to \in {Held(e).to, f.addr} : Receive(e, to)
  BY DEF ReleaseFunds, ResolveForSplit
<1> DEFINE r == [epoch |-> f.row.epoch, for |-> f.who, to |-> to]
<1>2. to[1] \in Contributors /\ payouts' = Append(payouts, r)
  BY <1>1 DEF Receive
<1>t. /\ f \in Frame /\ f.row.epoch \in Nat /\ f.who \in Contributors /\ f.who # None
      /\ f.addr \in Address /\ Held(e).to \in Address
  <2>1. f \in Frame /\ f.who \in Contributors /\ Held(e) \in Milestone
    BY <1>0, HeldTyped DEF Addressees, Typed, MoneyOK
  <2>2. f.row.epoch \in Nat /\ f.addr \in Address
    BY FrameTyped DEF Addressees
  <2> QED BY <2>1, <2>2, NoneAssumption DEF Milestone
<1>3. to = f.addr
  <2>1. Held(e).to \in {f.addr, PlatformAccount}
    BY <1>0 DEF Addressees, Payee, Held, Slot
  <2> QED BY <1>1, <1>2, <2>1, NoneAssumption DEF PlatformAccount
<1>4. /\ f.addr[1] = f.who /\ f.addr[2] <= wallet[f.who] /\ f.addr[2] # 0 /\ f.who \in merged
      /\ f.addr[2] \in Nat /\ wallet[f.who] \in Nat
  <2>1. f.addr[2] \in Nat /\ wallet[f.who] \in Nat
    BY <1>t, BoundsAssumption DEF Address, Addressees, Typed, WorldOK
  <2> QED BY <1>0, <1>t, <2>1 DEF Addressees, Payee, Checked
<1>5. payouts \in Seq(Receipt) /\ r \in Receipt
  BY <1>t, <1>3 DEF Addressees, Typed, BountyOK, Receipt
<1>6. /\ DOMAIN payouts' = 1..(Len(payouts) + 1) /\ DOMAIN payouts = 1..Len(payouts)
      /\ Len(payouts) \in Nat
      /\ \A i \in DOMAIN payouts : payouts'[i] = payouts[i]
      /\ payouts'[Len(payouts) + 1] = r
  BY <1>2, <1>5
<1>7. r.for \in merged /\ r.to[1] = r.for /\ r.to[2] \in 1..wallet[r.for]
  BY <1>3, <1>4
<1>8. \A i \in DOMAIN payouts :
        /\ payouts[i].for \in merged
        /\ payouts[i].to[1] = payouts[i].for
        /\ payouts[i].to[2] \in 1..wallet[payouts[i].for]
  BY DEF Addressees, PaysOnlyMergedAuthor
<1>9. \A i \in DOMAIN payouts' : i \in DOMAIN payouts \/ payouts'[i] = r
  BY <1>6
<1> QED BY <1>0, <1>6, <1>7, <1>8, <1>9 DEF PaysOnlyMergedAuthor

\* The invariant is inductive while jobs stay apart.
LEMMA StepAddressees ==
  ASSUME Addressees, Apart, [Next]_vars
  PROVE  Addressees'
<1>t. /\ Typed /\ Typed' /\ WorldGrows /\ (\A e \in Executors : Checked(e)')
      /\ \A e \in Executors : Payee(e)
  BY StepTyped, CheckedStep, WorldStep DEF Addressees
<1>k. ASSUME UNCHANGED payouts, \A e \in Executors : Payee(e)' PROVE Addressees'
  BY <1>t, <1>k, ReceiptsKept DEF Addressees
<1>1. CASE \/ World \/ Reconcile \/ (\E j \in Jobs : Recover(j)) \/ UNCHANGED vars
           \/ \E t \in Tasks : \/ TaskProgress(t) \/ TaskFault(t)
                               \/ \E d \in inbox : Receiving(t, d)
  <2>1. ReceiversKept /\ UNCHANGED <<exec, payouts>>
    BY <1>t, <1>1, OthersKeepReceivers, OthersBeside
  <2> QED BY <1>t, <1>k, <2>1, PayeeKept
<1>2. ASSUME NEW e \in Executors, NEW j \in Jobs,
             Take(e, j) \/ AdvanceInline(e) \/ JobFault(e)
      PROVE  Addressees'
  <2>1. UNCHANGED <<chain, payouts>>
    BY <1>2 DEF Take, AdvanceInline, JobFault, bountyVars
  <2>2. ReceiversKept
    BY <2>1 DEF ReceiversKept
  <2>3. \A x \in Executors : exec'[x] = exec[x] \/ exec'[x].at \in {"idle", "load"}
    BY <1>t, <1>2, Starts, OthersWait
  <2> QED BY <1>t, <1>k, <2>1, <2>2, <2>3, PayeeKept
<1>3. ASSUME NEW e \in Executors, Progress(e) PROVE Addressees'
  <2>1. \A x \in Executors : Payee(x)'
    BY <1>t, <1>3, ProgressPayee
  <2>2. CASE UNCHANGED payouts
    BY <1>k, <2>1, <2>2
  <2>3. CASE ~UNCHANGED payouts
    <3>1. ReleaseFunds(e) \/ ResolveForSplit(e)
      BY <1>3, <2>3
      DEF Progress, LoadBounty, LoadAssignee, CheckLiveAssignee, Evaluate, ConfirmLiveMerge,
          FetchEscrow, UpdateEscrow, SaveMilestone, Handoff, RequireReleasable,
          CompleteMilestone, ApproveMilestone, RequireWallets, DisputeForSplit,
          LabelSettled, RecordPayout, MarkPaid, bountyVars
    <3> QED BY <1>t, <2>1, <2>3, <3>1, TransferPayee DEF Addressees
  <2> QED BY <2>2, <2>3
<1>4. "advance" \in Jobs
  BY DEF Jobs
<1> QED BY <1>1, <1>2, <1>3, <1>4 DEF Next

\* Whoever is paid has a merged, linked pull request, and is paid at a wallet of their
\* own, with a queue or without and whatever the handlers do meanwhile: as long as no job
\* rewrites a milestone that another is about to release.
THEOREM MergedAuthorsPaid == Spec /\ []Apart => []PaysOnlyMergedAuthor
<1>1. Addressees /\ Apart /\ [Next]_vars => Addressees'
  BY StepAddressees
<1>2. Addressees => PaysOnlyMergedAuthor
  BY DEF Addressees
<1> QED BY <1>1, <1>2, InitAddressees, PTL DEF Spec
==============================================================================
