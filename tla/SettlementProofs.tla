-------------------------- MODULE SettlementProofs ---------------------------
(***************************************************************************)
(* Type correctness of Settlement and IndexOnChain, for any number of      *)
(* contributors, executors and tasks and any bounds.                       *)
(*                                                                         *)
(* Neither is inductive alone: a job keeps a contributor and an index      *)
(* through many steps and uses them as the subscript of chain and as the   *)
(* payee of a receipt.  Typed adds what the stage says about them.         *)
(***************************************************************************)
EXTENDS Settlement, TLAPS

SlotStages == {"restore", "inspect", "dispute", "status", "strike", "zero",
               "resolve", "amount"}

\* A job that is about to release has an assignee and a milestone; one about to
\* write a milestone has its slot.  n is the number of milestones there are.
FrameShape(f, n) ==
  /\ f.row.index <= n
  /\ f.at \in ReleaseStages => f.who # None /\ f.row.index # 0
  /\ f.at = "put" => f.slot # 0
  /\ f.at = "save" => f.slot \in 1..n

TaskShape(f, n) ==
  /\ f.row.index <= n
  /\ f.at \in SlotStages => f.row.index # 0

BountyOK ==
  /\ row \in Row /\ row.index <= pushed
  /\ chain \in [1..MaxSlots -> Milestone]
  /\ pushed \in 0..MaxSlots
  /\ payouts \in Seq(Receipt)
WorldOK ==
  /\ wallet \in [Contributors -> 0..MaxWallets]
  /\ maintWallet \in BOOLEAN /\ closed \in BOOLEAN /\ enabled \in BOOLEAN
  /\ ghAssignees \subseteq Contributors /\ merged \subseteq Contributors
JobsOK == queue \subseteq Jobs /\ failed \subseteq Jobs
InboxOK == inbox \subseteq Delivery
ExecOK ==
  /\ exec \in [Executors -> Frame]
  /\ \A e \in Executors : FrameShape(exec[e], pushed)
TaskOK ==
  /\ task \in [Tasks -> TaskFrame]
  /\ \A t \in Tasks : TaskShape(task[t], pushed)
BudgetOK == events \in 0..MaxEvents /\ faults \in 0..MaxFaults

Typed == BountyOK /\ WorldOK /\ JobsOK /\ InboxOK /\ ExecOK /\ TaskOK /\ BudgetOK

\* What Typed is for: it gives the type invariant and the index invariant.
LEMMA TypedImplies == Typed => TypeOK /\ IndexOnChain
BY DEF Typed, BountyOK, WorldOK, JobsOK, InboxOK, ExecOK, TaskOK, BudgetOK, TypeOK,
       IndexOnChain, FrameShape, TaskShape

------------------------------------------------------------------------------
(* Idle frames, and updates of one entry of exec, task and chain.          *)

\* An idle worker and an idle handler hold well-typed frames.
LEMMA IdleTyped == IdleFrame \in Frame /\ IdleTask \in TaskFrame
BY NoneAssumption, BoundsAssumption
DEF IdleFrame, Frame, IdleTask, TaskFrame, NoRow, Row, Statuses, Jobs, ExecStages,
    TaskStages, OpNames, NoMilestone, FreshMilestone, Milestone, Outcomes,
    PlatformAccount, Address

\* Idle frames ask nothing of the milestone list.
LEMMA IdleShape == \A n \in Nat : FrameShape(IdleFrame, n) /\ TaskShape(IdleTask, n)
BY DEF FrameShape, TaskShape, IdleFrame, IdleTask, NoRow, ReleaseStages, SlotStages

\* The milestone list only grows, so what holds of other frames goes on holding.
LEMMA BecomeOK ==
  ASSUME ExecOK, pushed \in Nat, pushed' \in Nat, pushed <= pushed',
         NEW e \in Executors, NEW g \in Frame, FrameShape(g, pushed'), Become(e, g)
  PROVE  ExecOK'
<1>1. exec' \in [Executors -> Frame]
  BY DEF ExecOK, Become
<1>2. ASSUME NEW x \in Executors PROVE FrameShape(exec'[x], pushed')
  <2>1. CASE x = e
    BY <2>1 DEF ExecOK, Become
  <2>2. CASE x # e
    <3>1. exec'[x] = exec[x] /\ FrameShape(exec[x], pushed) /\ exec[x] \in Frame
      BY <2>2 DEF ExecOK, Become
    <3> QED BY <3>1 DEF FrameShape, Frame, Row
  <2> QED BY <2>1, <2>2
<1> QED BY <1>1, <1>2 DEF ExecOK

\* Jobs that do not move stay well shaped while the milestone list grows.
LEMMA ExecKept ==
  ASSUME ExecOK, pushed \in Nat, pushed' \in Nat, pushed <= pushed', UNCHANGED exec
  PROVE  ExecOK'
BY DEF ExecOK, FrameShape, Frame, Row

\* A job that ends, in whatever way, leaves its worker well typed.
LEMMA IdleOK ==
  ASSUME ExecOK, pushed \in Nat, UNCHANGED pushed, NEW e \in Executors,
         Become(e, IdleFrame)
  PROVE  ExecOK'
BY IdleTyped, IdleShape, BecomeOK

\* A job may go to its next stage when it has what the stage needs.
LEMMA GotoOK ==
  ASSUME ExecOK, pushed \in Nat, UNCHANGED pushed, NEW e \in Executors,
         NEW s \in ExecStages \ {"put", "save"}, Goto(e, s),
         s \in ReleaseStages => exec[e].who # None /\ exec[e].row.index # 0
  PROVE  ExecOK'
<1> DEFINE g == [exec[e] EXCEPT !.at = s]
<1>1. g \in Frame
  BY DEF ExecOK, Frame
<1>2. FrameShape(g, pushed')
  BY DEF ExecOK, FrameShape, Frame
<1>3. Become(e, g)
  BY DEF Goto
<1> QED BY <1>1, <1>2, <1>3, BecomeOK

\* A handler that takes on a well-shaped frame keeps the handlers well typed.
LEMMA TaskBecomeOK ==
  ASSUME TaskOK, NEW t \in Tasks, NEW g \in TaskFrame, TaskShape(g, pushed),
         TaskBecome(t, g), UNCHANGED pushed
  PROVE  TaskOK'
BY DEF TaskOK, TaskBecome, TaskShape

\* Handlers that do not move stay well shaped while the milestone list grows.
LEMMA TaskKept ==
  ASSUME TaskOK, pushed \in Nat, pushed' \in Nat, pushed <= pushed', UNCHANGED task
  PROVE  TaskOK'
BY DEF TaskOK, TaskShape, TaskFrame, Row

\* A handler that returns leaves its task well typed.
LEMMA TaskDoneOK ==
  ASSUME TaskOK, pushed \in Nat, NEW t \in Tasks, TaskDone(t), UNCHANGED pushed
  PROVE  TaskOK'
BY IdleTyped, IdleShape, TaskBecomeOK DEF TaskDone

\* A handler may go on to a stage that needs a milestone when its snapshot has one.
LEMMA TaskGotoOK ==
  ASSUME TaskOK, NEW t \in Tasks, NEW s \in TaskStages, TaskGoto(t, s),
         s \in SlotStages => TaskSlot(t) # 0, UNCHANGED pushed
  PROVE  TaskOK'
<1> DEFINE g == [task[t] EXCEPT !.at = s]
<1>1. g \in TaskFrame
  BY DEF TaskOK, TaskFrame
<1>2. TaskShape(g, pushed)
  BY DEF TaskOK, TaskShape, TaskFrame, TaskSlot
<1>3. TaskBecome(t, g)
  BY DEF TaskGoto
<1> QED BY <1>1, <1>2, <1>3, TaskBecomeOK

\* Writing one milestone keeps the list well typed.
LEMMA SetMilestoneOK ==
  ASSUME chain \in [1..MaxSlots -> Milestone], NEW s, NEW m \in Milestone,
         SetMilestone(s, m)
  PROVE  chain' \in [1..MaxSlots -> Milestone]
BY DEF SetMilestone

\* Marks on a milestone keep its type.
LEMMA MarkTyped ==
  ASSUME NEW m \in Milestone
  PROVE  /\ \A b \in BOOLEAN : /\ [m EXCEPT !.done = b] \in Milestone
                              /\ [m EXCEPT !.approved = b] \in Milestone
                              /\ [m EXCEPT !.disputed = b] \in Milestone
         /\ [m EXCEPT !.outcome = "released"] \in Milestone
         /\ [m EXCEPT !.outcome = "split", !.disputed = FALSE] \in Milestone
         /\ [m EXCEPT !.outcome = "returned", !.disputed = FALSE, !.done = FALSE] \in Milestone
         /\ [m EXCEPT !.amount = 0, !.to = PlatformAccount] \in Milestone
<1>1. PlatformAccount \in Address /\ 0 \in 0..FullReward
  BY BoundsAssumption DEF PlatformAccount, Address
<1>2. \A b \in BOOLEAN : /\ [m EXCEPT !.done = b] \in Milestone
                         /\ [m EXCEPT !.approved = b] \in Milestone
                         /\ [m EXCEPT !.disputed = b] \in Milestone
  BY DEF Milestone
<1>3. [m EXCEPT !.outcome = "released"] \in Milestone
  BY DEF Milestone, Outcomes
<1>4. [m EXCEPT !.outcome = "split", !.disputed = FALSE] \in Milestone
  BY DEF Milestone, Outcomes
<1>5. [m EXCEPT !.outcome = "returned", !.disputed = FALSE, !.done = FALSE] \in Milestone
  BY DEF Milestone, Outcomes
<1>6. [m EXCEPT !.amount = 0, !.to = PlatformAccount] \in Milestone
  BY <1>1 DEF Milestone
<1> QED BY <1>2, <1>3, <1>4, <1>5, <1>6

\* A job that fails and is retried keeps executors, queue and failed tasks typed.
LEMMA RetryOK ==
  ASSUME JobsOK, ExecOK, pushed \in Nat, UNCHANGED pushed, NEW e \in Executors,
         Retry(e) \/ GiveUp(e) \/ Stall(e)
  PROVE  JobsOK' /\ ExecOK'
<1>1. ExecOK'
  BY IdleOK DEF Retry, GiveUp, Stall
<1>2. JobsOK'
  BY DEF JobsOK, ExecOK, Frame, Retry, GiveUp, Stall, Record
<1> QED BY <1>1, <1>2

\* So does a job that ends well.
LEMMA FinishOK ==
  ASSUME ExecOK, failed \subseteq Jobs, pushed \in Nat, UNCHANGED pushed,
         NEW e \in Executors, Finish(e)
  PROVE  ExecOK' /\ failed' \subseteq Jobs
BY IdleOK DEF Finish

\* Asking for a job, lost or not, keeps the queue typed.
LEMMA EnqueueOK ==
  ASSUME queue \subseteq Jobs, NEW j \in Jobs, Enqueue(j)
  PROVE  queue' \subseteq Jobs
BY DEF Enqueue

\* A new or adopted bounty is well typed.
LEMMA InitTyped == Init => Typed
<1> SUFFICES ASSUME Init PROVE Typed
  OBVIOUS
<1>1. BountyOK
  <2>1. row \in Row /\ row.index = 0
    BY NoneAssumption, BoundsAssumption DEF Init, Row, Unpushed, Statuses
  <2>2. chain \in [1..MaxSlots -> Milestone]
    BY NoneAssumption, BoundsAssumption
    DEF Init, NoMilestone, Milestone, FreshMilestone, Outcomes, PlatformAccount, Address
  <2> QED BY <2>1, <2>2, BoundsAssumption DEF BountyOK, Init
<1>2. WorldOK
  BY ModesAssumption DEF Init, WorldOK
<1>3. JobsOK /\ InboxOK
  BY DEF Init, JobsOK, InboxOK, Jobs
<1>4. ExecOK /\ TaskOK
  BY IdleTyped, IdleShape DEF Init, ExecOK, TaskOK
<1>5. BudgetOK
  BY BoundsAssumption DEF Init, BudgetOK
<1> QED BY <1>1, <1>2, <1>3, <1>4, <1>5 DEF Typed

------------------------------------------------------------------------------
(* Every step of a money job keeps the types.                              *)

\* What a step of a money job leaves alone.
LEMMA ProgressFrame ==
  ASSUME NEW e \in Executors, Progress(e)
  PROVE  UNCHANGED <<wallet, maintWallet, ghAssignees, merged, closed, enabled,
                     inbox, task, events, faults>>
BY DEF Progress, worldVars, bountyVars, jobVars, LoadBounty, LoadAssignee, CheckLiveAssignee,
       Evaluate, ConfirmLiveMerge, FetchEscrow, UpdateEscrow, SaveMilestone, Handoff,
       RequireReleasable, CompleteMilestone, ApproveMilestone, ReleaseFunds,
       RequireWallets, DisputeForSplit, ResolveForSplit, LabelSettled, RecordPayout,
       MarkPaid

\* A job that starts, and a request that becomes a push.
LEMMA LoadingOK ==
  ASSUME ExecOK, pushed \in Nat, UNCHANGED pushed, NEW e \in Executors,
         NEW j \in Jobs, Become(e, Loading(j))
  PROVE  ExecOK'
<1>1. Loading(j) \in Frame
  BY IdleTyped DEF Loading, Frame, ExecStages
<1>2. FrameShape(Loading(j), pushed)
  BY IdleShape DEF Loading, FrameShape, IdleFrame, ReleaseStages
<1> QED BY <1>1, <1>2, BecomeOK

\* Whatever a job does with a decision of evaluate keeps it well typed.
LEMMA ApplyOK ==
  ASSUME JobsOK, ExecOK, pushed \in Nat, UNCHANGED pushed, NEW e \in Executors,
         NEW d, Apply(e, d),
         d = "release" => exec[e].who # None /\ exec[e].row.index # 0
  PROVE  JobsOK' /\ ExecOK'
<1> USE DEF JobsOK
<1> DEFINE job == exec[e].job
<1>j. job \in Jobs /\ {"advance", "push", "release", "inline"} \subseteq Jobs
  BY DEF ExecOK, Frame, Jobs
<1>1. CASE d = "waiting" /\ job = "advance"
  <2>1. Become(e, IdleFrame) /\ queue' = queue \cup {"advance"} /\ UNCHANGED failed
    BY <1>1 DEF Apply, Jobs, Finish
  <2> QED BY <2>1, <1>j, IdleOK
<1>2. CASE d \in {"push", "release"} /\ job = "advance"
  <2>1. Finish(e) /\ Enqueue(d)
    BY <1>2 DEF Apply
  <2> QED BY <2>1, <1>2, <1>j, FinishOK, EnqueueOK
<1>3. CASE d = "push" /\ job = "push"
  <2>1. Goto(e, "fetch") /\ UNCHANGED jobVars
    BY <1>3 DEF Apply
  <2> QED BY <2>1, GotoOK DEF ExecStages, ReleaseStages, jobVars
<1>4. CASE d = "push" /\ job = "inline"
  <2>1. Become(e, Loading("push")) /\ UNCHANGED jobVars
    BY <1>4 DEF Apply
  <2> QED BY <2>1, <1>j, LoadingOK DEF jobVars
<1>5. CASE d = "release" /\ job \in {"release", "inline"}
  <2>1. (Goto(e, "precheck") \/ Goto(e, "wallets")) /\ UNCHANGED jobVars
    BY <1>5 DEF Apply
  <2> QED BY <2>1, <1>5, GotoOK DEF ExecStages, ReleaseStages, jobVars
<1>6. CASE d = "repair" /\ job # "push"
  <2>1. Goto(e, "record") /\ UNCHANGED jobVars
    BY <1>6 DEF Apply
  <2> QED BY <2>1, GotoOK DEF ExecStages, ReleaseStages, jobVars
<1>7. CASE Finish(e) /\ UNCHANGED queue
  BY <1>7, FinishOK
<1> QED BY <1>1, <1>2, <1>3, <1>4, <1>5, <1>6, <1>7 DEF Apply

\* The connected wallet of a contributor is an address.
LEMMA WalletTyped ==
  ASSUME WorldOK, NEW c \in Contributors \cup {None}
  PROVE  WalletOf(c) \in Address
BY BoundsAssumption DEF WorldOK, WalletOf, Address, PlatformAccount

\* What an executor step must establish: the parts ProgressFrame does not give.
MoneyOK == BountyOK /\ JobsOK /\ ExecOK

\* Reading steps: the bounty is untouched.
LEMMA ReadsOK ==
  ASSUME MoneyOK, WorldOK, NEW e \in Executors,
         \/ LoadBounty(e) \/ LoadAssignee(e) \/ CheckLiveAssignee(e)
         \/ FetchEscrow(e) \/ Handoff(e) \/ RequireReleasable(e) \/ RequireWallets(e)
  PROVE  MoneyOK' /\ pushed' = pushed
<1> USE DEF MoneyOK
<1> DEFINE f == exec[e]
<1>0. f \in Frame /\ FrameShape(f, pushed) /\ pushed \in 0..MaxSlots /\ pushed \in Nat
  BY BoundsAssumption DEF ExecOK, BountyOK
<1>a. ASSUME UNCHANGED bountyVars PROVE BountyOK' /\ pushed' = pushed
  BY <1>a DEF BountyOK, bountyVars
<1>1. CASE LoadBounty(e)
  <2> DEFINE g == [f EXCEPT !.at = "assignee", !.row = row]
  <2>1. UNCHANGED bountyVars /\ UNCHANGED jobVars /\ Become(e, g)
    BY <1>1 DEF LoadBounty
  <2>2. g \in Frame
    BY <1>0 DEF Frame, ExecStages, BountyOK
  <2>3. FrameShape(g, pushed)
    BY <1>0 DEF Frame, FrameShape, BountyOK, ReleaseStages
  <2>4. ExecOK'
    BY <2>1, <2>2, <2>3, <1>0, <1>a, BecomeOK
  <2> QED BY <2>1, <2>4, <1>a DEF JobsOK, jobVars
<1>2. CASE LoadAssignee(e)
  <2>1. UNCHANGED bountyVars /\ UNCHANGED queue
    BY <1>2 DEF LoadAssignee
  <2>2. CASE Finish(e)
    BY <2>1, <2>2, <1>0, <1>a, FinishOK DEF JobsOK
  <2>3. CASE /\ Become(e, [f EXCEPT !.at = IF f.job = "push" THEN "github" ELSE "evaluate",
                                    !.who = row.assignee, !.addr = WalletOf(row.assignee)])
             /\ UNCHANGED failed
    <3> DEFINE g == [f EXCEPT !.at = IF f.job = "push" THEN "github" ELSE "evaluate",
                              !.who = row.assignee, !.addr = WalletOf(row.assignee)]
    <3>1. g \in Frame
      BY <1>0, WalletTyped DEF Frame, ExecStages, BountyOK, Row
    <3>2. FrameShape(g, pushed)
      BY <1>0 DEF Frame, FrameShape, ReleaseStages
    <3>3. ExecOK'
      BY <2>1, <2>3, <3>1, <3>2, <1>0, <1>a, BecomeOK
    <3> QED BY <2>1, <2>3, <3>3, <1>a DEF JobsOK
  <2> QED BY <1>2, <2>2, <2>3 DEF LoadAssignee
<1>3. CASE CheckLiveAssignee(e)
  <2>1. UNCHANGED bountyVars /\ UNCHANGED queue
    BY <1>3 DEF CheckLiveAssignee
  <2>2. CASE Finish(e)
    BY <2>1, <2>2, <1>0, <1>a, FinishOK DEF JobsOK
  <2>3. CASE Goto(e, "evaluate") /\ UNCHANGED failed
    <3>1. ExecOK'
      BY <2>1, <2>3, <1>0, <1>a, GotoOK DEF ExecStages, ReleaseStages
    <3> QED BY <2>1, <2>3, <3>1, <1>a DEF JobsOK
  <2> QED BY <1>3, <2>2, <2>3 DEF CheckLiveAssignee
<1>4. CASE FetchEscrow(e)
  <2>1. UNCHANGED bountyVars
    BY <1>4 DEF FetchEscrow
  <2>2. CASE Retry(e)
    BY <2>1, <2>2, <1>0, <1>a, RetryOK
  <2> DEFINE slot == IF Listed(f) THEN f.row.index ELSE pushed + 1
             g == [f EXCEPT !.at = "put", !.slot = slot]
  <2>3. CASE slot <= MaxSlots /\ Become(e, g) /\ UNCHANGED jobVars
    <3>1. slot \in 0..MaxSlots /\ slot # 0
      BY <2>3, <1>0, BoundsAssumption DEF Listed
    <3>2. ASSUME NEW n \in 0..MaxSlots, n # 0
          PROVE  /\ [f EXCEPT !.at = "put", !.slot = n] \in Frame
                 /\ FrameShape([f EXCEPT !.at = "put", !.slot = n], pushed)
      <4>1. [f EXCEPT !.at = "put", !.slot = n] \in Frame
        BY <1>0 DEF Frame, ExecStages
      <4>2. FrameShape([f EXCEPT !.at = "put", !.slot = n], pushed)
        BY <1>0, <3>2 DEF Frame, FrameShape, ReleaseStages
      <4> QED BY <4>1, <4>2
    <3>3. g \in Frame /\ FrameShape(g, pushed)
      BY <3>1, <3>2
    <3>4. ExecOK'
      BY <2>1, <2>3, <3>3, <1>0, <1>a, BecomeOK
    <3> QED BY <2>1, <2>3, <3>4, <1>a DEF JobsOK, jobVars
  <2> QED BY <1>4, <2>2, <2>3 DEF FetchEscrow
<1>5. CASE Handoff(e)
  <2>1. UNCHANGED bountyVars /\ Finish(e) /\ Enqueue("advance")
    BY <1>5 DEF Handoff
  <2> QED BY <2>1, <1>0, <1>a, FinishOK, EnqueueOK DEF JobsOK, Jobs
<1>6. CASE RequireReleasable(e)
  <2>1. UNCHANGED bountyVars
    BY <1>6 DEF RequireReleasable
  <2>2. CASE GiveUp(e)
    BY <2>1, <2>2, <1>0, <1>a, RetryOK
  <2>3. CASE (Goto(e, "record") \/ Goto(e, "complete")) /\ UNCHANGED jobVars
    <3>1. f.at \in ReleaseStages
      BY <1>6 DEF RequireReleasable, ReleaseStages
    <3>2. ExecOK'
      BY <2>1, <2>3, <3>1, <1>0, <1>a, GotoOK DEF ExecStages, ReleaseStages, FrameShape
    <3> QED BY <2>1, <2>3, <3>2, <1>a DEF JobsOK, jobVars
  <2> QED BY <1>6, <2>2, <2>3 DEF RequireReleasable
<1>7. CASE RequireWallets(e)
  <2>1. UNCHANGED bountyVars
    BY <1>7 DEF RequireWallets
  <2>2. CASE Retry(e)
    BY <2>1, <2>2, <1>0, <1>a, RetryOK
  <2>3. CASE Goto(e, "dispute") /\ UNCHANGED jobVars
    <3>1. f.at \in ReleaseStages
      BY <1>7 DEF RequireWallets, ReleaseStages
    <3>2. ExecOK'
      BY <2>1, <2>3, <3>1, <1>0, <1>a, GotoOK DEF ExecStages, ReleaseStages, FrameShape
    <3> QED BY <2>1, <2>3, <3>2, <1>a DEF JobsOK, jobVars
  <2> QED BY <1>7, <2>2, <2>3 DEF RequireWallets
<1> QED BY <1>1, <1>2, <1>3, <1>4, <1>5, <1>6, <1>7

\* Deciding steps.
LEMMA DecidesOK ==
  ASSUME MoneyOK, NEW e \in Executors, Evaluate(e) \/ ConfirmLiveMerge(e)
  PROVE  MoneyOK' /\ pushed' = pushed
<1> USE DEF MoneyOK
<1> DEFINE f == exec[e]
<1>0. /\ f \in Frame /\ FrameShape(f, pushed) /\ pushed \in 0..MaxSlots /\ pushed \in Nat
      /\ UNCHANGED bountyVars
  BY BoundsAssumption DEF ExecOK, BountyOK, Evaluate, ConfirmLiveMerge
<1>a. BountyOK' /\ pushed' = pushed
  BY <1>0 DEF BountyOK, bountyVars
<1>1. CASE Evaluate(e)
  <2> DEFINE d == Decision(f)
             g == [f EXCEPT !.at = "merge", !.amount = chain[f.row.index].amount]
  <2>1. CASE d = "confirm-merge"
    <3>1. f.who # None /\ f.row.index \in 1..pushed
      BY <2>1, <1>0 DEF Decision, Listed
    <3>2. chain[f.row.index] \in Milestone
      BY <3>1, <1>0, BoundsAssumption DEF BountyOK
    <3>3. g \in Frame
      BY <3>2, <1>0 DEF Frame, ExecStages, Milestone
    <3>4. FrameShape(g, pushed)
      BY <3>1, <1>0 DEF Frame, FrameShape
    <3>5. Become(e, g) /\ UNCHANGED jobVars
      BY <1>1, <2>1 DEF Evaluate
    <3>6. ExecOK'
      BY <3>3, <3>4, <3>5, <1>0, <1>a, BecomeOK
    <3> QED BY <3>5, <3>6, <1>a DEF JobsOK, jobVars
  <2>2. CASE d # "confirm-merge"
    <3>1. Apply(e, d)
      BY <1>1, <2>2 DEF Evaluate
    <3>2. d # "release"
      BY DEF Decision
    <3> QED BY <3>1, <3>2, <1>0, <1>a, ApplyOK
  <2> QED BY <2>1, <2>2
<1>2. CASE ConfirmLiveMerge(e)
  <2> DEFINE d == IF /\ f.who \in merged
                     /\ f.row.reward < f.amount => maintWallet
                    THEN "release" ELSE "waiting"
  <2>1. Apply(e, d)
    BY <1>2 DEF ConfirmLiveMerge
  <2>2. f.who # None /\ f.row.index # 0
    BY <1>2, <1>0 DEF ConfirmLiveMerge, FrameShape, ReleaseStages
  <2> QED BY <2>1, <2>2, <1>0, <1>a, ApplyOK
<1> QED BY <1>1, <1>2

\* A releasing job's milestone is one the escrow has.
LEMMA HeldTyped ==
  ASSUME MoneyOK, NEW e \in Executors, exec[e].at \in ReleaseStages
  PROVE  /\ exec[e] \in Frame /\ exec[e].who \in Contributors /\ pushed \in Nat
         /\ Slot(e) \in 1..MaxSlots /\ Held(e) \in Milestone
BY BoundsAssumption
DEF MoneyOK, ExecOK, BountyOK, FrameShape, Frame, Row, Slot, Held

\* Steps that write the milestone list and go on, or fail and are retried.
LEMMA MarksOK ==
  ASSUME MoneyOK, NEW e \in Executors, exec[e].at \in ReleaseStages,
         UNCHANGED <<row, pushed>>, payouts' \in Seq(Receipt),
         chain' \in [1..MaxSlots -> Milestone],
         NEW s \in ExecStages \ {"put", "save"},
         (Goto(e, s) /\ UNCHANGED jobVars) \/ Retry(e)
  PROVE  MoneyOK'
<1>1. pushed \in Nat /\ exec[e].who # None /\ exec[e].row.index # 0
  BY HeldTyped DEF MoneyOK, ExecOK, FrameShape
<1>2. BountyOK'
  BY DEF MoneyOK, BountyOK
<1>3. JobsOK' /\ ExecOK'
  BY <1>1, GotoOK, RetryOK DEF MoneyOK, JobsOK, jobVars
<1> QED BY <1>2, <1>3 DEF MoneyOK

\* A receipt of a job that verified its contributor is well typed.
LEMMA ReceiveOK ==
  ASSUME MoneyOK, NEW e \in Executors, exec[e].at \in ReleaseStages,
         NEW to \in Address, Receive(e, to)
  PROVE  payouts' \in Seq(Receipt)
<1> DEFINE r == [epoch |-> exec[e].row.epoch, for |-> exec[e].who, to |-> to]
<1>1. r \in Receipt
  BY HeldTyped DEF Receipt, Frame, Row
<1>2. payouts \in Seq(Receipt)
  BY DEF MoneyOK, BountyOK
<1> QED BY <1>1, <1>2 DEF Receive

\* The steps of release_full and release_split that touch the milestone.
LEMMA ReleasesOK ==
  ASSUME MoneyOK, NEW e \in Executors,
         \/ CompleteMilestone(e) \/ ApproveMilestone(e) \/ ReleaseFunds(e)
         \/ DisputeForSplit(e) \/ ResolveForSplit(e) \/ LabelSettled(e)
  PROVE  MoneyOK' /\ pushed' = pushed
<1>0. exec[e].at \in ReleaseStages /\ UNCHANGED <<row, pushed>>
  BY DEF ReleaseStages, CompleteMilestone, ApproveMilestone, ReleaseFunds,
         DisputeForSplit, ResolveForSplit, LabelSettled
<1>a. /\ payouts \in Seq(Receipt) /\ chain \in [1..MaxSlots -> Milestone]
      /\ Held(e) \in Milestone /\ Held(e).to \in Address /\ exec[e].addr \in Address
  BY <1>0, HeldTyped DEF MoneyOK, BountyOK, Milestone, Frame
<1>s. {"approve", "pay", "resolve", "label", "record"} \subseteq ExecStages \ {"put", "save"}
  BY DEF ExecStages
<1>1. CASE CompleteMilestone(e)
  <2>1. /\ SetMilestone(Slot(e), [Held(e) EXCEPT !.done = TRUE])
        /\ Goto(e, "approve") /\ UNCHANGED <<payouts, jobVars>>
    BY <1>1 DEF CompleteMilestone
  <2>2. chain' \in [1..MaxSlots -> Milestone]
    BY <2>1, <1>a, MarkTyped, SetMilestoneOK
  <2> QED BY <2>1, <2>2, <1>0, <1>a, <1>s, MarksOK
<1>2. CASE ApproveMilestone(e)
  <2>1. /\ UNCHANGED payouts
        /\ \/ /\ SetMilestone(Slot(e), [Held(e) EXCEPT !.approved = TRUE])
              /\ Goto(e, "pay") /\ UNCHANGED jobVars
           \/ Retry(e) /\ UNCHANGED chain
    BY <1>2 DEF ApproveMilestone
  <2>2. chain' \in [1..MaxSlots -> Milestone]
    BY <2>1, <1>a, MarkTyped, SetMilestoneOK
  <2> QED BY <2>1, <2>2, <1>0, <1>a, <1>s, MarksOK
<1>3. CASE ReleaseFunds(e)
  <2>1. \/ Goto(e, "label") /\ UNCHANGED <<chain, payouts, jobVars>>
        \/ /\ SetMilestone(Slot(e), [Held(e) EXCEPT !.outcome = "released"])
           /\ Receive(e, Held(e).to) /\ Goto(e, "label") /\ UNCHANGED jobVars
        \/ Retry(e) /\ UNCHANGED <<chain, payouts>>
    BY <1>3 DEF ReleaseFunds
  <2>2. chain' \in [1..MaxSlots -> Milestone]
    BY <2>1, <1>a, MarkTyped, SetMilestoneOK
  <2>3. payouts' \in Seq(Receipt)
    BY <2>1, <1>0, <1>a, ReceiveOK
  <2> QED BY <2>1, <2>2, <2>3, <1>0, <1>s, MarksOK
<1>4. CASE DisputeForSplit(e)
  <2>1. /\ UNCHANGED payouts
        /\ \/ /\ SetMilestone(Slot(e), [Held(e) EXCEPT !.disputed = TRUE])
              /\ Goto(e, "resolve") /\ UNCHANGED jobVars
           \/ Retry(e) /\ UNCHANGED chain
    BY <1>4 DEF DisputeForSplit
  <2>2. chain' \in [1..MaxSlots -> Milestone]
    BY <2>1, <1>a, MarkTyped, SetMilestoneOK
  <2> QED BY <2>1, <2>2, <1>0, <1>a, <1>s, MarksOK
<1>5. CASE ResolveForSplit(e)
  <2>1. \/ Goto(e, "record") /\ UNCHANGED <<chain, payouts, jobVars>>
        \/ /\ SetMilestone(Slot(e), [Held(e) EXCEPT !.outcome = "split", !.disputed = FALSE])
           /\ Receive(e, exec[e].addr) /\ Goto(e, "label") /\ UNCHANGED jobVars
        \/ Retry(e) /\ UNCHANGED <<chain, payouts>>
    BY <1>5 DEF ResolveForSplit
  <2>2. chain' \in [1..MaxSlots -> Milestone]
    BY <2>1, <1>a, MarkTyped, SetMilestoneOK
  <2>3. payouts' \in Seq(Receipt)
    BY <2>1, <1>0, <1>a, ReceiveOK
  <2> QED BY <2>1, <2>2, <2>3, <1>0, <1>s, MarksOK
<1>6. CASE LabelSettled(e)
  <2>1. /\ SetMilestone(Slot(e), [Held(e) EXCEPT !.done = FALSE])
        /\ Goto(e, "record") /\ UNCHANGED <<payouts, jobVars>>
    BY <1>6 DEF LabelSettled
  <2>2. chain' \in [1..MaxSlots -> Milestone]
    BY <2>1, <1>a, MarkTyped, SetMilestoneOK
  <2> QED BY <2>1, <2>2, <1>0, <1>a, <1>s, MarksOK
<1> QED BY <1>0, <1>1, <1>2, <1>3, <1>4, <1>5, <1>6

\* Writing the status of the row keeps its type.
LEMMA StatusTyped ==
  ASSUME NEW r \in Row, NEW st \in Statuses, NEW i \in 0..MaxSlots, NEW a \in 0..FullReward,
         NEW c \in Contributors \cup {None}
  PROVE  /\ [r EXCEPT !.status = st] \in Row
         /\ [r EXCEPT !.status = st, !.index = i] \in Row
         /\ [r EXCEPT !.assignee = c, !.status = st] \in Row
         /\ [r EXCEPT !.reward = a] \in Row
BY DEF Row

\* The steps of push_milestone, and the writes after a payout.
LEMMA UpdatesOK ==
  ASSUME MoneyOK, NEW e \in Executors,
         UpdateEscrow(e) \/ SaveMilestone(e) \/ RecordPayout(e) \/ MarkPaid(e)
  PROVE  MoneyOK' /\ pushed' \in Nat /\ pushed <= pushed'
<1> DEFINE f == exec[e]
<1>0. f \in Frame /\ FrameShape(f, pushed) /\ pushed \in 0..MaxSlots /\ pushed \in Nat
  BY BoundsAssumption DEF MoneyOK, ExecOK, BountyOK
<1>s. {"save", "handoff", "confirm"} \subseteq ExecStages /\ {"assigned", "paid"} \subseteq Statuses
  BY DEF ExecStages, Statuses
<1>1. CASE UpdateEscrow(e)
  <2> DEFINE m == FreshMilestone(f.addr, f.row.reward)
             n == IF f.slot > pushed THEN f.slot ELSE pushed
             g == [f EXCEPT !.at = "save"]
  <2>1. UNCHANGED <<row, payouts>>
    BY <1>1 DEF UpdateEscrow
  <2>2. CASE Retry(e) /\ UNCHANGED <<chain, pushed>>
    <3>1. BountyOK'
      BY <2>1, <2>2 DEF MoneyOK, BountyOK
    <3> QED BY <2>2, <3>1, <1>0, RetryOK DEF MoneyOK
  <2>3. CASE SetMilestone(f.slot, m) /\ pushed' = n /\ Goto(e, "save") /\ UNCHANGED jobVars
    <3>1. f.slot \in 1..MaxSlots /\ n \in 0..MaxSlots /\ n \in Nat /\ pushed <= n /\ f.slot <= n
      BY <1>0, <1>1, BoundsAssumption DEF UpdateEscrow, Frame, FrameShape
    <3>2. m \in Milestone
      BY <1>0 DEF FreshMilestone, Milestone, Outcomes, Frame, Row
    <3>3. chain' \in [1..MaxSlots -> Milestone]
      BY <2>3, <3>2, SetMilestoneOK DEF MoneyOK, BountyOK
    <3>4. BountyOK'
      BY <2>1, <2>3, <3>1, <3>3 DEF MoneyOK, BountyOK, Row
    <3>5. g \in Frame
      BY <1>0, <1>s DEF Frame
    <3>6. FrameShape(g, n)
      BY <1>0, <3>1 DEF Frame, FrameShape, Row, ReleaseStages
    <3>7. ExecOK'
      BY <2>3, <3>1, <3>5, <3>6, <1>0, BecomeOK DEF MoneyOK, Goto
    <3> QED BY <2>3, <3>1, <3>4, <3>7 DEF MoneyOK, JobsOK, jobVars
  <2> QED BY <1>1, <2>2, <2>3 DEF UpdateEscrow
<1>2. CASE SaveMilestone(e)
  <2>1. /\ row' = [row EXCEPT !.status = "assigned", !.index = f.slot]
        /\ UNCHANGED <<chain, pushed, payouts, jobVars>> /\ Goto(e, "handoff")
    BY <1>2 DEF SaveMilestone
  <2>2. f.slot \in 1..pushed /\ f.slot \in 0..MaxSlots
    BY <1>0, <1>2 DEF SaveMilestone, FrameShape, Frame
  <2>3. row' \in Row /\ row'.index <= pushed
    <3>1. row \in Row /\ "assigned" \in Statuses
      BY <1>s DEF MoneyOK, BountyOK
    <3>2. row' \in Row
      BY <2>1, <2>2, <3>1 DEF Row
    <3>3. row'.index = f.slot
      BY <2>1, <3>1 DEF Row
    <3> QED BY <2>2, <3>2, <3>3, <1>0
  <2>4. BountyOK'
    BY <2>1, <2>3 DEF MoneyOK, BountyOK
  <2>5. ExecOK'
    BY <2>1, <1>0, <1>s, GotoOK DEF MoneyOK, ReleaseStages
  <2> QED BY <2>1, <2>4, <2>5, <1>0 DEF MoneyOK, JobsOK, jobVars
<1>3. ASSUME row' = [row EXCEPT !.status = "paid"], UNCHANGED <<chain, pushed, payouts>>
      PROVE  BountyOK'
  <2>1. row' \in Row /\ row'.index = row.index
    BY <1>3, <1>s, StatusTyped DEF MoneyOK, BountyOK, Row
  <2> QED BY <1>3, <2>1 DEF MoneyOK, BountyOK
<1>4. CASE RecordPayout(e)
  <2>1. ExecOK'
    BY <1>4, <1>0, <1>s, GotoOK DEF RecordPayout, MoneyOK, ReleaseStages
  <2> QED BY <1>4, <1>3, <2>1, <1>0 DEF RecordPayout, MoneyOK, JobsOK, jobVars
<1>5. CASE MarkPaid(e)
  <2>1. ExecOK' /\ failed' \subseteq Jobs
    BY <1>5, <1>0, FinishOK DEF MarkPaid, MoneyOK, JobsOK
  <2> QED BY <1>5, <1>3, <2>1, <1>0 DEF MarkPaid, MoneyOK, JobsOK
<1> QED BY <1>1, <1>2, <1>4, <1>5

\* One step of a money job, whatever it is.
LEMMA ProgressTyped ==
  ASSUME Typed, NEW e \in Executors, Progress(e)
  PROVE  Typed'
<1>1. MoneyOK /\ WorldOK /\ pushed \in Nat
  BY DEF Typed, MoneyOK, BountyOK
<1>2. MoneyOK' /\ pushed' \in Nat /\ pushed <= pushed'
  <2>1. CASE \/ LoadBounty(e) \/ LoadAssignee(e) \/ CheckLiveAssignee(e)
             \/ FetchEscrow(e) \/ Handoff(e) \/ RequireReleasable(e) \/ RequireWallets(e)
    BY <2>1, <1>1, ReadsOK
  <2>2. CASE Evaluate(e) \/ ConfirmLiveMerge(e)
    BY <2>2, <1>1, DecidesOK
  <2>3. CASE \/ CompleteMilestone(e) \/ ApproveMilestone(e) \/ ReleaseFunds(e)
             \/ DisputeForSplit(e) \/ ResolveForSplit(e) \/ LabelSettled(e)
    BY <2>3, <1>1, ReleasesOK
  <2>4. CASE UpdateEscrow(e) \/ SaveMilestone(e) \/ RecordPayout(e) \/ MarkPaid(e)
    BY <2>4, <1>1, UpdatesOK
  <2> QED BY <2>1, <2>2, <2>3, <2>4 DEF Progress
<1>3. UNCHANGED <<wallet, maintWallet, ghAssignees, merged, closed, enabled,
                  inbox, task, events, faults>>
  BY ProgressFrame
<1>4. TaskOK'
  BY <1>1, <1>2, <1>3, TaskKept DEF Typed
<1>5. WorldOK' /\ InboxOK' /\ BudgetOK'
  BY <1>3 DEF Typed, WorldOK, InboxOK, BudgetOK
<1> QED BY <1>2, <1>4, <1>5 DEF Typed, MoneyOK

\* Starting, failing and stalling of jobs, and a request that runs inline.
LEMMA JobStepsTyped ==
  ASSUME Typed, NEW e \in Executors, NEW j \in Jobs,
         Take(e, j) \/ AdvanceInline(e) \/ JobFault(e)
  PROVE  Typed'
<1>0. /\ UNCHANGED <<row, chain, pushed, payouts, inbox, task>>
      /\ UNCHANGED worldVars /\ pushed \in Nat /\ pushed <= pushed
  BY DEF Take, AdvanceInline, JobFault, bountyVars, Typed, BountyOK
<1>1. BountyOK' /\ WorldOK' /\ InboxOK' /\ TaskOK'
  <2>1. TaskOK'
    BY <1>0, TaskKept DEF Typed
  <2>2. BountyOK' /\ WorldOK' /\ InboxOK'
    BY <1>0 DEF Typed, BountyOK, WorldOK, InboxOK, worldVars
  <2> QED BY <2>1, <2>2
<1>2. BudgetOK'
  BY BoundsAssumption DEF Typed, BudgetOK, Take, AdvanceInline, JobFault
<1>3. CASE Take(e, j)
  <2>1. ExecOK'
    BY <1>0, <1>3, LoadingOK DEF Take, Typed
  <2> QED BY <1>1, <1>2, <1>3, <2>1 DEF Take, Typed, JobsOK
<1>4. CASE AdvanceInline(e)
  <2>1. ExecOK'
    BY <1>0, <1>4, LoadingOK DEF AdvanceInline, Typed, Jobs
  <2> QED BY <1>1, <1>2, <1>4, <2>1 DEF AdvanceInline, Typed, JobsOK, jobVars
<1>5. CASE JobFault(e)
  <2>1. JobsOK' /\ ExecOK'
    BY <1>0, <1>5, RetryOK DEF JobFault, Typed
  <2> QED BY <1>1, <1>2, <2>1 DEF Typed
<1> QED BY <1>3, <1>4, <1>5

------------------------------------------------------------------------------
(* Every step of a handler keeps the types.                                *)

\* What such a step must establish besides its own frame: the rest is unchanged.
HandlerOK == row \in Row /\ row.index <= pushed /\ chain \in [1..MaxSlots -> Milestone]
             /\ queue \subseteq Jobs /\ InboxOK /\ TaskOK

\* What a step of a handler leaves alone.
LEMMA TaskFrameConditions ==
  ASSUME NEW t \in Tasks, TaskProgress(t)
  PROVE  UNCHANGED <<pushed, payouts, wallet, maintWallet, ghAssignees, merged, closed,
                     enabled, failed, exec, events, faults>>
BY DEF TaskProgress, worldVars, bountyVars, jobVars, CheckAssignment, AssignBounty, MarkMerged,
       EnqueueAdvance, RestoreReward, InspectMilestone, DisputeMilestone, LabelDisputed,
       LabelRejected, UnassignBounty, ResetToOpen, ZeroMilestone, CancelBounty,
       ResolveToMaintainer, CloseRejected, FailRejected, RefusePayoutAmount, SavePayoutAmount

\* A failing handler is redelivered or dropped, and its task is idle.
LEMMA AbortOK ==
  ASSUME InboxOK, TaskOK, pushed \in Nat, UNCHANGED pushed, NEW t \in Tasks, Abort(t)
  PROVE  InboxOK' /\ TaskOK'
<1>1. TaskOK'
  BY TaskDoneOK DEF Abort
<1>2. [op |-> task[t].op, who |-> task[t].who] \in Delivery
  BY DEF TaskOK, TaskFrame, Delivery
<1> QED BY <1>1, <1>2 DEF Abort, InboxOK

\* A handler at a stage that uses its milestone has one.
LEMMA TaskSlotTyped ==
  ASSUME HandlerOK, pushed \in 0..MaxSlots, NEW t \in Tasks, task[t].at \in SlotStages
  PROVE  /\ task[t] \in TaskFrame /\ TaskSlot(t) \in 1..MaxSlots /\ TaskSlot(t) # 0
         /\ chain[TaskSlot(t)] \in Milestone
BY BoundsAssumption DEF HandlerOK, TaskOK, TaskShape, TaskFrame, Row, TaskSlot

\* A handler that keeps row and chain typed, and then returns, goes on or fails, keeps
\* the handlers well typed.
LEMMA HandlerMove ==
  ASSUME HandlerOK, pushed \in Nat, UNCHANGED pushed, NEW t \in Tasks, NEW s \in TaskStages,
         row' \in Row, row'.index <= pushed, chain' \in [1..MaxSlots -> Milestone],
         queue' \subseteq Jobs,
         \/ TaskDone(t) /\ UNCHANGED inbox
         \/ TaskGoto(t, s) /\ UNCHANGED inbox /\ (s \in SlotStages => TaskSlot(t) # 0)
         \/ Abort(t)
  PROVE  HandlerOK'
<1>1. InboxOK' /\ TaskOK'
  <2>1. CASE TaskDone(t) /\ UNCHANGED inbox
    BY <2>1, TaskDoneOK DEF HandlerOK, InboxOK
  <2>2. CASE TaskGoto(t, s) /\ UNCHANGED inbox /\ (s \in SlotStages => TaskSlot(t) # 0)
    BY <2>2, TaskGotoOK DEF HandlerOK, InboxOK
  <2>3. CASE Abort(t)
    BY <2>3, AbortOK DEF HandlerOK
  <2> QED BY <2>1, <2>2, <2>3
<1> QED BY <1>1 DEF HandlerOK

\* Handlers write single columns, or clear the assignment.
SetsStatus == \E st \in Statuses : row' = [row EXCEPT !.status = st]
SetsAssignee == \E st \in Statuses, c \in Contributors \cup {None} :
                  row' = [row EXCEPT !.assignee = c, !.status = st]
SetsReward == \E a \in 0..FullReward : row' = [row EXCEPT !.reward = a]
RowWrite == row' = row \/ SetsStatus \/ SetsAssignee \/ SetsReward \/ row' = Unassigned(row)

\* Every write a handler makes to the row keeps the type of the row.
LEMMA RowWrites ==
  ASSUME row \in Row, row.index <= pushed, pushed \in Nat, RowWrite
  PROVE  row' \in Row /\ row'.index <= pushed
<1>1. CASE SetsStatus
  <2>1. PICK st \in Statuses : row' = [row EXCEPT !.status = st]
    BY <1>1, Zenon DEF SetsStatus
  <2> QED BY <2>1 DEF Row
<1>2. CASE SetsAssignee
  <2>1. PICK st \in Statuses, c \in Contributors \cup {None} :
               row' = [row EXCEPT !.assignee = c, !.status = st]
    BY <1>2, Zenon DEF SetsAssignee
  <2> QED BY <2>1 DEF Row
<1>3. CASE SetsReward
  <2>1. PICK a \in 0..FullReward : row' = [row EXCEPT !.reward = a]
    BY <1>3, Zenon DEF SetsReward
  <2> QED BY <2>1 DEF Row
<1>4. CASE row' = Unassigned(row)
  <2>1. "open" \in Statuses /\ None \in Contributors \cup {None} /\ 0 \in 0..MaxSlots
    BY BoundsAssumption DEF Statuses
  <2>2. row.epoch + 1 \in Nat
    BY DEF Row
  <2>3. ASSUME NEW n \in Nat
        PROVE  [row EXCEPT !.status = "open", !.assignee = None, !.index = 0, !.epoch = n] \in Row
    BY <2>1 DEF Row
  <2>4. row' = [row EXCEPT !.status = "open", !.assignee = None, !.index = 0,
                           !.epoch = row.epoch + 1]
    BY <1>4, Zenon DEF Unassigned
  <2>5. row' \in Row
    BY <2>2, <2>3, <2>4, Zenon
  <2>6. row'.index = 0
    BY <2>4 DEF Row
  <2> QED BY <2>5, <2>6
<1>5. CASE row' = row
  BY <1>5
<1> QED BY <1>1, <1>2, <1>3, <1>4, <1>5 DEF RowWrite

\* One step of a handler, whatever it is.
LEMMA TaskStepOK ==
  ASSUME HandlerOK, JobsOK, pushed \in 0..MaxSlots, NEW t \in Tasks, TaskProgress(t)
  PROVE  HandlerOK'
<1> DEFINE f == task[t]
           s == TaskSlot(t)
<1>0. /\ pushed \in Nat /\ UNCHANGED pushed /\ row \in Row /\ row.index <= pushed
      /\ f \in TaskFrame
  BY BoundsAssumption, TaskFrameConditions DEF HandlerOK, TaskOK
<1>s. /\ {"open", "assigned", "merged", "cancelled", "failed"} \subseteq Statuses
      /\ SlotStages \cup {"check", "notify", "clear", "reset", "cancel", "close", "fail"}
           \subseteq TaskStages
      /\ SlotStages \cap {"check", "notify", "clear", "reset", "cancel", "close", "fail"} = {}
  BY DEF Statuses, SlotStages, TaskStages
\* Steps that write at most the row.
<1>r. ASSUME NEW st \in TaskStages, UNCHANGED <<chain, inbox, queue>>,
             TaskDone(t) \/ (TaskGoto(t, st) /\ (st \in SlotStages => s # 0)),
             row' \in Row, row'.index <= pushed
      PROVE  HandlerOK'
  BY <1>r, <1>0, HandlerMove DEF HandlerOK
\* Steps that write at most the milestone, or give up.
<1>c. ASSUME NEW st \in TaskStages, UNCHANGED <<row, queue>>,
             \/ TaskDone(t) /\ UNCHANGED inbox
             \/ TaskGoto(t, st) /\ UNCHANGED inbox /\ (st \in SlotStages => s # 0)
             \/ Abort(t),
             chain' \in [1..MaxSlots -> Milestone]
      PROVE  HandlerOK'
  BY <1>c, <1>0, HandlerMove DEF HandlerOK
\* Steps that take a look at the milestone of their slot.
<1>m. ASSUME NEW st \in SlotStages, UNCHANGED <<row, chain, inbox, queue>>,
             s # 0, chain[s] \in Milestone,
             TaskBecome(t, [f EXCEPT !.at = st, !.ms = chain[s]])
      PROVE  HandlerOK'
  <2> DEFINE g == [f EXCEPT !.at = st, !.ms = chain[s]]
  <2>1. g \in TaskFrame
    BY <1>0, <1>s, <1>m DEF TaskFrame
  <2>2. TaskShape(g, pushed)
    <3>1. TaskShape(f, pushed) /\ f.row.index # 0
      BY <1>m DEF HandlerOK, TaskOK, TaskSlot
    <3> QED BY <3>1, <1>0 DEF TaskFrame, TaskShape
  <2>3. TaskOK'
    BY <1>m, <2>1, <2>2, <1>0, TaskBecomeOK DEF HandlerOK
  <2> QED BY <1>m, <2>3, <1>0 DEF HandlerOK, InboxOK
<1>1. CASE CheckAssignment(t)
  <2> DEFINE n == CheckedStage(f)
  <2>1. /\ UNCHANGED <<row, chain, inbox, queue>>
        /\ \/ TaskDone(t)
           \/ /\ n \in {"restore", "amount"}
              /\ TaskBecome(t, [f EXCEPT !.at = n, !.ms = chain[s]])
           \/ TaskGoto(t, n)
    BY <1>1, Zenon DEF CheckAssignment, bountyVars, jobVars
  <2>2. n \in TaskStages \cup {"idle"} /\ (n \in SlotStages => f.row.index # 0)
    BY DEF CheckedStage, TaskStages, SlotStages
  <2>3. CASE TaskDone(t)
    BY <2>1, <2>3, <1>0, <1>s, <1>r
  <2>4. CASE TaskGoto(t, n)
    BY <2>1, <2>2, <2>4, <1>0, <1>r DEF TaskSlot, TaskStages
  <2>5. CASE /\ n \in {"restore", "amount"}
             /\ TaskBecome(t, [f EXCEPT !.at = n, !.ms = chain[s]])
    <3>1. n \in SlotStages /\ s # 0
      BY <2>2, <2>5 DEF SlotStages, TaskSlot
    <3>2. chain[s] \in Milestone
      BY <3>1, <1>0, BoundsAssumption DEF HandlerOK, TaskOK, TaskShape, TaskFrame, Row, TaskSlot
    <3> HIDE DEF n
    <3> QED BY <2>1, <2>5, <3>1, <3>2, <1>m
  <2> QED BY <2>1, <2>3, <2>4, <2>5
<1>2. CASE AssignBounty(t)
  <2>1. f.who \in Contributors \cup {None} /\ row' = [row EXCEPT !.assignee = f.who, !.status = "assigned"]
    BY <1>0, <1>2 DEF AssignBounty, TaskFrame
  <2>2. row' \in Row /\ row'.index <= pushed
    BY <2>1, <1>0, <1>s, RowWrites, Zenon DEF RowWrite, SetsStatus, SetsAssignee, SetsReward
  <2>3. UNCHANGED <<chain, inbox, queue>> /\ (TaskDone(t) \/ TaskGoto(t, "notify"))
    BY <1>2 DEF AssignBounty, jobVars
  <2> QED BY <2>2, <2>3, <1>s, <1>r
<1>3. CASE MarkMerged(t)
  <2>1. row' = [row EXCEPT !.status = "merged"]
        /\ UNCHANGED <<chain, inbox, queue>> /\ TaskGoto(t, "notify")
    BY <1>3 DEF MarkMerged, jobVars
  <2>2. row' \in Row /\ row'.index <= pushed
    BY <2>1, <1>0, <1>s, RowWrites, Zenon DEF RowWrite, SetsStatus, SetsAssignee, SetsReward
  <2> QED BY <2>1, <2>2, <1>s, <1>r
<1>4. CASE EnqueueAdvance(t)
  <2>1. UNCHANGED <<row, chain, inbox>> /\ TaskDone(t) /\ Enqueue("advance")
    BY <1>4 DEF EnqueueAdvance, bountyVars
  <2>2. queue' \subseteq Jobs
    BY <2>1, EnqueueOK DEF JobsOK, Jobs
  <2> QED BY <2>1, <2>2, <1>0, <1>s, HandlerMove DEF HandlerOK
<1>5. CASE RestoreReward(t)
  <2>1. row' = [row EXCEPT !.reward = f.ms.amount] /\ f.at = "restore"
        /\ UNCHANGED <<chain, inbox, queue>> /\ TaskGoto(t, "inspect")
    BY <1>5 DEF RestoreReward, jobVars
  <2>2. s # 0 /\ f.ms.amount \in 0..FullReward
    BY <2>1, <1>0, TaskSlotTyped DEF SlotStages, TaskFrame, Milestone
  <2>3. row' \in Row /\ row'.index <= pushed
    BY <2>1, <2>2, <1>0, RowWrites, Zenon DEF RowWrite, SetsStatus, SetsAssignee, SetsReward
  <2> QED BY <2>1, <2>2, <2>3, <1>r DEF TaskStages
<1>6. CASE InspectMilestone(t)
  <2>1. /\ f.at = "inspect" /\ UNCHANGED <<row, chain, inbox, queue>>
        /\ TaskDone(t) \/ TaskBecome(t, [f EXCEPT !.at = "dispute", !.ms = chain[s]])
    BY <1>6 DEF InspectMilestone, bountyVars, jobVars
  <2>2. s # 0 /\ chain[s] \in Milestone /\ "dispute" \in SlotStages
    BY <2>1, TaskSlotTyped DEF SlotStages
  <2>3. CASE TaskDone(t)
    BY <2>1, <2>3, <1>0, <1>s, <1>r
  <2>4. CASE TaskBecome(t, [f EXCEPT !.at = "dispute", !.ms = chain[s]])
    BY <2>1, <2>2, <2>4, <1>m
  <2> QED BY <2>1, <2>3, <2>4
<1>7. CASE DisputeMilestone(t)
  <2>1. /\ f.at = "dispute" /\ UNCHANGED <<row, queue>>
        /\ \/ /\ SetMilestone(s, [chain[s] EXCEPT !.disputed = TRUE])
              /\ TaskGoto(t, IF f.op = "rejectcmd" THEN "resolve" ELSE "status")
              /\ UNCHANGED inbox
           \/ Abort(t) /\ UNCHANGED chain
    BY <1>7 DEF DisputeMilestone, jobVars
  <2>2. chain' \in [1..MaxSlots -> Milestone] /\ s # 0
    BY <2>1, TaskSlotTyped, MarkTyped, SetMilestoneOK DEF HandlerOK, SlotStages
  <2>3. {"resolve", "status"} \subseteq TaskStages
    BY DEF TaskStages
  <2> QED BY <2>1, <2>2, <2>3, <1>c
<1>8. CASE LabelDisputed(t)
  <2>1. /\ f.at = "status" /\ UNCHANGED <<row, queue, inbox>>
        /\ SetMilestone(s, [chain[s] EXCEPT !.done = FALSE])
        /\ TaskDone(t) \/ TaskGoto(t, "strike")
    BY <1>8 DEF LabelDisputed, jobVars
  <2>2. chain' \in [1..MaxSlots -> Milestone] /\ s # 0
    BY <2>1, TaskSlotTyped, MarkTyped, SetMilestoneOK DEF HandlerOK, SlotStages
  <2>3. "strike" \in TaskStages
    BY DEF TaskStages
  <2> QED BY <2>1, <2>2, <2>3, <1>c
<1>9. CASE LabelRejected(t)
  <2>1. /\ f.at = "strike" /\ UNCHANGED <<row, queue, inbox>>
        /\ SetMilestone(s, [chain[s] EXCEPT !.done = FALSE])
        /\ TaskGoto(t, IF f.op = "unassigned" THEN "clear" ELSE "cancel")
    BY <1>9 DEF LabelRejected, jobVars
  <2>2. chain' \in [1..MaxSlots -> Milestone] /\ s # 0
    BY <2>1, TaskSlotTyped, MarkTyped, SetMilestoneOK DEF HandlerOK, SlotStages
  <2> QED BY <2>1, <2>2, <1>s, <1>c
<1>10. CASE ZeroMilestone(t)
  <2>1. /\ f.at = "zero" /\ UNCHANGED <<row, queue>>
        /\ \/ /\ SetMilestone(s, [chain[s] EXCEPT !.amount = 0, !.to = PlatformAccount])
              /\ TaskGoto(t, "cancel") /\ UNCHANGED inbox
           \/ Abort(t) /\ UNCHANGED chain
    BY <1>10 DEF ZeroMilestone, jobVars
  <2>2. chain' \in [1..MaxSlots -> Milestone] /\ s # 0
    BY <2>1, TaskSlotTyped, MarkTyped, SetMilestoneOK DEF HandlerOK, SlotStages
  <2> QED BY <2>1, <2>2, <1>s, <1>c
<1>11. CASE ResolveToMaintainer(t)
  <2>1. /\ f.at = "resolve" /\ UNCHANGED <<row, queue>>
        /\ \/ TaskGoto(t, "close") /\ UNCHANGED <<chain, inbox>>
           \/ /\ SetMilestone(s, [chain[s] EXCEPT !.outcome = "returned",
                                   !.disputed = FALSE, !.done = FALSE])
              /\ TaskGoto(t, "close") /\ UNCHANGED inbox
           \/ Abort(t) /\ UNCHANGED chain
    BY <1>11 DEF ResolveToMaintainer, jobVars
  <2>2. chain' \in [1..MaxSlots -> Milestone] /\ s # 0
    BY <2>1, TaskSlotTyped, MarkTyped, SetMilestoneOK DEF HandlerOK, SlotStages
  <2> QED BY <2>1, <2>2, <1>s, <1>c
<1>12. CASE UnassignBounty(t)
  <2>1. row' = Unassigned(row)
        /\ UNCHANGED <<chain, inbox, queue>> /\ TaskGoto(t, "reset")
    BY <1>12 DEF UnassignBounty, jobVars
  <2>2. row' \in Row /\ row'.index <= pushed
    BY <2>1, <1>0, <1>s, RowWrites, Zenon DEF RowWrite, SetsStatus, SetsAssignee, SetsReward
  <2> QED BY <2>1, <2>2, <1>s, <1>r
<1>13. CASE ResetToOpen(t)
  <2>1. row' = Unassigned(row)
        /\ UNCHANGED <<chain, inbox, queue>> /\ TaskDone(t)
    BY <1>13 DEF ResetToOpen, jobVars
  <2>2. row' \in Row /\ row'.index <= pushed
    BY <2>1, <1>0, <1>s, RowWrites, Zenon DEF RowWrite, SetsStatus, SetsAssignee, SetsReward
  <2> QED BY <2>1, <2>2, <1>s, <1>r
<1>14. CASE CancelBounty(t)
  <2>1. row' = [row EXCEPT !.status = "cancelled"]
        /\ UNCHANGED <<chain, inbox, queue>> /\ TaskDone(t)
    BY <1>14 DEF CancelBounty, jobVars
  <2>2. row' \in Row /\ row'.index <= pushed
    BY <2>1, <1>0, <1>s, RowWrites, Zenon DEF RowWrite, SetsStatus, SetsAssignee, SetsReward
  <2> QED BY <2>1, <2>2, <1>s, <1>r
<1>15. CASE CloseRejected(t)
  <2>1. row' = [row EXCEPT !.status = "cancelled"]
        /\ UNCHANGED <<chain, inbox, queue>> /\ TaskGoto(t, "fail")
    BY <1>15 DEF CloseRejected, jobVars
  <2>2. row' \in Row /\ row'.index <= pushed
    BY <2>1, <1>0, <1>s, RowWrites, Zenon DEF RowWrite, SetsStatus, SetsAssignee, SetsReward
  <2> QED BY <2>1, <2>2, <1>s, <1>r
<1>16. CASE FailRejected(t)
  <2>1. row' = [row EXCEPT !.status = "failed"]
        /\ UNCHANGED <<chain, inbox, queue>> /\ TaskDone(t)
    BY <1>16 DEF FailRejected, jobVars
  <2>2. row' \in Row /\ row'.index <= pushed
    BY <2>1, <1>0, <1>s, RowWrites, Zenon DEF RowWrite, SetsStatus, SetsAssignee, SetsReward
  <2> QED BY <2>1, <2>2, <1>s, <1>r
<1>17. CASE RefusePayoutAmount(t)
  <2>1. UNCHANGED <<row, chain, inbox, queue>> /\ TaskDone(t)
    BY <1>17 DEF RefusePayoutAmount, bountyVars, jobVars
  <2> QED BY <2>1, <1>0, <1>s, <1>r
<1>18. CASE \E a \in 1..FullReward : SavePayoutAmount(t, a)
  <2>1. PICK a \in 1..FullReward : SavePayoutAmount(t, a)
    BY <1>18
  <2>2. row' = [row EXCEPT !.reward = a] /\ a \in 0..FullReward
        /\ UNCHANGED <<chain, inbox, queue>> /\ TaskGoto(t, "notify")
    BY <2>1, BoundsAssumption DEF SavePayoutAmount, jobVars
  <2>3. row' \in Row /\ row'.index <= pushed
    BY <2>2, <1>0, <1>s, RowWrites, Zenon DEF RowWrite, SetsStatus, SetsAssignee, SetsReward
  <2> QED BY <2>2, <2>3, <1>s, <1>r
<1> QED BY <1>1, <1>2, <1>3, <1>4, <1>5, <1>6, <1>7, <1>8, <1>9, <1>10, <1>11, <1>12,
           <1>13, <1>14, <1>15, <1>16, <1>17, <1>18 DEF TaskProgress

\* Handlers, their faults and their deliveries keep the types.
LEMMA TaskTyped ==
  ASSUME Typed, NEW t \in Tasks,
         TaskProgress(t) \/ TaskFault(t) \/ \E d \in inbox : Receiving(t, d)
  PROVE  Typed'
<1>0. /\ HandlerOK /\ JobsOK /\ pushed \in 0..MaxSlots /\ pushed \in Nat
  BY BoundsAssumption DEF Typed, BountyOK, HandlerOK, JobsOK
<1>1. CASE TaskProgress(t)
  <2>1. /\ HandlerOK'
        /\ UNCHANGED <<pushed, payouts, wallet, maintWallet, ghAssignees, merged, closed,
                       enabled, failed, exec, events, faults>>
    BY <1>0, <1>1, TaskStepOK, TaskFrameConditions
  <2>2. ExecOK'
    BY <1>0, <2>1, ExecKept DEF Typed
  <2> QED BY <2>1, <2>2 DEF Typed, HandlerOK, BountyOK, WorldOK, JobsOK, BudgetOK
<1>2. CASE TaskFault(t)
  <2>1. /\ Abort(t)
        /\ UNCHANGED <<bountyVars, worldVars, jobVars, exec, events>>
        /\ faults' \in 0..MaxFaults
    BY <1>2, BoundsAssumption DEF TaskFault, Typed, BudgetOK
  <2>2. InboxOK' /\ TaskOK'
    BY <2>1, <1>0, AbortOK DEF Typed, bountyVars
  <2>3. ExecOK'
    BY <1>0, <2>1, ExecKept DEF Typed, bountyVars
  <2> QED BY <2>1, <2>2, <2>3 DEF Typed, BountyOK, WorldOK, JobsOK, BudgetOK, bountyVars,
                                  worldVars, jobVars
<1>3. CASE \E d \in inbox : Receiving(t, d)
  <2>1. PICK d \in inbox : Receiving(t, d)
    BY <1>3
  <2> DEFINE g == [at |-> Entry(d.op, row), op |-> d.op, who |-> d.who,
                   row |-> row, ms |-> NoMilestone]
  <2>2. /\ UNCHANGED <<bountyVars, worldVars, jobVars, exec, events, faults>>
        /\ inbox' = inbox \ {d} /\ (TaskDone(t) \/ TaskBecome(t, g))
    BY <2>1 DEF Receiving
  <2>3. Entry(d.op, row) \in TaskStages
        /\ (Entry(d.op, row) \in SlotStages => row.index # 0)
    BY DEF Entry, TaskStages, SlotStages
  <2>4. g \in TaskFrame /\ TaskShape(g, pushed)
    <3>1. row \in Row /\ d.op \in OpNames /\ d.who \in Contributors \cup {None}
      BY DEF Typed, BountyOK, InboxOK, Delivery
    <3>2. NoMilestone \in Milestone
      BY IdleTyped DEF IdleTask, TaskFrame
    <3>3. g \in TaskFrame
      BY <2>3, <3>1, <3>2 DEF TaskFrame
    <3> QED BY <2>3, <3>3, <1>0 DEF TaskShape, HandlerOK
  <2>5. TaskOK'
    BY <2>2, <2>4, <1>0, TaskDoneOK, TaskBecomeOK DEF Typed, bountyVars
  <2>6. ExecOK'
    BY <1>0, <2>2, ExecKept DEF Typed, bountyVars
  <2> QED BY <2>2, <2>5, <2>6 DEF Typed, BountyOK, WorldOK, JobsOK, BudgetOK, InboxOK,
                                  bountyVars, worldVars, jobVars
<1> QED BY <1>1, <1>2, <1>3

------------------------------------------------------------------------------
(* Users, GitHub and the scans.                                            *)

\* What users, GitHub and the scans do keeps the types.
LEMMA WorldTyped ==
  ASSUME Typed, NEW j \in Jobs, World \/ Reconcile \/ Recover(j)
  PROVE  Typed'
<1>0. /\ UNCHANGED <<chain, pushed, payouts, failed, exec, task, faults, enabled>>
      /\ pushed \in Nat /\ pushed <= pushed
  BY DEF Typed, BountyOK, World, Reconcile, Recover, Happens, GitHubAssign, GitHubUnassign,
         GitHubMerge, ConnectWallet, GitHubClose, ConnectMaintainerWallet, RetryBounty,
         MaintainerCommand, ChangeReward, bountyVars, worldVars
<1>1. ExecOK' /\ TaskOK'
  BY <1>0, ExecKept, TaskKept DEF Typed
<1>2. events' \in 0..MaxEvents /\ faults' \in 0..MaxFaults
  BY <1>0, BoundsAssumption
  DEF Typed, BudgetOK, World, Reconcile, Recover, Happens, GitHubAssign, GitHubUnassign,
      GitHubMerge, ConnectWallet, GitHubClose, ConnectMaintainerWallet, RetryBounty,
      MaintainerCommand, ChangeReward
<1>3. queue' \subseteq Jobs
  <2>1. UNCHANGED queue \/ Enqueue("advance") \/ Enqueue(j)
    BY DEF World, Reconcile, Recover, GitHubAssign, GitHubUnassign, GitHubMerge, ConnectWallet,
           GitHubClose, ConnectMaintainerWallet, RetryBounty, MaintainerCommand, ChangeReward
  <2> QED BY <2>1, EnqueueOK DEF Typed, JobsOK, Jobs
<1>4. row' \in Row /\ row'.index <= pushed'
  <2>1. CASE \E a \in 1..FullReward : ChangeReward(a)
    <3>1. PICK a \in 1..FullReward : ChangeReward(a)
      BY <2>1
    <3>2. row' = [row EXCEPT !.reward = a] /\ a \in 0..FullReward
      BY <3>1, BoundsAssumption DEF ChangeReward
    <3>3. row \in Row /\ row.index <= pushed
      BY DEF Typed, BountyOK
    <3>4. row' \in Row /\ row'.index <= pushed
      BY <3>2, <3>3, <1>0, RowWrites, Zenon DEF RowWrite, SetsReward
    <3> QED BY <3>4, <1>0
  <2>2. CASE UNCHANGED row
    BY <2>2, <1>0 DEF Typed, BountyOK
  <2> QED BY <2>1, <2>2
      DEF World, Reconcile, Recover, GitHubAssign, GitHubUnassign, GitHubMerge, ConnectWallet,
          GitHubClose, ConnectMaintainerWallet, RetryBounty, MaintainerCommand, bountyVars
<1>5. InboxOK'
  <2>1. UNCHANGED inbox \/ \E op \in OpNames, c \in Contributors \cup {None} : Deliver(op, c)
    BY OpsAssumption
    DEF World, Reconcile, Recover, GitHubAssign, GitHubUnassign, GitHubMerge, ConnectWallet,
        GitHubClose, ConnectMaintainerWallet, RetryBounty, MaintainerCommand, ChangeReward,
        OpNames, Happens
  <2> QED BY <2>1 DEF Typed, InboxOK, Deliver, Delivery
<1>6. /\ wallet' \in [Contributors -> 0..MaxWallets]
      /\ maintWallet' \in BOOLEAN /\ closed' \in BOOLEAN
      /\ ghAssignees' \subseteq Contributors /\ merged' \subseteq Contributors
  <2>1. CASE \E c \in Contributors : ConnectWallet(c)
    BY <2>1, BoundsAssumption DEF ConnectWallet, Typed, WorldOK
  <2>2. CASE UNCHANGED wallet
    <3>1. /\ maintWallet' \in {maintWallet, TRUE} /\ closed' \in {closed, TRUE}
          /\ ghAssignees' \subseteq Contributors /\ merged' \subseteq Contributors
      BY DEF World, Reconcile, Recover, GitHubAssign, GitHubUnassign, GitHubMerge,
             ConnectWallet, GitHubClose, ConnectMaintainerWallet, RetryBounty,
             MaintainerCommand, ChangeReward, Typed, WorldOK, worldVars
    <3> QED BY <2>2, <3>1 DEF Typed, WorldOK
  <2> QED BY <2>1, <2>2
      DEF World, Reconcile, Recover, GitHubAssign, GitHubUnassign, GitHubMerge,
          GitHubClose, ConnectMaintainerWallet, RetryBounty, MaintainerCommand, ChangeReward,
          worldVars
<1> QED BY <1>0, <1>1, <1>2, <1>3, <1>4, <1>5, <1>6
    DEF Typed, BountyOK, WorldOK, JobsOK, BudgetOK

\* Typed is inductive.
LEMMA StepTyped == Typed /\ [Next]_vars => Typed'
<1> SUFFICES ASSUME Typed, [Next]_vars PROVE Typed'
  OBVIOUS
<1>j. "advance" \in Jobs
  BY DEF Jobs
<1>1. CASE World \/ Reconcile
  BY <1>1, <1>j, WorldTyped
<1>2. CASE \E j \in Jobs : Recover(j) \/ \E e \in Executors : Take(e, j)
  BY <1>2, WorldTyped, JobStepsTyped
<1>3. CASE \E e \in Executors : Progress(e) \/ JobFault(e) \/ AdvanceInline(e)
  BY <1>3, <1>j, ProgressTyped, JobStepsTyped
<1>4. CASE \E t \in Tasks : \/ TaskProgress(t) \/ TaskFault(t)
                            \/ \E d \in inbox : Receiving(t, d)
  BY <1>4, TaskTyped
<1>5. CASE UNCHANGED vars
  <2>1. pushed \in Nat /\ pushed <= pushed
    BY DEF Typed, BountyOK
  <2>2. ExecOK' /\ TaskOK'
    BY <1>5, <2>1, ExecKept, TaskKept DEF Typed, vars
  <2> QED BY <1>5, <2>2 DEF Typed, vars, BountyOK, WorldOK, JobsOK, InboxOK, BudgetOK
<1> QED BY <1>1, <1>2, <1>3, <1>4, <1>5 DEF Next

\* Typed holds in every reachable state.
LEMMA AlwaysTyped == Spec => []Typed
BY InitTyped, StepTyped, PTL DEF Spec

------------------------------------------------------------------------------

\* Every reachable state is well typed, for all values of the constants.
THEOREM TypeCorrect == Spec => []TypeOK
BY AlwaysTyped, TypedImplies, PTL

\* However handlers, jobs, crashes and retries interleave, the row and every
\* snapshot of it name a milestone the escrow has.
THEOREM IndexAlwaysOnChain == Spec => []IndexOnChain
BY AlwaysTyped, TypedImplies, PTL
==============================================================================
