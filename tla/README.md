# Verification of the bounty settlement backend

TLA+ models of the part of this backend that decides when a bounty's escrow
pays, of what surrounds it (the money of a repository, its refund, its
connection to GitHub, and what is sent to people), TLC configurations that check
them on small instances, and TLAPS proofs.
`src/...` below is relative to the repository root.

## 1. The system

A maintainer puts a reward on a GitHub issue. The reward is reserved from the
repository's *pool* (a number in Postgres), promised to the assignee as a
*milestone* of an on-chain escrow contract, and paid when the assignee's linked
pull request is merged. Three systems hold the state, and nothing ties them
together but the order in which handlers read and write them:

| state | where | who writes it |
|---|---|---|
| `bounties` row: status, assignee, milestone index, reward | Postgres | webhook and HTTP handlers, money jobs |
| pool balance of a repository | Postgres | creation, cancellation, funding, sync |
| milestones: receiver, amount, flags | escrow contract, through the Trustless Work API | money jobs, some handlers |
| assignees, pull requests, issue state | GitHub | users |
| jobs, enqueue locks, dirty flags | Redis (BullMQ) | handlers, workers, drain tasks |
| `failed_tasks` | Postgres | workers, recovery scan |
| `repositories` row, its maintainers and reward tiers | Postgres, cached in Redis | requests, installation webhooks |
| installation of the App, roles | GitHub; the token cached in Redis | users |
| comment leases, notification rows and lists | Redis, Postgres | jobs, requests |

### Components

| component | state | operations | correct when |
|---|---|---|---|
| settlement state machine (`bounty/automation.rs`, `repository.rs`, `service.rs`) | row | load, evaluate, push, full release, split, repair, inline fallback | only the author of merged work is paid, once per assignment; what is ready is paid in the end |
| escrow service (`trustless_work/escrow_service.rs`) | milestones | push, complete, approve, release, labels, balance sync, deploy, fund, refund | Postgres never points at a milestone that is not there; a crash after a transfer is repaired |
| money jobs and queue (`infra/queue.rs`, `infra/jobs/`) | jobs, locks, flags | enqueue, take, park, hand over, drain, fail | locks exclude, every reported event is looked at, budgets end loops without costing a look |
| webhook handlers (`github/handlers/`) | row, milestones, pool | assign, unassign, close, merge, delete, label, commands | safe under redelivery, reordering and a concurrent job |
| recovery scans (`infra/recovery.rs`) | `failed_tasks` | record, resolve, recover, supersede, wake, reconcile | whatever was lost is asked for again |
| escrow pool and refund (`escrow/repository.rs`, `escrow/handler.rs`) | pool | reserve, refund, sync, staged refund | no request is dropped for want of money; a refund settles what it finds and finishes |
| webhook dedupe (`github/webhook.rs`, `infra/queue.rs`) | delivery jobs | enqueue, recover | each delivery handled, none replayed blindly |
| repositories, GitHub authorization (`repo/`, `github/auth.rs`, `github/authorization.rs`) | repository row, members, cached copies, token | connect, import, detach, price, fund, delete, get a token | only who maintains the repository on GitHub prices or deletes it; a record is not lost; calls recover from a stale installation |
| comments (`github/comment_delivery.rs`) | lease, local entry | take turns, claim, post, finish | one sender at a time; a second comment only after a lost outcome |
| notifications and e-mail (`notification/`, `infra/queue.rs`) | row, status, list, caches | notify, enqueue, deliver, list, mark read | a status tells what happened; one e-mail; the list is current |
| wallets (`contributor/routes.rs`) | wallets | connect, wake parked bounties | a wallet wakes what waited for it |
| payout arithmetic (`bounty/payout.rs`) | none | split by percentage or amount | parts add up, none is zero |

They meet in three ways: through Postgres rows that several of them write (a
bounty's row by jobs, handlers, refund; the pool by creation, cancellation,
deposit, sync and refund; a repository's row by requests and webhooks), through
jobs (a handler, a deposit or a wallet wakes a bounty or a parked request) and
through the contract and GitHub, which answer everyone and wait for nobody.

### What is hard about it

A handler holds no lock or transaction across its awaits. It decides from a
snapshot of the row, talks to GitHub and to the escrow, and then writes single
columns of a row that may have changed. Webhooks are retried and arrive in any
order; a process may die between a transaction on chain and the write that
records it; BullMQ gives up on a job that stalls twice; the enqueue lock expires
or is done without; caches and tokens outlive what they are about. The worker's
concurrency of 1 holds per process, so several instances
(`docs/PROJECT_GUIDE.md:353`, `:441`, `:669`) run money jobs of one bounty side
by side, kept apart by job ids only; and without Redis the same code runs in
HTTP requests, with no serialisation at all. The list `hazards` of PROJECT.json
has each at its line.

## 2. Modules

| module | models |
|---|---|
| `PayoutPromise` | what the payout side promises, as an abstract specification: a receipt is for a merged author, and an assignment has at most one |
| `Settlement` | one bounty from assignment to payout: row, milestones, GitHub, money jobs, handlers, scans |
| `MCSettlement`, `MCReassign` | initial states and specifications for TLC; the second has the scenario of two instances |
| `BountyQueue` | the queue of money jobs of one bounty, one Redis call at a time |
| `Funding`, `MCFunding` | the pool of one repository, the requests that reserve from it, and what becomes of one the pool cannot cover |
| `Refund`, `MCRefund` | the refund of a repository's escrow, beside the bounty worker, a rejection and the deletion of an issue |
| `Connection` | a repository's record: connected, imported, detached, priced and deleted while the App comes and goes, and the token of a call |
| `Comments` | the delivery of one comment by several jobs on several backends |
| `Notifications` | one notification: row, e-mail job, cached list |
| `MCOutbox` | composes `Comments` and `Notifications`, what leaves the system for people |
| `SettlementProofs`, `SettlementPayouts`, `BountyQueueProofs`, `FundingProofs`, `RefundProofs`, `CommentsProofs`, `NotificationsProofs`, `ConnectionProofs` | TLAPS proofs |

### Settlement

*Executors* run money jobs, one for each instance of the backend (or, without a
queue, for each HTTP request that advances a bounty); *tasks* run handlers. Both
are records with a program point `at` and the snapshot they hold; one action is
one read or one write of Postgres, the chain or GitHub, and any other process
may step between two of them.

| code | model |
|---|---|
| `load_context` | `LoadBounty`, `LoadAssignee` (two reads: the assignee may be newer than the row; the wallet, a third read in the code, is taken with the assignee) |
| `evaluate` | `Decision` on what was loaded and on the chain, then `ConfirmLiveMerge` |
| `run_advance`, `run_push_milestone`, `run_release_payout`, `advance_inline` | `Apply`: what each job does with a decision |
| `push_milestone` | `FetchEscrow`, `UpdateEscrow`, `SaveMilestone`, `Handoff` |
| `release_milestone` | `RequireReleasable`, `CompleteMilestone`, `ApproveMilestone`, `ReleaseFunds`, `LabelSettled` |
| `release_split` | `RequireWallets`, `DisputeForSplit`, `ResolveForSplit`, `LabelSettled` |
| `release_full`, `repair_database` | `RecordPayout`, `MarkPaid` |
| webhook dispatch and early returns | `Receiving`, `Entry`, `CheckAssignment`, `CheckedStage` |
| the rest of each handler | `AssignBounty`, `MarkMerged`, `RestoreReward`, ..., one action per write |
| retries, crashes, stalls | `Retry`, `GiveUp`, `Stall`, `JobFault`, `TaskFault`, `Abort` |
| recovery | `Recover`, `Reconcile` |

What the model leaves out, and why that is sound for the properties:

- `merged` stands for everything `confirm_payout_pull_request` checks (merged,
  links the issue, author, not labelled rejected) and only grows. Editing a
  merged pull request, and the five minutes the linked pull request is cached,
  are not modelled.
- A milestone's status string is kept as `done`, whether it reads `completed`,
  which is the only value any code tests.
- A contributor's wallets are a counter: the latest is the primary one.
- The escrow's balance is not modelled; a transaction it refuses is a fault.
- The update of the whole milestone list is modelled for the slots of one
  bounty. `RewriteSettled` covers both answers to the question the repository
  cannot settle, whether the provider lets a disputed or settled milestone be
  replaced.
- A parked advance is a job that stays in the queue. Hop and recheck budgets,
  the dirty flag and the lock are `BountyQueue`'s: `Enqueue` of a job that runs
  may be lost here, because `BountyQueue` shows that it can be.
- Some steps that are close together are one: the reads of the assignee and of the
  assignee's wallet (`automation.rs:96`-`115`); the look at the old reward and the
  write of the new one (`bounty/repository.rs:273`-`338`), whose guard the write does
  not repeat; the status that is set to completed and read again before the approval
  (`escrow_service.rs:294`-`301`). What could come between is a second write of the
  same kind, which the model has before or after.
- `Reconcile`, like `Scan` of `BountyQueue`, asks again for every bounty; the code
  leaves out those with a dead task (`recovery.rs:201`-`228`), one that failed
  twenty times. Safety does not depend on it, liveness is claimed for fewer.
- A worker that stalls ends where it is when BullMQ hands its job to another; one that
  goes on nevertheless beside its successor is not modelled.
- A handler that fails is redelivered or dropped; HTTP requests are treated the
  same, which allows more than the code does.
- Deploying and funding an escrow, the pool and the reward label that creates a
  bounty are `Funding`'s, refunds are `Refund`'s; what creation leaves is the
  initial state here. Closing an escrow is not modelled.

### BountyQueue

`call[c]` is caller `c` inside `enqueue_bounty_job`: lock, state, and then one of
remove, add, promote, mark, and unlock, each a Redis round trip. The worker
changes the job's state without the lock. `worker` is the job that runs, with
its hop count, recheck count and pass; `drainer` the spawned drain tasks.
`release-payout` behaves as a `push-milestone` without a handoff and is covered by
it. `events`, `reported` and `seen` are history: how many things happened,
which of them the producer was told are queued, which the last evaluation could
see. What `evaluate` decides is any of push, park and done.

Left out: the dirty flag's expiry after an hour; drain tasks beyond `Drainers` (a
new one is merged with one that waits); the promotion of a delayed job by its
own delay racing inside BullMQ.

### Funding

A *request* is a GitHub delivery that asks for a bounty, by a label or by a
comment with an amount. `job[r]` is the webhook job under its delivery id,
`run[r]` the handler that works on it, `row[r]` the status of its `failed_tasks`
row, `call[c]` an `enqueue_webhook` of GitHub or of a deposit, `fund[f]` a
`submit_fund` request with the wake that follows it.

| code | model |
|---|---|
| `enqueue_webhook` | `ReadJobState`, `RemoveJob`, `AddJob`: look, remove and add without a lock |
| `process`, `process_webhook_job` | `Take`, `Accept`, `Supersede`, then `Report`, `Resolve`, `Complete`, or `Park`, `RecordFault`, `Fail`, `Retry` |
| `handle_issue_labeled`, `create_or_update_manual_bounty` | `Load`, `Reprice`, `Update`, `ReadChain`, `StoreBalance`, `Reserve`, `Create` |
| `sync_balance` | `ReadChain`, `StoreBalance`; `SkipSync` when the call fails |
| `submit_deploy`, `submit_fund` | `Deploy`, `Submit`, `ReadBalance`, `AwaitBalance`, `WriteBalance` |
| `wake_repo`, `recover_task` | `WakeRepo`, `RecoverTask`, `RecoverFails`, `WakeOver`; the scan is `Recover` |

`outcome` (what a request came to) and `cut` (replays refused because the row is
dead) are history. Left out: the fallback that handles a delivery in the request
when Redis is away; the age from which the scan takes a row; notices.

### Refund

`milestones` is the escrow's list, `refund[r]` a `refund_with_issues` that walks
over the list it read at its start, `job` the bounty worker with its snapshot,
`reject` a rejection or the handler of a deleted issue. `dual` says whether the
escrow's dispute resolver has a wallet of its own, which selects the branch of
`refund_with_issues`.

| code | model |
|---|---|
| `refund_milestones` | `CheckMilestones`: one open milestone without an amount refuses the whole refund |
| `refund_with_issues`, own resolver | `NextMilestone`, `DisputeMilestone`, `ResolveDispute` |
| `refund_with_issues`, one wallet | `ReplaceMilestones`, `NextMilestone`, `ApproveRefund`, `ReleaseRefund` |
| its end, `finalize_refund` | `ObserveBalance`, `WithdrawRest`, `ListToCancel`, `FinalizeRefund` |
| `evaluate` | `TakeJob`, `Evaluate`, with the split when the reward is below the milestone's amount |
| `push_milestone` | `FetchEscrow`, `PutMilestone`, `SaveMilestone`: the whole list, so that a list read before a refund can be written after it |
| `release_full` | `ApproveMilestone`, `ReleaseFunds`, `MarkPaid` |
| `release_split` | `DisputeForSplit`, `ResolveForSplit`, `MarkPaid`; "already resolved" counts as success |
| payout command | `ConfigurePayout` |
| `reject_issue`, `handle_issue_deleted` | `BeginReject`, `BeginDelete`, `FetchForZero`, `ZeroMilestone`, `CancelBounty`, `RefundPool` |

The contract's own rules are `CanDispute`, `CanResolve`, `CanApprove`, `CanRelease` and
`CanUpdate`: a dispute of a settled milestone is refused, a resolution needs the
money. Whether update-escrow refuses to replace a settled or disputed milestone
is not said by anything under `src/`; `RewriteSettled` has both answers, as in
`Settlement`, and what is claimed for one of them only says so. Left out: the platform's
fee and its rounding, label transactions, closing, and the dispute and the label
by which a rejection marks the milestone, which `Settlement` has.

### Connection

`task[t]` is one request or webhook with the snapshot it holds; `Caller` calls
GitHub over and over for the repository. `byId` and `byGithubId` are the cached
copies of the row, `token` the installation behind the cached token. `role` is a
user's role on GitHub, `Admins` and `Maintainers` the two sets the code tells apart
(`is_admin`, `is_current_maintainer`); `SetRole` gives and takes any role at any time.
`alive` is the installation of the App on the account, `installed` whether it covers
the repository: the token exchange asks for the first only.

| code | model |
|---|---|
| `connect_repo` | `VerifyConnect`, `Lookup`, `Fill`, `Create`, `Reset`, `Join`, `Forget` |
| `sync_installation`, installation webhook | `VerifyImport`, `Find`, `Attach`, `FillTiers`, `Join`, `Forget` |
| removal webhooks | `Detach` (one transaction), `Forget` |
| `is_maintainer`, `get_repo_by_id` | `IsMember`, `Load`, `Fill` |
| `get_installation_token` | `CachedToken`, `TokenRepo`, `FillVia`, `Exchange`, `Resolve`, `Repair`, `Unlink`, `Renew`, `Keep` |
| `require_current_repo_maintainer` | `Check` |
| `submit_fund`, setting tiers, `delete_repo` | `Deposit`, `Price`, `Removable`, `RemoveFromGithub`, `Cascade` |

Left out: lists, the deletion of one tier, renaming, several repositories of one
installation.

### Comments and Notifications

In `Comments`, `pc[j]` is a job inside `once()`: waiting for the local mutex
(`entry`), claiming the Redis key (`key`, `lease`), sending, finishing. Time is
counted in ticks: a claim ends after `Lease`, a send after `Timeout`; a POST that
is cut off stays on the `wire` and may still become a comment. In `Notifications`,
`writer[w]` is a `notify_user` or `mark_read` call, `sender[s]` a worker (or the
task spawned when the queue refuses) in `deliver_email`, `reader[r]` a list
request. `version` is the revision under which lists are cached, `None` when there is
none or Redis cannot say and the code falls back to "initial": the set in `Renew` may
be skipped, as `cache.set` is when Redis fails, and every key may expire (`Expire`).
The repository does not show whether BullMQ's `attempts_made` counts
the running attempt; `counts` takes both answers. The wording of both, the hour
after which a comment may be repeated, the loop over maintainers and the unread
count are left out.

## 3. Runs

| run | shows | bounds |
|---|---|---|
| `settlement_safety` | `TypeOK`, `PaysOnlyMergedAuthor`, `PaidOncePerAssignment`, `IndexOnChain` over ten kinds of handler, with and without a queue | 2 contributors, 1 executor, 1 task, 2 slots, 2 wallets each, 2 events, 1 fault |
| `settlement_reassign` | the same two payout properties and `KeepsPromise` (refinement of `PayoutPromise`) with two interleaved handlers, and with the workers of two instances | one instance: 2 tasks, 7 kinds of handler, 2 events; two instances: 2 executors, 1 task, 2 events (assignments, wallets), `Apart`; no faults, a queue, settled milestones stay |
| `settlement_live` | `ReadyIsPaid`, `ReleaseIsRecorded` | 1 contributor, 3 events, 1 fault |
| `queue_quiet` | `TypeOK`, `LockExclusive`, `NeverSkipped`, `Quiet` | 1 producer, the worker, 1 drain task, 2 hops, 1 recheck, 2 passes, 2 attempts, 1 event, 1 fault, 1 lapse |
| `queue_seen` | `EventSeen` | 2 events, scans on |
| `funding` | `TypeOK`, `NothingVanishes`, `ComesToRest`, `ListedIsReplayed` | a label and an older comment for one issue, 1 deposit of 2, 2 attempts, 1 stall, 1 mishap |
| `refund` | `TypeOK`, `PaidMeansReceived`, `RefundSettles`, `RefundFinishes` | 2 bounties of 2 and 1 (the first merged, perhaps split or its issue deleted, the second rejected), escrow of 4, 1 refund request that may be repeated, 1 mishap |
| `outbox` | of `Comments`: `CTypeOK`, `OneSender`, `AtMostOnce`, `SentIsFinal`, `EveryJobEnds`; of `Notifications`: `NTypeOK`, `OneMailPerLapse`, `StatusIsTrue`, `FeedIsCurrent`, `StatusSettles` | 2 jobs, 2 backends, lease 4 and timeout 3 ticks of 15 s, 2 attempts, 1 mishap; 2 callers, 2 workers, 1 marker, 2 attempts, 1 lapse; for the list 2 markers, 2 readers |
| `connection` | `TypeOK`, `MaintainersOnly`, `RecordSurvives`, `CallsRecover` | 1 user, 2 tasks and the caller, 2 installations, 2 rows, 2 changes on GitHub (installations, roles) |
| `settlement_cancelled`, `funding_covered`, `refund_pool` | the findings below | as small as the trace allows |

The bounds: a payout needs one slot and a re-push after a reassignment a second;
a wallet has to change once; the hazards of the list each need at most two
events besides the work in progress, since the adopted initial state already
has an assignee, a merge and a wallet; one fault is a crash at any point, and
what it leaves is retried without another. `FullReward = 2` is the smallest
reward that can be split. In `BountyQueue` the budgets are small and even, as
`MAX_HOPS` is; a lapse is a lock that expired, was not had, or a wait given up.
In `Funding` two requests for one issue supersede each other, one deposit wakes
them, and one mishap puts a crash, a failure or a redelivery anywhere (what several
do to an accepted request is proved, section 4); the first
is new and the second waits from an older version with status `pending`. In
`Refund` one bounty has been pushed or not and is paid, split or deleted meanwhile,
the other is rejected; with a resolver of its own both may be alive, with one wallet
the first. An action constraint (`Singly`) lets an issue be deleted, or its bounty
split, only where no other bounty is alive, and not both; it cuts no step that
fairness is about, and what any combination keeps is proved. In `MCOutbox` the
comment shares no state with the rest, nor the list with an e-mail that is out, so
each of the three is checked while the others rest. In `Connection` two rows let a
repository be deleted and connected again, two installations let a token be stale;
behaviours begin with a repository unknown here, known for long, or connected again
while the deletion of its first row is under way, so that two tasks suffice; the
caller's endless calls begin when the tasks are over, before that the tasks' own
token steps race.
`CHECK_DEADLOCK FALSE` everywhere: with its events used up a system may rest.

The bounty worker has concurrency 1 in each process (`src/src/infra/queue.rs:700`),
so several instances run several. `settlement_safety` and `settlement_live` have one,
and every handler; `settlement_reassign` has two scenarios (the action
constraint `Scenario`), one worker beside two handlers and two workers beside one. With a queue the job ids keep two pushes, or two
releases, of one bounty apart; a push may run beside a release, and beside an
advance. What any number of instances keeps is proved in section 4, and what it does
not keep is the reason for two restrictions of this run. `Apart` excludes a
push that is about to write the milestone another worker is releasing, for
`PaysOnlyMergedAuthor` only; and `RewriteSettled` is FALSE, for if settled milestones
could be replaced two instances could pay an assignment twice (a push that read the
list before a release writes it after). `settlement_safety` and `settlement_live`
set it to TRUE.

### Fairness

`Settlement`: a started job or handler goes on (tokio polls it), BullMQ serves
every kind of waiting job (`SF` on `Take`: a job may be taken while another
waits), and the scans repeat (`src/src/infra/recovery.rs`). `BountyQueue`: Redis
answers, a waiting caller gets the lock sooner or later, delays end, both kinds
are served, scans repeat. `Funding`: enqueue calls, handlers and wakes go on, the
scan repeats. `Refund`: the worker and a refund that has begun go on; that the
maintainer asks again is a premise of `RefundFinishes`, not an assumption.
`Comments`: tokio runs every job, the clock runs, GitHub handles what reached it.
`Notifications`: calls go on, a waiting job is taken, a request ends.
`Connection`: operations that began go on, calls are made for ever, and the
cached repository and token expire (they have TTLs). Nothing is assumed of users
or GitHub: nobody has to deliver, fund, merge, install or ask.

### Properties worth a word

- `PaysOnlyMergedAuthor`: at the time of the check the pull request is merged
  and the milestone's receiver is the contributor's wallet. Between the check and
  the transfer there are up to four transactions; the wallet, the assignee and the
  milestone may all change, and the receipt must still name the right person.
- `PaidOncePerAssignment`: a receipt carries the *epoch* of the row, the number
  of times an assignment was taken back. Jobs crash after the transfer, are
  retried, recovered and reconciled, and rows are overwritten by late handlers
  ("assigned" and "merged" over "paid"); the milestone's own state must stop the
  second payment.
- `ReadyIsPaid`: `Ready` says everything was done that can be asked for; then the
  bounty does not stay so for ever. It assumes that its jobs failed fewer than
  twenty times, after which recovery gives up by design.
- `NeverSkipped`: a request that finds an advance job pending relies on it, so a
  job whose hop budget is spent must not be the one that is pending. It holds
  without the recovery scan, by the parity of the hop count.
- `Quiet`: without scans and events no bounty keeps itself going.
- `NothingVanishes`: once GitHub was told "accepted" a request is on its way, came
  to something, or can be seen to wait or to have died, although a wake and a
  redelivery may take each other's job away. Two ways out are excused by name:
  a job BullMQ fails for stalling, which nothing records, and a replay that is
  refused because its row is dead, which the code reports as success (`cut`).
- `ListedIsReplayed`, `ComesToRest`: a deposit that finds a waiting request gets it
  run again; and a request that lacks money is not tried for ever.
- `PaidMeansReceived`: a milestone that the refund took back ends like one that was
  paid; the worker, which acts on what it read before, must not record it as paid in
  full. Two exceptions are named. A bounty whose reward was cut for a split is
  recorded whoever resolved its milestone, because `release_split` takes "already
  resolved" for its own success (`automation.rs:648`, `helpers.rs:336`). And the
  milestone of a deleted issue has an amount of zero; its release pays nothing.
- `RefundFinishes`: a refund dies between its transactions and is asked for again;
  what an earlier attempt disputed or resolved does not stop a later one. Two ends
  are excused: the escrow holds less than its open milestones, or one of those has
  an amount of zero, which the code refuses (`escrow_service.rs:578`, `:970`) and
  which the deletion of an issue leaves (`helpers.rs:403`).
- `RefundSettles` and `PaidMeansReceived` rest on a provider that does not replace
  what is settled or disputed, which the repository does not say.
- `OneSender` and `AtMostOnce`: the lease outlives the timeout of the send, so no
  second backend sends; a comment appears twice only if an outcome was lost.
- `StatusIsTrue`, `OneMailPerLapse`: a second e-mail needs a lost call or a crash.
- `FeedIsCurrent`: a reader that read too early stores its list under a version
  nobody asks for any more, so the list under the version in force shows every write
  made before that version was set. It promises no more: a write whose version could
  not be set is missing, and without a version (it expired, or Redis does not answer)
  an old list may be served until its own TTL.
- `RecordSurvives`: the deletion of an earlier row of the repository does not take
  the row, nor the members, of the one that followed it.
- `MaintainersOnly`: memberships, cached repository and cached token may all be stale,
  and roles come and go; who deletes or prices was a maintainer or an administrator
  on GitHub at some time since the request began. The code accepts either role
  (`authorization.rs:108`), so a demotion from the one to the other changes nothing.
- `CallsRecover`: after the last change on GitHub, whatever webhook was late or
  never came, the record comes to name the right installation and calls succeed
  again and again.

### Findings

1. `settlement_cancelled`: `push_milestone` writes "assigned" over a cancellation
   that was handled while its transaction was under way, after the reward
   returned to the pool.
2. `funding_covered`: `sync_balance` replaces the pool by what the contract holds
   before each new bounty, which gives back what earlier bounties reserved and have
   not yet pushed. Two rewards can be promised from the money of one, though
   `docs/PROJECT_GUIDE.md:270` says that no unsafe reservation is made.
3. `refund_pool`: a rejection adds its reward to a balance it read before a refund
   emptied the pool, though `docs/PROJECT_GUIDE.md:236` speaks of balance versioning
   for concurrency-safe refunds. The version is counted up and never compared.

### Seen while modelling

Without a run of their own; the models contain the steps named.

Settlement and queue:

- Without Redis, two requests run `advance_inline` on one bounty
  (`src/src/modules/bounty/service.rs:265`); each finds no milestone index, appends a
  milestone and pays it, although `docs/PROJECT_GUIDE.md:364` says that evaluating
  again prevents a second release: the evaluator looks at the milestone of the row it
  loaded, not at the other run's. (`Settlement` with two executors, `QueueModes =
  {FALSE}`, no faults violates `PaidOncePerAssignment` within seconds.)
- With two instances a push of one rewrites the receiver of a milestone which a
  release of the other has checked: the issue is assigned to somebody else after the
  merge was confirmed, and the release pays that wallet, although
  `docs/APIs.md:426`-`433` asks for a merged pull request of the contributor. (Two
  executors and one reassignment violate `PaysOnlyMergedAuthor` unless `Apart`.)
- A split that fails between dispute and resolution is blocked for ever
  (`automation.rs:250`), although `docs/jobs.md:207` promises retries; so is one whose
  label fails after the resolution, and it is then never recorded as paid.
- The issue's state is not read before a payout (`automation.rs:363`), although
  `docs/jobs.md:152` requires it to be closed.
- `docs/jobs.md:147` lets an amount mismatch block, while the code treats a smaller
  reward as a split; and the check at `automation.rs:257` can never be reached,
  because "paid" returned at line 208.
- A dirty flag set after the worker's last look is not drained (`queue.rs:391`);
  the scans make up for it within minutes (`queue_seen`).
- A push that recovery restarts counts its hops from zero (`recovery.rs:177`), so
  an advance job can wait that is then skipped for its hops.

Funding and refund:

- A request whose row appears after the wake has listed the rows is not woken, and
  the scan takes only `pending` rows, not those that wait for funding: it waits for
  the next deposit, although `escrow/handler.rs:201` says the scanner retries.
- A replay that fails for another reason makes its row dead; the job's own retry
  then finds it dead, is skipped as a success and resolves the row: the request is
  gone (`cut`).
- A request that was superseded may still be applied by a replay that runs.
- Two deposits at once both add to a balance they read; a second creation at the
  same time runs into the unique index and its amount is dropped.
- The dedupe key of a deposit's notice is the repository and the amount, so a
  second deposit of the same amount is not announced.
- A split whose milestone a refund resolved meanwhile is recorded as paid although all
  of it went to the maintainer (`helpers.rs:336`); `docs/PROJECT_GUIDE.md:288` says a
  split payout divides the reward between the two. (`Refund` without the first
  exception of `PaidMeansReceived`.)
- After an issue whose milestone was pushed is deleted, no refund of its repository
  finishes any more (`escrow_service.rs:970`, `helpers.rs:403`), although
  `docs/PROJECT_GUIDE.md:236` says that a refund cancels unpaid bounties. (`Refund`
  without the second excuse of `RefundFinishes`.) A deletion that is retried after it
  zeroed the milestone finds a reward of zero and returns nothing to the pool.
- A crash between the update of the escrow and the save of the index leaves a
  milestone that belongs to no bounty; a refund still takes it back.
- With one wallet the refund releases milestones to the maintainer, and the worker
  then repairs the bounty to "paid"; worker and refund may rewrite each other's
  receiver.
- A refund does not cancel bounties with status "merged", although
  `docs/PROJECT_GUIDE.md:236` says unpaid bounties are cancelled; a crash between
  transfer and `MarkPaid`, followed by a refund, cancels a bounty that was paid.
- The reject command sends the milestone's money to the maintainer and adds the
  reward to the pool as well (`issue_comment.rs:392`-`412`).
- A crash between cancelling and returning the reward (`bounty/repository.rs:408`)
  leaves the money out of the pool until the next sync.

Comments and notifications:

- A POST that timed out, or whose `sent` could not be written, is posted again.
- A crash between the insert of a notification and its job loses the e-mail; a
  spawned delivery that fails leaves "pending"; a transient error on the profile or
  the address is recorded as `skipped_no_email`.
- Identical comments within an hour are taken for one.
- A call that dies before it renews the version leaves an old list until its TTL. So
  does a set that Redis did not take, which nobody is told of (`cache.rs:107`-`150`);
  and when the version itself expires, readers go back to the list under "initial",
  if there still is one (`notification/repository.rs:210`-`236`).
- The unread count is read and then set under a fixed key, so a notification inserted
  in between is missing from it until it expires.

Connection:

- `docs/PROJECT_GUIDE.md:197` says a removal deletes the repository's record; the
  code detaches it and keeps the row.
- A connect that races with an import resets the tiers and erases the installation
  (`repo/repository.rs:203`); calls recover, the tiers do not.
- An import that verified before a removal adds members after it; a removal that
  comes late detaches a repository that was added again to the same installation.
- A deletion looks at the cached balance, so a deposit in between is not seen.
- Rejecting, holding and funding ask only for the local membership.
- Maintainers and tiers have no foreign key; those of a deleted row may remain.

## 4. Proofs

`SettlementProofs` proves, for all values of the constants that satisfy the
assumptions of `Settlement`:

- `TypeCorrect`: `Spec => []TypeOK`;
- `IndexAlwaysOnChain`: `Spec => []IndexOnChain`.

Neither is inductive alone: `chain[row.index]` is only typed if the index is one
of the slots, and whether it is depends on what the jobs hold. The inductive
invariant `Typed` adds to the types *where* a process is: `FrameShape` (a job
about to release has an assignee and a milestone, one about to write the row
holds a slot that was pushed) and `TaskShape` (a handler at a step on the chain
has a milestone). The row is only given a slot in `SaveMilestone`, from a frame
that passed `UpdateEscrow`, and `pushed` never falls; that is the argument for
`IndexOnChain`. Each group of actions is a lemma; `InitTyped`,
`StepTyped` and PTL finish.

`SettlementPayouts` goes on from there, for any number of executors (the workers of
several instances), handlers, contributors and faults:

- `AssignmentPaidOnce`: `Durable` implies `Spec => []PaidOncePerAssignment`;
- `PromiseKept`: `Durable` implies `Spec => KeepsPromise`, the refinement of
  `PayoutPromise`;
- `MergedAuthorsPaid`: `Spec /\ []Apart => []PaysOnlyMergedAuthor`, with a queue or
  without, whatever the provider replaces.

`Durable` says that Redis is reachable (`Queued`) and that update-escrow does not
replace settled milestones (`~RewriteSettled`). Without the first the property is
false, as two inline runs show; without the second it is false for two workers.
`Apart` is a condition on behaviours: no job is about to write a milestone that
another is releasing. One worker keeps it by being alone; two instances can break
it, and then the receiver may change under a release (see above).

The invariant of the first two is `Safe == Typed /\ Serial /\ Settles`, and `Checked`:
past the merge check the contributor is a merged author. `Serial` is what the job ids
give: one push of the bounty at a time, waiting or running, and only a push writes
the list, at the slot of the index it loaded. `Settles` says what a stale snapshot
may still be wrong about. `Current`: it has the index of the present assignment, or
none, or its assignment was taken back; a push has the index exactly. `Agree`: two
snapshots of one assignment do not know different milestones. `Ledger` and
`Unpaid`: once an assignment has a receipt its milestone is spent, in the row and in
every snapshot. So a second transfer for the assignment would be from a milestone
that is spent, and the contract refuses it. `Beside` is what every step of a
handler, a user, GitHub or a scan may do: withdraw, never pay or give an index
(`BesideSettles`). Of a job's own steps, `Onward` gives the route it takes
(`OnwardStage`, `ProgressOnward`), and those that change something have a lemma each:
`LoadSettles`, `SaveSettles`, `PayoutSettles`, `TransferSettles`. `PayMaps` turns a
step that pays into the abstract `Pay`.

The invariant of the third is `Addressees`: besides `Checked`, `Payee` says that from
the merge check on the receiver on chain is the wallet the job compared it with, or
the platform's own account (a zeroed milestone, which pays no contributor), and that
this is a wallet of the contributor. `Apart` is used once, in `UpdateReceivers`:
the only step that could move the receiver does not (`ReceiversKept`).

`BountyQueueProofs` proves, from the assumptions of `BountyQueue` (the callers are
different, the budgets are numbers and the hop budget is even):

- `TypeCorrect`: `Spec => []TypeOK`, which is inductive as it stands;
- `LocksExclude`: `Spec => []LockExclusive`. `LocksHeld` strengthens it: a caller
  that believes it holds a lock is the one the lock names. A lock is only taken
  when it is free, released by its token, and lost in the model to the caller that
  outlived it;
- `AdvanceNeverSkipped`: `Spec => []NeverSkipped`. `HopsBounded` follows the hop count
  through its three places, the job, the request and the run: even and within the
  budget for an advance job, odd for a push. A push only hands over when its count
  is within the budget, and an odd count within an even budget leaves room for
  one more. `WorkerHolds`, that the job of a run that can still fail is active,
  is needed because a failure revives the job with the count it has. The
  recovery scan breaks the parity, which is why it is excluded.

`FundingProofs` proves, from the assumptions of `Funding`:

- `TypeCorrect`: `Spec => []TypeOK`. That the pool stays a natural number is part of
  it: a handler about to write has compared the amount with the balance it writes
  from (`RunShape`), and the money of a deposit is on chain before its balance is
  awaited (`FundShape`); nobody has to have read the pool as it is now;
- `AcceptedIsKept`: `Spec => []NothingVanishes`. A request is `Kept` by its outcome, its
  row or its place in `cut`. Only its own handler, which has its job in the queue,
  may drop the row before there is an outcome, and only if the job is not a
  replay (`RunKeeps`). So a job that is over, that replays, or that was accepted and
  taken away leaves a request that is kept (`JobKeeps`), and a call about to remove
  or replay a job, like the list of a wake, names requests that are kept or being
  worked on (`CallKeeps`, `FundKeeps`): whichever removes the other's job, nothing is
  lost. A job that a crash puts an end to is in `cut`.

`RefundProofs` proves, from the assumptions of `Refund`:

- `TypeCorrect`: `Spec => []TypeOK`. What it says beyond types needs two counts
  (`Counted`). A refund withdraws no more than it may still spend (`Solvent`), since
  each step that takes an amount has compared it first, so neither the escrow nor
  what is left to return falls below zero. And the list of milestones has room
  (`Room`): there is one for each bounty that has an index or is about to save one,
  and one more for each crash between the chain and the index.
  A deletion changes no length, and knows a milestone there is (`RejectRoom`);
- `SettledFirst`: `~RewriteSettled => (Spec => []RefundSettles)`. The contract's list only
  grows, and what is settled stays settled, by a call on one milestone (`Flags`) or by
  update-escrow, which does not touch it under the hypothesis (`ChainGrows`). So a
  refund can go by what it read: the milestones that were settled then, and those it
  has passed, are settled now (`WalkShape`). Nothing else takes part in the argument;
  nobody has to read the list a second time. `Least` is the one fact about the
  walk that needs an induction, taken from the library as a well-founded order;
- `PaidIsReceived`: `~RewriteSettled => (Spec => []PaidMeansReceived)`. With a resolver of
  its own no refund replaces or releases anything; a milestone is as it was pushed
  or zeroed for a deleted issue (`ChainKept`). `RowKept` ties the row, the milestone it
  points to and the money received: a bounty is recorded as paid only if its own
  milestone was released, or resolved after the reward was cut (`SettledFor`).
  `JobKept` says what the worker knows at each stage: it pushes for a row without an
  index, splits only a bounty whose reward was cut, and the document it, or a
  deletion (`RejectKept`), is about to write differs from the chain in what was
  settled or disputed since at most (`DocKept`), which the contract refuses. The
  argument breaks as soon as a resolved milestone counts as a full payout, and the
  proof with it.

`CommentsProofs` proves, from the assumptions of `Comments` (the lease outlives the
timeout and the two delays around it; jobs are neither `Nobody` nor "sent"):

- `TypeCorrect`: `CSpec => []CTypeOK`, with the budget of attempts;
- `SendersExclude`: `CSpec => []OneSender`. The inductive part is `Turns`: a job from
  its claim to its finish owns the key, and the ticks the key has left exceed those
  the job may still take. Time passes only while no deadline is reached, so the
  inequality survives a tick; a claim establishes it, by the assumption on `Lease`;
- `SentStays`: `CSpec => SentIsFinal`. While the key reads "sent" no job owns it, so
  by `Turns` none is sending, a claim is refused, and the key does not expire here
  (`Lasting`);
- `PostedOnce`: `CSpec => []AtMostOnce`. `Ledger` keeps account of requests: what is on
  the wire or posted was begun (`Begun`), never both (`Apart`); of those whose
  outcome is not lost there is at most one (`Single`), and either the key reads
  "sent" or it is the request of the job that sends or finishes (`Owned`), so
  that whoever claims next begins with none.

`NotificationsProofs` proves, from the assumptions of `Notifications` (callers and
workers are finite and different, the direct sender is none of the workers):

- `TypeCorrect`: `NSpec => []NTypeOK`;
- `OneMail`: `NSpec => []OneMailPerLapse`. `Spent` counts what has been mailed together
  with everything that may still mail: a caller ahead of its enqueue, a sender that
  has not mailed or will be retried, a job that waits (`Chances`). Each step hands
  one chance on or uses it up; only a lapse makes another;
- `TrueStatus`: `NSpec => []StatusIsTrue`. While nothing has lapsed there is one caller,
  one run of the job or one direct task ahead of the first e-mail, and the row is
  "pending" until that is through (`Clean`), so the status it read through the
  cache, however late it writes its own, is still the row's;
- `CurrentFeed`: `NSpec => []FeedIsCurrent`. Nothing is filed under a version to come;
  and what is filed, or about to be filed by a reader that began with it, under the
  version in force shows at least what there was when it was set (`Current`, with
  `renewed` as history). A late reader files under the version it began with, and by
  then that is not the one in force. A set that is skipped, or an entry that expires,
  takes something away and adds nothing.

They rest on `Typed` (a job that can run has an attempt left; no sender runs before
the row is there; "sent" comes after an e-mail; the version has been renewed by
as many calls as are past it at most) and on `Turn`, what a step of a sender may do:
look, err, give up, mail, write a status, end or die. `Turning` shows that each
action of the senders is one, so that each invariant is argued once per kind.

`ConnectionProofs` proves, from the assumptions of `Connection`:

- `TypeCorrect`: `Spec => []TypeOK`;
- `AskedByMaintainers`: `Spec => MaintainersOnly`;
- `RecordKept`: `Spec => RecordSurvives`.

The inductive invariant adds `Sound` to the types: what the stage of an
operation says of it (what acts has been checked; a deletion past the look at
the balance saw none; a user who joins is a user) and what `trusted` records:
whoever is a maintainer now was one since the request began, and a deletion or a
price comes only after the check found one. Every step of an operation moves
one: `Fit` is such a step to a sound operation, `StepFits` shows it of each
step, `StepTyped` that the rest keeps its type, and `FitKeeps` puts them
together. A change of roles moves no operation but makes those of a user who is
given a role trusted (`SetRoleKeeps`). `RecordSurvives` then follows step by
step (`StepSurvives`): only `Cascade` takes a row, and it compares ids.

So each invariant of a passing run, and each action property, is a theorem. Only
model-checked are the counterexamples of the findings, which are traces, and the
liveness properties (`Quiet`, `EventSeen`, `ReadyIsPaid`, `ReleaseIsRecorded`,
`ComesToRest`, `ListedIsReplayed`, `RefundFinishes`, `EveryJobEnds`, `StatusSettles`,
`CallsRecover`), which rest on fairness and are out of the prover's reach. Beyond
the assumptions of their modules the theorems assume a provider that leaves settled
milestones alone (the two payout theorems under `Durable` and the two properties of
a refund), a reachable Redis (`Durable`), and `Apart` where the receiver is at stake.

## 5. Not modelled

- Closing an escrow, the platform's fee and its rounding, several wallets'
  validation: the amounts of the models are what the contract takes and gives.
- The decimal split of `bounty/payout.rs`: its second part is the total minus the
  first and its guards refuse zero, so a property would restate them.
- Reopening of issues, pull request labels, ticket form, profiles, disconnecting a
  wallet: they move neither money nor the state of a bounty.
- The dashboard, object storage, the signer, middleware, sessions, rate limits,
  start-up and development tools: I/O around the above, read-only, or wiring.
- Schema and migrations: declarative; the columns that matter are the records of
  the models.
- Several repositories, issues or bounties beyond those of the bounds: nothing in
  the code links two repositories but the installation and the maintainers, and
  the models have one of each.

## 6. What is left

1. Payouts without a queue: the weakest serialisation of HTTP requests under which an
   assignment is paid once; and a worker that stalls and goes on beside its successor.
2. A bound on what one event can make the queue do, the safety half of `Quiet`.
3. The composition of `Settlement` with `Refund` over the whole milestone list of
   several bounties; closing an escrow.
