----------------------------- MODULE Connection -----------------------------
(***************************************************************************)
(* One GitHub repository and its record here: how it is connected,         *)
(* imported, detached, priced and deleted while the App is installed and   *)
(* removed on GitHub, and how a call to GitHub gets its token.             *)
(*                                                                         *)
(* Every request and every webhook of an installation runs on its own, at  *)
(* the same time as the others.  Each reads GitHub, Redis and Postgres and *)
(* writes Postgres and Redis in separate steps.  The repository is cached  *)
(* under its id and under its GitHub id; the two entries are written and   *)
(* deleted together here.                                                  *)
(***************************************************************************)
EXTENDS Naturals

CONSTANTS
  Users,
  Tasks,        \* requests and webhooks, one operation each
  Caller,       \* calls GitHub for the repository over and over, after the tasks
  MaxInstalls,  \* bound: ids GitHub gives to installations
  MaxRows,      \* bound: ids of repository rows
  MaxChanges,   \* bound: what people do on GitHub
  Nobody

Workers == Tasks \cup {Caller}

ASSUME ConnectionAssumption ==
  /\ Caller \notin Tasks /\ Nobody \notin Users
  /\ MaxInstalls \in Nat \ {0} /\ MaxRows \in Nat \ {0}
  /\ MaxChanges \in Nat

VARIABLES
  installed,  \* the installation that covers the repository on GitHub, 0: none
  alive,      \* the App's installation on the owner's account, 0: none
  issued,     \* installation ids given so far
  role,       \* user -> role in the repository on GitHub
  changes,    \* what people did on GitHub so far
  events,     \* installation webhooks GitHub has sent and nobody has handled
  row,        \* the repositories row
  rows,       \* row ids used so far
  members,    \* row id -> users in repo_maintainers
  byId,       \* row id -> cached repository
  byGithubId, \* cached repository
  token,      \* the installation whose token is cached, 0: none
  task        \* operation of each worker

vars == <<installed, alive, issued, role, changes, events, row, rows, members,
          byId, byGithubId, token, task>>

Ids == 1 .. MaxRows
Installs == 0 .. MaxInstalls
Tiers == {"none", "default", "custom"}
Repo == [id : Ids, install : Installs, tiers : Tiers, funded : BOOLEAN]
NoRepo == [id |-> 0, install |-> 0, tiers |-> "none", funded |-> FALSE]
Event == [kind : {"created", "deleted"}, install : Installs \ {0},
          user : Users \cup {Nobody}]

\* Roles below maintain are one.
Roles == {"none", "maintain", "admin"}
Admins == {u \in Users : role[u] = "admin"}
Maintainers == {u \in Users : role[u] # "none"}

Ops == {"connect", "import", "detach", "fund", "delete", "price", "call"}
Stages == {"start", "verify", "lookup", "fill", "create", "reset", "find", "attach",
           "tiers", "join", "detach", "member", "load", "token", "repo",
           "viafill", "exchange", "resolve", "repair", "unlink", "renew",
           "keep", "check", "act", "remove", "cascade", "forget", "done"}

\* repo is the snapshot the operation works on, via the one its token came from.
\* trusted is history: the user was a maintainer on GitHub at some time since the
\* operation began.
Task == [op : Ops, pc : Stages, user : Users \cup {Nobody}, install : Installs,
         repo : Repo \cup {NoRepo}, via : Repo \cup {NoRepo}, trusted : BOOLEAN]
Unstarted == [op |-> "call", pc |-> "start", user |-> Nobody, install |-> 0,
              repo |-> NoRepo, via |-> NoRepo, trusted |-> FALSE]

github == <<installed, alive, issued, role, changes, events>>
record == <<row, rows, members>>
cache == <<byId, byGithubId, token>>

New == [id |-> 1, install |-> 1, tiers |-> "custom", funded |-> FALSE]

\* GitHub knows the repository only, or it was imported and priced long ago, or
\* it was connected again while a deletion of its first row was under way.
\* Some of the tasks may never come.
Never == [Unstarted EXCEPT !.pc = "done"]
LateDeletion(u) ==
  [Unstarted EXCEPT !.op = "delete", !.pc = "remove", !.user = u,
                    !.repo = New, !.via = New, !.install = 1, !.trusted = TRUE]

Init ==
  /\ role = [u \in Users |-> "admin"] /\ changes = 0 /\ events = {}
  /\ byId = [i \in Ids |-> NoRepo] /\ byGithubId = NoRepo /\ token = 0
  /\ \E first \in [Tasks -> {Unstarted, Never} \cup {LateDeletion(u) : u \in Users}] :
       /\ task = [t \in Workers |-> IF t \in Tasks THEN first[t] ELSE Unstarted]
       /\ \/ /\ installed = 0 /\ issued = 0 /\ row = NoRepo /\ rows = 0
             /\ members = [i \in Ids |-> {}]
          \/ /\ installed = 1 /\ issued = 1 /\ row = New /\ rows = 1
             /\ members = [i \in Ids |-> IF i = 1 THEN Users ELSE {}]
          \/ /\ installed = 1 /\ issued = 1 /\ 2 \in Ids
             /\ row = [New EXCEPT !.id = 2] /\ rows = 2
             /\ members = [i \in Ids |-> IF i = 2 THEN Users ELSE {}]
       /\ (\E t \in Tasks : first[t].op = "delete") <=> rows = 2
       /\ alive = installed
-----------------------------------------------------------------------------
(* GitHub *)
Change == changes < MaxChanges /\ changes' = changes + 1

\* The App is installed, or its installation is given the repository again.
Install(u) ==
  /\ Change /\ installed = 0 /\ u \in Admins
  /\ LET n == IF alive = 0 THEN issued + 1 ELSE alive
     IN  /\ n <= MaxInstalls
         /\ installed' = n /\ alive' = n /\ issued' = IF n > issued THEN n ELSE issued
         /\ events' = events \cup {[kind |-> "created", install |-> n, user |-> u]}
  /\ UNCHANGED <<role, record, cache, task>>

Uninstalled ==
  /\ installed' = 0
  /\ events' = events \cup {[kind |-> "deleted", install |-> installed, user |-> Nobody]}

\* The App is removed, or the repository taken from it.
Uninstall ==
  /\ Change /\ installed # 0 /\ Uninstalled
  /\ alive' \in {alive, 0}
  /\ UNCHANGED <<issued, role, record, cache, task>>

SetRole(u, new) ==
  /\ Change /\ role[u] # new /\ role' = [role EXCEPT ![u] = new]
  /\ task' = [t \in Workers |-> IF task[t].user = u /\ new # "none"
                                THEN [task[t] EXCEPT !.trusted = TRUE] ELSE task[t]]
  /\ UNCHANGED <<installed, alive, issued, events, record, cache>>

Expire ==
  /\ \/ \E i \in Ids : /\ byId[i] # NoRepo /\ byId' = [byId EXCEPT ![i] = NoRepo]
                       /\ UNCHANGED <<byGithubId, token>>
     \/ byGithubId # NoRepo /\ byGithubId' = NoRepo /\ UNCHANGED <<byId, token>>
     \/ token # 0 /\ token' = 0 /\ UNCHANGED <<byId, byGithubId>>
  /\ UNCHANGED <<github, record, task>>

-----------------------------------------------------------------------------
(* The start of an operation *)
Begin(t, new) ==
  /\ task[t].pc = "start"
  /\ task' = [task EXCEPT ![t] =
       [new EXCEPT !.trusted = new.user \in Maintainers]]

Request(t) ==
  /\ t \in Tasks
  /\ \E u \in Users :
       \/ Begin(t, [Unstarted EXCEPT !.op = "connect", !.pc = "verify", !.user = u])
       \/ \E n \in 1 .. issued :   \* sync_installation
            Begin(t, [Unstarted EXCEPT !.op = "import", !.pc = "verify",
                                       !.user = u, !.install = n])
       \/ \E i \in 1 .. rows, op \in {"fund", "delete", "price"} :
            Begin(t, [Unstarted EXCEPT !.op = op, !.pc = "member", !.user = u,
                                       !.repo = [NoRepo EXCEPT !.id = i]])
  /\ UNCHANGED <<github, record, cache>>

Webhook(t) ==
  /\ t \in Tasks
  /\ \E e \in events :
       /\ events' = events \ {e}
       /\ Begin(t, [Unstarted EXCEPT
                      !.op = IF e.kind = "created" THEN "import" ELSE "detach",
                      !.pc = IF e.kind = "created" THEN "verify" ELSE "detach",
                      !.user = e.user, !.install = e.install])
  /\ UNCHANGED <<installed, alive, issued, role, changes, record, cache>>

\* Bound: calls race with the requests above, which get tokens too; the
\* endless calls of the Caller begin when these are over.
Settled == \A t \in Tasks : task[t].pc = "done"

Call(t) ==
  /\ t = Caller /\ Settled
  /\ Begin(t, [Unstarted EXCEPT !.pc = "token"])
  /\ UNCHANGED <<github, record, cache>>

-----------------------------------------------------------------------------
(* One step of an operation *)
At(t, pc) == task[t].pc = pc
Go(t, pc) == task' = [task EXCEPT ![t].pc = pc]
Stop(t) == task' = [task EXCEPT ![t] = IF t = Caller THEN Unstarted ELSE Never]
GoIf(t, ok, pc) == IF ok THEN Go(t, pc) ELSE Stop(t)
Read(t, repo, pc) == task' = [task EXCEPT ![t].repo = repo, ![t].pc = pc]
Nothing == UNCHANGED <<github, record, cache>>

Usable(repo) == repo.tiers # "none"
IsRow(id) == row.id = id /\ id # 0

\* The caller's own token shows an admin.
VerifyConnect(t) ==
  /\ At(t, "verify") /\ task[t].op = "connect"
  /\ GoIf(t, task[t].user \in Admins, "lookup")
  /\ Nothing

\* A token of the installation shows an admin.
VerifyImport(t) ==
  /\ At(t, "verify") /\ task[t].op = "import"
  /\ GoIf(t, task[t].user \in Admins /\ installed = task[t].install, "find")
  /\ Nothing

Lookup(t) ==
  /\ At(t, "lookup")
  /\ IF Usable(byGithubId) THEN Read(t, byGithubId, "join")
     ELSE Read(t, row, IF row.id = 0 THEN "create" ELSE "fill")
  /\ Nothing

PutRepo(repo) ==
  byId' = [byId EXCEPT ![repo.id] = repo] /\ byGithubId' = repo /\ UNCHANGED token

Fill(t) ==
  /\ At(t, "fill")
  /\ PutRepo(task[t].repo)
  /\ Go(t, IF task[t].op = "connect" THEN "join" ELSE "token")
  /\ UNCHANGED <<github, record>>

\* Insert on the GitHub id, or update what is there.
Upsert(t, install) ==
  IF row.id = 0
    THEN /\ rows < MaxRows
         /\ rows' = rows + 1
         /\ row' = [NoRepo EXCEPT !.id = rows + 1, !.install = install]
    ELSE row' = [row EXCEPT !.install = install] /\ UNCHANGED rows

\* connect found no row: upsert_repo, with no installation and default tiers.
Create(t) ==
  /\ At(t, "create")
  /\ Upsert(t, 0)
  /\ task' = [task EXCEPT ![t].repo = row', ![t].pc = "reset"]
  /\ UNCHANGED <<github, members, cache>>

Reset(t) ==
  /\ At(t, "reset")
  /\ row' = IF IsRow(task[t].repo.id) THEN [row EXCEPT !.tiers = "default"] ELSE row
  /\ Go(t, "join")
  /\ UNCHANGED <<github, rows, members, cache>>

Find(t) ==
  /\ At(t, "find")
  /\ Read(t, row, "attach")
  /\ Nothing

Attach(t) ==
  /\ At(t, "attach")
  /\ IF task[t].repo.id = 0
       THEN /\ Upsert(t, task[t].install)
            /\ task' = [task EXCEPT ![t].repo = row', ![t].pc = "tiers"]
       ELSE /\ row' = IF IsRow(task[t].repo.id)
                        THEN [row EXCEPT !.install = task[t].install] ELSE row
            /\ Go(t, "tiers") /\ UNCHANGED rows
  /\ UNCHANGED <<github, members, cache>>

\* Missing tiers are inserted, a tier that is there is left alone.
FillTiers(t) ==
  /\ At(t, "tiers")
  /\ row' = IF IsRow(task[t].repo.id) /\ row.tiers = "none"
              THEN [row EXCEPT !.tiers = "default"] ELSE row
  /\ Go(t, "join")
  /\ UNCHANGED <<github, rows, members, cache>>

\* repo_maintainers has no foreign key: the row may be gone.
Join(t) ==
  /\ At(t, "join")
  /\ members' = [members EXCEPT ![task[t].repo.id] = @ \cup {task[t].user}]
  /\ Go(t, "forget")
  /\ UNCHANGED <<github, row, rows, cache>>

\* In one transaction, and only if the row has this installation.
Detach(t) ==
  /\ At(t, "detach")
  /\ IF row.id # 0 /\ row.install = task[t].install
       THEN /\ row' = [row EXCEPT !.install = 0]
            /\ members' = [members EXCEPT ![row.id] = {}]
            /\ Read(t, row, "forget")
       ELSE Stop(t) /\ UNCHANGED <<row, members>>
  /\ UNCHANGED <<github, rows, cache>>

\* invalidate_repo_cache: the repository and its token.
Invalidate(id) ==
  byId' = [byId EXCEPT ![id] = NoRepo] /\ byGithubId' = NoRepo /\ token' = 0

Forget(t) ==
  /\ At(t, "forget")
  /\ Invalidate(task[t].repo.id)
  /\ Stop(t)
  /\ UNCHANGED <<github, record>>

-----------------------------------------------------------------------------
(* What a maintainer asks for: fund, delete, price *)
\* is_maintainer
IsMember(t) ==
  /\ At(t, "member")
  /\ GoIf(t, task[t].user \in members[task[t].repo.id],
          IF task[t].op = "fund" THEN "act" ELSE "load")
  /\ Nothing

\* get_repo_by_id
Load(t) ==
  /\ At(t, "load")
  /\ LET id == task[t].repo.id
     IN IF Usable(byId[id]) THEN Read(t, byId[id], "token")
        ELSE IF IsRow(id) THEN Read(t, row, "fill")
        ELSE Stop(t)
  /\ Nothing

\* get_installation_token: the cached token,
CachedToken(t) ==
  /\ At(t, "token")
  /\ task' = IF token # 0 THEN [task EXCEPT ![t].pc = "check", ![t].install = token]
             ELSE [task EXCEPT ![t].pc = "repo"]
  /\ Nothing

\* or else the repository, cached or not,
TokenRepo(t) ==
  /\ At(t, "repo")
  /\ IF Usable(byGithubId)
       THEN task' = [task EXCEPT ![t].via = byGithubId, ![t].pc = "exchange"]
     ELSE IF row.id = 0 THEN Stop(t)
     ELSE task' = [task EXCEPT ![t].via = row, ![t].pc = "viafill"]
  /\ Nothing

FillVia(t) ==
  /\ At(t, "viafill")
  /\ PutRepo(task[t].via)
  /\ Go(t, "exchange")
  /\ UNCHANGED <<github, record>>

\* a token of the installation it names, whether or not that covers the repository,
Exchange(t) ==
  /\ At(t, "exchange")
  /\ LET n == task[t].via.install
     IN task' = IF n # 0 /\ alive = n
                  THEN [task EXCEPT ![t].install = n, ![t].pc = "keep"]
                  ELSE [task EXCEPT ![t].pc = "resolve"]
  /\ Nothing

\* or of the installation GitHub names, which is then stored.
RepairsUnset(t) == task[t].via.install = 0
NeedsRepair(t) == task[t].via.install # installed

Resolve(t) ==
  /\ At(t, "resolve")
  /\ IF installed = 0 THEN Stop(t)
     ELSE task' = [task EXCEPT ![t].install = installed,
                               ![t].pc = IF NeedsRepair(t) THEN "repair" ELSE "renew"]
  /\ Nothing

Repair(t) ==
  /\ At(t, "repair")
  /\ row' = IF row.id # 0 THEN [row EXCEPT !.install = task[t].install] ELSE row
  /\ Go(t, "unlink")
  /\ UNCHANGED <<github, rows, members, cache>>

Unlink(t) ==
  /\ At(t, "unlink")
  /\ Invalidate(task[t].via.id)
  /\ Go(t, "renew")
  /\ UNCHANGED <<github, record>>

Renew(t) ==
  /\ At(t, "renew")
  /\ GoIf(t, alive = task[t].install, "keep")
  /\ Nothing

Keep(t) ==
  /\ At(t, "keep")
  /\ token' = task[t].install
  /\ Go(t, "check")
  /\ UNCHANGED <<github, record, byId, byGithubId>>

\* require_current_repo_maintainer: GitHub takes the token, and names the
\* user a maintainer or an administrator.  A call of the Caller ends here.
AppInstalled(t) == installed = task[t].install
LiveMaintainer(t) == installed = task[t].install /\ task[t].user \in Maintainers

Check(t) ==
  /\ At(t, "check")
  /\ GoIf(t, t # Caller /\ LiveMaintainer(t), "act")
  /\ Nothing

\* submit_fund, to the repository of the request
Deposit(t) ==
  /\ At(t, "act") /\ task[t].op = "fund"
  /\ row' = IF IsRow(task[t].repo.id) THEN [row EXCEPT !.funded = TRUE] ELSE row
  /\ Go(t, "forget")
  /\ UNCHANGED <<github, rows, members, cache>>

Price(t) ==
  /\ At(t, "act") /\ task[t].op = "price"
  /\ IF IsRow(task[t].repo.id)
       THEN row' = [row EXCEPT !.tiers = "custom"] /\ Go(t, "forget")
       ELSE UNCHANGED row /\ Stop(t)
  /\ UNCHANGED <<github, rows, members, cache>>

\* A repository with money is kept; GitHub gives up the installation first.
Removable(t) ==
  /\ At(t, "act") /\ task[t].op = "delete"
  /\ GoIf(t, ~task[t].repo.funded,
          IF task[t].repo.install = 0 THEN "cascade" ELSE "remove")
  /\ Nothing

RemoveFromGithub(t) ==
  /\ At(t, "remove")
  /\ \/ installed = task[t].repo.install /\ Uninstalled
     \/ UNCHANGED <<installed, events>>
  /\ Go(t, "cascade")
  /\ UNCHANGED <<alive, issued, role, changes, record, cache>>

DeletedByGithubId(t) == row.id # 0
Deleted(t) == IsRow(task[t].repo.id)

\* The row, its maintainers and its bounties, in one transaction; its tiers
\* stay behind under an id that nobody uses again.
ErasedRowOnly == [row EXCEPT !.id = 0]
Erased == NoRepo

Cascade(t) ==
  /\ At(t, "cascade")
  /\ row' = IF Deleted(t) THEN Erased ELSE row
  /\ members' = [members EXCEPT ![task[t].repo.id] = {}]
  /\ Go(t, "forget")
  /\ UNCHANGED <<github, rows, cache>>

-----------------------------------------------------------------------------
Import(t) == VerifyImport(t) \/ Find(t) \/ Attach(t) \/ FillTiers(t)
Connect(t) == VerifyConnect(t) \/ Lookup(t) \/ Create(t) \/ Reset(t)
GetToken(t) ==
  \/ CachedToken(t) \/ TokenRepo(t) \/ FillVia(t) \/ Exchange(t)
  \/ Resolve(t) \/ Repair(t) \/ Unlink(t) \/ Renew(t) \/ Keep(t)
Act(t) ==
  \/ Deposit(t) \/ Price(t) \/ Removable(t) \/ RemoveFromGithub(t) \/ Cascade(t)
Step(t) ==
  \/ Connect(t) \/ Import(t) \/ Fill(t) \/ Join(t) \/ Detach(t)
  \/ Forget(t) \/ IsMember(t) \/ Load(t) \/ GetToken(t) \/ Check(t) \/ Act(t)

Next ==
  \/ \E u \in Users : Install(u) \/ \E new \in Roles : SetRole(u, new)
  \/ Uninstall \/ Expire
  \/ \E t \in Workers : Request(t) \/ Webhook(t) \/ Call(t) \/ Step(t)

Spec == Init /\ [][Next]_vars

\* Begun operations go on, calls to GitHub never stop, cached values expire.
Fairness ==
  /\ \A t \in Workers : WF_vars(Step(t))
  /\ WF_vars(Call(Caller))
  /\ WF_vars(byGithubId' = NoRepo /\ Expire)
  /\ WF_vars(token' = 0 /\ Expire)
FairSpec == Spec /\ Fairness

-----------------------------------------------------------------------------
TypeOK ==
  /\ installed \in Installs /\ alive \in Installs /\ issued \in Installs
  /\ role \in [Users -> Roles]
  /\ events \subseteq Event
  /\ row \in Repo \cup {NoRepo} /\ rows \in 0 .. MaxRows
  /\ members \in [Ids -> SUBSET Users]
  /\ byId \in [Ids -> Repo \cup {NoRepo}] /\ byGithubId \in Repo \cup {NoRepo}
  /\ token \in Installs
  /\ task \in [Workers -> Task]

(* A repository is deleted, or comes to have tiers of its own, only by a    *)
(* request for this very row whose user was a maintainer or an administrator*)
(* on GitHub at some time since the request began, whatever the memberships *)
(* here, the cached repository and the cached token say, and however often  *)
(* the repository was connected again meanwhile.                            *)
MaintainersOnly ==
  [][row.id # 0 /\ (row'.id # row.id \/ (row'.tiers = "custom" /\ row.tiers # "custom")) =>
       \E t \in Tasks : /\ task[t].op \in {"delete", "price"}
                        /\ task[t].repo.id = row.id /\ task[t].trusted
                        /\ task'[t].pc = "forget" /\ task[t].pc # "forget"]_vars

(* The record survives: a row is gone only by a deletion that was asked    *)
(* for this very row and saw no money in it, never by one of an earlier    *)
(* row, and no row takes its place; and its maintainers are kept unless    *)
(* the row is gone or loses its installation in the same step.             *)
RecordSurvives ==
  [][row.id # 0 =>
       /\ row'.id # row.id => \E t \in Tasks :
            /\ task[t].pc = "cascade" /\ row' = NoRepo
            /\ task[t].repo.id = row.id /\ ~task[t].repo.funded
       /\ members[row.id] \subseteq members'[row.id]
            \/ row'.id # row.id \/ row'.install = 0]_vars

(* Once the requests and webhooks are over, as long as the App stays       *)
(* installed and the repository stays connected, the row comes to name the *)
(* installation of GitHub and calls find a token that GitHub takes, again  *)
(* and again, whatever webhook came late or never.                         *)
CallsRecover ==
  <>[](row.id # 0 /\ installed # 0 /\ Settled)
    => []<>(row.install = installed /\ token = installed)
=============================================================================
