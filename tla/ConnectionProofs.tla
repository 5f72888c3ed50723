--------------------------- MODULE ConnectionProofs ---------------------------
(***************************************************************************)
(* Proofs about Connection, for any users, tasks and bounds.               *)
(*                                                                         *)
(* Sound says of one operation what its stage stands for: a user who is    *)
(* a maintainer now was one at some time since the request began, and what *)
(* has come to the stage of acting was checked against GitHub; a deletion  *)
(* that has come past the look at the balance saw none.  Every step moves  *)
(* one operation, so Fit, the step of one operation to a sound one, is all *)
(* that has to be shown of each; a change of roles is looked at apart.     *)
(***************************************************************************)
EXTENDS Connection, TLAPS

Acting == {"act", "remove", "cascade"}

\* Stages with a user whom GitHub, or the request, named.
Named == {"lookup", "create", "reset", "find", "attach", "tiers", "join", "fill",
          "member", "load"}

Sound(t, k) ==
  /\ k.pc \in Named => k.user \in Users
  /\ k.pc = "member" => t \in Tasks /\ k.repo.id \in Ids
  /\ k.pc = "load" => k.repo.id \in Ids
  /\ k.pc = "remove" => k.repo.install # 0
  /\ k.pc \in Acting => t \in Tasks /\ (k.op \in {"delete", "price"} => k.trusted)
  /\ k.pc \in {"remove", "cascade"} => k.op = "delete" /\ ~k.repo.funded
  /\ k.pc # "start" /\ k.user \in Maintainers => k.trusted

Inv == TypeOK /\ \A t \in Workers : Sound(t, task[t])

\* TypeOK without the operations.
WorldTyped ==
  /\ installed \in Installs /\ alive \in Installs /\ issued \in Installs
  /\ role \in [Users -> Roles]
  /\ events \subseteq Event
  /\ row \in Repo \cup {NoRepo} /\ rows \in 0 .. MaxRows
  /\ members \in [Ids -> SUBSET Users]
  /\ byId \in [Ids -> Repo \cup {NoRepo}] /\ byGithubId \in Repo \cup {NoRepo}
  /\ token \in Installs

Fit(t) == \E new \in Task : task' = [task EXCEPT ![t] = new] /\ Sound(t, new)

\* Stages that say nothing about the operation, but who it is for.
Plain == Stages \ ({"start", "member", "load"} \cup Acting)

LEMMA NoRepoTyped ==
  NoRepo.id = 0 /\ NoRepo.install = 0 /\ NoRepo.funded = FALSE /\ NoRepo.tiers = "none"
BY DEF NoRepo

LEMMA RepoFields ==
  ASSUME NEW r \in Repo \cup {NoRepo}
  PROVE  /\ r.install \in Installs /\ r.tiers \in Tiers /\ r.funded \in BOOLEAN
         /\ r.id \in Nat /\ (r.id # 0 => r \in Repo) /\ (r.id = 0 => r = NoRepo)
<1>1. 0 \in Installs
  BY ConnectionAssumption DEF Installs
<1>2. CASE r \in Repo
  <2>1. r.id \in Ids /\ r.id # 0 /\ r.id \in Nat
    BY <1>2, ConnectionAssumption DEF Repo, Ids
  <2> QED BY <1>2, <2>1 DEF Repo
<1>3. CASE r = NoRepo
  BY <1>1, <1>3 DEF NoRepo, Tiers
<1> QED BY <1>2, <1>3

LEMMA TaskFields ==
  ASSUME Inv, NEW t \in Workers
  PROVE  /\ task[t] \in Task
         /\ task[t].repo \in Repo \cup {NoRepo} /\ task[t].via \in Repo \cup {NoRepo}
         /\ task[t].install \in Installs /\ task[t].user \in Users \cup {Nobody}
         /\ Sound(t, task[t])
BY DEF Inv, TypeOK, Task

LEMMA TypedParts ==
  ASSUME Inv PROVE WorldTyped /\ task \in [Workers -> Task]
BY DEF Inv, TypeOK, WorldTyped

LEMMA UpsertTyped ==
  ASSUME Inv, NEW t, NEW n \in Installs, Upsert(t, n)
  PROVE  row' \in Repo \cup {NoRepo} /\ rows' \in 0 .. MaxRows
<1>0. row \in Repo \cup {NoRepo} /\ rows \in 0 .. MaxRows
  BY TypedParts DEF WorldTyped
<1>1. CASE row.id = 0
  <2>1. rows + 1 \in Ids /\ rows' = rows + 1
    BY <1>0, <1>1, ConnectionAssumption DEF Upsert, Ids
  <2>2. row' = [NoRepo EXCEPT !.id = rows + 1, !.install = n]
    BY <1>1 DEF Upsert
  <2>3. row' = [id |-> rows + 1, install |-> n, tiers |-> "none", funded |-> FALSE]
    BY <2>2 DEF NoRepo
  <2>4. row' \in Repo
    BY <2>1, <2>3 DEF Repo, Tiers
  <2> QED BY <2>1, <2>4, ConnectionAssumption DEF Ids
<1>2. CASE row.id # 0
  <2>1. row \in Repo
    BY <1>0, <1>2, RepoFields
  <2> QED BY <1>0, <1>2, <2>1 DEF Upsert, Repo
<1> QED BY <1>1, <1>2

(* The step of one operation keeps the invariant, if the rest keeps its    *)
(* type and nobody's role changes.                                         *)
LEMMA FitKeeps ==
  ASSUME Inv, NEW t \in Workers, Fit(t), WorldTyped', role' = role
  PROVE  Inv'
<1>1. PICK new \in Task : task' = [task EXCEPT ![t] = new] /\ Sound(t, new)
  BY DEF Fit
<1>2. task' \in [Workers -> Task]
  BY <1>1 DEF Inv, TypeOK
<1>3. TypeOK'
  BY <1>2 DEF WorldTyped, TypeOK
<1>4. ASSUME NEW u \in Workers PROVE Sound(u, task[u])'
  <2>1. task'[u] = IF u = t THEN new ELSE task[u]
    BY <1>1 DEF Inv, TypeOK
  <2>2. Sound(u, task'[u])
    BY <1>1, <2>1 DEF Inv
  <2> QED BY <2>2 DEF Sound, Maintainers
<1> QED BY <1>3, <1>4 DEF Inv

LEMMA GoFits ==
  ASSUME Inv, NEW t \in Workers, task[t].pc # "start", NEW pc \in Plain, Go(t, pc),
         pc \in Named => task[t].user \in Users
  PROVE  Fit(t)
<1> DEFINE new == [task[t] EXCEPT !.pc = pc]
<1>1. task' = [task EXCEPT ![t] = new]
  BY DEF Go, Inv, TypeOK
<1>2. new \in Task
  BY TaskFields DEF Task, Plain
<1>3. new.pc = pc /\ new.user = task[t].user /\ new.trusted = task[t].trusted
  BY TaskFields DEF Task
<1>4. Sound(t, new)
  BY <1>3, TaskFields DEF Sound, Plain, Acting, Named
<1> QED BY <1>1, <1>2, <1>4 DEF Fit

LEMMA ReadFits ==
  ASSUME Inv, NEW t \in Workers, task[t].pc # "start", NEW pc \in Plain,
         NEW repo \in Repo \cup {NoRepo}, Read(t, repo, pc),
         pc \in Named => task[t].user \in Users
  PROVE  Fit(t)
<1> DEFINE new == [task[t] EXCEPT !.repo = repo, !.pc = pc]
<1>1. task' = [task EXCEPT ![t] = new]
  BY DEF Read, Inv, TypeOK
<1>2. new \in Task
  BY TaskFields DEF Task, Plain
<1>3. new.pc = pc /\ new.user = task[t].user /\ new.trusted = task[t].trusted
  BY TaskFields DEF Task
<1>4. Sound(t, new)
  BY <1>3, TaskFields DEF Sound, Plain, Acting, Named
<1> QED BY <1>1, <1>2, <1>4 DEF Fit

LEMMA NeverSound ==
  ASSUME NEW t PROVE Never \in Task /\ Sound(t, Never)
<1>1. Unstarted \in Task
  BY ConnectionAssumption DEF Unstarted, Task, Ops, Stages, Installs
<1>2. Never \in Task /\ Never.pc = "done" /\ Never.user = Nobody
  BY <1>1 DEF Never, Unstarted, Task, Stages
<1>3. Nobody \notin Maintainers
  BY ConnectionAssumption DEF Maintainers
<1> QED BY <1>2, <1>3 DEF Sound, Acting, Named

LEMMA StopFits ==
  ASSUME Inv, NEW t \in Workers, task[t].pc # "start", Stop(t)
  PROVE  Fit(t)
<1>1. CASE t = Caller
  <2>1. task' = [task EXCEPT ![t] = Unstarted]
    BY <1>1 DEF Stop
  <2>2. Unstarted \in Task
    BY ConnectionAssumption
    DEF Unstarted, Task, Ops, Stages, Installs
  <2>3. Sound(t, Unstarted)
    BY DEF Sound, Unstarted, Acting, Named
  <2> QED BY <2>1, <2>2, <2>3 DEF Fit
<1>2. CASE t # Caller
  <2>1. task' = [task EXCEPT ![t] = Never]
    BY <1>2 DEF Stop
  <2> QED BY <2>1, NeverSound DEF Fit
<1> QED BY <1>1, <1>2

LEMMA PlainStages ==
  {"lookup", "fill", "create", "reset", "find", "attach", "tiers", "join", "token",
   "repo", "viafill", "exchange", "resolve", "repair", "unlink", "renew", "keep",
   "check", "forget", "verify", "detach", "done"} \subseteq Plain
BY DEF Plain, Stages, Acting

LEMMA GoIfFits ==
  ASSUME Inv, NEW t \in Workers, task[t].pc # "start", NEW pc \in Plain,
         NEW ok \in BOOLEAN, GoIf(t, ok, pc),
         pc \in Named => task[t].user \in Users
  PROVE  Fit(t)
BY GoFits, StopFits DEF GoIf

LEMMA PlainFits ==
  ASSUME Inv, NEW t \in Workers, task[t].pc # "start", NEW new \in Task,
         task' = [task EXCEPT ![t] = new], new.pc \in Plain,
         new.user = task[t].user, new.trusted = task[t].trusted,
         new.pc \in Named => task[t].user \in Users
  PROVE  Fit(t)
<1>1. Sound(t, new)
  BY TaskFields DEF Sound, Plain, Acting, Named
<1> QED BY <1>1 DEF Fit

(* An operation that has been checked, or needs no check, comes to act. *)
LEMMA ActFits ==
  ASSUME Inv, NEW t \in Tasks, NEW pc \in Acting, task[t].pc # "start", Go(t, pc),
         task[t].op \in {"delete", "price"} => task[t].trusted,
         pc = "remove" => task[t].repo.install # 0,
         pc \in {"remove", "cascade"} => task[t].op = "delete" /\ ~task[t].repo.funded
  PROVE  Fit(t)
<1> DEFINE new == [task[t] EXCEPT !.pc = pc]
<1>0. t \in Workers
  BY DEF Workers
<1>1. task' = [task EXCEPT ![t] = new]
  BY <1>0 DEF Go, Inv, TypeOK
<1>2. new \in Task
  BY <1>0, TaskFields DEF Task, Acting, Stages
<1>3. /\ new.pc = pc /\ new.user = task[t].user /\ new.trusted = task[t].trusted
      /\ new.repo = task[t].repo /\ new.op = task[t].op
  BY <1>0, TaskFields DEF Task
<1>4. Sound(t, new)
  BY <1>0, <1>3, TaskFields DEF Sound, Acting, Named
<1> QED BY <1>0, <1>1, <1>2, <1>4 DEF Fit

LEMMA ConnectFits ==
  ASSUME Inv, NEW t \in Workers, Connect(t) \/ Import(t) PROVE Fit(t)
<1> USE PlainStages DEF At, Named
<1>u. task[t].pc \in Named \/ task[t].user \in Admins => task[t].user \in Users
  BY TaskFields DEF Sound, Admins
<1>0. row \in Repo \cup {NoRepo} /\ byGithubId \in Repo \cup {NoRepo}
  BY TypedParts DEF WorldTyped
<1>1. CASE VerifyConnect(t)
  BY <1>1, <1>u, GoFits, StopFits DEF VerifyConnect, GoIf
<1>2. CASE VerifyImport(t)
  BY <1>2, <1>u, GoFits, StopFits DEF VerifyImport, GoIf
<1>3. CASE Lookup(t)
  <2>1. CASE Usable(byGithubId)
    BY <1>0, <1>3, <2>1, <1>u, ReadFits DEF Lookup
  <2>2. CASE ~Usable(byGithubId) /\ row.id = 0
    BY <1>0, <1>3, <2>2, <1>u, ReadFits DEF Lookup
  <2>3. CASE ~Usable(byGithubId) /\ row.id # 0
    BY <1>0, <1>3, <2>3, <1>u, ReadFits DEF Lookup
  <2> QED BY <2>1, <2>2, <2>3
<1>4. CASE Create(t)
  <2> DEFINE new == [task[t] EXCEPT !.repo = row', !.pc = "reset"]
  <2>1. row' \in Repo \cup {NoRepo}
    BY <1>4, UpsertTyped, ConnectionAssumption DEF Create, Installs
  <2>2. task' = [task EXCEPT ![t] = new]
    BY <1>4 DEF Create, Inv, TypeOK
  <2>3. new \in Task
    BY <2>1, TaskFields DEF Task, Stages
  <2>4. new.pc = "reset" /\ new.user = task[t].user /\ new.trusted = task[t].trusted
    BY TaskFields DEF Task
  <2> QED BY <1>4, <2>2, <2>3, <2>4, <1>u, PlainFits DEF Create
<1>5. CASE Reset(t)
  BY <1>5, <1>u, GoFits DEF Reset
<1>6. CASE Find(t)
  BY <1>0, <1>6, <1>u, ReadFits DEF Find
<1>7. CASE Attach(t)
  <2>1. CASE task[t].repo.id = 0
    <3> DEFINE new == [task[t] EXCEPT !.repo = row', !.pc = "tiers"]
    <3>1. row' \in Repo \cup {NoRepo}
      BY <1>7, <2>1, UpsertTyped, TaskFields DEF Attach
    <3>2. task' = [task EXCEPT ![t] = new]
      BY <1>7, <2>1 DEF Attach, Inv, TypeOK
    <3>3. new \in Task
      BY <3>1, TaskFields DEF Task, Stages
    <3>4. new.pc = "tiers" /\ new.user = task[t].user /\ new.trusted = task[t].trusted
      BY TaskFields DEF Task
    <3> QED BY <1>7, <3>2, <3>3, <3>4, <1>u, PlainFits DEF Attach
  <2>2. CASE task[t].repo.id # 0
    BY <1>7, <2>2, <1>u, GoFits DEF Attach
  <2> QED BY <2>1, <2>2
<1>8. CASE FillTiers(t)
  BY <1>8, <1>u, GoFits DEF FillTiers
<1> QED BY <1>1, <1>2, <1>3, <1>4, <1>5, <1>6, <1>7, <1>8 DEF Connect, Import

LEMMA TokenFits ==
  ASSUME Inv, NEW t \in Workers, GetToken(t) PROVE Fit(t)
<1> USE PlainStages DEF At, Named
<1>0. /\ row \in Repo \cup {NoRepo} /\ byGithubId \in Repo \cup {NoRepo}
      /\ token \in Installs /\ installed \in Installs
  BY TypedParts DEF WorldTyped
<1>1. ASSUME NEW pc \in Plain, NEW n \in Installs, task[t].pc # "start",
             task' = [task EXCEPT ![t].install = n, ![t].pc = pc], pc \notin Named
      PROVE  Fit(t)
  <2> DEFINE new == [task[t] EXCEPT !.install = n, !.pc = pc]
  <2>1. task' = [task EXCEPT ![t] = new]
    BY <1>1 DEF Inv, TypeOK
  <2>2. new \in Task
    BY TaskFields DEF Task, Plain
  <2>3. new.pc = pc /\ new.user = task[t].user /\ new.trusted = task[t].trusted
    BY TaskFields DEF Task
  <2> QED BY <1>1, <2>1, <2>2, <2>3, PlainFits
<1>2. ASSUME NEW pc \in Plain, NEW r \in Repo \cup {NoRepo}, task[t].pc # "start",
             task' = [task EXCEPT ![t].via = r, ![t].pc = pc], pc \notin Named
      PROVE  Fit(t)
  <2> DEFINE new == [task[t] EXCEPT !.via = r, !.pc = pc]
  <2>1. task' = [task EXCEPT ![t] = new]
    BY <1>2 DEF Inv, TypeOK
  <2>2. new \in Task
    BY TaskFields DEF Task, Plain
  <2>3. new.pc = pc /\ new.user = task[t].user /\ new.trusted = task[t].trusted
    BY TaskFields DEF Task
  <2> QED BY <1>2, <2>1, <2>2, <2>3, PlainFits
<1>3. CASE CachedToken(t)
  <2>1. CASE token # 0
    <3>1. task' = [task EXCEPT ![t].install = token, ![t].pc = "check"]
      BY <1>3, <2>1, TaskFields DEF CachedToken, Inv, TypeOK, Task
    <3> QED BY <1>0, <1>1, <1>3, <3>1 DEF CachedToken
  <2>2. CASE token = 0
    BY <1>3, <2>2, GoFits DEF CachedToken, Go
  <2> QED BY <2>1, <2>2
<1>4. CASE TokenRepo(t)
  <2>1. CASE Usable(byGithubId)
    BY <1>0, <1>2, <1>4, <2>1 DEF TokenRepo
  <2>2. CASE ~Usable(byGithubId) /\ row.id = 0
    BY <1>4, <2>2, StopFits DEF TokenRepo
  <2>3. CASE ~Usable(byGithubId) /\ row.id # 0
    BY <1>0, <1>2, <1>4, <2>3 DEF TokenRepo
  <2> QED BY <2>1, <2>2, <2>3
<1>5. CASE FillVia(t)
  BY <1>5, GoFits DEF FillVia
<1>6. CASE Exchange(t)
  <2>0. task[t].via.install \in Installs
    BY TaskFields, RepoFields
  <2>1. CASE task[t].via.install # 0 /\ alive = task[t].via.install
    BY <1>1, <1>6, <2>0, <2>1 DEF Exchange
  <2>2. CASE ~(task[t].via.install # 0 /\ alive = task[t].via.install)
    BY <1>6, <2>2, GoFits DEF Exchange, Go
  <2> QED BY <2>1, <2>2
<1>7. CASE Resolve(t)
  <2>1. CASE installed = 0
    BY <1>7, <2>1, StopFits DEF Resolve
  <2>2. CASE installed # 0 /\ NeedsRepair(t)
    BY <1>0, <1>1, <1>7, <2>2 DEF Resolve
  <2>3. CASE installed # 0 /\ ~NeedsRepair(t)
    BY <1>0, <1>1, <1>7, <2>3 DEF Resolve
  <2> QED BY <2>1, <2>2, <2>3
<1>8. CASE Repair(t)
  BY <1>8, GoFits DEF Repair
<1>9. CASE Unlink(t)
  BY <1>9, GoFits DEF Unlink
<1>10. CASE Renew(t)
  BY <1>10, GoIfFits DEF Renew
<1>11. CASE Keep(t)
  BY <1>11, GoFits DEF Keep
<1> QED BY <1>3, <1>4, <1>5, <1>6, <1>7, <1>8, <1>9, <1>10, <1>11 DEF GetToken

LEMMA ActStepFits ==
  ASSUME Inv, NEW t \in Workers, Act(t) PROVE Fit(t)
<1> USE PlainStages DEF At, Named
<1>1. CASE Deposit(t)
  BY <1>1, GoFits DEF Deposit
<1>2. CASE Price(t)
  <2>1. CASE IsRow(task[t].repo.id)
    BY <1>2, <2>1, GoFits DEF Price
  <2>2. CASE ~IsRow(task[t].repo.id)
    BY <1>2, <2>2, StopFits DEF Price
  <2> QED BY <2>1, <2>2
<1>3. CASE Removable(t)
  <2>0. t \in Tasks /\ task[t].trusted
    BY <1>3, TaskFields DEF Removable, Sound, Acting
  <2>1. CASE task[t].repo.funded
    BY <1>3, <2>1, StopFits DEF Removable, GoIf
  <2>2. CASE ~task[t].repo.funded /\ task[t].repo.install = 0
    BY <1>3, <2>0, <2>2, ActFits DEF Removable, GoIf, Acting
  <2>3. CASE ~task[t].repo.funded /\ task[t].repo.install # 0
    BY <1>3, <2>0, <2>3, ActFits DEF Removable, GoIf, Acting
  <2> QED BY <2>1, <2>2, <2>3
<1>4. CASE RemoveFromGithub(t)
  BY <1>4, TaskFields, ActFits DEF RemoveFromGithub, Sound, Acting
<1>5. CASE Cascade(t)
  BY <1>5, GoFits DEF Cascade
<1> QED BY <1>1, <1>2, <1>3, <1>4, <1>5 DEF Act

LEMMA StepFits ==
  ASSUME Inv, NEW t \in Workers, Step(t) PROVE Fit(t)
<1> USE PlainStages DEF At, Named
<1>0. row \in Repo \cup {NoRepo} /\ byId \in [Ids -> Repo \cup {NoRepo}]
  BY TypedParts DEF WorldTyped
<1>1. CASE Connect(t) \/ Import(t)
  BY <1>1, ConnectFits
<1>2. CASE Fill(t)
  <2>0. task[t].user \in Users
    BY <1>2, TaskFields DEF Fill, Sound
  <2>1. CASE task[t].op = "connect"
    BY <1>2, <2>0, <2>1, GoFits DEF Fill
  <2>2. CASE task[t].op # "connect"
    BY <1>2, <2>2, GoFits DEF Fill
  <2> QED BY <2>1, <2>2
<1>3. CASE Join(t)
  BY <1>3, GoFits DEF Join
<1>4. CASE Detach(t)
  <2>1. CASE row.id # 0 /\ row.install = task[t].install
    BY <1>0, <1>4, <2>1, ReadFits DEF Detach
  <2>2. CASE ~(row.id # 0 /\ row.install = task[t].install)
    BY <1>4, <2>2, StopFits DEF Detach
  <2> QED BY <2>1, <2>2
<1>5. CASE Forget(t)
  BY <1>5, StopFits DEF Forget
<1>6. CASE IsMember(t)
  <2>0. t \in Tasks
    BY <1>6, TaskFields DEF IsMember, Sound
  <2>1. CASE task[t].user \notin members[task[t].repo.id]
    BY <1>6, <2>1, StopFits DEF IsMember, GoIf
  <2>2. CASE task[t].user \in members[task[t].repo.id] /\ task[t].op = "fund"
    BY <1>6, <2>0, <2>2, ActFits DEF IsMember, GoIf, Acting
  <2>3. CASE task[t].user \in members[task[t].repo.id] /\ task[t].op # "fund"
    <3> DEFINE new == [task[t] EXCEPT !.pc = "load"]
    <3>1. task' = [task EXCEPT ![t] = new]
      BY <1>6, <2>3 DEF IsMember, GoIf, Go, Inv, TypeOK
    <3>2. new \in Task
      BY TaskFields DEF Task, Stages
    <3>3. /\ new.pc = "load" /\ new.user = task[t].user
          /\ new.trusted = task[t].trusted /\ new.repo = task[t].repo
      BY TaskFields DEF Task
    <3>4. Sound(t, new)
      BY <1>6, <3>3, TaskFields DEF IsMember, Sound, Acting
    <3> QED BY <3>1, <3>2, <3>4 DEF Fit
  <2> QED BY <2>1, <2>2, <2>3
<1>7. CASE Load(t)
  <2>1. CASE Usable(byId[task[t].repo.id])
    <3>1. task[t].repo.id \in Ids
      BY <1>7, TaskFields DEF Load, Sound
    <3> QED BY <1>0, <1>7, <2>1, <3>1, ReadFits DEF Load
  <2>2. CASE ~Usable(byId[task[t].repo.id]) /\ IsRow(task[t].repo.id)
    <3>1. task[t].user \in Users
      BY <1>7, TaskFields DEF Load, Sound
    <3> QED BY <1>0, <1>7, <2>2, <3>1, ReadFits DEF Load
  <2>3. CASE ~Usable(byId[task[t].repo.id]) /\ ~IsRow(task[t].repo.id)
    BY <1>7, <2>3, StopFits DEF Load
  <2> QED BY <2>1, <2>2, <2>3
<1>8. CASE GetToken(t)
  BY <1>8, TokenFits
<1>9. CASE Check(t)
  <2>1. CASE t # Caller /\ LiveMaintainer(t)
    <3>1. t \in Tasks /\ task[t].trusted
      BY <1>9, <2>1, TaskFields DEF Check, LiveMaintainer, Sound, Workers
    <3> QED BY <1>9, <2>1, <3>1, ActFits DEF Check, GoIf, Acting
  <2>2. CASE ~(t # Caller /\ LiveMaintainer(t))
    BY <1>9, <2>2, StopFits DEF Check, GoIf
  <2> QED BY <2>1, <2>2
<1>10. CASE Act(t)
  BY <1>10, ActStepFits
<1> QED BY <1>1, <1>2, <1>3, <1>4, <1>5, <1>6, <1>7, <1>8, <1>9, <1>10 DEF Step

(* A change of one column leaves a row.                                    *)
LEMMA RowTyped ==
  ASSUME NEW r \in Repo \cup {NoRepo}, r.id # 0
  PROVE  /\ \A n \in Installs : [r EXCEPT !.install = n] \in Repo
         /\ \A p \in Tiers : [r EXCEPT !.tiers = p] \in Repo
         /\ \A f \in BOOLEAN : [r EXCEPT !.funded = f] \in Repo
<1>1. r \in Repo
  BY RepoFields
<1> QED BY <1>1 DEF Repo

LEMMA StepTyped ==
  ASSUME Inv, NEW t \in Workers, Step(t)
  PROVE  WorldTyped' /\ role' = role
<1>0. /\ WorldTyped /\ row \in Repo \cup {NoRepo} /\ 0 \in Installs
      /\ task[t].repo \in Repo \cup {NoRepo} /\ task[t].via \in Repo \cup {NoRepo}
      /\ task[t].install \in Installs /\ task[t].user \in Users \cup {Nobody}
  BY TypedParts, TaskFields, ConnectionAssumption DEF WorldTyped, Installs
<1> DEFINE Outside == github' = github
           Stored == row' \in Repo \cup {NoRepo} /\ rows' \in 0 .. MaxRows
                       /\ members' \in [Ids -> SUBSET Users]
           Cached == /\ byId' \in [Ids -> Repo \cup {NoRepo}]
                     /\ byGithubId' \in Repo \cup {NoRepo} /\ token' \in Installs
<1>a. Outside /\ Stored /\ Cached => WorldTyped' /\ role' = role
  BY <1>0 DEF WorldTyped, github
<1>b. UNCHANGED <<row, rows, members>> => Stored
  BY <1>0 DEF WorldTyped
<1>c. UNCHANGED <<byId, byGithubId, token>> => Cached
  BY <1>0 DEF WorldTyped
<1>d. Nothing => Outside /\ Stored /\ Cached
  BY <1>b, <1>c DEF Nothing, record, cache
<1>e. ASSUME NEW r \in Repo \cup {NoRepo}, PutRepo(r) PROVE Cached
  BY <1>0, <1>e DEF PutRepo, WorldTyped
<1>f. ASSUME NEW i, Invalidate(i) PROVE Cached
  BY <1>0, <1>f DEF Invalidate, WorldTyped
<1>g. UNCHANGED cache => Cached
  BY <1>c DEF cache
<1>h. UNCHANGED record => Stored
  BY <1>b DEF record
<1>i. row' \in Repo \cup {NoRepo} /\ UNCHANGED <<rows, members>> => Stored
  BY <1>0 DEF WorldTyped
<1>j. UNCHANGED members /\ row' \in Repo \cup {NoRepo} /\ rows' \in 0 .. MaxRows => Stored
  BY <1>0 DEF WorldTyped
<1> HIDE DEF Outside, Stored, Cached
<1>1. CASE Connect(t)
  <2>1. CASE VerifyConnect(t)
    BY <1>a, <1>d, <2>1 DEF VerifyConnect
  <2>2. CASE Lookup(t)
    BY <1>a, <1>d, <2>2 DEF Lookup
  <2>3. CASE Create(t)
    <3>1. Stored
      BY <1>0, <1>j, <2>3, UpsertTyped DEF Create
    <3> QED BY <1>a, <1>g, <2>3, <3>1 DEF Create, Outside
  <2>4. CASE Reset(t)
    <3>1. row' \in Repo \cup {NoRepo}
      BY <1>0, <2>4, RowTyped DEF Reset, IsRow, Tiers
    <3> QED BY <1>a, <1>g, <1>i, <2>4, <3>1 DEF Reset, Outside
  <2> QED BY <1>1, <2>1, <2>2, <2>3, <2>4 DEF Connect
<1>2. CASE Import(t)
  <2>1. CASE VerifyImport(t)
    BY <1>a, <1>d, <2>1 DEF VerifyImport
  <2>2. CASE Find(t)
    BY <1>a, <1>d, <2>2 DEF Find
  <2>3. CASE Attach(t)
    <3>1. row' \in Repo \cup {NoRepo} /\ rows' \in 0 .. MaxRows
      <4>1. CASE task[t].repo.id = 0
        BY <1>0, <2>3, <4>1, UpsertTyped DEF Attach
      <4>2. CASE task[t].repo.id # 0
        BY <1>0, <2>3, <4>2, RowTyped DEF Attach, IsRow, WorldTyped
      <4> QED BY <4>1, <4>2
    <3> QED BY <1>a, <1>g, <1>j, <2>3, <3>1 DEF Attach, Outside
  <2>4. CASE FillTiers(t)
    <3>1. row' \in Repo \cup {NoRepo}
      BY <1>0, <2>4, RowTyped DEF FillTiers, IsRow, Tiers
    <3> QED BY <1>a, <1>g, <1>i, <2>4, <3>1 DEF FillTiers, Outside
  <2> QED BY <1>2, <2>1, <2>2, <2>3, <2>4 DEF Import
<1>3. CASE Fill(t)
  BY <1>0, <1>3, <1>a, <1>e, <1>h DEF Fill, Outside
<1>4. CASE Join(t)
  <2>1. task[t].user \in Users
    BY <1>4, TaskFields DEF Join, At, Sound, Named
  <2>2. members' \in [Ids -> SUBSET Users]
    BY <1>0, <1>4, <2>1 DEF Join, WorldTyped
  <2>3. Stored
    BY <1>0, <1>4, <2>2 DEF Join, Stored, WorldTyped
  <2> QED BY <1>4, <1>a, <1>g, <2>3 DEF Join, Outside
<1>5. CASE Detach(t)
  <2>1. CASE row.id # 0 /\ row.install = task[t].install
    <3>1. row' \in Repo \cup {NoRepo}
      BY <1>0, <1>5, <2>1, RowTyped DEF Detach
    <3>2. members' \in [Ids -> SUBSET Users]
      BY <1>0, <1>5, <2>1 DEF Detach, WorldTyped
    <3>3. Stored
      BY <1>0, <1>5, <3>1, <3>2 DEF Detach, Stored, WorldTyped
    <3> QED BY <1>5, <1>a, <1>g, <3>3 DEF Detach, Outside
  <2>2. CASE ~(row.id # 0 /\ row.install = task[t].install)
    BY <1>5, <1>a, <1>b, <1>g, <2>2 DEF Detach, Outside
  <2> QED BY <2>1, <2>2
<1>6. CASE Forget(t)
  BY <1>6, <1>a, <1>f, <1>h DEF Forget, Outside
<1>7. CASE IsMember(t)
  BY <1>7, <1>a, <1>d DEF IsMember
<1>8. CASE Load(t)
  BY <1>8, <1>a, <1>d DEF Load
<1>9. CASE GetToken(t)
  <2>1. CASE CachedToken(t) \/ TokenRepo(t) \/ Exchange(t) \/ Resolve(t) \/ Renew(t)
    BY <1>a, <1>d, <2>1 DEF CachedToken, TokenRepo, Exchange, Resolve, Renew
  <2>2. CASE FillVia(t)
    BY <1>0, <1>a, <1>e, <1>h, <2>2 DEF FillVia, Outside
  <2>3. CASE Repair(t)
    <3>1. row' \in Repo \cup {NoRepo}
      BY <1>0, <2>3, RowTyped DEF Repair
    <3> QED BY <1>a, <1>g, <1>i, <2>3, <3>1 DEF Repair, Outside
  <2>4. CASE Unlink(t)
    BY <1>a, <1>f, <1>h, <2>4 DEF Unlink, Outside
  <2>5. CASE Keep(t)
    <3>1. Cached
      BY <1>0, <2>5 DEF Keep, Cached, WorldTyped
    <3> QED BY <1>a, <1>h, <2>5, <3>1 DEF Keep, Outside
  <2> QED BY <1>9, <2>1, <2>2, <2>3, <2>4, <2>5 DEF GetToken
<1>10. CASE Check(t)
  BY <1>10, <1>a, <1>d DEF Check
<1>11. CASE Act(t)
  <2>1. CASE Deposit(t)
    <3>1. row' \in Repo \cup {NoRepo}
      BY <1>0, <2>1, RowTyped DEF Deposit, IsRow
    <3> QED BY <1>a, <1>g, <1>i, <2>1, <3>1 DEF Deposit, Outside
  <2>2. CASE Price(t)
    <3>1. row' \in Repo \cup {NoRepo}
      BY <1>0, <2>2, RowTyped DEF Price, IsRow, Tiers
    <3> QED BY <1>a, <1>g, <1>i, <2>2, <3>1 DEF Price, Outside
  <2>3. CASE Removable(t)
    BY <1>a, <1>d, <2>3 DEF Removable
  <2>4. CASE RemoveFromGithub(t)
    <3>1. Stored /\ Cached
      BY <1>g, <1>h, <2>4 DEF RemoveFromGithub
    <3>2. installed' \in Installs /\ events' \subseteq Event
      <4>1. CASE installed = task[t].repo.install /\ Uninstalled
        <5>1. installed # 0
          BY <2>4, <4>1, TaskFields DEF RemoveFromGithub, Sound, At
        <5> QED BY <1>0, <4>1, <5>1 DEF Uninstalled, WorldTyped, Event
      <4>2. CASE UNCHANGED <<installed, events>>
        BY <1>0, <4>2 DEF WorldTyped
      <4> QED BY <2>4, <4>1, <4>2 DEF RemoveFromGithub
    <3> QED BY <1>0, <2>4, <3>1, <3>2
      DEF RemoveFromGithub, WorldTyped, Stored, Cached
  <2>5. CASE Cascade(t)
    <3>1. row' \in Repo \cup {NoRepo}
      BY <1>0, <2>5 DEF Cascade, Erased
    <3>2. members' \in [Ids -> SUBSET Users]
      BY <1>0, <2>5 DEF Cascade, WorldTyped
    <3>3. Stored
      BY <1>0, <2>5, <3>1, <3>2 DEF Cascade, Stored, WorldTyped
    <3> QED BY <1>a, <1>g, <2>5, <3>3 DEF Cascade, Outside
  <2> QED BY <1>11, <2>1, <2>2, <2>3, <2>4, <2>5 DEF Act
<1> QED
  BY <1>1, <1>2, <1>3, <1>4, <1>5, <1>6, <1>7, <1>8, <1>9, <1>10, <1>11 DEF Step

(* The start of an operation, by whoever is a maintainer now or not.     *)
LEMMA BeginFits ==
  ASSUME Inv, NEW t \in Workers, NEW new \in Task, Begin(t, new),
         new.pc # "load", new.pc \notin Acting,
         new.pc = "member" => t \in Tasks /\ new.repo.id \in Ids,
         new.pc \in Named => new.user \in Users
  PROVE  Fit(t)
<1> DEFINE k == [new EXCEPT !.trusted = new.user \in Maintainers]
<1>1. task' = [task EXCEPT ![t] = k]
  BY DEF Begin
<1>2. k \in Task
  <2>1. ASSUME NEW b \in BOOLEAN PROVE [new EXCEPT !.trusted = b] \in Task
    BY DEF Task
  <2>2. (new.user \in Maintainers) \in BOOLEAN
    OBVIOUS
  <2> QED BY <2>1, <2>2, Zenon
<1>3. /\ k.pc = new.pc /\ k.user = new.user /\ k.repo = new.repo
      /\ k.trusted = (new.user \in Maintainers)
  BY DEF Task
<1>4. Sound(t, k)
  BY <1>3 DEF Sound, Plain, Acting, Named
<1> QED BY <1>1, <1>2, <1>4 DEF Fit

LEMMA BeginPlain ==
  ASSUME Inv, NEW t \in Workers, NEW new \in Task, Begin(t, new), new.pc \in Plain,
         new.pc \notin Named
  PROVE  Fit(t)
<1>1. new.pc # "load" /\ new.pc # "member" /\ new.pc \notin Acting
  BY DEF Plain
<1> QED BY <1>1, BeginFits

LEMMA NamedRow ==
  ASSUME NEW i \in Ids
  PROVE  [NoRepo EXCEPT !.id = i] \in Repo /\ [NoRepo EXCEPT !.id = i].id = i
<1>1. NoRepo \in [id : Nat, install : Installs, tiers : Tiers, funded : BOOLEAN]
  BY ConnectionAssumption DEF NoRepo, Installs, Tiers
<1> QED BY <1>1 DEF Repo

LEMMA UnstartedTyped == Unstarted \in Task
BY ConnectionAssumption DEF Unstarted, Task, Ops, Stages, Installs

LEMMA RequestFits ==
  ASSUME Inv, NEW t \in Workers, Request(t) PROVE Fit(t)
<1>0. issued \in Installs /\ rows \in 0 .. MaxRows /\ t \in Tasks
  BY TypedParts DEF WorldTyped, Request
<1>1. PICK u \in Users :
       \/ Begin(t, [Unstarted EXCEPT !.op = "connect", !.pc = "verify", !.user = u])
       \/ \E n \in 1 .. issued :
            Begin(t, [Unstarted EXCEPT !.op = "import", !.pc = "verify",
                                       !.user = u, !.install = n])
       \/ \E i \in 1 .. rows, op \in {"fund", "delete", "price"} :
            Begin(t, [Unstarted EXCEPT !.op = op, !.pc = "member", !.user = u,
                                       !.repo = [NoRepo EXCEPT !.id = i]])
  BY DEF Request
<1>2. CASE Begin(t, [Unstarted EXCEPT !.op = "connect", !.pc = "verify", !.user = u])
  <2> DEFINE new == [Unstarted EXCEPT !.op = "connect", !.pc = "verify", !.user = u]
  <2>1. new \in Task /\ new.pc = "verify"
    BY UnstartedTyped DEF Task, Ops, Stages
  <2>2. Begin(t, new)
    BY <1>2
  <2> HIDE DEF new
  <2>3. new.pc \in Plain /\ new.pc \notin Named
    BY <2>1, PlainStages DEF Named
  <2> QED BY <2>1, <2>2, <2>3, BeginPlain
<1>3. ASSUME NEW n \in 1 .. issued,
             Begin(t, [Unstarted EXCEPT !.op = "import", !.pc = "verify",
                                        !.user = u, !.install = n])
      PROVE  Fit(t)
  <2> DEFINE new == [Unstarted EXCEPT !.op = "import", !.pc = "verify",
                                      !.user = u, !.install = n]
  <2>1. n \in Installs
    BY <1>0, ConnectionAssumption DEF Installs
  <2>2. new \in Task /\ new.pc = "verify"
    BY <2>1, UnstartedTyped DEF Task, Ops, Stages
  <2>3. Begin(t, new)
    BY <1>3
  <2> HIDE DEF new
  <2>4. new.pc \in Plain /\ new.pc \notin Named
    BY <2>2, PlainStages DEF Named
  <2> QED BY <2>2, <2>3, <2>4, BeginPlain
<1>4. ASSUME NEW i \in 1 .. rows, NEW op \in {"fund", "delete", "price"},
             Begin(t, [Unstarted EXCEPT !.op = op, !.pc = "member", !.user = u,
                                        !.repo = [NoRepo EXCEPT !.id = i]])
      PROVE  Fit(t)
  <2> DEFINE r == [NoRepo EXCEPT !.id = i]
             new == [Unstarted EXCEPT !.op = op, !.pc = "member", !.user = u,
                                      !.repo = r]
  <2>1. i \in Ids
    BY <1>0, ConnectionAssumption DEF Ids
  <2>3. r \in Repo /\ r.id \in Ids
    BY <2>1, NamedRow
  <2> HIDE DEF r
  <2>4. new \in Task /\ new.pc = "member" /\ new.repo = r /\ new.user = u
    BY <2>3, UnstartedTyped DEF Task, Ops, Stages
  <2>5. Begin(t, new)
    BY <1>4 DEF r
  <2> HIDE DEF new
  <2>6. new.pc \notin Acting
    BY <2>4 DEF Acting
  <2> QED BY <1>0, <2>3, <2>4, <2>5, <2>6, BeginFits
<1> QED BY <1>1, <1>2, <1>3, <1>4

LEMMA WebhookFits ==
  ASSUME Inv, NEW t \in Workers, Webhook(t) PROVE Fit(t)
<1>1. PICK e \in events :
       Begin(t, [Unstarted EXCEPT
                      !.op = IF e.kind = "created" THEN "import" ELSE "detach",
                      !.pc = IF e.kind = "created" THEN "verify" ELSE "detach",
                      !.user = e.user, !.install = e.install])
  BY DEF Webhook
<1> DEFINE new == [Unstarted EXCEPT
                      !.op = IF e.kind = "created" THEN "import" ELSE "detach",
                      !.pc = IF e.kind = "created" THEN "verify" ELSE "detach",
                      !.user = e.user, !.install = e.install]
<1>2. e.user \in Users \cup {Nobody} /\ e.install \in Installs
  BY TypedParts DEF WorldTyped, Event
<1>3. new \in Task /\ new.pc \in {"verify", "detach"}
  BY <1>2, UnstartedTyped DEF Task, Ops, Stages
<1>4. Begin(t, new)
  BY <1>1
<1> HIDE DEF new
<1>5. new.pc \in Plain /\ new.pc \notin Named
  BY <1>3, PlainStages DEF Named
<1> QED BY <1>3, <1>4, <1>5, BeginPlain

LEMMA CallFits ==
  ASSUME Inv, NEW t \in Workers, Call(t) PROVE Fit(t)
<1> DEFINE new == [Unstarted EXCEPT !.pc = "token"]
<1>1. new \in Task /\ new.pc = "token"
  BY UnstartedTyped DEF Task, Ops, Stages
<1>2. Begin(t, new)
  BY DEF Call
<1> HIDE DEF new
<1>3. new.pc \in Plain /\ new.pc \notin Named
  BY <1>1, PlainStages DEF Named
<1> QED BY <1>1, <1>2, <1>3, BeginPlain

(* What people and time do leaves the operations where they are. *)
LEMMA OutsideKeeps ==
  ASSUME Inv, WorldTyped', UNCHANGED <<task, role>>
  PROVE  Inv'
<1>1. TypeOK'
  BY DEF Inv, TypeOK, WorldTyped
<1>2. ASSUME NEW t \in Workers PROVE Sound(t, task[t])'
  BY DEF Inv, Sound, Maintainers
<1> QED BY <1>1, <1>2 DEF Inv

(* A user who is given a role is trusted from then on.                     *)
LEMMA SetRoleKeeps ==
  ASSUME Inv, NEW u \in Users, NEW new \in Roles, SetRole(u, new) PROVE Inv'
<1>0. WorldTyped /\ task \in [Workers -> Task]
  BY TypedParts
<1>1. ASSUME NEW t \in Workers
      PROVE  /\ task'[t] = IF task[t].user = u /\ new # "none"
                             THEN [task[t] EXCEPT !.trusted = TRUE] ELSE task[t]
             /\ task'[t] \in Task
  BY <1>0 DEF SetRole, Task
<1>2. TypeOK'
  <2>1. task' \in [Workers -> Task]
    BY <1>1 DEF SetRole
  <2>2. role' \in [Users -> Roles]
    BY <1>0 DEF SetRole, WorldTyped
  <2> QED BY <1>0, <2>1, <2>2 DEF SetRole, WorldTyped, TypeOK, record, cache
<1>3. ASSUME NEW t \in Workers PROVE Sound(t, task[t])'
  <2> DEFINE k == task[t]
  <2>0. k \in Task /\ Sound(t, k)
    BY TaskFields
  <2>1. CASE k.user = u /\ new # "none"
    <3>1. task'[t] = [k EXCEPT !.trusted = TRUE]
      BY <1>1, <2>1
    <3>2. /\ task'[t].pc = k.pc /\ task'[t].op = k.op /\ task'[t].user = k.user
          /\ task'[t].repo = k.repo /\ task'[t].trusted = TRUE
      BY <2>0, <3>1 DEF Task
    <3> HIDE DEF k
    <3> QED BY <2>0, <3>2 DEF Sound
  <2>2. CASE ~(k.user = u /\ new # "none")
    <3>1. task'[t] = k
      BY <1>1, <2>2
    <3>2. k.user \in Maintainers' => k.user \in Maintainers
      BY <1>0, <2>2 DEF SetRole, Maintainers, WorldTyped
    <3> HIDE DEF k
    <3> QED BY <2>0, <3>1, <3>2 DEF Sound
  <2> QED BY <2>1, <2>2
<1> QED BY <1>2, <1>3 DEF Inv

LEMMA GithubKeeps ==
  ASSUME Inv,
         \/ \E u \in Users : Install(u) \/ \E new \in Roles : SetRole(u, new)
         \/ Uninstall \/ Expire
  PROVE  Inv'
<1>0. WorldTyped
  BY TypedParts
<1>1. ASSUME NEW u \in Users, Install(u) PROVE Inv'
  <2> DEFINE n == IF alive = 0 THEN issued + 1 ELSE alive
  <2>1. /\ n <= MaxInstalls /\ installed' = n /\ alive' = n
        /\ issued' = IF n > issued THEN n ELSE issued
        /\ events' = events \cup {[kind |-> "created", install |-> n, user |-> u]}
    BY <1>1 DEF Install
  <2>2. n \in Installs \ {0}
    BY <1>0, <2>1, ConnectionAssumption DEF Installs, WorldTyped
  <2> HIDE DEF n
  <2>3. /\ installed' \in Installs /\ alive' \in Installs /\ issued' \in Installs
        /\ events' \subseteq Event
    BY <1>0, <2>1, <2>2 DEF Event, WorldTyped
  <2>4. WorldTyped' /\ UNCHANGED <<task, role>>
    BY <1>0, <1>1, <2>3 DEF Install, WorldTyped, record, cache
  <2> QED BY <2>4, OutsideKeeps
<1>2. ASSUME NEW u \in Users, NEW new \in Roles, SetRole(u, new) PROVE Inv'
  BY <1>2, SetRoleKeeps
<1>3. CASE Uninstall
  <2>1. events' \subseteq Event /\ installed' \in Installs /\ alive' \in Installs
    BY <1>0, <1>3, ConnectionAssumption
    DEF Uninstall, Uninstalled, WorldTyped, Event, Installs
  <2>2. WorldTyped' /\ UNCHANGED <<task, role>>
    BY <1>0, <1>3, <2>1 DEF Uninstall, WorldTyped, record, cache
  <2> QED BY <2>2, OutsideKeeps
<1>4. CASE Expire
  <2>1. /\ byId' \in [Ids -> Repo \cup {NoRepo}]
        /\ byGithubId' \in Repo \cup {NoRepo} /\ token' \in Installs
    BY <1>0, <1>4, ConnectionAssumption DEF Expire, WorldTyped, Installs
  <2>2. WorldTyped' /\ UNCHANGED <<task, role>>
    BY <1>0, <1>4, <2>1 DEF Expire, WorldTyped, record, github
  <2> QED BY <2>2, OutsideKeeps
<1> QED BY <1>1, <1>2, <1>3, <1>4

LEMMA BeginTyped ==
  ASSUME Inv, NEW t \in Workers, Request(t) \/ Webhook(t) \/ Call(t)
  PROVE  WorldTyped' /\ role' = role
<1>1. CASE Webhook(t)
  BY <1>1, TypedParts DEF Webhook, WorldTyped, record, cache
<1>2. CASE Request(t) \/ Call(t)
  BY <1>2, TypedParts DEF Request, Call, WorldTyped, github, record, cache
<1> QED BY <1>1, <1>2

LEMMA NextKeeps ==
  ASSUME Inv, [Next]_vars PROVE Inv'
<1>1. CASE UNCHANGED vars
  <2>1. WorldTyped' /\ UNCHANGED <<task, role>>
    BY <1>1, TypedParts DEF vars, WorldTyped
  <2> QED BY <2>1, OutsideKeeps
<1>2. CASE \/ \E u \in Users : Install(u) \/ \E new \in Roles : SetRole(u, new)
          \/ Uninstall \/ Expire
  BY <1>2, GithubKeeps
<1>3. ASSUME NEW t \in Workers, Request(t) \/ Webhook(t) \/ Call(t) PROVE Inv'
  <2>1. Fit(t)
    BY <1>3, RequestFits, WebhookFits, CallFits
  <2> QED BY <1>3, <2>1, BeginTyped, FitKeeps
<1>4. ASSUME NEW t \in Workers, Step(t) PROVE Inv'
  BY <1>4, StepFits, StepTyped, FitKeeps
<1> QED BY <1>1, <1>2, <1>3, <1>4 DEF Next

LEMMA InitSound == Init => Inv
<1> SUFFICES ASSUME Init PROVE Inv
  OBVIOUS
<1>1. /\ New \in Repo /\ 0 \in Installs /\ 1 \in Installs /\ 1 \in Ids
      /\ New.install = 1 /\ New.funded = FALSE
  BY ConnectionAssumption DEF New, Repo, Ids, Installs, Tiers
<1>2. 2 \in Ids => [New EXCEPT !.id = 2] \in Repo /\ 2 \in 0 .. MaxRows
  BY <1>1 DEF Repo, Ids
<1>3. WorldTyped
  <2>1. /\ role \in [Users -> Roles] /\ events \subseteq Event
        /\ byId \in [Ids -> Repo \cup {NoRepo}] /\ byGithubId \in Repo \cup {NoRepo}
        /\ token \in Installs
    BY <1>1 DEF Init, Roles
  <2>2. alive = installed
    BY DEF Init
  <2>3. /\ installed \in Installs /\ issued \in Installs
        /\ row \in Repo \cup {NoRepo} /\ rows \in 0 .. MaxRows
        /\ members \in [Ids -> SUBSET Users]
    BY <1>1, <1>2, ConnectionAssumption DEF Init
  <2> QED BY <2>1, <2>2, <2>3 DEF WorldTyped
<1>4. PICK first \in [Tasks -> {Unstarted, Never} \cup {LateDeletion(u) : u \in Users}] :
        task = [t \in Workers |-> IF t \in Tasks THEN first[t] ELSE Unstarted]
  BY DEF Init
<1>5. ASSUME NEW t \in Workers PROVE task[t] \in Task /\ Sound(t, task[t])
  <2>1. CASE task[t] = Unstarted
    BY <2>1, UnstartedTyped DEF Sound, Unstarted, Acting, Named
  <2>2. CASE task[t] = Never
    BY <2>2, NeverSound
  <2>3. ASSUME NEW u \in Users, task[t] = LateDeletion(u), t \in Tasks
        PROVE  task[t] \in Task /\ Sound(t, task[t])
    <3> DEFINE k == LateDeletion(u)
    <3>1. /\ k.op = "delete" /\ k.pc = "remove" /\ k.user = u /\ k.repo = New
          /\ k.trusted = TRUE
      BY DEF LateDeletion, Unstarted
    <3>2. k \in Task
      BY <1>1, UnstartedTyped DEF LateDeletion, Task, Ops, Stages
    <3>3. Sound(t, k)
      BY <1>1, <2>3, <3>1 DEF Sound, Acting, Named
    <3> QED BY <2>3, <3>2, <3>3
  <2> QED BY <1>4, <2>1, <2>2, <2>3
<1>6. task \in [Workers -> Task]
  BY <1>4, <1>5
<1> QED BY <1>3, <1>5, <1>6 DEF Inv, TypeOK, WorldTyped

LEMMA Invariant == Spec => []Inv
<1>1. Inv /\ [Next]_vars => Inv'
  BY NextKeeps
<1> QED BY <1>1, InitSound, PTL DEF Spec

(* Every reachable state is well typed.                                    *)
THEOREM TypeCorrect == Spec => []TypeOK
<1>1. Inv => TypeOK
  BY DEF Inv
<1> QED BY <1>1, Invariant, PTL

(* What a step may do to a record: nothing, or what RecordSurvives allows. *)
Survives ==
  row.id # 0 =>
    /\ row'.id # row.id => \E t \in Tasks :
         /\ task[t].pc = "cascade" /\ row' = NoRepo
         /\ task[t].repo.id = row.id /\ ~task[t].repo.funded
    /\ members[row.id] \subseteq members'[row.id]
         \/ row'.id # row.id \/ row'.install = 0

LEMMA KeptSurvives ==
  ASSUME row.id # 0 => row'.id = row.id,
         row.id # 0 => members[row.id] \subseteq members'[row.id]
  PROVE  Survives
BY DEF Survives

LEMMA StepSurvives ==
  ASSUME Inv, NEW t \in Workers, Step(t) PROVE Survives
<1>0. row \in Repo \cup {NoRepo} /\ members \in [Ids -> SUBSET Users]
  BY TypedParts DEF WorldTyped
<1>1. CASE UNCHANGED <<row, members>>
  BY <1>1, KeptSurvives
<1>2. row.id # 0 => /\ \A n : [row EXCEPT !.install = n].id = row.id
                   /\ \A p : [row EXCEPT !.tiers = p].id = row.id
                   /\ \A f : [row EXCEPT !.funded = f].id = row.id
                   /\ row.id \in Ids
  BY <1>0, RepoFields DEF Repo
<1>3. CASE Create(t) \/ Reset(t) \/ Attach(t) \/ FillTiers(t) \/ Repair(t)
           \/ Deposit(t) \/ Price(t)
  BY <1>2, <1>3, KeptSurvives
  DEF Create, Reset, Attach, FillTiers, Repair, Deposit, Price, Upsert
<1>4. CASE Join(t)
  BY <1>0, <1>2, <1>4, KeptSurvives DEF Join
<1>5. CASE Detach(t)
  <2>1. CASE row.id # 0 /\ row.install = task[t].install
    <3>1. row' = [row EXCEPT !.install = 0]
      BY <1>5, <2>1 DEF Detach
    <3>2. row'.id = row.id /\ row'.install = 0
      BY <1>0, <2>1, <3>1, RepoFields DEF Repo
    <3> QED BY <3>2 DEF Survives
  <2>2. CASE ~(row.id # 0 /\ row.install = task[t].install)
    BY <1>5, <2>2, KeptSurvives DEF Detach
  <2> QED BY <2>1, <2>2
<1>6. CASE Cascade(t)
  <2>1. task[t].pc = "cascade" /\ t \in Tasks /\ ~task[t].repo.funded
    BY <1>6, TaskFields DEF Cascade, At, Sound, Acting
  <2>2. CASE row.id # 0 /\ row.id = task[t].repo.id
    <3>1. row' = NoRepo /\ row'.id # row.id
      BY <1>6, <2>2, NoRepoTyped DEF Cascade, Deleted, IsRow, Erased
    <3> QED BY <2>1, <2>2, <3>1 DEF Survives
  <2>3. CASE row.id # 0 /\ row.id # task[t].repo.id
    <3>1. row' = row /\ members'[row.id] = members[row.id]
      BY <1>0, <1>2, <1>6, <2>3 DEF Cascade, Deleted, IsRow
    <3> QED BY <3>1, KeptSurvives
  <2>4. CASE row.id = 0
    BY <2>4 DEF Survives
  <2> QED BY <2>2, <2>3, <2>4
<1>7. CASE Connect(t)
  BY <1>1, <1>3, <1>7
  DEF Connect, VerifyConnect, Lookup, Nothing, record
<1>8. CASE Import(t)
  BY <1>1, <1>3, <1>8 DEF Import, VerifyImport, Find, Nothing, record
<1>9. CASE GetToken(t)
  BY <1>1, <1>3, <1>9
  DEF GetToken, CachedToken, TokenRepo, FillVia, Exchange, Resolve, Unlink, Renew,
      Keep, Nothing, record
<1>10. CASE Act(t)
  BY <1>1, <1>3, <1>6, <1>10 DEF Act, Removable, RemoveFromGithub, Nothing, record
<1>11. CASE Fill(t) \/ Forget(t) \/ IsMember(t) \/ Load(t) \/ Check(t)
  BY <1>1, <1>11 DEF Fill, Forget, IsMember, Load, Check, Nothing, record
<1> QED BY <1>4, <1>5, <1>7, <1>8, <1>9, <1>10, <1>11 DEF Step

LEMMA NextSurvives ==
  ASSUME Inv, [Next]_vars PROVE Survives
<1>1. CASE UNCHANGED <<row, members>>
  BY <1>1, KeptSurvives
<1>2. CASE UNCHANGED vars
  BY <1>1, <1>2 DEF vars
<1>3. CASE \/ \E u \in Users : Install(u) \/ \E new \in Roles : SetRole(u, new)
          \/ Uninstall \/ Expire
  BY <1>1, <1>3 DEF Install, SetRole, Uninstall, Expire, record
<1>4. ASSUME NEW t \in Workers, Request(t) \/ Webhook(t) \/ Call(t) PROVE Survives
  BY <1>1, <1>4 DEF Request, Webhook, Call, record
<1>5. ASSUME NEW t \in Workers, Step(t) PROVE Survives
  BY <1>5, StepSurvives
<1> QED BY <1>2, <1>3, <1>4, <1>5 DEF Next

(* No step loses a connected repository or its maintainers, except the     *)
(* deletion that was asked for this row and found no money in it, and the  *)
(* removal of its installation.                                            *)
THEOREM RecordKept == Spec => RecordSurvives
<1>1. Inv /\ [Next]_vars => [Survives]_vars
  BY NextSurvives
<1>2. Spec => [][Survives]_vars
  BY <1>1, Invariant, PTL DEF Spec
<1> QED BY <1>2, PTL DEF RecordSurvives, Survives

(* What a step may do to a row and its tiers, by MaintainersOnly.          *)
Asked ==
  row.id # 0 /\ (row'.id # row.id \/ (row'.tiers = "custom" /\ row.tiers # "custom")) =>
    \E t \in Tasks : /\ task[t].op \in {"delete", "price"}
                     /\ task[t].repo.id = row.id /\ task[t].trusted
                     /\ task'[t].pc = "forget" /\ task[t].pc # "forget"

LEMMA KeptAsked ==
  ASSUME row.id # 0 => row'.id = row.id /\ (row'.tiers = row.tiers \/ row'.tiers = "default")
  PROVE  Asked
BY DEF Asked

(* What acts has been checked; it is on its way out then.                  *)
LEMMA ActsAsked ==
  ASSUME Inv, NEW t \in Workers, task[t].pc \in Acting, Go(t, "forget"),
         task[t].op \in {"delete", "price"}, IsRow(task[t].repo.id)
  PROVE  Asked
<1>1. t \in Tasks /\ task[t].trusted
  BY TaskFields DEF Sound
<1>2. task'[t].pc = "forget"
  BY TaskFields DEF Go, Inv, TypeOK, Task
<1>3. task[t].repo.id = row.id /\ task[t].pc # "forget"
  BY DEF IsRow, Acting
<1> QED BY <1>1, <1>2, <1>3 DEF Asked

LEMMA StepAsked ==
  ASSUME Inv, NEW t \in Workers, Step(t) PROVE Asked
<1>0. row \in Repo \cup {NoRepo}
  BY TypedParts DEF WorldTyped
<1>1. CASE UNCHANGED row
  BY <1>1, KeptAsked
<1>2. row.id # 0 =>
        /\ \A n : LET r == [row EXCEPT !.install = n] IN r.id = row.id /\ r.tiers = row.tiers
        /\ \A f : LET r == [row EXCEPT !.funded = f] IN r.id = row.id /\ r.tiers = row.tiers
        /\ LET r == [row EXCEPT !.tiers = "default"] IN r.id = row.id /\ r.tiers = "default"
  BY <1>0, RepoFields DEF Repo
<1>3. CASE Create(t) \/ Reset(t) \/ Attach(t) \/ FillTiers(t) \/ Repair(t)
           \/ Deposit(t) \/ Detach(t)
  <2>1. CASE Create(t) \/ Attach(t)
    BY <1>2, <2>1, KeptAsked DEF Create, Attach, Upsert
  <2>2. CASE Reset(t) \/ FillTiers(t)
    BY <1>2, <2>2, KeptAsked DEF Reset, FillTiers
  <2>3. CASE Repair(t)
    BY <1>2, <2>3, KeptAsked DEF Repair
  <2>4. CASE Deposit(t)
    BY <1>2, <2>4, KeptAsked DEF Deposit
  <2>5. CASE Detach(t)
    <3>1. row' \in {row, [row EXCEPT !.install = 0]}
      BY <2>5 DEF Detach
    <3> QED BY <1>2, <3>1, KeptAsked
  <2> QED BY <1>3, <2>1, <2>2, <2>3, <2>4, <2>5
<1>4. CASE Price(t)
  <2>1. CASE IsRow(task[t].repo.id)
    BY <1>4, <2>1, ActsAsked DEF Price, At, Acting
  <2>2. CASE ~IsRow(task[t].repo.id)
    BY <1>1, <1>4, <2>2 DEF Price
  <2> QED BY <2>1, <2>2
<1>5. CASE Cascade(t)
  <2>1. CASE Deleted(t)
    <3>1. task[t].pc = "cascade" /\ task[t].op = "delete"
      BY <1>5, TaskFields DEF Cascade, At, Sound
    <3> QED BY <1>5, <2>1, <3>1, ActsAsked DEF Cascade, Deleted, Acting
  <2>2. CASE ~Deleted(t)
    BY <1>1, <1>5, <2>2 DEF Cascade
  <2> QED BY <2>1, <2>2
<1>6. CASE Connect(t)
  BY <1>1, <1>3, <1>6 DEF Connect, VerifyConnect, Lookup, Nothing, record
<1>7. CASE Import(t)
  BY <1>1, <1>3, <1>7 DEF Import, VerifyImport, Find, Nothing, record
<1>8. CASE GetToken(t)
  BY <1>1, <1>3, <1>8
  DEF GetToken, CachedToken, TokenRepo, FillVia, Exchange, Resolve, Unlink, Renew,
      Keep, Nothing, record
<1>9. CASE Act(t)
  BY <1>1, <1>3, <1>4, <1>5, <1>9 DEF Act, Removable, RemoveFromGithub, Nothing, record
<1>10. CASE Fill(t) \/ Join(t) \/ Forget(t) \/ IsMember(t) \/ Load(t) \/ Check(t)
  BY <1>1, <1>10 DEF Fill, Join, Forget, IsMember, Load, Check, Nothing, record
<1> QED BY <1>3, <1>6, <1>7, <1>8, <1>9, <1>10 DEF Step

LEMMA NextAsked ==
  ASSUME Inv, [Next]_vars PROVE Asked
<1>1. CASE UNCHANGED row
  BY <1>1, KeptAsked
<1>2. CASE UNCHANGED vars
  BY <1>1, <1>2 DEF vars
<1>3. CASE \/ \E u \in Users : Install(u) \/ \E new \in Roles : SetRole(u, new)
          \/ Uninstall \/ Expire
  BY <1>1, <1>3 DEF Install, SetRole, Uninstall, Expire, record
<1>4. ASSUME NEW t \in Workers, Request(t) \/ Webhook(t) \/ Call(t) PROVE Asked
  BY <1>1, <1>4 DEF Request, Webhook, Call, record
<1>5. ASSUME NEW t \in Workers, Step(t) PROVE Asked
  BY <1>5, StepAsked
<1> QED BY <1>2, <1>3, <1>4, <1>5 DEF Next

(* A repository is deleted or given tiers of its own only by a request for *)
(* this very row whose user was a maintainer on GitHub since it began: the *)
(* membership, the cached repository and the cached token it used may be   *)
(* older, and the row may have been deleted and connected again meanwhile. *)
THEOREM AskedByMaintainers == Spec => MaintainersOnly
<1>1. Inv /\ [Next]_vars => [Asked]_vars
  BY NextAsked
<1>2. Spec => [][Asked]_vars
  BY <1>1, Invariant, PTL DEF Spec
<1> QED BY <1>2, PTL DEF MaintainersOnly, Asked
=============================================================================
