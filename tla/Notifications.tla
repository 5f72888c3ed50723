---------------------------- MODULE Notifications ----------------------------
(***************************************************************************)
(* One notification of one user: its row, the e-mail job, and the caches   *)
(* the bell reads.                                                         *)
(*                                                                         *)
(* Several callers may ask for it (a redelivered webhook, a retried job);  *)
(* the unique dedupe_key lets one of them in.  That caller enqueues the    *)
(* e-mail, or sends it from a task of its own when the queue refuses.  The *)
(* sender reads the row through the cache, mails, and writes the status.   *)
(* The list of notifications is cached under a version that every write    *)
(* replaces; the row is cached under its id and deleted after a write.     *)
(* An entry may expire at any time.  Redis may fail: what cannot be read   *)
(* counts as absent, and what cannot be set is skipped without a word.     *)
(***************************************************************************)
EXTENDS Naturals, FiniteSets

CONSTANTS
  Callers,        \* notify_user calls for this notification
  Workers,        \* workers that may run the e-mail job
  Direct,         \* the task spawned when the job cannot be enqueued
  Readers,        \* requests that list the user's notifications
  Markers,        \* requests that mark them read
  EmailAttempts,  \* NOTIFY_ATTEMPTS
  MaxLapses,      \* bound: lost calls and crashes
  None

Senders == Workers \cup {Direct}
Writers == Callers \cup Markers

Statuses == {"pending", "sent", "skipped_no_email", "failed"}

ASSUME SendersAssumption ==
  /\ IsFiniteSet(Writers) /\ IsFiniteSet(Workers) /\ None \notin Statuses \cup Writers
  /\ Direct \notin Workers \cup {None} /\ Callers \cap Markers = {}
  /\ EmailAttempts \in Nat \ {0} /\ MaxLapses \in Nat

VARIABLES
  email,      \* email_status of the row, or None: no row
  sentAt,     \* the row has an email_sent_at
  cached,     \* the status in the cache entry of the row, or None
  reachable,  \* the user has an address, in the profile or on GitHub
  job,        \* the e-mail job: its state, failed attempts, worker
  counts,     \* whether attempts_made counts the attempt that is running
  sender,     \* worker or task -> where it is in deliver_email
  mails,      \* e-mails Resend accepted
  writer,     \* notify_user and mark_read calls -> where they are
  revision,   \* writes the list shows
  version,    \* the feed version in the cache, or None
  renewed,    \* history: what there was to show when that version was set
  feed,       \* version -> the revision its cached list shows, or None
  reader,     \* list requests
  lapses      \* mishaps so far

nVars == <<email, sentAt, cached, reachable, job, counts, sender, mails,
           writer, revision, version, renewed, feed, reader, lapses>>

SenderStages == {"idle", "load", "fill", "send", "record", "skip", "fail", "forget"}
WriterStages == {"start", "version", "enqueue", "done", "dead"}
ReaderStages == {"start", "read", "set", "done"}
\* A version is a fresh UUID of the write that set it; without one a list is
\* filed under "initial", which is None here.
Versions == Writers \cup {None}
NoJob == [state |-> "none", made |-> 0, owner |-> None]
WaitingJob == [NoJob EXCEPT !.state = "waiting"]
IdleSender == [pc |-> "idle", seen |-> "pending", made |-> 0, error |-> FALSE]

mail == <<sentAt, cached, job, sender, mails>>
bell == <<revision, version, renewed, feed, reader>>
fixed == <<reachable, counts>>

NInit ==
  /\ email = None /\ sentAt = FALSE /\ cached = None
  /\ reachable \in BOOLEAN /\ counts \in BOOLEAN
  /\ job = NoJob
  /\ sender = [s \in Senders |-> IdleSender]
  /\ mails = 0
  /\ writer = [w \in Writers |-> "start"]
  /\ revision = 0 /\ version = None /\ renewed = 0
  /\ feed = [v \in Versions |-> None]
  /\ reader = [r \in Readers |-> [pc |-> "start", key |-> None, list |-> None]]
  /\ lapses = 0

-----------------------------------------------------------------------------
Lapse == lapses < MaxLapses /\ lapses' = lapses + 1
WriterTo(w, from, to) == writer[w] = from /\ writer' = [writer EXCEPT ![w] = to]
SenderTo(s, from, to) ==
  sender[s].pc = from /\ sender' = [sender EXCEPT ![s].pc = to]

(* notify_user *)

\* Mutant: no unique dedupe_key.
InsertAgain(w) ==
  /\ w \in Callers
  /\ WriterTo(w, "start", "version")
  /\ email' = "pending" /\ revision' = revision + 1
  /\ UNCHANGED <<mail, fixed, version, renewed, feed, reader, lapses>>

\* The INSERT; a second one violates the unique dedupe_key.
Insert(w) ==
  /\ w \in Callers
  /\ IF email = None
       THEN /\ WriterTo(w, "start", "version")
            /\ email' = "pending" /\ revision' = revision + 1
       ELSE WriterTo(w, "start", "done") /\ UNCHANGED <<email, revision>>
  /\ UNCHANGED <<mail, fixed, version, renewed, feed, reader, lapses>>

\* mark_read: the UPDATE, and for one notification its cached row deleted.
MarkRead(w) ==
  /\ w \in Markers
  /\ WriterTo(w, "start", "version")
  /\ revision' = revision + 1
  /\ cached' \in {cached, None}
  /\ UNCHANGED <<email, sentAt, job, sender, mails, fixed, version, renewed,
                 feed, reader, lapses>>

\* invalidate_notification_feed_cache: a new version hides the cached lists, unless
\* Redis fails.
Renew(w) ==
  /\ WriterTo(w, "version", IF w \in Callers THEN "enqueue" ELSE "done")
  /\ \/ version' = w /\ renewed' = revision
     \/ UNCHANGED <<version, renewed>>
  /\ UNCHANGED <<email, mail, fixed, revision, feed, reader, lapses>>

Enqueue(w) ==
  /\ WriterTo(w, "enqueue", "done")
  /\ job' = WaitingJob
  /\ UNCHANGED <<email, sentAt, cached, sender, mails, fixed, bell, lapses>>

\* The queue refuses, or reports an error of a job it has: a task is spawned.
EnqueueFails(w) ==
  /\ WriterTo(w, "enqueue", "done")
  /\ \/ UNCHANGED <<job, lapses>>
     \/ job' = WaitingJob /\ Lapse
  /\ SenderTo(Direct, "idle", "load")
  /\ UNCHANGED <<email, sentAt, cached, mails, fixed, bell>>

CallerDies(w) ==
  /\ w \in Callers /\ writer[w] \in {"version", "enqueue"} /\ Lapse
  /\ writer' = [writer EXCEPT ![w] = IF @ = "version" THEN "dead" ELSE "done"]
  /\ UNCHANGED <<email, mail, fixed, bell>>

-----------------------------------------------------------------------------
(* deliver_email *)
Row == <<email, sentAt>>

TakeJob(s) ==
  /\ s \in Workers /\ job.state = "waiting" /\ sender[s].pc = "idle"
  /\ sender' = [sender EXCEPT ![s].pc = "load", ![s].made = job.made]
  /\ job' = [job EXCEPT !.state = "active", !.owner = s]
  /\ UNCHANGED <<Row, cached, mails, fixed, writer, bell, lapses>>

\* Mutant: one attempt too many.
JobAfterLate(s, error) ==
  IF ~(job.state = "active" /\ job.owner = s) THEN job
  ELSE IF ~error THEN NoJob
  ELSE [state |-> IF job.made <= EmailAttempts THEN "waiting" ELSE "failed",
        made |-> job.made + 1, owner |-> None]

\* The end of a run, for the job if the worker still has it.
JobAfter(s, error) ==
  IF ~(job.state = "active" /\ job.owner = s) THEN job
  ELSE IF ~error THEN NoJob
  ELSE [state |-> IF job.made + 1 < EmailAttempts THEN "waiting" ELSE "failed",
        made |-> job.made + 1, owner |-> None]

End(s, error) ==
  /\ sender' = [sender EXCEPT ![s] = IdleSender]
  /\ job' = JobAfter(s, error)

\* Mutant: the running attempt is forgotten.
LastAttemptLate(s) == s \in Workers /\ sender[s].made >= EmailAttempts
\* An error of deliver_email; the last attempt of the job marks the row.
LastAttempt(s) ==
  s \in Workers /\ sender[s].made + (IF counts THEN 1 ELSE 0) >= EmailAttempts
Error(s) ==
  IF LastAttempt(s)
    THEN sender' = [sender EXCEPT ![s].pc = "fail", ![s].error = TRUE] /\ UNCHANGED job
    ELSE End(s, TRUE)

\* What the row says by the cache or by the database.
After(s, status) ==
  IF status = "sent" THEN End(s, FALSE)
  ELSE /\ sender' = [sender EXCEPT ![s].pc = IF reachable THEN "send" ELSE "skip"]
       /\ UNCHANGED job

LoadCached(s) ==
  /\ sender[s].pc = "load" /\ cached # None
  /\ After(s, cached)
  /\ UNCHANGED <<Row, cached, mails, fixed, writer, bell, lapses>>

\* There is no entry, or Redis fails.
LoadRow(s) ==
  /\ sender[s].pc = "load"
  /\ sender' = [sender EXCEPT ![s].pc = "fill", ![s].seen = email]
  /\ UNCHANGED <<Row, cached, job, mails, fixed, writer, bell, lapses>>

Fill(s) ==
  /\ sender[s].pc = "fill"
  /\ cached' \in {sender[s].seen, cached}
  /\ After(s, sender[s].seen)
  /\ UNCHANGED <<Row, mails, fixed, writer, bell, lapses>>

LoadFails(s) ==
  /\ sender[s].pc = "load" /\ Lapse
  /\ Error(s)
  /\ UNCHANGED <<Row, cached, mails, fixed, writer, bell>>

\* The profile or the address cannot be read: taken for "no address".
AddressFails(s) ==
  /\ SenderTo(s, "send", "skip") /\ Lapse
  /\ UNCHANGED <<Row, cached, job, mails, fixed, writer, bell>>

\* Mutant: the status is written before the mail is sent.
MailLater(s) ==
  /\ SenderTo(s, "send", "forget")
  /\ email' = "sent"
  /\ UNCHANGED <<sentAt, cached, job, mails, fixed, writer, bell, lapses>>

Mail(s) ==
  /\ SenderTo(s, "send", "record")
  /\ mails' = mails + 1
  /\ UNCHANGED <<Row, cached, job, fixed, writer, bell, lapses>>

\* Resend refuses.  The spawned task does not try again: the mail is lost.
Refused(s) ==
  /\ sender[s].pc = "send"
  /\ Error(s)
  /\ IF s = Direct THEN Lapse ELSE UNCHANGED lapses
  /\ UNCHANGED <<Row, cached, mails, fixed, writer, bell>>

ReceiptLost(s) ==
  /\ sender[s].pc = "send" /\ Lapse
  /\ mails' = mails + 1
  /\ Error(s)
  /\ UNCHANGED <<Row, cached, fixed, writer, bell>>

\* set_email_status: the UPDATE, then the cached row deleted.
Record(s) ==
  /\ SenderTo(s, "record", "forget")
  /\ email' = "sent" /\ sentAt' = TRUE
  /\ UNCHANGED <<cached, job, mails, fixed, writer, bell, lapses>>

RecordFails(s) ==
  /\ sender[s].pc = "record" /\ Lapse
  /\ Error(s)
  /\ UNCHANGED <<Row, cached, mails, fixed, writer, bell>>

Mark(s, from, status) ==
  /\ SenderTo(s, from, "forget")
  /\ email' = status
  /\ UNCHANGED <<sentAt, cached, job, mails, fixed, writer, bell, lapses>>
Skip(s) == Mark(s, "skip", "skipped_no_email")
MarkFailed(s) == Mark(s, "fail", "failed")

\* The error of a "skipped" or "failed" that cannot be written is dropped.
MarkFails(s) ==
  /\ sender[s].pc \in {"skip", "fail"} /\ Lapse
  /\ End(s, sender[s].error)
  /\ UNCHANGED <<Row, cached, mails, fixed, writer, bell>>

Forget(s) ==
  /\ sender[s].pc = "forget"
  /\ cached' = None
  /\ End(s, sender[s].error)
  /\ UNCHANGED <<Row, mails, fixed, writer, bell, lapses>>

ForgetSkipped(s) ==
  /\ sender[s].pc = "forget" /\ Lapse
  /\ End(s, sender[s].error)
  /\ UNCHANGED <<Row, cached, mails, fixed, writer, bell>>

\* The worker dies, or lives on without its lock: the job runs again.
Stalls(s) ==
  /\ s \in Workers /\ job.state = "active" /\ job.owner = s /\ Lapse
  /\ job' = [job EXCEPT !.state = "waiting", !.owner = None]
  /\ sender' \in {sender, [sender EXCEPT ![s] = IdleSender]}
  /\ UNCHANGED <<Row, cached, mails, fixed, writer, bell>>

DirectDies ==
  /\ sender[Direct].pc # "idle" /\ Lapse
  /\ sender' = [sender EXCEPT ![Direct] = IdleSender]
  /\ UNCHANGED <<Row, cached, job, mails, fixed, writer, bell>>

-----------------------------------------------------------------------------
(* list *)
\* A version that is absent or cannot be read is "initial"; so is a list a miss.
ReadVersion(r) ==
  /\ reader[r].pc = "start"
  /\ \E v \in {version, None} :
       \/ /\ feed[v] # None
          /\ reader' = [reader EXCEPT ![r] = [pc |-> "done", key |-> v, list |-> feed[v]]]
       \/ reader' = [reader EXCEPT ![r] = [pc |-> "read", key |-> v, list |-> None]]
  /\ UNCHANGED <<email, mail, fixed, writer, revision, version, renewed, feed, lapses>>

ReadRows(r) ==
  /\ reader[r].pc = "read"
  /\ reader' = [reader EXCEPT ![r].pc = "set", ![r].list = revision]
  /\ UNCHANGED <<email, mail, fixed, writer, revision, version, renewed, feed, lapses>>

\* Mutant: the key is computed again after the read.
SetFeedLate(r) ==
  /\ reader[r].pc = "set"
  /\ reader' = [reader EXCEPT ![r].pc = "done"]
  /\ feed' \in {feed, [feed EXCEPT ![version] = reader[r].list]}
  /\ UNCHANGED <<email, mail, fixed, writer, revision, version, renewed, lapses>>

SetFeed(r) ==
  /\ reader[r].pc = "set"
  /\ reader' = [reader EXCEPT ![r].pc = "done"]
  /\ feed' \in {feed, [feed EXCEPT ![reader[r].key] = reader[r].list]}
  /\ UNCHANGED <<email, mail, fixed, writer, revision, version, renewed, lapses>>

-----------------------------------------------------------------------------
(* An entry reaches its TTL. *)
ExpireRow ==
  /\ cached # None /\ cached' = None
  /\ UNCHANGED <<Row, job, sender, mails, fixed, writer, bell, lapses>>
ExpireVersion ==
  /\ version # None /\ version' = None
  /\ UNCHANGED <<email, mail, fixed, writer, revision, renewed, feed, reader, lapses>>
ExpireFeed(v) ==
  /\ feed[v] # None /\ feed' = [feed EXCEPT ![v] = None]
  /\ UNCHANGED <<email, mail, fixed, writer, revision, version, renewed, reader, lapses>>
Expire == ExpireRow \/ ExpireVersion \/ \E v \in Versions : ExpireFeed(v)

-----------------------------------------------------------------------------
Write(w) == Insert(w) \/ MarkRead(w) \/ Renew(w) \/ Enqueue(w)
Deliver(s) ==
  \/ TakeJob(s) \/ LoadCached(s) \/ LoadRow(s) \/ Fill(s) \/ Mail(s) \/ Refused(s)
  \/ Record(s) \/ Skip(s) \/ MarkFailed(s) \/ Forget(s)
Trouble(s) ==
  \/ LoadFails(s) \/ AddressFails(s) \/ ReceiptLost(s) \/ RecordFails(s)
  \/ MarkFails(s) \/ ForgetSkipped(s) \/ Stalls(s)
List(r) == ReadVersion(r) \/ ReadRows(r) \/ SetFeed(r)

NNext ==
  \/ \E w \in Writers : Write(w) \/ EnqueueFails(w) \/ CallerDies(w)
  \/ \E s \in Senders : Deliver(s) \/ Trouble(s)
  \/ DirectDies
  \/ \E r \in Readers : List(r)
  \/ Expire

NSpec == NInit /\ [][NNext]_nVars

\* Calls and tasks go on, a worker takes a waiting job, a request ends.
NFairness ==
  /\ \A w \in Writers : WF_nVars(Write(w))
  /\ \A s \in Senders : WF_nVars(Deliver(s))
  /\ \A r \in Readers : WF_nVars(List(r))
NFairSpec == NSpec /\ NFairness

-----------------------------------------------------------------------------
NTypeOK ==
  /\ email \in Statuses \cup {None} /\ sentAt \in BOOLEAN
  /\ cached \in Statuses \cup {None}
  /\ reachable \in BOOLEAN /\ counts \in BOOLEAN
  /\ job \in [state : {"none", "waiting", "active", "failed"},
              made : 0 .. EmailAttempts, owner : Workers \cup {None}]
  /\ sender \in [Senders -> [pc : SenderStages, seen : Statuses,
                             made : 0 .. EmailAttempts, error : BOOLEAN]]
  /\ mails \in Nat
  /\ writer \in [Writers -> WriterStages]
  /\ revision \in Nat /\ version \in Versions /\ renewed \in Nat
  /\ feed \in [Versions -> Nat \cup {None}]
  /\ reader \in [Readers -> [pc : ReaderStages, key : Versions, list : Nat \cup {None}]]
  /\ lapses \in 0 .. MaxLapses

(* A second e-mail needs a lost call or a crash: without one the dedupe     *)
(* key, the job id and the status that is read through the cache let one   *)
(* e-mail out, and every lapse lets out one more at most.                  *)
OneMailPerLapse == mails <= 1 + lapses

(* The status the row ends with is what happened: "sent" only after Resend *)
(* took the mail; and, when no call was lost, "failed" only if it did not, *)
(* and "skipped" only for a user without an address.                       *)
StatusIsTrue ==
  /\ email = "sent" => mails > 0
  /\ lapses = 0 /\ email = "failed" => mails = 0
  /\ lapses = 0 /\ email = "skipped_no_email" => ~reachable

(* A list found under the version in force shows every write that was in    *)
(* the table when that version was set, by whatever call: a reader that     *)
(* read too early files its list under a version nobody asks for any more.  *)
(* So it misses only the write of a call that has not set its version yet,  *)
(* died before it, or could not because Redis failed; and without a version *)
(* (it expired, or cannot be read) nothing is promised: an old list under   *)
(* "initial" may come back.                                                 *)
FeedIsCurrent ==
  version # None => feed[version] = None \/ feed[version] >= renewed

(* The state of the e-mail is settled in the end, sent, skipped or failed, *)
(* unless a call was lost or attempts_made leaves out the running attempt. *)
StatusSettles ==
  <>[](email \notin {None, "pending"} \/ lapses > 0 \/ ~counts)
=============================================================================
