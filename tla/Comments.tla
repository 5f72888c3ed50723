------------------------------ MODULE Comments ------------------------------
(***************************************************************************)
(* The delivery of one GitHub comment by several jobs on several backends. *)
(*                                                                         *)
(* The jobs that post the same text on the same issue share a key.  On one *)
(* backend they take turns on a mutex that also remembers that the comment *)
(* is sent.  Between backends a Redis key is leased to one of them for     *)
(* Lease ticks; the sender gives up after Timeout ticks and then writes    *)
(* "sent" or deletes the key, if the key is still its own.  A request that *)
(* is cut off, by the timeout or a failure, may still become a comment,    *)
(* and a later attempt posts it again.                                     *)
(*                                                                         *)
(* The hour for which a sent comment is remembered does not pass here.     *)
(***************************************************************************)
EXTENDS Naturals, FiniteSets

CONSTANTS
  Jobs,         \* jobs that post the comment
  Hosts,        \* backends
  Lease,        \* ticks Redis keeps a claim
  Timeout,      \* ticks a sender waits for GitHub
  Delay,        \* ticks a call to Redis may take; later ones are lost calls
  MaxAttempts,  \* attempts of a job
  MaxMishaps,   \* bound: lost calls and crashes
  Nobody

ASSUME LeaseAssumption ==
  /\ Lease \in Nat /\ Timeout \in Nat /\ Delay \in Nat
  /\ Delay + Timeout + Delay < Lease
ASSUME JobsAssumption ==
  /\ Nobody \notin Jobs /\ "sent" \notin Jobs /\ Nobody # "sent"
  /\ MaxAttempts \in Nat \ {0} /\ MaxMishaps \in Nat

VARIABLES
  pc,        \* job -> where it is in once()
  at,        \* job -> the backend that runs it
  attempts,  \* job -> attempts it has begun
  timer,     \* job -> ticks left for its claim, its send or its finish
  entry,     \* backend -> its DELIVERIES entry: who holds it, is it sent
  key,       \* the Redis key: a job's token, "sent" or Nobody
  lease,     \* ticks the key has left
  wire,      \* POST requests GitHub has not handled, one per attempt
  posted,    \* the requests GitHub has turned into a comment
  cut,       \* history: requests whose outcome nobody wrote down
  mishaps

cVars == <<pc, at, attempts, timer, entry, key, lease, wire, posted, cut,
           mishaps>>

Stages == {"idle", "entry", "claim", "claimed", "sending", "sent", "unsent",
           "done", "gone"}
Sending == {"claimed", "sending"}
Timed == Sending \cup {"sent", "unsent"}
FreeEntry == [holder |-> Nobody, sent |-> FALSE]
Request(j) == <<j, attempts[j]>>
Requests == Jobs \X (0 .. MaxAttempts)

CInit ==
  /\ pc = [j \in Jobs |-> "idle"]
  /\ at \in [Jobs -> Hosts]
  /\ attempts = [j \in Jobs |-> 0]
  /\ timer = [j \in Jobs |-> 0]
  /\ entry = [h \in Hosts |-> FreeEntry]
  /\ key = Nobody /\ lease = 0
  /\ wire = {} /\ posted = {} /\ cut = {}
  /\ mishaps = 0

-----------------------------------------------------------------------------
Mishap == mishaps < MaxMishaps /\ mishaps' = mishaps + 1
Github == <<wire, posted>>
Redis == <<key, lease>>
Move(j, from, to) == pc[j] = from /\ pc' = [pc EXCEPT ![j] = to]

\* Mutant: one attempt too many.
AfterErrorLate(j) == IF attempts[j] <= MaxAttempts THEN "idle" ELSE "gone"

\* once() returns an error: the webhook job is tried again, or was the last.
AfterError(j) == IF attempts[j] < MaxAttempts THEN "idle" ELSE "gone"

\* Mutant: the mutex stays locked after an error.
LeaveHeld(j, to, sent) ==
  /\ pc' = [pc EXCEPT ![j] = to]
  /\ entry' = [entry EXCEPT ![at[j]] =
                 [holder |-> IF to = "done" THEN Nobody ELSE j, sent |-> @.sent \/ sent]]
  /\ timer' = [timer EXCEPT ![j] = 0]

Leave(j, to, sent) ==
  /\ pc' = [pc EXCEPT ![j] = to]
  /\ entry' = [entry EXCEPT ![at[j]] = [holder |-> Nobody, sent |-> @.sent \/ sent]]
  /\ timer' = [timer EXCEPT ![j] = 0]

\* A worker of some backend takes the job up.
Begin(j) == \E h \in Hosts :
  /\ Move(j, "idle", "entry")
  /\ at' = [at EXCEPT ![j] = h]
  /\ attempts' = [attempts EXCEPT ![j] = @ + 1]
  /\ UNCHANGED <<timer, entry, Redis, Github, cut, mishaps>>

\* entry.lock(): the mutex, and what it remembers of this comment.
TakeEntry(j) ==
  /\ pc[j] = "entry" /\ entry[at[j]].holder = Nobody
  /\ IF entry[at[j]].sent
       THEN pc' = [pc EXCEPT ![j] = "done"] /\ UNCHANGED entry
       ELSE /\ pc' = [pc EXCEPT ![j] = "claim"]
            /\ entry' = [entry EXCEPT ![at[j]].holder = j]
  /\ UNCHANGED <<at, attempts, timer, Redis, Github, cut, mishaps>>

\* Mutants: the script sets the key whatever it holds, or whenever no other
\* backend holds it.
TakeAlways(j) == key' = j /\ lease' = Lease
TakeUnheld(j) == key \notin Jobs /\ key' = j /\ lease' = Lease

\* The CLAIM script, when the key is free.
Take(j) ==
  /\ key = Nobody
  /\ key' = j /\ lease' = Lease

Claim(j) ==
  /\ Move(j, "claim", "claimed")
  /\ Take(j)
  /\ timer' = [timer EXCEPT ![j] = Delay]
  /\ UNCHANGED <<at, attempts, entry, Github, cut, mishaps>>

ClaimIsSent(j) ==
  /\ pc[j] = "claim" /\ key = "sent"
  /\ Leave(j, "done", TRUE)
  /\ UNCHANGED <<at, attempts, Redis, Github, cut, mishaps>>

\* Fifty answers of 0: the caller is told that a delivery is in progress.
ClaimIsBusy(j) ==
  /\ pc[j] = "claim" /\ key \in Jobs
  /\ Leave(j, AfterError(j), FALSE)
  /\ UNCHANGED <<at, attempts, Redis, Github, cut, mishaps>>

\* Redis cannot be reached, or its answer is lost: nothing is sent.
ClaimFails(j) ==
  /\ pc[j] = "claim" /\ Mishap
  /\ Leave(j, AfterError(j), FALSE)
  /\ Take(j) \/ UNCHANGED Redis
  /\ UNCHANGED <<at, attempts, Github, cut>>

\* The timeout starts, and the POST is on its way.
Send(j) ==
  /\ Move(j, "claimed", "sending")
  /\ timer' = [timer EXCEPT ![j] = Timeout]
  /\ wire' = wire \cup {Request(j)}
  /\ UNCHANGED <<at, attempts, entry, Redis, posted, cut, mishaps>>

GitHubPosts == \E r \in wire :
  /\ wire' = wire \ {r}
  /\ posted' = posted \cup {r}
  /\ UNCHANGED <<pc, at, attempts, timer, entry, Redis, cut, mishaps>>

Result(j, to) ==
  /\ Move(j, "sending", to)
  /\ timer' = [timer EXCEPT ![j] = Delay]
  /\ UNCHANGED <<at, attempts, entry, Redis>>

Answered(j) ==
  /\ Result(j, "sent")
  /\ Request(j) \in posted
  /\ UNCHANGED <<Github, cut, mishaps>>

GitHubRefuses(j) ==
  /\ Result(j, "unsent") /\ Mishap
  /\ Request(j) \in wire /\ wire' = wire \ {Request(j)}
  /\ UNCHANGED <<posted, cut>>

\* The connection breaks; what is on its way may still arrive.
AnswerLost(j) ==
  /\ Result(j, "unsent") /\ Mishap
  /\ cut' = cut \cup {Request(j)}
  /\ UNCHANGED Github

TimesOut(j) ==
  /\ timer[j] = 0
  /\ Result(j, "unsent")
  /\ cut' = cut \cup {Request(j)}
  /\ UNCHANGED <<Github, mishaps>>

\* Mutant: the key is deleted after a success too.
ReleaseDeletes(j, sent) ==
  IF key = j THEN key' = Nobody /\ lease' = 0 ELSE UNCHANGED Redis

\* The FINISH script touches the key only if it still has the job's token.
Release(j, sent) ==
  IF key = j
    THEN IF sent THEN key' = "sent" /\ lease' = 0
                 ELSE key' = Nobody /\ lease' = 0
    ELSE UNCHANGED Redis

FinishSent(j) ==
  /\ pc[j] = "sent"
  /\ Leave(j, "done", TRUE)
  /\ Release(j, TRUE)
  /\ UNCHANGED <<at, attempts, Github, cut, mishaps>>

FinishUnsent(j) ==
  /\ pc[j] = "unsent"
  /\ Leave(j, AfterError(j), FALSE)
  /\ Release(j, FALSE)
  /\ UNCHANGED <<at, attempts, Github, cut, mishaps>>

\* The script fails or its answer is lost: the caller gets an error, and
\* only the entry is sure to know.
FinishFails(j) ==
  /\ pc[j] \in {"sent", "unsent"} /\ Mishap
  /\ Leave(j, AfterError(j), pc[j] = "sent")
  /\ \/ Release(j, pc[j] = "sent") /\ UNCHANGED cut
     \/ cut' = cut \cup {Request(j)} /\ UNCHANGED Redis
  /\ UNCHANGED <<at, attempts, Github>>

\* A backend dies and forgets its entries; its jobs stall and run again.
Crash == \E h \in Hosts :
  LET Here == {j \in Jobs : at[j] = h /\ pc[j] \notin {"idle", "done", "gone"}}
  IN  /\ Here # {} /\ Mishap
      /\ pc' = [j \in Jobs |-> IF j \in Here THEN AfterError(j) ELSE pc[j]]
      /\ timer' = [j \in Jobs |-> IF j \in Here THEN 0 ELSE timer[j]]
      /\ entry' = [entry EXCEPT ![h] = FreeEntry]
      /\ cut' = cut \cup {Request(j) : j \in {k \in Here : pc[k] \in Timed}}
      /\ UNCHANGED <<at, attempts, Redis, Github>>

\* Time passes, but for nobody past the answer it is waiting for.
Tick ==
  /\ \A j \in Jobs : pc[j] \in Timed => timer[j] > 0
  /\ lease > 0
  /\ timer' = [j \in Jobs |-> IF pc[j] \in Timed THEN timer[j] - 1 ELSE timer[j]]
  /\ lease' = lease - 1
  /\ key' = IF lease = 1 THEN Nobody ELSE key
  /\ UNCHANGED <<pc, at, attempts, entry, Github, cut, mishaps>>

-----------------------------------------------------------------------------
Step(j) ==
  \/ Begin(j) \/ TakeEntry(j) \/ Claim(j) \/ ClaimIsSent(j) \/ ClaimIsBusy(j)
  \/ Send(j) \/ Answered(j) \/ TimesOut(j) \/ FinishSent(j) \/ FinishUnsent(j)
Fail(j) == ClaimFails(j) \/ GitHubRefuses(j) \/ AnswerLost(j) \/ FinishFails(j)

Over == \A j \in Jobs : pc[j] \in {"done", "gone"}
CNext ==
  \/ \E j \in Jobs : Step(j) \/ Fail(j)
  \/ GitHubPosts \/ Crash \/ Tick

CSpec == CInit /\ [][CNext]_cVars

\* tokio runs every job, the clock runs, and GitHub handles what reaches it.
CFairness ==
  /\ \A j \in Jobs : WF_cVars(Step(j))
  /\ WF_cVars(GitHubPosts) /\ WF_cVars(Tick)
CFairSpec == CSpec /\ CFairness

-----------------------------------------------------------------------------
CTypeOK ==
  /\ pc \in [Jobs -> Stages]
  /\ at \in [Jobs -> Hosts]
  /\ attempts \in [Jobs -> 0 .. MaxAttempts]
  /\ timer \in [Jobs -> Nat]
  /\ entry \in [Hosts -> [holder : Jobs \cup {Nobody}, sent : BOOLEAN]]
  /\ key \in Jobs \cup {Nobody, "sent"} /\ lease \in Nat
  /\ wire \subseteq Requests /\ posted \subseteq Requests
  /\ cut \subseteq Requests
  /\ mishaps \in 0 .. MaxMishaps

(* No two jobs, on whatever backends, are between their claim and the end  *)
(* of their send: the lease outlives the timeout of the send.              *)
OneSender == \A j, k \in Jobs :
  pc[j] \in Sending /\ pc[k] \in Sending => j = k

(* A comment appears twice only if a delivery was cut off: of the requests *)
(* GitHub turned into a comment at most one had its outcome written down.  *)
AtMostOnce == \A r, q \in posted \ cut : r = q

(* Once Redis says "sent", nobody begins to post again.                    *)
SentIsFinal == [][key = "sent" => key' = "sent" /\ \A j \in Jobs :
                    pc'[j] \in Sending => pc[j] \in Sending]_cVars

(* Every job comes out of the mutex, the claim and the send: it has ended, *)
(* with the comment on record or with its attempts used up.                *)
EveryJobEnds == <>[]Over
=============================================================================
