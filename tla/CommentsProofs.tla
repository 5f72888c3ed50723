---------------------------- MODULE CommentsProofs ----------------------------
(***************************************************************************)
(* Proofs about Comments, for any jobs, backends, budgets and any lease    *)
(* that outlives a send and two calls to Redis.                            *)
(*                                                                         *)
(* Turns is the reason for everything: whoever is between its claim and    *)
(* the end of its send still owns the key, and the key outlives what is    *)
(* left of its deadline.  Ledger adds what GitHub knows: a request whose   *)
(* outcome is not lost belongs to the owner of the key, or the key says    *)
(* "sent" for ever.                                                        *)
(***************************************************************************)
EXTENDS Comments, TLAPS

\* A job that may begin again has an attempt left.
Budget == \A j \in Jobs : pc[j] = "idle" => attempts[j] < MaxAttempts
Typed == CTypeOK /\ Budget

Turns == \A j \in Jobs :
  /\ pc[j] = "claimed" => key = j /\ lease > timer[j] + Timeout + Delay
  /\ pc[j] = "sending" => key = j /\ lease > timer[j] + Delay
  /\ pc[j] = "sent" => key = j /\ lease > timer[j]

\* "sent" does not expire here.
Lasting == key = "sent" => lease = 0

Live == (wire \cup posted) \ cut
Unused(j) == pc[j] \in {"entry", "claim", "claimed"}

\* A request belongs to an attempt that has begun to send.
Begun == \A j \in Jobs, n \in Nat : <<j, n>> \in wire \cup posted =>
  n <= attempts[j] /\ (n = attempts[j] => ~Unused(j))
Apart == wire \cap posted = {}
Owned == \A r \in Live :
  key = "sent" \/ \E j \in Jobs : pc[j] \in {"sending", "sent"} /\ r = Request(j)
Single == \A r, q \in Live : r = q
Ledger == Begun /\ Apart /\ Owned /\ Single

-----------------------------------------------------------------------------
(* The end of once(), shared by seven actions: where the job is and what   *)
(* its variables are, whatever it leaves with.                             *)
LEMMA LeaveTyped ==
  ASSUME CTypeOK, NEW j \in Jobs, NEW to \in {"idle", "done", "gone"},
         NEW sent \in BOOLEAN, Leave(j, to, sent)
  PROVE  /\ pc' \in [Jobs -> Stages] /\ pc'[j] = to
         /\ \A k \in Jobs \ {j} : pc'[k] = pc[k] /\ timer'[k] = timer[k]
         /\ timer' \in [Jobs -> Nat]
         /\ entry' \in [Hosts -> [holder : Jobs \cup {Nobody}, sent : BOOLEAN]]
<1>1. pc' = [pc EXCEPT ![j] = to] /\ timer' = [timer EXCEPT ![j] = 0]
  BY DEF Leave
<1>2. to \in Stages
  BY DEF Stages
<1>3. pc' \in [Jobs -> Stages] /\ pc'[j] = to
  BY <1>1, <1>2 DEF CTypeOK
<1>4. timer' \in [Jobs -> Nat]
  BY <1>1 DEF CTypeOK
<1>5. \A k \in Jobs \ {j} : pc'[k] = pc[k] /\ timer'[k] = timer[k]
  BY <1>1 DEF CTypeOK
<1>6. entry' \in [Hosts -> [holder : Jobs \cup {Nobody}, sent : BOOLEAN]]
  <2>1. at[j] \in Hosts
    BY DEF CTypeOK
  <2>2. entry[at[j]] \in [holder : Jobs \cup {Nobody}, sent : BOOLEAN]
    BY <2>1 DEF CTypeOK
  <2>3. [holder |-> Nobody, sent |-> entry[at[j]].sent \/ sent]
          \in [holder : Jobs \cup {Nobody}, sent : BOOLEAN]
    BY <2>2
  <2>4. entry' = [entry EXCEPT ![at[j]] =
                    [holder |-> Nobody, sent |-> entry[at[j]].sent \/ sent]]
    BY DEF Leave
  <2> QED BY <2>1, <2>3, <2>4 DEF CTypeOK
<1> QED BY <1>3, <1>4, <1>5, <1>6

(* An error never leaves a job idle without an attempt.                    *)
LEMMA AfterErrorEnds ==
  ASSUME NEW j \in Jobs
  PROVE  /\ AfterError(j) \in {"idle", "gone"}
         /\ AfterError(j) = "idle" => attempts[j] < MaxAttempts
BY DEF AfterError

(* The claim and the two scripts write the key as a job's, or as one of    *)
(* the two words.                                                          *)
LEMMA KeyTyped ==
  ASSUME CTypeOK, NEW j \in Jobs, NEW sent \in BOOLEAN,
         Take(j) \/ Release(j, sent) \/ UNCHANGED Redis
  PROVE  key' \in Jobs \cup {Nobody, "sent"} /\ lease' \in Nat
BY LeaseAssumption DEF CTypeOK, Take, Release, Redis

LEMMA TypedStep == Typed /\ [CNext]_cVars => Typed'
<1> SUFFICES ASSUME Typed, [CNext]_cVars
             PROVE  Typed'
  OBVIOUS
<1> USE DEF Typed
<1>0. \A j \in Jobs : Request(j) \in Requests
  BY DEF CTypeOK, Request, Requests
<1>1. ASSUME NEW j \in Jobs, Begin(j) PROVE Typed'
  <2>1. PICK h \in Hosts : at' = [at EXCEPT ![j] = h]
    BY <1>1 DEF Begin
  <2>2. pc' = [pc EXCEPT ![j] = "entry"] /\ attempts' = [attempts EXCEPT ![j] = @ + 1]
        /\ pc[j] = "idle"
    BY <1>1 DEF Begin, Move
  <2>3. attempts[j] + 1 \in 0 .. MaxAttempts
    BY <2>2, JobsAssumption DEF CTypeOK, Budget
  <2>4. pc' \in [Jobs -> Stages] /\ at' \in [Jobs -> Hosts]
        /\ attempts' \in [Jobs -> 0 .. MaxAttempts]
    BY <2>1, <2>2, <2>3 DEF CTypeOK, Stages
  <2>5. CTypeOK'
    BY <2>4, <1>1 DEF CTypeOK, Begin, Redis, Github, Requests
  <2>6. Budget'
    BY <2>2 DEF CTypeOK, Budget
  <2> QED BY <2>5, <2>6
<1>2. ASSUME NEW j \in Jobs, TakeEntry(j) PROVE Typed'
  <2>1. at[j] \in Hosts
    BY DEF CTypeOK
  <2>2. entry[at[j]] \in [holder : Jobs \cup {Nobody}, sent : BOOLEAN]
    BY <2>1 DEF CTypeOK
  <2>3. entry' \in [Hosts -> [holder : Jobs \cup {Nobody}, sent : BOOLEAN]]
    BY <2>1, <2>2, <1>2 DEF CTypeOK, TakeEntry
  <2>4. pc' \in [Jobs -> Stages] /\ pc'[j] \in {"done", "claim"}
        /\ \A k \in Jobs \ {j} : pc'[k] = pc[k]
    BY <1>2 DEF CTypeOK, TakeEntry, Stages
  <2>5. UNCHANGED <<at, attempts, timer, key, lease, wire, posted, cut, mishaps>>
    BY <1>2 DEF TakeEntry, Redis, Github
  <2>6. CTypeOK'
    BY <2>3, <2>4, <2>5 DEF CTypeOK, Requests
  <2> QED BY <2>4, <2>5, <2>6 DEF Budget
<1>3. ASSUME NEW j \in Jobs, Claim(j) PROVE Typed'
  <2>1. key' \in Jobs \cup {Nobody, "sent"} /\ lease' \in Nat
    BY <1>3, KeyTyped DEF Claim
  <2>2. pc' = [pc EXCEPT ![j] = "claimed"] /\ timer' = [timer EXCEPT ![j] = Delay]
    BY <1>3 DEF Claim, Move
  <2>3. pc' \in [Jobs -> Stages] /\ timer' \in [Jobs -> Nat]
    BY <2>2, LeaseAssumption DEF CTypeOK, Stages
  <2>4. UNCHANGED <<at, attempts, entry, wire, posted, cut, mishaps>>
    BY <1>3 DEF Claim, Github
  <2>5. CTypeOK'
    BY <2>1, <2>3, <2>4 DEF CTypeOK, Requests
  <2> QED BY <2>2, <2>4, <2>5 DEF CTypeOK, Budget
<1>4. ASSUME NEW j \in Jobs, ClaimIsSent(j) PROVE Typed'
  <2>1. Leave(j, "done", TRUE) /\ UNCHANGED <<at, attempts, key, lease, wire, posted, cut, mishaps>>
    BY <1>4 DEF ClaimIsSent, Redis, Github
  <2> QED BY <2>1, LeaveTyped DEF CTypeOK, Budget, Requests
<1>5. ASSUME NEW j \in Jobs, ClaimIsBusy(j) PROVE Typed'
  <2>1. Leave(j, AfterError(j), FALSE)
        /\ UNCHANGED <<at, attempts, key, lease, wire, posted, cut, mishaps>>
    BY <1>5 DEF ClaimIsBusy, Redis, Github
  <2> QED BY <2>1, LeaveTyped, AfterErrorEnds DEF CTypeOK, Budget, Requests
<1>6. ASSUME NEW j \in Jobs, ClaimFails(j) PROVE Typed'
  <2>1. Leave(j, AfterError(j), FALSE)
        /\ UNCHANGED <<at, attempts, wire, posted, cut>>
    BY <1>6 DEF ClaimFails, Github
  <2>2. key' \in Jobs \cup {Nobody, "sent"} /\ lease' \in Nat
    BY <1>6, KeyTyped DEF ClaimFails
  <2>3. mishaps' \in 0 .. MaxMishaps
    BY <1>6, JobsAssumption DEF ClaimFails, Mishap, CTypeOK
  <2> QED BY <2>1, <2>2, <2>3, LeaveTyped, AfterErrorEnds DEF CTypeOK, Budget, Requests
<1>7. ASSUME NEW j \in Jobs, Send(j) PROVE Typed'
  <2>1. pc' = [pc EXCEPT ![j] = "sending"] /\ timer' = [timer EXCEPT ![j] = Timeout]
        /\ wire' = wire \cup {Request(j)}
    BY <1>7 DEF Send, Move
  <2>2. pc' \in [Jobs -> Stages] /\ timer' \in [Jobs -> Nat]
    BY <2>1, LeaseAssumption DEF CTypeOK, Stages
  <2>3. UNCHANGED <<at, attempts, entry, key, lease, posted, cut, mishaps>>
    BY <1>7 DEF Send, Redis
  <2>4. CTypeOK'
    BY <1>0, <2>1, <2>2, <2>3 DEF CTypeOK, Requests
  <2> QED BY <2>1, <2>3, <2>4 DEF CTypeOK, Budget
<1>8. ASSUME GitHubPosts PROVE Typed'
  BY <1>8 DEF GitHubPosts, CTypeOK, Budget, Redis, Requests
<1>9. ASSUME NEW j \in Jobs, NEW to \in {"sent", "unsent"}, Result(j, to),
             wire' \in SUBSET wire, UNCHANGED posted,
             cut' \in {cut, cut \cup {Request(j)}}, mishaps' \in 0 .. MaxMishaps
      PROVE  Typed'
  <2>1. pc' = [pc EXCEPT ![j] = to] /\ timer' = [timer EXCEPT ![j] = Delay]
    BY <1>9 DEF Result, Move
  <2>2. pc' \in [Jobs -> Stages] /\ timer' \in [Jobs -> Nat]
    BY <2>1, LeaseAssumption DEF CTypeOK, Stages
  <2>3. UNCHANGED <<at, attempts, entry, key, lease>>
    BY <1>9 DEF Result, Redis
  <2>4. CTypeOK'
    BY <1>0, <1>9, <2>2, <2>3 DEF CTypeOK, Requests
  <2> QED BY <2>1, <2>3, <2>4 DEF CTypeOK, Budget
<1>10. ASSUME NEW j \in Jobs, Answered(j) \/ GitHubRefuses(j) \/ AnswerLost(j) \/ TimesOut(j)
       PROVE Typed'
  <2>1. mishaps' \in 0 .. MaxMishaps
    BY <1>10, JobsAssumption
    DEF Answered, GitHubRefuses, AnswerLost, TimesOut, Mishap, CTypeOK
  <2>2. wire' \in SUBSET wire /\ UNCHANGED posted /\ cut' \in {cut, cut \cup {Request(j)}}
    BY <1>10 DEF Answered, GitHubRefuses, AnswerLost, TimesOut, Github
  <2>3. Result(j, "sent") \/ Result(j, "unsent")
    BY <1>10 DEF Answered, GitHubRefuses, AnswerLost, TimesOut
  <2> QED BY <1>9, <2>1, <2>2, <2>3
<1>11. ASSUME NEW j \in Jobs, FinishSent(j) PROVE Typed'
  <2>1. Leave(j, "done", TRUE) /\ UNCHANGED <<at, attempts, wire, posted, cut, mishaps>>
    BY <1>11 DEF FinishSent, Github
  <2>2. key' \in Jobs \cup {Nobody, "sent"} /\ lease' \in Nat
    BY <1>11, KeyTyped DEF FinishSent
  <2> QED BY <2>1, <2>2, LeaveTyped DEF CTypeOK, Budget, Requests
<1>12. ASSUME NEW j \in Jobs, FinishUnsent(j) PROVE Typed'
  <2>1. Leave(j, AfterError(j), FALSE) /\ UNCHANGED <<at, attempts, wire, posted, cut, mishaps>>
    BY <1>12 DEF FinishUnsent, Github
  <2>2. key' \in Jobs \cup {Nobody, "sent"} /\ lease' \in Nat
    BY <1>12, KeyTyped DEF FinishUnsent
  <2> QED BY <2>1, <2>2, LeaveTyped, AfterErrorEnds DEF CTypeOK, Budget, Requests
<1>13. ASSUME NEW j \in Jobs, FinishFails(j) PROVE Typed'
  <2>1. Leave(j, AfterError(j), pc[j] = "sent") /\ UNCHANGED <<at, attempts, wire, posted>>
    BY <1>13 DEF FinishFails, Github
  <2>2. key' \in Jobs \cup {Nobody, "sent"} /\ lease' \in Nat
    BY <1>13, KeyTyped DEF FinishFails
  <2>3. mishaps' \in 0 .. MaxMishaps
    BY <1>13, JobsAssumption DEF FinishFails, Mishap, CTypeOK
  <2>4. cut' \in SUBSET Requests
    BY <1>0, <1>13 DEF FinishFails, CTypeOK
  <2> QED BY <2>1, <2>2, <2>3, <2>4, LeaveTyped, AfterErrorEnds DEF CTypeOK, Budget, Requests
<1>14. ASSUME Crash PROVE Typed'
  <2>1. PICK h \in Hosts : \E Here \in SUBSET Jobs :
          /\ Here = {j \in Jobs : at[j] = h /\ pc[j] \notin {"idle", "done", "gone"}}
          /\ pc' = [j \in Jobs |-> IF j \in Here THEN AfterError(j) ELSE pc[j]]
          /\ timer' = [j \in Jobs |-> IF j \in Here THEN 0 ELSE timer[j]]
          /\ entry' = [entry EXCEPT ![h] = FreeEntry]
          /\ cut' = cut \cup {Request(j) : j \in {k \in Here : pc[k] \in Timed}}
    BY <1>14 DEF Crash
  <2>2. PICK Here \in SUBSET Jobs :
          /\ pc' = [j \in Jobs |-> IF j \in Here THEN AfterError(j) ELSE pc[j]]
          /\ timer' = [j \in Jobs |-> IF j \in Here THEN 0 ELSE timer[j]]
          /\ cut' = cut \cup {Request(j) : j \in {k \in Here : pc[k] \in Timed}}
    BY <2>1
  <2>3. pc' \in [Jobs -> Stages]
    BY <2>2, AfterErrorEnds DEF CTypeOK, Stages
  <2>4. timer' \in [Jobs -> Nat] /\ cut' \in SUBSET Requests
    BY <1>0, <2>2 DEF CTypeOK
  <2>5. entry' \in [Hosts -> [holder : Jobs \cup {Nobody}, sent : BOOLEAN]]
    BY <2>1 DEF CTypeOK, FreeEntry
  <2>6. UNCHANGED <<at, attempts, key, lease, wire, posted>> /\ mishaps' \in 0 .. MaxMishaps
    BY <1>14, JobsAssumption DEF Crash, Mishap, Redis, Github, CTypeOK
  <2>7. CTypeOK'
    BY <2>3, <2>4, <2>5, <2>6 DEF CTypeOK, Requests
  <2>8. Budget'
    BY <2>2, <2>6, AfterErrorEnds DEF CTypeOK, Budget
  <2> QED BY <2>7, <2>8
<1>15. ASSUME Tick PROVE Typed'
  <2>1. timer' = [j \in Jobs |-> IF pc[j] \in Timed THEN timer[j] - 1 ELSE timer[j]]
        /\ \A j \in Jobs : pc[j] \in Timed => timer[j] > 0
    BY <1>15 DEF Tick
  <2>2. timer' \in [Jobs -> Nat]
    BY <2>1 DEF CTypeOK
  <2>3. lease' \in Nat /\ key' \in Jobs \cup {Nobody, "sent"}
    BY <1>15 DEF Tick, CTypeOK
  <2>4. UNCHANGED <<pc, at, attempts, entry, wire, posted, cut, mishaps>>
    BY <1>15 DEF Tick, Github
  <2> QED BY <2>2, <2>3, <2>4 DEF CTypeOK, Budget, Requests
<1>16. CASE UNCHANGED cVars
  BY <1>16 DEF cVars, CTypeOK, Budget, Requests
<1> QED BY <1>1, <1>2, <1>3, <1>4, <1>5, <1>6, <1>7, <1>8, <1>10, <1>11, <1>12, <1>13,
           <1>14, <1>15, <1>16 DEF CNext, Step, Fail

(* Every variable of a delivery keeps its type, for any jobs, backends and *)
(* bounds; a job that begins again never exceeds its attempts.             *)
THEOREM TypeCorrect == CSpec => []CTypeOK
<1>1. CInit => Typed
  <2> SUFFICES ASSUME CInit PROVE Typed
    OBVIOUS
  <2>1. CTypeOK
    BY JobsAssumption DEF CInit, CTypeOK, Stages, FreeEntry, Requests
  <2>2. Budget
    BY JobsAssumption DEF CInit, Budget
  <2> QED BY <2>1, <2>2 DEF Typed
<1>2. CSpec => []Typed
  BY <1>1, TypedStep, PTL DEF CSpec
<1> QED BY <1>2, PTL DEF Typed

-----------------------------------------------------------------------------
(* How a step changes one job: what the proofs below need of each action.  *)
LEMMA PcMoves ==
  ASSUME CTypeOK, NEW j \in Jobs, NEW from, NEW to, Move(j, from, to)
  PROVE  pc[j] = from /\ pc'[j] = to /\ \A k \in Jobs \ {j} : pc'[k] = pc[k]
BY DEF Move, CTypeOK

LEMMA TurnsStep == Typed /\ Turns /\ Lasting /\ [CNext]_cVars => (Turns /\ Lasting)'
<1> SUFFICES ASSUME Typed, Turns, Lasting, [CNext]_cVars
             PROVE  (Turns /\ Lasting)'
  OBVIOUS
<1> USE JobsAssumption
<1>t. /\ timer \in [Jobs -> Nat] /\ lease \in Nat /\ pc \in [Jobs -> Stages] /\ CTypeOK
      /\ key \in Jobs \cup {Nobody, "sent"}
  BY DEF Typed, CTypeOK
\* Steps that neither take a turn nor touch the key.
<1>a. ASSUME NEW j \in Jobs, pc'[j] \notin {"claimed", "sending", "sent"},
             \A k \in Jobs \ {j} : pc'[k] = pc[k] /\ timer'[k] = timer[k],
             UNCHANGED Redis
      PROVE  (Turns /\ Lasting)'
  BY <1>a DEF Turns, Lasting, Redis
\* Steps that end a job's run, and write the key as its owner.
<1>b. ASSUME NEW j \in Jobs, NEW to \in {"idle", "done", "gone"}, NEW sent \in BOOLEAN,
             Leave(j, to, sent), Take(j) \/ UNCHANGED Redis
      PROVE  (Turns /\ Lasting)'
  <2>1. pc'[j] = to /\ \A k \in Jobs \ {j} : pc'[k] = pc[k] /\ timer'[k] = timer[k]
    BY <1>b, <1>t, LeaveTyped
  <2>2. CASE UNCHANGED Redis
    BY <2>1, <2>2, <1>a
  <2>3. CASE Take(j)
    BY <2>1, <2>3 DEF Turns, Lasting, Take
  <2> QED BY <1>b, <2>2, <2>3
<1>c. ASSUME NEW j \in Jobs, NEW to \in {"idle", "done", "gone"}, NEW sent \in BOOLEAN,
             NEW said \in BOOLEAN, Leave(j, to, said), Release(j, sent)
      PROVE  (Turns /\ Lasting)'
  <2>1. pc'[j] = to /\ \A k \in Jobs \ {j} : pc'[k] = pc[k] /\ timer'[k] = timer[k]
    BY <1>c, <1>t, LeaveTyped
  <2>2. CASE key = j
    BY <2>1, <2>2, <1>c DEF Turns, Lasting, Release
  <2>3. CASE key # j
    BY <2>1, <2>3, <1>c, <1>a DEF Release
  <2> QED BY <2>2, <2>3
<1>1. ASSUME NEW j \in Jobs, Begin(j) \/ TakeEntry(j) PROVE (Turns /\ Lasting)'
  <2>1. pc'[j] \in {"entry", "done", "claim"} /\ \A k \in Jobs \ {j} : pc'[k] = pc[k]
    BY <1>1, <1>t DEF Begin, TakeEntry, Move
  <2>2. UNCHANGED <<timer, key, lease>>
    BY <1>1 DEF Begin, TakeEntry, Redis
  <2> QED BY <1>a, <2>1, <2>2 DEF Redis
<1>2. ASSUME NEW j \in Jobs, Claim(j) PROVE (Turns /\ Lasting)'
  <2>1. pc'[j] = "claimed" /\ \A k \in Jobs \ {j} : pc'[k] = pc[k]
    BY <1>2, <1>t, PcMoves DEF Claim
  <2>2. timer'[j] = Delay /\ key = Nobody /\ key' = j /\ lease' = Lease
    BY <1>2, <1>t DEF Claim, Take
  <2> QED BY <2>1, <2>2, LeaseAssumption DEF Turns, Lasting
<1>3. ASSUME NEW j \in Jobs, ClaimIsSent(j) \/ ClaimIsBusy(j) \/ ClaimFails(j)
      PROVE (Turns /\ Lasting)'
  <2>1. \E to \in {"idle", "done", "gone"}, sent \in BOOLEAN : Leave(j, to, sent)
    BY <1>3, AfterErrorEnds DEF ClaimIsSent, ClaimIsBusy, ClaimFails
  <2>2. Take(j) \/ UNCHANGED Redis
    BY <1>3 DEF ClaimIsSent, ClaimIsBusy, ClaimFails
  <2> QED BY <1>b, <2>1, <2>2
<1>4. ASSUME NEW j \in Jobs, Send(j) PROVE (Turns /\ Lasting)'
  <2>1. pc[j] = "claimed" /\ pc'[j] = "sending" /\ \A k \in Jobs \ {j} : pc'[k] = pc[k]
    BY <1>4, <1>t, PcMoves DEF Send
  <2>2. timer'[j] = Timeout /\ \A k \in Jobs \ {j} : timer'[k] = timer[k]
    BY <1>4, <1>t DEF Send
  <2>3. UNCHANGED <<key, lease>>
    BY <1>4 DEF Send, Redis
  <2> QED BY <1>t, <2>1, <2>2, <2>3, LeaseAssumption DEF Turns, Lasting
<1>5. ASSUME NEW j \in Jobs, Answered(j) \/ GitHubRefuses(j) \/ AnswerLost(j) \/ TimesOut(j)
      PROVE (Turns /\ Lasting)'
  <2>1. PICK to \in {"sent", "unsent"} : Result(j, to)
    BY <1>5 DEF Answered, GitHubRefuses, AnswerLost, TimesOut
  <2>2. pc[j] = "sending" /\ pc'[j] = to /\ \A k \in Jobs \ {j} : pc'[k] = pc[k]
    BY <2>1, <1>t, PcMoves DEF Result
  <2>3. timer'[j] = Delay /\ (\A k \in Jobs \ {j} : timer'[k] = timer[k])
        /\ UNCHANGED <<key, lease>>
    BY <2>1, <1>t DEF Result, Redis
  <2> QED BY <1>t, <2>2, <2>3, LeaseAssumption DEF Turns, Lasting
<1>6. ASSUME NEW j \in Jobs, FinishSent(j) \/ FinishUnsent(j) \/ FinishFails(j)
      PROVE (Turns /\ Lasting)'
  <2>1. PICK to \in {"idle", "done", "gone"}, said \in BOOLEAN : Leave(j, to, said)
    BY <1>6, AfterErrorEnds DEF FinishSent, FinishUnsent, FinishFails
  <2>2. (\E sent \in BOOLEAN : Release(j, sent)) \/ UNCHANGED Redis
    BY <1>6 DEF FinishSent, FinishUnsent, FinishFails
  <2> QED BY <1>b, <1>c, <2>1, <2>2
<1>7. ASSUME Crash PROVE (Turns /\ Lasting)'
  <2>1. PICK Here \in SUBSET Jobs :
          /\ pc' = [j \in Jobs |-> IF j \in Here THEN AfterError(j) ELSE pc[j]]
          /\ timer' = [j \in Jobs |-> IF j \in Here THEN 0 ELSE timer[j]]
    BY <1>7 DEF Crash
  <2>2. UNCHANGED <<key, lease>>
    BY <1>7 DEF Crash, Redis
  <2> QED BY <2>1, <2>2, AfterErrorEnds DEF Turns, Lasting
<1>8. ASSUME Tick PROVE (Turns /\ Lasting)'
  <2>1. ASSUME NEW j \in Jobs, pc[j] \in {"claimed", "sending", "sent"}
        PROVE  timer[j] > 0 /\ timer'[j] = timer[j] - 1
    BY <1>8, <2>1 DEF Tick, Timed, Sending
  <2>2. UNCHANGED pc /\ lease > 0 /\ lease' = lease - 1
        /\ key' = IF lease = 1 THEN Nobody ELSE key
    BY <1>8 DEF Tick
  <2>3. ASSUME NEW j \in Jobs, pc[j] \in {"claimed", "sending", "sent"}
        PROVE  key' = key
    BY <1>t, <2>1, <2>2, <2>3, LeaseAssumption DEF Turns
  <2>4. Turns'
    BY <1>t, <2>1, <2>2, <2>3, LeaseAssumption DEF Turns
  <2>5. Lasting'
    BY <1>t, <2>2 DEF Lasting
  <2> QED BY <2>4, <2>5
<1>9. CASE UNCHANGED cVars
  BY <1>9 DEF cVars, Turns, Lasting
<1>10. ASSUME GitHubPosts PROVE (Turns /\ Lasting)'
  BY <1>10 DEF GitHubPosts, Turns, Lasting, Redis
<1> QED BY <1>1, <1>2, <1>3, <1>4, <1>5, <1>6, <1>7, <1>8, <1>9, <1>10
        DEF CNext, Step, Fail

Settled == Typed /\ Turns /\ Lasting

LEMMA SettledAlways == CSpec => []Settled
<1>1. CInit => Settled
  <2> SUFFICES ASSUME CInit PROVE Settled
    OBVIOUS
  <2>1. Typed
    BY JobsAssumption
    DEF CInit, Typed, CTypeOK, Budget, Stages, FreeEntry, Requests
  <2>2. Turns /\ Lasting
    BY JobsAssumption DEF CInit, Turns, Lasting
  <2> QED BY <2>1, <2>2 DEF Settled
<1>2. Settled /\ [CNext]_cVars => Settled'
  BY TypedStep, TurnsStep DEF Settled
<1> QED BY <1>1, <1>2, PTL DEF CSpec

(* No two jobs are between their claim and the end of their send at once:  *)
(* both would own the key.  The lease has to outlive one send and the two  *)
(* calls to Redis around it, which is what comment_delivery.rs promises of *)
(* its 45 and 60 seconds.                                                  *)
THEOREM SendersExclude == CSpec => []OneSender
<1>1. Settled => OneSender
  BY DEF Settled, Turns, OneSender, Sending
<1> QED BY <1>1, SettledAlways, PTL

(* "sent" stays: no script and no expiry replaces it, and no job that had  *)
(* not claimed the key by then begins to post.                             *)
THEOREM SentStays == CSpec => SentIsFinal
<1> DEFINE Stays == key = "sent" => key' = "sent" /\ \A j \in Jobs :
                      pc'[j] \in Sending => pc[j] \in Sending
<1>1. Settled /\ [CNext]_cVars => Stays
  <2> SUFFICES ASSUME Settled, [CNext]_cVars, key = "sent" PROVE Stays
    OBVIOUS
  <2> USE JobsAssumption
  <2>t. CTypeOK /\ pc \in [Jobs -> Stages] /\ lease = 0 /\ "sent" \notin Jobs
    BY DEF Settled, Typed, CTypeOK, Lasting
  <2>a. ASSUME NEW j \in Jobs, pc'[j] \in Sending => pc[j] \in Sending,
               \A k \in Jobs \ {j} : pc'[k] = pc[k], UNCHANGED key
        PROVE  Stays
    BY <2>a
  <2>b. ASSUME NEW j \in Jobs, NEW to \in {"idle", "done", "gone"}, NEW sent \in BOOLEAN,
               Leave(j, to, sent), UNCHANGED key
        PROVE  Stays
    BY <2>a, <2>b, <2>t, LeaveTyped DEF Sending
  <2>1. ASSUME NEW j \in Jobs, Begin(j) \/ TakeEntry(j) \/ Send(j) PROVE Stays
    <3>1. pc'[j] \in {"entry", "done", "claim"} \/ pc[j] = "claimed"
      BY <2>1, <2>t DEF Begin, TakeEntry, Send, Move
    <3>2. (\A k \in Jobs \ {j} : pc'[k] = pc[k]) /\ UNCHANGED key
      BY <2>1, <2>t DEF Begin, TakeEntry, Send, Move, Redis
    <3> QED BY <2>a, <3>1, <3>2 DEF Sending
  <2>2. ASSUME NEW j \in Jobs, Claim(j) PROVE Stays
    BY <2>2 DEF Claim, Take
  <2>3. ASSUME NEW j \in Jobs, ClaimIsSent(j) \/ ClaimIsBusy(j) \/ ClaimFails(j) PROVE Stays
    <3>1. UNCHANGED key
      BY <2>3 DEF ClaimIsSent, ClaimIsBusy, ClaimFails, Take, Redis
    <3>2. \E to \in {"idle", "done", "gone"}, sent \in BOOLEAN : Leave(j, to, sent)
      BY <2>3, AfterErrorEnds DEF ClaimIsSent, ClaimIsBusy, ClaimFails
    <3> QED BY <2>b, <3>1, <3>2
  <2>4. ASSUME NEW j \in Jobs, Answered(j) \/ GitHubRefuses(j) \/ AnswerLost(j) \/ TimesOut(j)
        PROVE  Stays
    <3>1. PICK to \in {"sent", "unsent"} : Result(j, to)
      BY <2>4 DEF Answered, GitHubRefuses, AnswerLost, TimesOut
    <3>2. pc[j] = "sending" /\ (\A k \in Jobs \ {j} : pc'[k] = pc[k]) /\ UNCHANGED key
      BY <2>t, <3>1, PcMoves DEF Result, Redis
    <3> QED BY <2>a, <3>2 DEF Sending
  <2>5. ASSUME NEW j \in Jobs, FinishSent(j) \/ FinishUnsent(j) \/ FinishFails(j) PROVE Stays
    <3>1. UNCHANGED key
      BY <2>5, <2>t DEF FinishSent, FinishUnsent, FinishFails, Release, Redis
    <3>2. \E to \in {"idle", "done", "gone"}, sent \in BOOLEAN : Leave(j, to, sent)
      BY <2>5, AfterErrorEnds DEF FinishSent, FinishUnsent, FinishFails
    <3> QED BY <2>b, <3>1, <3>2
  <2>6. ASSUME Crash PROVE Stays
    <3>1. PICK Here \in SUBSET Jobs :
            pc' = [j \in Jobs |-> IF j \in Here THEN AfterError(j) ELSE pc[j]]
      BY <2>6 DEF Crash
    <3>2. UNCHANGED key
      BY <2>6 DEF Crash, Redis
    <3> QED BY <3>1, <3>2, AfterErrorEnds DEF Sending
  <2>7. ~Tick
    BY <2>t DEF Tick
  <2>8. CASE GitHubPosts \/ UNCHANGED cVars
    BY <2>8 DEF GitHubPosts, cVars, Redis
  <2> QED BY <2>1, <2>2, <2>3, <2>4, <2>5, <2>6, <2>7, <2>8 DEF CNext, Step, Fail
<1> QED BY <1>1, SettledAlways, PTL DEF CSpec, SentIsFinal

-----------------------------------------------------------------------------
(* Who else could have a request alive: nobody, while the key is neither   *)
(* "sent" nor a sender's.                                                  *)
LEMMA NobodyElse ==
  ASSUME Settled, Owned, NEW r \in Live, key # "sent"
  PROVE  \E j \in Jobs : key = j /\ pc[j] \in {"sending", "sent"} /\ r = Request(j)
BY DEF Owned, Settled, Turns

(* Steps that neither send nor settle leave the ledger alone.              *)
LEMMA LedgerKept ==
  ASSUME Settled, Ledger, UNCHANGED <<attempts, wire, posted, cut, key>>,
         \A j \in Jobs : /\ pc[j] \in {"sending", "sent"} => pc'[j] = pc[j]
                         /\ Unused(j)' => Unused(j)
  PROVE  Ledger'
<1>1. Begun'
  BY DEF Ledger, Begun
<1>2. Live' = Live /\ (Apart /\ Single)'
  BY DEF Ledger, Apart, Single, Live
<1>3. \A j \in Jobs : Request(j)' = Request(j)
  BY DEF Request
<1>4. Owned'
  BY <1>2, <1>3 DEF Ledger, Owned
<1> QED BY <1>1, <1>2, <1>4 DEF Ledger

(* Steps that lose requests, and take or give up the key while nothing is  *)
(* alive.                                                                  *)
LEMMA LedgerShrinks ==
  ASSUME Ledger, UNCHANGED attempts,
         (wire \cup posted)' \subseteq wire \cup posted, Apart',
         Live' \subseteq Live,
         \A r \in Live' : key' = "sent" \/ \E j \in Jobs :
            pc'[j] \in {"sending", "sent"} /\ r = Request(j),
         \A j \in Jobs : Unused(j)' => Unused(j)
  PROVE  Ledger'
<1>1. Begun'
  BY DEF Ledger, Begun
<1>2. \A j \in Jobs : Request(j)' = Request(j)
  BY DEF Request
<1>3. Owned'
  BY <1>2 DEF Owned
<1>4. Single'
  BY DEF Ledger, Single
<1> QED BY <1>1, <1>3, <1>4 DEF Ledger

LEMMA LedgerStep == Settled /\ Ledger /\ [CNext]_cVars => Ledger'
<1> SUFFICES ASSUME Settled, Ledger, [CNext]_cVars
             PROVE  Ledger'
  OBVIOUS
<1> USE JobsAssumption
<1>t. /\ CTypeOK /\ pc \in [Jobs -> Stages] /\ attempts \in [Jobs -> 0 .. MaxAttempts]
      /\ "sent" \notin Jobs /\ Nobody \notin Jobs /\ Nobody # "sent"
  BY DEF Settled, Typed, CTypeOK
<1>o. Owned /\ Apart /\ Begun /\ Single
  BY DEF Ledger
\* A step of one job that ends outside a send, and loses nothing that lives.
<1>a. ASSUME NEW j \in Jobs, pc[j] \notin {"sending", "sent"},
             pc'[j] \in {"done", "idle", "gone"}, \A k \in Jobs \ {j} : pc'[k] = pc[k],
             UNCHANGED <<attempts, wire, posted, cut, key>>
      PROVE  Ledger'
  BY <1>a, LedgerKept DEF Unused
<1>1. ASSUME NEW j \in Jobs, Begin(j) PROVE Ledger'
  <2>1. pc[j] = "idle" /\ pc'[j] = "entry" /\ \A k \in Jobs \ {j} : pc'[k] = pc[k]
    BY <1>1, <1>t, PcMoves DEF Begin
  <2>2. /\ attempts'[j] = attempts[j] + 1
        /\ \A k \in Jobs \ {j} : attempts'[k] = attempts[k]
        /\ UNCHANGED <<wire, posted, cut, key>>
    BY <1>1, <1>t DEF Begin, Redis, Github
  <2>3. Begun'
    BY <1>t, <1>o, <2>1, <2>2 DEF Begun, Unused
  <2>4. \A k \in Jobs \ {j} : Request(k)' = Request(k)
    BY <2>2 DEF Request
  <2>5. Owned'
    BY <1>o, <2>1, <2>2, <2>4 DEF Owned, Live
  <2> QED BY <1>o, <2>2, <2>3, <2>5 DEF Ledger, Apart, Single, Live
<1>2. ASSUME NEW j \in Jobs, TakeEntry(j) PROVE Ledger'
  <2>1. pc[j] = "entry" /\ pc'[j] \in {"done", "claim"}
        /\ \A k \in Jobs \ {j} : pc'[k] = pc[k]
    BY <1>2, <1>t DEF TakeEntry
  <2>2. UNCHANGED <<attempts, wire, posted, cut, key>>
    BY <1>2 DEF TakeEntry, Redis, Github
  <2> QED BY <2>1, <2>2, LedgerKept DEF Unused
<1>3. ASSUME NEW j \in Jobs, Claim(j) PROVE Ledger'
  <2>1. pc[j] = "claim" /\ pc'[j] = "claimed" /\ \A k \in Jobs \ {j} : pc'[k] = pc[k]
    BY <1>3, <1>t, PcMoves DEF Claim
  <2>2. Live = {}
    BY <1>3, <1>t, <1>o, NobodyElse DEF Claim, Take
  <2>3. UNCHANGED <<attempts, wire, posted, cut>>
    BY <1>3 DEF Claim, Github
  <2>4. Live' = {} /\ Apart'
    BY <1>o, <2>2, <2>3 DEF Live, Apart
  <2> QED BY <2>1, <2>3, <2>4, LedgerShrinks DEF Unused
<1>4. ASSUME NEW j \in Jobs, ClaimIsSent(j) \/ ClaimIsBusy(j) \/ ClaimFails(j) PROVE Ledger'
  <2>1. PICK to \in {"idle", "done", "gone"}, sent \in BOOLEAN : Leave(j, to, sent)
    BY <1>4, AfterErrorEnds DEF ClaimIsSent, ClaimIsBusy, ClaimFails
  <2>2. pc[j] = "claim" /\ pc'[j] \in {"done", "idle", "gone"}
        /\ \A k \in Jobs \ {j} : pc'[k] = pc[k]
    BY <1>4, <1>t, <2>1, LeaveTyped DEF ClaimIsSent, ClaimIsBusy, ClaimFails
  <2>3. UNCHANGED <<attempts, wire, posted, cut>> /\ (Take(j) \/ UNCHANGED key)
    BY <1>4 DEF ClaimIsSent, ClaimIsBusy, ClaimFails, Redis, Github
  <2>4. CASE UNCHANGED key
    BY <1>a, <2>2, <2>3, <2>4
  <2>5. CASE Take(j)
    <3>1. Live = {}
      BY <1>t, <1>o, <2>5, NobodyElse DEF Take
    <3>2. Live' = {} /\ Apart'
      BY <1>o, <2>3, <3>1 DEF Live, Apart
    <3> QED BY <2>2, <2>3, <3>2, LedgerShrinks DEF Unused
  <2> QED BY <2>3, <2>4, <2>5
<1>5. ASSUME NEW j \in Jobs, Send(j) PROVE Ledger'
  <2>1. pc[j] = "claimed" /\ pc'[j] = "sending" /\ \A k \in Jobs \ {j} : pc'[k] = pc[k]
    BY <1>5, <1>t, PcMoves DEF Send
  <2>2. wire' = wire \cup {Request(j)} /\ UNCHANGED <<attempts, posted, cut, key>>
    BY <1>5 DEF Send, Redis
  <2>3. key = j
    BY <2>1 DEF Settled, Turns
  <2>4. Live = {}
    BY <1>t, <1>o, <2>1, <2>3, NobodyElse
  <2>5. Live' \subseteq {Request(j)} /\ Request(j)' = Request(j)
    BY <2>2, <2>4 DEF Live, Request
  <2>6. Request(j) \notin wire \cup posted
    BY <1>t, <1>o, <2>1 DEF Begun, Unused, Request
  <2>7. Apart'
    BY <1>o, <2>2, <2>6 DEF Apart
  <2>8. Begun'
    <3> SUFFICES ASSUME NEW k \in Jobs, NEW n \in Nat, <<k, n>> \in (wire \cup posted)'
                 PROVE  n <= attempts[k] /\ (n = attempts[k] => ~Unused(k)')
      BY <2>2 DEF Begun
    <3>1. CASE <<k, n>> = Request(j)
      BY <1>t, <2>1, <3>1 DEF Request, Unused
    <3>2. CASE <<k, n>> # Request(j)
      BY <1>o, <2>1, <2>2, <3>2 DEF Begun, Unused
    <3> QED BY <3>1, <3>2
  <2>9. Owned' /\ Single'
    BY <2>1, <2>5 DEF Owned, Single
  <2> QED BY <2>7, <2>8, <2>9 DEF Ledger
<1>6. ASSUME GitHubPosts PROVE Ledger'
  <2>1. PICK r \in wire : wire' = wire \ {r} /\ posted' = posted \cup {r}
    BY <1>6 DEF GitHubPosts
  <2>2. UNCHANGED <<pc, attempts, cut, key>>
    BY <1>6 DEF GitHubPosts, Redis
  <2>3. (wire \cup posted)' = wire \cup posted /\ Live' = Live /\ Apart'
    BY <1>o, <2>1, <2>2 DEF Live, Apart
  <2> QED BY <1>o, <2>2, <2>3, LedgerShrinks DEF Owned, Unused
<1>7. ASSUME NEW j \in Jobs, Answered(j) PROVE Ledger'
  <2>1. pc[j] = "sending" /\ pc'[j] = "sent" /\ \A k \in Jobs \ {j} : pc'[k] = pc[k]
    BY <1>7, <1>t, PcMoves DEF Answered, Result
  <2>2. UNCHANGED <<attempts, wire, posted, cut, key>>
    BY <1>7 DEF Answered, Result, Redis, Github
  <2>3. Live' = Live /\ Apart'
    BY <1>o, <2>2 DEF Live, Apart
  <2>4. \A r \in Live : key = "sent" \/ \E k \in Jobs :
          pc'[k] \in {"sending", "sent"} /\ r = Request(k)
    BY <1>o, <2>1 DEF Owned
  <2> QED BY <2>1, <2>2, <2>3, <2>4, LedgerShrinks DEF Unused
<1>8. ASSUME NEW j \in Jobs, GitHubRefuses(j) \/ AnswerLost(j) \/ TimesOut(j) PROVE Ledger'
  <2>1. Result(j, "unsent")
    BY <1>8 DEF GitHubRefuses, AnswerLost, TimesOut
  <2>2. pc[j] = "sending" /\ pc'[j] = "unsent" /\ \A k \in Jobs \ {j} : pc'[k] = pc[k]
    BY <1>t, <2>1, PcMoves DEF Result
  <2>3. UNCHANGED <<attempts, key>>
    BY <2>1 DEF Result, Redis
  <2>4. /\ (wire \cup posted)' \subseteq wire \cup posted
        /\ Live' \subseteq Live \ {Request(j)} /\ Apart'
    <3>1. CASE GitHubRefuses(j)
      <4>1. wire' = wire \ {Request(j)} /\ Request(j) \notin posted /\ UNCHANGED <<posted, cut>>
        BY <1>o, <3>1 DEF GitHubRefuses, Apart
      <4> QED BY <1>o, <4>1 DEF Live, Apart
    <3>2. CASE AnswerLost(j) \/ TimesOut(j)
      <4>1. cut' = cut \cup {Request(j)} /\ UNCHANGED <<wire, posted>>
        BY <3>2 DEF AnswerLost, TimesOut, Github
      <4> QED BY <1>o, <4>1 DEF Live, Apart
    <3> QED BY <1>8, <3>1, <3>2
  <2>5. \A r \in Live' : key' = "sent" \/ \E k \in Jobs :
          pc'[k] \in {"sending", "sent"} /\ r = Request(k)
    BY <1>o, <2>2, <2>3, <2>4 DEF Owned
  <2> QED BY <2>2, <2>3, <2>4, <2>5, LedgerShrinks DEF Unused
<1>9. ASSUME NEW j \in Jobs, FinishSent(j) \/ FinishUnsent(j) \/ FinishFails(j) PROVE Ledger'
  <2>1. PICK to \in {"idle", "done", "gone"}, said \in BOOLEAN : Leave(j, to, said)
    BY <1>9, AfterErrorEnds DEF FinishSent, FinishUnsent, FinishFails
  <2>2. /\ pc[j] \in {"sent", "unsent"} /\ pc'[j] \in {"idle", "done", "gone"}
        /\ \A k \in Jobs \ {j} : pc'[k] = pc[k]
    BY <1>9, <1>t, <2>1, LeaveTyped DEF FinishSent, FinishUnsent, FinishFails
  <2>3. UNCHANGED <<attempts, wire, posted>>
    BY <1>9 DEF FinishSent, FinishUnsent, FinishFails, Github
  <2>4. \/ Release(j, pc[j] = "sent") /\ UNCHANGED cut
        \/ cut' = cut \cup {Request(j)} /\ UNCHANGED Redis
    BY <1>9 DEF FinishSent, FinishUnsent, FinishFails
  <2>5. Apart' /\ (wire \cup posted)' \subseteq wire \cup posted
        /\ Live' \subseteq Live /\ \A k \in Jobs : Unused(k)' => Unused(k)
    BY <1>o, <2>2, <2>3, <2>4 DEF Apart, Live, Unused
  <2>6. \A r \in Live' : key' = "sent" \/ \E k \in Jobs :
          pc'[k] \in {"sending", "sent"} /\ r = Request(k)
    <3> SUFFICES ASSUME NEW r \in Live', key' # "sent"
                 PROVE  \E k \in Jobs : pc'[k] \in {"sending", "sent"} /\ r = Request(k)
      OBVIOUS
    <3>1. CASE cut' = cut \cup {Request(j)} /\ UNCHANGED Redis
      <4>1. r # Request(j) /\ key # "sent"
        BY <3>1 DEF Live, Redis
      <4> QED BY <1>o, <2>2, <2>5, <4>1 DEF Owned
    <3>2. CASE Release(j, pc[j] = "sent") /\ UNCHANGED cut
      <4>1. key # "sent"
        BY <1>t, <3>2 DEF Release, Redis
      <4>2. PICK k \in Jobs : key = k /\ pc[k] \in {"sending", "sent"} /\ r = Request(k)
        BY <1>o, <2>5, <4>1, NobodyElse
      <4>3. k # j
        BY <2>2, <3>2, <4>2 DEF Release
      <4> QED BY <2>2, <4>2, <4>3
    <3> QED BY <2>4, <3>1, <3>2
  <2> QED BY <2>3, <2>5, <2>6, LedgerShrinks
<1>10. ASSUME Crash PROVE Ledger'
  <2>1. PICK Here \in SUBSET Jobs :
          /\ pc' = [j \in Jobs |-> IF j \in Here THEN AfterError(j) ELSE pc[j]]
          /\ cut' = cut \cup {Request(j) : j \in {k \in Here : pc[k] \in Timed}}
    BY <1>10 DEF Crash
  <2>2. UNCHANGED <<attempts, key, wire, posted>>
    BY <1>10 DEF Crash, Redis, Github
  <2>3. \A j \in Jobs : Unused(j)' => Unused(j)
    BY <2>1, AfterErrorEnds DEF Unused
  <2>4. (wire \cup posted)' = wire \cup posted /\ Live' \subseteq Live /\ Apart'
    BY <1>o, <2>1, <2>2 DEF Live, Apart
  <2>5. \A r \in Live' : key' = "sent" \/ \E k \in Jobs :
          pc'[k] \in {"sending", "sent"} /\ r = Request(k)
    <3> SUFFICES ASSUME NEW r \in Live', key # "sent"
                 PROVE  \E k \in Jobs : pc'[k] \in {"sending", "sent"} /\ r = Request(k)
      BY <2>2
    <3>1. PICK k \in Jobs : pc[k] \in {"sending", "sent"} /\ r = Request(k)
      BY <1>o, <2>4 DEF Owned
    <3>2. k \notin Here
      BY <2>1, <3>1 DEF Live, Timed, Sending
    <3> QED BY <2>1, <3>1, <3>2
  <2> QED BY <2>2, <2>3, <2>4, <2>5, LedgerShrinks
<1>11. ASSUME Tick PROVE Ledger'
  <2>1. UNCHANGED <<pc, attempts, wire, posted, cut>>
    BY <1>11 DEF Tick, Github
  <2>2. CASE Live = {}
    <3>1. Live' = {} /\ Apart'
      BY <1>o, <2>1, <2>2 DEF Live, Apart
    <3> QED BY <2>1, <3>1, LedgerShrinks DEF Unused
  <2>3. CASE Live # {}
    <3>1. key # "sent"
      BY <1>11 DEF Tick, Settled, Lasting
    <3>2. PICK j \in Jobs : key = j /\ pc[j] \in {"sending", "sent"}
      BY <1>o, <2>3, <3>1, NobodyElse
    <3>3. timer[j] > 0 /\ timer[j] \in Nat /\ lease > timer[j]
      BY <1>11, <3>2, LeaseAssumption, <1>t DEF Tick, Timed, Sending, Settled, Turns, CTypeOK
    <3>4. key' = key
      BY <1>11, <1>t, <3>3 DEF Tick, CTypeOK
    <3> QED BY <2>1, <3>4, LedgerKept DEF Unused
  <2> QED BY <2>2, <2>3
<1>12. CASE UNCHANGED cVars
  BY <1>12, LedgerKept DEF cVars, Unused
<1> QED BY <1>1, <1>2, <1>3, <1>4, <1>5, <1>6, <1>7, <1>8, <1>9, <1>10, <1>11, <1>12
        DEF CNext, Step, Fail

(* The comment appears once, unless a request was cut off: of those whose  *)
(* outcome a job or Redis knows, GitHub turned at most one into a comment. *)
THEOREM PostedOnce == CSpec => []AtMostOnce
<1>1. CInit => Ledger
  BY DEF CInit, Ledger, Begun, Apart, Owned, Single, Live
<1>2. CSpec => []Ledger
  BY <1>1, LedgerStep, SettledAlways, PTL DEF CSpec
<1>3. Ledger => AtMostOnce
  BY DEF Ledger, Single, Live, AtMostOnce
<1> QED BY <1>2, <1>3, PTL
=============================================================================
