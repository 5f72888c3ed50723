------------------------- MODULE NotificationsProofs -------------------------
(***************************************************************************)
(* One e-mail and one more per lapse, a status that is what happened, and  *)
(* a list as new as its version, for any numbers of callers, workers,      *)
(* readers, attempts and lapses.                                           *)
(***************************************************************************)
EXTENDS Notifications, FiniteSetTheorems, TLAPS

-----------------------------------------------------------------------------
(* What a step of a sender does.                                           *)

Frame == [pc : SenderStages, seen : Statuses, made : 0 .. EmailAttempts, error : BOOLEAN]

\* Sender s goes on as f; when it ends, e says whether the job sees an error.
Turns(s, f, e) ==
  /\ f \in Frame /\ e \in BOOLEAN
  /\ sender' = [sender EXCEPT ![s] = f]
  /\ job' = IF f.pc = "idle" THEN JobAfter(s, e) ELSE job
  /\ f.pc = "idle" => f = IdleSender
  /\ UNCHANGED <<fixed, writer, bell>>
  /\ sentAt' \in BOOLEAN /\ cached' \in Statuses \cup {None}

Same(s, f) == f.made = sender[s].made /\ f.error = sender[s].error
Quietly == UNCHANGED <<email, mails, lapses>>

\* It looks at the row.
Looks(s, f, e) ==
  /\ sender[s].pc \in {"load", "fill"} /\ Quietly
  /\ \/ f.pc = "idle" /\ ~e
     \/ /\ \/ sender[s].pc = "load" /\ f.pc = "fill"
           \/ f.pc = "send" /\ reachable
           \/ f.pc = "skip" /\ ~reachable
        /\ Same(s, f)
\* It fails; the mail may be out all the same.
Errs(s, f, e) ==
  /\ sender[s].pc \in {"load", "send", "record"} /\ UNCHANGED email
  /\ IF LastAttempt(s) THEN f.pc = "fail" /\ f.error /\ f.made = sender[s].made
                       ELSE f.pc = "idle" /\ e
  /\ \/ UNCHANGED mails /\ Lapse
     \/ sender[s].pc = "send" /\ s \in Workers /\ UNCHANGED <<mails, lapses>>
     \/ sender[s].pc = "send" /\ mails' = mails + 1 /\ Lapse
\* It takes the user for one without an address.
Gives(s, f) ==
  sender[s].pc = "send" /\ f.pc = "skip" /\ Same(s, f) /\ UNCHANGED <<email, mails>> /\ Lapse
\* It mails.
Mails(s, f) ==
  /\ sender[s].pc = "send" /\ f.pc = "record" /\ Same(s, f)
  /\ mails' = mails + 1 /\ UNCHANGED <<email, lapses>>
\* It writes the status.
Writes(s, f) ==
  /\ \/ sender[s].pc = "record" /\ email' = "sent"
     \/ sender[s].pc = "skip" /\ email' = "skipped_no_email"
     \/ sender[s].pc = "fail" /\ email' = "failed"
  /\ f.pc = "forget" /\ Same(s, f) /\ UNCHANGED <<mails, lapses>>
\* It is through.
Ends(s, f, e) ==
  /\ f.pc = "idle" /\ e = sender[s].error /\ UNCHANGED <<email, mails>>
  /\ \/ sender[s].pc = "forget" /\ (UNCHANGED lapses \/ Lapse)
     \/ sender[s].pc \in {"skip", "fail"} /\ Lapse
\* The task dies.
Dies(s, f, e) ==
  /\ s = Direct /\ f.pc = "idle" /\ ~e /\ sender[s].pc # "idle"
  /\ UNCHANGED <<email, mails>> /\ Lapse

Turn(s, f, e) ==
  /\ Turns(s, f, e)
  /\ \/ Looks(s, f, e) \/ Errs(s, f, e) \/ Gives(s, f) \/ Mails(s, f) \/ Writes(s, f)
     \/ Ends(s, f, e) \/ Dies(s, f, e)

\* How the parts of a step end.
Onward(s, to) ==
  \E f \in Frame, e \in BOOLEAN : Turns(s, f, e) /\ f.pc = to /\ Same(s, f)
Erred(s) ==
  \E f \in Frame, e \in BOOLEAN :
    /\ Turns(s, f, e)
    /\ IF LastAttempt(s) THEN f.pc = "fail" /\ f.error /\ f.made = sender[s].made
                         ELSE f.pc = "idle" /\ e
Looked(s) ==
  \E f \in Frame, e \in BOOLEAN :
    /\ Turns(s, f, e)
    /\ \/ f.pc = "idle" /\ ~e
       \/ f.pc = (IF reachable THEN "send" ELSE "skip") /\ Same(s, f)

\* A frame at another stage.
LEMMA FrameGoes ==
  ASSUME NEW p \in Frame, NEW q \in SenderStages
  PROVE  /\ [p EXCEPT !.pc = q] \in Frame /\ [p EXCEPT !.pc = q].pc = q
         /\ [p EXCEPT !.pc = q].made = p.made /\ [p EXCEPT !.pc = q].error = p.error
         /\ [p EXCEPT !.pc = q].seen = p.seen
BY DEF Frame

LEMMA IdleFrame == IdleSender \in Frame /\ IdleSender.pc = "idle" /\ IdleSender.error = FALSE
BY SendersAssumption DEF IdleSender, Frame, SenderStages, Statuses

\* The parts the steps of a sender are made of.
LEMMA Parts ==
  ASSUME sender \in [Senders -> Frame], NEW s \in Senders,
         UNCHANGED <<fixed, writer, bell>>, sentAt' \in BOOLEAN, cached' \in Statuses \cup {None}
  PROVE  /\ \A e \in BOOLEAN : End(s, e) => Turns(s, IdleSender, e)
         /\ \A from : \A to \in SenderStages \ {"idle"} :
              SenderTo(s, from, to) /\ job' = job => Onward(s, to)
         /\ Error(s) => Erred(s)
         /\ \A status : After(s, status) => Looked(s)
<1> DEFINE p == sender[s]
<1>0. p \in Frame
  OBVIOUS
<1>1. ASSUME NEW e \in BOOLEAN, End(s, e) PROVE Turns(s, IdleSender, e)
  BY <1>1, IdleFrame DEF End, Turns
<1>2. ASSUME NEW to \in SenderStages \ {"idle"}, UNCHANGED job,
             sender' = [sender EXCEPT ![s] = [p EXCEPT !.pc = to]]
      PROVE  Onward(s, to) /\ [p EXCEPT !.pc = to] \in Frame
             /\ Turns(s, [p EXCEPT !.pc = to], FALSE) /\ Same(s, [p EXCEPT !.pc = to])
             /\ [p EXCEPT !.pc = to].pc = to
  <2> DEFINE f == [p EXCEPT !.pc = to]
  <2>1. /\ f \in Frame /\ f.pc = to /\ Same(s, f)
    BY <1>0, FrameGoes DEF Same
  <2> HIDE DEF f
  <2>2. Turns(s, f, FALSE)
    BY <1>2, <2>1 DEF Turns, f
  <2> QED BY <2>1, <2>2 DEF Onward, f
<1>3. ASSUME NEW to \in SenderStages \ {"idle"}, NEW from, SenderTo(s, from, to), UNCHANGED job
      PROVE  Onward(s, to)
  BY <1>2, <1>3 DEF SenderTo
<1>4. ASSUME Error(s) PROVE Erred(s)
  <2>1. CASE LastAttempt(s)
    <3> DEFINE g == [p EXCEPT !.pc = "fail"]
               f == [g EXCEPT !.error = TRUE]
    <3>1. sender' = [sender EXCEPT ![s] = f] /\ UNCHANGED job
      BY <1>4, <2>1 DEF Error
    <3>2. f \in Frame /\ f.pc = "fail" /\ f.error /\ f.made = p.made
      BY <1>0 DEF Frame, SenderStages
    <3> HIDE DEF f
    <3>3. Turns(s, f, FALSE)
      BY <3>1, <3>2 DEF Turns
    <3> QED BY <2>1, <3>2, <3>3 DEF Erred
  <2>2. CASE ~LastAttempt(s)
    BY <1>1, <1>4, <2>2, IdleFrame DEF Error, Erred
  <2> QED BY <2>1, <2>2
<1>5. ASSUME NEW status, After(s, status) PROVE Looked(s)
  <2>1. CASE status = "sent"
    BY <1>1, <1>5, <2>1, IdleFrame DEF After, Looked
  <2>2. CASE status # "sent"
    <3> DEFINE to == IF reachable THEN "send" ELSE "skip"
               f == [p EXCEPT !.pc = to]
    <3>1. to \in SenderStages \ {"idle"}
      BY DEF SenderStages
    <3>2. sender' = [sender EXCEPT ![s] = f] /\ UNCHANGED job
      BY <1>5, <2>2 DEF After
    <3>3. Onward(s, to)
      BY <1>2, <3>1, <3>2
    <3> QED BY <3>3 DEF Onward, Looked
  <2> QED BY <2>1, <2>2
<1>6. \A from : \A to \in SenderStages \ {"idle"} :
        SenderTo(s, from, to) /\ job' = job => Onward(s, to)
  BY <1>3
<1>7. \A status : After(s, status) => Looked(s)
  BY <1>5
<1> QED BY <1>1, <1>4, <1>6, <1>7

-----------------------------------------------------------------------------
(* Types, and what they rest on.                                           *)

\* Before there is a row nothing has begun.
Rowless ==
  email = None => /\ \A w \in Callers : writer[w] = "start"
                  /\ \A s \in Senders : sender[s].pc = "idle"
                  /\ job.state = "none" /\ mails = 0
\* Only a last attempt keeps an error past the status it writes.
Flagged(s) ==
  /\ sender[s].error => LastAttempt(s)
  /\ sender[s].pc \notin {"fail", "forget"} => ~sender[s].error
\* A job that can run has an attempt left; "sent" is written after a mail.
Typed ==
  /\ NTypeOK /\ Rowless
  /\ \A s \in Senders : Flagged(s) /\ (sender[s].pc = "record" => mails > 0)
  /\ job.state \in {"waiting", "active"} => job.made < EmailAttempts
  /\ email = "sent" => mails > 0
  /\ \A w \in Markers : writer[w] # "enqueue"

LEMMA TypedFrames ==
  ASSUME Typed
  PROVE  /\ sender \in [Senders -> Frame] /\ mails \in Nat /\ lapses \in 0 .. MaxLapses
         /\ email \in Statuses \cup {None} /\ reachable \in BOOLEAN /\ counts \in BOOLEAN
         /\ \A s \in Senders : sender[s].pc # "idle" => email \in Statuses
BY DEF Typed, NTypeOK, Frame, Rowless

\* The actions that are one step of a sender.
Sending(s) ==
  \/ LoadCached(s) \/ LoadRow(s) \/ Fill(s) \/ Mail(s) \/ Refused(s)
  \/ Record(s) \/ Skip(s) \/ MarkFailed(s) \/ Forget(s)
  \/ LoadFails(s) \/ AddressFails(s) \/ ReceiptLost(s) \/ RecordFails(s)
  \/ MarkFails(s) \/ ForgetSkipped(s)
  \/ s = Direct /\ DirectDies

LEMMA Turning ==
  ASSUME Typed, NEW s \in Senders, Sending(s)
  PROVE  \E f \in Frame, e \in BOOLEAN : Turn(s, f, e)
<1> DEFINE p == sender[s]
           Goal == \E f \in Frame, e \in BOOLEAN : Turn(s, f, e)
<1>0. /\ sender \in [Senders -> Frame] /\ p \in Frame /\ mails \in Nat
      /\ email \in Statuses \cup {None} /\ cached \in Statuses \cup {None} /\ sentAt \in BOOLEAN
      /\ p.seen \in Statuses /\ p.error \in BOOLEAN
      /\ p.pc # "idle" => email \in Statuses
  BY TypedFrames DEF Typed, NTypeOK, Frame
<1>1. UNCHANGED <<fixed, writer, bell>> /\ sentAt' \in BOOLEAN /\ cached' \in Statuses \cup {None}
  BY <1>0 DEF Sending, LoadCached, LoadRow, Fill, Mail, Refused, Record, Skip, MarkFailed, Mark,
       Forget, LoadFails, AddressFails, ReceiptLost, RecordFails, MarkFails, ForgetSkipped,
       DirectDies, Row
<1>2. CASE LoadCached(s) \/ Fill(s)
  <2>1. Looked(s)
    BY <1>0, <1>1, <1>2, Parts DEF LoadCached, Fill
  <2>2. p.pc \in {"load", "fill"} /\ Quietly
    BY <1>2 DEF LoadCached, Fill, Row, Quietly
  <2> QED BY <2>1, <2>2 DEF Looked, Looks, Turn
<1>3. CASE LoadRow(s)
  <2> DEFINE g == [p EXCEPT !.pc = "fill"]
             f == [g EXCEPT !.seen = email]
  <2>1. sender' = [sender EXCEPT ![s] = f] /\ UNCHANGED job /\ p.pc = "load" /\ Quietly
    BY <1>0, <1>3 DEF LoadRow, Row, Quietly
  <2>2. f \in Frame /\ f.pc = "fill" /\ Same(s, f)
    BY <1>0, <2>1 DEF Frame, SenderStages, Same
  <2> HIDE DEF f
  <2>3. Turns(s, f, FALSE) /\ Looks(s, f, FALSE)
    BY <1>1, <2>1, <2>2 DEF Turns, Looks
  <2> QED BY <2>2, <2>3 DEF Turn
<1>4. CASE LoadFails(s) \/ Refused(s) \/ ReceiptLost(s) \/ RecordFails(s)
  <2>1. Erred(s)
    BY <1>0, <1>1, <1>4, Parts DEF LoadFails, Refused, ReceiptLost, RecordFails
  <2>2. /\ p.pc \in {"load", "send", "record"} /\ UNCHANGED email
        /\ \/ UNCHANGED mails /\ Lapse
           \/ p.pc = "send" /\ s \in Workers /\ UNCHANGED <<mails, lapses>>
           \/ p.pc = "send" /\ mails' = mails + 1 /\ Lapse
    BY <1>4 DEF LoadFails, Refused, ReceiptLost, RecordFails, Row, Senders
  <2> QED BY <2>1, <2>2 DEF Erred, Errs, Turn
<1>5. CASE AddressFails(s)
  <2>1. Onward(s, "skip")
    BY <1>0, <1>1, <1>5, Parts DEF AddressFails, SenderStages
  <2>2. p.pc = "send" /\ UNCHANGED <<email, mails>> /\ Lapse
    BY <1>5 DEF AddressFails, Row, SenderTo
  <2> QED BY <2>1, <2>2 DEF Onward, Gives, Turn
<1>6. CASE Mail(s)
  <2>1. Onward(s, "record")
    BY <1>0, <1>1, <1>6, Parts DEF Mail, SenderStages
  <2>2. p.pc = "send" /\ mails' = mails + 1 /\ UNCHANGED <<email, lapses>>
    BY <1>6 DEF Mail, Row, SenderTo
  <2> QED BY <2>1, <2>2 DEF Onward, Mails, Turn
<1>7. CASE Record(s) \/ Skip(s) \/ MarkFailed(s)
  <2>1. Onward(s, "forget")
    BY <1>0, <1>1, <1>7, Parts DEF Record, Skip, MarkFailed, Mark, SenderStages
  <2>2. /\ \/ p.pc = "record" /\ email' = "sent"
           \/ p.pc = "skip" /\ email' = "skipped_no_email"
           \/ p.pc = "fail" /\ email' = "failed"
        /\ UNCHANGED <<mails, lapses>>
    BY <1>7 DEF Record, Skip, MarkFailed, Mark, SenderTo
  <2> QED BY <2>1, <2>2 DEF Onward, Writes, Turn
<1>8. CASE Forget(s) \/ ForgetSkipped(s) \/ MarkFails(s)
  <2>1. Turns(s, IdleSender, p.error)
    BY <1>0, <1>1, <1>8, Parts DEF Forget, ForgetSkipped, MarkFails
  <2>2. /\ UNCHANGED <<email, mails>>
        /\ \/ p.pc = "forget" /\ (UNCHANGED lapses \/ Lapse)
           \/ p.pc \in {"skip", "fail"} /\ Lapse
    BY <1>8 DEF Forget, ForgetSkipped, MarkFails, Row
  <2> QED BY <1>0, <2>1, <2>2, IdleFrame DEF Ends, Turn
<1>9. CASE s = Direct /\ DirectDies
  <2>1. job.owner # Direct
    BY SendersAssumption DEF Typed, NTypeOK
  <2>2. JobAfter(s, FALSE) = job
    BY <1>9, <2>1 DEF JobAfter
  <2>3. /\ sender' = [sender EXCEPT ![s] = IdleSender] /\ UNCHANGED job /\ p.pc # "idle"
        /\ UNCHANGED <<email, mails>> /\ Lapse
    BY <1>9 DEF DirectDies, Row
  <2>4. Turns(s, IdleSender, FALSE)
    BY <1>1, <2>2, <2>3, IdleFrame DEF Turns
  <2> QED BY <1>9, <2>3, <2>4, IdleFrame DEF Dies, Turn
<1> QED BY <1>2, <1>3, <1>4, <1>5, <1>6, <1>7, <1>8, <1>9 DEF Sending

\* The job after a run is a job, with an attempt left if it waits.
LEMMA JobAfterTyped ==
  ASSUME Typed, NEW s \in Senders, NEW e \in BOOLEAN
  PROVE  LET j == JobAfter(s, e)
         IN  /\ j \in [state : {"none", "waiting", "active", "failed"},
                       made : 0 .. EmailAttempts, owner : Workers \cup {None}]
             /\ j.state \in {"waiting", "active"} => j.made < EmailAttempts
             /\ job.state = "none" => j = job
             /\ ~e => j = job \/ j.state = "none"
<1> DEFINE JobSet == [state : {"none", "waiting", "active", "failed"},
                      made : 0 .. EmailAttempts, owner : Workers \cup {None}]
           h == [state |-> IF job.made + 1 < EmailAttempts THEN "waiting" ELSE "failed",
                 made |-> job.made + 1, owner |-> None]
<1>0. /\ job \in JobSet /\ job.made \in 0 .. EmailAttempts /\ EmailAttempts \in Nat
      /\ job.state \in {"waiting", "active"} => job.made < EmailAttempts
  BY SendersAssumption DEF Typed, NTypeOK
<1>1. NoJob \in JobSet /\ NoJob.state = "none"
  BY <1>0 DEF NoJob
<1>2. job.state = "active" => h \in JobSet /\ (h.state = "waiting" => h.made < EmailAttempts)
                              /\ h.state \in {"waiting", "failed"}
  BY <1>0
<1>3. \/ JobAfter(s, e) = job
      \/ job.state = "active" /\ ~e /\ JobAfter(s, e) = NoJob
      \/ job.state = "active" /\ e /\ JobAfter(s, e) = h
  BY DEF JobAfter
<1> HIDE DEF h, JobSet
<1> QED BY <1>0, <1>1, <1>2, <1>3 DEF JobSet

LEMMA LapseTyped == ASSUME Typed, Lapse PROVE lapses' \in 0 .. MaxLapses
BY SendersAssumption DEF Typed, NTypeOK, Lapse

LEMMA InitTyped == NInit => Typed
<1> SUFFICES ASSUME NInit PROVE Typed
  OBVIOUS
<1>0. IsFiniteSet(Writers) /\ EmailAttempts \in Nat \ {0} /\ MaxLapses \in Nat
  BY SendersAssumption
<1>4. sender \in [Senders -> Frame] /\ \A s \in Senders : Flagged(s) /\ sender[s].pc = "idle"
  BY IdleFrame DEF NInit, Flagged
<1>5. job \in [state : {"none", "waiting", "active", "failed"},
               made : 0 .. EmailAttempts, owner : Workers \cup {None}]
  BY <1>0 DEF NInit, NoJob
<1>6. job.state = "none"
  BY DEF NInit, NoJob
<1>7. writer \in [Writers -> WriterStages] /\ version \in Versions
  BY DEF NInit, WriterStages, Versions
<1>8. feed \in [Versions -> Nat \cup {None}]
  BY DEF NInit
<1>9. reader \in [Readers -> [pc : ReaderStages, key : Versions, list : Nat \cup {None}]]
  BY <1>7 DEF NInit, ReaderStages, Versions
<1>10. Rowless
  BY <1>4, <1>6 DEF NInit, Rowless, Writers
<1>11. email # "sent"
  BY SendersAssumption DEF NInit, Statuses
<1>13. \A w \in Markers : writer[w] # "enqueue"
  BY DEF NInit, Writers
<1>12. NTypeOK
  <2>1. email \in Statuses \cup {None} /\ cached \in Statuses \cup {None}
    BY DEF NInit
  <2>2. sentAt \in BOOLEAN /\ reachable \in BOOLEAN /\ counts \in BOOLEAN
    BY Zenon DEF NInit
  <2>3. mails \in Nat /\ revision \in Nat /\ renewed \in Nat /\ lapses \in 0 .. MaxLapses
    BY <1>0 DEF NInit
  <2> QED BY <1>4, <1>5, <1>7, <1>8, <1>9, <2>1, <2>2, <2>3 DEF NTypeOK, Frame
<1> QED BY <1>4, <1>6, <1>10, <1>11, <1>12, <1>13 DEF Typed

\* A step of a sender.
LEMMA SendTyped ==
  ASSUME Typed, NEW s \in Senders, Sending(s)
  PROVE  Typed'
<1>0. /\ sender \in [Senders -> Frame] /\ mails \in Nat /\ email \in Statuses \cup {None}
      /\ EmailAttempts \in Nat \ {0} /\ lapses \in 0 .. MaxLapses
      /\ \A t \in Senders : sender[t].pc # "idle" => email # None
  BY TypedFrames, SendersAssumption DEF Statuses
<1>1. PICK f \in Frame, e \in BOOLEAN : Turn(s, f, e)
  BY Turning
<1>2. /\ sender' = [sender EXCEPT ![s] = f] /\ sender' \in [Senders -> Frame]
      /\ UNCHANGED <<fixed, writer, bell>>
      /\ f.pc = "idle" => f = IdleSender
      /\ job' = IF f.pc = "idle" THEN JobAfter(s, e) ELSE job
  BY <1>0, <1>1 DEF Turn, Turns
<1>3. sender[s].pc # "idle" /\ email # None
  BY <1>0, <1>1 DEF Turn, Looks, Errs, Gives, Mails, Writes, Ends, Dies
<1>4. /\ mails' \in Nat /\ mails <= mails' /\ email' \in Statuses
      /\ email' = "sent" => email = "sent" \/ sender[s].pc = "record"
      /\ lapses' \in 0 .. MaxLapses
  <2>1. mails' \in {mails, mails + 1} /\ (UNCHANGED lapses \/ Lapse)
    BY <1>1 DEF Turn, Looks, Quietly, Errs, Gives, Mails, Writes, Ends, Dies
  <2>2. email' \in Statuses /\ (email' = "sent" => email = "sent" \/ sender[s].pc = "record")
    BY <1>0, <1>1, <1>3 DEF Turn, Looks, Quietly, Errs, Gives, Mails, Writes, Ends, Dies, Statuses
  <2> QED BY <1>0, <2>1, <2>2, LapseTyped
<1>5. /\ job' \in [state : {"none", "waiting", "active", "failed"},
                   made : 0 .. EmailAttempts, owner : Workers \cup {None}]
      /\ job'.state \in {"waiting", "active"} => job'.made < EmailAttempts
  BY <1>2, JobAfterTyped DEF Typed, NTypeOK
<1>6. ASSUME NEW t \in Senders
      PROVE  Flagged(t)' /\ (sender'[t].pc = "record" => mails' > 0)
  <2>1. Flagged(t) /\ (sender[t].pc = "record" => mails > 0)
    BY DEF Typed
  <2>2. CASE t # s
    <3>1. sender'[t] = sender[t]
      BY <1>0, <1>2, <2>2
    <3> QED BY <1>0, <1>2, <1>4, <2>1, <3>1 DEF Flagged, LastAttempt, fixed
  <2>3. CASE t = s
    <3>1. sender'[s] = f
      BY <1>0, <1>2
    <3>2. f.pc = "idle" => ~f.error
      BY <1>2, IdleFrame
    <3>3. f.pc = "record" => mails' > 0
      BY <1>0, <1>1 DEF Turn, Looks, Errs, Gives, Mails, Writes, Ends, Dies
    <3>4. /\ f.error => LastAttempt(s) /\ f.made = sender[s].made
          /\ f.pc \notin {"fail", "forget"} => ~f.error
      <4>1. CASE f.pc = "idle"
        BY <3>2, <4>1
      <4>2. CASE f.pc # "idle"
        BY <1>1, <2>1, <2>3, <4>2
           DEF Turn, Looks, Errs, Gives, Mails, Writes, Ends, Dies, Same, Flagged
      <4> QED BY <4>1, <4>2
    <3> QED BY <1>2, <2>3, <3>1, <3>3, <3>4 DEF Flagged, LastAttempt, fixed
  <2> QED BY <2>2, <2>3
<1>7. Rowless'
  BY <1>4, SendersAssumption DEF Rowless
<1>8. email' = "sent" => mails' > 0
  BY <1>0, <1>4 DEF Typed
<1>10. NTypeOK'
  <2>1. sentAt' \in BOOLEAN /\ cached' \in Statuses \cup {None}
    BY <1>1 DEF Turn, Turns
  <2> QED BY <1>2, <1>4, <1>5, <2>1 DEF Typed, NTypeOK, Frame, fixed, bell
<1>11. \A w \in Markers : writer'[w] # "enqueue"
  BY <1>2 DEF Typed
<1> QED BY <1>5, <1>6, <1>7, <1>8, <1>10, <1>11 DEF Typed

\* A worker takes the job, or it stalls.
LEMMA TakeTyped ==
  ASSUME Typed, NEW s \in Workers, TakeJob(s) \/ Stalls(s)
  PROVE  Typed'
<1> DEFINE p == sender[s]
           JobSet == [state : {"none", "waiting", "active", "failed"},
                      made : 0 .. EmailAttempts, owner : Workers \cup {None}]
<1>0. /\ sender \in [Senders -> Frame] /\ p \in Frame /\ s \in Senders
      /\ job \in JobSet /\ job.made \in 0 .. EmailAttempts
  BY TypedFrames DEF Typed, NTypeOK, Senders
<1>1. /\ UNCHANGED <<email, sentAt, cached, mails, fixed, writer, bell>>
      /\ lapses' \in 0 .. MaxLapses /\ job.state \in {"waiting", "active"}
  BY LapseTyped DEF TakeJob, Stalls, Row, Typed, NTypeOK
<1>2. email # None
  BY <1>1 DEF Typed, Rowless
<1>3. job' \in JobSet /\ job'.made = job.made /\ job'.state \in {"waiting", "active"}
  <2>1. CASE TakeJob(s)
    <3>1. job' = [[job EXCEPT !.state = "active"] EXCEPT !.owner = s]
      BY <2>1 DEF TakeJob
    <3> QED BY <1>0, <3>1
  <2>2. CASE Stalls(s)
    <3>1. job' = [[job EXCEPT !.state = "waiting"] EXCEPT !.owner = None]
      BY <2>2 DEF Stalls
    <3> QED BY <1>0, <3>1
  <2> QED BY <2>1, <2>2
<1>4. \/ UNCHANGED sender
      \/ \E f \in Frame : /\ sender' = [sender EXCEPT ![s] = f]
                          /\ ~f.error
                          /\ f.pc \in {"idle", "load"}
  <2>1. CASE TakeJob(s)
    <3> DEFINE g == [p EXCEPT !.pc = "load"]
               f == [g EXCEPT !.made = job.made]
    <3>1. sender' = [sender EXCEPT ![s] = f] /\ p.pc = "idle"
      BY <1>0, <2>1 DEF TakeJob
    <3>2. f \in Frame /\ f.error = p.error /\ f.pc = "load"
      BY <1>0 DEF Frame, SenderStages
    <3>3. ~p.error
      BY <1>0, <3>1 DEF Typed, Flagged
    <3> HIDE DEF f
    <3> QED BY <3>1, <3>2, <3>3
  <2>2. CASE Stalls(s)
    BY <2>2, IdleFrame DEF Stalls
  <2> QED BY <2>1, <2>2
<1>5. sender' \in [Senders -> Frame]
  BY <1>0, <1>4
<1>6. ASSUME NEW t \in Senders
      PROVE  Flagged(t)' /\ (sender'[t].pc = "record" => mails' > 0)
  <2>1. Flagged(t) /\ Flagged(s) /\ (sender[t].pc = "record" => mails > 0)
    BY <1>0 DEF Typed
  <2>2. CASE sender'[t] = sender[t]
    BY <1>1, <2>1, <2>2 DEF Flagged, LastAttempt, fixed
  <2>3. CASE ~sender'[t].error /\ sender'[t].pc \in {"idle", "load"}
    BY <2>3 DEF Flagged
  <2> QED BY <1>0, <1>4, <2>2, <2>3
<1>7. Rowless' /\ (email' = "sent" => mails' > 0)
  BY <1>1, <1>2 DEF Rowless, Typed
<1>9. NTypeOK'
  BY <1>1, <1>3, <1>5 DEF Typed, NTypeOK, Frame, fixed, bell
<1> QED BY <1>1, <1>3, <1>6, <1>7, <1>9 DEF Typed

\* A caller, or a request to mark as read.
LEMMA WriteTyped ==
  ASSUME Typed, NEW w \in Writers, Write(w) \/ EnqueueFails(w) \/ CallerDies(w)
  PROVE  Typed'
<1> DEFINE JobSet == [state : {"none", "waiting", "active", "failed"},
                      made : 0 .. EmailAttempts, owner : Workers \cup {None}]
<1>0. /\ sender \in [Senders -> Frame] /\ writer \in [Writers -> WriterStages]
      /\ Direct \in Senders /\ revision \in Nat /\ version \in Versions /\ renewed \in Nat
      /\ job \in JobSet /\ EmailAttempts \in Nat \ {0} /\ IsFiniteSet(Writers)
  BY TypedFrames, SendersAssumption DEF Typed, NTypeOK, Senders
<1>1. UNCHANGED <<sentAt, mails, fixed, feed, reader>> /\ lapses' \in 0 .. MaxLapses
  BY LapseTyped DEF Write, Insert, MarkRead, Renew, Enqueue, EnqueueFails, CallerDies, Typed,
       NTypeOK, bell, mail
\* Where the writer goes.
<1>2. \E to \in WriterStages : writer' = [writer EXCEPT ![w] = to]
  BY <1>0 DEF Write, Insert, MarkRead, Renew, Enqueue, EnqueueFails, CallerDies, WriterTo,
       WriterStages
<1>3. version' \in Versions /\ renewed' \in Nat
  BY <1>0 DEF Write, Insert, MarkRead, Renew, Enqueue, EnqueueFails, CallerDies, bell, Versions
<1>4. /\ email' \in Statuses \cup {None} /\ (email' = "sent" => email = "sent")
      /\ cached' \in Statuses \cup {None} /\ revision' \in Nat
  BY <1>0, SendersAssumption DEF Write, Insert, MarkRead, Renew, Enqueue, EnqueueFails, CallerDies,
       Typed, NTypeOK, Statuses, mail, bell
<1>5. job' \in JobSet /\ (job'.state \in {"waiting", "active"} => job'.made < EmailAttempts)
  <2>1. job' = job \/ job' = WaitingJob
    BY DEF Write, Insert, MarkRead, Renew, Enqueue, EnqueueFails, CallerDies, mail
  <2>2. WaitingJob \in JobSet /\ WaitingJob.made = 0
    BY <1>0 DEF WaitingJob, NoJob
  <2> QED BY <1>0, <2>1, <2>2 DEF Typed
<1>6. /\ sender' \in [Senders -> Frame]
      /\ \A t \in Senders : Flagged(t)' /\ (sender'[t].pc = "record" => mails' > 0)
  <2>1. CASE UNCHANGED sender
    BY <1>0, <1>1, <2>1 DEF Typed, Flagged, LastAttempt, fixed
  <2>2. CASE sender[Direct].pc = "idle"
             /\ sender' = [sender EXCEPT ![Direct] = [sender[Direct] EXCEPT !.pc = "load"]]
    <3> DEFINE f == [sender[Direct] EXCEPT !.pc = "load"]
    <3>1. f \in Frame /\ f.pc = "load" /\ f.error = sender[Direct].error
      BY <1>0 DEF Frame, SenderStages
    <3>2. sender' = [sender EXCEPT ![Direct] = f]
      BY <2>2
    <3> HIDE DEF f
    <3>3. ~f.error
      BY <1>0, <2>2, <3>1 DEF Typed, Flagged
    <3> QED BY <1>0, <1>1, <3>1, <3>2, <3>3 DEF Typed, Flagged, LastAttempt, fixed
  <2>3. UNCHANGED sender \/ SenderTo(Direct, "idle", "load")
    BY DEF Write, Insert, MarkRead, Renew, Enqueue, EnqueueFails, CallerDies, mail
  <2> QED BY <2>1, <2>2, <2>3 DEF SenderTo
<1>7. Rowless'
  <2>1. CASE email' # None
    BY <2>1 DEF Rowless
  <2>2. CASE email' = None
    <3>1. email = None
      BY <2>2, SendersAssumption DEF Write, Insert, MarkRead, Renew, Enqueue, EnqueueFails,
           CallerDies, Statuses
    <3>2. w \in Callers => writer[w] = "start"
      BY <3>1 DEF Typed, Rowless
    <3>3. ~Insert(w)
      BY <2>2, <3>1, SendersAssumption DEF Insert, Statuses
    <3>4. w \in Callers => FALSE
      BY <3>2, <3>3, SendersAssumption DEF Write, MarkRead, Renew, Enqueue, EnqueueFails,
           CallerDies, WriterTo
    <3>5. w \in Markers /\ writer[w] # "enqueue"
      BY <3>4 DEF Typed, Writers
    <3>6. UNCHANGED <<job, sender, mails>>
      BY <3>3, <3>5 DEF Write, MarkRead, Renew, Enqueue, EnqueueFails, CallerDies, WriterTo, mail
    <3> QED BY <1>0, <1>2, <3>1, <3>4, <3>6 DEF Typed, Rowless, Writers
  <2> QED BY <2>1, <2>2
<1>8. NTypeOK'
  BY <1>0, <1>1, <1>2, <1>3, <1>4, <1>5, <1>6 DEF Typed, NTypeOK, Frame, fixed
<1>9. \A m \in Markers : writer'[m] # "enqueue"
  <2>1. w \in Markers /\ writer'[w] = "enqueue" => writer[w] = "enqueue"
    BY <1>0, SendersAssumption DEF Write, Insert, MarkRead, Renew, Enqueue, EnqueueFails, CallerDies,
         WriterTo
  <2> QED BY <1>0, <1>2, <2>1 DEF Typed, Writers
<1> QED BY <1>1, <1>3, <1>4, <1>5, <1>6, <1>7, <1>8, <1>9 DEF Typed

\* A request for the list.
LEMMA ListTyped ==
  ASSUME Typed, NEW r \in Readers, List(r)
  PROVE  Typed'
<1> DEFINE Reader == [pc : ReaderStages, key : Versions, list : Nat \cup {None}]
<1>0. /\ reader \in [Readers -> Reader] /\ reader[r] \in Reader
      /\ feed \in [Versions -> Nat \cup {None}] /\ version \in Versions /\ revision \in Nat
      /\ None \in Versions
  BY DEF Typed, NTypeOK, Versions
<1>1. UNCHANGED <<email, mail, fixed, writer, revision, version, renewed, lapses>>
  BY DEF List, ReadVersion, ReadRows, SetFeed
<1>2. \E q \in Reader : reader' = [reader EXCEPT ![r] = q]
  <2>1. CASE ReadVersion(r)
    <3>1. PICK v \in {version, None} :
            \/ reader' = [reader EXCEPT ![r] = [pc |-> "done", key |-> v, list |-> feed[v]]]
            \/ reader' = [reader EXCEPT ![r] = [pc |-> "read", key |-> v, list |-> None]]
      BY <2>1 DEF ReadVersion
    <3>2. v \in Versions /\ feed[v] \in Nat \cup {None}
      BY <1>0
    <3> QED BY <3>1, <3>2 DEF ReaderStages
  <2>2. CASE ReadRows(r)
    <3> DEFINE g == [reader[r] EXCEPT !.pc = "set"]
               q == [g EXCEPT !.list = revision]
    <3>1. reader' = [reader EXCEPT ![r] = q]
      BY <1>0, <2>2 DEF ReadRows
    <3>2. q \in Reader
      BY <1>0 DEF ReaderStages
    <3> QED BY <3>1, <3>2
  <2>3. CASE SetFeed(r)
    <3> DEFINE q == [reader[r] EXCEPT !.pc = "done"]
    <3>1. reader' = [reader EXCEPT ![r] = q]
      BY <2>3 DEF SetFeed
    <3>2. q \in Reader
      BY <1>0 DEF ReaderStages
    <3> QED BY <3>1, <3>2
  <2> QED BY <2>1, <2>2, <2>3 DEF List
<1>3. feed' \in [Versions -> Nat \cup {None}]
  BY <1>0 DEF List, ReadVersion, ReadRows, SetFeed
<1>4. reader' \in [Readers -> Reader]
  BY <1>0, <1>2
<1>5. NTypeOK'
  BY <1>1, <1>3, <1>4 DEF Typed, NTypeOK, mail, fixed
<1> QED BY <1>1, <1>5 DEF Typed, Rowless, Flagged, LastAttempt, mail, fixed

\* An entry expires.
LEMMA ExpireTyped == Typed /\ Expire => Typed'
<1> SUFFICES ASSUME Typed, Expire PROVE Typed'
  OBVIOUS
<1>1. UNCHANGED <<email, sentAt, job, sender, mails, fixed, writer, revision, renewed, reader, lapses>>
  BY DEF Expire, ExpireRow, ExpireVersion, ExpireFeed, Row, bell, mail
<1>2. cached' \in Statuses \cup {None} /\ version' \in Versions
  BY DEF Expire, ExpireRow, ExpireVersion, ExpireFeed, bell, mail, Typed, NTypeOK, Versions
<1>3. feed' \in [Versions -> Nat \cup {None}]
  BY DEF Expire, ExpireRow, ExpireVersion, ExpireFeed, bell, Typed, NTypeOK
<1>4. NTypeOK'
  BY <1>1, <1>2, <1>3 DEF Typed, NTypeOK, fixed
<1> QED BY <1>1, <1>4 DEF Typed, Rowless, Flagged, LastAttempt, fixed

\* Every step is one of a writer, a sender or a reader, or an entry expires.
LEMMA Steps ==
  ASSUME [NNext]_nVars
  PROVE  \/ \E w \in Writers : Write(w) \/ EnqueueFails(w) \/ CallerDies(w)
         \/ \E s \in Senders : Sending(s)
         \/ \E s \in Workers : TakeJob(s) \/ Stalls(s)
         \/ \E r \in Readers : List(r)
         \/ Expire
         \/ UNCHANGED nVars
<1>1. ASSUME NEW s \in Senders, Deliver(s) \/ Trouble(s)
      PROVE  Sending(s) \/ (s \in Workers /\ (TakeJob(s) \/ Stalls(s)))
  <2>1. TakeJob(s) \/ Stalls(s) => s \in Workers
    BY DEF TakeJob, Stalls
  <2> QED BY <1>1, <2>1 DEF Deliver, Trouble, Sending
<1>2. DirectDies => Direct \in Senders /\ Sending(Direct)
  BY DEF Senders, Sending
<1> QED BY <1>1, <1>2 DEF NNext

LEMMA StepTyped == Typed /\ [NNext]_nVars => Typed'
<1> SUFFICES ASSUME Typed, [NNext]_nVars PROVE Typed'
  OBVIOUS
<1>1. CASE UNCHANGED nVars
  BY <1>1 DEF nVars, Typed, NTypeOK, Rowless, Flagged, LastAttempt
<1> QED BY <1>1, Steps, WriteTyped, SendTyped, TakeTyped, ListTyped, ExpireTyped

\* Every variable keeps its type: in particular no run of the job counts more
\* attempts than there are.
THEOREM TypeCorrect == NSpec => []NTypeOK
<1>1. Typed => NTypeOK
  BY DEF Typed
<1> QED BY <1>1, InitTyped, StepTyped, PTL DEF NSpec

-----------------------------------------------------------------------------
(* The list is current.                                                    *)

\* A write that has not set its version has nothing filed, or about to be, under it;
\* and what is under the version in force shows what there was when it was set.
Current ==
  /\ renewed <= revision
  /\ \A w \in Writers : writer[w] \in {"start", "version"} =>
       feed[w] = None /\ version # w /\ \A r \in Readers : reader[r].key # w
  /\ version # None =>
       /\ feed[version] = None \/ feed[version] >= renewed
       /\ \A r \in Readers : reader[r].pc = "set" /\ reader[r].key = version
                               => reader[r].list >= renewed

\* A write or a new version.
LEMMA WriteCurrent ==
  ASSUME Typed, Current, NEW w \in Writers, Write(w) \/ EnqueueFails(w) \/ CallerDies(w)
  PROVE  Current'
<1>0. /\ writer \in [Writers -> WriterStages] /\ version \in Versions /\ None \notin Writers
      /\ revision \in Nat /\ renewed \in Nat
  BY SendersAssumption DEF Typed, NTypeOK
<1>1. UNCHANGED <<feed, reader>>
  BY DEF Write, Insert, MarkRead, Renew, Enqueue, EnqueueFails, CallerDies, bell
<1>2. /\ \E to \in WriterStages : writer' = [writer EXCEPT ![w] = to]
      /\ writer[w] # "start" => writer'[w] # "start"
      /\ writer'[w] = "version" => writer[w] = "start"
  BY <1>0 DEF Write, Insert, MarkRead, Renew, Enqueue, EnqueueFails, CallerDies, WriterTo, WriterStages
<1>3. \A u \in Writers : writer'[u] \in {"start", "version"} =>
        writer[u] \in {"start", "version"}
  BY <1>0, <1>2
<1>4. CASE UNCHANGED <<version, renewed>> /\ revision' \in {revision, revision + 1}
  BY <1>0, <1>1, <1>3, <1>4 DEF Current
<1>5. CASE Renew(w) /\ version' = w /\ renewed' = revision
  <2>1. writer[w] = "version" /\ writer'[w] \notin {"start", "version"} /\ UNCHANGED revision
    BY <1>0, <1>5 DEF Renew, WriterTo
  <2>2. feed'[version'] = None /\ \A r \in Readers : reader'[r].key # version'
    BY <1>1, <1>5, <2>1 DEF Current
  <2>3. \A u \in Writers : writer'[u] \in {"start", "version"} => version' # u
    BY <1>5, <2>1
  <2> QED BY <1>0, <1>1, <1>3, <1>5, <2>1, <2>2, <2>3 DEF Current
<1> QED
  BY <1>4, <1>5 DEF Write, Insert, MarkRead, Renew, Enqueue, EnqueueFails, CallerDies, bell

\* A request for the list.
LEMMA ListCurrent ==
  ASSUME Typed, Current, NEW r \in Readers, List(r)
  PROVE  Current'
<1>0. /\ version \in Versions /\ feed \in [Versions -> Nat \cup {None}] /\ None \notin Writers
      /\ reader \in [Readers -> [pc : ReaderStages, key : Versions, list : Nat \cup {None}]]
      /\ revision \in Nat /\ renewed \in Nat
  BY SendersAssumption DEF Typed, NTypeOK
<1>1. UNCHANGED <<writer, revision, version, renewed>>
  BY DEF List, ReadVersion, ReadRows, SetFeed
<1>2. \A q \in Readers : q # r => reader'[q] = reader[q]
  BY <1>0 DEF List, ReadVersion, ReadRows, SetFeed
<1>3. CASE ReadVersion(r)
  <2>1. UNCHANGED feed /\ reader'[r].key \in {version, None} /\ reader'[r].pc # "set"
    BY <1>0, <1>3 DEF ReadVersion
  <2> QED BY <1>0, <1>1, <1>2, <2>1 DEF Current
<1>4. CASE ReadRows(r)
  <2>1. UNCHANGED feed /\ reader'[r].key = reader[r].key /\ reader'[r].list = revision
    BY <1>0, <1>4 DEF ReadRows
  <2> QED BY <1>0, <1>1, <1>2, <2>1 DEF Current
<1>5. CASE SetFeed(r)
  <2>1. /\ reader[r].pc = "set" /\ reader'[r].key = reader[r].key /\ reader'[r].pc = "done"
        /\ feed' \in {feed, [feed EXCEPT ![reader[r].key] = reader[r].list]}
    BY <1>0, <1>5 DEF SetFeed
  <2>2. reader[r].key \in Versions
    BY <1>0
  <2>3. \A v \in Versions : feed'[v] = feed[v] \/ (v = reader[r].key /\ feed'[v] = reader[r].list)
    BY <1>0, <2>1, <2>2
  <2>4. \A q \in Readers : reader'[q].key = reader[q].key /\ (reader'[q].pc = "set" => q # r)
    BY <1>2, <2>1
  <2>5. version # None => feed'[version] = None \/ feed'[version] >= renewed
    BY <1>0, <2>1, <2>3 DEF Current
  <2>6. \A w \in Writers : writer[w] \in {"start", "version"} => feed'[w] = None
    BY <2>3 DEF Current, Versions
  <2> QED BY <1>0, <1>1, <1>2, <2>4, <2>5, <2>6 DEF Current
<1> QED BY <1>3, <1>4, <1>5 DEF List

\* An entry that is gone shows nothing.
LEMMA ExpireCurrent == Typed /\ Current /\ Expire => Current'
<1> SUFFICES ASSUME Typed, Current, Expire PROVE Current'
  OBVIOUS
<1>0. /\ version \in Versions /\ feed \in [Versions -> Nat \cup {None}] /\ None \notin Writers
      /\ Writers \subseteq Versions
  BY SendersAssumption DEF Typed, NTypeOK, Versions
<1>1. UNCHANGED <<writer, revision, renewed, reader>> /\ version' \in {version, None}
  BY DEF Expire, ExpireRow, ExpireVersion, ExpireFeed, bell
<1>2. \A v \in Versions : feed'[v] \in {feed[v], None}
  BY <1>0 DEF Expire, ExpireRow, ExpireVersion, ExpireFeed, bell
<1> QED BY <1>0, <1>1, <1>2 DEF Current

\* A list filed under the version in force shows what was in the table when that
\* version was set, however the requests, the writes and the new versions interleave,
\* whatever Redis skips and whenever an entry expires.
THEOREM CurrentFeed == NSpec => []FeedIsCurrent
<1>1. NInit => Current
  BY SendersAssumption DEF NInit, Current, Versions
<1>2. ASSUME Typed, Current, [NNext]_nVars PROVE Current'
  <2>1. CASE UNCHANGED <<writer, bell>>
    <3>1. UNCHANGED <<writer, revision, version, renewed, feed, reader>>
      BY <2>1 DEF bell
    <3> QED BY <1>2, <3>1 DEF Current
  <2>2. ASSUME NEW s \in Senders, Sending(s) PROVE Current'
    BY <1>2, <2>1, <2>2, Turning DEF Turn, Turns
  <2>3. ASSUME NEW s \in Workers, TakeJob(s) \/ Stalls(s) PROVE Current'
    BY <2>1, <2>3 DEF TakeJob, Stalls
  <2>4. UNCHANGED nVars => UNCHANGED <<writer, bell>>
    BY DEF nVars, bell
  <2> QED BY <1>2, <2>1, <2>2, <2>3, <2>4, Steps, WriteCurrent, ListCurrent, ExpireCurrent
<1>3. Current => FeedIsCurrent
  BY DEF Current, FeedIsCurrent
<1>4. Typed /\ Current /\ [NNext]_nVars => Typed' /\ Current'
  BY <1>2, StepTyped
<1> QED BY <1>1, <1>3, <1>4, InitTyped, PTL DEF NSpec

-----------------------------------------------------------------------------
(* The status is what happened.                                            *)

Ahead == {w \in Callers : writer[w] \in {"version", "enqueue"}}

\* While no call is lost there is one caller, one run of the job or one task
\* ahead of the first e-mail, and the row is pending until it is through.
Clean ==
  /\ \A w \in Ahead : /\ job.state = "none" /\ mails = 0 /\ email = "pending"
                      /\ \A s \in Senders : sender[s].pc = "idle"
                      /\ \A u \in Ahead : u = w
  /\ \A s \in Workers : sender[s].pc # "idle" =>
       job.state = "active" /\ job.owner = s /\ job.made = sender[s].made
  /\ sender[Direct].pc # "idle" => job.state = "none"
  /\ \A s \in Senders :
       /\ sender[s].pc \in {"load", "fill", "send", "skip", "fail"} => mails = 0 /\ email = "pending"
       /\ sender[s].pc = "skip" => ~reachable
  /\ job.state = "waiting" => mails = 0 /\ email = "pending"
  /\ email = "failed" => mails = 0
  /\ email = "skipped_no_email" => ~reachable
TrueWhileClean == lapses = 0 => Clean


\* Where one is on its way no other is, and no caller and no waiting job is left.
LEMMA Alone ==
  ASSUME Typed, Clean, NEW s \in Senders, sender[s].pc # "idle"
  PROVE  /\ Ahead = {} /\ job.state # "waiting"
         /\ \A t \in Senders : t # s => sender[t].pc = "idle"
         /\ s \in Workers => job.state = "active" /\ job.owner = s /\ job.made = sender[s].made
         /\ s \notin Workers => s = Direct /\ job.state = "none"
<1>1. CASE s \in Workers
  <2>1. job.state = "active" /\ job.owner = s /\ job.made = sender[s].made
    BY <1>1 DEF Clean
  <2> QED BY <1>1, <2>1 DEF Clean, Senders
<1>2. CASE s \notin Workers
  <2>1. s = Direct /\ job.state = "none"
    BY <1>2 DEF Clean, Senders
  <2> QED BY <1>2, <2>1 DEF Clean, Senders
<1> QED BY <1>1, <1>2

\* A step of a sender that loses no call.
LEMMA TurnClean ==
  ASSUME Typed, Clean, NEW s \in Senders, NEW f \in Frame, NEW e \in BOOLEAN, Turn(s, f, e),
         UNCHANGED lapses
  PROVE  Clean'
<1> DEFINE p == sender[s]
<1>0. /\ sender \in [Senders -> Frame] /\ lapses \in Nat /\ mails \in Nat /\ Direct \in Senders
      /\ EmailAttempts \in Nat \ {0} /\ job.made \in Nat
  BY TypedFrames, SendersAssumption DEF Typed, NTypeOK, Senders
<1>1. ~Lapse
  BY <1>0 DEF Lapse
<1>2. p.pc # "idle"
  BY <1>1 DEF Turn, Looks, Errs, Gives, Mails, Writes, Ends, Dies
<1>3. /\ Ahead = {} /\ \A t \in Senders : t # s => sender[t].pc = "idle"
      /\ s \in Workers => job.state = "active" /\ job.owner = s /\ job.made = p.made
      /\ s \notin Workers => s = Direct /\ job.state = "none"
  BY <1>2, Alone
<1>4. /\ sender' = [sender EXCEPT ![s] = f] /\ UNCHANGED <<fixed, writer>>
      /\ f.pc = "idle" => f = IdleSender
      /\ job' = IF f.pc = "idle" THEN JobAfter(s, e) ELSE job
  BY DEF Turn, Turns
<1>5. /\ Ahead' = {} /\ sender'[s] = f
      /\ \A t \in Senders : t # s => sender'[t].pc = "idle"
  BY <1>0, <1>3, <1>4 DEF Ahead
<1>6. Direct \notin Workers
  BY SendersAssumption
\* What it may have done.
<1>7. \/ f.pc \in {"idle", "fill", "send", "skip"} /\ p.pc \in {"load", "fill"} /\ Quietly
           /\ (f.pc = "skip" => ~reachable) /\ (f.pc = "idle" => ~e)
      \/ f.pc = "fail" /\ p.pc = "send" /\ Quietly
      \/ f.pc = "idle" /\ p.pc = "send" /\ Quietly
      \/ f.pc = "record" /\ p.pc = "send" /\ UNCHANGED email /\ mails' = mails + 1
      \/ f.pc = "forget" /\ UNCHANGED mails
           /\ \/ p.pc = "record" /\ email' = "sent"
              \/ p.pc = "skip" /\ email' = "skipped_no_email"
              \/ p.pc = "fail" /\ email' = "failed"
      \/ f.pc = "idle" /\ p.pc = "forget" /\ e = p.error /\ Quietly
  BY <1>1 DEF Turn, Looks, Errs, Gives, Mails, Writes, Ends, Dies, Quietly
<1>8. p.pc \in {"load", "fill", "send", "skip", "fail"} => mails = 0 /\ email = "pending"
  BY DEF Clean
<1>9. p.pc = "skip" => ~reachable
  BY DEF Clean
\* What becomes of the row.
<1>10. /\ f.pc \in {"load", "fill", "send", "skip", "fail"} => mails' = 0 /\ email' = "pending"
       /\ f.pc = "skip" => ~reachable
       /\ email' = "failed" => mails' = 0
       /\ email' = "skipped_no_email" => ~reachable
  <2>1. email = "failed" => mails = 0
    BY DEF Clean
  <2>2. email = "skipped_no_email" => ~reachable
    BY DEF Clean
  <2>3. f.pc = "skip" => ~reachable
    BY <1>7
  <2> QED BY <1>7, <1>8, <1>9, <2>1, <2>2, <2>3 DEF Quietly
<1>11. reachable' = reachable
  BY <1>4 DEF fixed
\* What becomes of the job.
<1>12. CASE f.pc # "idle"
  <2>1. job' = job
    BY <1>4, <1>12
  <2>2. f.made = p.made
    BY <1>1, <1>12 DEF Turn, Looks, Errs, Gives, Mails, Writes, Ends, Dies, Same
  <2>3. \A t \in Workers : sender'[t].pc # "idle" =>
          job'.state = "active" /\ job'.owner = t /\ job'.made = sender'[t].made
    BY <1>3, <1>5, <2>1, <2>2 DEF Senders
  <2>4. sender'[Direct].pc # "idle" => job'.state = "none"
    BY <1>0, <1>3, <1>5, <1>6, <2>1
  <2>5. job'.state # "waiting"
    BY <1>3, <2>1
  <2>6. \A t \in Senders :
          /\ sender'[t].pc \in {"load", "fill", "send", "skip", "fail"}
               => mails' = 0 /\ email' = "pending"
          /\ sender'[t].pc = "skip" => ~reachable'
    BY <1>5, <1>10, <1>11
  <2> QED BY <1>5, <1>10, <1>11, <2>3, <2>4, <2>5, <2>6 DEF Clean
<1>13. CASE f.pc = "idle"
  <2>1. \A t \in Senders : sender'[t].pc = "idle"
    BY <1>5, <1>13
  <2>2. job'.state = "waiting" => e /\ job.made + 1 < EmailAttempts /\ s \in Workers
    BY <1>3, <1>4, <1>13 DEF JobAfter, NoJob
  <2>3. job'.state = "waiting" => mails' = 0 /\ email' = "pending"
    <3>1. ASSUME p.error, s \in Workers PROVE job.made + 1 >= EmailAttempts
      <4>1. LastAttempt(s)
        BY <3>1 DEF Typed, Flagged
      <4> QED BY <1>0, <1>3, <3>1, <4>1 DEF LastAttempt
    <3>2. p.pc = "forget" /\ e => p.error
      BY <1>1 DEF Turn, Looks, Errs, Gives, Mails, Writes, Ends, Dies
    <3>3. p.error /\ s \in Workers => ~(job.made + 1 < EmailAttempts)
      <4>1. ASSUME s \in Workers, p.error PROVE job.made + 1 >= EmailAttempts
        BY <3>1, <4>1
      <4> QED BY <1>0, <4>1
    <3>4. job'.state = "waiting" => p.pc # "forget"
      BY <2>2, <3>2, <3>3
    <3> QED BY <1>7, <1>8, <1>13, <3>4 DEF Quietly
  <2> QED BY <1>0, <1>5, <1>10, <1>11, <2>1, <2>3 DEF Clean, Senders
<1> QED BY <1>12, <1>13

\* A worker takes the job.
LEMMA TakeClean ==
  ASSUME Typed, Clean, NEW s \in Workers, TakeJob(s)
  PROVE  Clean'
<1> DEFINE p == sender[s]
           g == [p EXCEPT !.pc = "load"]
           f == [g EXCEPT !.made = job.made]
<1>0. /\ sender \in [Senders -> Frame] /\ s \in Senders /\ p \in Frame /\ s # Direct
      /\ job \in [state : {"none", "waiting", "active", "failed"},
                  made : 0 .. EmailAttempts, owner : Workers \cup {None}]
  BY TypedFrames, SendersAssumption DEF Typed, NTypeOK, Senders
<1>1. /\ job.state = "waiting" /\ sender' = [sender EXCEPT ![s] = f]
      /\ job' = [[job EXCEPT !.state = "active"] EXCEPT !.owner = s]
      /\ UNCHANGED <<email, mails, reachable, writer>>
  BY DEF TakeJob, Row, fixed
<1>2. f.pc = "load" /\ f.made = job.made
  BY <1>0 DEF Frame
<1> HIDE DEF f
<1>3. job'.state = "active" /\ job'.owner = s /\ job'.made = job.made
  BY <1>0, <1>1
<1>4. /\ Ahead = {} /\ mails = 0 /\ email = "pending"
      /\ \A t \in Senders : sender[t].pc = "idle"
  <2>1. Ahead = {} /\ mails = 0 /\ email = "pending" /\ sender[Direct].pc = "idle"
    BY <1>1 DEF Clean
  <2>2. \A t \in Workers : sender[t].pc = "idle"
    BY <1>1 DEF Clean
  <2> QED BY <2>1, <2>2 DEF Senders
<1>5. sender'[s] = f /\ \A t \in Senders : t # s => sender'[t].pc = "idle"
  BY <1>0, <1>1, <1>4
<1>6. \A t \in Senders : sender'[t].pc # "skip" /\ (sender'[t].pc # "idle" => t = s)
  BY <1>2, <1>5
<1>7. Ahead' = {}
  BY <1>1, <1>4 DEF Ahead
<1>8. sender'[Direct].pc = "idle"
  BY <1>0, <1>5 DEF Senders
<1> QED BY <1>1, <1>2, <1>3, <1>4, <1>5, <1>6, <1>7, <1>8, SendersAssumption DEF Clean, Senders

\* A caller, or a request to mark as read, when no call is lost.
LEMMA WriteClean ==
  ASSUME Typed, Clean, NEW w \in Writers, Write(w) \/ EnqueueFails(w) \/ CallerDies(w),
         UNCHANGED lapses
  PROVE  Clean'
<1>0. /\ sender \in [Senders -> Frame] /\ lapses \in Nat /\ Direct \in Senders
      /\ writer \in [Writers -> WriterStages] /\ Direct \notin Workers
      /\ Callers \cap Markers = {} /\ Callers \subseteq Writers /\ None \notin Statuses
  BY TypedFrames, SendersAssumption DEF Typed, NTypeOK, Senders, Writers
<1>1. ~Lapse
  BY <1>0 DEF Lapse
<1>2. UNCHANGED <<mails, reachable>>
  BY DEF Write, Insert, MarkRead, Renew, Enqueue, EnqueueFails, CallerDies, mail, fixed
<1>3. w \in Markers => writer[w] # "enqueue"
  BY DEF Typed
<1>4. CASE Insert(w) /\ email = None
  <2>1. /\ \A u \in Callers : writer[u] = "start"
        /\ \A s \in Senders : sender[s].pc = "idle"
        /\ job.state = "none" /\ mails = 0
    BY <1>4 DEF Typed, Rowless
  <2>2. email' = "pending" /\ UNCHANGED <<job, sender>> /\ writer' = [writer EXCEPT ![w] = "version"]
    BY <1>4 DEF Insert, WriterTo, mail
  <2>3. \A u \in Ahead' : u = w
    BY <1>0, <2>1, <2>2 DEF Ahead
  <2> QED BY <1>0, <1>2, <2>1, <2>2, <2>3 DEF Clean, Senders
\* The callers ahead stay where they are, or the one that is moves on.
<1>5. ASSUME UNCHANGED <<email, job, sender>>, Ahead' \subseteq Ahead
      PROVE  Clean'
  BY <1>2, <1>5 DEF Clean
<1>6. CASE (Insert(w) /\ email # None) \/ MarkRead(w)
  <2>1. UNCHANGED <<email, job, sender>>
    BY <1>6 DEF Insert, MarkRead, mail
  <2>2. \/ writer' = [writer EXCEPT ![w] = "done"]
        \/ writer' = [writer EXCEPT ![w] = "version"] /\ w \in Markers
    BY <1>6 DEF Insert, MarkRead, WriterTo
  <2>3. Ahead' \subseteq Ahead
    BY <1>0, <2>2 DEF Ahead
  <2> QED BY <1>5, <2>1, <2>3
<1>7. CASE Renew(w)
  <2>1. UNCHANGED <<email, job, sender>>
    BY <1>7 DEF Renew, mail
  <2>2. /\ writer[w] = "version"
        /\ writer' = [writer EXCEPT ![w] = IF w \in Callers THEN "enqueue" ELSE "done"]
    BY <1>7 DEF Renew, WriterTo
  <2>3. Ahead' \subseteq Ahead
    BY <1>0, <2>2 DEF Ahead
  <2> QED BY <1>5, <2>1, <2>3
<1>8. CASE Enqueue(w) \/ EnqueueFails(w)
  <2>1. writer[w] = "enqueue" /\ writer' = [writer EXCEPT ![w] = "done"] /\ UNCHANGED email
    BY <1>8 DEF Enqueue, EnqueueFails, WriterTo, Row
  <2>2. w \in Ahead
    BY <1>3, <2>1 DEF Ahead, Writers
  <2>3. /\ job.state = "none" /\ mails = 0 /\ email = "pending"
        /\ \A s \in Senders : sender[s].pc = "idle"
        /\ Ahead' = {}
    BY <1>0, <2>1, <2>2 DEF Clean, Ahead
  <2>4. CASE Enqueue(w)
    <3>1. UNCHANGED sender /\ job' = WaitingJob
      BY <2>4 DEF Enqueue
    <3>2. job'.state = "waiting"
      BY <3>1 DEF WaitingJob, NoJob
    <3> QED BY <1>0, <1>2, <2>1, <2>3, <3>1, <3>2 DEF Clean, Senders
  <2>5. CASE EnqueueFails(w)
    <3> DEFINE f == [sender[Direct] EXCEPT !.pc = "load"]
    <3>1. UNCHANGED job /\ sender' = [sender EXCEPT ![Direct] = f]
      BY <1>1, <2>5 DEF EnqueueFails, SenderTo
    <3>2. f.pc = "load"
      BY <1>0 DEF Frame
    <3> HIDE DEF f
    <3>3. sender'[Direct].pc = "load" /\ \A t \in Senders : t # Direct => sender'[t].pc = "idle"
      BY <1>0, <2>3, <3>1, <3>2
    <3>4. \A t \in Workers : sender'[t].pc = "idle"
      BY <1>0, <3>3 DEF Senders
    <3>5. \A t \in Senders : sender'[t].pc # "skip"
      BY <3>3
    <3> QED BY <1>2, <2>1, <2>3, <3>1, <3>4, <3>5 DEF Clean
  <2> QED BY <1>8, <2>4, <2>5
<1>9. ~CallerDies(w)
  BY <1>1 DEF CallerDies
<1> QED BY <1>4, <1>6, <1>7, <1>8, <1>9 DEF Write

LEMMA InitClean == NInit => Clean
<1> SUFFICES ASSUME NInit PROVE Clean
  OBVIOUS
<1>1. /\ \A s \in Senders : sender[s].pc = "idle" /\ Ahead = {} /\ job.state = "none"
      /\ Direct \in Senders
  BY DEF NInit, Ahead, IdleSender, NoJob, Writers, Senders
<1>2. email = None /\ None \notin Statuses
  BY SendersAssumption DEF NInit
<1> QED BY <1>1, <1>2 DEF Clean, Statuses, Senders

\* The status is what happened: "sent" only after a mail, "failed" and
\* "skipped_no_email" for their reasons, as long as no call is lost.
THEOREM TrueStatus == NSpec => []StatusIsTrue
<1>1. NInit => TrueWhileClean
  BY InitClean DEF TrueWhileClean
<1>2. ASSUME Typed, Typed', TrueWhileClean, [NNext]_nVars PROVE TrueWhileClean'
  <2> SUFFICES ASSUME lapses' = 0 PROVE Clean'
    BY DEF TrueWhileClean
  <2>0. lapses \in Nat /\ (Lapse => lapses' = lapses + 1)
    BY <1>2, SendersAssumption DEF Typed, NTypeOK, Lapse
  <2>1. ~Lapse
    BY <2>0 DEF Lapse
  <2>2. UNCHANGED nVars => UNCHANGED lapses
    BY DEF nVars
  <2>3. ASSUME NEW w \in Writers, Write(w) \/ EnqueueFails(w) \/ CallerDies(w)
        PROVE  Clean'
    <3>1. UNCHANGED lapses
      BY <2>1, <2>3 DEF Write, Insert, MarkRead, Renew, Enqueue, EnqueueFails, CallerDies
    <3> QED BY <1>2, <2>3, <3>1, WriteClean DEF TrueWhileClean
  <2>4. ASSUME NEW s \in Senders, Sending(s) PROVE Clean'
    <3>1. PICK f \in Frame, e \in BOOLEAN : Turn(s, f, e)
      BY <1>2, <2>4, Turning
    <3>2. UNCHANGED lapses
      BY <2>1, <3>1 DEF Turn, Looks, Errs, Gives, Mails, Writes, Ends, Dies, Quietly
    <3> QED BY <1>2, <3>1, <3>2, TurnClean DEF TrueWhileClean
  <2>5. ASSUME NEW s \in Workers, TakeJob(s) \/ Stalls(s) PROVE Clean'
    <3>1. TakeJob(s) /\ UNCHANGED lapses
      BY <2>1, <2>5 DEF TakeJob, Stalls
    <3> QED BY <1>2, <3>1, TakeClean DEF TrueWhileClean
  <2>6. ASSUME UNCHANGED <<email, job, sender, mails, reachable, writer, lapses>> PROVE Clean'
    BY <1>2, <2>6 DEF TrueWhileClean, Clean, Ahead
  <2>7. \A r \in Readers : List(r) => UNCHANGED <<email, job, sender, mails, reachable, writer, lapses>>
    BY DEF List, ReadVersion, ReadRows, SetFeed, mail, fixed
  <2>8. UNCHANGED nVars => UNCHANGED <<email, job, sender, mails, reachable, writer, lapses>>
    BY DEF nVars
  <2>9. Expire => UNCHANGED <<email, job, sender, mails, reachable, writer, lapses>>
    BY DEF Expire, ExpireRow, ExpireVersion, ExpireFeed, Row, mail, fixed
  <2> QED BY <1>2, <2>3, <2>4, <2>5, <2>6, <2>7, <2>8, <2>9, Steps
<1>3. Typed /\ TrueWhileClean => StatusIsTrue
  BY DEF Typed, TrueWhileClean, Clean, StatusIsTrue
<1>4. Typed /\ TrueWhileClean /\ [NNext]_nVars => Typed' /\ TrueWhileClean'
  BY <1>2, StepTyped
<1> QED BY <1>1, <1>3, <1>4, InitTyped, PTL DEF NSpec

-----------------------------------------------------------------------------
(* One e-mail and one more per lapse.                                      *)

Bit(b) == IF b THEN 1 ELSE 0
Hopes(p) == p.pc \in {"load", "fill", "send"} \/ p.error
Hopeful == {s \in Senders : Hopes(sender[s])}
\* What may still send an e-mail: a caller, a run, a job that waits.
Chances == Cardinality(Ahead) + Cardinality(Hopeful) + Bit(job.state = "waiting")
Spent == mails + Chances <= 1 + lapses

LEMMA BitType == \A b : Bit(b) \in {0, 1} /\ (b => Bit(b) = 1) /\ (~b => Bit(b) = 0)
BY DEF Bit

LEMMA Finite ==
  ASSUME NEW A, A \subseteq Callers \/ A \subseteq Senders
  PROVE  IsFiniteSet(A) /\ Cardinality(A) \in Nat
<1>1. IsFiniteSet(Callers)
  <2>1. Callers \subseteq Writers
    BY DEF Writers
  <2> QED BY <2>1, SendersAssumption, FS_Subset
<1>2. IsFiniteSet(Senders)
  BY SendersAssumption, FS_AddElement DEF Senders
<1>3. IsFiniteSet(A)
  BY <1>1, <1>2, FS_Subset
<1> QED BY <1>3, FS_CardinalityType

\* Two sets that differ in one element at most.
LEMMA OneMoved ==
  ASSUME NEW A, NEW B, IsFiniteSet(A), IsFiniteSet(B), NEW x,
         A \subseteq B \cup {x}, B \subseteq A \cup {x}
  PROVE  Cardinality(B) + Bit(x \in A) = Cardinality(A) + Bit(x \in B)
<1>0. Cardinality(A) \in Nat /\ Cardinality(B) \in Nat
  BY FS_CardinalityType
<1>1. CASE (x \in A) = (x \in B)
  <2>1. A = B
    BY <1>1
  <2> QED BY <2>1
<1>2. CASE x \in A /\ x \notin B
  <2>1. B = A \ {x}
    BY <1>2
  <2>2. Cardinality(B) = Cardinality(A) - 1
    BY <1>2, <2>1, FS_RemoveElement
  <2> QED BY <1>0, <1>2, <2>2 DEF Bit
<1>3. CASE x \notin A /\ x \in B
  <2>1. B = A \cup {x}
    BY <1>3
  <2>2. Cardinality(B) = Cardinality(A) + 1
    BY <1>3, <2>1, FS_AddElement
  <2> QED BY <1>0, <1>3, <2>2 DEF Bit
<1> QED BY <1>1, <1>2, <1>3

\* The sum a step keeps: mails, the callers ahead, the senders with a chance, the job.
LEMMA Sums ==
  \A M, M2, X, Y, Y2, n, n2, m, m2, L, L2 \in Int :
    Y2 + n = Y + n2 /\ M2 + n2 + m2 + L <= M + n + m + L2 /\ M + X + Y + m <= 1 + L
      => M2 + X + Y2 + m2 <= 1 + L2
OBVIOUS

\* A sender that goes on.
LEMMA HopefulMoves ==
  ASSUME sender \in [Senders -> Frame], NEW s \in Senders, NEW f \in Frame,
         sender' = [sender EXCEPT ![s] = f]
  PROVE  /\ Cardinality(Hopeful) \in Nat /\ Cardinality(Hopeful') \in Nat
         /\ Cardinality(Hopeful') + Bit(Hopes(sender[s])) = Cardinality(Hopeful) + Bit(Hopes(f))
<1>1. sender'[s] = f /\ \A t \in Senders : t # s => sender'[t] = sender[t]
  OBVIOUS
<1>2. /\ s \in Hopeful <=> Hopes(sender[s])
      /\ s \in Hopeful' <=> Hopes(f)
  BY <1>1 DEF Hopeful
<1>3. Hopeful \subseteq Hopeful' \cup {s} /\ Hopeful' \subseteq Hopeful \cup {s}
  BY <1>1 DEF Hopeful
<1>4. Hopeful \subseteq Senders /\ Hopeful' \subseteq Senders
  BY DEF Hopeful
<1>5. /\ IsFiniteSet(Hopeful) /\ Cardinality(Hopeful) \in Nat
      /\ IsFiniteSet(Hopeful') /\ Cardinality(Hopeful') \in Nat
  BY <1>4, Finite
<1>6. Cardinality(Hopeful') + Bit(s \in Hopeful) = Cardinality(Hopeful) + Bit(s \in Hopeful')
  BY <1>3, <1>5, OneMoved
<1> QED BY <1>2, <1>5, <1>6 DEF Bit

\* A caller that goes on.
LEMMA AheadMoves ==
  ASSUME writer \in [Writers -> WriterStages], NEW w \in Writers, NEW to,
         writer' = [writer EXCEPT ![w] = to]
  PROVE  /\ Cardinality(Ahead) \in Nat /\ Cardinality(Ahead') \in Nat
         /\ Cardinality(Ahead') + Bit(w \in Ahead) = Cardinality(Ahead) + Bit(w \in Ahead')
<1>1. Ahead \subseteq Ahead' \cup {w} /\ Ahead' \subseteq Ahead \cup {w}
  BY DEF Ahead, Writers
<1>2. Ahead \subseteq Callers /\ Ahead' \subseteq Callers
  BY DEF Ahead
<1>3. /\ IsFiniteSet(Ahead) /\ Cardinality(Ahead) \in Nat
      /\ IsFiniteSet(Ahead') /\ Cardinality(Ahead') \in Nat
  BY <1>2, Finite
<1> QED BY <1>1, <1>3, OneMoved

\* A step of a sender makes no chance of an e-mail out of nothing.
LEMMA TurnSpent ==
  ASSUME Typed, Spent, NEW s \in Senders, NEW f \in Frame, NEW e \in BOOLEAN, Turn(s, f, e)
  PROVE  Spent'
<1> DEFINE p == sender[s]
           m == Bit(job.state = "waiting")
           n == Bit(Hopes(p))
           n2 == Bit(Hopes(f))
           x == Cardinality(Ahead)
           y == Cardinality(Hopeful)
<1>0. /\ sender \in [Senders -> Frame] /\ lapses \in Nat /\ mails \in Nat
  BY TypedFrames, SendersAssumption DEF Typed, NTypeOK
<1>1. /\ sender' = [sender EXCEPT ![s] = f] /\ UNCHANGED writer
      /\ f.pc = "idle" => f = IdleSender
      /\ job' = IF f.pc = "idle" THEN JobAfter(s, e) ELSE job
  BY DEF Turn, Turns
<1>4. y' + n = y + n2 /\ y \in Nat /\ y' \in Nat
  BY <1>0, <1>1, HopefulMoves
<1>5. x' = x /\ x \in Nat
  <2>1. Ahead' = Ahead /\ Ahead \subseteq Callers
    BY <1>1 DEF Ahead
  <2> QED BY <2>1, Finite
<1>6. n \in {0, 1} /\ n2 \in {0, 1} /\ m \in {0, 1} /\ m' \in {0, 1}
  BY BitType
\* The sender's part and the job's.
<1>7. f.pc = "idle" => n2 = 0 /\ (~e => m' <= m)
  <2>1. ASSUME f.pc = "idle" PROVE ~Hopes(f)
    BY <1>1, <2>1, IdleFrame DEF Hopes
  <2>2. ASSUME f.pc = "idle", ~e, job'.state = "waiting" PROVE job.state = "waiting"
    BY <1>1, <2>2, JobAfterTyped
  <2>3. ASSUME f.pc = "idle", ~e PROVE m' <= m
    BY <1>6, <2>2, <2>3, BitType
  <2> QED BY <2>1, <2>3, BitType
<1>8. f.pc # "idle" => m' = m
  BY <1>1
<1>9. n2 + m' <= m + 1
  BY <1>6, <1>7, <1>8
<1>10. p.pc \in {"load", "fill", "send"} => n = 1
  BY BitType DEF Hopes
<1>11. Same(s, f) /\ f.pc \notin {"load", "fill", "send"} => n2 <= n
  <2>1. ASSUME Same(s, f), f.pc \notin {"load", "fill", "send"}, Hopes(f) PROVE Hopes(p)
    BY <2>1 DEF Same, Hopes
  <2> QED BY <1>6, <2>1, BitType
<1>12. f.pc = "record" /\ Same(s, f) /\ p.pc = "send" => n2 = 0
  <2>1. ASSUME p.pc = "send" PROVE ~p.error
    BY <2>1 DEF Typed, Flagged
  <2>2. ASSUME f.pc = "record", Same(s, f), p.pc = "send" PROVE ~Hopes(f)
    BY <2>1, <2>2 DEF Same, Hopes
  <2> QED BY <2>2, BitType
<1>13. f.pc = "idle" /\ (e => p.error) => m' <= m + n
  <2>1. ASSUME f.pc = "idle", e, e => p.error PROVE n = 1
    BY <2>1, BitType DEF Hopes
  <2>2. ASSUME f.pc = "idle", e => p.error PROVE m' <= m + n
    <3>1. CASE e
      BY <1>6, <2>1, <2>2, <3>1
    <3>2. CASE ~e
      BY <1>6, <1>7, <2>2, <3>2
    <3> QED BY <3>1, <3>2
  <2> QED BY <2>2
\* What it may have done.
<1>14. mails' + n2 + m' + lapses <= mails + n + m + lapses'
       /\ mails' \in Nat /\ lapses' \in Nat
  <2>1. CASE Looks(s, f, e)
    <3>1. p.pc \in {"load", "fill"} /\ UNCHANGED <<mails, lapses>>
      BY <2>1 DEF Looks, Quietly
    <3> QED BY <1>0, <1>6, <1>9, <1>10, <3>1
  <2>2. CASE Errs(s, f, e)
    <3>1. \/ UNCHANGED mails /\ lapses' = lapses + 1
          \/ p.pc = "send" /\ UNCHANGED <<mails, lapses>>
          \/ p.pc = "send" /\ mails' = mails + 1 /\ lapses' = lapses + 1
      BY <2>2 DEF Errs, Lapse
    <3> QED BY <1>0, <1>6, <1>9, <1>10, <3>1
  <2>3. CASE Gives(s, f)
    <3>1. UNCHANGED mails /\ lapses' = lapses + 1
      BY <2>3 DEF Gives, Lapse
    <3> QED BY <1>0, <1>6, <1>9, <3>1
  <2>4. CASE Mails(s, f)
    <3>1. mails' = mails + 1 /\ UNCHANGED lapses /\ f.pc = "record" /\ p.pc = "send" /\ Same(s, f)
      BY <2>4 DEF Mails
    <3>2. n = 1 /\ n2 = 0 /\ m' = m
      BY <1>8, <1>10, <1>12, <3>1
    <3> QED BY <1>0, <1>6, <3>1, <3>2
  <2>5. CASE Writes(s, f)
    <3>1. UNCHANGED <<mails, lapses>> /\ f.pc = "forget" /\ Same(s, f)
      BY <2>5 DEF Writes
    <3>2. n2 <= n /\ m' = m
      BY <1>8, <1>11, <3>1
    <3> QED BY <1>0, <1>6, <3>1, <3>2
  <2>6. CASE Ends(s, f, e) \/ Dies(s, f, e)
    <3>1. /\ UNCHANGED mails /\ f.pc = "idle"
          /\ lapses' = lapses \/ lapses' = lapses + 1
      BY <2>6 DEF Ends, Dies, Lapse
    <3>2. e => p.error
      BY <2>6 DEF Ends, Dies
    <3>3. n2 = 0 /\ m' <= m + n
      BY <1>7, <1>13, <3>1, <3>2
    <3> QED BY <1>0, <1>6, <3>1, <3>3
  <2> QED BY <2>1, <2>2, <2>3, <2>4, <2>5, <2>6 DEF Turn
<1>15. mails + x + y + m <= 1 + lapses
  BY <1>0, <1>4, <1>5, <1>6 DEF Spent, Chances
<1>16. mails' + x' + y' + m' <= 1 + lapses'
  <2>1. n \in Int /\ n2 \in Int /\ m \in Int /\ m' \in Int
    BY <1>6
  <2> QED BY <1>0, <1>4, <1>5, <1>14, <1>15, <2>1, Sums
<1> QED BY <1>4, <1>5, <1>6, <1>14, <1>16 DEF Spent, Chances

\* A worker takes the job, or it stalls.
LEMMA TakeSpent ==
  ASSUME Typed, Spent, NEW s \in Workers, TakeJob(s) \/ Stalls(s)
  PROVE  Spent'
<1> DEFINE p == sender[s]
           m == Bit(job.state = "waiting")
           x == Cardinality(Ahead)
           y == Cardinality(Hopeful)
<1>0. /\ sender \in [Senders -> Frame] /\ lapses \in Nat /\ mails \in Nat
      /\ s \in Senders /\ p \in Frame
      /\ job \in [state : {"none", "waiting", "active", "failed"},
                  made : 0 .. EmailAttempts, owner : Workers \cup {None}]
  BY TypedFrames, SendersAssumption DEF Typed, NTypeOK, Senders
<1>1. UNCHANGED <<mails, writer>>
  BY DEF TakeJob, Stalls
<1>2. x' = x /\ x \in Nat
  <2>1. Ahead' = Ahead /\ Ahead \subseteq Callers
    BY <1>1 DEF Ahead
  <2> QED BY <2>1, Finite
<1>3. m \in {0, 1} /\ m' \in {0, 1} /\ y \in Nat
  <2>1. Hopeful \subseteq Senders
    BY DEF Hopeful
  <2> QED BY <2>1, BitType, Finite
<1>4. CASE TakeJob(s)
  <2> DEFINE g == [p EXCEPT !.pc = "load"]
             f == [g EXCEPT !.made = job.made]
  <2>1. /\ sender' = [sender EXCEPT ![s] = f] /\ p.pc = "idle" /\ job.state = "waiting"
        /\ job' = [[job EXCEPT !.state = "active"] EXCEPT !.owner = s] /\ UNCHANGED lapses
    BY <1>4 DEF TakeJob
  <2>2. f \in Frame
    BY <1>0 DEF Frame, SenderStages
  <2> HIDE DEF f
  <2>3. ~Hopes(p)
    BY <1>0, <2>1 DEF Typed, Flagged, Hopes
  <2>4. y' \in Nat /\ y' + Bit(Hopes(p)) = y + Bit(Hopes(f))
    BY <1>0, <2>1, <2>2, HopefulMoves
  <2>5. Bit(Hopes(p)) = 0 /\ Bit(Hopes(f)) \in {0, 1}
    BY <2>3, BitType
  <2>6. m = 1 /\ m' = 0
    <3>1. job'.state = "active"
      BY <1>0, <2>1
    <3> QED BY <2>1, <3>1, BitType
  <2>7. y' <= y + 1
    BY <1>3, <2>4, <2>5
  <2> QED BY <1>0, <1>1, <1>2, <1>3, <2>1, <2>4, <2>6, <2>7 DEF Spent, Chances
<1>5. CASE Stalls(s)
  <2>1. /\ lapses' = lapses + 1 /\ job.state = "active"
        /\ UNCHANGED sender \/ sender' = [sender EXCEPT ![s] = IdleSender]
    BY <1>5 DEF Stalls, Lapse
  <2>2. y' \in Nat /\ y' <= y
    <3>1. CASE UNCHANGED sender
      <4>1. Hopeful' = Hopeful
        BY <3>1 DEF Hopeful
      <4> QED BY <1>3, <4>1
    <3>2. CASE sender' = [sender EXCEPT ![s] = IdleSender]
      <4>1. y' \in Nat /\ y' + Bit(Hopes(p)) = y + Bit(Hopes(IdleSender))
        BY <1>0, <3>2, IdleFrame, HopefulMoves
      <4>2. Bit(Hopes(IdleSender)) = 0 /\ Bit(Hopes(p)) \in {0, 1}
        BY IdleFrame, BitType DEF Hopes
      <4> QED BY <1>3, <4>1, <4>2
    <3> QED BY <2>1, <3>1, <3>2
  <2>3. m = 0
    BY <2>1, BitType
  <2> QED BY <1>0, <1>1, <1>2, <1>3, <2>1, <2>2, <2>3 DEF Spent, Chances
<1> QED BY <1>4, <1>5

\* A caller, or a request to mark as read.
LEMMA WriteSpent ==
  ASSUME Typed, Spent, NEW w \in Writers, Write(w) \/ EnqueueFails(w) \/ CallerDies(w)
  PROVE  Spent'
<1> DEFINE m == Bit(job.state = "waiting")
           x == Cardinality(Ahead)
           y == Cardinality(Hopeful)
<1>0. /\ sender \in [Senders -> Frame] /\ lapses \in Nat /\ mails \in Nat /\ Direct \in Senders
      /\ writer \in [Writers -> WriterStages] /\ Callers \cap Markers = {}
  BY TypedFrames, SendersAssumption DEF Typed, NTypeOK, Senders
<1>1. UNCHANGED mails
  BY DEF Write, Insert, MarkRead, Renew, Enqueue, EnqueueFails, CallerDies, mail
<1>2. m \in {0, 1} /\ m' \in {0, 1} /\ x \in Nat /\ y \in Nat
  <2>1. Hopeful \subseteq Senders /\ Ahead \subseteq Callers
    BY DEF Hopeful, Ahead
  <2> QED BY <2>1, BitType, Finite
<1>3. CASE Insert(w) /\ email = None
  <2>1. /\ \A u \in Callers : writer[u] = "start"
        /\ \A s \in Senders : sender[s].pc = "idle"
        /\ job.state = "none" /\ mails = 0
    BY <1>3 DEF Typed, Rowless
  <2>2. UNCHANGED <<job, sender, lapses>> /\ writer' = [writer EXCEPT ![w] = "version"]
    BY <1>3 DEF Insert, WriterTo, mail
  <2>3. Ahead = {} /\ Hopeful = {} /\ Hopeful' = {}
    <3>1. \A s \in Senders : ~sender[s].error
      BY <2>1 DEF Typed, Flagged
    <3> QED BY <2>1, <2>2, <3>1 DEF Ahead, Hopeful, Hopes
  <2>4. x = 0 /\ y' = 0 /\ m' = 0
    BY <2>1, <2>2, <2>3, FS_EmptySet, BitType
  <2>5. x' \in Nat /\ x' + Bit(w \in Ahead) = x + Bit(w \in Ahead')
    BY <1>0, <2>2, AheadMoves
  <2>6. Bit(w \in Ahead) = 0 /\ Bit(w \in Ahead') \in {0, 1}
    BY <2>3 DEF Bit
  <2> QED BY <1>0, <1>1, <2>1, <2>2, <2>4, <2>5, <2>6 DEF Spent, Chances
<1>4. CASE \/ Insert(w) /\ email # None
           \/ MarkRead(w) \/ Renew(w) \/ CallerDies(w)
  <2>1. UNCHANGED <<job, sender>> /\ (UNCHANGED lapses \/ lapses' = lapses + 1)
    BY <1>4 DEF Insert, MarkRead, Renew, CallerDies, Lapse, mail
  <2>2. Hopeful' = Hopeful /\ m' = m
    BY <2>1 DEF Hopeful
  <2>3. Ahead' \subseteq Ahead
    <3>1. PICK to : /\ writer' = [writer EXCEPT ![w] = to]
                    /\ to \in {"version", "enqueue"} => w \in Ahead \cup Markers
      BY <1>4 DEF Insert, MarkRead, Renew, CallerDies, WriterTo, Ahead
    <3>2. \A u \in Callers : writer'[u] = IF u = w THEN to ELSE writer[u]
      BY <1>0, <3>1 DEF Writers
    <3> QED BY <1>0, <3>1, <3>2 DEF Ahead
  <2>4. x' \in Nat /\ x' <= x
    <3>1. Ahead \subseteq Callers /\ Ahead' \subseteq Callers
      BY DEF Ahead
    <3>2. IsFiniteSet(Ahead) /\ x' \in Nat
      BY <3>1, Finite
    <3> QED BY <2>3, <3>2, FS_Subset
  <2> QED BY <1>0, <1>1, <1>2, <2>1, <2>2, <2>4 DEF Spent, Chances
<1>5. CASE Enqueue(w) \/ EnqueueFails(w)
  <2>1. writer[w] = "enqueue" /\ writer' = [writer EXCEPT ![w] = "done"]
    BY <1>5 DEF Enqueue, EnqueueFails, WriterTo
  <2>2. w \in Ahead /\ w \notin Ahead'
    BY <1>0, <2>1 DEF Typed, Ahead, Writers
  <2>3. x' \in Nat /\ x' + 1 = x
    <3>1. x' \in Nat /\ x' + Bit(w \in Ahead) = x + Bit(w \in Ahead')
      BY <1>0, <2>1, AheadMoves
    <3>2. Bit(w \in Ahead) = 1 /\ Bit(w \in Ahead') = 0
      BY <2>2 DEF Bit
    <3> QED BY <1>2, <3>1, <3>2
  <2>4. CASE Enqueue(w)
    <3>1. UNCHANGED <<sender, lapses>>
      BY <2>4 DEF Enqueue
    <3>2. Hopeful' = Hopeful
      BY <3>1 DEF Hopeful
    <3> QED BY <1>0, <1>1, <1>2, <2>3, <3>1, <3>2 DEF Spent, Chances
  <2>5. CASE EnqueueFails(w)
    <3> DEFINE p == sender[Direct]
               f == [p EXCEPT !.pc = "load"]
    <3>1. /\ sender' = [sender EXCEPT ![Direct] = f] /\ p.pc = "idle"
          /\ (UNCHANGED <<job, lapses>> \/ lapses' = lapses + 1)
      BY <2>5 DEF EnqueueFails, SenderTo, Lapse
    <3>2. f \in Frame
      BY <1>0 DEF Frame, SenderStages
    <3> HIDE DEF f
    <3>3. ~Hopes(p)
      BY <1>0, <3>1 DEF Typed, Flagged, Hopes
    <3>4. y' \in Nat /\ y' + Bit(Hopes(p)) = y + Bit(Hopes(f))
      BY <1>0, <3>1, <3>2, HopefulMoves
    <3>5. Bit(Hopes(p)) = 0 /\ Bit(Hopes(f)) \in {0, 1}
      BY <3>3, BitType
    <3>6. y' <= y + 1
      BY <1>2, <3>4, <3>5
    <3>7. lapses' \in Nat /\ m' + lapses <= m + lapses'
      <4>1. CASE UNCHANGED <<job, lapses>>
        BY <1>0, <1>2, <4>1
      <4>2. CASE lapses' = lapses + 1
        BY <1>0, <1>2, <4>2
      <4> QED BY <3>1, <4>1, <4>2
    <3> QED BY <1>0, <1>1, <1>2, <2>3, <3>4, <3>6, <3>7 DEF Spent, Chances
  <2> QED BY <1>5, <2>4, <2>5
<1> QED BY <1>3, <1>4, <1>5 DEF Write

\* No more e-mails than one and one for every lost call or crash: what the
\* dedupe key, the job id and the status are for.
THEOREM OneMail == NSpec => []OneMailPerLapse
<1>1. NInit => Spent
  <2> SUFFICES ASSUME NInit PROVE Spent
    OBVIOUS
  <2>1. Ahead = {} /\ Hopeful = {} /\ job.state # "waiting"
    BY IdleFrame DEF NInit, Ahead, Hopeful, Hopes, NoJob, Writers
  <2>2. mails = 0 /\ lapses = 0
    BY DEF NInit
  <2> QED BY <2>1, <2>2, FS_EmptySet DEF Spent, Chances, Bit
<1>2. ASSUME Typed, Spent, [NNext]_nVars PROVE Spent'
  <2>1. ASSUME UNCHANGED <<job, sender, mails, writer, lapses>> PROVE Spent'
    BY <1>2, <2>1 DEF Spent, Chances, Ahead, Hopeful
  <2>2. ASSUME NEW s \in Senders, Sending(s) PROVE Spent'
    BY <1>2, <2>2, Turning, TurnSpent
  <2>3. \A r \in Readers : List(r) => UNCHANGED <<job, sender, mails, writer, lapses>>
    BY DEF List, ReadVersion, ReadRows, SetFeed, mail
  <2>4. UNCHANGED nVars => UNCHANGED <<job, sender, mails, writer, lapses>>
    BY DEF nVars
  <2>5. Expire => UNCHANGED <<job, sender, mails, writer, lapses>>
    BY DEF Expire, ExpireRow, ExpireVersion, ExpireFeed, Row, mail
  <2> QED BY <1>2, <2>1, <2>2, <2>3, <2>4, <2>5, Steps, TakeSpent, WriteSpent
<1>3. Typed /\ Spent => OneMailPerLapse
  <2> SUFFICES ASSUME Typed, Spent PROVE OneMailPerLapse
    OBVIOUS
  <2>1. Hopeful \subseteq Senders /\ Ahead \subseteq Callers
    BY DEF Hopeful, Ahead
  <2>2. Cardinality(Hopeful) \in Nat /\ Cardinality(Ahead) \in Nat
    BY <2>1, Finite
  <2>3. Bit(job.state = "waiting") \in {0, 1} /\ mails \in Nat /\ lapses \in Nat
    BY BitType, SendersAssumption DEF Typed, NTypeOK
  <2> QED BY <2>2, <2>3 DEF Spent, Chances, OneMailPerLapse
<1>4. Typed /\ Spent /\ [NNext]_nVars => Typed' /\ Spent'
  BY <1>2, StepTyped
<1> QED BY <1>1, <1>3, <1>4, InitTyped, PTL DEF NSpec
=============================================================================
