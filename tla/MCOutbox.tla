------------------------------ MODULE MCOutbox ------------------------------
(***************************************************************************)
(* What leaves the system for people: a GitHub comment, an e-mail, and the *)
(* list behind the bell.  The comment shares no state with the other two,  *)
(* nor the list with the e-mail once the mail is out, so each is checked   *)
(* beside the others at rest: a behaviour begins with two of them over.    *)
(***************************************************************************)
EXTENDS Comments, Notifications

Home == CHOOSE h \in Hosts : TRUE
First == CHOOSE j \in Jobs : TRUE

\* Every job is through on one backend, and the first one has posted.
CommentsAtRest ==
  /\ pc = [j \in Jobs |-> "done"]
  /\ at = [j \in Jobs |-> Home]
  /\ attempts = [j \in Jobs |-> 1]
  /\ timer = [j \in Jobs |-> 0]
  /\ entry = [h \in Hosts |-> [holder |-> Nobody, sent |-> h = Home]]
  /\ key = "sent" /\ lease = 0
  /\ wire = {} /\ posted = {<<First, 1>>} /\ cut = {}
  /\ mishaps = 0

Reachable == reachable = TRUE /\ counts = TRUE
NoDelivery == job = NoJob /\ sender = [s \in Senders |-> IdleSender] /\ cached = None /\ lapses = 0
MailBegins ==
  email = None /\ sentAt = FALSE /\ mails = 0 /\ reachable \in BOOLEAN /\ counts \in BOOLEAN
MailIsOut == email = "sent" /\ sentAt = TRUE /\ mails = 1 /\ Reachable

\* The calls of a set have yet to write; each of the others has written once.
WritersLeft(S) ==
  /\ writer = [w \in Writers |-> IF w \in S THEN "start" ELSE "done"]
  /\ revision = Cardinality(Writers \ S) /\ renewed = revision /\ version = None
  /\ feed = [v \in Versions |-> None]
ReadersBegin == reader = [r \in Readers |-> [pc |-> "start", key |-> None, list |-> None]]
ReadersDone == reader = [r \in Readers |-> [pc |-> "done", key |-> None, list |-> 0]]
Last == CHOOSE w \in Markers : TRUE

OutboxInit ==
  \* comments
  \/ CInit /\ NoDelivery /\ MailIsOut /\ WritersLeft({}) /\ ReadersDone
  \* the e-mail, beside a call that marks the row read
  \/ CommentsAtRest /\ NoDelivery /\ MailBegins /\ WritersLeft(Callers \cup {Last}) /\ ReadersDone
  \* the bell
  \/ CommentsAtRest /\ NoDelivery /\ MailIsOut /\ WritersLeft(Markers) /\ ReadersBegin
OutboxNext == (CNext /\ UNCHANGED nVars) \/ (NNext /\ UNCHANGED cVars)
OutboxSpec ==
  /\ OutboxInit /\ [][OutboxNext]_<<cVars, nVars>>
  /\ CFairness /\ NFairness
=============================================================================
