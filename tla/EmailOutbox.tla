---------------------------- MODULE EmailOutbox ----------------------------
(***************************************************************************)
(* The email outbox (services/email/outbox.py): a request writes a message *)
(* in its own transaction; the mail job of some process locks a batch of   *)
(* the messages that are due, sends them one by one and commits once.      *)
(*                                                                         *)
(* The wait before the next attempt (1, 5, 15, 60 minutes) is left open: a *)
(* batch is any of the messages that are queued and not locked.            *)
(***************************************************************************)
EXTENDS Naturals, FiniteSets

CONSTANTS
  Messages,
  Mailers,      \* processes that run the mail job
  MaxAttempts,  \* MAX_ATTEMPTS
  MailBatch,    \* _BATCH
  MaxLosses     \* bound: mail jobs that die or raise, and answers that are lost

ASSUME OutboxAssumption ==
  /\ Messages \subseteq Nat
  /\ MaxAttempts \in Nat \ {0}
  /\ MailBatch \in Nat \ {0}
  /\ MaxLosses \in Nat

VARIABLES
  row,      \* the committed rows
  holds,    \* the rows that each mail job has locked
  outcome,  \* what became of the rows a job has locked
  arrived,  \* how often each message has reached its recipient
  losses    \* jobs and answers that were lost so far

mailVars == <<row, holds, outcome, arrived, losses>>

-----------------------------------------------------------------------------
NoMessage == [status |-> "none", attempts |-> 0]

\* enqueue_email, and the commit of the request.
Enqueue(m) ==
  /\ row[m] = NoMessage
  /\ row' = [row EXCEPT ![m].status = "queued"]
  /\ UNCHANGED <<holds, outcome, arrived, losses>>

Queued == {m \in Messages : row[m].status = "queued"}

Locked == UNION {holds[w] : w \in Mailers}

\* Mutant of Claimable: the rows are read without a lock.
ClaimableUnlocked == Queued
\* FOR UPDATE SKIP LOCKED.
Claimable == Queued \ Locked

\* The job reads a batch of the rows that are due.
Claim(w) ==
  /\ holds[w] = {}
  /\ \E due \in SUBSET Claimable :
       /\ due # {}
       /\ Cardinality(due) <= MailBatch
       /\ holds' = [holds EXCEPT ![w] = due]
  /\ UNCHANGED <<row, outcome, arrived, losses>>

\* The next message of the batch.
IsNextMessage(w, m) ==
  /\ m \in holds[w]
  /\ outcome[w][m] = "none"
  /\ \A x \in holds[w] : x < m => outcome[w][x] # "none"

\* The mail server accepts the message, or does not.
Send(w, m, ok) ==
  /\ IsNextMessage(w, m)
  /\ outcome' = [outcome EXCEPT ![w][m] = IF ok THEN "accepted" ELSE "refused"]
  /\ arrived' = [arrived EXCEPT ![m] = IF ok THEN @ + 1 ELSE @]
  /\ UNCHANGED <<row, holds, losses>>

\* It accepts the message and its answer is lost: the attempt has failed.
SendUnanswered(w, m) ==
  /\ losses < MaxLosses
  /\ IsNextMessage(w, m)
  /\ losses' = losses + 1
  /\ outcome' = [outcome EXCEPT ![w][m] = "refused"]
  /\ arrived' = [arrived EXCEPT ![m] = @ + 1]
  /\ UNCHANGED <<row, holds>>

\* Mutant of Settled: one attempt too many.
SettledLate(r, result) ==
  [attempts |-> r.attempts + 1,
   status |-> IF result = "accepted" THEN "sent"
              ELSE IF r.attempts > MaxAttempts THEN "failed" ELSE "queued"]
\* Mutant of Settled: the attempts are not counted.
SettledUncounted(r, result) ==
  [attempts |-> r.attempts,
   status |-> IF result = "accepted" THEN "sent"
              ELSE IF r.attempts + 1 > MaxAttempts THEN "failed" ELSE "queued"]
\* The row of a message after its attempt.
Settled(r, result) ==
  [attempts |-> r.attempts + 1,
   status |-> IF result = "accepted" THEN "sent"
              ELSE IF r.attempts + 1 >= MaxAttempts THEN "failed" ELSE "queued"]

Unlocked(w) ==
  /\ holds' = [holds EXCEPT ![w] = {}]
  /\ outcome' = [outcome EXCEPT ![w] = [m \in Messages |-> "none"]]

\* The one commit of the batch.
Commit(w) ==
  /\ holds[w] # {}
  /\ \A m \in holds[w] : outcome[w][m] # "none"
  /\ row' = [m \in Messages |-> IF m \in holds[w] THEN Settled(row[m], outcome[w][m])
                                ELSE row[m]]
  /\ Unlocked(w)
  /\ UNCHANGED <<arrived, losses>>

\* The job raises or its process dies: what it has sent is forgotten.
Lose(w) ==
  /\ losses < MaxLosses
  /\ holds[w] # {}
  /\ losses' = losses + 1
  /\ Unlocked(w)
  /\ UNCHANGED <<row, arrived>>

-----------------------------------------------------------------------------
MailInit ==
  /\ row = [m \in Messages |-> NoMessage]
  /\ holds = [w \in Mailers |-> {}]
  /\ outcome = [w \in Mailers |-> [m \in Messages |-> "none"]]
  /\ arrived = [m \in Messages |-> 0]
  /\ losses = 0

SendNext(w) == \E m \in Messages : SendUnanswered(w, m) \/ \E ok \in BOOLEAN : Send(w, m, ok)

MailNext ==
  \/ \E m \in Messages : Enqueue(m)
  \/ \E w \in Mailers : Claim(w) \/ SendNext(w) \/ Commit(w) \/ Lose(w)

\* The job runs every 30 seconds; a mail server answers or times out.
MailFairness == \A w \in Mailers : WF_mailVars(Claim(w) \/ SendNext(w) \/ Commit(w))

MailSpec == MailInit /\ [][MailNext]_mailVars
MailFairSpec == MailSpec /\ MailFairness

-----------------------------------------------------------------------------
(* Properties.                                                             *)

\* Every variable keeps its type; no message has more attempts than allowed.
MailTypeOK ==
  /\ row \in [Messages -> [status: {"none", "queued", "sent", "failed"},
                           attempts: 0 .. MaxAttempts]]
  /\ holds \in [Mailers -> SUBSET Messages]
  /\ outcome \in [Mailers -> [Messages -> {"none", "accepted", "refused"}]]
  /\ arrived \in [Messages -> Nat]
  /\ losses \in 0 .. MaxLosses

\* "Two workers never send the same message": a message arrives again only
\* where a job has been lost with what it had sent, or an answer has.
OnceUnlessLost == \A m \in Messages : arrived[m] <= 1 + losses

\* A message that is settled as sent or failed is never sent again.
SettledIsFinal == [][\A m \in Messages :
  row[m].status \in {"sent", "failed"} =>
    row'[m] = row[m] /\ arrived'[m] = arrived[m]]_mailVars

\* "Delivery retries up to MAX_ATTEMPTS, then the row stays failed": every
\* message that is queued is sent or given up in the end.
EveryMessageEnds == \A m \in Messages :
  row[m].status = "queued" ~> row[m].status \in {"sent", "failed"}

=============================================================================
