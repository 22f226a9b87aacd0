-------------------------- MODULE IncidentNotices --------------------------
(***************************************************************************)
(* Incident notifications (services/notifications/dispatcher.py).          *)
(*                                                                         *)
(* The notification job of every process finds the incidents of the last   *)
(* day, tells each channel of an opening and of a resolution, and records  *)
(* what it has told; one transaction covers a tenant's whole pass.  A post *)
(* (Slack, PagerDuty) is out as soon as it is made; an email is a row of   *)
(* the outbox (see EmailOutbox), written in the same transaction.          *)
(*                                                                         *)
(* One tenant, whose channels stay enabled, and at most one recipient of   *)
(* its emails: the settings may name none, and a process may have no email *)
(* configured.  The incidents are those severe enough for every channel.   *)
(* enqueue_email flushes, so that a pass whose email collides waits there  *)
(* for the other and fails there already; here it fails when it ends, and  *)
(* every interleaving of the code is one of the model's.                   *)
(***************************************************************************)
EXTENDS Naturals, FiniteSets

CONSTANTS
  Incidents,    \* by their opened_at, a vendor's time; recorded in any order
  Channels,     \* "email" and those that are posts
  Dispatchers,  \* processes that run the notification job
  MaxTries,     \* MAX_ATTEMPTS of a notification
  Batch         \* incidents that a pass looks at

ASSUME NoticesAssumption ==
  /\ Incidents \subseteq Nat
  /\ "email" \in Channels
  /\ MaxTries \in Nat \ {0}
  /\ Batch \in Nat \ {0}

VARIABLES
  incident,  \* what a pass can find of each incident
  notice,    \* the committed notification rows
  emails,    \* how many committed outbox rows there are of each notification
  told,      \* the posts that were made
  pass       \* the transaction of each notification job

vars == <<incident, notice, emails, told, pass>>

-----------------------------------------------------------------------------
(* Incidents.  One is "past" once LOOKBACK has gone by since it was opened *)
(* or resolved; that an opening is past before its resolution is left out. *)

OpenIncident(i) ==
  /\ incident[i] = "unknown"
  /\ incident' = [incident EXCEPT ![i] = "open"]
  /\ UNCHANGED <<notice, emails, told, pass>>

ResolveIncident(i) ==
  /\ incident[i] = "open"
  /\ incident' = [incident EXCEPT ![i] = "resolved"]
  /\ UNCHANGED <<notice, emails, told, pass>>

InWindow == {i \in Incidents : incident[i] \in {"open", "resolved"}}

LeaveWindow(i) ==
  /\ i \in InWindow
  /\ incident' = [incident EXCEPT ![i] = "past"]
  /\ UNCHANGED <<notice, emails, told, pass>>

-----------------------------------------------------------------------------
(* The notification job.                                                   *)

\* (incident, channel, event): one row each (a unique constraint).
Keys == Incidents \X Channels \X {"opened", "resolved"}
Opening(k) == <<k[1], k[2], "opened">>

NoRow == [status |-> "none", tries |-> 0]
NoRows == [k \in Keys |-> NoRow]

Resting == [pc |-> "idle", left |-> {}, read |-> NoRows, rows |-> NoRows, mails |-> {}]

\* The oldest incidents of the window.
Found == {i \in InWindow : Cardinality({x \in InWindow : x < i}) < Batch}

\* dispatch_tenant: the incidents, and the rows there are of them.
StartPass(d) ==
  /\ pass[d].pc = "idle"
  /\ Found # {}
  /\ LET seen == [k \in Keys |-> IF k[1] \in Found THEN notice[k] ELSE NoRow]
     IN  pass' = [pass EXCEPT ![d] =
           [pc |-> "telling", read |-> seen, rows |-> seen, mails |-> {},
            left |-> {k \in Keys : /\ k[1] \in Found
                                   /\ k[3] = "resolved" => incident[k[1]] = "resolved"}]]
  /\ UNCHANGED <<incident, notice, emails, told>>

\* Mutant of IsOwed: a resolution is told whether the opening was or not.
IsOwedAnyway(rows, k) == rows[k].status # "sent" /\ rows[k].tries < MaxTries
\* Mutant of IsOwed: what fails is tried again and again.
IsOwedForever(rows, k) ==
  /\ k[3] = "resolved" => rows[Opening(k)].status = "sent"
  /\ rows[k].status # "sent"
\* The pass has to tell of k: a resolution only to a channel that was told of
\* the opening; not what is sent, nor what was tried often enough.
IsOwed(rows, k) ==
  /\ k[3] = "resolved" => rows[Opening(k)].status = "sent"
  /\ rows[k].status # "sent"
  /\ rows[k].tries < MaxTries

\* The key a pass is at, of those it still owes: by incident, email before the
\* posts, and an opening before its resolution.
Owed(d) == {k \in pass[d].left : IsOwed(pass[d].rows, k)}
IsNext(d, k) ==
  /\ k \in Owed(d)
  /\ \A x \in Owed(d) :
       /\ k[1] <= x[1]
       /\ x[1] = k[1] /\ x[2] = "email" => k[2] = "email"
       /\ k[3] = "resolved" => x # Opening(k)

\* How an attempt ends: "disabled" is EmailDisabled, which retrying cannot help.
Outcomes == {"sent", "failed", "disabled"}

\* What a pass is after k was delivered, or the attempt has failed.
Delivered(p, k, outcome) ==
  [pc |-> "telling",
   left |-> p.left \ {k},
   read |-> p.read,
   rows |-> [p.rows EXCEPT ![k] =
               [status |-> IF outcome = "sent" THEN "sent" ELSE "failed",
                tries |-> IF outcome = "disabled" THEN MaxTries ELSE @.tries + 1]],
   mails |-> IF k[2] = "email" /\ outcome = "sent" THEN p.mails \cup {k} ELSE p.mails]

\* _deliver.  A post can be made although its answer is an error or lost; an
\* email fails for want of a recipient, or of a configured transport.
Deliver(d, k, outcome, reached) ==
  LET mail == k[2] = "email"
  IN  /\ IF mail THEN reached <=> outcome = "sent"
                 ELSE outcome # "disabled" /\ (outcome = "sent" => reached)
      /\ IsNext(d, k)
      /\ pass' = [pass EXCEPT ![d] = Delivered(@, k, outcome)]
      /\ told' = IF reached /\ ~ mail THEN told \cup {k} ELSE told
      /\ UNCHANGED <<incident, notice, emails>>

\* Mutant of Collides: no unique constraint.
CollidesNever(d) == FALSE
\* Mutant of Collides: a row that is there is never updated.
CollidesAlways(d) == \E k \in Keys : pass[d].rows[k] # NoRow /\ notice[k] # NoRow
\* A row this pass inserts is there by now.
Collides(d) == \E k \in Keys :
  /\ pass[d].read[k] = NoRow
  /\ pass[d].rows[k] # NoRow
  /\ notice[k] # NoRow

\* What the pass leaves of row k: an UPDATE writes the columns it changed.
Kept(d, k) ==
  LET old == pass[d].read[k]
      new == pass[d].rows[k]
  IN  [f \in DOMAIN new |-> IF new[f] = old[f] THEN notice[k][f] ELSE new[f]]

\* Bound: two are too many, further ones are not counted.
Another(n) == IF n < 2 THEN n + 1 ELSE n

\* The flush and the commit, which fail as a whole when a row collides.
EndPass(d) ==
  /\ pass[d].pc = "telling"
  /\ Owed(d) = {}
  /\ IF Collides(d)
     THEN UNCHANGED <<notice, emails>>
     ELSE /\ notice' = [k \in Keys |-> Kept(d, k)]
          /\ emails' = [k \in Keys |-> IF k \in pass[d].mails THEN Another(emails[k]) ELSE emails[k]]
  /\ pass' = [pass EXCEPT ![d] = Resting]
  /\ UNCHANGED <<incident, told>>

\* The job raises or its process dies: the posts it made stay made.
LosePass(d) ==
  /\ pass[d].pc = "telling"
  /\ pass' = [pass EXCEPT ![d] = Resting]
  /\ UNCHANGED <<incident, notice, emails, told>>

-----------------------------------------------------------------------------
Init ==
  /\ incident = [i \in Incidents |-> "unknown"]
  /\ notice = NoRows
  /\ emails = [k \in Keys |-> 0]
  /\ told = {}
  /\ pass = [d \in Dispatchers |-> Resting]

Tell(d) == \E k \in Owed(d), outcome \in Outcomes, reached \in BOOLEAN :
  Deliver(d, k, outcome, reached)

Next ==
  \/ \E i \in Incidents : OpenIncident(i) \/ ResolveIncident(i) \/ LeaveWindow(i)
  \/ \E d \in Dispatchers : StartPass(d) \/ Tell(d) \/ EndPass(d) \/ LosePass(d)

\* The job runs every 30 seconds and a post is answered or times out.  That a pass
\* is lost only so often is assumed.
Fairness ==
  /\ \A d \in Dispatchers :
       /\ WF_vars(StartPass(d) \/ Tell(d) \/ EndPass(d))
       /\ <>[][LosePass(d) => EndPass(d)]_vars

Spec == Init /\ [][Next]_vars
FairSpec == Spec /\ Fairness

-----------------------------------------------------------------------------
(* Properties.                                                             *)

Rows == [status: {"none", "failed", "sent"}, tries: 0 .. MaxTries]

\* Every variable keeps its type; nothing is tried more often than allowed.
TypeOK ==
  /\ incident \in [Incidents -> {"unknown", "open", "resolved", "past"}]
  /\ notice \in [Keys -> Rows]
  /\ emails \in [Keys -> 0 .. 2]
  /\ told \subseteq Keys
  /\ pass \in [Dispatchers -> [pc: {"idle", "telling"}, left: SUBSET Keys,
                               read: [Keys -> Rows], rows: [Keys -> Rows],
                               mails: SUBSET Keys]]

\* However the jobs of several processes overlap, are lost and repeat, an incident
\* is emailed twice of an event only where an attempt had failed before: where the
\* first committed attempt queued the email, it stays the only one.
OneEmail == \A k \in Keys : emails[k] > 1 => notice[k].tries > 1

\* "Nobody gets a resolved for an incident they never saw": no channel that
\* is posted to does.
ResolvedAfterOpened == \A k \in told : Opening(k) \in told

\* Every incident within its day is told of to every channel, or its
\* attempts are used up, or the day passes first.
EveryoneIsTold == \A i \in Incidents, c \in Channels :
  incident[i] = "open" ~>
    \/ notice[<<i, c, "opened">>].status = "sent"
    \/ notice[<<i, c, "opened">>].tries = MaxTries
    \/ incident[i] = "past"

(* What the dispatcher's docstring says and the code does not do.          *)

\* "Delivers each (incident, channel, event) once": two passes that overlap both
\* retry what failed before, and neither collides: the row is there.
EmailedOnce == \A k \in Keys : emails[k] <= 1

=============================================================================
