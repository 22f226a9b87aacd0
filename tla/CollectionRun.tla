--------------------------- MODULE CollectionRun ---------------------------
(***************************************************************************)
(* Collection of the monitoring sources: the scheduler tick                *)
(* (scheduler/jobs.py), one run of a source                                *)
(* (services/monitoring/collection_orchestrator.py) and the health of a    *)
(* source (source_health_manager.py).                                      *)
(*                                                                         *)
(* Every run has a session of its own and one transaction: it reads the    *)
(* source row at its start and writes the columns that differ from what it *)
(* read when it ends, so a run that was overtaken writes over newer counts.*)
(* The scheduler's runs are kept apart by the tick's advisory lock, those  *)
(* an operator asks for by the row of a run in progress alone.             *)
(*                                                                         *)
(* What a run collects is left out: devices, sensors, alerts (see          *)
(* AlertCorrelation) and the failover round (see FailoverDetector) share   *)
(* its transaction.  The sources are those that are active and whose       *)
(* tenant has a subscription; the per-source rate limiter is off, as it is *)
(* by default.                                                             *)
(***************************************************************************)
EXTENDS Integers, FiniteSets, Sequences

CONSTANTS
  Sources,
  Processes,       \* workers of the API, each with a scheduler
  Slots,           \* collection slots (the semaphore) of all processes
  Requests,        \* sync requests of operators that can be at work
  Home,            \* the process of each slot and request
  Nobody,          \* the holder of the free lock, the source of no run
  DegradedThreshold,
  RecoverySuccesses

Runs == Slots \cup Requests

ASSUME CollectionAssumption ==
  /\ Nobody \notin Sources \cup Processes
  /\ Slots \cap Requests = {}
  /\ Home \in [Runs -> Processes]
  /\ DegradedThreshold \in Nat \ {0}
  /\ RecoverySuccesses \in Nat \ {0}

VARIABLES
  source,  \* the health columns of each source row
  due,     \* the sources whose poll interval has elapsed since last_sync_at
  lock,    \* the process that holds the tick's advisory lock
  queue,   \* the due sources of a process's tick that wait for a slot
  run,     \* what each run has not committed, or is publishing
  rows     \* the statuses of the run rows of each source that are committed

vars == <<source, due, lock, queue, run, rows>>

-----------------------------------------------------------------------------
(* Health of a source.                                                     *)

Max2(a, b) == IF a > b THEN a ELSE b

\* Bound: a counter stops one above the larger threshold.
Enough == Max2(DegradedThreshold, RecoverySuccesses) + 1
More(k) == IF k < Enough THEN k + 1 ELSE k

\* Mutant of Succeeded: a success takes one failure back.
SucceededDecays(row) ==
  [health |-> IF row.health = "degraded" /\ More(row.successes) >= RecoverySuccesses
              THEN "healthy" ELSE row.health,
   failures |-> row.failures - 1,
   successes |-> More(row.successes)]
\* Mutant of Succeeded: a source recovers at the threshold, not from it on.
SucceededAtOnce(row) ==
  [health |-> IF row.health = "degraded" /\ More(row.successes) = RecoverySuccesses
              THEN "healthy" ELSE row.health,
   failures |-> 0,
   successes |-> More(row.successes)]
\* evaluate_and_update after a run that succeeded.
Succeeded(row) ==
  [health |-> IF row.health = "degraded" /\ More(row.successes) >= RecoverySuccesses
              THEN "healthy" ELSE row.health,
   failures |-> 0,
   successes |-> More(row.successes)]

\* Mutant of Failed: a source degrades at the threshold, not from it on.
FailedAtOnce(row) ==
  [health |-> IF row.health = "healthy" /\ More(row.failures) = DegradedThreshold
              THEN "degraded" ELSE row.health,
   failures |-> More(row.failures),
   successes |-> 0]
\* evaluate_and_update after a run that failed.
Failed(row) ==
  [health |-> IF row.health = "healthy" /\ More(row.failures) >= DegradedThreshold
              THEN "degraded" ELSE row.health,
   failures |-> More(row.failures),
   successes |-> 0]

\* The row a run in status s leaves of a row.
Evaluated(row, s) ==
  CASE s = "success" -> Succeeded(row)
    [] s = "error" -> Failed(row)
    [] OTHER -> row

-----------------------------------------------------------------------------
(* Runs.                                                                   *)

New == [health |-> "healthy", failures |-> 0, successes |-> 0]

Idle == [pc |-> "idle", of |-> Nobody, saw |-> New, status |-> "none"]

At(r, pc) == run[r].pc = pc

\* A transaction is open.
InFlight(r) == run[r].pc \in {"collecting", "written"}

\* A run that is skipped leaves the source row as it is.
Skipped(s) == [pc |-> "written", of |-> s, saw |-> New, status |-> "skipped"]

\* CollectionOrchestrator.run up to the collector.  The row of the run is
\* committed with its outcome only, so the guard never sees one in progress.
Begin(r, s) ==
  run' = [run EXCEPT ![r] = IF "running" \in rows[s] THEN Skipped(s)
                            ELSE [pc |-> "collecting", of |-> s, saw |-> source[s],
                                  status |-> "running"]]

\* An operator asks for a sync; it is not asked whether the source is due.
Sync(r, s) ==
  /\ r \in Requests
  /\ At(r, "idle")
  /\ Begin(r, s)
  /\ UNCHANGED <<source, due, lock, queue, rows>>

\* A slot of the semaphore is free: _run_bounded takes a source of the tick.
Collect(r, s) ==
  /\ r \in Slots
  /\ At(r, "idle")
  /\ s \in queue[Home[r]]
  /\ queue' = [queue EXCEPT ![Home[r]] = @ \ {s}]
  /\ Begin(r, s)
  /\ UNCHANGED <<source, due, lock, rows>>

\* The run ends: its row is finished and the health columns are flushed,
\* which waits for another run that has flushed the same row.
Finish(r, status) ==
  /\ At(r, "collecting")
  /\ \A q \in Runs : At(q, "written") => run[q].of # run[r].of
  /\ run' = [run EXCEPT ![r] = [pc |-> "written", of |-> @.of, saw |-> @.saw,
                                status |-> status]]
  /\ UNCHANGED <<source, due, lock, queue, rows>>

\* What the UPDATE leaves: a column that is as the run read it is not written.
Written(r) ==
  LET now == source[run[r].of]
      new == Evaluated(run[r].saw, run[r].status)
  IN  [f \in DOMAIN new |-> IF new[f] = run[r].saw[f] THEN now[f] ELSE new[f]]

\* Mutant of Synced: a failure is not a sync.
SyncedBySuccess == {"success"}
\* The outcomes that set last_sync_at.
Synced == {"success", "error"}

\* The transition the run has seen, if any, is published after the commit.
Commit(r) ==
  /\ At(r, "written")
  /\ source' = [source EXCEPT ![run[r].of] = Written(r)]
  /\ rows' = [rows EXCEPT ![run[r].of] = @ \cup {run[r].status}]
  /\ due' = IF run[r].status \in Synced THEN due \ {run[r].of} ELSE due
  /\ run' = [run EXCEPT ![r] =
       IF Evaluated(run[r].saw, run[r].status).health # run[r].saw.health
       THEN [@ EXCEPT !.pc = "committed"] ELSE Idle]
  /\ UNCHANGED <<lock, queue>>

\* SOURCE_RECOVERED or SOURCE_HEALTH_DEGRADED, or its publication failed.
Publish(r) ==
  /\ At(r, "committed")
  /\ run' = [run EXCEPT ![r] = Idle]
  /\ UNCHANGED <<source, due, lock, queue, rows>>

\* A statement fails, in the run itself or in the failover hook: the session
\* takes no further statement, and nothing of the run is committed.
Lose(r) ==
  /\ InFlight(r)
  /\ run' = [run EXCEPT ![r] = Idle]
  /\ UNCHANGED <<source, due, lock, queue, rows>>

-----------------------------------------------------------------------------
(* The scheduler.                                                          *)

\* last_sync_at + poll_interval_seconds has passed.
PollElapses(s) ==
  /\ s \notin due
  /\ due' = due \cup {s}
  /\ UNCHANGED <<source, lock, queue, run, rows>>

Busy(p) == queue[p] # {} \/ \E r \in Slots : Home[r] = p /\ run[r] # Idle

\* Mutant of MayTick: the lock is not asked for.
MayTickUnlocked(p) == ~ Busy(p)
\* pg_try_advisory_lock; a process has one tick at a time (max_instances=1).
MayTick(p) == lock = Nobody /\ ~ Busy(p)

\* The tick takes the lock and lists the due sources.
Tick(p) ==
  /\ MayTick(p)
  /\ due # {}
  /\ lock' = p
  /\ queue' = [queue EXCEPT ![p] = due]
  /\ UNCHANGED <<source, due, run, rows>>

\* gather() returns when every due source has been collected.
Gathered(p) == ~ Busy(p)

TickEnds(p) ==
  /\ lock = p
  /\ Gathered(p)
  /\ lock' = Nobody
  /\ UNCHANGED <<source, due, queue, run, rows>>

\* A process dies: its transactions and its lock are the server's to undo.
Crash(p) ==
  /\ lock' = IF lock = p THEN Nobody ELSE lock
  /\ queue' = [queue EXCEPT ![p] = {}]
  /\ run' = [r \in Runs |-> IF Home[r] = p THEN Idle ELSE run[r]]
  /\ UNCHANGED <<source, due, rows>>

-----------------------------------------------------------------------------
Init ==
  /\ source = [s \in Sources |-> New]
  /\ due = Sources
  /\ lock = Nobody
  /\ queue = [p \in Processes |-> {}]
  /\ run = [r \in Runs |-> Idle]
  /\ rows = [s \in Sources |-> {}]

CollectAny(r) == \E s \in Sources : Collect(r, s)
Outcomes == {"success", "error"}
FinishAny(r) == \E status \in Outcomes : Finish(r, status)

Next ==
  \/ \E s \in Sources : PollElapses(s) \/ \E r \in Runs : Sync(r, s)
  \/ \E p \in Processes : Tick(p) \/ TickEnds(p) \/ Crash(p)
  \/ \E r \in Runs : CollectAny(r) \/ FinishAny(r) \/ Commit(r) \/ Publish(r) \/ Lose(r)

\* Collectors time out and PostgreSQL hands row locks on in order (SF), the
\* jobs run again and again, time passes.  That runs are lost, and processes
\* die, only so often is assumed.
Fairness ==
  /\ \A s \in Sources : WF_vars(PollElapses(s))
  /\ \A p \in Processes :
       /\ SF_vars(Tick(p))
       /\ WF_vars(TickEnds(p))
       /\ <>[][Crash(p) => TickEnds(p) \/ \E r \in Runs : Commit(r) \/ Publish(r)]_vars
  /\ \A r \in Runs :
       /\ WF_vars(CollectAny(r))
       /\ SF_vars(FinishAny(r))
       /\ WF_vars(Commit(r) \/ Publish(r))
       /\ <>[][Lose(r) => Commit(r)]_vars

Spec == Init /\ [][Next]_vars
FairSpec == Spec /\ Fairness

-----------------------------------------------------------------------------
(* Properties.                                                             *)

Health == [health: {"healthy", "degraded"}, failures: 0 .. Enough, successes: 0 .. Enough]

Statuses == Outcomes \cup {"running", "skipped"}

\* Every variable keeps its type.
TypeOK ==
  /\ source \in [Sources -> Health]
  /\ due \subseteq Sources
  /\ lock \in Processes \cup {Nobody}
  /\ queue \in [Processes -> SUBSET Sources]
  /\ run \in [Runs -> [pc: {"idle", "collecting", "written", "committed"},
                       of: Sources \cup {Nobody}, saw: Health,
                       status: Statuses \cup {"none"}]]
  /\ rows \in [Sources -> SUBSET Statuses]

\* "Only one worker actually runs the collection loop": the scheduler never
\* collects a source twice at a time, with any number of processes, crashes
\* and runs that outlast the poll interval.
OneScheduledRun == \A r, q \in Slots :
  r # q /\ InFlight(r) /\ InFlight(q) => run[r].of # run[q].of

\* "There should be at most one running row per source".
OneRunPerSource == \A r, q \in Runs :
  r # q /\ InFlight(r) /\ InFlight(q) => run[r].of # run[q].of

\* A source that is due is collected in the end, whatever the others do.
DueIsCollected == \A s \in Sources : s \in due ~> s \notin due

\* From some point on, no run of s ends as `status`.
NoMore(s, status) == <>[][\A r \in Runs : run[r].of = s => ~ Finish(r, status)]_vars

\* A source whose runs succeed from some point on is healthy in the end,
\* whatever runs that overlapped have left in its counters.
Recovers == \A s \in Sources : NoMore(s, "error") => <>[](source[s].health = "healthy")

\* And one whose runs fail is degraded in the end.
Degrades == \A s \in Sources : NoMore(s, "success") => <>[](source[s].health = "degraded")

=============================================================================
