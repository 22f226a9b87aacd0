# Verification of the operations core

HSDEEP CORE AI is a multi-tenant AIOps platform: collectors poll monitoring
sources, readings become alerts, alerts are correlated into incidents, incidents
trigger analysis and procedures, procedures ask devices to act, people approve,
and tasks are given to virtual agents. This directory holds TLA+ models of the
parts where several processes write the same rows, the configurations that
check them with TLC, and proofs of the main results with TLAPS.

Run `tlc -config <run>.cfg <module>` for a run of the table below and
`tlapm <module>` for the proofs. Paths are relative to `src/backend/app/`
unless they start with `src/`.

## 1. Inventory

The Python backend (575 files) is the program; the frontend, migrations,
deployment and scripts surround it. It runs as one or more FastAPI processes and
one or more workers over PostgreSQL and Redis. Processes never call each other:
they interact through rows, row locks, advisory locks and one Redis stream.

| Component | State it keeps | Operations | What is hard | What makes it correct |
|---|---|---|---|---|
| Task lifecycle, approval gate, agent workload | `Task` rows (status, assignee, approval, retries, audit log), `Agent.current_workload` | create, assign, route, accept, investigate, execute, call a tool, verify, record, fail, retry, escalate, reassign, cancel, ask for / give / refuse approval | the row lock and the copies taken before it; counters written back without a lock; a tool call under a row lock | gated work runs only when cleared, once; decisions and final states stand; the audit log tells the status |
| Event bus and shared transport | stream, group, pending list, attempts, done keys, dead letters; per process a batch | publish, fall back, claim, read, dispatch, record, dead-letter, acknowledge | crashes between commands, slow handlers, a second consumer, trimming | no delivered event is forgotten; recorded handlers are not run again; every event is settled |
| Alerts and incidents | `Alert` and `Incident` rows, the created-incident list of a transaction | evaluate, correlate, clear, acknowledge, resolve, move, sweep, trigger RCA | read-then-insert races, unique indexes and savepoints, stale lists | one active alert per probe, one open incident per signature, right grouping, suppression without cycles |
| SOP automation and device actions | `SOPExecution`, `DeviceActionRequest`, approval rows; the runner's copy of the row | start, run a step, pause, resume in three ways, request, approve, deny, execute, replay | two transactions per action, approvals that race the pause, redelivery, crashes around the provider call | an action runs at most once and only if allowed; reports are true; a decision is followed |
| Scheduler | session advisory locks 91827364, -65, -66 | ten interval jobs in every process | shared keys, overlapping ticks, a process that dies with a lock | one holder per job; a job never starves another |
| Task dispatch, scheduled discovery | nothing of their own; one advisory lock for both | assign queued tasks in batches, probe the scopes that are due | copies of the listing, rollback in the middle of a batch, the batch's order, the shared lock | a task is assigned once; one bad task or probe does not stop the rest |
| Collection runs, source health | `CollectorRun`, health and backoff columns | tick, collect, finish, degrade, recover, back off | check-then-create of the running run, counters written back by runs that overlap, restarts | one scheduled run per source; a due source is collected; health follows the runs |
| Email outbox | `EmailOutbox` | enqueue, send, retry, fail | send before commit, one commit per batch, two workers | sent once unless something was lost; settled for good; never stuck |
| Incident notifications | `IncidentNotification` | find, deliver, retry | passes that overlap and commit as a whole, posts that cannot be undone | told once; opened before resolved; nobody is left out |
| Incident lifecycle, autonomous lifecycle | `Incident.status`, in-process waits | validated transitions, auto-close, validation of recovery | two writers with different rules | the transition table |
| Failover intelligence | detector baseline, failover events | detect, open, escalate, abort, recover, verify | rounds that overlap, a lost baseline, the counters over rounds | an outage is on record, once; every episode ends |
| ServiceNow / ITSM sync | sync jobs, links, conflicts | push, pull, webhook, retry | claim of jobs, push against pull, replay | nothing is lost or applied twice; conflicts are seen |
| Workflow engine | `WorkflowExecution` | tick, approve, retry, cancel | several ticks of one execution | the state machine of its docstring |
| Tickets | `Ticket`, history | guarded transitions | table against docstring | the table |
| Audit chain | hash links per tenant | record, link, seal, verify | savepoints, a lock kept to the end of the transaction, a check beside writers | one chain without forks; changes show, and only they; every event is linked |
| Metering and billing | buffered counters, subscriptions | record, flush, meter | retry of a flush | counted once |
| Authentication, export, offboarding | sessions, tokens, tenant deletion | rotate, revoke, schedule, purge | expiry against use | revoked stays revoked |
| Collectors, savers, intelligence, topology, read models, AI, providers, frontend | derived rows, or none | read, score, show | data, not interleaving | outside these models |

How they interact: a collection run evaluates sensors through `AlertService`
in its own transaction, commits and hands the incidents it created to the RCA
trigger, which publishes to the event bus; consumers run in the runtime modes
`worker` and `all`. SOP steps ask the device action service, which commits in a
session of its own; the device action route resumes the execution after an
approval. Tasks are created by the command centre and routes, and assigned by
routes or by the dispatch tick. The notification job reads incidents and writes
emails into the outbox, which the mail job empties. The failover round runs
inside the transaction of a collection run. Every service records what it did
in the audit log, and the sealing job links what they could not.

`PROJECT.json` lists every component with its sources and status and, under
"hazards", what in this code is hard to test, at its line.

## 2. The modules

| Module | Models | Shape |
|---|---|---|
| `TaskLifecycle` | `services/task_service.py`, `api/routes/tasks.py`, the two repositories | requests over one row per task |
| `ApprovalGate` | the abstract promise of the approval boundary | what `TaskLifecycle` implements (`GateSpec`) |
| `EventTransport` | `services/events/redis_transport.py`, `event_bus.py` | one action per Redis command |
| `AlertCorrelation` | `services/alert_service.py`, `services/alerting/*`, the repositories, incident routes | one transaction per worker, in steps |
| `SopAutomation` | `services/automation_runner.py`, `services/device_action_service.py`, the approve route | one runner or request per worker, in steps |
| `TaskDispatch` | `scheduler/task_dispatch.py`, `scheduler/discovery_jobs.py`, `services/task_routing.py` | two jobs of every process over one lock |
| `CollectionRun` | `scheduler/jobs.py`, `services/monitoring/collection_orchestrator.py`, `source_health_manager.py` | ticks, slots and requests, a transaction per run |
| `FailoverDetector` | `services/failover_intelligence/detector.py`, `verification.py`, `lifecycle.py` | one site edge, a round per collection run |
| `IncidentNotices` | `services/notifications/dispatcher.py` | one transaction per pass, in steps |
| `EmailOutbox` | `services/email/outbox.py` | a locked batch per mail job |
| `AuditChain` | `services/audit_chain.py`, `services/audit_service.py` | transactions with savepoints, a sealing job, a check |
| `MC*` | small sets and symmetry for TLC | |
| `*Proofs` | theorems about the module of that name; `NotificationProofs` about `IncidentNotices` and `EmailOutbox`, `CollectionProofs` about `CollectionRun` and `FailoverDetector` | |

### What is common to them: the database

All models rest on the same reading of SQLAlchemy over PostgreSQL:

- **READ COMMITTED.** A statement sees what is committed when it starts. A row
  an open transaction has updated blocks other updates and `FOR UPDATE` reads
  until it ends; it does not block plain reads.
- **Identity map.** `AsyncSessionLocal` sets `expire_on_commit=False`
  (`core/db.py`), so an object loaded earlier in a session, if something still
  refers to it, is returned as it was by a later query of the same row,
  `FOR UPDATE` included: `populate_existing` is not used there. The map is weak,
  so a copy nobody refers to is read afresh. The reassign route keeps its copy
  (`previous`) and the assign route's check drops it; the models differ there.
- **UPDATE writes what changed.** Only columns whose value differs from the loaded
  one are written. A JSON column such as `audit_log` is one value and is written whole.
- **A partial unique index** makes an INSERT wait for an uncommitted one of the
  same key and then fail, or go on if that one rolled back.
- **No implicit commit.** `get_db` closes the session; what a handler did not
  commit is rolled back, and so is everything on an exception.
- **A rollback expires every loaded instance**, and after a failed statement the
  session takes no further one. What is read next raises (`AbortTick`, `Lose`).
- **Advisory locks.** A session lock (`pg_try_advisory_lock`, the scheduler's) is
  tried, not waited for, and goes when its connection does. A transaction lock
  (`pg_advisory_xact_lock`, the audit chain's) is waited for in order, and kept until the
  transaction ends; taken inside a savepoint that is rolled back, it is given up.

### TaskLifecycle

`row` is the committed task rows, `workload` the agents' counters, `session`
what each request in progress remembers. A request that locks the row first
(`FOR UPDATE`), validates and commits is one action, since nobody can see or
disturb its middle (`AcceptTask`, `StartExecution`, `CancelTask`, `Decide`, ...).
A request that reads something it does not lock is a session: `Open*` takes the
copy, `Lock*` takes the row lock, validates and computes the new row, `Commit`
flushes the changed columns (`Flush`). `LockWorker` is `run_worker_execution`: the
lock is held across the adapter call (pc "adapter"), which can fail
(`AdapterFails`). `RollBack` is for routes that do not commit, `Crash` for a
process that dies; the lock goes with it. The dispatch tick is one more writer of
the rows: `OpenTick` lists a created task, `LockTick` assigns the copy of the listing
whatever the row has become (`Autonomous` turns it on, as `AUTONOMOUS_TASK_ASSIGNMENT`
does). `audited` is the `to_status` of the last audit entry.

### EventTransport

One stream, one consumer group, every process with the same handlers. `Publish`
appends and trims; `PublishFails` is the fallback to the local queue, whether or not
Redis applied the command. A consumer claims (`Claim`), reads (`Read`), counts
the attempt (`Count`), asks for the done keys (`Dispatch`), has some handlers succeed
(`Outcome`), records them (`Record`), and acknowledges (`Ack`, `Clear`) or buries
(`Bury`). `Drop` is a batch lost to a crash or a Redis error, at any command. `Expire`
is `claim_idle_ms` passing: at any time, also while the message is being worked
on, since nothing limits a handler or a batch of 20 to those 30 seconds. `effects` is what
handlers really did, `done` what the keys say.

### AlertCorrelation

Every worker evaluates one probe in a transaction: `Evaluate` reads the active
alert, `Record` makes or updates it, `Open` or `Join` correlates it (with the
savepoint and the conflict on `uq_incidents_open_signature`), `CommitJoin` ends it,
or `CommitAlone` for an alert without device and site, which stays out of every incident
(`Located` has the probes whose alerts have one). A sensor's alert fired when it was
evaluated, a vendor's when the vendor says (`FiredAt`); of alerts that fired at the same
time the latest seen is the root cause, and which that is among equals is left open
(`SelectRootCause`). `Trigger` is the RCA of a created incident after the commit. `ClearAlert` and
`CommitClear` are `resolve_on_clear`. `SweepList` and `SweepClose` are the stale
sweep. Operators acknowledge and resolve alerts, and `MoveIncident` is what the
incident routes do. `now` counts correlation windows.

### SopAutomation

`executions` and `requests` are committed rows, `effects` counts provider calls, `worker` is an
event handler or request with its copy of the execution row. `Start`, `Lookup`,
`Ask`, `Call`, `Settle` run an auto step through the action service, in whose own
session `requests` is committed before the runner's row is. `StepDone`, `Pause`,
`StepFails`, `Finish` write the execution. `CompleteManual`, `ApproveGated`,
`DenyGated` are the human resumes, `Decide` claims an approval with the
conditional UPDATE of `claim_status`, `Find` and `Resume` continue a paused
execution. In the application only the approve route of device actions reaches
the runner: the event subscription and the two other resumes are wired by tests
alone. They are modelled as the code stands.

### TaskDispatch

`row` and `workload` are the committed tasks and counters, `key` the holder of
advisory lock 91827365, `tick` the dispatch tick of each process: the tasks it has
`left`, and the agent it chose last, whose load it remembers. `StartTick` takes the
lock and lists the batch, if `Autonomous`; the tasks stay loaded, so `Assign` (assign, count, commit)
finds every one of them still created whatever has happened since. `Choose` takes an agent of the `Shortlist`
that the candidate query returns, the least loaded `limit * 3` of those that could do the task, full ones
among them; `Skip` is a task for which none of it has room, `AbortTick` an
exception: the handler's rollback expires the listing, so its own log line raises
and the tick is over. `StartScan`, `Probe`, `EndScan` are the discovery job, which takes the
same lock. `CreateTask`, `CancelTask`, `CompleteTask` stand for
`TaskLifecycle`, one step each; an assignment by hand looks up the agent's room first (`CheckByHand`) and
assigns under the row lock (`AssignByHand`), so that others come between.

### CollectionRun

`source` holds the health columns, `run` what each run saw and is about to write, `rows`
the committed outcomes. `Tick` takes the lock and queues the due sources; `Collect` is a slot of
the semaphore taking one, `Sync` an operator's request. `Finish` flushes (and
waits for another run that has flushed the same row), `Commit` writes the
columns that differ from what the run read, `Publish` comes after. `Lose` is a
statement that fails: the whole run is gone. `Crash` frees lock, queue and runs of a process.
The row that says "running" is committed with the outcome only, so the
guard of `Begin` never sees one.

### FailoverDetector

One site edge. `Load` reads links, baseline and open episode; `CommitRound` applies the
action `Resolve` names to what the round read and writes changed columns. A round
that committed marks the others it overtook `stale`: the code has no such flag, it only
lets a property say whom it speaks of. `DropBaseline` is a round without candidate
links, `GiveUp` the 20-second limit, an exception or a crash.

### IncidentNotices and EmailOutbox

A pass snapshots the incidents and rows (`StartPass`), tells every key it owes in the order
of the loops (`Deliver`) and commits as a whole (`EndPass`), or not at all
when a row it inserts is there by then (`Collides`) or it is lost (`LosePass`): posts
stay made, rows and emails are undone. An attempt by email fails while the settings name no
recipient, and for good while no transport is configured (`Outcomes`). An email is a row of the outbox, where a mail job locks a batch
(`Claim`), sends one after the other (`Send`, `SendUnanswered`) and commits once
(`Commit`). The waits between attempts are left open.

### AuditChain

`chain` holds the committed links; a hash is modelled as what it covers, so that equal
hashes mean equal histories. `Record` inserts an event and opens the savepoint, `TakeLock`
takes the tenant's lock, `AppendLink` links, `LeaveUnlinked` rolls back the
savepoint; `Commit` and `RollBack` end the transaction and its locks. `StartSeal` takes
the lock and then reads what is unlinked. `StartCheck`, `CheckLink`, `EndCheck` walk the
links while all that goes on. `EditEvent` and `EditLink` are someone at the database;
they are there so that the check has something to find.

## 3. Runs

| Run | Instance | Question |
|---|---|---|
| `tasks_requests` | 1 task, 1 agent, 2 sessions, reassignment and tick with their stale copies | Do gate, lock and decisions hold between overlapping requests, does the model implement `ApprovalGate`, is every request answered? |
| `tasks_stale_reassign` (violation) | 1 task, 2 agents, 1 session that reassigns | Can a finished task come back? |
| `task_dispatch` | 2 processes, 3 tasks, 2 agents with room for one task each, a shortlist of 1, 1 request by hand, 1 scope | Is a task assigned once, no agent filled beyond its room by a tick; does every routable task and due scope get its turn? |
| `events_group` | 2 events, 2 consumers, 2 handlers of any speed, a trimmed stream, an invalid entry, a crash or an outage | Is anything forgotten or retried without bound; is every event settled? |
| `alerts_polled` | 2 pollers, a sensor, 2 sources of one signal, operators on the alerts | Do read-then-insert races leave duplicates? |
| `alerts_swept` | 1 poller, all probes and one whose alerts have no place, an operator who closes incidents, the clock and the sweep | Is suppression sound; does a stale incident end? |
| `sop_steps` | 3 procedures with every kind of step, 2 workers, 1 crash, 2 deliveries | Are actions single and allowed, reports true, decisions followed? |
| `collection_runs` | 1 source, 2 processes with a slot each, 1 operator, any number of crashes | Is a source collected once at a time and in the end; does health follow? |
| `failover_rounds` | 2 links, 4 things to see, 2 rounds, 2 episodes | Is an outage on record, once, and does every episode end? |
| `notices_jobs` | 1 incident, 2 channels, 2 jobs, 2 tries | Who is told twice, too early or never? |
| `email_outbox` | 3 messages, 2 mail jobs, batch 2, 2 attempts, 2 losses | Does a message arrive once, and end? |
| `audit_chain` | 3 events of 2 tenants, 2 requests, the sealing job, 1 edit | Is the chain whole, the check right, every event linked? |

What they show:

- **Tasks.** The row lock is enough for everything the routes read under it:
  no two workers run the tool of one task (`OneWorkerPerTask`), the committed row is
  cleared while one does (`GateHolds`). Reassignment, with its stale copy, still
  cannot undo a decision (`DecisionStands`), because the UPDATE leaves
  unchanged columns alone; writing the whole row, as the mutant does, breaks it.
  It can bring a finished task back (`NotResurrected`), and so can the dispatch tick: the two
  writers that validate a copy older than their lock, and no others (`TerminalIsFinal`). A tool call that
  never returns keeps every request on its task waiting, and no other (`Answered`).
- **Dispatch.** No tick looks again at a task it locks; that a task is assigned once
  (`RoutedOnce`) rests on the advisory lock alone. That a tick fills no agent beyond its capacity
  (`TicksKeepCapacity`) rests on its writing the load it judged, over whatever was counted meanwhile:
  the counter stays low because it loses updates, and the two together let people pass the limit
  (`WithinCapacity` below). A tick that ends in an exception
  or a crash gives the lock up, and the next one goes on (`RoutableIsRouted`). The two jobs
  share the key, so each liveness property has as its premise that its own job finds the lock free again
  and again; see below for what happens without it.
- **Events.** Delivery is at least once (`NothingForgotten`, `EventuallyHandled`);
  an attempt beyond the limit follows one that died under way, or runs beside another
  since a handler outlasted `claim_idle_ms` (`AttemptsBounded`). With such handlers two consumers do
  run one event at a time, and one may bury what the other has done: see `OneConsumer` and
  `DeadIsUnfinished` below.
- **Alerts.** Two pollers that both read "none" race to insert; the partial unique indexes
  make one of them wait and then fail or join (`OneActiveAlert`, `OneOpenIncident`). Suppression
  never goes in circles (`SuppressedByEarlier`), in whatever order members were recomputed, although
  vendors date their alerts back and alerts of one time take turns as the root cause, and whatever
  became of the alert that suppresses.
- **SOP.** An action is called at most once (`CalledOnce`) and only with its
  approval (`EffectsAreAllowed`), whatever crashes or is delivered again.
- **Collection.** The tick's lock keeps scheduled runs of a source apart (`OneScheduledRun`). Requested runs
  do overlap them and write counters over newer ones, column by column; since the
  state machine compares with "at least", health still follows what runs end with (`Recovers`). A
  comparison with "exactly", the mutant, never recovers.
- **Failover.** Rounds that overlap can open two episodes; a round nobody overtook
  does not (`OneEpisode`). Through lost baselines and mixed columns an outage is on record
  (`OutageIsRecorded`) and every episode ends (`EpisodesEnd`).
- **Notices and mail.** The unique row makes the second of two passes fail as a whole, so that
  of the first attempts one email is queued. A row that is there already, since an attempt had failed,
  is updated by both, and both queue an email: that is the one way to get two (`OneEmail`). No channel that is posted to hears of a resolution first
  (`ResolvedAfterOpened`). A message arrives again only where something was lost (`OnceUnlessLost`).
- **Audit.** The lock kept to the end of the transaction is what keeps the chain whole
  (`ChainIsWhole`), the savepoint is what lets a request go on, and the sealing job
  links the rest (`EventuallyLinked`). A check beside them raises no false alarm (`NoFalseAlarm`).

On the same instances also hold the type invariants of the other modules, `Grouped` (alerts_polled), `ActionOnce` (sop_steps), `AuditMatchesStatus` and
`ApprovedBeforeExecution` (tasks_requests) and `Degrades` (collection_runs); they are not among the
runs' properties.

### Disagreements seen on other instances

The modules also define the following properties. TLC shows each violated on the
instance named; they are kept as a record of what the code says of itself and have
no run of their own.

| Property | Instance | The code | What it says of itself |
|---|---|---|---|
| `AssignmentIsCounted` | 2 tasks, 1 agent, 2 sessions, no reassignment | `repositories/agent_repository.py:173` reads, adds in Python and writes back | line 170, "Atomically increment" |
| `WithinCapacity` | the same, `MaxWorkload` 1; also `task_dispatch` | `api/routes/tasks.py:201` checks before, not under, the assignment | lines 229-237, enforced "before any write" |
| `ToolFailureIsRecorded` | 1 task, 1 agent, 1 session | `services/task_service.py:634` flushes and raises; nobody commits | line 631, "Persist the audit entry" |
| `RouteIsKept` | the same | `api/routes/tasks.py:298` returns without a commit | line 286, "Auto-route a task" |
| `FinalStays`, `NotResurrected` | `task_dispatch`; `tasks_requests` without reassignment | `scheduler/task_dispatch.py:130` assigns the copy of the listing: a task cancelled meanwhile comes back | `repositories/task_repository.py:34-42`, "then reads the COMMITTED status and is refused" |
| `BacklogRuns` | 4 tasks, of which 3 and 4 only `a1` can do (`NewerAble`), batch 2, shortlist 2, 1 process, nobody by hand, no scope | `task_dispatch.py:108` lists the newest; an older task is never looked at | line 109, "dispatch is a queue, so serve the oldest work first (FIFO)" |
| `SucceededIsSkipped` | `events_group` | `services/events/redis_transport.py:202` records after the handlers ran | lines 17-18, "already succeeded ... skipped" |
| `OneConsumer` | `events_group` | `:168` claims a message that is being handled | lines 7-8, "handled by one consumer" |
| `DeadIsUnfinished` | `events_group` | `:210` buries an event whose handler failed in this consumer's late attempt, although the other consumer has recorded them all since | lines 9-10, "not acknowledged ... (handler failed, or the consumer died mid-way)" |
| `EmailedOnce` | `notices_jobs` | `services/notifications/dispatcher.py:150-172` updates a row that failed, in two passes at once | lines 7-8, "delivers each (incident, channel, event) once" |
| `ListedIsQuiet`, `SweepsEligible` | 1 sensor, 1 poller, 3 clock values | `services/alerting/lifecycle.py:69` writes from its list | lines 24-25, "recovered ... NOT auto-closed" |
| `ClearedIsClear` | 2 workers, clock 0 | `lifecycle.py:42` counts without a lock | lines 6-7, "NO remaining active member alerts" |
| `JoinsOpen` | clock 0 | `repositories/incident_repository.py:125` excludes only "resolved" | line 106, "most recent open incident" |
| `ClosedIsTerminal` | clock 0 | `services/incident_service.py:52` writes without looking | `services/incident_lifecycle_service.py:197`, "terminal" |
| `JoinsWarm` | as `ListedIsQuiet` | `services/alerting/correlation_engine.py:284` joins the cold incident by way of the conflict | lines 27-29, "does not silently absorb" |
| `CountsMembers` | as `ListedIsQuiet` | the same path skips `add_alert` | `incident_repository.py:150`, "distinct-member count" |
| `RecurrenceKeepsRoot` | two sources of one signal, clock 0 | `correlation_engine.py:330` recomputes over one member | lines 230-231, "nothing ... changes" |
| `CreatedIsAnalysed` | no collectors, `FairSpec` | `api/routes/monitoring.py:394` never drains | `services/alert_service.py:328` |
| `OwnAction` | two auto steps | `services/device_action_service.py:153` replays the request of another step | `services/automation_runner.py:123-124`, 'every "auto" workflow step becomes a DeviceActionRequest' |
| `OneRequest` | two workers starting the same action | the same line looks up, then inserts, without a lock | lines 148-149, "a repeated request must not create a second action request" |
| `DecisionResumes` | an action, then a gate; an approver faster than the pause | `services/automation_runner.py:432`, `:446` pauses after the decision was made | lines 663-664, "once a human resolves that approval ... the paused execution continues here" |
| `EndIsFinal`, `NoStepSkipped` | a gate, or two manual steps, decided twice at once | `automation_runner.py:641` (and lines 594, 601) acts on a status it read without a lock | line 633, "expected awaiting_manual", line 590, "expected awaiting_approval" |
| `GatesHold`, `ResumesItsStep` | an action, then a gate | `automation_runner.py:936` finds an execution by any request in its results | lines 921-922, "whose current step waits on this DeviceActionRequest's approval" |
| `RecoveringIsConfirmed` | `failover_rounds` | `services/failover_intelligence/detector.py:490` confirms a recovery with the samples of the policies breached now, the verification counts those of the beginning | `models/failover_event.py:36-37`, "the decision is healthy again and the confirmation window is satisfied" |
| `OneRunPerSource` | `collection_runs` | `collection_orchestrator.py:150` looks for a running row that is committed with its outcome only | `repositories/collector_run_repository.py:67`, "There should be at most one running row per source in practice" |

Seen while modelling, without a property:

- Discovery starves without its premise: both jobs fire at the same instant of
  every minute and the second finds key 91827365 taken (`scope` due forever on `task_dispatch`).
- Cancelling a task leaves it counted, so an agent can stay full (`CancelTask`).
- `task_dispatch.py:155-160`, "One bad task must not stop the whole queue": the rest of this tick it does.
- A failover round that overlaps another can leave a final status, which
  `models/failover_event.py:91-94` rules out; a database error in it
  poisons the session of the collection run, whose commit is then lost, although
  `collection_orchestrator.py:247-249` says it "must never turn a healthy collection run into a failed one".
- `jobs.py` speaks of `next_run_at` and backoff, but which sources are due depends on `last_sync_at`
  and the interval alone; the startup reconciliation of running rows finds none; a
  source over its rate limit is counted for each denied attempt.
- Posts can be made twice, by two processes or by a crash before the commit. By email a resolution can come first, as
  "sent" means queued there. The pass takes the oldest 200 incidents of the day.
- `services/email/outbox.py:63` says "Commits per message"; there is one commit per batch.

### Bounds

Every bound is a CONSTANT that a `.cfg` sets and a guard of the action it limits, or is
named where it is applied ("Bound:").

- **Actors: two of each kind that races.** Every hazard of the inventory is between two: two
  requests on a row, two pollers on a probe, two jobs on a batch. A third of the
  kind waits for the same lock or fails at the same index. Where one actor is
  enough (`alerts_swept`, the sealing job) the rival is of another kind.
- **Objects: one or two**, since the models have no coupling between objects but agents'
  room, batches and suppression. `task_dispatch` therefore has one task more than a batch
  and one more than there is room for; `email_outbox` one message more than a batch; `audit_chain` two
  tenants, so that a chain can be disturbed while the other is not; `events_group` a
  second event that trims the first away, and batches of one.
- **Counters: one beyond the threshold**, so that "reached", "not yet" and "beyond" all
  happen: `MaxDeliveries`, `MaxAttempts`, `MaxTries`, `DegradedThreshold` are 2 where the code
  has 5, 5, 3 and 3; `RecoverySuccesses` is 2 as in the code. `MaxRetries` is 1: used, and used up.
- **Faults**: crashes and losses are counted (`MaxFaults`, `MaxCrashes`, `MaxLosses`, `MaxEdits`)
  where unbounded ones make the state infinite, and unlimited where they do not (dispatch,
  collection, notices, failover, tasks).
- **Histories are cut** to what is read of them: the last audit entry in `audited`, the
  detector's counters up to their threshold, `now` in windows instead of seconds.

Distinct states: events_group 588,529, alerts_swept 519,531, task_dispatch 366,210, failover_rounds 207,798,
notices_jobs 196,156, sop_steps 167,921, alerts_polled 157,217, email_outbox 134,316, collection_runs 52,094,
audit_chain 50,598, tasks_requests 27,452, tasks_stale_reassign 961 when it stops.
Larger instances were checked once for the safety properties, with the same result: `alerts_swept` with two incidents and
without the alerts that have no place (9.6 million states), `alerts_polled` with an operator who closes incidents
(3.9 million), `events_group` with batches of two (1.2 million),
`task_dispatch` with agents of different room who both support one type (855,484), `notices_jobs` with three jobs
and three tries of email alone (1.1 million). Symmetry is used in `alerts_polled` alone, which has no
liveness property. Deadlock is checked except where everything there is to do ends:
all emails settled, all incidents told, all tasks and procedures over (`email_outbox`,
`notices_jobs`, `tasks_requests`, `sop_steps`).

### Fairness

No safety property depends on fairness. For the liveness ones:

- **Tasks.** `SF` of getting the row lock, since PostgreSQL queues those who
  wait for a row; `WF` of a request that holds it, save in a tool call: the code sets no timeout on it,
  so nothing says that it returns, and `Answered` has the requests on that task as its exception.
- **Events.** `WF` of each consumer's loop, of the idle time passing, and of the local
  queue: `redis_transport.py` loops for ever and sleeps after an error.
- **Alerts.** `WF` of a worker inside its transaction and of the sweep; nothing obliges
  a poller to start or an operator to act.
- **SOP.** `WF` of a worker who is in the middle of a request; none to start one.
- **Dispatch and discovery.** `WF` of the jobs and their steps. Advisory locks are tried, not queued for, so
  strong fairness would be unjustified here; the properties state what they need as a
  premise, that the job finds the lock free when it looks, again and again.
- **Collection.** `SF` of the tick, which tries each minute and meets a free lock when no other
  process collects; `SF` of `Finish`, which waits for another run's row lock in
  a queue; `WF` of the interval, slots, commits.
- **Failover, notices, mail, audit.** Posts time out after 10 seconds and an SMTP connection has a timeout. `WF` of a round, a pass, a job, a request's own steps. `SF` of the
  sealing job per tenant, since `pg_advisory_xact_lock` queues.

Faults that could repeat for ever (crashes, lost transactions, aborted ticks, lost baselines)
are assumed to happen finitely often, in the form `<>[][Fault => NormalStep]_vars`: from some
moment on, a step of the fault is at most one that a normal step makes as well. No program recovers
under faults without end, and nothing else is assumed of when they stop.

## 4. Proofs

`tlapm` proves every theorem below for all values of the constants that satisfy the
module's named assumptions: any number of tasks, agents, processes, events, messages, links,
severities. The assumptions say what the code fixes: sets do not overlap, limits are positive numbers,
numbered objects are natural numbers, severities have a highest. TLC evaluates them in every run. Each
proof is an induction over the steps: the type invariant first, then a strengthened invariant with one
lemma per action.

| Module | Assumption | Invariant | Theorems |
|---|---|---|---|
| `TaskLifecycleProofs` | `TaskAssumption` | `ApprovalInv`: `TypeOK`, `Exclusive`, `FlushIsCleared`, `ApprovedBeforeExecution` | `TypeCorrect`, `ApprovalInvariant`, `GateAlwaysHolds`, `ExecutionIsApproved`, `OneWorker`, `ImplementsGate`, `DecisionsStand` |
| | | `OutcomeInv`: `ApprovalInv`, `CopyIsLive`, `FlushIsFresh` | `OutcomeInvariant`, `OutcomesAreFinal`, `AuditFollowsStatus` |
| `EventTransportProofs` | `TransportAssumption` | `DeliveryInv`: `TypeOK`, `DoneIsDone`, `NothingForgotten`, `Knows(c)` | `TypeCorrect`, `DeliveryInvariant`, `Delivered`, `RecordsAreTrue` |
| | the same | `BoundedInv`: `TypeOK`, `AttemptsBounded` | `AttemptsAreBounded` |
| `AlertCorrelationProofs` | `WorkersAssumption`, `ProbesAssumption`, `SeveritiesAssumption`, `TimesAssumption`, `BoundsAssumption`, `TargetsAssumption` | `CorrelationInv`: `TypeOK`, `StageInv`, `AlertReserved`, `IncidentReserved`, `RoomInv`, `AnalysisInv` and the properties | `CorrelationInvariant`, `TypeCorrect`, `OneActive`, `OneOpen`, `AnalysedAtMostOnce`, `AlertsGrouped`, `SuppressionOrdered` |
| `SopAutomationProofs` | `SopAssumption` | `ActionInv`, then `ReportInv` | `TypeCorrect`, `ActionInvariant`, `ActionsCalledOnce`, `ActionsAllowed`, `ReportInvariant`, `ReportsAreTrue` |
| `TaskDispatchProofs` | `DispatchAssumption` | `DispatchInv`: types, `ChoiceInv`, `KeyInv`, `RoutedInv` | `DispatchInvariant`, `TypeCorrect`, `CapacityKept`, `AssignedOnce` |
| `CollectionProofs` | `CollectionAssumption` | `RunInv`: types, `BusyHolds`, `WaitingIsNotRun`, `OneScheduledRun` | `TypeCorrect`, `ScheduledOnce` |
| | `DetectorAssumption` | `DetectorInv`: `DetectorTypeOK`, `ContinuesInv`, `FreshInv` | `DetectorTypeCorrect`, `DetectorInvariant`, `EpisodeNotDuplicated` |
| `NotificationProofs` | `NoticesAssumption` | `NoticeInv`: types, `RowOf`, `PassOf`, `ResolvedAfterOpened` | `TypeCorrect`, `OneEmailEach`, `OpeningFirst` |
| | `OutboxAssumption` | `OutboxInv`: types, `LockInv`, `OutcomeInv`, `AttemptInv`, `ArrivedInv` | `MailTypeCorrect`, `ArrivesOnceUnlessLost`, `SettledForGood` |
| `AuditChainProofs` | `ChainAssumption` | `ChainInv`, then `CheckInv` = `ChainInv`, `WalkInv`, `NoFalseAlarm` | `TypeCorrect`, `ChainWhole`, `NoFalseAlarms` |
| | the same | `CheckInv`, `KeptInv`, `ShownInv`, `OwedInv` | `EditsReported` |

Why the properties alone are not inductive, and what is added:

- **Tasks.** `GateHolds` speaks of the committed row while a tool runs, but the row is changed by
  `Commit` of a request that computed it earlier. `FlushIsCleared` says that what is
  about to be flushed is cleared, if it is a row of gated work, and `Exclusive` that nobody else
  changed the row meanwhile. `ImplementsGate` maps the rows to the state of `ApprovalGate`: a flush
  is a step of the gate, everything else a stutter. A final status is written over, and an audit entry
  left out, by a flush alone: `FlushIsFresh` says that its row was unfinished under the
  lock and still is what was read, or that this is a reassignment or the tick's assignment, whose copy is of a
  task that could be reassigned, or was created (`CopyIsLive`).
- **Events.** An event is acknowledged by a consumer who relies on what it read of the done
  keys two commands ago. `Knows(c)` says that its copies are still true: `done` and
  `effects` only grow. `AttemptsBounded` is inductive with the types, as it
  counts the attempts under way: one counted at the limit or past it has either ended in a burial, which clears the
  counter, died in a drop, or is still one of `LastAttempts`. It needs no assumption on how long handlers take.
- **Alerts.** That a key has one active row is kept by an index that an INSERT meets before its
  transaction commits. `AlertReserved` and `IncidentReserved` say what the wait amounts to: a key
  that is being inserted has no committed row and one inserter, until that one commits or rolls back.
  `StageInv` says for each step of a transaction what it holds and what its copies are still good for, `RoomInv` that
  rows about to be inserted have room, `AnalysisInv` that an incident handed to the RCA trigger
  waits there once and was not analysed before. For suppression, the recomputation
  of an incident is shown to point each alert at the one it chose as the root cause, of the root-cause category and
  no later than others of it, and to free that one, whichever members it finds: a circle would have to pass
  through the root it has just freed. No other step changes who suppresses whom. An alert without device
  and site is in no incident (`Grouped`).
- **SOP.** `CalledOnce` needs to know that a request being executed belongs to exactly
  one worker, and whether that worker has called yet (`ActionInv`). `ReportedIsVerified`
  needs it of every copy of an execution row, not only of the committed ones (`ReportInv`).
- **Dispatch.** Nothing in a tick's own steps keeps it from assigning what another
  has assigned. `KeyInv` says that whatever runs holds the key, so listings do not
  coexist, and `RoutedInv` that what was assigned by a tick is in no listing. `ChoiceInv` says that the agent a
  tick has chosen had room by the load it remembers and writes.
- **Collection.** The guard of a run reads rows nobody commits, so it is the lock of
  the tick again: `BusyHolds` while a process has anything queued or under way, and
  `WaitingIsNotRun` within it.
- **Failover.** A round opens an episode from what it read when it began. `FreshInv` says that a
  round nobody overtook knows the open episode or that there is none, `ContinuesInv` that a round
  which takes none for open continues none, and that the episode it continues is not forgotten
  under it. Every commit is shown to touch one episode at most (`CommitEffect`): an open one, the
  one it continues, or a new one where it knew of none.
- **Notices.** `RowOf` and `PassOf` relate each committed row, and each row a pass is about to write,
  to the emails queued with it: a pass that read no row does not commit where one is by now, so what it queues is the
  first email, and a pass that read one writes at least a second try.
- **Outbox.** A message arrives at most `attempts` times plus what was lost: `ArrivedInv`
  counts sends that are not committed yet, `LockInv` gives each of them one job.
- **Audit.** An uncommitted link is invisible, so a chain can only be whole if whoever is going to
  append knows its end: `HolderInv` says that the holder of the lock has read the last committed
  link, `EventInv` that an event has one link, where it was written or in the transaction that will
  commit it, `SeenWhole` that the chain with those links is whole too. `WalkInv`
  says that the part of the chain the check has walked is what it was. That the check finds every edit
  needs the converse: a link nobody edited keeps the text it was written with (`KeptInv`), an edit of a
  link that is there shows in it or in its event (`ShownInv`), and what the check owes is reported or still ahead
  of the walk (`OwedInv`).

Every invariant and action property that a passing run checks is stated by one of these theorems,
save the type invariants that no run lists, which are proved all the same. Only model-checked are the
liveness properties, which are out of this prover's reach, and `ActionOnce`, which no run lists.

## 5. Not modelled

Nothing under `api/` but the handlers that move modelled state, and nothing of the frontend,
migrations, deployment or scripts. Of the backend's services most are
readers of vendor APIs, scoring functions and views: they keep no state that two
processes write, and a state model has nothing to say of them. They make up most of the
lines, so that the share of the implementation the models cover is small.

Left out of the modelled components:

- **Tasks**: descriptive columns. **Dispatch**: the score, departments, levels, agents that
  are away, other tenants, what becomes of a task that failed (`TaskLifecycle` has it). **Discovery**: the probe itself
  and its evidence; a tick takes every due scope where the code takes the five that are due for longest, which
  delays the others by a tick and no more, since each of the five moves on.
- **Events**: the contents of the envelope, metrics, the 7 days after which done keys expire.
- **Alerts**: the fallback to device and site for alerts without a title, priorities, history rows,
  maintenance windows; a transaction evaluates one probe.
- **SOP**: actions requested by operators directly, parameters, the rules of the policy. `Settle` counts the
  provider's action and not the PING that `_verify` sends after it (`services/device_action_service.py:609`), which
  changes nothing on a device.
- **Collection**: the rate limiter (off by default), the subscription filter, the startup
  reconciliation, which finds no row.
- **Failover**: routes and BGP timelines, evidence, blast radius, policies' administration. `Verified` takes what the
  detector sees for what the verification sees, which has no hysteresis and so may judge a round otherwise: either verdict ends the
  episode, and with the verdict left open TLC finds the same properties to hold. The run confirms with one sample where `DEFAULT_MIN_SAMPLES` is 2.
- **Notices, mail**: channel settings, texts, transports, the length of the backoff. `enqueue_email` flushes, so that in
  the code a pass that collides over an email waits for the other and fails there; in the model it fails when it
  ends, with every interleaving of the code among the model's.
- **Audit**: the contents of an event, the cap of 20 reported problems, the search page; someone who rewrites a link
  and everything after it consistently, which no check of hashes can show (`EditLink` writes one hash); the
  `ON DELETE SET NULL` of an event's actor, which the purge of a tenant can meet and the check reports as a change.

Not wired up, so not modelled: **ServiceNow and ITSM sync**. `servicenow_sync_tick` takes
advisory lock 91827365 without giving it back, but no scheduler registers it; the methods that the
retry route and the workflow nodes call do not exist; what the push route enqueues stays pending.
The autonomous lifecycle orchestrator is constructed by tests only.

Hazards of the modelled code beyond those `PROJECT.json` lists, each at a line where a property of the
tables above or a note stands for it: `services/alerting/correlation_engine.py:284` and `:250`,
`services/alerting/lifecycle.py:42`, `repositories/incident_repository.py:125`,
`services/monitoring/collection_orchestrator.py:150`, `services/events/event_bus.py:200`,
`services/failover_intelligence/detector.py:478`, `services/automation_runner.py:936` and `:800`,
`api/routes/tasks.py:201`, `:298`, `:594`, `services/task_service.py:656`, `:703`.

## 6. Plan

Done: tasks with their abstract gate, events, alerts, SOP automation, dispatch and
discovery, collection, failover, notices, mail, audit chain; a proof of every safety property the
runs check.

Left, in this order:

1. `IncidentLifecycle`: the transition table of `incident_lifecycle_service.py` beside the routes that
   write without it.
2. `WorkflowEngine`: overlapping ticks of one execution over a graph, with waiting, retry,
   roll-back and cancel.
3. `UsageMetering`: buffered counters, a flush that is retried, the quota window.
4. `TicketStateMachine`: table, reopening, history.
5. A proof of `ActionOnce`; an abstract specification of at-least-once delivery, and the proof
   that `EventTransport` implements it.
