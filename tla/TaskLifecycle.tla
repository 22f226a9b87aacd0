--------------------------- MODULE TaskLifecycle ---------------------------
(***************************************************************************)
(* The lifecycle of a virtual-company task (services/task_service.py), as  *)
(* driven by concurrent HTTP requests (api/routes/tasks.py) and by the     *)
(* dispatch tick (scheduler/task_dispatch.py) over one PostgreSQL row per  *)
(* task.                                                                   *)
(*                                                                         *)
(* A request whose only shared state is the task row reads it FOR UPDATE,  *)
(* validates it, writes it and commits: that is one action.  A request     *)
(* that also reads state it does not lock (the workload counter of an      *)
(* agent, a copy of the row taken before the lock, the outside world       *)
(* during a tool call) runs in a SESSION, step by step: open, hold the row *)
(* lock, commit or roll back.                                              *)
(*                                                                         *)
(* A session flushes only the columns whose value differs from the copy it *)
(* loaded (Flush), as the ORM does; the audit log is one column, so it is  *)
(* always written whole.                                                   *)
(***************************************************************************)
EXTENDS Naturals

CONSTANTS
  Tasks,        \* task ids
  Agents,       \* agent ids
  Sessions,     \* concurrent requests that hold state across steps
  NoAgent,      \* assigned_agent_id IS NULL
  Reassigning,  \* whether POST /tasks/{id}/reassign is in use
  Autonomous,   \* AUTONOMOUS_TASK_ASSIGNMENT: whether the dispatch tick runs
  MaxRetries,   \* Task.max_retries
  MaxWorkload   \* Agent.max_workload

ASSUME TaskAssumption ==
  /\ NoAgent \notin Agents
  /\ Reassigning \in BOOLEAN
  /\ Autonomous \in BOOLEAN
  /\ MaxRetries \in Nat
  /\ MaxWorkload \in Nat \ {0}

VARIABLES
  row,       \* the committed row of each task
  workload,  \* the committed current_workload of each agent
  session    \* the state each multi-step request keeps in memory

vars == <<row, workload, session>>

-----------------------------------------------------------------------------
(* The declared lifecycle.                                                 *)

Statuses == {"created", "assigned", "accepted", "investigating", "executing",
             "verifying", "verified", "recorded", "failed", "retrying",
             "escalated", "reassigned", "cancelled"}

Edges == {<<"created", "assigned">>, <<"created", "cancelled">>,
          <<"assigned", "accepted">>, <<"assigned", "reassigned">>,
          <<"assigned", "cancelled">>,
          <<"accepted", "investigating">>, <<"accepted", "cancelled">>,
          <<"investigating", "executing">>, <<"investigating", "escalated">>,
          <<"investigating", "failed">>,
          <<"executing", "verifying">>, <<"executing", "failed">>,
          <<"verifying", "verified">>, <<"verifying", "failed">>,
          <<"verified", "recorded">>,
          <<"failed", "retrying">>, <<"failed", "escalated">>,
          <<"failed", "reassigned">>, <<"failed", "cancelled">>,
          <<"retrying", "executing">>, <<"retrying", "failed">>,
          <<"escalated", "investigating">>, <<"escalated", "executing">>,
          <<"escalated", "cancelled">>,
          <<"reassigned", "assigned">>, <<"reassigned", "accepted">>}

CanMove(from, to) == <<from, to>> \in Edges

Terminal == {"recorded", "cancelled"}

\* Work that the approval gate protects has started.
Protected == {"executing", "verifying", "verified", "recorded"}

Approvals == {"not_required", "waiting", "approved", "rejected"}

\* `audited` is the to_status of the last entry of audit_log.
Row == [status: Statuses \cup {"absent"}, agent: Agents \cup {NoAgent},
        required: BOOLEAN, approval: Approvals,
        retries: Nat, audited: Statuses \cup {"absent"}]

Absent == [status |-> "absent", agent |-> NoAgent, required |-> FALSE,
           approval |-> "not_required", retries |-> 0, audited |-> "absent"]

\* _assert_approval_gate: may protected work start on row r?
Cleared(r) == r.required => r.approval = "approved"

\* _require_assigned_agent
MayAct(r, a) == r.agent \in {NoAgent, a}

\* Mutant of Moved: the audit entry is forgotten.
MovedUnaudited(r, to) == [r EXCEPT !.status = to]
\* The row after a handler moved it to `to` and appended its audit entry.
Moved(r, to) == [r EXCEPT !.status = to, !.audited = to]

-----------------------------------------------------------------------------
(* Sessions.  `seen` is the ORM copy of the row, `new` the same object     *)
(* with the handler's assignments, `loads` the workload values the session *)
(* computed from what it read.                                             *)

Idle == [pc |-> "idle"]
Opened(pc, t, a, seen) == [pc |-> pc, task |-> t, agent |-> a, seen |-> seen]
Held(pc, t, seen, new, loads) ==
  [pc |-> pc, task |-> t, seen |-> seen, new |-> new, loads |-> loads]

\* "routed", "raised": the handler flushed, its route will not commit.
Opening == {"assigning", "reassigning", "ticking"}
Unsaved == {"routed", "raised"}
Holders == {"locked", "adapter"} \cup Unsaved

Waiting(s) == session[s].pc \in Opening
Holding(s) == session[s].pc \in Holders

\* Mutant of Free: a plain SELECT, which waits for nobody.
FreeUnlocked(t) == TRUE
\* SELECT ... FOR UPDATE returns: no other transaction holds the row.
Free(t) == \A s \in Sessions : Holding(s) => session[s].task # t

\* increment_workload / decrement_workload on the value just read.
OneMore(a) == workload[a] + 1

\* Mutant of OneLess: no floor at 0.
OneLessUnfloored(a) == workload[a] - 1
OneLess(a) == IF workload[a] > 0 THEN workload[a] - 1 ELSE 0

\* The counters a request writes: one more for `gains`, one less for the
\* agents (NULL or not) that lose the work.
Loads(gains, loses) ==
  [a \in (gains \cup loses) \ {NoAgent} |->
     IF a \in gains THEN OneMore(a) ELSE OneLess(a)]

\* Mutant of Flush: the UPDATE writes every column.
FlushWholeRow(r, seen, new) == new
\* The UPDATE of a flush: the changed columns only, the audit log whole.
Flush(r, seen, new) ==
  [status   |-> IF new.status # seen.status THEN new.status ELSE r.status,
   agent    |-> IF new.agent # seen.agent THEN new.agent ELSE r.agent,
   required |-> r.required,
   approval |-> IF new.approval # seen.approval THEN new.approval ELSE r.approval,
   retries  |-> IF new.retries # seen.retries THEN new.retries ELSE r.retries,
   audited  |-> new.audited]

-----------------------------------------------------------------------------
(* One-step requests.                                                      *)

Write(t, r) == /\ row' = [row EXCEPT ![t] = r]
               /\ UNCHANGED <<workload, session>>

\* The handler locked row t, which is in a status that may move to `to`.
Ready(t, to) == Free(t) /\ CanMove(row[t].status, to)

CreateTask(t, a, req) ==
  /\ Free(t)
  /\ row[t] = Absent
  /\ Write(t, [Moved(Absent, "created") EXCEPT !.agent = a, !.required = req])

AcceptTask(t, a) ==
  /\ Ready(t, "accepted")
  /\ MayAct(row[t], a)
  /\ Write(t, Moved(row[t], "accepted"))

StartInvestigation(t, a) ==
  /\ Ready(t, "investigating")
  /\ MayAct(row[t], a)
  /\ Write(t, Moved(row[t], "investigating"))

\* Mutant of StartExecution: the approval gate is not asserted.
StartExecutionUngated(t, a) ==
  /\ Ready(t, "executing")
  /\ MayAct(row[t], a)
  /\ Write(t, Moved(row[t], "executing"))

StartExecution(t, a) ==
  /\ Cleared(row[t])
  /\ Ready(t, "executing")
  /\ MayAct(row[t], a)
  /\ Write(t, Moved(row[t], "executing"))

SubmitForVerification(t, a) ==
  /\ Ready(t, "verifying")
  /\ MayAct(row[t], a)
  /\ Write(t, Moved(row[t], "verifying"))

RecordTask(t) ==
  /\ Ready(t, "recorded")
  /\ Write(t, Moved(row[t], "recorded"))

RetryTask(t) ==
  /\ Ready(t, "retrying")
  /\ row[t].retries < MaxRetries
  /\ Write(t, [Moved(row[t], "retrying") EXCEPT !.retries = @ + 1])

\* target = NoAgent: no target_agent_id was given, the assignee stays.
EscalateTask(t, target) ==
  /\ Free(t)
  /\ row[t].status \in {"investigating", "failed"}
  /\ Write(t, [Moved(row[t], "escalated") EXCEPT
                 !.agent = IF target = NoAgent THEN @ ELSE target])

CancelTask(t) ==
  /\ row[t].status \notin Terminal
  /\ Ready(t, "cancelled")
  /\ Write(t, Moved(row[t], "cancelled"))

\* An approval entry repeats the current status as its to_status.
Decide(t, decision) ==
  Write(t, [row[t] EXCEPT !.approval = decision, !.audited = row[t].status])

RequestApproval(t) ==
  /\ Free(t)
  /\ row[t].required
  /\ row[t].approval \notin {"waiting", "approved"}
  /\ row[t].status \in {"accepted", "investigating"}
  /\ Decide(t, "waiting")

ApproveTask(t) ==
  /\ Free(t)
  /\ row[t].required
  /\ row[t].approval = "waiting"
  /\ Decide(t, "approved")

RejectTask(t) ==
  /\ Free(t)
  /\ row[t].required
  /\ row[t].approval = "waiting"
  /\ Decide(t, "rejected")

-----------------------------------------------------------------------------
(* Requests that run in a session.                                         *)

Step(s, next) == /\ session' = [session EXCEPT ![s] = next]
                 /\ UNCHANGED <<row, workload>>

\* _assert_assignable_agent: the agent can accept work now.
CanAcceptTask(a) == workload[a] < MaxWorkload

\* create_command_task: create, route, assign and count in one transaction.
LockCommand(s, t, a) ==
  /\ session[s] = Idle
  /\ Free(t)
  /\ row[t] = Absent
  /\ CanAcceptTask(a)
  /\ Step(s, Held("locked", t, Absent,
                  [Moved(Absent, "assigned") EXCEPT !.agent = a], Loads({a}, {})))

\* The copy loaded by the check is dropped before assign_task reads again.
OpenAssign(s, t, a) ==
  /\ session[s] = Idle
  /\ row[t] # Absent
  /\ CanAcceptTask(a)
  /\ Step(s, Opened("assigning", t, a, Absent))

\* assign_task, then the workload of the agent is read.
LockAssign(s) ==
  LET t == session[s].task
      a == session[s].agent
  IN  /\ session[s].pc = "assigning"
      /\ Ready(t, "assigned")
      /\ Step(s, Held("locked", t, row[t],
                      [Moved(row[t], "assigned") EXCEPT !.agent = a],
                      Loads({a}, {})))

\* POST /tasks/{id}/route: as assign, in a route that never commits.
LockRoute(s, t, a) ==
  /\ session[s] = Idle
  /\ Ready(t, "assigned")
  /\ CanAcceptTask(a)
  /\ Step(s, Held("routed", t, row[t],
                  [Moved(row[t], "assigned") EXCEPT !.agent = a], Loads({a}, {})))

\* The route keeps `previous`, so the ORM hands this copy out again when
\* reassign_task selects the row FOR UPDATE.
OpenReassign(s, t, a) ==
  /\ Reassigning
  /\ session[s] = Idle
  /\ CanMove(row[t].status, "reassigned")
  /\ CanAcceptTask(a)
  /\ Step(s, Opened("reassigning", t, a, row[t]))

LockReassign(s) ==
  LET t == session[s].task
      a == session[s].agent
      seen == session[s].seen
  IN  /\ session[s].pc = "reassigning"
      /\ Free(t)
      /\ ~ (seen.agent = a /\ seen.status = "assigned")
      /\ Step(s, Held("locked", t, seen,
                      [Moved(seen, "assigned") EXCEPT !.agent = a],
                      Loads({a}, {seen.agent})))

\* The tick lists the created tasks and picks an agent: one session per task
\* of its list.  (TaskDispatch has the tick as a whole, with its lock.)
OpenTick(s, t, a) ==
  /\ Autonomous
  /\ session[s] = Idle
  /\ row[t].status = "created"
  /\ CanAcceptTask(a)
  /\ Step(s, Opened("ticking", t, a, row[t]))

\* The session of the tick still holds the copy it listed, so assign_task's
\* SELECT ... FOR UPDATE hands that copy out and validates it: it is always
\* "created".
LockTick(s) ==
  LET t == session[s].task
      a == session[s].agent
      seen == session[s].seen
  IN  /\ session[s].pc = "ticking"
      /\ Free(t)
      /\ Step(s, Held("locked", t, seen,
                      [Moved(seen, "assigned") EXCEPT !.agent = a],
                      Loads({a}, {})))

\* Mutant of Refuse: a refused request is kept waiting.
RefuseNever(s) == FALSE
\* The locked row refuses the transition (409): the transaction rolls back.
Refuse(s) == Waiting(s) /\ Free(session[s].task) /\ Step(s, Idle)

\* verify_task; complete_task then reads the workload of the assignee.
LockVerify(s, t, to) ==
  /\ session[s] = Idle
  /\ row[t].status = "verifying"
  /\ to \in {"verified", "failed"}
  /\ Ready(t, to)
  /\ Step(s, Held("locked", t, row[t], Moved(row[t], to), Loads({}, {row[t].agent})))

LockFail(s, t) ==
  /\ session[s] = Idle
  /\ Free(t)
  /\ row[t].status \in {"investigating", "executing", "verifying", "retrying"}
  /\ Step(s, Held("locked", t, row[t], Moved(row[t], "failed"),
                  Loads({}, {row[t].agent})))

\* Mutant of LockWorker: the adapter is called before the gate.
LockWorkerUngated(s, t, a, pc) ==
  /\ session[s] = Idle
  /\ Free(t)
  /\ row[t].status \in {"accepted", "investigating", "executing"}
  /\ Step(s, Held(pc, t, row[t], Moved(row[t], "verifying"), Loads({}, {})))

\* run_worker_execution up to the call of the tool adapter ("adapter"), or
\* past it when no tool was asked for.  Both end in submit_for_verification.
LockWorker(s, t, a, pc) ==
  /\ session[s] = Idle
  /\ Free(t)
  /\ Cleared(row[t])
  /\ MayAct(row[t], a)
  /\ \/ row[t].status \in {"accepted", "investigating", "executing"}
     \/ CanMove(row[t].status, "executing")
  /\ pc \in {"adapter", "locked"}
  /\ Step(s, Held(pc, t, row[t], Moved(row[t], "verifying"), Loads({}, {})))

\* No adapter is registered, or the adapter raises: the handler flushes its
\* audit entry (and status failed) and raises, so the route never commits.
AdapterFails(s) ==
  LET t == session[s].task
  IN  /\ session[s].pc = "adapter"
      /\ \E to \in {row[t].status, "failed"} :
           Step(s, Held("raised", t, session[s].seen,
                        Moved(session[s].seen, to), Loads({}, {})))

\* flush, commit, and the row lock is released.
Commit(s) ==
  LET t == session[s].task
  IN  /\ session[s].pc \in {"locked", "adapter"}
      /\ row' = [row EXCEPT ![t] = Flush(@, session[s].seen, session[s].new)]
      /\ workload' = [a \in Agents |-> IF a \in DOMAIN session[s].loads
                                    THEN session[s].loads[a] ELSE workload[a]]
      /\ session' = [session EXCEPT ![s] = Idle]

\* The session closes, or its process dies: PostgreSQL rolls back.
RollBack(s) == session[s].pc \in Unsaved /\ Step(s, Idle)
Crash(s) == session[s].pc \in Opening \cup {"locked", "adapter"} /\ Step(s, Idle)

-----------------------------------------------------------------------------
Init == /\ row = [t \in Tasks |-> Absent]
        /\ workload = [a \in Agents |-> 0]
        /\ session = [s \in Sessions |-> Idle]

OneStep(t) ==
  \/ \E a \in Agents \cup {NoAgent}, req \in BOOLEAN : CreateTask(t, a, req)
  \/ \E a \in Agents : \/ AcceptTask(t, a)
                       \/ StartInvestigation(t, a)
                       \/ StartExecution(t, a)
                       \/ SubmitForVerification(t, a)
  \/ RecordTask(t)
  \/ RetryTask(t)
  \/ \E a \in Agents \cup {NoAgent} : EscalateTask(t, a)
  \/ CancelTask(t)
  \/ RequestApproval(t)
  \/ ApproveTask(t)
  \/ RejectTask(t)

Begin(s, t) ==
  \/ \E a \in Agents : \/ OpenAssign(s, t, a)
                       \/ OpenReassign(s, t, a)
                       \/ OpenTick(s, t, a)
                       \/ LockCommand(s, t, a)
                       \/ LockRoute(s, t, a)
                       \/ \E pc \in {"adapter", "locked"} : LockWorker(s, t, a, pc)
  \/ \E to \in {"verified", "failed"} : LockVerify(s, t, to)
  \/ LockFail(s, t)

TakeLock(s) == LockAssign(s) \/ LockReassign(s) \/ LockTick(s) \/ Refuse(s)

Finish(s) == Commit(s) \/ AdapterFails(s) \/ RollBack(s)

Next == \/ \E t \in Tasks : OneStep(t)
        \/ \E s \in Sessions, t \in Tasks : Begin(s, t)
        \/ \E s \in Sessions : TakeLock(s) \/ Finish(s) \/ Crash(s)

\* PostgreSQL queues row-lock waiters, so a waiter is not overtaken forever
\* (SF); a request that holds its lock runs on (WF), except inside the tool
\* adapter: the code sets no timeout on that call, so nothing says it returns.
Fairness == \A s \in Sessions :
  /\ SF_vars(TakeLock(s))
  /\ WF_vars(session[s].pc # "adapter" /\ Finish(s))

Spec == Init /\ [][Next]_vars
FairSpec == Spec /\ Fairness

-----------------------------------------------------------------------------
(* Properties.                                                             *)

IsOpened(x) == x \in [pc: Opening, task: Tasks, agent: Agents, seen: Row]

IsHeld(x) == /\ x = Held(x.pc, x.task, x.seen, x.new, x.loads)
             /\ x.pc \in Holders
             /\ x.task \in Tasks
             /\ x.seen \in Row
             /\ x.new \in Row
             /\ DOMAIN x.loads \subseteq Agents
             /\ x.loads \in [DOMAIN x.loads -> Nat]

IsSession(x) == x = Idle \/ IsOpened(x) \/ IsHeld(x)

\* Every variable keeps its type; in particular workload never goes below 0.
TypeOK == /\ row \in [Tasks -> Row]
          /\ workload \in [Agents -> Nat]
          /\ DOMAIN session = Sessions
          /\ \A s \in Sessions : IsSession(session[s])

\* The protected-execution gate: for as long as a tool adapter runs for a
\* task, the committed row of that task says the work is allowed
\* (_assert_approval_gate, kept true by the row lock run_worker_execution
\* holds across the call).
GateHolds == \A s \in Sessions :
  session[s].pc = "adapter" => Cleared(row[session[s].task])

\* No task that requires approval is ever seen past the start of execution
\* without it, whatever requests overlap.
ApprovedBeforeExecution == \A t \in Tasks :
  row[t].status \in Protected => Cleared(row[t])

\* Two requests never run the tool of one task at the same time.
OneWorkerPerTask == \A s1, s2 \in Sessions :
  /\ session[s1].pc = "adapter"
  /\ session[s2].pc = "adapter"
  /\ session[s1].task = session[s2].task
  => s1 = s2

\* At most one request holds the row lock of a task.
Exclusive == \A s1, s2 \in Sessions :
  Holding(s1) /\ Holding(s2) /\ session[s1].task = session[s2].task => s1 = s2

\* What a lock holder is about to flush: the approval as it loaded it, and
\* protected work (begun, or being done) only on a cleared row.
FlushIsCleared == \A s \in Sessions :
  Holding(s) => /\ session[s].new.approval = session[s].seen.approval
                /\ \/ session[s].pc = "adapter"
                   \/ session[s].new.status \in Protected
                   => Cleared(row[session[s].task])

\* The inductive invariant behind GateHolds and ApprovedBeforeExecution.
ApprovalInv == TypeOK /\ Exclusive /\ FlushIsCleared /\ ApprovedBeforeExecution

\* An assignment whose copy of the row is older than the row is about to
\* commit: a reassignment's or the dispatch tick's, the two writers that
\* validate a copy taken before their lock.
StaleAssignment(t) == \E s \in Sessions :
  /\ session[s].pc = "locked"
  /\ session[s].task = t
  /\ session[s].new.status = "assigned"
  /\ session[s].seen.status \in {"created", "assigned", "failed"}
  /\ session[s].seen # row[t]

\* The last audit entry of a task tells its status, and no request but a
\* stale assignment overwrites what another one wrote there.
AuditMatchesStatus == [][\A t \in Tasks :
  row'[t].audited # row'[t].status
    => row[t].audited # row[t].status \/ StaleAssignment(t)]_vars

\* A decision on an approval is not undone by a request that was already
\* under way: approved is final, and rejected only becomes waiting again.
DecisionStands == [][\A t \in Tasks :
  /\ row[t].approval = "approved" => row'[t].approval = "approved"
  /\ row[t].approval = "rejected" => row'[t].approval \in {"rejected", "waiting"}]_vars

\* A recorded or cancelled task keeps its outcome and its assignee: only a
\* reassignment or a dispatch tick that validated an older copy of the row
\* takes them away.  (Approve and reject read no status, so its approval may
\* still be decided.)
TerminalIsFinal == [][\A t \in Tasks :
  /\ row[t].status \in Terminal
  /\ <<row'[t].status, row'[t].agent>> # <<row[t].status, row[t].agent>>
  => StaleAssignment(t)]_vars

\* No request brings a recorded or cancelled task back to life.
NotResurrected == [][\A t \in Tasks :
  row[t].status \in Terminal => row'[t].status = row[t].status]_vars

\* "Atomically increment an agent's current workload": an assignment counts
\* once in the workload of its agent, whatever else commits around it.
AssignmentIsCounted == [][\A t \in Tasks :
  row[t].status = "created" /\ row'[t].status = "assigned"
    => workload'[row'[t].agent] = workload[row'[t].agent] + 1]_vars

\* No agent is given more work than its maximum.
WithinCapacity == \A a \in Agents : workload[a] <= MaxWorkload

\* The endpoint that routes a task answers with the assigned task: the
\* assignment is in the database once the request is over.
RouteIsKept == [][\A s \in Sessions :
  session[s].pc = "routed" /\ session'[s] = Idle
    => row'[session[s].task].status = "assigned"]_vars

\* When a tool is unavailable, or raises, the task's audit log records it.
ToolFailureIsRecorded == [][\A s \in Sessions :
  session[s].pc = "raised" /\ session'[s] = Idle
    => row'[session[s].task].audited = session[s].new.audited]_vars

\* The lifecycle implements the approval boundary of ApprovalGate: a task is
\* running while a session calls its tool adapter.
Running == {session[s].task : s \in {x \in Sessions : session[x].pc = "adapter"}}

Gate == INSTANCE ApprovalGate WITH
  required <- {t \in Tasks : row[t].required},
  approval <- [t \in Tasks |-> row[t].approval],
  running <- Running

GateSpec == Gate!Spec

\* The request of s hangs on a tool call: its own, or that of the request
\* that holds the row of its task.
OnTool(s) == /\ session[s] # Idle
             /\ \E q \in Sessions : /\ session[q].pc = "adapter"
                                   /\ session[q].task = session[s].task

\* Every request is answered, unless a tool call on its task never returns:
\* no request waits for ever behind calls that do return, and a call that
\* hangs with the row lock stops no request on another task.
Answered == \A s \in Sessions :
  []<>(session[s] = Idle) \/ <>[]OnTool(s)

=============================================================================
