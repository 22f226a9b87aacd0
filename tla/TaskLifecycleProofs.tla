------------------------ MODULE TaskLifecycleProofs ------------------------
(***************************************************************************)
(* Proofs about TaskLifecycle for any number of tasks, agents and          *)
(* concurrent requests, with or without reassignment and dispatch ticks.   *)
(***************************************************************************)
EXTENDS TaskLifecycle, TLAPS

-----------------------------------------------------------------------------
(* Type correctness.                                                       *)

\* A one-step request that writes a well-typed row keeps every type.
LEMMA WriteTypes ==
  ASSUME TypeOK, NEW t \in Tasks, NEW r \in Row, Write(t, r)
  PROVE  TypeOK'
BY DEF TypeOK, Write

\* So does a session step to a well-typed session state.
LEMMA StepTypes ==
  ASSUME TypeOK, NEW s \in Sessions, NEW x, IsSession(x), Step(s, x)
  PROVE  TypeOK'
BY DEF TypeOK, Step

\* The row a handler moved is a row.
LEMMA MovedType ==
  ASSUME NEW r \in Row, NEW to \in Statuses
  PROVE  Moved(r, to) \in Row
BY DEF Moved, Row

\* A session that took the row lock with well-typed parts is well typed.
LEMMA HeldType ==
  ASSUME NEW pc \in Holders, NEW t \in Tasks, NEW seen \in Row,
         NEW new \in Row, NEW loads, DOMAIN loads \subseteq Agents,
         loads \in [DOMAIN loads -> Nat]
  PROVE  IsSession(Held(pc, t, seen, new, loads))
BY DEF IsSession, IsHeld, Held

LEMMA AbsentType == Absent \in Row
BY DEF Absent, Row, Approvals

\* The workload values a session computes are naturals of known agents.
LEMMA LoadTypes ==
  ASSUME TypeOK, NEW gains \in SUBSET Agents,
         NEW loses \in SUBSET (Agents \cup {NoAgent})
  PROVE  /\ DOMAIN Loads(gains, loses) \subseteq Agents
         /\ Loads(gains, loses) \in [DOMAIN Loads(gains, loses) -> Nat]
<1>1. \A a \in Agents : workload[a] \in Nat
  BY DEF TypeOK
<1>2. \A a \in Agents : OneMore(a) \in Nat /\ OneLess(a) \in Nat
  BY <1>1 DEF OneMore, OneLess
<1>3. (gains \cup loses) \ {NoAgent} \subseteq Agents
  OBVIOUS
<1> QED
  BY <1>2, <1>3 DEF Loads

LEMMA OneStepTypes ==
  ASSUME TypeOK, NEW t \in Tasks, OneStep(t)
  PROVE  TypeOK'
<1> USE AbsentType, MovedType
<1> row[t] \in Row
  BY DEF TypeOK
<1>1. ASSUME NEW a \in Agents \cup {NoAgent}, NEW req \in BOOLEAN, CreateTask(t, a, req)
      PROVE  TypeOK'
  <2>1. Moved(Absent, "created") \in Row
    BY DEF Statuses
  <2>2. [Moved(Absent, "created") EXCEPT !.agent = a, !.required = req] \in Row
    BY <2>1 DEF Row
  <2> QED
    BY <1>1, <2>2, WriteTypes DEF CreateTask
<1>2. ASSUME NEW a \in Agents, AcceptTask(t, a) PROVE TypeOK'
  BY <1>2, WriteTypes DEF AcceptTask, Statuses
<1>3. ASSUME NEW a \in Agents, StartInvestigation(t, a) PROVE TypeOK'
  BY <1>3, WriteTypes DEF StartInvestigation, Statuses
<1>4. ASSUME NEW a \in Agents, StartExecution(t, a) PROVE TypeOK'
  BY <1>4, WriteTypes DEF StartExecution, Statuses
<1>5. ASSUME NEW a \in Agents, SubmitForVerification(t, a) PROVE TypeOK'
  BY <1>5, WriteTypes DEF SubmitForVerification, Statuses
<1>6. CASE RecordTask(t)
  BY <1>6, WriteTypes DEF RecordTask, Statuses
<1>7. CASE RetryTask(t)
  <2>1. Moved(row[t], "retrying") \in Row
    BY DEF Statuses
  <2>2. [Moved(row[t], "retrying") EXCEPT !.retries = @ + 1] \in Row
    BY <2>1 DEF Row
  <2> QED
    BY <1>7, <2>2, WriteTypes DEF RetryTask
<1>8. ASSUME NEW a \in Agents \cup {NoAgent}, EscalateTask(t, a) PROVE TypeOK'
  <2>1. Moved(row[t], "escalated") \in Row
    BY DEF Statuses
  <2>2. [Moved(row[t], "escalated") EXCEPT
           !.agent = IF a = NoAgent THEN @ ELSE a] \in Row
    BY <2>1 DEF Row
  <2> QED
    BY <1>8, <2>2, WriteTypes DEF EscalateTask
<1>9. CASE CancelTask(t)
  BY <1>9, WriteTypes DEF CancelTask, Statuses
<1>10. ASSUME NEW d \in Approvals, Decide(t, d) PROVE TypeOK'
  <2>1. [row[t] EXCEPT !.approval = d, !.audited = row[t].status] \in Row
    BY DEF Row
  <2> QED
    BY <1>10, <2>1, WriteTypes DEF Decide
<1>11. CASE RequestApproval(t) \/ ApproveTask(t) \/ RejectTask(t)
  BY <1>10, <1>11 DEF RequestApproval, ApproveTask, RejectTask, Approvals
<1> QED
  BY <1>1, <1>2, <1>3, <1>4, <1>5, <1>6, <1>7, <1>8, <1>9, <1>11 DEF OneStep

LEMMA BeginTypes ==
  ASSUME TypeOK, NEW s \in Sessions, NEW t \in Tasks, Begin(s, t)
  PROVE  TypeOK'
<1> USE AbsentType, MovedType
<1>r. row[t] \in Row
  BY DEF TypeOK
<1>a. ASSUME NEW r \in Row, NEW a \in Agents
      PROVE  [Moved(r, "assigned") EXCEPT !.agent = a] \in Row
  <2>1. Moved(r, "assigned") \in Row
    BY DEF Statuses
  <2> QED
    BY <2>1 DEF Row
<1>h. ASSUME NEW pc \in Holders, NEW new \in Row, NEW seen \in Row,
             NEW gains \in SUBSET Agents, NEW loses \in SUBSET (Agents \cup {NoAgent}),
             Step(s, Held(pc, t, seen, new, Loads(gains, loses)))
      PROVE  TypeOK'
  <2>1. IsSession(Held(pc, t, seen, new, Loads(gains, loses)))
    BY LoadTypes, HeldType
  <2> QED
    BY <1>h, <2>1, StepTypes
<1>o. ASSUME NEW pc \in Opening, NEW a \in Agents, NEW seen \in Row,
             Step(s, Opened(pc, t, a, seen))
      PROVE  TypeOK'
  <2>1. IsSession(Opened(pc, t, a, seen))
    BY DEF IsSession, IsOpened, Opened
  <2> QED
    BY <1>o, <2>1, StepTypes
<1>1. ASSUME NEW a \in Agents, OpenAssign(s, t, a) PROVE TypeOK'
  BY <1>1, <1>o DEF OpenAssign, Opening
<1>2. ASSUME NEW a \in Agents, OpenReassign(s, t, a) PROVE TypeOK'
  BY <1>2, <1>o, <1>r DEF OpenReassign, Opening
<1>3. ASSUME NEW a \in Agents, LockCommand(s, t, a) PROVE TypeOK'
  BY <1>3, <1>h, <1>a DEF LockCommand, Holders
<1>4. ASSUME NEW a \in Agents, LockRoute(s, t, a) PROVE TypeOK'
  BY <1>4, <1>h, <1>a, <1>r DEF LockRoute, Holders, Unsaved
<1>5. ASSUME NEW a \in Agents, NEW pc \in {"adapter", "locked"}, LockWorker(s, t, a, pc)
      PROVE  TypeOK'
  <2>1. Moved(row[t], "verifying") \in Row
    BY <1>r DEF Statuses
  <2> QED
    BY <1>5, <1>h, <1>r, <2>1 DEF LockWorker, Holders
<1>6. ASSUME NEW to \in {"verified", "failed"}, LockVerify(s, t, to) PROVE TypeOK'
  <2>1. Moved(row[t], to) \in Row /\ row[t].agent \in Agents \cup {NoAgent}
    BY <1>r DEF Statuses, Row
  <2> QED
    BY <1>6, <1>h, <1>r, <2>1 DEF LockVerify, Holders
<1>7. CASE LockFail(s, t)
  <2>1. Moved(row[t], "failed") \in Row /\ row[t].agent \in Agents \cup {NoAgent}
    BY <1>r DEF Statuses, Row
  <2> QED
    BY <1>7, <1>h, <1>r, <2>1 DEF LockFail, Holders
<1>8. ASSUME NEW a \in Agents, OpenTick(s, t, a) PROVE TypeOK'
  BY <1>8, <1>o, <1>r DEF OpenTick, Opening
<1> QED
  BY <1>1, <1>2, <1>3, <1>4, <1>5, <1>6, <1>7, <1>8 DEF Begin

\* What a waiting and a holding session contain.
LEMMA SessionParts ==
  ASSUME TypeOK, NEW s \in Sessions
  PROVE  /\ Waiting(s) => /\ session[s].task \in Tasks
                          /\ session[s].agent \in Agents
                          /\ session[s].seen \in Row
         /\ Holding(s) => /\ session[s].task \in Tasks
                          /\ session[s].seen \in Row
                          /\ session[s].new \in Row
                          /\ DOMAIN session[s].loads \subseteq Agents
                          /\ session[s].loads \in [DOMAIN session[s].loads -> Nat]
         /\ session[s] = Idle \/ Waiting(s) \/ Holding(s)
<1>1. IsSession(session[s])
  BY DEF TypeOK
<1>2. CASE session[s] = Idle
  BY <1>2 DEF Idle, Waiting, Holding, Opening, Holders, Unsaved
<1>3. CASE IsOpened(session[s])
  BY <1>3 DEF IsOpened, Waiting, Holding, Opening, Holders, Unsaved
<1>4. CASE IsHeld(session[s])
  BY <1>4 DEF IsHeld, Waiting, Holding, Opening, Holders, Unsaved
<1> QED
  BY <1>1, <1>2, <1>3, <1>4 DEF IsSession

\* A flush writes a row.
LEMMA FlushType ==
  ASSUME NEW r \in Row, NEW seen \in Row, NEW new \in Row
  PROVE  Flush(r, seen, new) \in Row
BY DEF Flush, Row

LEMMA SessionTypes ==
  ASSUME TypeOK, NEW s \in Sessions, TakeLock(s) \/ Finish(s) \/ Crash(s)
  PROVE  TypeOK'
<1> USE MovedType, SessionParts
<1> DEFINE t == session[s].task
<1>i. ASSUME Step(s, Idle) PROVE TypeOK'
  BY <1>i, StepTypes DEF IsSession
<1>h. ASSUME NEW pc \in Holders, t \in Tasks, NEW new \in Row, NEW seen \in Row,
             NEW gains \in SUBSET Agents, NEW loses \in SUBSET (Agents \cup {NoAgent}),
             Step(s, Held(pc, t, seen, new, Loads(gains, loses)))
      PROVE  TypeOK'
  <2>1. IsSession(Held(pc, t, seen, new, Loads(gains, loses)))
    BY <1>h, LoadTypes, HeldType
  <2> QED
    BY <1>h, <2>1, StepTypes
<1>a. ASSUME NEW r \in Row, NEW a \in Agents
      PROVE  [Moved(r, "assigned") EXCEPT !.agent = a] \in Row
  <2>1. Moved(r, "assigned") \in Row
    BY DEF Statuses
  <2> QED
    BY <2>1 DEF Row
<1>1. CASE LockAssign(s)
  <2>1. Waiting(s) /\ t \in Tasks /\ session[s].agent \in Agents /\ row[t] \in Row
    BY <1>1 DEF LockAssign, Waiting, Opening, TypeOK
  <2> QED
    BY <1>1, <1>h, <1>a, <2>1 DEF LockAssign, Holders
<1>2. CASE LockReassign(s)
  <2>1. Waiting(s) /\ t \in Tasks /\ session[s].agent \in Agents /\ session[s].seen \in Row
    BY <1>2 DEF LockReassign, Waiting, Opening
  <2>2. session[s].seen.agent \in Agents \cup {NoAgent}
    BY <2>1 DEF Row
  <2> DEFINE a == session[s].agent
             seen == session[s].seen
             new == [Moved(seen, "assigned") EXCEPT !.agent = a]
  <2>3. new \in Row
    BY <2>1, <1>a
  <2>4. Step(s, Held("locked", t, seen, new, Loads({a}, {seen.agent})))
    BY <1>2 DEF LockReassign
  <2>5. {a} \in SUBSET Agents /\ {seen.agent} \in SUBSET (Agents \cup {NoAgent})
    BY <2>1, <2>2
  <2> HIDE DEF a, seen, new
  <2> QED
    BY <1>h, <2>1, <2>3, <2>4, <2>5 DEF Holders, seen
<1>6. CASE LockTick(s)
  <2> DEFINE a == session[s].agent
             seen == session[s].seen
             new == [Moved(seen, "assigned") EXCEPT !.agent = a]
  <2>1. Waiting(s) /\ t \in Tasks /\ a \in Agents /\ seen \in Row
    BY <1>6 DEF LockTick, Waiting, Opening
  <2>2. new \in Row
    BY <2>1, <1>a
  <2>3. Step(s, Held("locked", t, seen, new, Loads({a}, {})))
    BY <1>6 DEF LockTick
  <2> HIDE DEF a, seen, new
  <2> QED
    BY <1>h, <2>1, <2>2, <2>3 DEF Holders
<1>3. CASE Refuse(s) \/ RollBack(s) \/ Crash(s)
  BY <1>3, <1>i DEF Refuse, RollBack, Crash
<1>4. CASE AdapterFails(s)
  <2>1. Holding(s) /\ t \in Tasks /\ session[s].seen \in Row /\ row[t] \in Row
    BY <1>4 DEF AdapterFails, Holding, Holders, TypeOK
  <2>2. PICK to \in {row[t].status, "failed"} :
          Step(s, Held("raised", t, session[s].seen, Moved(session[s].seen, to),
                       Loads({}, {})))
    BY <1>4 DEF AdapterFails
  <2>3. to \in Statuses \cup {"absent"}
    BY <2>1 DEF Row, Statuses
  <2>4. Moved(session[s].seen, to) \in Row
    BY <2>1, <2>3 DEF Moved, Row
  <2> QED
    BY <1>h, <2>1, <2>2, <2>4 DEF Holders, Unsaved
<1>5. CASE Commit(s)
  <2>1. Holding(s)
    BY <1>5 DEF Commit, Holding, Holders
  <2>2. t \in Tasks /\ Flush(row[t], session[s].seen, session[s].new) \in Row
    BY <2>1, FlushType DEF TypeOK
  <2>3. row' \in [Tasks -> Row]
    BY <1>5, <2>2 DEF Commit, TypeOK
  <2>4. workload' \in [Agents -> Nat]
    BY <1>5, <2>1 DEF Commit, TypeOK
  <2>5. DOMAIN session' = Sessions /\ \A x \in Sessions : IsSession(session'[x])
    <3>1. IsSession(Idle)
      BY DEF IsSession
    <3> QED
      BY <1>5, <3>1 DEF Commit, TypeOK
  <2> QED
    BY <2>3, <2>4, <2>5 DEF TypeOK
<1> QED
  BY <1>1, <1>2, <1>3, <1>4, <1>5, <1>6 DEF TakeLock, Finish

LEMMA InitTypes == Init => TypeOK
BY AbsentType DEF Init, TypeOK, IsSession

LEMMA NextTypes == TypeOK /\ [Next]_vars => TypeOK'
<1> SUFFICES ASSUME TypeOK, [Next]_vars PROVE TypeOK'
  OBVIOUS
<1>1. CASE UNCHANGED vars
  BY <1>1 DEF vars, TypeOK
<1>2. ASSUME NEW t \in Tasks, OneStep(t) PROVE TypeOK'
  BY <1>2, OneStepTypes
<1>3. ASSUME NEW s \in Sessions, NEW t \in Tasks, Begin(s, t) PROVE TypeOK'
  BY <1>3, BeginTypes
<1>4. ASSUME NEW s \in Sessions, TakeLock(s) \/ Finish(s) \/ Crash(s) PROVE TypeOK'
  BY <1>4, SessionTypes
<1> QED
  BY <1>1, <1>2, <1>3, <1>4 DEF Next

\* Every variable keeps its type in every reachable state.
THEOREM TypeCorrect == Spec => []TypeOK
BY InitTypes, NextTypes, PTL DEF Spec

-----------------------------------------------------------------------------
(* The approval invariant.                                                 *)

Approval == Exclusive /\ FlushIsCleared /\ ApprovedBeforeExecution

\* Writing a row that nobody holds keeps the invariant if the row written is
\* cleared whenever it shows protected work.
LEMMA WriteKeeps ==
  ASSUME ApprovalInv, NEW t \in Tasks, NEW r, Free(t), Write(t, r),
         r.status \in Protected => Cleared(r)
  PROVE  Approval'
<1>1. session' = session /\ row' = [row EXCEPT ![t] = r] /\ row \in [Tasks -> Row]
  BY DEF Write, ApprovalInv, TypeOK
<1>2. Exclusive'
  BY <1>1 DEF ApprovalInv, Exclusive, Holding
<1>3. ASSUME NEW s \in Sessions, Holding(s)
      PROVE  row'[session[s].task] = row[session[s].task]
  BY <1>1, <1>3, SessionParts DEF Free, ApprovalInv
<1>4. FlushIsCleared'
  BY <1>1, <1>3 DEF ApprovalInv, FlushIsCleared, Holding, Cleared
<1>5. ApprovedBeforeExecution'
  BY <1>1 DEF ApprovalInv, ApprovedBeforeExecution, Cleared
<1> QED
  BY <1>2, <1>4, <1>5 DEF Approval

\* A session step keeps the invariant if the lock it ends up with was free or
\* its own, and what it will flush is cleared.
LEMMA StepKeeps ==
  ASSUME ApprovalInv, NEW s \in Sessions, NEW x, Step(s, x),
         x.pc \in Holders =>
           /\ Free(x.task) \/ (Holding(s) /\ session[s].task = x.task)
           /\ x.new.approval = x.seen.approval
           /\ x.pc = "adapter" \/ x.new.status \in Protected => Cleared(row[x.task])
  PROVE  Approval'
<1>1. row' = row /\ session' = [session EXCEPT ![s] = x] /\ DOMAIN session = Sessions
  BY DEF Step, ApprovalInv, TypeOK
<1>2. Exclusive'
  <2> SUFFICES ASSUME NEW p \in Sessions, NEW q \in Sessions, Holding(p)', Holding(q)',
                      session'[p].task = session'[q].task
               PROVE  p = q
    BY DEF Exclusive
  <2>1. CASE p # s /\ q # s
    BY <1>1, <2>1 DEF ApprovalInv, Exclusive, Holding
  <2>2. ASSUME NEW o \in Sessions, o # s, Holding(o)', x.pc \in Holders,
               session'[o].task = x.task
        PROVE  FALSE
    <3>1. Holding(o) /\ session[o].task = x.task
      BY <1>1, <2>2 DEF Holding
    <3> QED
      BY <2>2, <3>1 DEF Free, ApprovalInv, Exclusive
  <2>3. CASE p = s /\ q # s
    BY <1>1, <2>2, <2>3 DEF Holding
  <2>4. CASE q = s /\ p # s
    BY <1>1, <2>2, <2>4 DEF Holding
  <2> QED
    BY <2>1, <2>3, <2>4
<1>3. FlushIsCleared'
  BY <1>1 DEF ApprovalInv, FlushIsCleared, Holding, Cleared
<1>4. ApprovedBeforeExecution'
  BY <1>1 DEF ApprovalInv, ApprovedBeforeExecution, Cleared
<1> QED
  BY <1>2, <1>3, <1>4 DEF Approval

LEMMA CommitKeeps ==
  ASSUME ApprovalInv, NEW s \in Sessions, Commit(s)
  PROVE  Approval'
<1> DEFINE t == session[s].task
           r == Flush(row[t], session[s].seen, session[s].new)
<1>1. Holding(s) /\ t \in Tasks /\ row[t] \in Row
  BY SessionParts DEF Commit, Holding, Holders, ApprovalInv, TypeOK
<1>2. /\ row' = [row EXCEPT ![t] = r] /\ row \in [Tasks -> Row]
      /\ session' = [session EXCEPT ![s] = Idle] /\ DOMAIN session = Sessions
  BY DEF Commit, ApprovalInv, TypeOK
<1>3. r.approval = row[t].approval /\ r.required = row[t].required
  BY <1>1 DEF ApprovalInv, FlushIsCleared, Flush
<1>4. r.status \in Protected => Cleared(r)
  <2>1. r.status \in Protected => Cleared(row[t])
    BY <1>1 DEF ApprovalInv, FlushIsCleared, ApprovedBeforeExecution, Flush
  <2> QED
    BY <1>3, <2>1 DEF Cleared
<1>5. ~ Holding(s)'
  BY <1>2 DEF Holding, Idle, Holders, Unsaved
<1>6. ASSUME NEW o \in Sessions, Holding(o)'
      PROVE  /\ Holding(o) /\ session'[o] = session[o]
             /\ row'[session[o].task] = row[session[o].task]
  <2>1. o # s /\ Holding(o) /\ session'[o] = session[o]
    BY <1>2, <1>5, <1>6 DEF Holding
  <2>2. session[o].task # t /\ session[o].task \in Tasks
    BY <1>1, <2>1, SessionParts DEF ApprovalInv, Exclusive
  <2> QED
    BY <1>2, <2>1, <2>2
<1>7. Exclusive'
  BY <1>6 DEF ApprovalInv, Exclusive
<1>8. FlushIsCleared'
  BY <1>6 DEF ApprovalInv, FlushIsCleared, Cleared, Holding
<1> HIDE DEF r
<1>9. ApprovedBeforeExecution'
  BY <1>1, <1>2, <1>4 DEF ApprovalInv, ApprovedBeforeExecution, Cleared
<1> QED
  BY <1>7, <1>8, <1>9 DEF Approval

LEMMA OneStepKeeps ==
  ASSUME ApprovalInv, NEW t \in Tasks, OneStep(t)
  PROVE  Approval'
<1>r. row[t] \in Row /\ (row[t].status \in Protected => Cleared(row[t]))
  BY DEF ApprovalInv, TypeOK, ApprovedBeforeExecution
<1>m. ASSUME NEW to \in Statuses
      PROVE  /\ Moved(row[t], to).status = to
             /\ Cleared(Moved(row[t], to)) <=> Cleared(row[t])
  BY <1>r DEF Moved, Row, Cleared
<1>1. ASSUME NEW a \in Agents \cup {NoAgent}, NEW req \in BOOLEAN, CreateTask(t, a, req)
      PROVE  Approval'
  <2>1. [Moved(Absent, "created") EXCEPT !.agent = a, !.required = req].status = "created"
    BY DEF Moved, Absent
  <2> QED
    BY <1>1, <2>1, WriteKeeps DEF CreateTask, Protected
<1>2. ASSUME NEW a \in Agents, AcceptTask(t, a) PROVE Approval'
  BY <1>2, <1>m, WriteKeeps DEF AcceptTask, Ready, Statuses, Protected
<1>3. ASSUME NEW a \in Agents, StartInvestigation(t, a) PROVE Approval'
  BY <1>3, <1>m, WriteKeeps DEF StartInvestigation, Ready, Statuses, Protected
<1>4. ASSUME NEW a \in Agents, StartExecution(t, a) PROVE Approval'
  BY <1>4, <1>m, WriteKeeps DEF StartExecution, Ready, Statuses
<1>5. ASSUME NEW a \in Agents, SubmitForVerification(t, a) PROVE Approval'
  <2>1. row[t].status = "executing"
    BY <1>5 DEF SubmitForVerification, Ready, CanMove, Edges
  <2> QED
    BY <1>5, <1>m, <1>r, <2>1, WriteKeeps
    DEF SubmitForVerification, Ready, Statuses, Protected
<1>6. CASE RecordTask(t)
  <2>1. row[t].status = "verified"
    BY <1>6 DEF RecordTask, Ready, CanMove, Edges
  <2> QED
    BY <1>6, <1>m, <1>r, <2>1, WriteKeeps DEF RecordTask, Ready, Statuses, Protected
<1>7. CASE RetryTask(t)
  <2>1. [Moved(row[t], "retrying") EXCEPT !.retries = @ + 1].status = "retrying"
    BY <1>r DEF Moved, Row
  <2> QED
    BY <1>7, <2>1, WriteKeeps DEF RetryTask, Ready, Protected
<1>8. ASSUME NEW a \in Agents \cup {NoAgent}, EscalateTask(t, a) PROVE Approval'
  <2>1. [Moved(row[t], "escalated") EXCEPT
           !.agent = IF a = NoAgent THEN @ ELSE a].status = "escalated"
    BY <1>r DEF Moved, Row
  <2> QED
    BY <1>8, <2>1, WriteKeeps DEF EscalateTask, Protected
<1>9. CASE CancelTask(t)
  BY <1>9, <1>m, WriteKeeps DEF CancelTask, Ready, Statuses, Protected
<1>10. ASSUME NEW d \in Approvals, Decide(t, d), Free(t),
              d = "approved" \/ row[t].status \notin Protected
       PROVE  Approval'
  <2> DEFINE r == [row[t] EXCEPT !.approval = d, !.audited = row[t].status]
  <2>1. r.status = row[t].status /\ r.approval = d
    BY <1>r DEF Row
  <2>2. r.status \in Protected => Cleared(r)
    BY <1>10, <2>1 DEF Cleared
  <2>3. Write(t, r)
    BY <1>10 DEF Decide
  <2> HIDE DEF r
  <2> QED
    BY <1>10, <2>2, <2>3, WriteKeeps
<1>11. CASE RequestApproval(t)
  BY <1>10, <1>11 DEF RequestApproval, Approvals, Protected
<1>12. CASE ApproveTask(t)
  BY <1>10, <1>12 DEF ApproveTask, Approvals
<1>13. CASE RejectTask(t)
  <2>1. ~ Cleared(row[t])
    BY <1>13 DEF RejectTask, Cleared
  <2> QED
    BY <1>10, <1>13, <1>r, <2>1 DEF RejectTask, Approvals
<1> QED
  BY <1>1, <1>2, <1>3, <1>4, <1>5, <1>6, <1>7, <1>8, <1>9, <1>11, <1>12, <1>13
  DEF OneStep

LEMMA BeginKeeps ==
  ASSUME ApprovalInv, NEW s \in Sessions, NEW t \in Tasks, Begin(s, t)
  PROVE  Approval'
<1>r. row[t] \in Row /\ (row[t].status \in Protected => Cleared(row[t]))
  BY DEF ApprovalInv, TypeOK, ApprovedBeforeExecution
<1>m. ASSUME NEW r \in Row, NEW to \in Statuses
      PROVE  /\ Moved(r, to).status = to
             /\ Moved(r, to).approval = r.approval
             /\ \A a \in Agents :
                  LET new == [Moved(r, to) EXCEPT !.agent = a]
                  IN  new.status = to /\ new.approval = r.approval
  BY DEF Moved, Row
<1>h. ASSUME NEW pc \in Holders, NEW seen, NEW new, NEW loads, Free(t),
             Step(s, Held(pc, t, seen, new, loads)),
             new.approval = seen.approval,
             pc = "adapter" \/ new.status \in Protected => Cleared(row[t])
      PROVE  Approval'
  <2> DEFINE x == Held(pc, t, seen, new, loads)
  <2>1. x.pc = pc /\ x.task = t /\ x.new = new /\ x.seen = seen
    BY DEF Held
  <2> HIDE DEF x
  <2>2. Step(s, x)
    BY <1>h DEF x
  <2> QED
    BY <1>h, <2>1, <2>2, StepKeeps
<1>o. ASSUME NEW pc \in Opening, NEW a, NEW seen, Step(s, Opened(pc, t, a, seen))
      PROVE  Approval'
  <2>1. Opened(pc, t, a, seen).pc \notin Holders
    BY DEF Opened, Opening, Holders, Unsaved
  <2> QED
    BY <1>o, <2>1, StepKeeps
<1>1. ASSUME NEW a \in Agents, OpenAssign(s, t, a) PROVE Approval'
  BY <1>1, <1>o DEF OpenAssign, Opening
<1>2. ASSUME NEW a \in Agents, OpenReassign(s, t, a) PROVE Approval'
  BY <1>2, <1>o DEF OpenReassign, Opening
<1>3. ASSUME NEW a \in Agents, LockCommand(s, t, a) PROVE Approval'
  <2> DEFINE new == [Moved(Absent, "assigned") EXCEPT !.agent = a]
  <2>1. new.status = "assigned" /\ new.approval = Absent.approval
    BY <1>m, AbsentType DEF Statuses
  <2>2. Free(t) /\ Step(s, Held("locked", t, Absent, new, Loads({a}, {})))
    BY <1>3 DEF LockCommand
  <2> HIDE DEF new
  <2> QED
    BY <1>h, <2>1, <2>2 DEF Holders, Protected
<1>4. ASSUME NEW a \in Agents, LockRoute(s, t, a) PROVE Approval'
  <2> DEFINE new == [Moved(row[t], "assigned") EXCEPT !.agent = a]
  <2>1. new.status = "assigned" /\ new.approval = row[t].approval
    BY <1>m, <1>r DEF Statuses
  <2>2. Free(t) /\ Step(s, Held("routed", t, row[t], new, Loads({a}, {})))
    BY <1>4 DEF LockRoute, Ready
  <2> HIDE DEF new
  <2> QED
    BY <1>h, <2>1, <2>2 DEF Holders, Unsaved, Protected
<1>5. ASSUME NEW a \in Agents, NEW pc \in {"adapter", "locked"}, LockWorker(s, t, a, pc)
      PROVE  Approval'
  BY <1>5, <1>h, <1>m, <1>r DEF LockWorker, Holders, Statuses
<1>6. ASSUME NEW to \in {"verified", "failed"}, LockVerify(s, t, to) PROVE Approval'
  <2>1. Cleared(row[t])
    BY <1>6, <1>r DEF LockVerify, Protected
  <2> QED
    BY <1>6, <1>h, <1>m, <1>r, <2>1 DEF LockVerify, Ready, Holders, Statuses
<1>7. CASE LockFail(s, t)
  BY <1>7, <1>h, <1>m, <1>r DEF LockFail, Holders, Statuses, Protected
<1>8. ASSUME NEW a \in Agents, OpenTick(s, t, a) PROVE Approval'
  BY <1>8, <1>o DEF OpenTick, Opening
<1> QED
  BY <1>1, <1>2, <1>3, <1>4, <1>5, <1>6, <1>7, <1>8 DEF Begin

LEMMA SessionKeeps ==
  ASSUME ApprovalInv, NEW s \in Sessions, TakeLock(s) \/ Finish(s) \/ Crash(s)
  PROVE  Approval'
<1> DEFINE t == session[s].task
<1>p. TypeOK
  BY DEF ApprovalInv
<1>m. ASSUME NEW r \in Row, NEW to \in Statuses \cup {"absent"}
      PROVE  /\ Moved(r, to).status = to
             /\ Moved(r, to).approval = r.approval
             /\ \A a \in Agents :
                  LET new == [Moved(r, to) EXCEPT !.agent = a]
                  IN  new.status = to /\ new.approval = r.approval
  BY DEF Moved, Row
<1>h. ASSUME NEW pc \in Holders, NEW seen, NEW new, NEW loads,
             Free(t) \/ Holding(s),
             Step(s, Held(pc, t, seen, new, loads)),
             new.approval = seen.approval,
             pc = "adapter" \/ new.status \in Protected => Cleared(row[t])
      PROVE  Approval'
  <2> DEFINE x == Held(pc, t, seen, new, loads)
  <2>1. x.pc = pc /\ x.task = t /\ x.new = new /\ x.seen = seen
    BY DEF Held
  <2> HIDE DEF x
  <2>2. Step(s, x)
    BY <1>h DEF x
  <2> QED
    BY <1>h, <2>1, <2>2, StepKeeps
<1>i. ASSUME Step(s, Idle) PROVE Approval'
  <2>1. Idle.pc \notin Holders
    BY DEF Idle, Holders, Unsaved
  <2> QED
    BY <1>i, <2>1, StepKeeps
<1>1. CASE LockAssign(s)
  <2> DEFINE a == session[s].agent
             new == [Moved(row[t], "assigned") EXCEPT !.agent = a]
  <2>1. row[t] \in Row /\ a \in Agents
    BY <1>1, <1>p, SessionParts DEF LockAssign, Waiting, Opening, TypeOK
  <2>2. new.status = "assigned" /\ new.approval = row[t].approval
    BY <1>m, <2>1 DEF Statuses
  <2>3. Free(t) /\ Step(s, Held("locked", t, row[t], new, Loads({a}, {})))
    BY <1>1 DEF LockAssign, Ready
  <2> HIDE DEF new, a
  <2> QED
    BY <1>h, <2>2, <2>3 DEF Holders, Protected
<1>2. CASE LockReassign(s)
  <2> DEFINE a == session[s].agent
             seen == session[s].seen
             new == [Moved(seen, "assigned") EXCEPT !.agent = a]
  <2>1. seen \in Row /\ a \in Agents
    BY <1>2, <1>p, SessionParts DEF LockReassign, Waiting, Opening
  <2>2. new.status = "assigned" /\ new.approval = seen.approval
    BY <1>m, <2>1 DEF Statuses
  <2>3. Free(t) /\ Step(s, Held("locked", t, seen, new, Loads({a}, {seen.agent})))
    BY <1>2 DEF LockReassign
  <2> HIDE DEF new, a, seen
  <2> QED
    BY <1>h, <2>2, <2>3 DEF Holders, Protected
<1>6. CASE LockTick(s)
  <2> DEFINE a == session[s].agent
             seen == session[s].seen
             new == [Moved(seen, "assigned") EXCEPT !.agent = a]
  <2>1. seen \in Row /\ a \in Agents
    BY <1>6, <1>p, SessionParts DEF LockTick, Waiting, Opening
  <2>2. new.status = "assigned" /\ new.approval = seen.approval
    BY <1>m, <2>1 DEF Statuses
  <2>3. Free(t) /\ Step(s, Held("locked", t, seen, new, Loads({a}, {})))
    BY <1>6 DEF LockTick
  <2> HIDE DEF new, a, seen
  <2> QED
    BY <1>h, <2>2, <2>3 DEF Holders, Protected
<1>3. CASE Refuse(s) \/ RollBack(s) \/ Crash(s)
  BY <1>3, <1>i DEF Refuse, RollBack, Crash
<1>4. CASE AdapterFails(s)
  <2> DEFINE seen == session[s].seen
  <2>1. Holding(s) /\ t \in Tasks /\ seen \in Row /\ row[t] \in Row /\ Cleared(row[t])
    BY <1>4, <1>p, SessionParts
    DEF AdapterFails, Holding, Holders, TypeOK, ApprovalInv, FlushIsCleared
  <2>2. PICK to \in {row[t].status, "failed"} :
          Step(s, Held("raised", t, seen, Moved(seen, to), Loads({}, {})))
    BY <1>4 DEF AdapterFails
  <2>3. Moved(seen, to).approval = seen.approval
    BY <2>1 DEF Moved, Row
  <2> HIDE DEF seen
  <2> QED
    BY <1>h, <2>1, <2>2, <2>3 DEF Holders, Unsaved
<1>5. CASE Commit(s)
  BY <1>5, CommitKeeps
<1> QED
  BY <1>1, <1>2, <1>3, <1>4, <1>5, <1>6 DEF TakeLock, Finish

LEMMA InitApproval == Init => ApprovalInv
<1> SUFFICES ASSUME Init PROVE ApprovalInv
  OBVIOUS
<1>1. \A s \in Sessions : ~ Holding(s)
  BY DEF Init, Holding, Idle, Holders, Unsaved
<1>2. \A t \in Tasks : row[t].status \notin Protected
  BY DEF Init, Absent, Protected
<1> QED
  BY <1>1, <1>2, InitTypes
  DEF ApprovalInv, Exclusive, FlushIsCleared, ApprovedBeforeExecution

LEMMA NextApproval == ApprovalInv /\ [Next]_vars => ApprovalInv'
<1> SUFFICES ASSUME ApprovalInv, [Next]_vars PROVE Approval'
  BY NextTypes DEF ApprovalInv, Approval
<1>1. CASE UNCHANGED vars
  BY <1>1 DEF vars, Approval, ApprovalInv, Exclusive, FlushIsCleared,
              ApprovedBeforeExecution, Holding, Cleared
<1>2. ASSUME NEW t \in Tasks, OneStep(t) PROVE Approval'
  BY <1>2, OneStepKeeps
<1>3. ASSUME NEW s \in Sessions, NEW t \in Tasks, Begin(s, t) PROVE Approval'
  BY <1>3, BeginKeeps
<1>4. ASSUME NEW s \in Sessions, TakeLock(s) \/ Finish(s) \/ Crash(s) PROVE Approval'
  BY <1>4, SessionKeeps
<1> QED
  BY <1>1, <1>2, <1>3, <1>4 DEF Next

\* The invariant that carries the approval boundary holds throughout.
THEOREM ApprovalInvariant == Spec => []ApprovalInv
BY InitApproval, NextApproval, PTL DEF Spec

\* While a tool adapter runs for a task (run_worker_execution), the committed
\* row of the task allows the work.
THEOREM GateAlwaysHolds == Spec => []GateHolds
<1>1. ApprovalInv => GateHolds
  BY DEF ApprovalInv, FlushIsCleared, GateHolds, Holding, Holders
<1> QED
  BY <1>1, ApprovalInvariant, PTL

\* No task that requires approval is past the start of execution without it.
THEOREM ExecutionIsApproved == Spec => []ApprovedBeforeExecution
<1>1. ApprovalInv => ApprovedBeforeExecution
  BY DEF ApprovalInv
<1> QED
  BY <1>1, ApprovalInvariant, PTL

\* The row lock lets one request at a time run the tool of a task.
THEOREM OneWorker == Spec => []OneWorkerPerTask
<1>1. ApprovalInv => OneWorkerPerTask
  BY DEF ApprovalInv, Exclusive, OneWorkerPerTask, Holding, Holders
<1> QED
  BY <1>1, ApprovalInvariant, PTL

-----------------------------------------------------------------------------
(* The lifecycle implements ApprovalGate.                                  *)

RequiredNow == {t \in Tasks : row[t].required}
ApprovalNow == [t \in Tasks |-> row[t].approval]
GateStep == [Gate!Next]_(Gate!vars)

\* A step that changes neither requirements, approvals nor running work.
LEMMA Stutters ==
  ASSUME RequiredNow' = RequiredNow, ApprovalNow' = ApprovalNow, Running' = Running
  PROVE  GateStep
BY DEF GateStep, Gate!vars, RequiredNow, ApprovalNow

\* A row nobody holds has no running work.
LEMMA FreeIsIdle ==
  ASSUME NEW t, Free(t)
  PROVE  t \notin Running
BY DEF Free, Running, Holding, Holders

\* A one-step request that leaves requirement and approval alone.
LEMMA QuietWrite ==
  ASSUME TypeOK, NEW t \in Tasks, NEW r, Write(t, r),
         r.required = row[t].required, r.approval = row[t].approval
  PROVE  GateStep
<1>1. RequiredNow' = RequiredNow /\ ApprovalNow' = ApprovalNow
  BY DEF Write, TypeOK, RequiredNow, ApprovalNow
<1>2. Running' = Running
  BY DEF Write, Running
<1> QED
  BY <1>1, <1>2, Stutters

LEMMA OneStepImplements ==
  ASSUME TypeOK, NEW t \in Tasks, OneStep(t)
  PROVE  GateStep
<1>r. row[t] \in Row /\ row \in [Tasks -> Row]
  BY DEF TypeOK
<1>m. ASSUME NEW to
      PROVE  /\ Moved(row[t], to).required = row[t].required
             /\ Moved(row[t], to).approval = row[t].approval
  BY <1>r DEF Moved, Row
<1>1. ASSUME NEW a \in Agents \cup {NoAgent}, NEW req \in BOOLEAN, CreateTask(t, a, req)
      PROVE  GateStep
  <2> DEFINE r == [Moved(Absent, "created") EXCEPT !.agent = a, !.required = req]
  <2>1. /\ r.required = req /\ r.approval = "not_required"
        /\ row[t].required = FALSE /\ row[t].approval = "not_required"
    BY <1>1 DEF CreateTask, Moved, Absent
  <2>2. Write(t, r) /\ t \notin Running
    BY <1>1, FreeIsIdle DEF CreateTask
  <2> HIDE DEF r
  <2>3. CASE req = FALSE
    BY <2>1, <2>2, <2>3, QuietWrite
  <2>4. CASE req = TRUE
    <3>1. RequiredNow' = RequiredNow \cup {t} /\ ApprovalNow' = ApprovalNow
      BY <1>r, <2>1, <2>2, <2>4 DEF Write, RequiredNow, ApprovalNow
    <3>2. Running' = Running
      BY <2>2 DEF Write, Running
    <3>3. Gate!Require(t)
      BY <2>1, <2>2, <3>1, <3>2 DEF Gate!Require, RequiredNow, ApprovalNow
    <3> QED
      BY <3>3 DEF GateStep, Gate!Next
  <2> QED
    BY <2>3, <2>4
<1>2. CASE \/ \E a \in Agents : \/ AcceptTask(t, a)
                                \/ StartInvestigation(t, a)
                                \/ StartExecution(t, a)
                                \/ SubmitForVerification(t, a)
           \/ RecordTask(t)
           \/ CancelTask(t)
  <2>1. PICK to : Write(t, Moved(row[t], to))
    BY <1>2 DEF AcceptTask, StartInvestigation, StartExecution,
                SubmitForVerification, RecordTask, CancelTask
  <2> QED
    BY <1>m, <2>1, QuietWrite
<1>3. CASE RetryTask(t)
  <2>1. LET r == [Moved(row[t], "retrying") EXCEPT !.retries = @ + 1]
        IN  r.required = row[t].required /\ r.approval = row[t].approval
    BY <1>r DEF Moved, Row
  <2> QED
    BY <1>3, <2>1, QuietWrite DEF RetryTask
<1>4. ASSUME NEW a \in Agents \cup {NoAgent}, EscalateTask(t, a) PROVE GateStep
  <2>1. LET r == [Moved(row[t], "escalated") EXCEPT
                    !.agent = IF a = NoAgent THEN @ ELSE a]
        IN  r.required = row[t].required /\ r.approval = row[t].approval
    BY <1>r DEF Moved, Row
  <2> QED
    BY <1>4, <2>1, QuietWrite DEF EscalateTask
<1>5. ASSUME NEW d, Decide(t, d)
      PROVE  /\ RequiredNow' = RequiredNow
             /\ ApprovalNow' = [ApprovalNow EXCEPT ![t] = d]
             /\ Running' = Running
  <2> DEFINE r == [row[t] EXCEPT !.approval = d, !.audited = row[t].status]
  <2>1. r.required = row[t].required /\ r.approval = d
    BY <1>r DEF Row
  <2>2. row' = [row EXCEPT ![t] = r] /\ session' = session
    BY <1>5 DEF Decide, Write
  <2> HIDE DEF r
  <2> QED
    BY <1>r, <2>1, <2>2 DEF RequiredNow, ApprovalNow, Running
<1>6. CASE RequestApproval(t)
  <2>1. Decide(t, "waiting") /\ t \notin Running
    BY <1>6, FreeIsIdle DEF RequestApproval
  <2>2. row[t].required /\ row[t].approval \in {"not_required", "rejected"}
    BY <1>6, <1>r DEF RequestApproval, Row, Approvals
  <2>3. Gate!Request(t)
    BY <1>5, <2>1, <2>2 DEF Gate!Request, Gate!Move, RequiredNow, ApprovalNow
  <2> QED
    BY <2>3 DEF GateStep, Gate!Next
<1>7. CASE ApproveTask(t)
  <2>1. Decide(t, "approved") /\ t \notin Running
    BY <1>7, FreeIsIdle DEF ApproveTask
  <2>2. row[t].required /\ row[t].approval = "waiting"
    BY <1>7 DEF ApproveTask
  <2>3. Gate!Grant(t)
    BY <1>5, <2>1, <2>2 DEF Gate!Grant, Gate!Move, RequiredNow, ApprovalNow
  <2> QED
    BY <2>3 DEF GateStep, Gate!Next
<1>8. CASE RejectTask(t)
  <2>1. Decide(t, "rejected") /\ t \notin Running
    BY <1>8, FreeIsIdle DEF RejectTask
  <2>2. row[t].required /\ row[t].approval = "waiting"
    BY <1>8 DEF RejectTask
  <2>3. Gate!Decline(t)
    BY <1>5, <2>1, <2>2 DEF Gate!Decline, Gate!Move, RequiredNow, ApprovalNow
  <2> QED
    BY <2>3 DEF GateStep, Gate!Next
<1> QED
  BY <1>1, <1>2, <1>3, <1>4, <1>6, <1>7, <1>8 DEF OneStep

\* A session step to x changes the running work only by its own task.
LEMMA StepImplements ==
  ASSUME ApprovalInv, NEW s \in Sessions, NEW x, Step(s, x),
         x.pc = "adapter" =>
           /\ session[s].pc # "adapter"
           /\ x.task \in Tasks /\ Free(x.task) /\ Cleared(row[x.task])
  PROVE  GateStep
<1>1. /\ row' = row /\ session' = [session EXCEPT ![s] = x]
      /\ DOMAIN session = Sessions
  BY DEF Step, ApprovalInv, TypeOK
<1>2. RequiredNow' = RequiredNow /\ ApprovalNow' = ApprovalNow
  BY <1>1 DEF RequiredNow, ApprovalNow
<1>3. CASE x.pc = "adapter"
  <2>1. Running' = Running \cup {x.task}
    BY <1>1, <1>3 DEF Running
  <2>2. x.task \notin Running
    BY <1>3, FreeIsIdle
  <2>3. Gate!Start(x.task)
    BY <1>2, <1>3, <2>1, <2>2 DEF Gate!Start, Cleared, RequiredNow, ApprovalNow
  <2> QED
    BY <1>3, <2>3 DEF GateStep, Gate!Next
<1>4. CASE x.pc # "adapter" /\ session[s].pc # "adapter"
  <2>1. Running' = Running
    BY <1>1, <1>4 DEF Running
  <2> QED
    BY <1>2, <2>1, Stutters
<1>5. CASE x.pc # "adapter" /\ session[s].pc = "adapter"
  <2> DEFINE t == session[s].task
  <2>1. t \in Tasks /\ t \in Running
    BY <1>5, SessionParts DEF ApprovalInv, Holding, Holders, Running
  <2>2. \A o \in Sessions : session[o].pc = "adapter" /\ session[o].task = t => o = s
    BY <1>5 DEF ApprovalInv, Exclusive, Holding, Holders
  <2>3. Running' = Running \ {t}
    BY <1>1, <1>5, <2>2 DEF Running
  <2>4. Gate!Stop(t)
    BY <1>2, <2>1, <2>3 DEF Gate!Stop, RequiredNow, ApprovalNow
  <2> QED
    BY <2>1, <2>4 DEF GateStep, Gate!Next
<1> QED
  BY <1>3, <1>4, <1>5

\* Taking a lock with x starts the tool only in run_worker_execution.
LEMMA BeginImplements ==
  ASSUME ApprovalInv, NEW s \in Sessions, NEW t \in Tasks, Begin(s, t)
  PROVE  GateStep
<1>0. Idle.pc # "adapter"
  BY DEF Idle
<1>h. ASSUME NEW pc, NEW seen, NEW new, NEW loads,
             Step(s, Held(pc, t, seen, new, loads)),
             pc = "adapter" => session[s] = Idle /\ Free(t) /\ Cleared(row[t])
      PROVE  GateStep
  <2> DEFINE x == Held(pc, t, seen, new, loads)
  <2>1. x.pc = pc /\ x.task = t
    BY DEF Held
  <2>2. Step(s, x)
    BY <1>h
  <2> HIDE DEF x
  <2> QED
    BY <1>0, <1>h, <2>1, <2>2, StepImplements
<1>o. ASSUME NEW pc \in Opening, NEW a, NEW seen, Step(s, Opened(pc, t, a, seen))
      PROVE  GateStep
  <2>1. Opened(pc, t, a, seen).pc # "adapter"
    BY DEF Opened, Opening
  <2> QED
    BY <1>o, <2>1, StepImplements
<1>1. ASSUME NEW a \in Agents, OpenAssign(s, t, a) PROVE GateStep
  BY <1>1, <1>o DEF OpenAssign, Opening
<1>2. ASSUME NEW a \in Agents, OpenReassign(s, t, a) PROVE GateStep
  BY <1>2, <1>o DEF OpenReassign, Opening
<1>3. ASSUME NEW a \in Agents, LockCommand(s, t, a) PROVE GateStep
  BY <1>3, <1>h DEF LockCommand
<1>4. ASSUME NEW a \in Agents, LockRoute(s, t, a) PROVE GateStep
  BY <1>4, <1>h DEF LockRoute
<1>5. ASSUME NEW a \in Agents, NEW pc \in {"adapter", "locked"}, LockWorker(s, t, a, pc)
      PROVE  GateStep
  BY <1>5, <1>h DEF LockWorker
<1>6. ASSUME NEW to \in {"verified", "failed"}, LockVerify(s, t, to) PROVE GateStep
  BY <1>6, <1>h DEF LockVerify
<1>7. CASE LockFail(s, t)
  BY <1>7, <1>h DEF LockFail
<1>8. ASSUME NEW a \in Agents, OpenTick(s, t, a) PROVE GateStep
  BY <1>8, <1>o DEF OpenTick, Opening
<1> QED
  BY <1>1, <1>2, <1>3, <1>4, <1>5, <1>6, <1>7, <1>8 DEF Begin

\* A commit ends the work of its own session and decides no approval.
LEMMA CommitImplements ==
  ASSUME ApprovalInv, NEW s \in Sessions, Commit(s)
  PROVE  GateStep
<1> DEFINE t == session[s].task
           r == Flush(row[t], session[s].seen, session[s].new)
<1>1. /\ TypeOK /\ Holding(s) /\ t \in Tasks
      /\ session[s].new.approval = session[s].seen.approval
  BY SessionParts DEF Commit, Holding, Holders, ApprovalInv, FlushIsCleared
<1>2. r.required = row[t].required /\ r.approval = row[t].approval
  BY <1>1 DEF Flush
<1>3. row' = [row EXCEPT ![t] = r] /\ session' = [session EXCEPT ![s] = Idle]
  BY DEF Commit
<1> HIDE DEF r
<1>4. RequiredNow' = RequiredNow /\ ApprovalNow' = ApprovalNow
  BY <1>1, <1>2, <1>3 DEF RequiredNow, ApprovalNow, TypeOK
<1>5. Idle.pc # "adapter" /\ DOMAIN session = Sessions
  BY <1>1 DEF Idle, TypeOK
<1>6. CASE session[s].pc # "adapter"
  <2>1. Running' = Running
    BY <1>3, <1>5, <1>6 DEF Running
  <2> QED
    BY <1>4, <2>1, Stutters
<1>7. CASE session[s].pc = "adapter"
  <2>1. \A o \in Sessions : session[o].pc = "adapter" /\ session[o].task = t => o = s
    BY <1>1, <1>7 DEF ApprovalInv, Exclusive, Holding, Holders
  <2>2. Running' = Running \ {t} /\ t \in Running
    BY <1>3, <1>5, <1>7, <2>1 DEF Running
  <2>3. Gate!Stop(t)
    BY <1>4, <2>2 DEF Gate!Stop, RequiredNow, ApprovalNow
  <2> QED
    BY <1>1, <2>3 DEF GateStep, Gate!Next
<1> QED
  BY <1>6, <1>7

LEMMA SessionImplements ==
  ASSUME ApprovalInv, NEW s \in Sessions, TakeLock(s) \/ Finish(s) \/ Crash(s)
  PROVE  GateStep
<1>h. ASSUME NEW pc, pc # "adapter", NEW t, NEW seen, NEW new, NEW loads,
             Step(s, Held(pc, t, seen, new, loads))
      PROVE  GateStep
  <2>1. Held(pc, t, seen, new, loads).pc # "adapter"
    BY <1>h DEF Held
  <2> QED
    BY <1>h, <2>1, StepImplements
<1>i. ASSUME Step(s, Idle) PROVE GateStep
  <2>1. Idle.pc # "adapter"
    BY DEF Idle
  <2> QED
    BY <1>i, <2>1, StepImplements
<1>1. CASE LockAssign(s)
  BY <1>1, <1>h DEF LockAssign
<1>2. CASE LockReassign(s)
  BY <1>2, <1>h DEF LockReassign
<1>6. CASE LockTick(s)
  BY <1>6, <1>h DEF LockTick
<1>3. CASE Refuse(s) \/ RollBack(s) \/ Crash(s)
  BY <1>3, <1>i DEF Refuse, RollBack, Crash
<1>4. CASE AdapterFails(s)
  BY <1>4, <1>h DEF AdapterFails
<1>5. CASE Commit(s)
  BY <1>5, CommitImplements
<1> QED
  BY <1>1, <1>2, <1>3, <1>4, <1>5, <1>6 DEF TakeLock, Finish

LEMMA InitImplements == Init => Gate!Init
<1> SUFFICES ASSUME Init PROVE Gate!Init
  OBVIOUS
<1>1. Running = {}
  BY DEF Init, Running, Idle
<1>2. RequiredNow = {} /\ ApprovalNow = [t \in Tasks |-> "not_required"]
  BY DEF Init, RequiredNow, ApprovalNow, Absent
<1> QED
  BY <1>1, <1>2 DEF Gate!Init, RequiredNow, ApprovalNow

LEMMA NextImplements == ApprovalInv /\ [Next]_vars => GateStep
<1> SUFFICES ASSUME ApprovalInv, [Next]_vars PROVE GateStep
  OBVIOUS
<1>1. CASE UNCHANGED vars
  BY <1>1, Stutters DEF vars, RequiredNow, ApprovalNow, Running
<1>2. ASSUME NEW t \in Tasks, OneStep(t) PROVE GateStep
  BY <1>2, OneStepImplements DEF ApprovalInv
<1>3. ASSUME NEW s \in Sessions, NEW t \in Tasks, Begin(s, t) PROVE GateStep
  BY <1>3, BeginImplements
<1>4. ASSUME NEW s \in Sessions, TakeLock(s) \/ Finish(s) \/ Crash(s) PROVE GateStep
  BY <1>4, SessionImplements
<1> QED
  BY <1>1, <1>2, <1>3, <1>4 DEF Next

\* The task service, with its row lock, its stale copies and its crashes,
\* implements the approval boundary of ApprovalGate.
THEOREM ImplementsGate == Spec => GateSpec
<1>1. ApprovalInv /\ [Next]_vars => [Gate!Next]_(Gate!vars)
  BY NextImplements DEF GateStep
<1> QED
  BY <1>1, InitImplements, ApprovalInvariant, PTL DEF Spec, GateSpec, Gate!Spec

\* Decisions stand: no request that was under way undoes one.
THEOREM DecisionsStand == Spec => DecisionStands
<1>1. ASSUME ApprovalInv, [Next]_vars, NEW t \in Tasks
      PROVE  /\ row[t].approval = "approved" => row'[t].approval = "approved"
             /\ row[t].approval = "rejected"
                  => row'[t].approval \in {"rejected", "waiting"}
  <2>1. ApprovalNow[t] = row[t].approval /\ ApprovalNow'[t] = row'[t].approval
    BY <1>1 DEF ApprovalNow
  <2>2. GateStep
    BY <1>1, NextImplements
  <2>3. \/ ApprovalNow' = ApprovalNow
        \/ \E u \in Tasks : Gate!Request(u) \/ Gate!Grant(u) \/ Gate!Decline(u)
    BY <2>2 DEF GateStep, Gate!Next, Gate!vars, Gate!Require, Gate!Start, Gate!Stop,
                ApprovalNow
  <2> QED
    BY <2>1, <2>3 DEF Gate!Request, Gate!Grant, Gate!Decline, Gate!Move, ApprovalNow
<1>2. ApprovalInv /\ [Next]_vars =>
        [\A t \in Tasks :
           /\ row[t].approval = "approved" => row'[t].approval = "approved"
           /\ row[t].approval = "rejected"
                => row'[t].approval \in {"rejected", "waiting"}]_vars
  BY <1>1
<1> QED
  BY <1>2, ApprovalInvariant, PTL DEF Spec, DecisionStands

-----------------------------------------------------------------------------
(* Outcomes and audit entries.                                             *)

\* The copy of a reassignment is of a task that could be reassigned, the copy
\* of a tick of one that was created.
CopyIsLive(x) ==
  /\ x.pc = "reassigning" => x.seen.status \in {"assigned", "failed"}
  /\ x.pc = "ticking" => x.seen.status = "created"

\* A request that will commit flushes its own audit entry over an unfinished
\* row that it validated under its lock, or it assigns from an older copy.
FlushIsFresh(x) == x.pc \in {"locked", "adapter"} =>
  /\ x.new.audited = x.new.status
  /\ x.seen.status \notin Terminal
  /\ \/ x.seen = row[x.task]
     \/ /\ x.pc = "locked" /\ x.new.status = "assigned"
        /\ x.seen.status \in {"created", "assigned", "failed"}

OutcomeInv == ApprovalInv /\ \A s \in Sessions : CopyIsLive(session[s]) /\ FlushIsFresh(session[s])

\* A step that writes one row, which no other request holds, and no session
\* but that of s, leaves what the others know as it was.
LEMMA OthersFresh ==
  ASSUME OutcomeInv, NEW t \in Tasks, NEW s \in Sessions, session'[s] = session[s],
         Holding(s) => session[s].task # t,
         \A u \in Tasks : u # t => row'[u] = row[u]
  PROVE  CopyIsLive(session[s])' /\ FlushIsFresh(session[s])'
<1>1. session[s].pc \in {"locked", "adapter"} => Holding(s) /\ session[s].task \in Tasks
  BY SessionParts DEF OutcomeInv, ApprovalInv, Holding, Holders
<1>2. CopyIsLive(session[s]) /\ FlushIsFresh(session[s])
  BY DEF OutcomeInv
<1> QED
  BY <1>1, <1>2 DEF CopyIsLive, FlushIsFresh

LEMMA WriteFresh ==
  ASSUME OutcomeInv, NEW t \in Tasks, NEW r, Free(t), Write(t, r), NEW s \in Sessions
  PROVE  CopyIsLive(session[s])' /\ FlushIsFresh(session[s])'
<1>1. session' = session /\ row' = [row EXCEPT ![t] = r]
  BY DEF Write
<1> QED
  BY <1>1, OthersFresh DEF Free, OutcomeInv, ApprovalInv, TypeOK

LEMMA StepFresh ==
  ASSUME OutcomeInv, NEW s \in Sessions, NEW x, Step(s, x),
         CopyIsLive(x), FlushIsFresh(x), NEW o \in Sessions
  PROVE  CopyIsLive(session[o])' /\ FlushIsFresh(session[o])'
<1>1. row' = row /\ session' = [session EXCEPT ![s] = x] /\ DOMAIN session = Sessions
  BY DEF Step, OutcomeInv, ApprovalInv, TypeOK
<1>2. session'[o] = x \/ session'[o] = session[o]
  BY <1>1
<1> QED
  BY <1>1, <1>2 DEF OutcomeInv, CopyIsLive, FlushIsFresh

LEMMA CommitFresh ==
  ASSUME OutcomeInv, NEW s \in Sessions, Commit(s), NEW o \in Sessions
  PROVE  CopyIsLive(session[o])' /\ FlushIsFresh(session[o])'
<1>1. Holding(s) /\ session[s].task \in Tasks
  BY SessionParts DEF Commit, Holding, Holders, OutcomeInv, ApprovalInv
<1>2. /\ session' = [session EXCEPT ![s] = Idle] /\ DOMAIN session = Sessions
      /\ \A u \in Tasks : u # session[s].task => row'[u] = row[u]
  BY DEF Commit, OutcomeInv, ApprovalInv, TypeOK
<1>3. CASE o = s
  <2>1. session'[o] = Idle
    BY <1>2, <1>3
  <2> QED
    BY <2>1 DEF CopyIsLive, FlushIsFresh, Idle
<1>4. CASE o # s
  <2>1. session'[o] = session[o]
    BY <1>2, <1>4
  <2>2. Holding(o) => session[o].task # session[s].task
    BY <1>1, <1>4 DEF OutcomeInv, ApprovalInv, Exclusive
  <2> QED
    BY <1>1, <1>2, <2>1, <2>2, OthersFresh
<1> QED
  BY <1>3, <1>4

\* A request that takes the lock on row t, or moves to the next stage.
LEMMA HeldFresh ==
  ASSUME OutcomeInv, NEW s \in Sessions, NEW pc \in Holders, NEW t, NEW seen, NEW new,
         NEW loads, Step(s, Held(pc, t, seen, new, loads)),
         pc \in {"locked", "adapter"} =>
           /\ new.audited = new.status
           /\ seen.status \notin Terminal
           /\ \/ seen = row[t]
              \/ /\ pc = "locked" /\ new.status = "assigned"
                 /\ seen.status \in {"created", "assigned", "failed"},
         NEW o \in Sessions
  PROVE  CopyIsLive(session[o])' /\ FlushIsFresh(session[o])'
<1> DEFINE x == Held(pc, t, seen, new, loads)
<1>1. x.pc = pc /\ x.task = t /\ x.new = new /\ x.seen = seen
  BY DEF Held
<1>2. Step(s, x)
  OBVIOUS
<1> HIDE DEF x
<1>3. CopyIsLive(x) /\ FlushIsFresh(x)
  BY <1>1 DEF CopyIsLive, FlushIsFresh, Holders, Unsaved
<1> QED
  BY <1>2, <1>3, StepFresh

LEMMA IdleFresh ==
  ASSUME OutcomeInv, NEW s \in Sessions, Step(s, Idle), NEW o \in Sessions
  PROVE  CopyIsLive(session[o])' /\ FlushIsFresh(session[o])'
<1>1. CopyIsLive(Idle) /\ FlushIsFresh(Idle)
  BY DEF CopyIsLive, FlushIsFresh, Idle
<1> QED
  BY <1>1, StepFresh

\* No edge of the lifecycle leaves a final status.
LEMMA NoEdgeBack ==
  ASSUME NEW from, NEW to, CanMove(from, to)
  PROVE  from \notin Terminal
BY DEF CanMove, Edges, Terminal

LEMMA BeginFresh ==
  ASSUME OutcomeInv, NEW s \in Sessions, NEW t \in Tasks, Begin(s, t), NEW o \in Sessions
  PROVE  CopyIsLive(session[o])' /\ FlushIsFresh(session[o])'
<1>r. row[t] \in Row
  BY DEF OutcomeInv, ApprovalInv, TypeOK
<1>m. ASSUME NEW r \in Row, NEW to \in Statuses
      PROVE  /\ Moved(r, to).status = to /\ Moved(r, to).audited = to
             /\ \A a \in Agents :
                  LET new == [Moved(r, to) EXCEPT !.agent = a]
                  IN  new.status = to /\ new.audited = to
  BY DEF Moved, Row
<1>h. ASSUME NEW pc \in Holders, NEW seen, NEW new, NEW loads,
             Step(s, Held(pc, t, seen, new, loads)),
             new.audited = new.status, seen.status \notin Terminal, seen = row[t]
      PROVE  CopyIsLive(session[o])' /\ FlushIsFresh(session[o])'
  BY <1>h, HeldFresh
<1>o. ASSUME NEW pc \in Opening, NEW a, NEW seen, Step(s, Opened(pc, t, a, seen)),
             pc = "reassigning" => seen.status \in {"assigned", "failed"},
             pc = "ticking" => seen.status = "created"
      PROVE  CopyIsLive(session[o])' /\ FlushIsFresh(session[o])'
  <2> DEFINE x == Opened(pc, t, a, seen)
  <2>1. x.pc = pc /\ x.seen = seen
    BY DEF Opened
  <2>2. Step(s, x)
    BY <1>o
  <2> HIDE DEF x
  <2>3. CopyIsLive(x) /\ FlushIsFresh(x)
    BY <1>o, <2>1 DEF CopyIsLive, FlushIsFresh, Opening
  <2> QED
    BY <2>2, <2>3, StepFresh
<1>1. ASSUME NEW a \in Agents, OpenAssign(s, t, a)
      PROVE  CopyIsLive(session[o])' /\ FlushIsFresh(session[o])'
  BY <1>1, <1>o DEF OpenAssign, Opening
<1>2. ASSUME NEW a \in Agents, OpenReassign(s, t, a)
      PROVE  CopyIsLive(session[o])' /\ FlushIsFresh(session[o])'
  <2>1. row[t].status \in {"assigned", "failed"}
    BY <1>2 DEF OpenReassign, CanMove, Edges
  <2> QED
    BY <1>2, <1>o, <2>1 DEF OpenReassign, Opening
<1>3. ASSUME NEW a \in Agents, LockCommand(s, t, a)
      PROVE  CopyIsLive(session[o])' /\ FlushIsFresh(session[o])'
  <2> DEFINE new == [Moved(Absent, "assigned") EXCEPT !.agent = a]
  <2>1. "assigned" \in Statuses /\ Absent.status \notin Terminal
    BY DEF Statuses, Absent, Terminal
  <2>2. new.audited = new.status
    BY <1>m, <2>1, AbsentType
  <2>3. Step(s, Held("locked", t, Absent, new, Loads({a}, {}))) /\ row[t] = Absent
    BY <1>3 DEF LockCommand
  <2> HIDE DEF new
  <2> QED
    BY <1>h, <2>1, <2>2, <2>3 DEF Holders
<1>4. ASSUME NEW a \in Agents, LockRoute(s, t, a)
      PROVE  CopyIsLive(session[o])' /\ FlushIsFresh(session[o])'
  <2> DEFINE new == [Moved(row[t], "assigned") EXCEPT !.agent = a]
  <2>1. "assigned" \in Statuses /\ row[t].status \notin Terminal
    BY <1>4, NoEdgeBack DEF Statuses, LockRoute, Ready
  <2>2. new.audited = new.status
    BY <1>m, <1>r, <2>1
  <2>3. Step(s, Held("routed", t, row[t], new, Loads({a}, {})))
    BY <1>4 DEF LockRoute
  <2> HIDE DEF new
  <2> QED
    BY <1>h, <2>1, <2>2, <2>3 DEF Holders, Unsaved
<1>5. ASSUME NEW a \in Agents, NEW pc \in {"adapter", "locked"}, LockWorker(s, t, a, pc)
      PROVE  CopyIsLive(session[o])' /\ FlushIsFresh(session[o])'
  <2>1. "verifying" \in Statuses /\ row[t].status \notin Terminal
    BY <1>5, NoEdgeBack DEF Statuses, LockWorker, Terminal
  <2> QED
    BY <1>5, <1>h, <1>m, <1>r, <2>1 DEF LockWorker, Holders
<1>6. ASSUME NEW to \in {"verified", "failed"}, LockVerify(s, t, to)
      PROVE  CopyIsLive(session[o])' /\ FlushIsFresh(session[o])'
  <2>1. to \in Statuses /\ row[t].status \notin Terminal
    BY <1>6 DEF Statuses, LockVerify, Terminal
  <2> QED
    BY <1>6, <1>h, <1>m, <1>r, <2>1 DEF LockVerify, Holders
<1>7. CASE LockFail(s, t)
  <2>1. "failed" \in Statuses /\ row[t].status \notin Terminal
    BY <1>7 DEF Statuses, LockFail, Terminal
  <2> QED
    BY <1>7, <1>h, <1>m, <1>r, <2>1 DEF LockFail, Holders
<1>8. ASSUME NEW a \in Agents, OpenTick(s, t, a)
      PROVE  CopyIsLive(session[o])' /\ FlushIsFresh(session[o])'
  BY <1>8, <1>o DEF OpenTick, Opening
<1> QED
  BY <1>1, <1>2, <1>3, <1>4, <1>5, <1>6, <1>7, <1>8 DEF Begin

LEMMA SessionFresh ==
  ASSUME OutcomeInv, NEW s \in Sessions, TakeLock(s) \/ Finish(s) \/ Crash(s),
         NEW o \in Sessions
  PROVE  CopyIsLive(session[o])' /\ FlushIsFresh(session[o])'
<1> DEFINE t == session[s].task
<1>p. TypeOK /\ CopyIsLive(session[s])
  BY DEF OutcomeInv, ApprovalInv
<1>m. ASSUME NEW r \in Row, NEW a \in Agents
      PROVE  LET new == [Moved(r, "assigned") EXCEPT !.agent = a]
             IN  new.status = "assigned" /\ new.audited = "assigned"
  BY DEF Moved, Row
<1>1. CASE LockAssign(s)
  <2> DEFINE a == session[s].agent
             new == [Moved(row[t], "assigned") EXCEPT !.agent = a]
  <2>1. row[t] \in Row /\ a \in Agents
    BY <1>1, <1>p, SessionParts DEF LockAssign, Waiting, Opening, TypeOK
  <2>2. new.status = "assigned" /\ new.audited = "assigned" /\ row[t].status \notin Terminal
    BY <1>1, <1>m, <2>1, NoEdgeBack DEF LockAssign, Ready
  <2>3. Step(s, Held("locked", t, row[t], new, Loads({a}, {})))
    BY <1>1 DEF LockAssign
  <2> HIDE DEF new, a
  <2> QED
    BY <2>2, <2>3, HeldFresh DEF Holders
<1>2. CASE LockReassign(s)
  <2> DEFINE a == session[s].agent
             seen == session[s].seen
             new == [Moved(seen, "assigned") EXCEPT !.agent = a]
  <2>1. seen \in Row /\ a \in Agents
    BY <1>2, <1>p, SessionParts DEF LockReassign, Waiting, Opening
  <2>2. /\ new.status = "assigned" /\ new.audited = "assigned"
        /\ seen.status \in {"assigned", "failed"}
    BY <1>2, <1>m, <1>p, <2>1 DEF LockReassign, CopyIsLive
  <2>3. Step(s, Held("locked", t, seen, new, Loads({a}, {seen.agent})))
    BY <1>2 DEF LockReassign
  <2> HIDE DEF new, a, seen
  <2> QED
    BY <2>2, <2>3, HeldFresh DEF Holders, Terminal
<1>6. CASE LockTick(s)
  <2> DEFINE a == session[s].agent
             seen == session[s].seen
             new == [Moved(seen, "assigned") EXCEPT !.agent = a]
  <2>1. seen \in Row /\ a \in Agents
    BY <1>6, <1>p, SessionParts DEF LockTick, Waiting, Opening
  <2>2. /\ new.status = "assigned" /\ new.audited = "assigned"
        /\ seen.status = "created"
    BY <1>6, <1>m, <1>p, <2>1 DEF LockTick, CopyIsLive
  <2>3. Step(s, Held("locked", t, seen, new, Loads({a}, {})))
    BY <1>6 DEF LockTick
  <2> HIDE DEF new, a, seen
  <2> QED
    BY <2>2, <2>3, HeldFresh DEF Holders, Terminal
<1>3. CASE Refuse(s) \/ RollBack(s) \/ Crash(s)
  BY <1>3, IdleFresh DEF Refuse, RollBack, Crash
<1>4. CASE AdapterFails(s)
  <2> DEFINE seen == session[s].seen
  <2>1. PICK to : Step(s, Held("raised", t, seen, Moved(seen, to), Loads({}, {})))
    BY <1>4 DEF AdapterFails
  <2> HIDE DEF seen
  <2> QED
    BY <2>1, HeldFresh DEF Holders, Unsaved
<1>5. CASE Commit(s)
  BY <1>5, CommitFresh
<1> QED
  BY <1>1, <1>2, <1>3, <1>4, <1>5, <1>6 DEF TakeLock, Finish

\* A one-step request writes one free row.
LEMMA OneStepWrites ==
  ASSUME NEW t \in Tasks, OneStep(t)
  PROVE  Free(t) /\ \E r : Write(t, r)
BY DEF OneStep, CreateTask, AcceptTask, StartInvestigation, StartExecution,
       SubmitForVerification, RecordTask, RetryTask, EscalateTask, CancelTask,
       RequestApproval, ApproveTask, RejectTask, Ready, Decide

LEMMA InitOutcome == Init => OutcomeInv
BY InitApproval DEF OutcomeInv, Init, Idle, CopyIsLive, FlushIsFresh

LEMMA NextOutcome == OutcomeInv /\ [Next]_vars => OutcomeInv'
<1> SUFFICES ASSUME OutcomeInv, [Next]_vars, NEW o \in Sessions
             PROVE  CopyIsLive(session[o])' /\ FlushIsFresh(session[o])'
  BY NextApproval DEF OutcomeInv
<1>1. CASE UNCHANGED vars
  BY <1>1 DEF vars, OutcomeInv, CopyIsLive, FlushIsFresh
<1>2. ASSUME NEW t \in Tasks, OneStep(t)
      PROVE  CopyIsLive(session[o])' /\ FlushIsFresh(session[o])'
  BY <1>2, OneStepWrites, WriteFresh
<1>3. ASSUME NEW s \in Sessions, NEW t \in Tasks, Begin(s, t)
      PROVE  CopyIsLive(session[o])' /\ FlushIsFresh(session[o])'
  BY <1>3, BeginFresh
<1>4. ASSUME NEW s \in Sessions, TakeLock(s) \/ Finish(s) \/ Crash(s)
      PROVE  CopyIsLive(session[o])' /\ FlushIsFresh(session[o])'
  BY <1>4, SessionFresh
<1> QED
  BY <1>1, <1>2, <1>3, <1>4 DEF Next

\* A one-step request appends the entry of the status it leaves, and takes
\* neither its status nor its assignee from a finished task.
LEMMA OneStepOutcome ==
  ASSUME TypeOK, NEW t \in Tasks, OneStep(t)
  PROVE  /\ \A u \in Tasks : u # t => row'[u] = row[u]
         /\ row'[t].audited = row'[t].status
         /\ row[t].status \in Terminal
              => row'[t].status = row[t].status /\ row'[t].agent = row[t].agent
<1>r. row \in [Tasks -> Row] /\ row[t] \in Row
  BY DEF TypeOK
<1> DEFINE Kept == /\ \A u \in Tasks : u # t => row'[u] = row[u]
                   /\ row'[t].audited = row'[t].status
                   /\ row[t].status \in Terminal
                        => /\ row'[t].status = row[t].status
                           /\ row'[t].agent = row[t].agent
<1>w. ASSUME NEW r, Write(t, r), r.audited = r.status, row[t].status \notin Terminal
      PROVE  Kept
  BY <1>r, <1>w DEF Write
<1>m. ASSUME NEW r \in Row, NEW to \in Statuses
      PROVE  Moved(r, to) \in Row /\ Moved(r, to).audited = Moved(r, to).status
  BY <1>m DEF Moved, Row
<1>1. ASSUME NEW a \in Agents \cup {NoAgent}, NEW req \in BOOLEAN, CreateTask(t, a, req)
      PROVE  Kept
  <2> DEFINE r == [Moved(Absent, "created") EXCEPT !.agent = a, !.required = req]
  <2>1. r.audited = r.status
    BY AbsentType DEF Moved, Absent
  <2>2. Write(t, r) /\ row[t].status \notin Terminal
    BY <1>1 DEF CreateTask, Absent, Terminal
  <2> HIDE DEF r
  <2> QED
    BY <1>w, <2>1, <2>2
<1>2. ASSUME NEW to \in Statuses, Ready(t, to), Write(t, Moved(row[t], to)) PROVE Kept
  BY <1>2, <1>m, <1>r, <1>w, NoEdgeBack DEF Ready
<1>3. CASE RetryTask(t)
  <2> DEFINE r == [Moved(row[t], "retrying") EXCEPT !.retries = @ + 1]
  <2>1. r.audited = r.status
    BY <1>r DEF Moved, Row
  <2>2. Write(t, r) /\ row[t].status \notin Terminal
    BY <1>3, NoEdgeBack DEF RetryTask, Ready
  <2> HIDE DEF r
  <2> QED
    BY <1>w, <2>1, <2>2
<1>4. ASSUME NEW a \in Agents \cup {NoAgent}, EscalateTask(t, a) PROVE Kept
  <2> DEFINE r == [Moved(row[t], "escalated") EXCEPT
                     !.agent = IF a = NoAgent THEN @ ELSE a]
  <2>1. r.audited = r.status
    BY <1>r DEF Moved, Row
  <2>2. Write(t, r) /\ row[t].status \notin Terminal
    BY <1>4 DEF EscalateTask, Terminal
  <2> HIDE DEF r
  <2> QED
    BY <1>w, <2>1, <2>2
<1>5. ASSUME NEW d, Decide(t, d) PROVE Kept
  <2> DEFINE r == [row[t] EXCEPT !.approval = d, !.audited = row[t].status]
  <2>1. r.audited = row[t].status /\ r.status = row[t].status /\ r.agent = row[t].agent
    BY <1>r DEF Row
  <2>2. row' = [row EXCEPT ![t] = r]
    BY <1>5 DEF Decide, Write
  <2> HIDE DEF r
  <2> QED
    BY <1>r, <2>1, <2>2
<1>6. {"accepted", "investigating", "executing", "verifying", "recorded", "cancelled"}
        \subseteq Statuses
  BY DEF Statuses
<1>7. CASE \E a \in Agents : \/ AcceptTask(t, a)
                             \/ StartInvestigation(t, a)
                             \/ StartExecution(t, a)
                             \/ SubmitForVerification(t, a)
  BY <1>2, <1>6, <1>7 DEF AcceptTask, StartInvestigation, StartExecution,
                          SubmitForVerification
<1>8. CASE RecordTask(t) \/ CancelTask(t)
  BY <1>2, <1>6, <1>8 DEF RecordTask, CancelTask
<1>9. CASE RequestApproval(t) \/ ApproveTask(t) \/ RejectTask(t)
  BY <1>5, <1>9 DEF RequestApproval, ApproveTask, RejectTask
<1> QED
  BY <1>1, <1>3, <1>4, <1>7, <1>8, <1>9 DEF OneStep

\* A commit writes the row of its own request: what the request validated
\* under the lock, or else the stale copy of a reassignment or a tick.
LEMMA CommitOutcome ==
  ASSUME OutcomeInv, NEW s \in Sessions, Commit(s), NEW t \in Tasks
  PROVE  \/ row'[t] = row[t]
         \/ StaleAssignment(t)
         \/ row[t].status \notin Terminal /\ row'[t].audited = row'[t].status
<1> DEFINE x == session[s]
<1>1. /\ x.pc \in {"locked", "adapter"} /\ x.task \in Tasks /\ FlushIsFresh(x)
      /\ row \in [Tasks -> Row]
  <2>1. x.pc \in {"locked", "adapter"} /\ Holding(s)
    BY DEF Commit, Holding, Holders
  <2>2. FlushIsFresh(x) /\ row \in [Tasks -> Row] /\ TypeOK
    BY DEF OutcomeInv, ApprovalInv, TypeOK
  <2> QED
    BY <2>1, <2>2, SessionParts
<1>2. row' = [row EXCEPT ![x.task] = Flush(row[x.task], x.seen, x.new)]
  BY DEF Commit
<1>3. CASE t # x.task
  BY <1>1, <1>2, <1>3
<1>4. CASE t = x.task /\ x.seen # row[t]
  BY <1>1, <1>4 DEF FlushIsFresh, StaleAssignment
<1>5. CASE t = x.task /\ x.seen = row[t]
  <2>1. x.new.audited = x.new.status /\ x.seen.status \notin Terminal
    BY <1>1 DEF FlushIsFresh
  <2>2. row'[t] = Flush(x.seen, x.seen, x.new)
    BY <1>1, <1>2, <1>5
  <2>3. /\ Flush(x.seen, x.seen, x.new).audited = x.new.audited
        /\ Flush(x.seen, x.seen, x.new).status = x.new.status
    BY DEF Flush
  <2> QED
    BY <1>5, <2>1, <2>2, <2>3
<1> QED
  BY <1>3, <1>4, <1>5

\* What one step may do to the row of a task.
LEMMA NextChanges ==
  ASSUME OutcomeInv, [Next]_vars, NEW t \in Tasks
  PROVE  /\ row'[t].audited # row'[t].status
              => row[t].audited # row[t].status \/ StaleAssignment(t)
         /\ /\ row[t].status \in Terminal
            /\ row'[t].status # row[t].status \/ row'[t].agent # row[t].agent
            => StaleAssignment(t)
<1>1. CASE UNCHANGED vars
  BY <1>1 DEF vars
<1>2. ASSUME NEW u \in Tasks, OneStep(u)
      PROVE  \/ row'[t] = row[t]
             \/ /\ row'[t].audited = row'[t].status
                /\ row[t].status \in Terminal
                     => row'[t].status = row[t].status /\ row'[t].agent = row[t].agent
  <2>1. TypeOK
    BY DEF OutcomeInv, ApprovalInv
  <2> QED
    BY <1>2, <2>1, OneStepOutcome
<1>3. ASSUME NEW s \in Sessions, NEW u \in Tasks, Begin(s, u) PROVE row' = row
  BY <1>3 DEF Begin, OpenAssign, OpenReassign, OpenTick, LockCommand, LockRoute, LockWorker,
              LockVerify, LockFail, Step
<1>4. ASSUME NEW s \in Sessions, TakeLock(s) \/ Finish(s) \/ Crash(s)
      PROVE  row' = row \/ Commit(s)
  BY <1>4 DEF TakeLock, Finish, LockAssign, LockReassign, LockTick, Refuse, AdapterFails,
              RollBack, Crash, Step
<1> QED
  BY <1>1, <1>2, <1>3, <1>4, CommitOutcome DEF Next

THEOREM OutcomeInvariant == Spec => []OutcomeInv
<1> QED
  BY InitOutcome, NextOutcome, PTL DEF Spec

\* Outcomes are final: a recorded or cancelled task loses its status or its
\* assignee to an assignment from a stale copy (the reassign route's or the
\* dispatch tick's) or to nothing.
THEOREM OutcomesAreFinal == Spec => TerminalIsFinal
<1>1. OutcomeInv /\ [Next]_vars =>
        [\A t \in Tasks :
           /\ row[t].status \in Terminal
           /\ <<row'[t].status, row'[t].agent>> # <<row[t].status, row[t].agent>>
           => StaleAssignment(t)]_vars
  BY NextChanges
<1> QED
  BY <1>1, OutcomeInvariant, PTL DEF Spec, TerminalIsFinal

\* The audit log follows the status: the last entry of a task comes to differ
\* from its status by an assignment from a stale copy or by nothing.
THEOREM AuditFollowsStatus == Spec => AuditMatchesStatus
<1>1. OutcomeInv /\ [Next]_vars =>
        [\A t \in Tasks :
           row'[t].audited # row'[t].status
             => row[t].audited # row[t].status \/ StaleAssignment(t)]_vars
  BY NextChanges
<1> QED
  BY <1>1, OutcomeInvariant, PTL DEF Spec, AuditMatchesStatus

=============================================================================
