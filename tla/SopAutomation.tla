---------------------------- MODULE SopAutomation ----------------------------
(***************************************************************************)
(* A standard operating procedure run by services/automation_runner.py,    *)
(* whose "auto" steps go through services/device_action_service.py.        *)
(*                                                                         *)
(* A runner executes the steps of a procedure one after the other.  It     *)
(* pauses at a manual step, at a gated step and at an auto step whose      *)
(* device action needs an approval, by committing the SOPExecution row and *)
(* returning; whoever completes or approves the step later goes on with    *)
(* the remaining ones, in a transaction of its own.  A device action is    *)
(* requested in its own transaction, which commits before and after the    *)
(* provider is called.                                                     *)
(*                                                                         *)
(* The model has one ticket, whose SOP_STARTED event may be delivered more *)
(* than once; every request of the ticket has the correlation id of that   *)
(* event.  A worker is one event handler or HTTP request with its copy of  *)
(* the execution row; record_step_result flushes and REFRESHES that copy,  *)
(* and the row stays locked until the commit.                              *)
(***************************************************************************)
EXTENDS Naturals, Sequences

CONSTANTS
  Workers,       \* concurrent invocations of the runner and of the service
  Starters,      \* the workers SOP_STARTED is delivered to
  Procedures,    \* the step lists an SOP version may have
  MaxExecutions, MaxRequests, MaxCrashes  \* bounds of a run

None == 0

\* The type of a step after _normalize_steps; an auto step is "read" when the
\* policy lets its action run at once, "change" when it asks for an approval.
Kinds == {"read", "change", "gated", "manual"}

ASSUME SopAssumption ==
  /\ Starters \subseteq Workers
  /\ Procedures \subseteq Seq(Kinds) \ {<<>>}
  /\ MaxExecutions \in Nat /\ MaxRequests \in Nat /\ MaxCrashes \in Nat

VARIABLES
  steps,       \* the steps of the SOP's current version
  executions,  \* the committed SOPExecution rows
  requests,    \* the committed DeviceActionRequest rows, with their approvals
  effects,     \* how often the provider was called for a request
  worker,      \* what each worker holds in memory
  crashes      \* how many workers died

vars == <<steps, executions, requests, effects, worker, crashes>>

-----------------------------------------------------------------------------
(* Rows and queries.                                                       *)

AutoStep(i) == steps[i] \in {"read", "change"}

Entry == [step : Nat, request : Nat,
          status : {"succeeded", "failed", "waiting", "approved", "completed"}]
Result(i, status, q) == [step |-> i, status |-> status, request |-> q]

Execution == [index : Nat, results : SUBSET Entry,
              status : {"running", "awaiting_manual", "awaiting_approval",
                        "succeeded", "failed", "abandoned"}]
NewExecution == [status |-> "running", index |-> 1, results |-> {}]

\* "failed" stands for failed and verification_failed.
Statuses == {"policy_denied", "awaiting_approval", "executing", "verified", "failed", "denied"}
Request == [step : Nat, status : Statuses,
            approval : {"none", "pending", "approved", "denied"}]

\* `next` is the step the loop is at, `row` the copy of the execution row
\* (ex: its id, None before the commit of the INSERT), `answer` the status of
\* `request` as it was returned.
Worker == [pc : {"idle", "loop", "requesting", "calling", "called", "answered", "failing",
                 "completing", "approving", "resolved", "resuming"},
           ex : Nat, next : Nat, row : Execution, locked : BOOLEAN,
           request : Nat, answer : Statuses \cup {""}]
Idle == [pc |-> "idle", ex |-> None, next |-> 0, row |-> NewExecution,
         locked |-> FALSE, request |-> None, answer |-> ""]

Begun(w) == worker[w].ex = None
Locked(e, w) == \E v \in Workers \ {w} : worker[v].locked /\ worker[v].ex = e
\* An UPDATE of the worker's row need not wait.
CanFlush(w) == Begun(w) \/ ~Locked(worker[w].ex, w)

\* The row as the worker's transaction sees it after record_step_result: its
\* own copy of step_results plus the entry, the rest refreshed.
Recorded(w, entry) ==
  LET own == worker[w].row
      seen == IF Begun(w) \/ worker[w].locked THEN own ELSE executions[worker[w].ex]
  IN  [seen EXCEPT !.results = own.results \cup {entry}]

Saved(w, row) == IF Begun(w) THEN Append(executions, row)
                 ELSE [executions EXCEPT ![worker[w].ex] = row]

Step(w, next) == worker' = [worker EXCEPT ![w] = next]

Init ==
  /\ steps \in Procedures
  /\ executions = <<>> /\ requests = <<>>
  /\ effects = [q \in 1 .. MaxRequests |-> 0]
  /\ worker = [w \in Workers |-> Idle]
  /\ crashes = 0

-----------------------------------------------------------------------------
(* The loop over the steps (_run_automation, _resume_from).                *)

\* SOP_STARTED: the INSERT of the execution is committed at the first pause.
Start(w) ==
  /\ w \in Starters /\ worker[w] = Idle
  /\ Len(executions) < MaxExecutions
  /\ Step(w, [Idle EXCEPT !.pc = "loop", !.next = 1])
  /\ UNCHANGED <<steps, executions, requests, effects, crashes>>

AtStep(w) == worker[w].pc = "loop" /\ worker[w].next <= Len(steps)

\* Mutant of Lookup: no idempotent replay.
LookupNever(w) ==
  /\ AtStep(w) /\ AutoStep(worker[w].next)
  /\ Step(w, [worker[w] EXCEPT !.pc = "requesting"])
  /\ UNCHANGED <<steps, executions, requests, effects, crashes>>
\* get_by_correlation_id: the request of the ticket is the answer, whatever
\* step asked for it; two of them raise.
Lookup(w) ==
  /\ AtStep(w) /\ AutoStep(worker[w].next)
  /\ \/ /\ Len(requests) = 0
        /\ Step(w, [worker[w] EXCEPT !.pc = "requesting"])
     \/ /\ Len(requests) = 1
        /\ Step(w, [worker[w] EXCEPT !.pc = "answered", !.request = 1,
                                     !.answer = requests[1].status])
     \/ /\ Len(requests) > 1
        /\ Step(w, [worker[w] EXCEPT !.pc = "answered", !.request = None,
                                     !.answer = "failed"])
  /\ UNCHANGED <<steps, executions, requests, effects, crashes>>

\* Mutant of Ask: the policy lets every action run.
AskAnyAction(w) ==
  /\ worker[w].pc = "requesting"
  /\ Len(requests) < MaxRequests
  /\ requests' = Append(requests, [step |-> worker[w].next, status |-> "executing",
                                   approval |-> "none"])
  /\ Step(w, [worker[w] EXCEPT !.pc = "calling", !.request = Len(requests) + 1,
                               !.answer = "executing"])
  /\ UNCHANGED <<steps, executions, effects, crashes>>
\* The policy refuses the action, sends it to an approver or lets it run:
\* then "executing" is committed before the provider is called.
Ask(w) ==
  LET i == worker[w].next
      q == Len(requests) + 1
      Asked(status, approval, pc) ==
        /\ requests' = Append(requests, [step |-> i, status |-> status, approval |-> approval])
        /\ Step(w, [worker[w] EXCEPT !.pc = pc, !.request = q, !.answer = status])
  IN  /\ worker[w].pc = "requesting"
      /\ q <= MaxRequests
      /\ \/ Asked("policy_denied", "none", "answered")
         \/ steps[i] = "change" /\ Asked("awaiting_approval", "pending", "answered")
         \/ steps[i] = "read" /\ Asked("executing", "none", "calling")
      /\ UNCHANGED <<steps, executions, effects, crashes>>

\* _execute: the provider is called once ...
Call(w) ==
  /\ worker[w].pc = "calling"
  /\ effects' = [effects EXCEPT ![worker[w].request] = @ + 1]
  /\ Step(w, [worker[w] EXCEPT !.pc = "called"])
  /\ UNCHANGED <<steps, executions, requests, crashes>>

\* Mutant of Settle: the outcome of the command is stored unverified.
SettleUnverified(w) ==
  /\ worker[w].pc = "called"
  /\ requests' = [requests EXCEPT ![worker[w].request].status = "succeeded"]
  /\ Step(w, [worker[w] EXCEPT !.answer = "verified",
                !.pc = IF worker[w].next = 0 THEN "resolved" ELSE "answered"])
  /\ UNCHANGED <<steps, executions, effects, crashes>>
\* ... and its verified or failed outcome is committed, for the loop or for
\* the route that resolved the approval (which is at no step).
Settle(w) ==
  \E outcome \in {"verified", "failed"} :
    /\ worker[w].pc = "called"
    /\ requests' = [requests EXCEPT ![worker[w].request].status = outcome]
    /\ Step(w, [worker[w] EXCEPT !.answer = outcome,
                  !.pc = IF worker[w].next = 0 THEN "resolved" ELSE "answered"])
    /\ UNCHANGED <<steps, executions, effects, crashes>>

\* Mutant of Succeeds: everything that is not refused counts as done.
SucceedsUnlessDenied(answer) == answer \notin {"policy_denied", "denied", "awaiting_approval"}
\* What DatabaseStepHandler and the resume take for a successful action.
Succeeds(answer) == answer = "verified"

\* The result is flushed: the row is locked while the next step runs.
StepDone(w) ==
  LET i == worker[w].next
      row == Recorded(w, Result(i, "succeeded", worker[w].request))
  IN  /\ worker[w].pc = "answered" /\ Succeeds(worker[w].answer)
      /\ CanFlush(w)
      /\ Step(w, [worker[w] EXCEPT !.pc = "loop", !.next = i + 1, !.locked = TRUE,
                                   !.row = [row EXCEPT !.index = i + 1],
                                   !.request = None, !.answer = ""])
      /\ UNCHANGED <<steps, executions, requests, effects, crashes>>

Waits(w) == worker[w].answer = "awaiting_approval"

\* Only _run_automation pauses on an approval; _resume_from takes it for a
\* failure.
Pause(w) ==
  LET i == worker[w].next
      row == Recorded(w, Result(i, "waiting", worker[w].request))
  IN  /\ worker[w].pc = "answered" /\ Waits(w) /\ Begun(w)
      /\ executions' = Saved(w, [row EXCEPT !.index = i, !.status = "awaiting_approval"])
      /\ Step(w, Idle)
      /\ UNCHANGED <<steps, requests, effects, crashes>>

\* The failed result is committed, then the execution is completed.
StepFails(w) ==
  LET i == worker[w].next
      row == [Recorded(w, Result(i, "failed", worker[w].request)) EXCEPT !.index = i]
  IN  /\ worker[w].pc = "answered" /\ ~Succeeds(worker[w].answer)
      /\ Waits(w) => ~Begun(w)
      /\ CanFlush(w)
      /\ executions' = Saved(w, row)
      /\ Step(w, [worker[w] EXCEPT !.pc = "failing", !.row = row, !.locked = FALSE,
                    !.ex = IF Begun(w) THEN Len(executions) + 1 ELSE @])
      /\ UNCHANGED <<steps, requests, effects, crashes>>

Fail(w) ==
  /\ worker[w].pc = "failing" /\ CanFlush(w)
  /\ executions' = [executions EXCEPT ![worker[w].ex].status = "failed"]
  /\ Step(w, Idle)
  /\ UNCHANGED <<steps, requests, effects, crashes>>

\* A gated or manual step.  Only _run_automation stores the index; after a
\* resume the row has it already.
PauseForHuman(w) ==
  LET i == worker[w].next
      row == Recorded(w, Result(i, "waiting", None))
      status == IF steps[i] = "gated" THEN "awaiting_approval" ELSE "awaiting_manual"
  IN  /\ AtStep(w) /\ ~AutoStep(i)
      /\ CanFlush(w)
      /\ executions' = Saved(w, [row EXCEPT !.status = status,
                                            !.index = IF Begun(w) THEN i ELSE @])
      /\ Step(w, Idle)
      /\ UNCHANGED <<steps, requests, effects, crashes>>

\* All steps are done: complete() and the commit.
Finish(w) ==
  LET own == worker[w]
      row == IF Begun(w) \/ own.locked THEN own.row ELSE executions[own.ex]
  IN  /\ own.pc = "loop" /\ own.next > Len(steps)
      /\ CanFlush(w)
      /\ executions' = Saved(w, [row EXCEPT !.status = "succeeded"])
      /\ Step(w, Idle)
      /\ UNCHANGED <<steps, requests, effects, crashes>>

-----------------------------------------------------------------------------
(* Completing and approving a step.  The row is read and checked, then     *)
(* written: nothing locks it in between.                                   *)

Open(w, e, pc, status) ==
  /\ worker[w] = Idle
  /\ e \in DOMAIN executions /\ executions[e].status = status
  /\ Step(w, [Idle EXCEPT !.pc = pc, !.ex = e, !.row = executions[e]])
  /\ UNCHANGED <<steps, executions, requests, effects, crashes>>

\* The result is recorded under the index that was read; the index that is
\* advanced is the refreshed one.  Then the loop goes on from there.
GoOn(w, result) ==
  LET row == Recorded(w, result)
      advanced == [row EXCEPT !.index = @ + 1, !.status = "running"]
  IN  /\ executions' = Saved(w, advanced)
      /\ Step(w, [Idle EXCEPT !.pc = "loop", !.ex = worker[w].ex,
                              !.next = advanced.index, !.row = advanced])
      /\ UNCHANGED <<steps, requests, effects, crashes>>

Abandon(w) ==
  /\ executions' = [executions EXCEPT ![worker[w].ex].status = "abandoned"]
  /\ Step(w, Idle)
  /\ UNCHANGED <<steps, requests, effects, crashes>>

OpenManual(w, e) == Open(w, e, "completing", "awaiting_manual")
CompleteManual(w) ==
  /\ worker[w].pc = "completing" /\ CanFlush(w)
  /\ GoOn(w, Result(worker[w].row.index, "completed", None))

OpenGate(w, e) == Open(w, e, "approving", "awaiting_approval")
ApproveGated(w) ==
  /\ worker[w].pc = "approving" /\ CanFlush(w)
  /\ GoOn(w, Result(worker[w].row.index, "approved", None))
DenyGated(w) == worker[w].pc = "approving" /\ CanFlush(w) /\ Abandon(w)

-----------------------------------------------------------------------------
(* The device-actions approve route.                                       *)

\* Mutant of Claim: the status is not part of the UPDATE's predicate, only of
\* the check made before.
ClaimAny(q) == requests[q].status \in {"awaiting_approval", "executing"}
\* claim_status: one conditional UPDATE decides which approver wins.
Claim(q) == requests[q].status = "awaiting_approval"

\* resolve_approval commits the decision before anything else happens.
Decide(w, q) ==
  LET Resolve(status, approval) ==
        requests' = [requests EXCEPT ![q] = [step |-> requests[q].step, status |-> status,
                                             approval |-> approval]]
  IN  /\ worker[w] = Idle
      /\ q \in DOMAIN requests /\ Claim(q)
      /\ \/ /\ Resolve("denied", "denied")
            /\ Step(w, [Idle EXCEPT !.pc = "resolved", !.request = q, !.answer = "denied"])
         \/ /\ Resolve("executing", "approved")
            /\ Step(w, [Idle EXCEPT !.pc = "calling", !.request = q])
      /\ UNCHANGED <<steps, executions, effects, crashes>>

\* Mutant of WaitingFor: executions under way instead of paused ones.
WaitingForRunning(q) ==
  {e \in DOMAIN executions : /\ executions[e].status = "running"
                             /\ \E r \in executions[e].results :
                                  r.status = "waiting" /\ r.request = q}
\* find_execution_waiting_for_device_action: any entry of step_results will do.
WaitingFor(q) ==
  {e \in DOMAIN executions : /\ executions[e].status = "awaiting_approval"
                             /\ \E r \in executions[e].results :
                                  r.status = "waiting" /\ r.request = q}

Find(w, e) ==
  /\ worker[w].pc = "resolved" /\ e \in WaitingFor(worker[w].request)
  /\ Step(w, [worker[w] EXCEPT !.pc = "resuming", !.ex = e, !.row = executions[e]])
  /\ UNCHANGED <<steps, executions, requests, effects, crashes>>

FindNone(w) ==
  /\ worker[w].pc = "resolved" /\ WaitingFor(worker[w].request) = {}
  /\ Step(w, Idle)
  /\ UNCHANGED <<steps, executions, requests, effects, crashes>>

\* resume_after_device_action_decision: the action's final status decides.
Resume(w) ==
  LET i == worker[w].row.index
      q == worker[w].request
      row == Recorded(w, Result(i, "failed", q))
  IN  /\ worker[w].pc = "resuming" /\ CanFlush(w)
      /\ \/ worker[w].answer = "denied" /\ Abandon(w)
         \/ Succeeds(worker[w].answer) /\ GoOn(w, Result(i, "succeeded", q))
         \/ /\ worker[w].answer # "denied" /\ ~Succeeds(worker[w].answer)
            /\ executions' = Saved(w, [row EXCEPT !.status = "failed"])
            /\ Step(w, Idle)
            /\ UNCHANGED <<steps, requests, effects, crashes>>

\* The process dies, or an exception ends the invocation.
Crash(w) ==
  /\ worker[w] # Idle /\ crashes < MaxCrashes
  /\ crashes' = crashes + 1
  /\ Step(w, Idle)
  /\ UNCHANGED <<steps, executions, requests, effects>>

-----------------------------------------------------------------------------
\* What a worker that is under way does next.
Act(w) == \/ Lookup(w) \/ Ask(w) \/ Call(w) \/ Settle(w)
          \/ StepDone(w) \/ Pause(w) \/ StepFails(w) \/ Fail(w)
          \/ PauseForHuman(w) \/ Finish(w)
          \/ CompleteManual(w) \/ ApproveGated(w) \/ DenyGated(w)
          \/ (\E e \in DOMAIN executions : Find(w, e)) \/ FindNone(w) \/ Resume(w)

Next == \E w \in Workers :
          \/ Start(w) \/ Act(w) \/ Crash(w)
          \/ \E e \in DOMAIN executions : OpenManual(w, e) \/ OpenGate(w, e)
          \/ \E q \in DOMAIN requests : Decide(w, q)

Spec == Init /\ [][Next]_vars

\* Handlers run to their end, and providers return.
FairSpec == Spec /\ \A w \in Workers : WF_vars(Act(w))

-----------------------------------------------------------------------------
(* Properties.                                                             *)

\* Types, and that what a worker works on is a committed row.
TypeOK ==
  /\ steps \in Procedures
  /\ executions \in Seq(Execution) /\ requests \in Seq(Request)
  /\ effects \in [1 .. MaxRequests -> Nat] /\ crashes \in Nat
  /\ worker \in [Workers -> Worker]
  /\ \A w \in Workers :
       /\ worker[w].ex \in {None} \cup DOMAIN executions
       /\ worker[w].pc \in {"failing", "completing", "approving", "resuming"}
            => worker[w].ex \in DOMAIN executions
       /\ worker[w].request \in {None} \cup DOMAIN requests
       /\ worker[w].pc \in {"calling", "called"} => worker[w].request \in DOMAIN requests

\* The provider is called at most once for a request, whoever decides on it,
\* replays it or crashes (claim_status, and "executing" committed first).
CalledOnce == \A q \in DOMAIN effects : effects[q] <= 1

\* An action that was denied, refused or not decided yet has had no effect, and
\* one that asks for an approval had it: of two approvers one wins, and only
\* the winner's decision counts.
EffectsAreAllowed == \A q \in DOMAIN requests : effects[q] > 0 =>
  /\ requests[q].status \in {"executing", "verified", "failed"}
  /\ requests[q].approval =
       IF steps[requests[q].step] = "change" THEN "approved" ELSE "none"

\* When the procedure begins with an auto step, an event that is delivered
\* again, to a process that died or to one that did not, runs no action again.
ActionOnce == AutoStep(1) =>
  \A p, q \in DOMAIN requests :
    (effects[p] > 0 /\ effects[q] > 0 /\ requests[p].step = requests[q].step) => p = q

\* What makes the two of them hold: a request under way belongs to one worker,
\* and its provider was called if and only if that worker did so.
Calling == {"calling", "called"}
ActionInv ==
  /\ \A q \in DOMAIN effects : q > Len(requests) => effects[q] = 0
  /\ \A q \in DOMAIN requests :
       /\ q \in DOMAIN effects /\ effects[q] <= 1
       /\ requests[q].status \in {"policy_denied", "awaiting_approval", "denied"}
            => effects[q] = 0
       /\ requests[q].status = "awaiting_approval" => steps[requests[q].step] = "change"
       /\ requests[q].status \in {"executing", "verified", "failed"}
            => requests[q].approval =
                 IF steps[requests[q].step] = "change" THEN "approved" ELSE "none"
  /\ \A w \in Workers : worker[w].pc \in Calling =>
       /\ requests[worker[w].request].status = "executing"
       /\ effects[worker[w].request] = IF worker[w].pc = "called" THEN 1 ELSE 0
       /\ \A v \in Workers : (worker[v].pc \in Calling /\ worker[v].request = worker[w].request)
                              => v = w

\* A step is recorded as succeeded only for an action that was verified: a
\* failed action is never reported as a completed step.
Verified(q) == q \in DOMAIN requests /\ requests[q].status = "verified"
Truthful(row) == \A r \in row.results : r.status = "succeeded" => Verified(r.request)
ReportedIsVerified == \A e \in DOMAIN executions : Truthful(executions[e])

\* A settled request stays what it is, so a worker's answer that it is verified,
\* and every result recorded from it in a row or a copy, is still true.
ReportInv ==
  /\ \A e \in DOMAIN executions : Truthful(executions[e])
  /\ \A w \in Workers :
       /\ Truthful(worker[w].row)
       /\ worker[w].answer = "verified" => Verified(worker[w].request)

\* Execution e is paused on request q, at its current step.
PausedOn(e, q) == /\ e \in DOMAIN executions
                  /\ executions[e].status = "awaiting_approval"
                  /\ Result(executions[e].index, "waiting", q) \in executions[e].results
Undisturbed == crashes = 0 /\ Len(executions) <= 1

\* A decision made while an execution is paused on it gets the execution going
\* again (the approve route resumes it), unless a process dies or the event is
\* delivered twice.
DecisionIsFollowed == \A w \in Workers, q \in 1 .. MaxRequests, e \in 1 .. MaxExecutions :
  (/\ worker[w].pc \in {"calling", "called", "resolved"}
   /\ worker[w].request = q
   /\ PausedOn(e, q)) ~> ~PausedOn(e, q) \/ ~Undisturbed

(* What the code's comments say and the code does not do.                  *)

\* Every auto step becomes a device action of its own.
OwnAction == \A e \in DOMAIN executions : \A r \in executions[e].results :
  (r.status = "succeeded" /\ AutoStep(r.step)) => requests[r.request].step = r.step

\* The runner goes past a gated step only after its approval.
GatesHold == \A e \in DOMAIN executions : \A i \in DOMAIN steps :
  (steps[i] = "gated" /\ i < executions[e].index)
    => Result(i, "approved", None) \in executions[e].results

\* Once the approval is resolved, the paused execution continues: it does not
\* stay paused on a request that is settled.
DecisionResumes == \A q \in 1 .. MaxRequests, e \in 1 .. MaxExecutions :
  (/\ q \in DOMAIN requests
   /\ requests[q].status \in {"denied", "verified", "failed"}
   /\ PausedOn(e, q)) ~> ~PausedOn(e, q)

\* A resume finds the execution whose current step waits for the action.
ResumesItsStep == [][\A w \in Workers, e \in DOMAIN executions :
  Find(w, e) => PausedOn(e, worker[w].request)]_vars

\* A repeated request creates no second action request.
OneRequest == Len(requests) <= 1

\* An execution that ended is over: a step that was denied is not resumed.
Over == {"succeeded", "failed", "abandoned"}
EndIsFinal == [][\A e \in DOMAIN executions :
  executions[e].status \in Over => executions'[e].status \in Over]_vars

\* No step is skipped: what the row is at, all steps before it have a result.
NoStepSkipped == \A e \in DOMAIN executions : \A i \in DOMAIN steps :
  i < executions[e].index =>
    \E r \in executions[e].results : r.step = i /\ r.status # "waiting"
=============================================================================
