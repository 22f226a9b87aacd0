---------------------------- MODULE ApprovalGate ----------------------------
(***************************************************************************)
(* What the approval boundary of the task service promises, without the    *)
(* requests, locks and statuses that provide it: protected work on a task  *)
(* that requires approval runs only while the task is approved, one worker *)
(* at a time; approval is granted only to a pending request, and nobody    *)
(* decides while the work runs.                                            *)
(***************************************************************************)
CONSTANT Tasks

VARIABLES
  required,  \* tasks whose protected work needs an approval
  approval,  \* the state of each task's approval
  running    \* tasks whose protected work is in progress

vars == <<required, approval, running>>

Init == /\ required = {}
        /\ approval = [t \in Tasks |-> "not_required"]
        /\ running = {}

\* A new task says once whether it needs approval.
Require(t) == /\ approval[t] = "not_required"
              /\ t \notin running
              /\ required' = required \cup {t}
              /\ UNCHANGED <<approval, running>>

Move(t, from, to) == /\ t \in required
                     /\ t \notin running
                     /\ approval[t] \in from
                     /\ approval' = [approval EXCEPT ![t] = to]
                     /\ UNCHANGED <<required, running>>

Request(t) == Move(t, {"not_required", "rejected"}, "waiting")
Grant(t) == Move(t, {"waiting"}, "approved")
Decline(t) == Move(t, {"waiting"}, "rejected")

Start(t) == /\ t \notin running
            /\ t \in required => approval[t] = "approved"
            /\ running' = running \cup {t}
            /\ UNCHANGED <<required, approval>>

Stop(t) == /\ t \in running
           /\ running' = running \ {t}
           /\ UNCHANGED <<required, approval>>

Next == \E t \in Tasks : \/ Require(t)
                         \/ Request(t) \/ Grant(t) \/ Decline(t)
                         \/ Start(t) \/ Stop(t)

Spec == Init /\ [][Next]_vars

=============================================================================
