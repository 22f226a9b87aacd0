---------------------------- MODULE TaskDispatch ----------------------------
(***************************************************************************)
(* The two scheduled jobs that share advisory lock 91827365: the dispatch  *)
(* of queued tasks (scheduler/task_dispatch.py) and the scheduled          *)
(* discovery (scheduler/discovery_jobs.py), on every process.              *)
(*                                                                         *)
(* A dispatch tick is one ORM session.  The tasks it listed stay loaded,   *)
(* so SELECT ... FOR UPDATE hands out the copies of the listing and every  *)
(* task still looks created; of the agents, the last one it chose stays    *)
(* loaded, with the workload the tick has given it.                        *)
(*                                                                         *)
(* One tenant, and no agent goes away.  Due scopes are taken oldest first, *)
(* five a tick: here a tick takes all of them.  People write a task in one *)
(* step, but whether an agent has room they look up before, in another.    *)
(***************************************************************************)
EXTENDS Naturals, FiniteSets

CONSTANTS
  Tasks,        \* numbers, in the order of creation
  Agents,
  NoAgent,
  People,       \* the requests by hand that overlap
  Scopes,       \* discovery scopes with a schedule
  Processes,
  NoProcess,
  Able,         \* the agents that support the type of each task, or where
                \* there are none have one of its skills
  Batch,        \* DISPATCH_BATCH_PER_TENANT
  Shortlist,    \* limit * 3: the agents that a candidate query returns
  Capacity,     \* Agent.max_workload
  Autonomous    \* AUTONOMOUS_TASK_ASSIGNMENT, off by default

ASSUME DispatchAssumption ==
  /\ Tasks \subseteq Nat
  /\ NoAgent \notin Agents
  /\ NoProcess \notin Processes
  /\ Able \in [Tasks -> SUBSET Agents]
  /\ Batch \in Nat \ {0}
  /\ Shortlist \in Nat \ {0}
  /\ Capacity \in [Agents -> Nat \ {0}]
  /\ Autonomous \in BOOLEAN

VARIABLES
  row,       \* the committed row of each task
  workload,  \* the committed current_workload of each agent
  hand,      \* the assignment by hand that each request has checked
  key,       \* the process that holds the advisory lock
  tick,      \* the dispatch tick of each process
  scan,      \* the scopes that the discovery job of each process has to probe
  scanning,  \* the processes whose discovery job runs
  scope,     \* the schedule of each scope
  routed     \* history: how often a tick has assigned each task

vars == <<row, workload, hand, key, tick, scan, scanning, scope, routed>>

people == <<row, workload, hand>>
dispatch == <<tick, routed>>
discovery == <<scan, scanning, scope>>

-----------------------------------------------------------------------------
(* People and agents.                                                      *)

CreateTask(t) ==
  /\ row[t].status = "absent"
  /\ \A x \in Tasks : x < t => row[x].status # "absent"
  /\ row' = [row EXCEPT ![t].status = "created"]
  /\ UNCHANGED <<workload, hand, key, dispatch, discovery>>

\* _assert_assignable_agent: no lock is taken, and the agent is not looked at
\* again.  (Of a task that is created no more the request is refused anyway.)
CheckByHand(u, t, a) ==
  /\ hand[u] = {}
  /\ row[t].status = "created"
  /\ workload[a] < Capacity[a]
  /\ hand' = [hand EXCEPT ![u] = {<<t, a>>}]
  /\ UNCHANGED <<row, workload, key, dispatch, discovery>>

\* assign_task under the row lock, which refuses a task that is not created
\* any more, and increment_workload.
AssignByHand(u, t, a) ==
  /\ <<t, a>> \in hand[u]
  /\ row[t].status = "created"
  /\ row' = [row EXCEPT ![t] = [status |-> "assigned", agent |-> a]]
  /\ workload' = [workload EXCEPT ![a] = @ + 1]
  /\ hand' = [hand EXCEPT ![u] = {}]
  /\ UNCHANGED <<key, dispatch, discovery>>

\* The request is refused (409), or dies.
RefuseByHand(u) ==
  /\ hand[u] # {}
  /\ hand' = [hand EXCEPT ![u] = {}]
  /\ UNCHANGED <<row, workload, key, dispatch, discovery>>

\* The workload of the assignee stays as it is.
CancelTask(t) ==
  /\ row[t].status \in {"created", "assigned"}
  /\ row' = [row EXCEPT ![t].status = "cancelled"]
  /\ UNCHANGED <<workload, hand, key, dispatch, discovery>>

\* From the acceptance to the verification, passed or failed.
CompleteTask(t) ==
  LET a == row[t].agent
  IN  /\ row[t].status = "assigned"
      /\ row' = [row EXCEPT ![t].status = "done"]
      /\ workload' = [workload EXCEPT ![a] = IF @ > 0 THEN @ - 1 ELSE 0]
      /\ UNCHANGED <<hand, key, dispatch, discovery>>

-----------------------------------------------------------------------------
(* The dispatch of queued tasks.                                           *)

Resting == [pc |-> "idle", left |-> {}, agent |-> NoAgent, load |-> 0]

Created == {t \in Tasks : row[t].status = "created"}

\* TaskRepository.list: the newest of the tasks that are created.
Listed == {t \in Created : Cardinality({x \in Created : x > t}) < Batch}

\* Mutant of KeyIsFree: the lock is not taken.
KeyIsFreeAlways == TRUE
\* pg_try_advisory_lock
KeyIsFree == key = NoProcess

StartTick(p) ==
  /\ Autonomous
  /\ tick[p].pc = "idle"
  /\ KeyIsFree
  /\ key' = p
  /\ tick' = [tick EXCEPT ![p] = [Resting EXCEPT !.pc = "routing", !.left = Listed]]
  /\ UNCHANGED <<people, routed, discovery>>

\* The oldest task that the tick has left.
IsNext(p, t) == t \in tick[p].left /\ \A x \in tick[p].left : t <= x

\* The workload of an agent as the session of the tick sees it.
SeenLoad(p, a) == IF a = tick[p].agent THEN tick[p].load ELSE workload[a]

\* The agents a candidate query is about: those that are able, full or not;
\* where there are none, every agent with room.
Pool(t) == IF Able[t] # {} THEN Able[t] ELSE {a \in Agents : workload[a] < Capacity[a]}

\* What such a query may return: the least loaded, as far as the limit goes.
Shortlists(t) ==
  {L \in SUBSET Pool(t) :
     /\ Cardinality(L) <= Shortlist
     /\ L = Pool(t) \/ Cardinality(L) = Shortlist
     /\ \A a \in L, b \in Pool(t) \ L : workload[a] <= workload[b]}

\* Mutant of Candidates: the capacity is not looked at again.
CandidatesFull(p, L) == L
\* find_candidates: those of the shortlist with room, as the session sees it.
\* How they are scored is left open.
Candidates(p, L) == {a \in L : SeenLoad(p, a) < Capacity[a]}

\* Mutant of Skip: the first task without a candidate ends the tick.
SkipRest(p, t) ==
  /\ tick[p].pc = "routing"
  /\ IsNext(p, t)
  /\ \E L \in Shortlists(t) : Candidates(p, L) = {}
  /\ tick' = [tick EXCEPT ![p].left = {}]
  /\ UNCHANGED <<people, key, routed, discovery>>
\* No candidate: the task stays queued.
Skip(p, t) ==
  /\ tick[p].pc = "routing"
  /\ IsNext(p, t)
  /\ \E L \in Shortlists(t) : Candidates(p, L) = {}
  /\ tick' = [tick EXCEPT ![p].left = @ \ {t}]
  /\ UNCHANGED <<people, key, routed, discovery>>

Choose(p, t) ==
  /\ tick[p].pc = "routing"
  /\ IsNext(p, t)
  /\ \E L \in Shortlists(t) : \E a \in Candidates(p, L) :
       tick' = [tick EXCEPT ![p].pc = "chosen", ![p].agent = a,
                            ![p].load = SeenLoad(p, a)]
  /\ UNCHANGED <<people, key, routed, discovery>>

\* assign_task on the copy, increment_workload, commit.
Assign(p, t) ==
  LET a == tick[p].agent
  IN  /\ tick[p].pc = "chosen"
      /\ IsNext(p, t)
      /\ row' = [row EXCEPT ![t] = [status |-> "assigned", agent |-> a]]
      /\ workload' = [workload EXCEPT ![a] = tick[p].load + 1]
      /\ routed' = [routed EXCEPT ![t] = @ + 1]
      /\ tick' = [tick EXCEPT ![p].pc = "routing", ![p].left = @ \ {t},
                              ![p].load = @ + 1]
      /\ UNCHANGED <<hand, key, discovery>>

\* finally: pg_advisory_unlock
Unlock(p) == key' = IF key = p THEN NoProcess ELSE key

EndTick(p) ==
  /\ tick[p].pc = "routing"
  /\ tick[p].left = {}
  /\ tick' = [tick EXCEPT ![p] = Resting]
  /\ Unlock(p)
  /\ UNCHANGED <<people, routed, discovery>>

\* One task raises.  The rollback expires every task of the listing, so the
\* log line of the handler, which names the task, raises too: the tick is over.
AbortTick(p) ==
  /\ tick[p].pc # "idle"
  /\ tick' = [tick EXCEPT ![p] = Resting]
  /\ Unlock(p)
  /\ UNCHANGED <<people, routed, discovery>>

-----------------------------------------------------------------------------
(* The scheduled discovery.                                                *)

Due == {s \in Scopes : scope[s] = "due"}

ComeDue(s) ==
  /\ scope[s] = "waiting"
  /\ scope' = [scope EXCEPT ![s] = "due"]
  /\ UNCHANGED <<people, key, dispatch, scan, scanning>>

\* The scopes of tenants without a subscription move on one interval.
StartScan(p) ==
  /\ p \notin scanning
  /\ KeyIsFree
  /\ key' = p
  /\ scanning' = scanning \cup {p}
  /\ \E active \in SUBSET Due :
       /\ scan' = [scan EXCEPT ![p] = active]
       /\ scope' = [s \in Scopes |-> IF s \in Due \ active THEN "waiting" ELSE scope[s]]
  /\ UNCHANGED <<people, dispatch>>

\* Mutant of AfterProbe: only a probe that succeeds sets the next run.
AfterProbeSuccess(ok) == IF ok THEN "waiting" ELSE "due"
\* Whether the probe succeeds or not, the next run counts from this one.
AfterProbe(ok) == "waiting"

\* run_scope_probe and the commit; a scope that cannot be probed has no next run.
Probe(p, s) ==
  /\ s \in scan[p]
  /\ scan' = [scan EXCEPT ![p] = @ \ {s}]
  /\ \/ \E ok \in BOOLEAN : scope' = [scope EXCEPT ![s] = AfterProbe(ok)]
     \/ scope' = [scope EXCEPT ![s] = "off"]
  /\ UNCHANGED <<people, key, dispatch, scanning>>

EndScan(p) ==
  /\ p \in scanning
  /\ scan[p] = {}
  /\ scanning' = scanning \ {p}
  /\ Unlock(p)
  /\ UNCHANGED <<people, dispatch, scan, scope>>

AbortScan(p) ==
  /\ p \in scanning
  /\ scanning' = scanning \ {p}
  /\ scan' = [scan EXCEPT ![p] = {}]
  /\ Unlock(p)
  /\ UNCHANGED <<people, dispatch, scope>>

\* A process dies, and its connections with it.
Crash(p) ==
  /\ key = p
  /\ key' = NoProcess
  /\ tick' = [tick EXCEPT ![p] = Resting]
  /\ scan' = [scan EXCEPT ![p] = {}]
  /\ scanning' = scanning \ {p}
  /\ UNCHANGED <<people, routed, scope>>

-----------------------------------------------------------------------------
Init ==
  /\ row = [t \in Tasks |-> [status |-> "absent", agent |-> NoAgent]]
  /\ workload = [a \in Agents |-> 0]
  /\ hand = [u \in People |-> {}]
  /\ key = NoProcess
  /\ tick = [p \in Processes |-> Resting]
  /\ scan = [p \in Processes |-> {}]
  /\ scanning = {}
  /\ scope = [s \in Scopes |-> "waiting"]
  /\ routed = [t \in Tasks |-> 0]

Work(t) == \/ CreateTask(t) \/ CancelTask(t) \/ CompleteTask(t)
           \/ \E u \in People, a \in Agents : CheckByHand(u, t, a) \/ AssignByHand(u, t, a)

Route(p) == \/ \E t \in Tasks : Skip(p, t) \/ Choose(p, t) \/ Assign(p, t)
            \/ EndTick(p)

Discover(p) == EndScan(p) \/ \E s \in Scopes : Probe(p, s)

Next ==
  \/ \E t \in Tasks : Work(t)
  \/ \E u \in People : RefuseByHand(u)
  \/ \E s \in Scopes : ComeDue(s)
  \/ \E p \in Processes : \/ StartTick(p) \/ Route(p) \/ AbortTick(p)
                          \/ StartScan(p) \/ Discover(p) \/ AbortScan(p)
                          \/ Crash(p)

\* A job that runs goes on, and ticks are raised out of and killed only so
\* often.  Which job finds the lock free is left open.
Fairness ==
  /\ \A p \in Processes :
       /\ WF_vars(StartTick(p) \/ StartScan(p))
       /\ WF_vars(Route(p))
       /\ WF_vars(Discover(p))
       /\ <>[][AbortTick(p) \/ AbortScan(p) \/ Crash(p) => EndTick(p) \/ EndScan(p)]_vars

Spec == Init /\ [][Next]_vars
FairSpec == Spec /\ Fairness

-----------------------------------------------------------------------------
(* Properties.                                                             *)

\* Every variable keeps its type.
TypeOK ==
  /\ row \in [Tasks -> [status: {"absent", "created", "assigned", "cancelled", "done"},
                        agent: Agents \cup {NoAgent}]]
  /\ workload \in [Agents -> Nat]
  /\ hand \in [People -> SUBSET (Tasks \X Agents)]
  /\ key \in Processes \cup {NoProcess}
  /\ tick \in [Processes -> [pc: {"idle", "routing", "chosen"}, left: SUBSET Tasks,
                             agent: Agents \cup {NoAgent}, load: Nat]]
  /\ scan \in [Processes -> SUBSET Scopes]
  /\ scanning \subseteq Processes
  /\ scope \in [Scopes -> {"waiting", "due", "off"}]
  /\ routed \in [Tasks -> Nat]

\* "Only one worker dispatches at a time": although no tick looks at a task
\* again when it locks it, ticks assign a task once, through every crash.
RoutedOnce == \A t \in Tasks : routed[t] <= 1

\* A tick counts no agent past its capacity, whatever was assigned by hand
\* between its choice and its commit: it writes the load it judged, and one.
\* (The counter itself does pass the capacity: WithinCapacity.)
TicksKeepCapacity == [][\A p \in Processes, t \in Tasks :
  Assign(p, t) => workload'[tick[p].agent] <= Capacity[tick[p].agent]]_vars

\* "Eligibility" is what the assign route enforces "before any write": no
\* agent has more work than its capacity.  Its unlocked check breaks this.
WithinCapacity == \A a \in Agents : workload[a] <= Capacity[a]

\* A queued task for which there is an agent with room.
Servable(t) ==
  /\ t \in Created
  /\ \E a \in Agents : /\ workload[a] < Capacity[a]
                       /\ Able[t] # {} => a \in Able[t]

\* One among those that a tick lists, whose agent no full ones hide from the
\* shortlist.
Routable(t) ==
  /\ t \in Listed
  /\ \A L \in Shortlists(t) : \E a \in L : workload[a] < Capacity[a]

\* "One unroutable task" holds up none of the others: as long as ticks find
\* the lock free again and again, no task stays routable and queued.
RoutableIsRouted ==
  []<><<\E p \in Processes : StartTick(p)>>_vars =>
    \A t \in Tasks : Routable(t) ~> ~ Routable(t)

\* As long as discovery finds the lock free again and again, no scope stays
\* due, whatever becomes of its probes.
DueIsProbed ==
  []<><<\E p \in Processes : StartScan(p)>>_vars =>
    \A s \in Scopes : scope[s] = "due" ~> scope[s] # "due"

\* "Validated against a stale pre-lock read" is what the row lock of
\* assign_task is to prevent: a tick leaves a task alone that is cancelled or
\* done.  The copies of the listing break this.
FinalStays == [][\A t \in Tasks :
  row[t].status \in {"cancelled", "done"} => row'[t] = row[t]]_vars

\* "Dispatch is a queue, so serve the oldest work first (FIFO)": a queued task
\* with an agent that has room leaves the queue.  The batch of the newest
\* breaks this for a task behind as many that nobody can do.
BacklogRuns ==
  []<><<\E p \in Processes : StartTick(p)>>_vars =>
    \A t \in Tasks : Servable(t) ~> ~ Servable(t)

=============================================================================
