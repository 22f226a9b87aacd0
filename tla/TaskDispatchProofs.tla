------------------------- MODULE TaskDispatchProofs -------------------------
(***************************************************************************)
(* Proofs about TaskDispatch for any number of tasks, agents, scopes and   *)
(* processes, any batch, shortlist and capacities: ticks assign a task     *)
(* once, and count no agent past its capacity.                             *)
(***************************************************************************)
EXTENDS TaskDispatch, TLAPS

Tick == [pc: {"idle", "routing", "chosen"}, left: SUBSET Tasks,
         agent: Agents \cup {NoAgent}, load: Nat]

TaskRow == [status: {"absent", "created", "assigned", "cancelled", "done"},
            agent: Agents \cup {NoAgent}]

\* An assigned task has an agent, and an agent chosen had room when it was.
ChoiceInv ==
  /\ \A t \in Tasks : row[t].status = "assigned" => row[t].agent \in Agents
  /\ \A p \in Processes : tick[p].pc = "chosen" =>
       tick[p].agent \in Agents /\ tick[p].load < Capacity[tick[p].agent]

TypeInv == TypeOK /\ ChoiceInv

\* Whatever runs holds the lock, and one job of a process at a time.
KeyInv ==
  /\ \A p \in Processes : tick[p].pc # "idle" => key = p /\ p \notin scanning
  /\ \A p \in scanning : key = p
  /\ \A p \in Processes : tick[p].pc = "idle" => tick[p].left = {}

\* A task that a tick assigned is never queued again and in no listing.
RoutedInv ==
  /\ \A t \in Tasks : routed[t] \in {0, 1}
  /\ \A t \in Tasks : routed[t] = 1 =>
       /\ row[t].status \notin {"absent", "created"}
       /\ \A p \in Processes : t \notin tick[p].left
  /\ \A p \in Processes : \A t \in tick[p].left : row[t].status # "absent"

DispatchInv == TypeInv /\ KeyInv /\ RoutedInv

-----------------------------------------------------------------------------
(* What each step makes of a row or a tick.                                *)

LEMMA TypeUnfold ==
  ASSUME TypeOK
  PROVE  row \in [Tasks -> TaskRow] /\ tick \in [Processes -> Tick]
BY DEF TypeOK, TaskRow, Tick

LEMMA RestingTyped == Resting \in Tick
BY DEF Resting, Tick

\* A tick of p becomes n, and no other tick changes.
BecomesTick(p, n) ==
  /\ tick'[p] = n
  /\ \A q \in Processes : q # p => tick'[q] = tick[q]
  /\ n \in Tick => tick' \in [Processes -> Tick]

LEMMA SkipEffect ==
  ASSUME TypeOK, NEW p \in Processes, NEW t \in Tasks, Skip(p, t)
  PROVE  \E n \in Tick :
           /\ BecomesTick(p, n)
           /\ n.pc = "routing" /\ n.left = tick[p].left \ {t}
<1>1. tick \in [Processes -> Tick] /\ tick[p] \in Tick
  BY TypeUnfold
<1>2. PICK n : n = [tick[p] EXCEPT !.left = @ \ {t}]
  OBVIOUS
<1>3. tick' = [tick EXCEPT ![p] = n]
  BY <1>1, <1>2 DEF Skip
<1>4. n \in Tick /\ n.pc = "routing" /\ n.left = tick[p].left \ {t}
  BY <1>1, <1>2 DEF Tick, Skip
<1> QED
  BY <1>1, <1>3, <1>4 DEF BecomesTick

LEMMA ChooseEffect ==
  ASSUME TypeOK, NEW p \in Processes, NEW t \in Tasks, Choose(p, t)
  PROVE  \E n \in Tick :
           /\ BecomesTick(p, n)
           /\ n.pc = "chosen" /\ n.left = tick[p].left
           /\ n.agent \in Agents /\ n.load < Capacity[n.agent]
<1>1. tick \in [Processes -> Tick] /\ tick[p] \in Tick
  BY TypeUnfold
<1>2. PICK L \in Shortlists(t) : \E a \in Candidates(p, L) :
        tick' = [tick EXCEPT ![p].pc = "chosen", ![p].agent = a, ![p].load = SeenLoad(p, a)]
  BY DEF Choose
<1>10. PICK a \in Candidates(p, L) :
        tick' = [tick EXCEPT ![p].pc = "chosen", ![p].agent = a, ![p].load = SeenLoad(p, a)]
  BY <1>2
<1>3. PICK l : l = SeenLoad(p, a)
  OBVIOUS
<1>11. L \subseteq Agents
  BY DispatchAssumption DEF Shortlists, Pool, DispatchAssumption
<1>4. a \in Agents /\ l < Capacity[a] /\ l \in Nat
  BY <1>1, <1>10, <1>11, <1>3 DEF Candidates, SeenLoad, TypeOK, Tick
<1>5. PICK n : n = [[[tick[p] EXCEPT !.pc = "chosen"] EXCEPT !.agent = a] EXCEPT !.load = l]
  OBVIOUS
<1>6. tick' = [[[tick EXCEPT ![p].pc = "chosen"] EXCEPT ![p].agent = a] EXCEPT ![p].load = l]
  BY <1>1, <1>10, <1>3
<1>7. tick' = [tick EXCEPT ![p] = n]
  BY <1>1, <1>5, <1>6
<1>8. n = [pc |-> "chosen", left |-> tick[p].left, agent |-> a, load |-> l]
  BY <1>1, <1>5 DEF Tick
<1>9. n \in Tick
  BY <1>1, <1>4, <1>8 DEF Tick
<1> QED
  BY <1>1, <1>4, <1>7, <1>8, <1>9 DEF BecomesTick

LEMMA AssignEffect ==
  ASSUME TypeInv, NEW p \in Processes, NEW t \in Tasks, Assign(p, t)
  PROVE  /\ \E n \in Tick :
              /\ BecomesTick(p, n)
              /\ n.pc = "routing" /\ n.left = tick[p].left \ {t}
         /\ tick[p].agent \in Agents /\ tick[p].load + 1 \in Nat
         /\ tick[p].load + 1 <= Capacity[tick[p].agent]
<1>1. tick \in [Processes -> Tick] /\ tick[p] \in Tick
  BY TypeUnfold DEF TypeInv
<1>2. PICK l : l = tick[p].load + 1
  OBVIOUS
<1>3. /\ l \in Nat /\ tick[p].agent \in Agents
      /\ l <= Capacity[tick[p].agent]
  BY <1>1, <1>2, DispatchAssumption
  DEF TypeInv, ChoiceInv, Assign, Tick, DispatchAssumption
<1>4. PICK n : n = [[[tick[p] EXCEPT !.pc = "routing"] EXCEPT !.left = @ \ {t}] EXCEPT !.load = l]
  OBVIOUS
<1>5. tick' = [tick EXCEPT ![p].pc = "routing", ![p].left = @ \ {t}, ![p].load = @ + 1]
  BY DEF Assign
<1>6. tick' = [[[tick EXCEPT ![p].pc = "routing"] EXCEPT ![p].left = @ \ {t}] EXCEPT ![p].load = l]
  BY <1>1, <1>2, <1>5 DEF Tick
<1>7. tick' = [tick EXCEPT ![p] = n]
  BY <1>1, <1>4, <1>6
<1>8. n = [pc |-> "routing", left |-> tick[p].left \ {t}, agent |-> tick[p].agent, load |-> l]
  BY <1>1, <1>4 DEF Tick
<1>9. n \in Tick
  BY <1>1, <1>3, <1>8 DEF Tick
<1> QED
  BY <1>1, <1>2, <1>3, <1>7, <1>8, <1>9 DEF BecomesTick

LEMMA StartEffect ==
  ASSUME TypeOK, NEW p \in Processes, StartTick(p)
  PROVE  \E n \in Tick :
           BecomesTick(p, n) /\ n.pc = "routing" /\ n.left = Listed
<1>1. tick \in [Processes -> Tick] /\ Resting \in Tick
  BY TypeUnfold, RestingTyped
<1>2. Listed \in SUBSET Tasks
  BY DEF Listed, Created
<1>3. PICK c : c = Listed
  OBVIOUS
<1>4. PICK n : n = [[Resting EXCEPT !.pc = "routing"] EXCEPT !.left = c]
  OBVIOUS
<1>5. tick' = [tick EXCEPT ![p] = [Resting EXCEPT !.pc = "routing", !.left = c]]
  BY <1>3 DEF StartTick
<1>6. [Resting EXCEPT !.pc = "routing", !.left = c] = n
  BY <1>1, <1>4 DEF Tick
<1>7. n = [pc |-> "routing", left |-> c, agent |-> Resting.agent, load |-> Resting.load]
  BY <1>1, <1>4 DEF Tick
<1>8. n \in Tick
  BY <1>1, <1>2, <1>3, <1>7 DEF Tick
<1> QED
  BY <1>1, <1>3, <1>5, <1>6, <1>7, <1>8 DEF BecomesTick

\* The tick of p ends, one way or another.
Rests(p) == EndTick(p) \/ AbortTick(p) \/ Crash(p)

LEMMA RestEffect ==
  ASSUME TypeOK, NEW p \in Processes, Rests(p)
  PROVE  /\ BecomesTick(p, Resting)
         /\ Resting.pc = "idle" /\ Resting.left = {} /\ Resting \in Tick
<1>1. tick \in [Processes -> Tick]
  BY TypeUnfold
<1>2. tick' = [tick EXCEPT ![p] = Resting]
  BY DEF Rests, EndTick, AbortTick, Crash
<1>3. Resting.pc = "idle" /\ Resting.left = {}
  BY DEF Resting
<1> QED
  BY <1>1, <1>2, <1>3, RestingTyped DEF BecomesTick

\* Work on a task changes that task only, and never queues it again.
LEMMA WorkEffect ==
  ASSUME TypeInv, NEW t \in Tasks, Work(t)
  PROVE  /\ row' \in [Tasks -> TaskRow]
         /\ \A x \in Tasks : x # t => row'[x] = row[x]
         /\ row[t].status \notin {"absent", "created"} =>
              row'[t].status \notin {"absent", "created"}
         /\ row'[t].status # "absent"
         /\ row'[t].status = "assigned" => row'[t].agent \in Agents
         /\ workload' \in [Agents -> Nat]
         /\ hand' \in [People -> SUBSET (Tasks \X Agents)]
         /\ UNCHANGED <<key, dispatch, discovery>>
<1>1. /\ row \in [Tasks -> TaskRow] /\ row[t] \in TaskRow
      /\ workload \in [Agents -> Nat] /\ hand \in [People -> SUBSET (Tasks \X Agents)]
  BY TypeUnfold DEF TypeInv, TypeOK
<1>2. CASE CreateTask(t)
  BY <1>1, <1>2 DEF CreateTask, TaskRow
<1>3. CASE CancelTask(t)
  BY <1>1, <1>3 DEF CancelTask, TaskRow
<1>4. CASE CompleteTask(t)
  <2>1. row[t].agent \in Agents
    BY <1>4 DEF CompleteTask, TypeInv, ChoiceInv
  <2>2. workload' \in [Agents -> Nat]
    BY <1>1, <1>4, <2>1 DEF CompleteTask
  <2> QED
    BY <1>1, <1>4, <2>2 DEF CompleteTask, TaskRow
<1>5. ASSUME NEW u \in People, NEW a \in Agents, AssignByHand(u, t, a)
      PROVE  /\ row' \in [Tasks -> TaskRow]
             /\ \A x \in Tasks : x # t => row'[x] = row[x]
             /\ row'[t].status = "assigned" /\ row'[t].agent \in Agents
             /\ workload' \in [Agents -> Nat]
             /\ hand' \in [People -> SUBSET (Tasks \X Agents)]
             /\ UNCHANGED <<key, dispatch, discovery>>
  <2>1. workload' \in [Agents -> Nat] /\ hand' \in [People -> SUBSET (Tasks \X Agents)]
    BY <1>1, <1>5 DEF AssignByHand
  <2> QED
    BY <1>1, <1>5, <2>1 DEF AssignByHand, TaskRow
<1>6. ASSUME NEW u \in People, NEW a \in Agents, CheckByHand(u, t, a)
      PROVE  /\ hand' \in [People -> SUBSET (Tasks \X Agents)] /\ row[t].status = "created"
             /\ UNCHANGED <<row, workload, key, dispatch, discovery>>
  BY <1>1, <1>6 DEF CheckByHand
<1>7. row[t].status = "assigned" => row[t].agent \in Agents
  BY DEF TypeInv, ChoiceInv
<1> QED
  BY <1>1, <1>2, <1>3, <1>4, <1>5, <1>6, <1>7 DEF Work

-----------------------------------------------------------------------------
(* Types.                                                                  *)

LEMMA TypeInit == Init => TypeInv
<1> SUFFICES ASSUME Init PROVE TypeInv
  OBVIOUS
<1>2. tick \in [Processes -> Tick]
  BY RestingTyped DEF Init
<1>3. ChoiceInv
  BY DEF Init, ChoiceInv, Resting
<1>4. TypeOK
  BY <1>2 DEF Init, TypeOK, Tick
<1> QED
  BY <1>3, <1>4 DEF TypeInv

LEMMA TypeStep == TypeInv /\ [Next]_vars => TypeInv'
<1> SUFFICES ASSUME TypeInv, [Next]_vars PROVE TypeInv'
  OBVIOUS
<1>1. TypeOK /\ row \in [Tasks -> TaskRow] /\ tick \in [Processes -> Tick]
  BY TypeUnfold DEF TypeInv
<1>2. ASSUME NEW t \in Tasks, Work(t) PROVE TypeInv'
  BY <1>1, <1>2, WorkEffect DEF TypeInv, TypeOK, ChoiceInv, TaskRow, dispatch, discovery
<1>3. ASSUME NEW s \in Scopes, ComeDue(s) PROVE TypeInv'
  BY <1>1, <1>3 DEF ComeDue, TypeInv, TypeOK, ChoiceInv, people, dispatch
<1>4. ASSUME NEW p \in Processes, NEW n \in Tick, BecomesTick(p, n),
             n.pc = "chosen" => n.agent \in Agents /\ n.load < Capacity[n.agent],
             UNCHANGED people, key' \in {key, p, NoProcess},
             routed' = routed, scan' \in [Processes -> SUBSET Scopes],
             scanning' \subseteq Processes, scope' = scope
      PROVE  TypeInv'
  <2>1. tick' \in [Processes -> Tick]
    BY <1>4 DEF BecomesTick
  <2>2. TypeOK'
    BY <1>1, <1>4, <2>1 DEF TypeOK, Tick, people
  <2>3. ChoiceInv'
    BY <1>4 DEF TypeInv, ChoiceInv, BecomesTick, people
  <2> QED
    BY <2>2, <2>3 DEF TypeInv
<1>5. ASSUME NEW p \in Processes, StartTick(p) PROVE TypeInv'
  <2>1. PICK n \in Tick : BecomesTick(p, n) /\ n.pc = "routing"
    BY <1>1, <1>5, StartEffect
  <2> QED
    BY <1>1, <1>4, <1>5, <2>1 DEF StartTick, TypeOK, discovery
<1>6. ASSUME NEW p \in Processes, NEW t \in Tasks, Skip(p, t) PROVE TypeInv'
  <2>1. PICK n \in Tick : BecomesTick(p, n) /\ n.pc = "routing"
    BY <1>1, <1>6, SkipEffect
  <2> QED
    BY <1>1, <1>4, <1>6, <2>1 DEF Skip, TypeOK, discovery
<1>7. ASSUME NEW p \in Processes, NEW t \in Tasks, Choose(p, t) PROVE TypeInv'
  <2>1. PICK n \in Tick : BecomesTick(p, n) /\ n.agent \in Agents /\ n.load < Capacity[n.agent]
    BY <1>1, <1>7, ChooseEffect
  <2> QED
    BY <1>1, <1>4, <1>7, <2>1 DEF Choose, TypeOK, discovery
<1>8. ASSUME NEW p \in Processes, NEW t \in Tasks, Assign(p, t) PROVE TypeInv'
  <2>1. PICK n \in Tick : BecomesTick(p, n) /\ n.pc = "routing"
    BY <1>8, AssignEffect
  <2>2. tick' \in [Processes -> Tick]
    BY <2>1 DEF BecomesTick
  <2>3. PICK a : a = tick[p].agent
    OBVIOUS
  <2>4. a \in Agents /\ tick[p].load + 1 \in Nat
    BY <1>8, <2>3, AssignEffect
  <2>5. /\ row' = [row EXCEPT ![t] = [status |-> "assigned", agent |-> a]]
        /\ workload' = [workload EXCEPT ![a] = tick[p].load + 1]
        /\ routed' = [routed EXCEPT ![t] = @ + 1]
        /\ UNCHANGED <<hand, key, scan, scanning, scope>>
    BY <1>8, <2>3 DEF Assign, discovery
  <2>6. row' \in [Tasks -> TaskRow]
    BY <1>1, <2>4, <2>5 DEF TaskRow
  <2>7. TypeOK'
    BY <1>1, <2>2, <2>4, <2>5, <2>6 DEF TypeOK, TaskRow, Tick
  <2>8. ChoiceInv'
    BY <1>1, <2>1, <2>4, <2>5 DEF TypeInv, ChoiceInv, BecomesTick
  <2> QED
    BY <2>7, <2>8 DEF TypeInv
<1>9. ASSUME NEW p \in Processes, Rests(p) PROVE TypeInv'
  BY <1>1, <1>4, <1>9, RestEffect
  DEF Rests, EndTick, AbortTick, Crash, Unlock, TypeOK, discovery
<1>10. ASSUME NEW p \in Processes,
              StartScan(p) \/ EndScan(p) \/ AbortScan(p) \/ \E s \in Scopes : Probe(p, s)
       PROVE  TypeInv'
  <2>1. UNCHANGED <<row, workload, hand, tick, routed>> /\ key' \in {key, p, NoProcess}
    BY <1>10 DEF StartScan, EndScan, AbortScan, Probe, Unlock, people, dispatch
  <2>2. scanning' \subseteq Processes
    BY <1>1, <1>10 DEF StartScan, EndScan, AbortScan, Probe, TypeOK
  <2>3. scan' \in [Processes -> SUBSET Scopes]
    BY <1>1, <1>10 DEF StartScan, EndScan, AbortScan, Probe, TypeOK, Due
  <2>4. scope' \in [Scopes -> {"waiting", "due", "off"}]
    BY <1>1, <1>10 DEF StartScan, EndScan, AbortScan, Probe, TypeOK, AfterProbe
  <2>5. TypeOK'
    BY <1>1, <2>1, <2>2, <2>3, <2>4 DEF TypeOK
  <2>6. ChoiceInv'
    BY <2>1 DEF TypeInv, ChoiceInv
  <2> QED
    BY <2>5, <2>6 DEF TypeInv
<1>12. ASSUME NEW u \in People, RefuseByHand(u) PROVE TypeInv'
  BY <1>1, <1>12 DEF RefuseByHand, TypeInv, TypeOK, ChoiceInv, dispatch, discovery
<1>11. CASE UNCHANGED vars
  BY <1>1, <1>11 DEF vars, TypeInv, TypeOK, ChoiceInv
<1> QED
  BY <1>2, <1>3, <1>5, <1>6, <1>7, <1>8, <1>9, <1>10, <1>11, <1>12
  DEF Next, Route, Discover, Rests

-----------------------------------------------------------------------------
(* The lock and what ticks have assigned.                                  *)

LEMMA DispatchInit == Init => DispatchInv
<1> SUFFICES ASSUME Init PROVE DispatchInv
  OBVIOUS
<1>1. KeyInv
  BY DEF Init, KeyInv, Resting
<1>2. RoutedInv
  BY DEF Init, RoutedInv, Resting
<1> QED
  BY <1>1, <1>2, TypeInit DEF DispatchInv

LEMMA KeyStep == DispatchInv /\ [Next]_vars => KeyInv'
<1> SUFFICES ASSUME DispatchInv, [Next]_vars PROVE KeyInv'
  OBVIOUS
<1>1. TypeInv /\ TypeOK /\ KeyInv /\ NoProcess \notin Processes /\ scanning \subseteq Processes
  BY DispatchAssumption DEF DispatchInv, TypeInv, TypeOK, DispatchAssumption
<1>2. ASSUME UNCHANGED <<key, tick, scanning>> PROVE KeyInv'
  BY <1>1, <1>2 DEF KeyInv
<1>3. ASSUME NEW p \in Processes, NEW n \in Tick, BecomesTick(p, n),
             n.pc = "idle" => n.left = {}, UNCHANGED <<key, scanning>>,
             tick[p].pc # "idle"
      PROVE  KeyInv'
  BY <1>1, <1>3 DEF KeyInv, BecomesTick
<1>4. ASSUME NEW p \in Processes, StartTick(p) PROVE KeyInv'
  <2>1. PICK n \in Tick : BecomesTick(p, n) /\ n.pc = "routing"
    BY <1>1, <1>4, StartEffect
  <2>2. key = NoProcess /\ key' = p /\ scanning' = scanning
    BY <1>4 DEF StartTick, KeyIsFree, discovery
  <2>3. scanning = {} /\ \A q \in Processes : tick[q].pc = "idle"
    BY <1>1, <2>2 DEF KeyInv
  <2> QED
    BY <1>1, <2>1, <2>2, <2>3 DEF KeyInv, BecomesTick
<1>5. ASSUME NEW p \in Processes, NEW t \in Tasks,
             Skip(p, t) \/ Choose(p, t) \/ Assign(p, t)
      PROVE  KeyInv'
  <2>1. tick[p].pc # "idle" /\ UNCHANGED <<key, scanning>>
    BY <1>5 DEF Skip, Choose, Assign, discovery
  <2>2. \E n \in Tick : BecomesTick(p, n) /\ n.pc # "idle"
    <3>1. CASE Skip(p, t)
      <4>1. PICK n \in Tick : BecomesTick(p, n) /\ n.pc = "routing"
        BY <1>1, <3>1, SkipEffect
      <4> QED
        BY <4>1
    <3>2. CASE Choose(p, t)
      <4>1. PICK n \in Tick : BecomesTick(p, n) /\ n.pc = "chosen"
        BY <1>1, <3>2, ChooseEffect
      <4> QED
        BY <4>1
    <3>3. CASE Assign(p, t)
      <4>1. PICK n \in Tick : BecomesTick(p, n) /\ n.pc = "routing"
        BY <1>1, <3>3, AssignEffect
      <4> QED
        BY <4>1
    <3> QED
      BY <1>5, <3>1, <3>2, <3>3
  <2> QED
    BY <1>3, <2>1, <2>2
<1>6. ASSUME NEW p \in Processes, Rests(p) PROVE KeyInv'
  <2>1. BecomesTick(p, Resting) /\ Resting.pc = "idle" /\ Resting.left = {}
    BY <1>1, <1>6, RestEffect
  <2>2. CASE EndTick(p) \/ AbortTick(p)
    <3>1. key = p /\ p \notin scanning
      BY <1>1, <2>2 DEF EndTick, AbortTick, KeyInv
    <3>2. key' = NoProcess /\ scanning' = scanning
      BY <2>2, <3>1 DEF EndTick, AbortTick, Unlock, discovery
    <3> QED
      BY <1>1, <2>1, <3>1, <3>2 DEF KeyInv, BecomesTick
  <2>3. CASE Crash(p)
    <3>1. key = p /\ key' = NoProcess /\ scanning' = scanning \ {p}
      BY <2>3 DEF Crash
    <3> QED
      BY <1>1, <2>1, <3>1 DEF KeyInv, BecomesTick
  <2> QED
    BY <1>6, <2>2, <2>3 DEF Rests
<1>7. ASSUME NEW p \in Processes, StartScan(p) PROVE KeyInv'
  BY <1>1, <1>7 DEF StartScan, KeyIsFree, KeyInv, dispatch
<1>8. ASSUME NEW p \in Processes, EndScan(p) \/ AbortScan(p) PROVE KeyInv'
  BY <1>1, <1>8 DEF EndScan, AbortScan, Unlock, KeyInv, dispatch
<1>9. ASSUME \/ \E t \in Tasks : Work(t)
             \/ \E u \in People : RefuseByHand(u)
             \/ \E s \in Scopes : ComeDue(s)
             \/ \E p \in Processes, s \in Scopes : Probe(p, s)
             \/ UNCHANGED vars
      PROVE  UNCHANGED <<key, tick, scanning>>
  BY <1>9 DEF Work, CreateTask, CancelTask, CompleteTask, CheckByHand, AssignByHand,
              RefuseByHand, ComeDue, Probe,
              dispatch, discovery, vars
<1> QED
  BY <1>2, <1>4, <1>5, <1>6, <1>7, <1>8, <1>9 DEF Next, Route, Discover, Rests

\* A tick that forgets tasks of its listing, or rests, disturbs nothing.
LEMMA RoutedFrame ==
  ASSUME RoutedInv, NEW p \in Processes, NEW n, BecomesTick(p, n),
         n.left \subseteq tick[p].left, UNCHANGED <<row, routed>>
  PROVE  RoutedInv'
BY DEF RoutedInv, BecomesTick

LEMMA RoutedStep == DispatchInv /\ [Next]_vars => RoutedInv'
<1> SUFFICES ASSUME DispatchInv, [Next]_vars PROVE RoutedInv'
  OBVIOUS
<1>1. /\ TypeInv /\ TypeOK /\ KeyInv /\ RoutedInv
      /\ row \in [Tasks -> TaskRow] /\ tick \in [Processes -> Tick] /\ routed \in [Tasks -> Nat]
  BY TypeUnfold DEF DispatchInv, TypeInv, TypeOK
<1>2. ASSUME NEW t \in Tasks, Work(t) PROVE RoutedInv'
  <2>1. /\ \A x \in Tasks : x # t => row'[x] = row[x]
        /\ row[t].status \notin {"absent", "created"} =>
             row'[t].status \notin {"absent", "created"}
        /\ row'[t].status # "absent" /\ tick' = tick /\ routed' = routed
    BY <1>1, <1>2, WorkEffect DEF dispatch
  <2>2. \A x \in Tasks : row[x].status \notin {"absent", "created"} =>
                            row'[x].status \notin {"absent", "created"}
    BY <2>1
  <2>3. \A x \in Tasks : row[x].status # "absent" => row'[x].status # "absent"
    BY <2>1
  <2>4. \A q \in Processes : \A x \in tick[q].left : x \in Tasks /\ row[x].status # "absent"
    BY <1>1 DEF RoutedInv, Tick
  <2>5. \A q \in Processes : \A x \in tick[q].left : row'[x].status # "absent"
    BY <2>3, <2>4, Zenon
  <2> QED
    BY <1>1, <2>1, <2>2, <2>5 DEF RoutedInv
<1>3. ASSUME NEW p \in Processes, StartTick(p) PROVE RoutedInv'
  <2>1. PICK n \in Tick : BecomesTick(p, n) /\ n.left = Listed
    BY <1>1, <1>3, StartEffect
  <2>2. \A t \in Listed : t \in Tasks /\ row[t].status = "created"
    BY DEF Listed, Created
  <2>3. UNCHANGED <<row, routed>>
    BY <1>3 DEF StartTick, people
  <2> QED
    BY <1>1, <2>1, <2>2, <2>3 DEF RoutedInv, BecomesTick
<1>4. ASSUME NEW p \in Processes, NEW t \in Tasks, Skip(p, t) \/ Choose(p, t)
      PROVE  RoutedInv'
  <2>1. UNCHANGED <<row, routed>>
    BY <1>4 DEF Skip, Choose, people
  <2>2. CASE Skip(p, t)
    <3>1. PICK n \in Tick : BecomesTick(p, n) /\ n.left = tick[p].left \ {t}
      BY <1>1, <2>2, SkipEffect
    <3> QED
      BY <1>1, <2>1, <3>1, RoutedFrame
  <2>3. CASE Choose(p, t)
    <3>1. PICK n \in Tick : BecomesTick(p, n) /\ n.left = tick[p].left
      BY <1>1, <2>3, ChooseEffect
    <3> QED
      BY <1>1, <2>1, <3>1, RoutedFrame
  <2> QED
    BY <1>4, <2>2, <2>3
<1>5. ASSUME NEW p \in Processes, NEW t \in Tasks, Assign(p, t) PROVE RoutedInv'
  <2>1. PICK n \in Tick : BecomesTick(p, n) /\ n.left = tick[p].left \ {t}
    BY <1>1, <1>5, AssignEffect
  <2>2. t \in tick[p].left /\ tick[p].pc = "chosen"
    BY <1>5 DEF Assign, IsNext
  <2>3. routed[t] = 0
    BY <1>1, <2>2 DEF RoutedInv
  <2>4. \A x \in Tasks : routed'[x] = IF x = t THEN 1 ELSE routed[x]
    BY <1>1, <1>5, <2>3 DEF Assign
  <2>5. /\ row'[t].status = "assigned"
        /\ \A x \in Tasks : x # t => row'[x] = row[x]
    BY <1>1, <1>5 DEF Assign
  <2>6. \A q \in Processes : q # p => tick[q].left = {}
    <3>1. key = p
      BY <1>1, <2>2 DEF KeyInv
    <3> QED
      BY <1>1, <3>1 DEF KeyInv
  <2>7. \A x \in Tasks : routed'[x] \in {0, 1}
    BY <1>1, <2>4 DEF RoutedInv
  <2>8. \A x \in Tasks : routed'[x] = 1 => row'[x].status \notin {"absent", "created"}
    BY <1>1, <2>4, <2>5 DEF RoutedInv
  <2>9. \A x \in Tasks : routed'[x] = 1 => \A q \in Processes : x \notin tick'[q].left
    BY <1>1, <2>1, <2>4, <2>6 DEF RoutedInv, BecomesTick
  <2>10. \A q \in Processes : \A x \in tick'[q].left : row'[x].status # "absent"
    <3>1. \A x \in tick[p].left : x \in Tasks /\ row[x].status # "absent"
      BY <1>1 DEF RoutedInv, Tick
    <3>2. \A q \in Processes : \A x \in tick'[q].left : x \in tick[p].left /\ x # t
      BY <2>1, <2>6 DEF BecomesTick
    <3> QED
      BY <2>5, <3>1, <3>2, Zenon
  <2> QED
    BY <2>7, <2>8, <2>9, <2>10 DEF RoutedInv
<1>6. ASSUME NEW p \in Processes, Rests(p) PROVE RoutedInv'
  <2>1. UNCHANGED <<row, routed>>
    BY <1>6 DEF Rests, EndTick, AbortTick, Crash, people
  <2>2. PICK n : n = Resting
    OBVIOUS
  <2>3. BecomesTick(p, n) /\ n.left \subseteq tick[p].left
    <3>1. BecomesTick(p, Resting) /\ Resting.left = {}
      BY <1>1, <1>6, RestEffect
    <3> QED
      BY <2>2, <3>1
  <2> QED
    BY <1>1, <2>1, <2>3, RoutedFrame
<1>7. ASSUME UNCHANGED <<row, tick, routed>> PROVE RoutedInv'
  BY <1>1, <1>7 DEF RoutedInv
<1>8. ASSUME \/ \E s \in Scopes : ComeDue(s)
             \/ \E u \in People : RefuseByHand(u)
             \/ \E p \in Processes : \/ StartScan(p) \/ EndScan(p) \/ AbortScan(p)
                                     \/ \E s \in Scopes : Probe(p, s)
             \/ UNCHANGED vars
      PROVE  UNCHANGED <<row, tick, routed>>
  BY <1>8 DEF ComeDue, RefuseByHand, StartScan, EndScan, AbortScan, Probe, people, dispatch, vars
<1> QED
  BY <1>2, <1>3, <1>4, <1>5, <1>6, <1>7, <1>8 DEF Next, Route, Discover, Rests

-----------------------------------------------------------------------------
(* Theorems.                                                               *)

\* The invariant of the dispatch: whichever job of a process is under way
\* holds the one lock, and what a tick assigned is in no listing any more.
THEOREM DispatchInvariant == Spec => []DispatchInv
<1>1. Init => DispatchInv
  BY DispatchInit
<1>2. DispatchInv /\ [Next]_vars => DispatchInv'
  BY TypeStep, KeyStep, RoutedStep DEF DispatchInv
<1> QED
  BY <1>1, <1>2, PTL DEF Spec

\* Every variable keeps its type; in particular no counter goes below zero.
THEOREM TypeCorrect == Spec => []TypeOK
<1>1. DispatchInv => TypeOK
  BY DEF DispatchInv, TypeInv
<1> QED
  BY <1>1, DispatchInvariant, PTL

\* A tick counts no agent past its capacity, whatever is assigned by hand
\* meanwhile, through any number of full agents and shortlists: what it
\* writes is the load it judged (task_routing.py:71) and one.
THEOREM CapacityKept == Spec => TicksKeepCapacity
<1> DEFINE Keeps == \A p \in Processes, t \in Tasks :
             Assign(p, t) => workload'[tick[p].agent] <= Capacity[tick[p].agent]
<1>1. DispatchInv => Keeps
  <2> SUFFICES ASSUME DispatchInv, NEW p \in Processes, NEW t \in Tasks, Assign(p, t)
               PROVE  workload'[tick[p].agent] <= Capacity[tick[p].agent]
    OBVIOUS
  <2>1. PICK a : a = tick[p].agent
    OBVIOUS
  <2>2. TypeInv /\ workload \in [Agents -> Nat]
    BY DEF DispatchInv, TypeInv, TypeOK
  <2>3. a \in Agents /\ tick[p].load + 1 <= Capacity[a]
    BY <2>1, <2>2, AssignEffect
  <2>4. workload' = [workload EXCEPT ![a] = tick[p].load + 1]
    BY <2>1 DEF Assign
  <2> QED
    BY <2>1, <2>2, <2>3, <2>4
<1>2. DispatchInv /\ [Next]_vars => [Keeps]_vars
  BY <1>1
<1> QED
  BY <1>2, DispatchInvariant, PTL DEF Spec, TicksKeepCapacity

\* Ticks assign a task once, although none looks at its status again when it
\* locks it (task_dispatch.py:129): the advisory lock is enough, through
\* ticks that end in an exception and processes that die.
THEOREM AssignedOnce == Spec => []RoutedOnce
<1>1. DispatchInv => RoutedOnce
  BY DEF DispatchInv, RoutedInv, RoutedOnce
<1> QED
  BY <1>1, DispatchInvariant, PTL

=============================================================================
