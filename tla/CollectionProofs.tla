------------------------- MODULE CollectionProofs -------------------------
(***************************************************************************)
(* Proofs about a collection run and the failover round it ends with.      *)
(*                                                                         *)
(* CollectionRun, for any number of sources, processes, slots and          *)
(* operators: the variables keep their types, and the scheduler never      *)
(* collects a source twice at a time.                                      *)
(*                                                                         *)
(* FailoverDetector, for any links, collection runs and episodes, and any  *)
(* thresholds: the variables keep their types, and a round that was not    *)
(* overtaken opens no second episode.                                      *)
(***************************************************************************)
EXTENDS CollectionRun, FailoverDetector, FiniteSetTheorems, NaturalsInduction,
        WellFoundedInduction, TLAPS

-----------------------------------------------------------------------------
(* Counters and rows.                                                      *)

LEMMA EnoughType == Enough \in Nat \ {0}
BY CollectionAssumption DEF CollectionAssumption, Enough, Max2

LEMMA MoreType ==
  ASSUME NEW k \in 0 .. Enough
  PROVE  More(k) \in 0 .. Enough
BY EnoughType DEF More

LEMMA EvaluatedType ==
  ASSUME NEW row \in Health, NEW s
  PROVE  Evaluated(row, s) \in Health
<1>1. row.failures \in 0 .. Enough /\ row.successes \in 0 .. Enough
      /\ row.health \in {"healthy", "degraded"}
  BY DEF Health
<1>2. More(row.failures) \in 0 .. Enough /\ More(row.successes) \in 0 .. Enough
  BY <1>1, MoreType
<1>3. 0 \in 0 .. Enough
  BY EnoughType
<1>4. Succeeded(row) \in Health
  BY <1>1, <1>2, <1>3 DEF Succeeded, Health
<1>5. Failed(row) \in Health
  BY <1>1, <1>2, <1>3 DEF Failed, Health
<1> QED
  BY <1>4, <1>5 DEF Evaluated

\* Column by column, a mixture of two rows is a row.
LEMMA MixtureType ==
  ASSUME NEW now \in Health, NEW saw \in Health, NEW new \in Health
  PROVE  [f \in DOMAIN new |-> IF new[f] = saw[f] THEN now[f] ELSE new[f]] \in Health
<1> DEFINE mix == [f \in DOMAIN new |-> IF new[f] = saw[f] THEN now[f] ELSE new[f]]
<1>1. DOMAIN new = {"health", "failures", "successes"}
  BY DEF Health
<1>2. mix = [health |-> mix.health, failures |-> mix.failures, successes |-> mix.successes]
  BY <1>1
<1>3. mix.health \in {"healthy", "degraded"} /\ mix.failures \in 0 .. Enough
      /\ mix.successes \in 0 .. Enough
  BY <1>1 DEF Health
<1> HIDE DEF mix
<1>4. mix \in Health
  BY <1>2, <1>3 DEF Health
<1> QED
  BY <1>4 DEF mix

-----------------------------------------------------------------------------
(* Types.                                                                  *)

\* A run that holds a transaction is of a source, and has a status.
OfASource == \A r \in Runs :
  InFlight(r) => run[r].of \in Sources /\ run[r].status \in Statuses

TypeInv == TypeOK /\ OfASource

LEMMA RowTypes == New \in Health /\ Idle \in [pc: {"idle", "collecting", "written", "committed"},
                     of: Sources \cup {Nobody}, saw: Health, status: Statuses \cup {"none"}]
<1>1. New \in Health
  BY EnoughType DEF New, Health
<1> QED
  BY <1>1 DEF Idle

LEMMA TypeInit == Init => TypeInv
BY RowTypes DEF Init, TypeInv, TypeOK, OfASource, InFlight, Idle

\* A step that rewrites the record of one run only.
LEMMA TypeOfRun ==
  ASSUME TypeInv, NEW r \in Runs, NEW new, run' = [run EXCEPT ![r] = new],
         new \in [pc: {"idle", "collecting", "written", "committed"},
                  of: Sources \cup {Nobody}, saw: Health, status: Statuses \cup {"none"}],
         new.pc \in {"collecting", "written"} => new.of \in Sources /\ new.status \in Statuses
  PROVE  run' \in [Runs -> [pc: {"idle", "collecting", "written", "committed"},
                            of: Sources \cup {Nobody}, saw: Health,
                            status: Statuses \cup {"none"}]]
         /\ OfASource'
BY DEF TypeInv, TypeOK, OfASource, InFlight

LEMMA TypeOfBegin ==
  ASSUME TypeInv, NEW r \in Runs, NEW s \in Sources, Begin(r, s)
  PROVE  run' \in [Runs -> [pc: {"idle", "collecting", "written", "committed"},
                            of: Sources \cup {Nobody}, saw: Health,
                            status: Statuses \cup {"none"}]]
         /\ OfASource'
<1> DEFINE new == IF "running" \in rows[s] THEN Skipped(s)
                  ELSE [pc |-> "collecting", of |-> s, saw |-> source[s], status |-> "running"]
<1>1. source[s] \in Health
  BY DEF TypeInv, TypeOK
<1>2. new \in [pc: {"idle", "collecting", "written", "committed"},
               of: Sources \cup {Nobody}, saw: Health, status: Statuses \cup {"none"}]
      /\ new.of \in Sources /\ new.status \in Statuses
  BY <1>1, RowTypes DEF Skipped, Statuses, Outcomes
<1>3. run' = [run EXCEPT ![r] = new]
  BY DEF Begin
<1> HIDE DEF new
<1> QED
  BY <1>2, <1>3, TypeOfRun

LEMMA TypeStep == TypeInv /\ [Next]_vars => TypeInv'
<1> SUFFICES ASSUME TypeInv, [Next]_vars PROVE TypeInv'
  OBVIOUS
<1> USE DEF TypeInv
<1>1. ASSUME NEW s \in Sources, PollElapses(s) PROVE TypeInv'
  BY <1>1 DEF PollElapses, TypeOK, OfASource, InFlight
<1>2. ASSUME NEW s \in Sources, NEW r \in Runs, Sync(r, s) PROVE TypeInv'
  BY <1>2, TypeOfBegin DEF Sync, TypeOK
<1>3. ASSUME NEW p \in Processes, Tick(p) PROVE TypeInv'
  BY <1>3 DEF Tick, TypeOK, OfASource, InFlight
<1>4. ASSUME NEW p \in Processes, TickEnds(p) PROVE TypeInv'
  BY <1>4 DEF TickEnds, TypeOK, OfASource, InFlight
<1>5. ASSUME NEW p \in Processes, Crash(p) PROVE TypeInv'
  BY <1>5, RowTypes DEF Crash, TypeOK, OfASource, InFlight, Idle
<1>6. ASSUME NEW r \in Runs, NEW s \in Sources, Collect(r, s) PROVE TypeInv'
  <2>1. queue' \in [Processes -> SUBSET Sources]
    BY <1>6 DEF Collect, TypeOK
  <2> QED
    BY <1>6, <2>1, TypeOfBegin DEF Collect, TypeOK
<1>7. ASSUME NEW r \in Runs, NEW status \in Outcomes, Finish(r, status) PROVE TypeInv'
  <2> DEFINE new == [pc |-> "written", of |-> run[r].of, saw |-> run[r].saw,
                     status |-> status]
  <2>1. run[r].of \in Sources
    BY <1>7 DEF Finish, At, OfASource, InFlight
  <2>3. run' = [run EXCEPT ![r] = new]
    BY <1>7 DEF Finish, TypeOK
  <2>4. new \in [pc: {"idle", "collecting", "written", "committed"},
                 of: Sources \cup {Nobody}, saw: Health, status: Statuses \cup {"none"}]
        /\ new.of \in Sources /\ new.status \in Statuses
    BY <2>1 DEF TypeOK, Statuses
  <2> HIDE DEF new
  <2>5. run' \in [Runs -> [pc: {"idle", "collecting", "written", "committed"},
                           of: Sources \cup {Nobody}, saw: Health,
                           status: Statuses \cup {"none"}]]
        /\ OfASource'
    BY <2>3, <2>4, TypeOfRun
  <2> QED
    BY <1>7, <2>5 DEF Finish, TypeOK
<1>8. ASSUME NEW r \in Runs, Commit(r) PROVE TypeInv'
  <2> DEFINE new == IF Evaluated(run[r].saw, run[r].status).health # run[r].saw.health
                    THEN [run[r] EXCEPT !.pc = "committed"] ELSE Idle
  <2>1. run[r].of \in Sources /\ run[r].saw \in Health
    BY <1>8 DEF Commit, At, OfASource, InFlight, TypeOK
  <2>2. new \in [pc: {"idle", "collecting", "written", "committed"},
                 of: Sources \cup {Nobody}, saw: Health, status: Statuses \cup {"none"}]
        /\ new.pc \notin {"collecting", "written"}
    BY RowTypes DEF TypeOK, Idle
  <2>3. run' = [run EXCEPT ![r] = new]
    BY <1>8 DEF Commit, TypeOK
  <2> HIDE DEF new
  <2>4. run' \in [Runs -> [pc: {"idle", "collecting", "written", "committed"},
                           of: Sources \cup {Nobody}, saw: Health,
                           status: Statuses \cup {"none"}]]
        /\ OfASource'
    BY <2>2, <2>3, TypeOfRun
  <2>5. Written(r) \in Health
    BY <2>1, EvaluatedType, MixtureType DEF Written, TypeOK
  <2>6. source' \in [Sources -> Health]
    BY <1>8, <2>5 DEF Commit, TypeOK
  <2>7. due' \subseteq Sources
    BY <1>8 DEF Commit, TypeOK
  <2>8. rows' \in [Sources -> SUBSET Statuses]
    <3>1. run[r].status \in Statuses
      BY <1>8 DEF Commit, At, OfASource, InFlight
    <3> QED
      BY <1>8, <3>1 DEF Commit, TypeOK
  <2> QED
    BY <1>8, <2>4, <2>6, <2>7, <2>8 DEF Commit, TypeOK
<1>9. ASSUME NEW r \in Runs, Publish(r) \/ Lose(r) PROVE TypeInv'
  <2>1. run' = [run EXCEPT ![r] = Idle]
    BY <1>9 DEF Publish, Lose
  <2>2. Idle.pc \notin {"collecting", "written"}
    BY DEF Idle
  <2> QED
    BY <1>9, <2>1, <2>2, RowTypes, TypeOfRun DEF Publish, Lose, TypeOK
<1>10. ASSUME UNCHANGED vars PROVE TypeInv'
  BY <1>10 DEF vars, TypeOK, OfASource, InFlight
<1> QED
  BY <1>1, <1>2, <1>3, <1>4, <1>5, <1>6, <1>7, <1>8, <1>9, <1>10
  DEF Next, CollectAny, FinishAny

-----------------------------------------------------------------------------
(* One scheduled run of a source at a time.                                *)

\* A process with sources that wait, or with a run of its slots, is the one
\* that holds the lock of the tick.
BusyHolds == \A p \in Processes : Busy(p) => lock = p

\* A source that waits for a slot is not being collected by another one.
WaitingIsNotRun == \A p \in Processes : \A s \in queue[p], r \in Slots :
  Home[r] = p /\ InFlight(r) => run[r].of # s

RunInv == TypeInv /\ BusyHolds /\ WaitingIsNotRun /\ OneScheduledRun

LEMMA SlotHome == Slots \subseteq Runs /\ \A r \in Runs : Home[r] \in Processes
BY CollectionAssumption DEF CollectionAssumption, Runs

LEMMA RunInit == Init => RunInv
BY TypeInit DEF Init, RunInv, BusyHolds, WaitingIsNotRun, OneScheduledRun, Busy, InFlight,
  Idle, Runs

\* A slot that holds a transaction is of the process that holds the lock.
LEMMA FlightHolds ==
  ASSUME TypeOK, BusyHolds, NEW r \in Slots, InFlight(r)
  PROVE  lock = Home[r]
BY SlotHome DEF BusyHolds, Busy, InFlight, Idle

\* A step that starts no run and lets no source wait: runs may end, and the
\* lock may be left by a process that is not busy.
LEMMA Quiet ==
  ASSUME RunInv, TypeInv',
         \A p \in Processes : queue'[p] \subseteq queue[p],
         \A r \in Slots : run'[r] # Idle => run[r] # Idle,
         \A r \in Slots : InFlight(r)' => InFlight(r) /\ run'[r].of = run[r].of,
         \A p \in Processes : Busy(p)' /\ lock = p => lock' = p
  PROVE  RunInv'
<1>1. \A p \in Processes : Busy(p)' => Busy(p)
  BY DEF Busy
<1>2. BusyHolds'
  BY <1>1 DEF RunInv, BusyHolds
<1>3. WaitingIsNotRun'
  BY DEF RunInv, WaitingIsNotRun
<1>4. OneScheduledRun'
  BY DEF RunInv, OneScheduledRun
<1> QED
  BY <1>2, <1>3, <1>4 DEF RunInv

LEMMA RunStep == RunInv /\ [Next]_vars => RunInv'
<1> SUFFICES ASSUME RunInv, [Next]_vars PROVE RunInv'
  OBVIOUS
<1>t. TypeOK /\ TypeInv /\ TypeInv'
  BY TypeStep DEF RunInv, TypeInv
<1> USE SlotHome
<1>1. ASSUME NEW s \in Sources, PollElapses(s) PROVE RunInv'
  BY <1>1, <1>t, Quiet DEF PollElapses, Busy, InFlight
<1>2. ASSUME NEW s \in Sources, NEW r \in Runs, Sync(r, s) PROVE RunInv'
  <2>1. \A q \in Slots : q # r
    BY <1>2, CollectionAssumption DEF Sync, CollectionAssumption
  <2>2. \A q \in Slots : run'[q] = run[q]
    BY <1>2, <1>t, <2>1 DEF Sync, Begin, TypeOK
  <2> QED
    BY <1>2, <1>t, <2>2, Quiet DEF Sync, Busy, InFlight
<1>3. ASSUME NEW p \in Processes, Tick(p) PROVE RunInv'
  <2>1. lock = Nobody /\ lock' = p /\ ~ Busy(p) /\ run' = run
    BY <1>3 DEF Tick, MayTick
  <2>2. \A o \in Processes : ~ Busy(o)
    BY <2>1, CollectionAssumption DEF RunInv, BusyHolds, CollectionAssumption
  <2>3. \A r \in Slots : run[r] = Idle
    BY <2>2 DEF Busy
  <2>4. \A r \in Slots : ~ InFlight(r) /\ ~ InFlight(r)'
    BY <2>1, <2>3 DEF InFlight, Idle
  <2>5. \A o \in Processes : o # p => queue'[o] = {}
    BY <1>3, <1>t, <2>2 DEF Tick, Busy, TypeOK
  <2>6. BusyHolds'
    BY <2>1, <2>3, <2>5 DEF BusyHolds, Busy
  <2> QED
    BY <1>t, <2>4, <2>6 DEF RunInv, WaitingIsNotRun, OneScheduledRun
<1>4. ASSUME NEW p \in Processes, TickEnds(p) PROVE RunInv'
  <2>1. ~ Busy(p) /\ lock = p /\ UNCHANGED <<queue, run>>
    BY <1>4 DEF TickEnds, Gathered
  <2> QED
    BY <2>1, <1>t, Quiet DEF Busy, InFlight
<1>5. ASSUME NEW p \in Processes, Crash(p) PROVE RunInv'
  <2>1. \A r \in Slots : run'[r] = IF Home[r] = p THEN Idle ELSE run[r]
    BY <1>5 DEF Crash
  <2>2. queue'[p] = {} /\ \A o \in Processes : o # p => queue'[o] = queue[o]
    BY <1>5, <1>t DEF Crash, TypeOK
  <2>3. ~ Busy(p)'
    BY <2>1, <2>2 DEF Busy
  <2>4. \A o \in Processes : Busy(o)' /\ lock = o => lock' = o
    BY <1>5, <2>3 DEF Crash
  <2>5. \A r \in Slots : InFlight(r)' => InFlight(r) /\ run'[r].of = run[r].of
    BY <2>1 DEF InFlight, Idle
  <2>6. \A r \in Slots : run'[r] # Idle => run[r] # Idle
    BY <2>1
  <2>7. \A o \in Processes : queue'[o] \subseteq queue[o]
    BY <2>2
  <2> QED
    BY <1>t, <2>4, <2>5, <2>6, <2>7, Quiet
<1>6. ASSUME NEW r \in Runs, NEW s \in Sources, Collect(r, s) PROVE RunInv'
  <2>1. r \in Slots /\ s \in queue[Home[r]] /\ lock' = lock
    BY <1>6 DEF Collect
  <2>2. lock = Home[r]
    BY <2>1 DEF RunInv, BusyHolds, Busy
  <2>3. run'[r].of = s /\ \A q \in Slots : q # r => run'[q] = run[q]
    BY <1>6, <1>t DEF Collect, Begin, Skipped, TypeOK
  <2>4. s \notin queue'[Home[r]] /\ \A p \in Processes : queue'[p] \subseteq queue[p]
    BY <1>6, <1>t DEF Collect, TypeOK
  <2>5. \A p \in Processes : Busy(p)' => Busy(p) \/ p = Home[r]
    BY <2>3, <2>4 DEF Busy
  <2>6. BusyHolds'
    BY <2>1, <2>2, <2>5 DEF RunInv, BusyHolds
  <2>7. WaitingIsNotRun'
    BY <2>1, <2>3, <2>4 DEF RunInv, WaitingIsNotRun, InFlight
  <2>8. ASSUME NEW q \in Slots, q # r, InFlight(q)' PROVE run'[q].of # s
    <3>1. InFlight(q) /\ run'[q] = run[q]
      BY <2>3, <2>8 DEF InFlight
    <3>2. Home[q] = Home[r]
      BY <1>t, <2>2, <3>1, FlightHolds DEF RunInv
    <3> QED
      BY <2>1, <3>1, <3>2 DEF RunInv, WaitingIsNotRun
  <2>9. OneScheduledRun'
    BY <2>3, <2>8 DEF RunInv, OneScheduledRun, InFlight
  <2> QED
    BY <1>t, <2>6, <2>7, <2>9 DEF RunInv
<1>7. ASSUME NEW r \in Runs, NEW status \in Outcomes, Finish(r, status) PROVE RunInv'
  <2>1. run[r].pc = "collecting" /\ UNCHANGED <<lock, queue>> /\ run'[r].of = run[r].of
        /\ \A q \in Slots : q # r => run'[q] = run[q]
    BY <1>7, <1>t DEF Finish, At, TypeOK
  <2>2. \A q \in Slots : InFlight(q)' => InFlight(q) /\ run'[q].of = run[q].of
    BY <2>1 DEF InFlight
  <2>3. \A q \in Slots : run'[q] # Idle => run[q] # Idle
    BY <2>1 DEF Idle
  <2> QED
    BY <1>t, <2>1, <2>2, <2>3, Quiet
<1>8. ASSUME NEW r \in Runs, Commit(r) \/ Publish(r) \/ Lose(r) PROVE RunInv'
  <2>1. run[r] # Idle /\ UNCHANGED <<lock, queue>> /\ ~ InFlight(r)'
    BY <1>8, <1>t DEF Commit, Publish, Lose, At, InFlight, Idle, TypeOK
  <2>2. \A q \in Slots : q # r => run'[q] = run[q]
    BY <1>8, <1>t DEF Commit, Publish, Lose, TypeOK
  <2>3. \A q \in Slots : InFlight(q)' => InFlight(q) /\ run'[q].of = run[q].of
    BY <2>1, <2>2 DEF InFlight
  <2>4. \A q \in Slots : run'[q] # Idle => run[q] # Idle
    BY <2>1, <2>2
  <2> QED
    BY <1>t, <2>1, <2>3, <2>4, Quiet
<1>9. ASSUME UNCHANGED vars PROVE RunInv'
  BY <1>9, <1>t, Quiet DEF vars, Busy, InFlight
<1> QED
  BY <1>1, <1>2, <1>3, <1>4, <1>5, <1>6, <1>7, <1>8, <1>9 DEF Next, CollectAny, FinishAny

-----------------------------------------------------------------------------
(* Theorems.                                                               *)

\* Whatever runs overlap, fail, are lost or die with their process, the
\* health columns, the queues and the lock keep their types.
THEOREM TypeCorrect == Spec => []TypeOK
<1>1. TypeInv => TypeOK
  BY DEF TypeInv
<1> QED
  BY <1>1, TypeInit, TypeStep, PTL DEF Spec

\* The scheduler never collects a source twice at a time, for any number of
\* processes and slots (scheduler/jobs.py, the advisory lock of the tick).
THEOREM ScheduledOnce == Spec => []OneScheduledRun
<1>1. RunInv => OneScheduledRun
  BY DEF RunInv
<1> QED
  BY <1>1, RunInit, RunStep, PTL DEF Spec

-----------------------------------------------------------------------------
(* Failover rounds: links, samples and rows.                               *)

LEMMA LeastFacts ==
  ASSUME NEW S \in SUBSET Nat, S # {}
  PROVE  Least(S) \in S
<1> DEFINE R == OpToRel(<, Nat)
<1>1. \A x, y \in Nat : x < y => <<x, y>> \in R
  BY DEF OpToRel
<1>2. IsWellFoundedOn(R, Nat)
  BY NatLessThanWellFounded
<1> HIDE DEF R
<1>3. PICK m \in S : \A x \in S : <<x, m>> \notin R
  BY <1>2, WFMin
<1>4. ASSUME NEW x \in S PROVE m <= x
  <2>1. x \in Nat /\ m \in Nat /\ ~ (x < m)
    BY <1>1, <1>3
  <2> QED
    BY <2>1
<1> QED
  BY <1>4 DEF Least

Samples == 0 .. EnoughSamples
Sight == [up: SUBSET Links, critical: BOOLEAN]
EpisodeRow == [status: OpenStatuses \cup Terminal \cup {"none"},
               from: Links \cup {NoLink}, need: Samples]

LEMMA SampleFacts ==
  /\ EnoughSamples \in Nat \ {0} /\ 0 \in Samples
  /\ \A k \in Samples : MoreSamples(k) \in Samples
  /\ \A n \in Sight : Required(n) \in Samples /\ Required(n) > 0
<1>1. EnoughSamples \in Nat \ {0} /\ DefaultSamples <= EnoughSamples /\ PolicySamples <= EnoughSamples
      /\ DefaultSamples \in Nat \ {0} /\ PolicySamples \in Nat \ {0}
  BY DetectorAssumption DEF DetectorAssumption, EnoughSamples
<1>2. \A k \in Samples : MoreSamples(k) \in Samples
  BY <1>1 DEF Samples, MoreSamples
<1>3. \A n \in Sight : Required(n) \in Samples /\ Required(n) > 0
  BY <1>1 DEF Samples, Required
<1> QED
  BY <1>1, <1>2, <1>3 DEF Samples

LEMMA SightFacts ==
  ASSUME NEW n \in Sight, NEW prev \in Baselines
  PROVE  /\ Selected(n) \in Links \cup {NoLink}
         /\ FailedLink(n, prev) \in Links \cup {NoLink}
         /\ Breaches(n, prev) \in Samples /\ Clear(n, prev) \in Samples
<1>1. n.up \in SUBSET Nat /\ n.up \subseteq Links /\ Down(n) \in SUBSET Nat /\ Down(n) \subseteq Links
  BY DetectorAssumption DEF DetectorAssumption, Sight, Down
<1>2. n.up # {} => Least(n.up) \in n.up
  BY <1>1, LeastFacts
<1>3. Down(n) # {} => Least(Down(n)) \in Down(n)
  BY <1>1, LeastFacts
<1>4. prev.chosen \in Links \cup {NoLink} /\ prev.breaches \in Samples /\ prev.clear \in Samples
  BY DEF Baselines, Samples
<1>5. Selected(n) \in Links \cup {NoLink}
  BY <1>1, <1>2 DEF Selected
<1>6. FailedLink(n, prev) \in Links \cup {NoLink}
  BY <1>1, <1>3, <1>4 DEF FailedLink
<1>7. Breaches(n, prev) \in Samples /\ Clear(n, prev) \in Samples
  BY <1>4, SampleFacts DEF Breaches, Clear
<1> QED
  BY <1>5, <1>6, <1>7

-----------------------------------------------------------------------------
(* The inductive invariant of the rounds.                                  *)

\* A round continues an episode that was opened, and knows it from none.
ContinuesInv == \A c \in Rounds : round[c].pc = "loaded" =>
  /\ round[c].open = NoEpisode <=> round[c].was = "none"
  /\ round[c].open # NoEpisode => episode[round[c].open].need > 0

\* A round that was not overtaken knows the open episode, if there is one.
FreshInv == \A c \in Rounds : round[c].pc = "loaded" /\ ~ round[c].stale =>
  /\ round[c].open = NoEpisode => Open = {}
  /\ round[c].open # NoEpisode => round[c].open \in Open

DetectorInv == DetectorTypeOK /\ ContinuesInv /\ FreshInv /\ IsFiniteSet(Open)

LEMMA RoundFacts ==
  ASSUME DetectorTypeOK, NEW c \in Rounds
  PROVE  /\ round[c].pc \in {"idle", "loaded"} /\ round[c].saw \in Sight
         /\ round[c].prev \in Baselines /\ round[c].open \in Episodes \cup {NoEpisode}
         /\ round[c].was \in OpenStatuses \cup {"none"} /\ round[c].stale \in BOOLEAN
BY DEF DetectorTypeOK, Sight

LEMMA NoRoundFacts ==
  /\ NoRound \in [pc: {"idle", "loaded"}, saw: [up: SUBSET Links, critical: BOOLEAN],
                  prev: Baselines, open: Episodes \cup {NoEpisode},
                  was: OpenStatuses \cup {"none"}, stale: BOOLEAN]
  /\ NoRound.pc = "idle" /\ NoBaseline \in Baselines
<1>1. NoBaseline \in Baselines
  BY SampleFacts DEF NoBaseline, Baselines, Samples
<1> QED
  BY <1>1 DEF NoRound

LEMMA DetectorInvInit == DetectorInit => DetectorInv
<1> SUFFICES ASSUME DetectorInit PROVE DetectorInv
  OBVIOUS
<1>1. \A e \in Episodes : episode[e].status = "none"
  BY DEF DetectorInit, Unused
<1>2. Open = {}
  BY <1>1 DEF Open, OpenStatuses
<1>3. Unused \in [status: OpenStatuses \cup Terminal \cup {"none"},
                  from: Links \cup {NoLink}, need: 0 .. EnoughSamples]
  BY SampleFacts DEF Unused, Samples
<1>4. DetectorTypeOK
  BY <1>2, <1>3, NoRoundFacts DEF DetectorInit, DetectorTypeOK
<1>5. \A c \in Rounds : round[c].pc = "idle"
  BY NoRoundFacts DEF DetectorInit
<1> QED
  BY <1>2, <1>4, <1>5, FS_EmptySet DEF DetectorInv, ContinuesInv, FreshInv

-----------------------------------------------------------------------------
(* What a round writes.                                                    *)

LEMMA SavedType ==
  ASSUME DetectorTypeOK, NEW c \in Rounds, NEW active \in Episodes \cup {NoEpisode}
  PROVE  Saved(c, active) \in Baselines
<1>1. PICK r : r = round[c]
  OBVIOUS
<1>2. r.saw \in Sight /\ r.prev \in Baselines
  BY <1>1, RoundFacts
<1> DEFINE new == [active |-> active, breaches |-> Breaches(r.saw, r.prev),
                   clear |-> Clear(r.saw, r.prev), chosen |-> Selected(r.saw), kept |-> TRUE]
<1>3. new \in Baselines
  BY <1>2, SightFacts DEF Baselines, Samples
<1>4. baseline \in Baselines
  BY DEF DetectorTypeOK
<1>5. CASE ~ (baseline.kept /\ r.prev.kept)
  BY <1>1, <1>3, <1>5 DEF Saved
<1>6. CASE baseline.kept /\ r.prev.kept
  <2>1. DOMAIN new = {"active", "breaches", "clear", "chosen", "kept"}
    OBVIOUS
  <2>2. Saved(c, active)
          = [f \in {"active", "breaches", "clear", "chosen", "kept"} |->
               IF new[f] = r.prev[f] THEN baseline[f] ELSE new[f]]
    BY <1>1, <1>6, <2>1 DEF Saved
  <2>3. PICK a, b, k, s, t :
          /\ a = (IF new["active"] = r.prev["active"] THEN baseline["active"] ELSE new["active"])
          /\ b = (IF new["breaches"] = r.prev["breaches"] THEN baseline["breaches"] ELSE new["breaches"])
          /\ k = (IF new["clear"] = r.prev["clear"] THEN baseline["clear"] ELSE new["clear"])
          /\ s = (IF new["chosen"] = r.prev["chosen"] THEN baseline["chosen"] ELSE new["chosen"])
          /\ t = (IF new["kept"] = r.prev["kept"] THEN baseline["kept"] ELSE new["kept"])
    OBVIOUS
  <2>4. /\ new["active"] = new.active /\ new["breaches"] = new.breaches
        /\ new["clear"] = new.clear /\ new["chosen"] = new.chosen /\ new["kept"] = new.kept
        /\ baseline["active"] = baseline.active /\ baseline["breaches"] = baseline.breaches
        /\ baseline["clear"] = baseline.clear /\ baseline["chosen"] = baseline.chosen
        /\ baseline["kept"] = baseline.kept
    OBVIOUS
  <2>5. [active |-> a, breaches |-> b, clear |-> k, chosen |-> s, kept |-> t] \in Baselines
    BY <1>3, <1>4, <2>3, <2>4 DEF Baselines
  <2>6. Saved(c, active) = [active |-> a, breaches |-> b, clear |-> k, chosen |-> s, kept |-> t]
    BY <2>2, <2>3
  <2> QED
    BY <2>5, <2>6
<1> QED
  BY <1>5, <1>6

\* The episodes differ from what they were at e at most, which is one that is
\* open, the one round c continues, or a new one where it knew of none.
Touched(c, events, e) ==
  /\ \A f \in Episodes \ {e} : events[f] = episode[f]
  /\ events[e].need > 0
  /\ \/ e \in Open
     \/ e = round[c].open
     \/ round[c].was = "none"

RowsWritten(c, events, row) ==
  /\ row \in Baselines
  /\ events \in [Episodes -> EpisodeRow]
  /\ events = episode \/ \E e \in Episodes : Touched(c, events, e)
  /\ Write(c, events, row)

Withdrawn(c) ==
  /\ round' = [round EXCEPT ![c] = NoRound]
  /\ UNCHANGED <<baseline, episode>>

\* What a commit does to the rows of the scope.
Committed(c) == Withdrawn(c) \/ \E events, row : RowsWritten(c, events, row)

LEMMA EpisodeTypes ==
  ASSUME DetectorTypeOK
  PROVE  /\ episode \in [Episodes -> EpisodeRow]
         /\ \A e \in Open : e \in Episodes /\ episode[e].need > 0
BY DEF DetectorTypeOK, EpisodeRow, Samples, Open

LEMMA UnchangedWritten ==
  ASSUME DetectorTypeOK, NEW c \in Rounds, NEW active \in Episodes \cup {NoEpisode},
         Write(c, episode, Saved(c, active))
  PROVE  Committed(c)
<1>1. RowsWritten(c, episode, Saved(c, active))
  BY SavedType, EpisodeTypes DEF RowsWritten
<1> QED
  BY <1>1 DEF Committed

LEMMA StatusFacts ==
  ASSUME DetectorTypeOK, NEW e \in Episodes, episode[e].need > 0,
         NEW status \in OpenStatuses \cup Terminal
  PROVE  /\ [episode EXCEPT ![e].status = status] \in [Episodes -> EpisodeRow]
         /\ [episode EXCEPT ![e].status = status][e].need > 0
         /\ \A f \in Episodes \ {e} : [episode EXCEPT ![e].status = status][f] = episode[f]
<1>1. PICK x : x = [episode[e] EXCEPT !.status = status]
  OBVIOUS
<1>2. episode \in [Episodes -> EpisodeRow]
  BY EpisodeTypes
<1>3. x \in EpisodeRow /\ x.need = episode[e].need
  BY <1>1, <1>2 DEF EpisodeRow
<1>4. [episode EXCEPT ![e].status = status] = [episode EXCEPT ![e] = x]
  BY <1>1, <1>2
<1>5. [episode EXCEPT ![e] = x] \in [Episodes -> EpisodeRow]
  BY <1>2, <1>3
<1> QED
  BY <1>2, <1>3, <1>4, <1>5

LEMMA TransitionEffect ==
  ASSUME DetectorTypeOK, ContinuesInv, NEW c \in Rounds, round[c].pc = "loaded",
         round[c].was # "none", NEW status \in OpenStatuses \cup Terminal,
         NEW active \in Episodes \cup {NoEpisode}, Transition(c, status, active)
  PROVE  Committed(c)
<1>1. CASE <<round[c].was, status>> \notin AllowedTransitions
  BY <1>1 DEF Transition, Committed, Withdrawn
<1>2. CASE <<round[c].was, status>> \in AllowedTransitions
  <2>1. PICK e : e = round[c].open
    OBVIOUS
  <2>2. e \in Episodes /\ episode[e].need > 0
    BY <2>1, RoundFacts DEF ContinuesInv
  <2>3. PICK events : events = [episode EXCEPT ![e].status = status]
    OBVIOUS
  <2>4. events \in [Episodes -> EpisodeRow] /\ Touched(c, events, e)
    BY <2>1, <2>2, <2>3, StatusFacts DEF Touched
  <2>5. Write(c, events, Saved(c, active))
    BY <1>2, <2>1, <2>3 DEF Transition
  <2>6. RowsWritten(c, events, Saved(c, active))
    BY <2>2, <2>4, <2>5, SavedType DEF RowsWritten
  <2> QED
    BY <2>6 DEF Committed
<1> QED
  BY <1>1, <1>2

LEMMA OpenOneEffect ==
  ASSUME DetectorTypeOK, NEW c \in Rounds, OpenOne(c)
  PROVE  Committed(c)
<1>1. PICK r, from, status :
        /\ r = round[c] /\ from = FailedLink(r.saw, r.prev)
        /\ status = (IF Resolved(c) = "open_failover" THEN "failed_over" ELSE "detected")
  OBVIOUS
<1>2. r.saw \in Sight /\ from \in Links \cup {NoLink} /\ status \in OpenStatuses
  BY <1>1, RoundFacts, SightFacts DEF OpenStatuses
<1>3. Resolved(c) \in {"open_failover", "open_breach"}
  BY DEF OpenOne
<1>4. r.was = "none"
  <2>1. r.was \in {"none", "detected", "failed_over", "recovering"}
    BY <1>1, RoundFacts DEF OpenStatuses
  <2>2. Resolve(r.saw, r.prev, r.was) \in {"open_failover", "open_breach"}
    BY <1>1, <1>3 DEF Resolved
  <2>3. r.prev.kept
    BY <2>2 DEF Resolve
  <2> QED
    BY <2>1, <2>2, <2>3 DEF Resolve
<1>5. ASSUME NEW e \in Open,
             Write(c, IF status = "failed_over" /\ episode[e].status = "detected"
                      THEN [episode EXCEPT ![e].status = status] ELSE episode,
                   Saved(c, e))
      PROVE  Committed(c)
  <2>1. e \in Episodes /\ episode[e].need > 0
    BY EpisodeTypes
  <2>2. CASE ~ (status = "failed_over" /\ episode[e].status = "detected")
    BY <1>5, <2>1, <2>2, UnchangedWritten
  <2>3. CASE status = "failed_over" /\ episode[e].status = "detected"
    <3>1. PICK events : events = [episode EXCEPT ![e].status = status]
      OBVIOUS
    <3>2. events \in [Episodes -> EpisodeRow] /\ Touched(c, events, e)
      BY <1>2, <2>1, <3>1, StatusFacts DEF Touched
    <3>3. Write(c, events, Saved(c, e))
      BY <1>5, <2>3, <3>1
    <3>4. RowsWritten(c, events, Saved(c, e))
      BY <2>1, <3>2, <3>3, SavedType DEF RowsWritten
    <3> QED
      BY <3>4 DEF Committed
  <2> QED
    BY <2>2, <2>3
<1>6. ASSUME NEW e, {f \in Episodes : episode[f] = Unused} # {},
             e = Least({f \in Episodes : episode[f] = Unused}),
             Write(c, [episode EXCEPT ![e] = [status |-> status, from |-> from,
                                              need |-> Required(r.saw)]],
                   Saved(c, e))
      PROVE  Committed(c)
  <2>1. {f \in Episodes : episode[f] = Unused} \in SUBSET Nat
    BY DetectorAssumption DEF DetectorAssumption
  <2>2. e \in Episodes
    BY <1>6, <2>1, LeastFacts
  <2>3. PICK x : x = [status |-> status, from |-> from, need |-> Required(r.saw)]
    OBVIOUS
  <2>4. x \in EpisodeRow /\ x.need > 0
    BY <1>2, <2>3, SampleFacts DEF EpisodeRow
  <2>5. PICK events : events = [episode EXCEPT ![e] = x]
    OBVIOUS
  <2>6. events \in [Episodes -> EpisodeRow] /\ Touched(c, events, e)
    BY <1>1, <1>4, <2>2, <2>4, <2>5, EpisodeTypes DEF Touched
  <2>7. Write(c, events, Saved(c, e))
    BY <1>6, <2>3, <2>5
  <2>8. RowsWritten(c, events, Saved(c, e))
    BY <2>2, <2>6, <2>7, SavedType DEF RowsWritten
  <2> QED
    BY <2>8 DEF Committed
<1> QED
  BY <1>1, <1>5, <1>6 DEF OpenOne

LEMMA CommitEffect ==
  ASSUME DetectorTypeOK, ContinuesInv, NEW c \in Rounds, CommitRound(c)
  PROVE  Committed(c)
<1>1. round[c].pc = "loaded"
  BY DEF CommitRound
<1>2. round[c].open \in Episodes \cup {NoEpisode} /\ NoEpisode \in Episodes \cup {NoEpisode}
  BY RoundFacts
<1>3. Resolved(c) \in {"escalate", "abort", "begin_recovery", "verify"} => round[c].was # "none"
  BY DEF Resolved, Resolve
<1>4. ASSUME Resolved(c) \in {"escalate", "abort", "begin_recovery", "verify"},
             NEW status \in OpenStatuses \cup Terminal,
             NEW active \in Episodes \cup {NoEpisode}, Transition(c, status, active)
      PROVE  Committed(c)
  BY <1>1, <1>3, <1>4, TransitionEffect
<1>5. CASE TakeBaseline(c)
  BY <1>2, <1>5, UnchangedWritten DEF TakeBaseline
<1>6. CASE OpenOne(c)
  BY <1>6, OpenOneEffect
<1>7. CASE Escalate(c)
  BY <1>2, <1>4, <1>7 DEF Escalate, OpenStatuses
<1>8. CASE Abort(c)
  BY <1>2, <1>4, <1>8 DEF Abort, Terminal
<1>9. CASE BeginRecovery(c)
  BY <1>2, <1>4, <1>9 DEF BeginRecovery, OpenStatuses
<1>10. CASE VerifyAndClose(c)
  BY <1>2, <1>4, <1>10 DEF VerifyAndClose, Terminal
<1>11. CASE Refresh(c)
  BY <1>2, <1>11, UnchangedWritten DEF Refresh
<1> QED
  BY <1>5, <1>6, <1>7, <1>8, <1>9, <1>10, <1>11 DEF CommitRound

-----------------------------------------------------------------------------
(* Every step keeps the invariant.                                         *)

RoundRow == [pc: {"idle", "loaded"}, saw: [up: SUBSET Links, critical: BOOLEAN],
             prev: Baselines, open: Episodes \cup {NoEpisode},
             was: OpenStatuses \cup {"none"}, stale: BOOLEAN]

LEMMA StaleFacts ==
  ASSUME NEW r \in RoundRow
  PROVE  /\ [r EXCEPT !.stale = TRUE] \in RoundRow
         /\ [r EXCEPT !.stale = TRUE].pc = r.pc /\ [r EXCEPT !.stale = TRUE].stale
         /\ [r EXCEPT !.stale = TRUE].open = r.open /\ [r EXCEPT !.stale = TRUE].was = r.was
BY DEF RoundRow

\* A step that leaves round d what it was, but for being overtaken.
Overtaken(d) == /\ round'[d].pc = round[d].pc /\ round'[d].open = round[d].open
                /\ round'[d].was = round[d].was /\ round'[d].stale

LEMMA EndedFacts ==
  ASSUME DetectorTypeOK, NEW c \in Rounds, round' = Ended(c)
  PROVE  /\ round' \in [Rounds -> RoundRow]
         /\ round'[c].pc = "idle"
         /\ \A d \in Rounds \ {c} : round'[d].pc = "loaded" => Overtaken(d)
<1>1. \A d \in Rounds : round[d] \in RoundRow
  BY DEF DetectorTypeOK, RoundRow
<1>2. NoRound \in RoundRow /\ NoRound.pc = "idle"
  BY NoRoundFacts DEF RoundRow
<1>3. ASSUME NEW d \in Rounds
      PROVE  round'[d] = IF d = c THEN NoRound
                         ELSE IF round[d].pc = "loaded" THEN [round[d] EXCEPT !.stale = TRUE]
                         ELSE round[d]
  BY DEF Ended
<1>4. ASSUME NEW d \in Rounds \ {c}, round[d].pc = "loaded"
      PROVE  Overtaken(d) /\ round'[d] \in RoundRow
  <2>1. PICK r, s : r = round[d] /\ s = [r EXCEPT !.stale = TRUE]
    OBVIOUS
  <2>2. r \in RoundRow /\ round'[d] = s
    BY <1>1, <1>3, <1>4, <2>1
  <2>3. s \in RoundRow /\ s.pc = r.pc /\ s.stale /\ s.open = r.open /\ s.was = r.was
    BY <2>1, <2>2, StaleFacts
  <2> QED
    BY <2>1, <2>2, <2>3 DEF Overtaken
<1>5. ASSUME NEW d \in Rounds PROVE round'[d] \in RoundRow
  BY <1>1, <1>2, <1>3, <1>4
<1>6. round' = [d \in Rounds |-> round'[d]]
  BY DEF Ended
<1>7. round' \in [Rounds -> RoundRow]
  BY <1>5, <1>6
<1>8. \A d \in Rounds \ {c} : round'[d].pc = "loaded" => round[d].pc = "loaded"
  BY <1>3, <1>4
<1> QED
  BY <1>2, <1>3, <1>4, <1>7, <1>8

\* What a commit leaves of the episodes: those that other rounds continue
\* stay, and none is open that was not, but for the one it touches.
LEMMA WrittenFacts ==
  ASSUME DetectorTypeOK, NEW c \in Rounds, NEW events, NEW row, RowsWritten(c, events, row)
  PROVE  /\ baseline' \in Baselines /\ episode' \in [Episodes -> EpisodeRow]
         /\ \A d \in Rounds \ {c}, g \in Episodes :
              g = round[d].open /\ episode[g].need > 0 => episode'[g].need > 0
         /\ \A g \in Open' : g \in Episodes /\ episode'[g].need > 0
         /\ \/ Open' \subseteq Open
            \/ \E e \in Episodes : Touched(c, events, e) /\ Open' \subseteq Open \cup {e}
<1>1. /\ row \in Baselines /\ events \in [Episodes -> EpisodeRow]
      /\ events = episode \/ \E e \in Episodes : Touched(c, events, e)
      /\ baseline' = row
      /\ episode' = [e \in Episodes |->
           IF /\ events[e].status \in Terminal
              /\ row.active # e
              /\ \A d \in Rounds \ {c} : e \notin {round[d].open, round[d].prev.active}
           THEN Unused ELSE events[e]]
  BY DEF RowsWritten, Write
<1>2. Unused \in EpisodeRow /\ Unused.status = "none"
  BY SampleFacts DEF Unused, EpisodeRow
<1>3. \A g \in Episodes : episode'[g] = Unused \/ episode'[g] = events[g]
  BY <1>1
<1>4. episode' \in [Episodes -> EpisodeRow]
  BY <1>1, <1>2
<1>5. \A d \in Rounds \ {c}, g \in Episodes : g = round[d].open => episode'[g] = events[g]
  BY <1>1
<1>6. ASSUME NEW g \in Episodes, episode[g].need > 0 PROVE events[g].need > 0
  BY <1>1, <1>6 DEF Touched
<1>7. ASSUME NEW g \in Open'
      PROVE  g \in Episodes /\ episode'[g] = events[g] /\ events[g].status \in OpenStatuses
  <2>1. g \in Episodes /\ episode'[g].status \in OpenStatuses
    BY DEF Open
  <2> QED
    BY <1>2, <1>3, <2>1 DEF OpenStatuses
<1>8. CASE events = episode
  <2>1. Open' \subseteq Open
    BY <1>7, <1>8 DEF Open
  <2>2. \A g \in Open' : g \in Episodes /\ episode'[g].need > 0
    BY <1>7, <1>8, <2>1, EpisodeTypes
  <2> QED
    BY <1>1, <1>4, <1>5, <1>6, <2>1, <2>2
<1>9. CASE \E e \in Episodes : Touched(c, events, e)
  <2>1. PICK e \in Episodes : Touched(c, events, e)
    BY <1>9
  <2>2. \A g \in Episodes \ {e} : events[g] = episode[g]
    BY <2>1 DEF Touched
  <2>3. Open' \subseteq Open \cup {e}
    BY <1>7, <2>2 DEF Open
  <2>4. \A g \in Open' : g \in Episodes /\ episode'[g].need > 0
    BY <1>7, <2>1, <2>2, <2>3, EpisodeTypes DEF Touched
  <2> QED
    BY <1>1, <1>4, <1>5, <1>6, <2>1, <2>3, <2>4
<1> QED
  BY <1>1, <1>8, <1>9

LEMMA WrittenStep ==
  ASSUME DetectorInv, NEW c \in Rounds, NEW events, NEW row, RowsWritten(c, events, row)
  PROVE  DetectorInv'
<1>1. DetectorTypeOK /\ ContinuesInv /\ IsFiniteSet(Open)
  BY DEF DetectorInv
<1>2. /\ baseline' \in Baselines /\ episode' \in [Episodes -> EpisodeRow]
      /\ \A d \in Rounds \ {c}, g \in Episodes :
           g = round[d].open /\ episode[g].need > 0 => episode'[g].need > 0
      /\ \A g \in Open' : g \in Episodes /\ episode'[g].need > 0
      /\ \/ Open' \subseteq Open
         \/ \E e \in Episodes : Open' \subseteq Open \cup {e}
  BY <1>1, WrittenFacts
<1>3. round' = Ended(c)
  BY DEF RowsWritten, Write
<1>4. /\ round' \in [Rounds -> RoundRow] /\ round'[c].pc = "idle"
      /\ \A d \in Rounds \ {c} : round'[d].pc = "loaded" => Overtaken(d)
  BY <1>1, <1>3, EndedFacts
<1>5. DetectorTypeOK'
  BY <1>2, <1>4 DEF DetectorTypeOK, RoundRow, EpisodeRow, Samples
<1>6. ASSUME NEW d \in Rounds, round'[d].pc = "loaded"
      PROVE  /\ round'[d].stale
             /\ round'[d].open = NoEpisode <=> round'[d].was = "none"
             /\ round'[d].open # NoEpisode => episode'[round'[d].open].need > 0
  <2>1. d # c /\ Overtaken(d)
    BY <1>4, <1>6
  <2>2. round[d].pc = "loaded" /\ round[d].open \in Episodes \cup {NoEpisode}
    BY <1>1, <1>6, <2>1, RoundFacts DEF Overtaken
  <2>3. /\ round[d].open = NoEpisode <=> round[d].was = "none"
        /\ round[d].open # NoEpisode => episode[round[d].open].need > 0
    BY <1>1, <2>2 DEF ContinuesInv
  <2> QED
    BY <1>2, <2>1, <2>2, <2>3 DEF Overtaken
<1>7. ContinuesInv' /\ FreshInv'
  BY <1>6 DEF ContinuesInv, FreshInv
<1>8. IsFiniteSet(Open')
  <2>1. CASE Open' \subseteq Open
    BY <1>1, <2>1, FS_Subset
  <2>2. CASE \E e \in Episodes : Open' \subseteq Open \cup {e}
    <3>1. PICK e \in Episodes : Open' \subseteq Open \cup {e}
      BY <2>2
    <3>2. IsFiniteSet(Open \cup {e})
      BY <1>1, FS_AddElement
    <3> QED
      BY <3>1, <3>2, FS_Subset
  <2> QED
    BY <1>2, <2>1, <2>2
<1> QED
  BY <1>5, <1>7, <1>8 DEF DetectorInv

\* Rounds change, the rows stay.
LEMMA RoundsStep ==
  ASSUME DetectorInv, UNCHANGED episode, baseline' \in Baselines,
         round' \in [Rounds -> RoundRow],
         \A d \in Rounds : round'[d].pc = "loaded" =>
           \/ round'[d] = round[d] \/ Overtaken(d)
           \/ /\ round'[d].open = NoEpisode <=> round'[d].was = "none"
              /\ round'[d].open = NoEpisode => Open = {}
              /\ round'[d].open # NoEpisode => round'[d].open \in Open
  PROVE  DetectorInv'
<1>1. DetectorTypeOK /\ ContinuesInv /\ FreshInv /\ IsFiniteSet(Open)
  BY DEF DetectorInv
<1>2. Open' = Open
  BY DEF Open
<1>3. DetectorTypeOK'
  BY <1>1, <1>2 DEF DetectorTypeOK, RoundRow
<1>4. ASSUME NEW d \in Rounds, round'[d].pc = "loaded"
      PROVE  /\ round'[d].open = NoEpisode <=> round'[d].was = "none"
             /\ round'[d].open # NoEpisode => episode[round'[d].open].need > 0
             /\ ~ round'[d].stale =>
                  /\ round'[d].open = NoEpisode => Open = {}
                  /\ round'[d].open # NoEpisode => round'[d].open \in Open
  <2>1. CASE round'[d] = round[d]
    BY <1>1, <1>4, <2>1 DEF ContinuesInv, FreshInv
  <2>2. CASE Overtaken(d)
    BY <1>1, <1>4, <2>2 DEF ContinuesInv, Overtaken
  <2>3. CASE /\ round'[d].open = NoEpisode <=> round'[d].was = "none"
             /\ round'[d].open = NoEpisode => Open = {}
             /\ round'[d].open # NoEpisode => round'[d].open \in Open
    BY <1>1, <2>3, EpisodeTypes
  <2> QED
    BY <1>4, <2>1, <2>2, <2>3
<1>5. ContinuesInv' /\ FreshInv'
  BY <1>2, <1>4 DEF ContinuesInv, FreshInv
<1> QED
  BY <1>1, <1>2, <1>3, <1>5 DEF DetectorInv

LEMMA IdleStep ==
  ASSUME DetectorInv, NEW c \in Rounds, round' = [round EXCEPT ![c] = NoRound],
         UNCHANGED <<baseline, episode>>
  PROVE  DetectorInv'
<1>1. round \in [Rounds -> RoundRow] /\ baseline \in Baselines
  BY DEF DetectorInv, DetectorTypeOK, RoundRow
<1>2. NoRound \in RoundRow /\ NoRound.pc = "idle"
  BY NoRoundFacts DEF RoundRow
<1>3. round' \in [Rounds -> RoundRow] /\ round'[c] = NoRound
      /\ \A d \in Rounds \ {c} : round'[d] = round[d]
  BY <1>1, <1>2
<1>4. \A d \in Rounds : round'[d].pc = "loaded" => round'[d] = round[d]
  BY <1>2, <1>3
<1> QED
  BY <1>1, <1>3, <1>4, RoundsStep

LEMMA LoadStep ==
  ASSUME DetectorInv, NEW c \in Rounds, NEW n \in Sights, Load(c, n)
  PROVE  DetectorInv'
<1>1. DetectorTypeOK /\ round \in [Rounds -> RoundRow] /\ baseline \in Baselines
  BY DEF DetectorInv, DetectorTypeOK, RoundRow
<1>2. n \in [up: SUBSET Links, critical: BOOLEAN]
  BY DetectorAssumption DEF DetectorAssumption
<1>3. PICK e \in OpenEpisode(baseline) :
        round' = [round EXCEPT ![c] =
          [pc |-> "loaded", saw |-> n, prev |-> baseline, open |-> e,
           was |-> IF e = NoEpisode THEN "none" ELSE episode[e].status,
           stale |-> FALSE]]
  BY DEF Load
<1>4. PICK w : w = (IF e = NoEpisode THEN "none" ELSE episode[e].status)
  OBVIOUS
<1>5. /\ e = NoEpisode => Open = {}
      /\ e # NoEpisode => e \in Open
  <2>1. NoEpisode \notin Open
    BY DetectorAssumption DEF DetectorAssumption, Open
  <2>2. CASE baseline.active \in Open
    BY <1>3, <2>1, <2>2 DEF OpenEpisode
  <2>3. CASE baseline.active \notin Open /\ Open # {}
    BY <1>3, <2>1, <2>3 DEF OpenEpisode
  <2>4. CASE baseline.active \notin Open /\ Open = {}
    BY <1>3, <2>4 DEF OpenEpisode
  <2> QED
    BY <2>2, <2>3, <2>4
<1>6. \A g \in Open : g \in Episodes /\ episode[g].status \in OpenStatuses
  BY DEF Open
<1>7. e \in Episodes \cup {NoEpisode} /\ w \in OpenStatuses \cup {"none"}
      /\ (e = NoEpisode <=> w = "none")
  BY <1>4, <1>5, <1>6 DEF OpenStatuses
<1>8. PICK x : x = [pc |-> "loaded", saw |-> n, prev |-> baseline, open |-> e,
                    was |-> w, stale |-> FALSE]
  OBVIOUS
<1>9. x \in RoundRow /\ x.open = e /\ x.was = w
  BY <1>1, <1>2, <1>7, <1>8 DEF RoundRow
<1>10. round' = [round EXCEPT ![c] = x]
  BY <1>3, <1>4, <1>8
<1>11. round' \in [Rounds -> RoundRow] /\ round'[c] = x
       /\ \A d \in Rounds \ {c} : round'[d] = round[d]
  BY <1>1, <1>9, <1>10
<1>12. UNCHANGED episode /\ baseline' \in Baselines
  BY <1>1 DEF Load
<1>13. ASSUME NEW d \in Rounds
       PROVE  \/ round'[d] = round[d]
              \/ /\ round'[d].open = NoEpisode <=> round'[d].was = "none"
                 /\ round'[d].open = NoEpisode => Open = {}
                 /\ round'[d].open # NoEpisode => round'[d].open \in Open
  BY <1>5, <1>7, <1>9, <1>11
<1> QED
  BY <1>11, <1>12, <1>13, RoundsStep

LEMMA DropStep ==
  ASSUME DetectorInv, NEW c \in Rounds, DropBaseline(c)
  PROVE  DetectorInv'
<1>1. round \in [Rounds -> RoundRow]
  BY DEF DetectorInv, DetectorTypeOK, RoundRow
<1>2. ASSUME NEW d \in Rounds
      PROVE  round'[d] = IF round[d].pc = "loaded" THEN [round[d] EXCEPT !.stale = TRUE]
                         ELSE round[d]
  BY DEF DropBaseline
<1>3. ASSUME NEW d \in Rounds
      PROVE  round'[d] \in RoundRow /\ (round'[d] = round[d] \/ Overtaken(d))
  <2>1. PICK r, s : r = round[d] /\ s = [r EXCEPT !.stale = TRUE]
    OBVIOUS
  <2>2. r \in RoundRow /\ (round'[d] = s \/ round'[d] = r)
    BY <1>1, <1>2, <2>1
  <2>3. s \in RoundRow /\ s.pc = r.pc /\ s.stale /\ s.open = r.open /\ s.was = r.was
    BY <2>1, <2>2, StaleFacts
  <2> QED
    BY <2>1, <2>2, <2>3 DEF Overtaken
<1>4. round' = [d \in Rounds |-> round'[d]]
  BY DEF DropBaseline
<1>5. round' \in [Rounds -> RoundRow]
  BY <1>3, <1>4
<1>6. UNCHANGED episode /\ baseline' \in Baselines
  BY NoRoundFacts DEF DropBaseline
<1> QED
  BY <1>3, <1>5, <1>6, RoundsStep

LEMMA DetectorStep ==
  ASSUME DetectorInv, [DetectorNext]_detectorVars
  PROVE  DetectorInv'
<1>1. CASE UNCHANGED detectorVars
  BY <1>1 DEF detectorVars, DetectorInv, DetectorTypeOK, ContinuesInv, FreshInv, Open
<1>2. CASE DetectorNext
  <2>1. PICK c \in Rounds : LoadAny(c) \/ DropBaseline(c) \/ CommitRound(c) \/ GiveUp(c)
    BY <1>2 DEF DetectorNext
  <2>2. CASE LoadAny(c)
    BY <2>2, LoadStep DEF LoadAny
  <2>3. CASE DropBaseline(c)
    BY <2>3, DropStep
  <2>4. CASE CommitRound(c)
    <3>1. Committed(c)
      BY <2>4, CommitEffect DEF DetectorInv
    <3>2. CASE Withdrawn(c)
      BY <3>2, IdleStep DEF Withdrawn
    <3>3. CASE \E events, row : RowsWritten(c, events, row)
      BY <3>3, WrittenStep
    <3> QED
      BY <3>1, <3>2, <3>3 DEF Committed
  <2>5. CASE GiveUp(c)
    BY <2>5, IdleStep DEF GiveUp
  <2> QED
    BY <2>1, <2>2, <2>3, <2>4, <2>5
<1> QED
  BY <1>1, <1>2

\* The rounds of a site edge keep types and know what they continue: of the
\* rounds that were not overtaken, each knows the open episode or that there
\* is none.
THEOREM DetectorInvariant == DetectorSpec => []DetectorInv
<1>1. DetectorInit => DetectorInv
  BY DetectorInvInit
<1>2. DetectorInv /\ [DetectorNext]_detectorVars => DetectorInv'
  BY DetectorStep
<1> QED
  BY <1>1, <1>2, PTL DEF DetectorSpec

\* Baselines, episodes and rounds hold what their columns may, and an open
\* episode asks for at least one sample before its recovery is verified.
THEOREM DetectorTypeCorrect == DetectorSpec => []DetectorTypeOK
<1>1. DetectorInv => DetectorTypeOK
  BY DEF DetectorInv
<1> QED
  BY <1>1, DetectorInvariant, PTL

LEMMA CommitKeepsOne ==
  ASSUME DetectorInv, NEW c \in Rounds, CommitRound(c), ~ round[c].stale
  PROVE  Cardinality(Open') <= IF Open = {} THEN 1 ELSE Cardinality(Open)
<1>1. DetectorTypeOK /\ ContinuesInv /\ FreshInv /\ IsFiniteSet(Open)
  BY DEF DetectorInv
<1>2. Cardinality(Open) \in Nat /\ (Open = {} => Cardinality(Open) = 0)
  BY <1>1, FS_CardinalityType, FS_EmptySet
<1>3. CASE Open' \subseteq Open
  <2>1. Cardinality(Open') \in Nat /\ Cardinality(Open') <= Cardinality(Open)
    BY <1>1, <1>3, FS_Subset, FS_CardinalityType
  <2> QED
    BY <1>2, <2>1
<1>4. CASE Open = {} /\ \E e \in Episodes : Open' \subseteq {e}
  <2>1. PICK e \in Episodes : Open' \subseteq {e}
    BY <1>4
  <2>2. IsFiniteSet({e}) /\ Cardinality({e}) = 1
    BY FS_Singleton
  <2>3. Cardinality(Open') <= 1
    BY <2>1, <2>2, FS_Subset
  <2> QED
    BY <1>4, <2>3
<1>5. CASE Withdrawn(c)
  BY <1>3, <1>5 DEF Withdrawn, Open
<1>6. ASSUME NEW events, NEW row, RowsWritten(c, events, row)
      PROVE  \/ Open' \subseteq Open
             \/ (Open = {} /\ \E e \in Episodes : Open' \subseteq {e})
  <2>1. \/ Open' \subseteq Open
        \/ \E e \in Episodes : Touched(c, events, e) /\ Open' \subseteq Open \cup {e}
    BY <1>1, <1>6, WrittenFacts
  <2>2. ASSUME NEW e \in Episodes, Touched(c, events, e), Open' \subseteq Open \cup {e}
        PROVE  Open' \subseteq Open \/ (Open = {} /\ Open' \subseteq {e})
    <3>1. round[c].pc = "loaded"
      BY DEF CommitRound
    <3>2. /\ round[c].open = NoEpisode <=> round[c].was = "none"
          /\ round[c].open = NoEpisode => Open = {}
          /\ round[c].open # NoEpisode => round[c].open \in Open
      BY <1>1, <3>1 DEF ContinuesInv, FreshInv
    <3>3. e \in Open \/ e = round[c].open \/ round[c].was = "none"
      BY <2>2 DEF Touched
    <3>4. CASE e \in Open
      BY <2>2, <3>4
    <3>5. CASE round[c].was = "none"
      BY <2>2, <3>2, <3>5
    <3>6. CASE e = round[c].open /\ round[c].was # "none"
      BY <2>2, <3>2, <3>6
    <3> QED
      BY <3>3, <3>4, <3>5, <3>6
  <2> QED
    BY <2>1, <2>2
<1>7. Committed(c)
  BY <1>1, CommitEffect
<1> QED
  BY <1>3, <1>4, <1>5, <1>6, <1>7 DEF Committed

\* _resolve_open_event and the lookup of _open_event: a round that was not
\* overtaken while it ran opens an episode only where none is open, whatever
\* became of the baseline, and so leaves no second one behind.
THEOREM EpisodeNotDuplicated == DetectorSpec => OneEpisode
<1>1. ASSUME DetectorInv
      PROVE  [\A c \in Rounds : CommitRound(c) /\ ~ round[c].stale =>
               Cardinality(Open') <= IF Open = {} THEN 1 ELSE Cardinality(Open)]_detectorVars
  BY <1>1, CommitKeepsOne
<1> QED
  BY <1>1, DetectorInvariant, PTL DEF DetectorSpec, OneEpisode

=============================================================================
