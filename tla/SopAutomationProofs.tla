------------------------- MODULE SopAutomationProofs -------------------------
(***************************************************************************)
(* Proofs about SopAutomation for any number of workers, executions,       *)
(* requests and crashes, and any procedures: a device action is called at  *)
(* most once and only with its approval, and what an execution reports as  *)
(* a success is a verified action.                                         *)
(***************************************************************************)
EXTENDS SopAutomation, SequenceTheorems, TLAPS

-----------------------------------------------------------------------------
(* Rows.                                                                   *)

LEMMA Bounds == /\ Starters \subseteq Workers
                /\ MaxExecutions \in Nat /\ MaxRequests \in Nat /\ MaxCrashes \in Nat
BY SopAssumption DEF SopAssumption

LEMMA Domains ==
  ASSUME TypeOK
  PROVE  /\ Len(executions) \in Nat /\ DOMAIN executions = 1 .. Len(executions)
         /\ Len(requests) \in Nat /\ DOMAIN requests = 1 .. Len(requests)
         /\ DOMAIN effects = 1 .. MaxRequests
         /\ \A e \in DOMAIN executions : executions[e] \in Execution
         /\ \A q \in DOMAIN requests : requests[q] \in Request
<1>1. executions \in Seq(Execution) /\ requests \in Seq(Request)
  BY DEF TypeOK
<1>2. /\ Len(executions) \in Nat /\ DOMAIN executions = 1 .. Len(executions)
      /\ \A e \in DOMAIN executions : executions[e] \in Execution
  BY <1>1, LenProperties, ElementOfSeq
<1>3. /\ Len(requests) \in Nat /\ DOMAIN requests = 1 .. Len(requests)
      /\ \A q \in DOMAIN requests : requests[q] \in Request
  BY <1>1, LenProperties, ElementOfSeq
<1>4. DOMAIN effects = 1 .. MaxRequests
  BY DEF TypeOK
<1> QED
  BY <1>2, <1>3, <1>4

\* A row that was appended, and one that was updated.
LEMMA Appended ==
  ASSUME NEW S, NEW s \in Seq(S), NEW x \in S, NEW t, t = Append(s, x)
  PROVE  /\ t \in Seq(S) /\ DOMAIN s = 1 .. Len(s) /\ Len(s) \in Nat
         /\ DOMAIN t = 1 .. (Len(s) + 1)
         /\ DOMAIN s \subseteq DOMAIN t /\ Len(s) + 1 \in DOMAIN t
         /\ Len(t) = Len(s) + 1
         /\ t[Len(s) + 1] = x
         /\ \A i \in DOMAIN s : t[i] = s[i]
<1>1. /\ t \in Seq(S) /\ Len(t) = Len(s) + 1 /\ t[Len(s) + 1] = x
      /\ \A i \in 1 .. Len(s) : t[i] = s[i]
  BY AppendProperties
<1>2. Len(s) \in Nat /\ DOMAIN s = 1 .. Len(s) /\ DOMAIN t = 1 .. Len(t)
  BY <1>1, LenProperties
<1> QED
  BY <1>1, <1>2

LEMMA Updated ==
  ASSUME NEW S, NEW s \in Seq(S), NEW i \in DOMAIN s, NEW x \in S,
         NEW t, t = [s EXCEPT ![i] = x]
  PROVE  /\ t \in Seq(S) /\ DOMAIN t = DOMAIN s /\ Len(t) = Len(s)
         /\ t[i] = x
         /\ \A j \in DOMAIN s : j # i => t[j] = s[j]
<1>1. DOMAIN s = 1 .. Len(s)
  BY LenProperties
<1>2. /\ t \in Seq(S) /\ Len(t) = Len(s)
      /\ \A j \in 1 .. Len(s) : t[j] = IF j = i THEN x ELSE s[j]
  BY <1>1, ExceptSeq
<1>3. DOMAIN t = 1 .. Len(t)
  BY <1>2, LenProperties
<1> QED
  BY <1>1, <1>2, <1>3

\* A status column is written and the others are kept.
LEMMA StatusUpdated ==
  ASSUME NEW s \in Seq(Execution), NEW e \in DOMAIN s,
         NEW status \in {"failed", "abandoned"},
         NEW t, t = [s EXCEPT ![e].status = status]
  PROVE  /\ t \in Seq(Execution) /\ DOMAIN t = DOMAIN s
         /\ \A d \in DOMAIN s : t[d].results = s[d].results
<1>1. s[e] \in Execution
  BY LenProperties, ElementOfSeq
<1>2. [s[e] EXCEPT !.status = status] \in Execution
  BY <1>1 DEF Execution
<1>3. t = [s EXCEPT ![e] = [s[e] EXCEPT !.status = status]]
  OBVIOUS
<1>4. /\ t \in Seq(Execution) /\ DOMAIN t = DOMAIN s
      /\ t[e] = [s[e] EXCEPT !.status = status]
      /\ \A j \in DOMAIN s : j # e => t[j] = s[j]
  BY <1>2, <1>3, Updated
<1>5. t[e].results = s[e].results
  BY <1>1, <1>4 DEF Execution
<1> QED
  BY <1>4, <1>5

-----------------------------------------------------------------------------
(* Type correctness.                                                       *)

\* What TypeOK says of a worker, for executions and requests with these ids.
Sound(x, E, Q) ==
  /\ x \in Worker
  /\ x.ex \in {None} \cup E
  /\ x.pc \in {"failing", "completing", "approving", "resuming"} => x.ex \in E
  /\ x.request \in {None} \cup Q
  /\ x.pc \in {"calling", "called"} => x.request \in Q

LEMMA Soundness ==
  ASSUME TypeOK, NEW w \in Workers
  PROVE  Sound(worker[w], DOMAIN executions, DOMAIN requests)
BY DEF TypeOK, Sound

LEMMA IdleSound == \A E, Q : Sound(Idle, E, Q)
BY DEF Sound, Idle, Worker, NewExecution, Execution, Statuses, None

LEMMA StepSound ==
  ASSUME TypeOK, NEW w \in Workers, NEW x, Step(w, x),
         DOMAIN executions \subseteq DOMAIN executions',
         DOMAIN requests \subseteq DOMAIN requests',
         Sound(x, DOMAIN executions', DOMAIN requests'),
         steps' = steps, executions' \in Seq(Execution), requests' \in Seq(Request),
         effects' \in [1 .. MaxRequests -> Nat], crashes' \in Nat
  PROVE  TypeOK'
<1>1. worker' = [worker EXCEPT ![w] = x] /\ worker \in [Workers -> Worker] /\ x \in Worker
  BY DEF TypeOK, Step, Sound
<1>2. worker' \in [Workers -> Worker]
  BY <1>1
<1>3. \A v \in Workers : worker'[v] = IF v = w THEN x ELSE worker[v]
  BY <1>1
<1>4. ASSUME NEW v \in Workers
      PROVE  Sound(worker'[v], DOMAIN executions', DOMAIN requests')
  BY <1>3, Soundness DEF Sound
<1>5. steps' \in Procedures
  BY DEF TypeOK
<1>6. \A v \in Workers :
       /\ worker'[v].ex \in {None} \cup DOMAIN executions'
       /\ worker'[v].pc \in {"failing", "completing", "approving", "resuming"}
            => worker'[v].ex \in DOMAIN executions'
       /\ worker'[v].request \in {None} \cup DOMAIN requests'
       /\ worker'[v].pc \in {"calling", "called"} => worker'[v].request \in DOMAIN requests'
  BY <1>4 DEF Sound
<1> QED
  BY <1>2, <1>5, <1>6 DEF TypeOK

\* A step that only changes what a worker holds.
LEMMA MemoryStep ==
  ASSUME TypeOK, NEW w \in Workers, NEW x, Step(w, x),
         Sound(x, DOMAIN executions, DOMAIN requests),
         UNCHANGED <<steps, executions, requests, effects>>, crashes' \in Nat
  PROVE  TypeOK'
BY StepSound DEF TypeOK

LEMMA RecordedTypes ==
  ASSUME TypeOK, NEW w \in Workers, NEW entry \in Entry
  PROVE  Recorded(w, entry) \in Execution
<1>1. worker[w].row \in Execution
  BY DEF TypeOK, Worker
<1>2. Begun(w) \/ executions[worker[w].ex] \in Execution
  BY Domains DEF TypeOK, Begun
<1> QED
  BY <1>1, <1>2 DEF Recorded, Execution

LEMMA SavedTypes ==
  ASSUME TypeOK, NEW w \in Workers, NEW row \in Execution, executions' = Saved(w, row)
  PROVE  /\ executions' \in Seq(Execution)
         /\ DOMAIN executions \subseteq DOMAIN executions'
         /\ Begun(w) => Len(executions) + 1 \in DOMAIN executions'
<1>1. executions \in Seq(Execution)
  BY DEF TypeOK
<1>2. CASE Begun(w)
  BY <1>1, <1>2, Appended DEF Saved
<1>3. CASE ~Begun(w)
  <2>1. worker[w].ex \in DOMAIN executions
    BY <1>3 DEF TypeOK, Begun
  <2> QED
    BY <1>1, <1>3, <2>1, Updated DEF Saved
<1> QED
  BY <1>2, <1>3

\* An execution is stored and its worker is done with it.
LEMMA SaveIdle ==
  ASSUME TypeOK, NEW w \in Workers, NEW row \in Execution, executions' = Saved(w, row),
         Step(w, Idle), UNCHANGED <<steps, requests, effects, crashes>>
  PROVE  TypeOK'
<1>1. Sound(Idle, DOMAIN executions', DOMAIN requests')
  BY IdleSound
<1>2. requests' \in Seq(Request) /\ effects' \in [1 .. MaxRequests -> Nat] /\ crashes' \in Nat
  BY DEF TypeOK
<1> QED
  BY <1>1, <1>2, SavedTypes, StepSound

LEMMA AbandonTypes ==
  ASSUME TypeOK, NEW w \in Workers, worker[w].ex \in DOMAIN executions, Abandon(w)
  PROVE  TypeOK'
<1>1. executions \in Seq(Execution)
  BY DEF TypeOK
<1>2. executions' \in Seq(Execution) /\ DOMAIN executions' = DOMAIN executions
  BY <1>1, StatusUpdated DEF Abandon
<1>3. Sound(Idle, DOMAIN executions', DOMAIN requests')
  BY IdleSound
<1> QED
  BY <1>2, <1>3, StepSound DEF Abandon, TypeOK

LEMMA AdvancedTypes ==
  ASSUME NEW row \in Execution
  PROVE  /\ [row EXCEPT !.index = @ + 1, !.status = "running"] \in Execution
         /\ [row EXCEPT !.index = @ + 1, !.status = "running"].index \in Nat
<1>1. row.index + 1 \in Nat
  BY DEF Execution
<1> QED
  BY <1>1 DEF Execution

LEMMA GoOnTypes ==
  ASSUME TypeOK, NEW w \in Workers, worker[w].ex \in DOMAIN executions,
         NEW entry \in Entry, GoOn(w, entry)
  PROVE  TypeOK'
<1> DEFINE row == Recorded(w, entry)
           advanced == [row EXCEPT !.index = @ + 1, !.status = "running"]
           x == [Idle EXCEPT !.pc = "loop", !.ex = worker[w].ex,
                             !.next = advanced.index, !.row = advanced]
<1>1. row \in Execution
  BY RecordedTypes
<1>2. executions' = Saved(w, advanced) /\ Step(w, x)
      /\ UNCHANGED <<steps, requests, effects, crashes>>
  BY DEF GoOn
<1> HIDE DEF row
<1>3. advanced \in Execution /\ advanced.index \in Nat
  BY <1>1, AdvancedTypes
<1> HIDE DEF advanced
<1>4. executions' \in Seq(Execution) /\ DOMAIN executions \subseteq DOMAIN executions'
  BY <1>2, <1>3, SavedTypes
<1>5. worker[w].ex \in Nat /\ worker[w].ex \in DOMAIN executions'
  BY <1>4 DEF TypeOK, Worker
<1>6. Sound(x, DOMAIN executions', DOMAIN requests')
  BY <1>3, <1>5 DEF Sound, Idle, Worker, Statuses, None
<1> QED
  BY <1>2, <1>4, <1>6, StepSound DEF TypeOK

\* One lemma for each kind of step.

LEMMA StepTypes ==
  ASSUME TypeOK, NEW w \in Workers, Step(w, Idle),
         UNCHANGED <<steps, executions, requests, effects>>, crashes' \in Nat
  PROVE  TypeOK'
BY IdleSound, MemoryStep

LEMMA StartTypes ==
  ASSUME TypeOK, NEW w \in Workers, Start(w)
  PROVE  TypeOK'
<1> DEFINE x == [Idle EXCEPT !.pc = "loop", !.next = 1]
<1>1. Sound(x, DOMAIN executions, DOMAIN requests)
  BY DEF Sound, Idle, Worker, NewExecution, Execution, Statuses, None
<1>2. Step(w, x) /\ UNCHANGED <<steps, executions, requests, effects>> /\ crashes' \in Nat
  BY DEF Start, TypeOK
<1> QED
  BY <1>1, <1>2, MemoryStep

LEMMA LookupTypes ==
  ASSUME TypeOK, NEW w \in Workers, Lookup(w)
  PROVE  TypeOK'
<1>0. Sound(worker[w], DOMAIN executions, DOMAIN requests) /\ worker[w].pc = "loop"
  BY Soundness DEF Lookup, AtStep
<1>1. UNCHANGED <<steps, executions, requests, effects>> /\ crashes' \in Nat
  BY DEF Lookup, TypeOK
<1>2. CASE Len(requests) = 0 /\ Step(w, [worker[w] EXCEPT !.pc = "requesting"])
  <2>1. Sound([worker[w] EXCEPT !.pc = "requesting"], DOMAIN executions, DOMAIN requests)
    BY <1>0 DEF Sound, Worker
  <2> QED
    BY <1>1, <1>2, <2>1, MemoryStep
<1>3. CASE /\ Len(requests) = 1
           /\ Step(w, [worker[w] EXCEPT !.pc = "answered", !.request = 1,
                                        !.answer = requests[1].status])
  <2>1. 1 \in DOMAIN requests
    BY <1>3, Domains
  <2>2. requests[1].status \in Statuses
    BY <2>1, Domains DEF Request
  <2>3. Sound([worker[w] EXCEPT !.pc = "answered", !.request = 1,
                                !.answer = requests[1].status],
              DOMAIN executions, DOMAIN requests)
    BY <1>0, <2>1, <2>2 DEF Sound, Worker
  <2> QED
    BY <1>1, <1>3, <2>3, MemoryStep
<1>4. CASE /\ Len(requests) > 1
           /\ Step(w, [worker[w] EXCEPT !.pc = "answered", !.request = None,
                                        !.answer = "failed"])
  <2>1. Sound([worker[w] EXCEPT !.pc = "answered", !.request = None, !.answer = "failed"],
              DOMAIN executions, DOMAIN requests)
    BY <1>0 DEF Sound, Worker, Statuses, None
  <2> QED
    BY <1>1, <1>4, <2>1, MemoryStep
<1> QED
  BY <1>2, <1>3, <1>4 DEF Lookup

LEMMA AskTypes ==
  ASSUME TypeOK, NEW w \in Workers, Ask(w)
  PROVE  TypeOK'
<1> DEFINE q == Len(requests) + 1
           new(status, approval) ==
             [step |-> worker[w].next, status |-> status, approval |-> approval]
           x(status, pc) == [worker[w] EXCEPT !.pc = pc, !.request = q, !.answer = status]
<1>0. Sound(worker[w], DOMAIN executions, DOMAIN requests) /\ worker[w].pc = "requesting"
  BY Soundness DEF Ask
<1>1. PICK status \in {"policy_denied", "awaiting_approval", "executing"},
           approval \in {"none", "pending"}, pc \in {"answered", "calling"} :
        requests' = Append(requests, new(status, approval)) /\ Step(w, x(status, pc))
  BY DEF Ask
<1>2. new(status, approval) \in Request
  BY <1>0 DEF Sound, Worker, Request, Statuses
<1>3. requests \in Seq(Request)
  BY DEF TypeOK
<1>4. /\ requests' \in Seq(Request) /\ DOMAIN requests \subseteq DOMAIN requests'
      /\ q \in DOMAIN requests' /\ q \in Nat
  BY <1>1, <1>2, <1>3, Appended
<1>5. Sound(x(status, pc), DOMAIN executions', DOMAIN requests')
  BY <1>0, <1>4 DEF Sound, Worker, Statuses, Ask
<1> QED
  BY <1>1, <1>4, <1>5, StepSound DEF Ask, TypeOK

LEMMA CallEffects ==
  ASSUME TypeOK, NEW w \in Workers, Call(w)
  PROVE  /\ effects' \in [1 .. MaxRequests -> Nat]
         /\ \A q \in 1 .. MaxRequests :
              effects'[q] = IF q = worker[w].request THEN effects[q] + 1 ELSE effects[q]
<1> DEFINE r == worker[w].request
           n == effects[r] + 1
<1>1. effects \in [1 .. MaxRequests -> Nat]
  BY DEF TypeOK
<1>2. effects' = [effects EXCEPT ![r] = n]
  BY DEF Call
<1>3. r \in 1 .. MaxRequests => n \in Nat
  BY <1>1
<1> HIDE DEF n
<1>4. /\ effects' \in [1 .. MaxRequests -> Nat]
      /\ \A q \in 1 .. MaxRequests : effects'[q] = IF q = r THEN n ELSE effects[q]
  BY <1>1, <1>2, <1>3
<1> QED
  BY <1>4 DEF n

LEMMA CallTypes ==
  ASSUME TypeOK, NEW w \in Workers, Call(w)
  PROVE  TypeOK'
<1>1. Sound([worker[w] EXCEPT !.pc = "called"], DOMAIN executions', DOMAIN requests')
  BY Soundness DEF Call, Sound, Worker
<1>2. effects' \in [1 .. MaxRequests -> Nat]
  BY CallEffects
<1> QED
  BY <1>1, <1>2, StepSound DEF Call, TypeOK

LEMMA SettleTypes ==
  ASSUME TypeOK, NEW w \in Workers, Settle(w)
  PROVE  TypeOK'
<1> DEFINE q == worker[w].request
<1>1. PICK outcome \in {"verified", "failed"} :
        /\ requests' = [requests EXCEPT ![q].status = outcome]
        /\ Step(w, [worker[w] EXCEPT !.answer = outcome,
                      !.pc = IF worker[w].next = 0 THEN "resolved" ELSE "answered"])
  BY DEF Settle
<1>2. q \in DOMAIN requests /\ requests[q] \in Request /\ requests \in Seq(Request)
  BY Domains DEF Settle, TypeOK
<1>3. [requests[q] EXCEPT !.status = outcome] \in Request
  BY <1>2 DEF Request, Statuses
<1>4. requests' = [requests EXCEPT ![q] = [requests[q] EXCEPT !.status = outcome]]
  BY <1>1
<1>5. requests' \in Seq(Request) /\ DOMAIN requests' = DOMAIN requests
  BY <1>2, <1>3, <1>4, Updated
<1> DEFINE pc == IF worker[w].next = 0 THEN "resolved" ELSE "answered"
<1>6. pc \in {"resolved", "answered"}
  OBVIOUS
<1> HIDE DEF pc
<1>7. Sound([worker[w] EXCEPT !.answer = outcome, !.pc = pc],
            DOMAIN executions', DOMAIN requests')
  <2>1. Sound(worker[w], DOMAIN executions', DOMAIN requests') /\ outcome \in Statuses
    BY <1>5, Soundness DEF Settle, Statuses
  <2> QED
    BY <1>6, <2>1 DEF Sound, Worker
<1>8. Step(w, [worker[w] EXCEPT !.answer = outcome, !.pc = pc])
  BY <1>1 DEF pc
<1> QED
  BY <1>5, <1>7, <1>8, StepSound DEF Settle, TypeOK

LEMMA EntryTypes ==
  ASSUME NEW i \in Nat, NEW q \in Nat,
         NEW status \in {"succeeded", "failed", "waiting", "approved", "completed"}
  PROVE  Result(i, status, q) \in Entry
BY DEF Result, Entry

\* The columns a worker writes besides the results.
LEMMA IndexTypes ==
  ASSUME NEW row \in Execution, NEW i \in Nat,
         NEW status \in {"running", "awaiting_manual", "awaiting_approval",
                         "succeeded", "failed", "abandoned"}
  PROVE  /\ [row EXCEPT !.index = i] \in Execution
         /\ [row EXCEPT !.status = status] \in Execution
         /\ [row EXCEPT !.index = i, !.status = status] \in Execution
         /\ [row EXCEPT !.status = status, !.index = i] \in Execution
BY DEF Execution

LEMMA Fields ==
  ASSUME TypeOK, NEW w \in Workers
  PROVE  /\ worker[w].next \in Nat /\ worker[w].request \in Nat /\ worker[w].ex \in Nat
         /\ worker[w].row \in Execution /\ worker[w].row.index \in Nat /\ None \in Nat
BY DEF TypeOK, Worker, Execution, None

LEMMA StepDoneTypes ==
  ASSUME TypeOK, NEW w \in Workers, StepDone(w)
  PROVE  TypeOK'
<1> DEFINE i == worker[w].next
           row == [Recorded(w, Result(i, "succeeded", worker[w].request)) EXCEPT !.index = i + 1]
           x == [worker[w] EXCEPT !.pc = "loop", !.next = i + 1, !.locked = TRUE,
                                  !.row = row, !.request = None, !.answer = ""]
<1>1. i + 1 \in Nat
  BY Fields
<1>2. row \in Execution
  BY <1>1, Fields, EntryTypes, RecordedTypes, IndexTypes
<1>3. Step(w, x) /\ UNCHANGED <<steps, executions, requests, effects>>
  BY DEF StepDone
<1> HIDE DEF row
<1>4. Sound(worker[w], DOMAIN executions, DOMAIN requests)
  BY Soundness
<1>5. Sound(x, DOMAIN executions, DOMAIN requests)
  BY <1>1, <1>2, <1>4 DEF Sound, Worker, None
<1> QED
  BY <1>3, <1>5, MemoryStep DEF StepDone, TypeOK

LEMMA PauseTypes ==
  ASSUME TypeOK, NEW w \in Workers, Pause(w)
  PROVE  TypeOK'
<1> DEFINE i == worker[w].next
           row == Recorded(w, Result(i, "waiting", worker[w].request))
<1>1. row \in Execution /\ i \in Nat
  BY Fields, EntryTypes, RecordedTypes
<1>2. [row EXCEPT !.index = i, !.status = "awaiting_approval"] \in Execution
  BY <1>1, IndexTypes
<1> QED
  BY <1>2, SaveIdle DEF Pause

LEMMA StepFailsTypes ==
  ASSUME TypeOK, NEW w \in Workers, StepFails(w)
  PROVE  TypeOK'
<1> DEFINE i == worker[w].next
           row == [Recorded(w, Result(i, "failed", worker[w].request)) EXCEPT !.index = i]
           ex == IF Begun(w) THEN Len(executions) + 1 ELSE worker[w].ex
           x == [worker[w] EXCEPT !.pc = "failing", !.row = row, !.locked = FALSE, !.ex = ex]
<1>1. row \in Execution
  BY Fields, EntryTypes, RecordedTypes, IndexTypes
<1>2. executions' = Saved(w, row) /\ Step(w, x)
      /\ UNCHANGED <<steps, requests, effects, crashes>>
  BY DEF StepFails
<1> HIDE DEF row
<1>3. /\ executions' \in Seq(Execution) /\ DOMAIN executions \subseteq DOMAIN executions'
      /\ Begun(w) => Len(executions) + 1 \in DOMAIN executions'
  BY <1>1, <1>2, SavedTypes
<1>4. Sound(worker[w], DOMAIN executions', DOMAIN requests')
  BY <1>2, <1>3, Soundness DEF Sound
<1>5. ex \in DOMAIN executions' /\ ex \in Nat
  BY <1>3, Domains, Fields DEF TypeOK, Begun
<1> HIDE DEF ex
<1>6. Sound(x, DOMAIN executions', DOMAIN requests')
  BY <1>1, <1>4, <1>5 DEF Sound, Worker
<1> QED
  BY <1>2, <1>3, <1>6, StepSound DEF TypeOK

LEMMA FailTypes ==
  ASSUME TypeOK, NEW w \in Workers, Fail(w)
  PROVE  TypeOK'
<1>1. executions \in Seq(Execution) /\ worker[w].ex \in DOMAIN executions
  BY DEF TypeOK, Fail
<1>2. executions' \in Seq(Execution) /\ DOMAIN executions' = DOMAIN executions
  BY <1>1, StatusUpdated DEF Fail
<1>3. Sound(Idle, DOMAIN executions', DOMAIN requests')
  BY IdleSound
<1> QED
  BY <1>2, <1>3, StepSound DEF Fail, TypeOK

LEMMA PauseForHumanTypes ==
  ASSUME TypeOK, NEW w \in Workers, PauseForHuman(w)
  PROVE  TypeOK'
<1> DEFINE i == worker[w].next
           row == Recorded(w, Result(i, "waiting", None))
           status == IF steps[i] = "gated" THEN "awaiting_approval" ELSE "awaiting_manual"
           index == IF Begun(w) THEN i ELSE row.index
           saved == [row EXCEPT !.status = status, !.index = index]
<1>1. row \in Execution
  BY Fields, EntryTypes, RecordedTypes
<1>2. executions' = Saved(w, saved)
  BY DEF PauseForHuman
<1> HIDE DEF row
<1>3. index \in Nat /\ status \in {"awaiting_manual", "awaiting_approval"}
  BY <1>1, Fields DEF Execution
<1> HIDE DEF index, status
<1>4. saved \in Execution
  BY <1>1, <1>3, IndexTypes
<1> HIDE DEF saved
<1> QED
  BY <1>2, <1>4, SaveIdle DEF PauseForHuman

LEMMA FinishTypes ==
  ASSUME TypeOK, NEW w \in Workers, Finish(w)
  PROVE  TypeOK'
<1> DEFINE row == IF Begun(w) \/ worker[w].locked THEN worker[w].row
                  ELSE executions[worker[w].ex]
<1>1. row \in Execution
  BY Fields, Domains DEF TypeOK, Begun
<1>2. executions' = Saved(w, [row EXCEPT !.status = "succeeded"])
  BY DEF Finish
<1> HIDE DEF row
<1>3. [row EXCEPT !.status = "succeeded"] \in Execution
  BY <1>1 DEF Execution
<1> QED
  BY <1>2, <1>3, SaveIdle DEF Finish

LEMMA OpenTypes ==
  ASSUME TypeOK, NEW w \in Workers, NEW e, NEW pc \in {"completing", "approving"},
         NEW status, Open(w, e, pc, status)
  PROVE  TypeOK'
<1>1. e \in DOMAIN executions /\ e \in Nat /\ executions[e] \in Execution
  BY Domains DEF Open
<1>2. Sound([Idle EXCEPT !.pc = pc, !.ex = e, !.row = executions[e]],
            DOMAIN executions, DOMAIN requests)
  BY <1>1 DEF Sound, Idle, Worker, Statuses, None
<1> QED
  BY <1>2, MemoryStep DEF Open, TypeOK

LEMMA HumanTypes ==
  ASSUME TypeOK, NEW w \in Workers, CompleteManual(w) \/ ApproveGated(w) \/ DenyGated(w)
  PROVE  TypeOK'
<1>1. worker[w].ex \in DOMAIN executions
  BY DEF TypeOK, CompleteManual, ApproveGated, DenyGated
<1>2. CASE CompleteManual(w)
  BY <1>1, <1>2, Fields, EntryTypes, GoOnTypes DEF CompleteManual
<1>3. CASE ApproveGated(w)
  BY <1>1, <1>3, Fields, EntryTypes, GoOnTypes DEF ApproveGated
<1>4. CASE DenyGated(w)
  BY <1>1, <1>4, AbandonTypes DEF DenyGated
<1> QED
  BY <1>2, <1>3, <1>4

\* The outcome of a call changes the status of one request ...
LEMMA OutcomeTypes ==
  ASSUME NEW s \in Seq(Request), NEW q \in DOMAIN s, NEW status \in Statuses,
         NEW t, t = [s EXCEPT ![q].status = status]
  PROVE  /\ t \in Seq(Request) /\ DOMAIN t = DOMAIN s /\ Len(t) = Len(s)
         /\ t[q].step = s[q].step /\ t[q].status = status /\ t[q].approval = s[q].approval
         /\ \A p \in DOMAIN s : p # q => t[p] = s[p]
<1>1. s[q] \in Request
  BY LenProperties, ElementOfSeq
<1>2. [s[q] EXCEPT !.status = status] \in Request
  BY <1>1 DEF Request
<1>3. t = [s EXCEPT ![q] = [s[q] EXCEPT !.status = status]]
  OBVIOUS
<1>4. /\ t \in Seq(Request) /\ DOMAIN t = DOMAIN s /\ Len(t) = Len(s)
      /\ t[q] = [s[q] EXCEPT !.status = status]
      /\ \A p \in DOMAIN s : p # q => t[p] = s[p]
  BY <1>2, <1>3, Updated
<1> QED
  BY <1>1, <1>4 DEF Request

\* ... and a decision its approval as well.
Denies(w, q) ==
  /\ requests'[q].status = "denied" /\ requests'[q].approval = "denied"
  /\ Step(w, [Idle EXCEPT !.pc = "resolved", !.request = q, !.answer = "denied"])
Approves(w, q) ==
  /\ requests'[q].status = "executing" /\ requests'[q].approval = "approved"
  /\ Step(w, [Idle EXCEPT !.pc = "calling", !.request = q])

LEMMA Decisions ==
  ASSUME TypeOK, NEW w \in Workers, NEW q, Decide(w, q)
  PROVE  /\ q \in DOMAIN requests /\ Claim(q)
         /\ UNCHANGED <<steps, executions, effects, crashes>>
         /\ Denies(w, q) \/ Approves(w, q)
         /\ requests' \in Seq(Request) /\ DOMAIN requests' = DOMAIN requests
         /\ Len(requests') = Len(requests) /\ requests'[q].step = requests[q].step
         /\ \A p \in DOMAIN requests : p # q => requests'[p] = requests[p]
<1> DEFINE new(status, approval) ==
             [step |-> requests[q].step, status |-> status, approval |-> approval]
<1>1. /\ q \in DOMAIN requests /\ Claim(q)
      /\ UNCHANGED <<steps, executions, effects, crashes>>
  BY DEF Decide
<1>2. requests \in Seq(Request) /\ requests[q].step \in Nat
  BY <1>1, Domains DEF TypeOK, Request
<1>3. ASSUME NEW status \in {"denied", "executing"}, NEW approval \in {"denied", "approved"},
             requests' = [requests EXCEPT ![q] = new(status, approval)]
      PROVE  /\ requests' \in Seq(Request) /\ DOMAIN requests' = DOMAIN requests
             /\ Len(requests') = Len(requests)
             /\ requests'[q] = new(status, approval)
             /\ \A p \in DOMAIN requests : p # q => requests'[p] = requests[p]
  <2>1. new(status, approval) \in Request
    BY <1>2 DEF Request, Statuses
  <2> HIDE DEF new
  <2> QED
    BY <1>1, <1>2, <1>3, <2>1, Updated
<1>4. CASE /\ requests' = [requests EXCEPT ![q] = new("denied", "denied")]
           /\ Step(w, [Idle EXCEPT !.pc = "resolved", !.request = q, !.answer = "denied"])
  BY <1>1, <1>3, <1>4 DEF Denies
<1>5. CASE /\ requests' = [requests EXCEPT ![q] = new("executing", "approved")]
           /\ Step(w, [Idle EXCEPT !.pc = "calling", !.request = q])
  BY <1>1, <1>3, <1>5 DEF Approves
<1> QED
  BY <1>4, <1>5 DEF Decide

LEMMA DecideTypes ==
  ASSUME TypeOK, NEW w \in Workers, NEW q, Decide(w, q)
  PROVE  TypeOK'
<1>1. /\ q \in DOMAIN requests' /\ q \in Nat /\ requests' \in Seq(Request)
      /\ DOMAIN requests \subseteq DOMAIN requests'
  BY Decisions, Domains
<1>2. CASE Denies(w, q)
  <2>1. Sound([Idle EXCEPT !.pc = "resolved", !.request = q, !.answer = "denied"],
              DOMAIN executions', DOMAIN requests')
    BY <1>1 DEF Sound, Idle, NewExecution, Execution, Worker, Statuses, None
  <2> QED
    BY <1>1, <1>2, <2>1, Decisions, StepSound DEF Denies, TypeOK
<1>3. CASE Approves(w, q)
  <2>1. Sound([Idle EXCEPT !.pc = "calling", !.request = q],
              DOMAIN executions', DOMAIN requests')
    BY <1>1 DEF Sound, Idle, NewExecution, Execution, Worker, Statuses, None
  <2> QED
    BY <1>1, <1>3, <2>1, Decisions, StepSound DEF Approves, TypeOK
<1> QED
  BY <1>2, <1>3, Decisions

LEMMA FindTypes ==
  ASSUME TypeOK, NEW w \in Workers, NEW e \in DOMAIN executions, Find(w, e)
  PROVE  TypeOK'
<1>1. e \in Nat /\ executions[e] \in Execution
  BY Domains
<1>2. Sound(worker[w], DOMAIN executions, DOMAIN requests)
  BY Soundness
<1>3. Sound([worker[w] EXCEPT !.pc = "resuming", !.ex = e, !.row = executions[e]],
            DOMAIN executions, DOMAIN requests)
  BY <1>1, <1>2 DEF Sound, Worker
<1> QED
  BY <1>3, MemoryStep DEF Find, TypeOK

LEMMA ResumeTypes ==
  ASSUME TypeOK, NEW w \in Workers, Resume(w)
  PROVE  TypeOK'
<1> DEFINE i == worker[w].row.index
           row == Recorded(w, Result(i, "failed", worker[w].request))
<1>1. worker[w].ex \in DOMAIN executions
  BY DEF TypeOK, Resume
<1>2. CASE Abandon(w)
  BY <1>1, <1>2, AbandonTypes
<1>3. CASE GoOn(w, Result(i, "succeeded", worker[w].request))
  BY <1>1, <1>3, Fields, EntryTypes, GoOnTypes
<1>4. CASE /\ executions' = Saved(w, [row EXCEPT !.status = "failed"]) /\ Step(w, Idle)
           /\ UNCHANGED <<steps, requests, effects, crashes>>
  <2>1. row \in Execution
    BY Fields, EntryTypes, RecordedTypes
  <2>2. [row EXCEPT !.status = "failed"] \in Execution
    BY <2>1, IndexTypes
  <2> QED
    BY <1>4, <2>2, SaveIdle
<1> QED
  BY <1>2, <1>3, <1>4 DEF Resume

LEMMA TypeStep ==
  ASSUME TypeOK, [Next]_vars
  PROVE  TypeOK'
<1>1. CASE UNCHANGED vars
  BY <1>1 DEF vars, TypeOK
<1>2. ASSUME NEW w \in Workers, Act(w) PROVE TypeOK'
  <2>1. FindNone(w) => TypeOK'
    BY StepTypes DEF FindNone, TypeOK
  <2> QED
    BY <1>2, <2>1, LookupTypes, AskTypes, CallTypes, SettleTypes, StepDoneTypes, PauseTypes,
       StepFailsTypes, FailTypes, PauseForHumanTypes, FinishTypes, HumanTypes, FindTypes,
       ResumeTypes DEF Act
<1>3. ASSUME NEW w \in Workers, Crash(w) PROVE TypeOK'
  <2>1. crashes' \in Nat
    BY <1>3 DEF Crash, TypeOK
  <2> QED
    BY <1>3, <2>1, StepTypes DEF Crash
<1>4. ASSUME NEW w \in Workers, NEW e, OpenManual(w, e) \/ OpenGate(w, e) PROVE TypeOK'
  BY <1>4, OpenTypes DEF OpenManual, OpenGate
<1> QED
  BY <1>1, <1>2, <1>3, <1>4, StartTypes, DecideTypes DEF Next

LEMMA TypeInit == Init => TypeOK
<1> SUFFICES ASSUME Init PROVE TypeOK
  OBVIOUS
<1>1. worker \in [Workers -> Worker]
  BY DEF Init, Idle, Worker, NewExecution, Execution, Statuses, None
<1>2. \A w \in Workers : worker[w] = Idle
  BY DEF Init
<1>3. executions \in Seq(Execution) /\ requests \in Seq(Request)
  BY EmptySeq DEF Init
<1>4. effects \in [1 .. MaxRequests -> Nat] /\ crashes \in Nat /\ steps \in Procedures
  BY DEF Init
<1>5. \A w \in Workers : Sound(worker[w], DOMAIN executions, DOMAIN requests)
  BY <1>2, IdleSound
<1> QED
  BY <1>1, <1>3, <1>4, <1>5 DEF TypeOK, Sound

\* Rows and copies have their types, and a worker refers to committed rows.
THEOREM TypeCorrect == Spec => []TypeOK
BY TypeInit, TypeStep, PTL DEF Spec

-----------------------------------------------------------------------------
(* Device actions.                                                         *)

\* What a step leaves of the other workers.
LEMMA Others ==
  ASSUME TypeOK, NEW w \in Workers, NEW x, Step(w, x)
  PROVE  /\ worker'[w] = x
         /\ \A v \in Workers : v # w => worker'[v] = worker[v]
BY DEF TypeOK, Step

\* The parts of ActionInv: a request, and a worker that calls a provider.
RequestInv(q) ==
  /\ q \in DOMAIN effects /\ effects[q] <= 1
  /\ requests[q].status \in {"policy_denied", "awaiting_approval", "denied"}
       => effects[q] = 0
  /\ requests[q].status = "awaiting_approval" => steps[requests[q].step] = "change"
  /\ requests[q].status \in {"executing", "verified", "failed"}
       => requests[q].approval =
            IF steps[requests[q].step] = "change" THEN "approved" ELSE "none"
CallInv(w) == worker[w].pc \in Calling =>
  /\ requests[worker[w].request].status = "executing"
  /\ effects[worker[w].request] = IF worker[w].pc = "called" THEN 1 ELSE 0
  /\ \A v \in Workers : (worker[v].pc \in Calling /\ worker[v].request = worker[w].request)
                         => v = w
FreshInv == \A q \in DOMAIN effects : q > Len(requests) => effects[q] = 0

LEMMA ActionParts ==
  ActionInv <=> /\ FreshInv
                /\ \A q \in DOMAIN requests : RequestInv(q)
                /\ \A w \in Workers : CallInv(w)
BY Zenon DEF ActionInv, FreshInv, RequestInv, CallInv

\* A step of a worker that calls no provider afterwards, and changes no request.
LEMMA QuietStep ==
  ASSUME TypeOK, ActionInv, NEW w \in Workers, NEW x, Step(w, x), x.pc \notin Calling,
         UNCHANGED <<steps, requests, effects>>
  PROVE  ActionInv'
<1>1. FreshInv' /\ \A q \in DOMAIN requests' : RequestInv(q)'
  BY ActionParts DEF FreshInv, RequestInv
<1>2. ASSUME NEW v \in Workers PROVE CallInv(v)'
  <2>1. CASE v = w
    BY <2>1, Others DEF CallInv
  <2>2. CASE v # w
    <3>1. worker'[v] = worker[v] /\ CallInv(v)
      BY <2>2, ActionParts, Others
    <3>2. \A u \in Workers : worker'[u].pc \in Calling => worker'[u] = worker[u]
      BY Others
    <3> QED
      BY <3>1, <3>2 DEF CallInv
  <2> QED
    BY <2>1, <2>2
<1> QED
  BY Zenon, <1>1, <1>2 DEF ActionInv, FreshInv, RequestInv, CallInv

LEMMA CallerRequest ==
  ASSUME TypeOK, ActionInv, NEW v \in Workers, worker[v].pc \in Calling
  PROVE  /\ worker[v].request \in DOMAIN requests /\ worker[v].request \in DOMAIN effects
         /\ requests[worker[v].request].status = "executing"
         /\ effects[worker[v].request] = IF worker[v].pc = "called" THEN 1 ELSE 0
<1>1. worker[v].request \in DOMAIN requests /\ CallInv(v)
  BY ActionParts DEF TypeOK, Calling
<1> QED
  BY <1>1, ActionParts DEF CallInv, RequestInv

LEMMA AskAction ==
  ASSUME TypeOK, ActionInv, NEW w \in Workers, Ask(w)
  PROVE  ActionInv'
<1> DEFINE q == Len(requests) + 1
           new(status, approval) ==
             [step |-> worker[w].next, status |-> status, approval |-> approval]
           x(status, pc) == [worker[w] EXCEPT !.pc = pc, !.request = q, !.answer = status]
<1>1. PICK status, approval, pc :
        /\ requests' = Append(requests, new(status, approval)) /\ Step(w, x(status, pc))
        /\ \/ status = "policy_denied" /\ approval = "none" /\ pc = "answered"
           \/ /\ status = "awaiting_approval" /\ approval = "pending" /\ pc = "answered"
              /\ steps[worker[w].next] = "change"
           \/ /\ status = "executing" /\ approval = "none" /\ pc = "calling"
              /\ steps[worker[w].next] = "read"
  BY DEF Ask
<1>2. q <= MaxRequests /\ UNCHANGED <<steps, effects>> /\ worker[w].pc \notin Calling
  BY DEF Ask, Calling
<1>3. /\ Len(requests') = q /\ requests'[q] = new(status, approval)
      /\ DOMAIN requests = 1 .. Len(requests) /\ Len(requests) \in Nat
      /\ DOMAIN requests' = 1 .. q
      /\ \A p \in DOMAIN requests : requests'[p] = requests[p]
  <2>1. new(status, approval) \in Request /\ requests \in Seq(Request)
    BY <1>1, Fields DEF TypeOK, Request, Statuses
  <2> HIDE DEF new
  <2> QED
    BY <1>1, <2>1, Appended
<1>4. q \in DOMAIN effects /\ effects[q] = 0
  BY <1>2, <1>3, Bounds, Domains, ActionParts DEF FreshInv
<1>5. FreshInv'
  <2>1. ASSUME NEW p \in DOMAIN effects, p > q PROVE effects[p] = 0
    <3>1. p \in Nat /\ p > Len(requests)
      BY <1>3, <2>1, Domains, Bounds
    <3> QED
      BY <3>1, ActionParts DEF FreshInv
  <2> QED
    BY <1>2, <1>3, <2>1 DEF FreshInv
<1>6. ASSUME NEW p \in DOMAIN requests' PROVE RequestInv(p)'
  <2>1. CASE p = q
    BY <1>1, <1>2, <1>3, <1>4, <2>1 DEF RequestInv
  <2>2. CASE p # q
    <3>1. p \in DOMAIN requests
      BY <1>3, <2>2
    <3> QED
      BY <1>2, <1>3, <3>1, ActionParts DEF RequestInv
  <2> QED
    BY <2>1, <2>2
<1>7. worker'[w].pc = pc /\ worker'[w].request = q
  <2>1. worker[w] \in Worker /\ worker'[w] = x(status, pc)
    BY <1>1, Others DEF TypeOK
  <2> QED
    BY <2>1 DEF Worker
<1>8. ASSUME NEW v \in Workers, worker'[v].pc \in Calling, v # w
      PROVE  /\ worker'[v] = worker[v] /\ worker[v].request \in DOMAIN requests
             /\ worker[v].request # q
  <2>1. worker'[v] = worker[v] /\ worker[v].request \in DOMAIN requests
    BY <1>1, <1>8, CallerRequest, Others
  <2> QED
    BY <1>3, <2>1
<1>9. ASSUME NEW v \in Workers PROVE CallInv(v)'
  <2>1. CASE v = w
    BY <1>1, <1>2, <1>3, <1>4, <1>7, <1>8, <2>1 DEF CallInv, Calling
  <2>2. CASE v # w /\ worker'[v].pc \in Calling
    <3>1. /\ worker'[v] = worker[v] /\ worker[v].request \in DOMAIN requests
          /\ worker[v].request # q /\ CallInv(v)
      BY <1>8, <2>2, ActionParts
    <3>2. requests'[worker'[v].request].status = "executing"
      BY <1>3, <2>2, <3>1 DEF CallInv
    <3>3. effects'[worker'[v].request] = IF worker'[v].pc = "called" THEN 1 ELSE 0
      BY <1>2, <2>2, <3>1 DEF CallInv
    <3>4. ASSUME NEW u \in Workers, worker'[u].pc \in Calling,
                 worker'[u].request = worker'[v].request
          PROVE  u = v
      BY <1>7, <1>8, <2>2, <3>1, <3>4 DEF CallInv
    <3> QED
      BY <3>2, <3>3, <3>4 DEF CallInv
  <2> QED
    BY <2>1, <2>2 DEF CallInv
<1> QED
  BY Zenon, <1>5, <1>6, <1>9 DEF ActionInv, FreshInv, RequestInv, CallInv

LEMMA CallAction ==
  ASSUME TypeOK, ActionInv, NEW w \in Workers, Call(w)
  PROVE  ActionInv'
<1> DEFINE q == worker[w].request
<1>1. /\ q \in DOMAIN requests /\ q \in DOMAIN effects /\ effects[q] = 0
      /\ requests[q].status = "executing" /\ worker[w].pc \in Calling
  BY CallerRequest DEF Call, Calling
<1>2. UNCHANGED <<steps, requests>> /\ DOMAIN effects' = DOMAIN effects
  BY CallEffects, Domains DEF Call
<1>3. effects'[q] = 1 /\ \A p \in DOMAIN effects : p # q => effects'[p] = effects[p]
  BY <1>1, CallEffects, Domains
<1>4. worker'[w].pc = "called" /\ worker'[w].request = q
  <2>1. worker[w] \in Worker /\ worker'[w] = [worker[w] EXCEPT !.pc = "called"]
    BY Others DEF TypeOK, Call
  <2> QED
    BY <2>1 DEF Worker
<1>5. \A v \in Workers : v # w => worker'[v] = worker[v]
  BY Others DEF Call
<1>6. FreshInv'
  <2>1. ASSUME NEW p \in DOMAIN effects, p > Len(requests) PROVE p # q /\ effects[p] = 0
    BY <1>1, <2>1, Domains, ActionParts DEF FreshInv
  <2> QED
    BY <1>2, <1>3, <2>1 DEF FreshInv
<1>7. ASSUME NEW p \in DOMAIN requests PROVE RequestInv(p)'
  <2>1. RequestInv(p)
    BY ActionParts
  <2>2. CASE p = q
    BY <1>1, <1>2, <1>3, <2>1, <2>2 DEF RequestInv
  <2>3. CASE p # q
    BY <1>2, <1>3, <2>1, <2>3 DEF RequestInv
  <2> QED
    BY <2>2, <2>3
<1>8. ASSUME NEW v \in Workers, worker'[v].pc \in Calling
      PROVE  worker[v].pc \in Calling /\ worker'[v].request = worker[v].request
  BY <1>1, <1>4, <1>5, <1>8
<1>9. ASSUME NEW v \in Workers PROVE CallInv(v)'
  <2>1. CASE worker'[v].pc \in Calling
    <3>1. /\ CallInv(v) /\ worker[v].pc \in Calling /\ worker'[v].request = worker[v].request
          /\ worker[v].request \in DOMAIN effects
      BY <1>8, <2>1, ActionParts, CallerRequest
    <3>2. \A u \in Workers :
            (worker'[u].pc \in Calling /\ worker'[u].request = worker'[v].request) => u = v
      BY <1>8, <3>1 DEF CallInv
    <3>3. requests'[worker'[v].request].status = "executing"
      BY <1>2, <3>1 DEF CallInv
    <3>4. effects'[worker'[v].request] = IF worker'[v].pc = "called" THEN 1 ELSE 0
      <4>1. CASE v = w
        BY <1>3, <1>4, <4>1
      <4>2. CASE v # w
        <5>1. worker[v].request # q
          BY <1>1, <3>1, <4>2 DEF CallInv
        <5> QED
          BY <1>3, <1>5, <3>1, <4>2, <5>1 DEF CallInv
      <4> QED
        BY <4>1, <4>2
    <3> QED
      BY <3>2, <3>3, <3>4 DEF CallInv
  <2> QED
    BY <2>1 DEF CallInv
<1>10. \A p \in DOMAIN requests' : RequestInv(p)'
  BY <1>2, <1>7
<1> QED
  BY Zenon, <1>6, <1>9, <1>10 DEF ActionInv, FreshInv, RequestInv, CallInv

\* The status of a request changes; nobody else calls its provider.
LEMMA StatusStep ==
  ASSUME TypeOK, ActionInv, NEW w \in Workers, NEW q \in DOMAIN requests,
         UNCHANGED <<steps, effects>>,
         DOMAIN requests' = DOMAIN requests, Len(requests') = Len(requests),
         \A p \in DOMAIN requests : p # q => requests'[p] = requests[p],
         RequestInv(q)', CallInv(w)',
         \A v \in Workers : v # w => worker'[v] = worker[v],
         worker'[w].pc \in Calling => worker'[w].request = q,
         \A v \in Workers : v # w /\ worker[v].pc \in Calling => worker[v].request # q
  PROVE  ActionInv'
<1>1. FreshInv'
  BY ActionParts DEF FreshInv
<1>2. \A p \in DOMAIN requests' : RequestInv(p)'
  BY ActionParts DEF RequestInv
<1>3. ASSUME NEW v \in Workers PROVE CallInv(v)'
  <2>1. CASE v # w /\ worker[v].pc \in Calling
    <3>1. /\ CallInv(v) /\ worker'[v] = worker[v]
          /\ worker[v].request \in DOMAIN requests /\ worker[v].request # q
      BY <2>1, ActionParts, CallerRequest
    <3>2. ASSUME NEW u \in Workers, worker'[u].pc \in Calling,
                 worker'[u].request = worker'[v].request
          PROVE  u = v
      BY <2>1, <3>1, <3>2 DEF CallInv
    <3> QED
      BY <2>1, <3>1, <3>2 DEF CallInv
  <2>2. CASE v # w /\ worker[v].pc \notin Calling
    BY <2>2 DEF CallInv
  <2> QED
    BY <2>1, <2>2
<1> QED
  BY Zenon, <1>1, <1>2, <1>3 DEF ActionInv, FreshInv, RequestInv, CallInv

LEMMA SettleRequest ==
  ASSUME TypeOK, NEW w \in Workers, Settle(w)
  PROVE  /\ worker[w].request \in DOMAIN requests /\ worker[w].pc = "called"
         /\ UNCHANGED <<steps, executions, effects, crashes>>
         /\ DOMAIN requests' = DOMAIN requests /\ Len(requests') = Len(requests)
         /\ requests'[worker[w].request].step = requests[worker[w].request].step
         /\ requests'[worker[w].request].approval = requests[worker[w].request].approval
         /\ requests'[worker[w].request].status \in {"verified", "failed"}
         /\ \A p \in DOMAIN requests : p # worker[w].request => requests'[p] = requests[p]
         /\ \A v \in Workers : v # w => worker'[v] = worker[v]
         /\ worker'[w].answer = requests'[worker[w].request].status
         /\ worker'[w].request = worker[w].request /\ worker'[w].row = worker[w].row
         /\ worker'[w].pc \in {"resolved", "answered"}
<1> DEFINE q == worker[w].request
           x(outcome) == [worker[w] EXCEPT !.answer = outcome,
                            !.pc = IF worker[w].next = 0 THEN "resolved" ELSE "answered"]
<1>1. PICK outcome \in {"verified", "failed"} :
        /\ requests' = [requests EXCEPT ![q].status = outcome]
        /\ Step(w, x(outcome))
  BY DEF Settle
<1>2. /\ q \in DOMAIN requests /\ requests \in Seq(Request) /\ outcome \in Statuses
      /\ worker[w] \in Worker
  BY DEF Settle, TypeOK, Statuses
<1>3. /\ DOMAIN requests' = DOMAIN requests /\ Len(requests') = Len(requests)
      /\ requests'[q].step = requests[q].step /\ requests'[q].approval = requests[q].approval
      /\ requests'[q].status = outcome
      /\ \A p \in DOMAIN requests : p # q => requests'[p] = requests[p]
  BY <1>1, <1>2, OutcomeTypes
<1>4. worker'[w] = x(outcome) /\ \A v \in Workers : v # w => worker'[v] = worker[v]
  BY <1>1, Others
<1>5. /\ worker'[w].answer = outcome /\ worker'[w].request = q
      /\ worker'[w].row = worker[w].row /\ worker'[w].pc \in {"resolved", "answered"}
  BY <1>2, <1>4 DEF Worker
<1> QED
  BY <1>1, <1>2, <1>3, <1>4, <1>5 DEF Settle

LEMMA SettleAction ==
  ASSUME TypeOK, ActionInv, NEW w \in Workers, Settle(w)
  PROVE  ActionInv'
<1> DEFINE q == worker[w].request
<1>1. q \in DOMAIN requests /\ requests[q].status = "executing" /\ CallInv(w) /\ RequestInv(q)
      /\ worker[w].pc \in Calling
  BY SettleRequest, CallerRequest, ActionParts DEF Calling
<1>2. RequestInv(q)'
  BY <1>1, SettleRequest DEF RequestInv
<1>3. worker'[w].pc \notin Calling
  BY SettleRequest DEF Calling
<1>4. \A v \in Workers : v # w /\ worker[v].pc \in Calling => worker[v].request # q
  BY <1>1 DEF CallInv
<1> QED
  BY <1>1, <1>2, <1>3, <1>4, SettleRequest, StatusStep DEF CallInv

LEMMA DecideAction ==
  ASSUME TypeOK, ActionInv, NEW w \in Workers, NEW q, Decide(w, q)
  PROVE  ActionInv'
<1>1. /\ q \in DOMAIN requests /\ requests[q].status = "awaiting_approval" /\ RequestInv(q)
      /\ UNCHANGED <<steps, effects>>
  BY Decisions, ActionParts DEF Claim
<1>2. effects[q] = 0 /\ steps[requests[q].step] = "change" /\ q \in DOMAIN effects
  BY <1>1 DEF RequestInv
<1>3. RequestInv(q)'
  BY <1>1, <1>2, Decisions DEF RequestInv, Denies, Approves
<1>4. \A v \in Workers : worker[v].pc \in Calling => worker[v].request # q
  BY <1>1, CallerRequest
<1>5. \A v \in Workers : v # w => worker'[v] = worker[v]
  BY Others, Decisions DEF Denies, Approves
<1>6. worker'[w].pc \in Calling =>
        Approves(w, q) /\ worker'[w].pc = "calling" /\ worker'[w].request = q
  <2>1. CASE Denies(w, q)
    <3>1. worker'[w] = [Idle EXCEPT !.pc = "resolved", !.request = q, !.answer = "denied"]
      BY <2>1, Others DEF Denies
    <3> QED
      BY <3>1 DEF Idle, Calling
  <2>2. CASE Approves(w, q)
    <3>1. worker'[w] = [Idle EXCEPT !.pc = "calling", !.request = q]
      BY <2>2, Others DEF Approves
    <3> QED
      BY <2>2, <3>1 DEF Idle
  <2> QED
    BY <2>1, <2>2, Decisions
<1>7. CallInv(w)'
  <2>1. ASSUME NEW v \in Workers, worker'[v].pc \in Calling, worker'[v].request = q
        PROVE  v = w
    BY <1>4, <1>5, <2>1
  <2> QED
    BY <1>1, <1>2, <1>6, <2>1 DEF CallInv, Approves
<1> QED
  BY <1>1, <1>3, <1>4, <1>5, <1>6, <1>7, Decisions, StatusStep

LEMMA IdleStep ==
  ASSUME TypeOK, ActionInv, NEW w \in Workers, Step(w, Idle),
         UNCHANGED <<steps, requests, effects>>
  PROVE  ActionInv'
<1>1. Idle.pc \notin Calling
  BY DEF Idle, Calling
<1> QED
  BY <1>1, QuietStep

\* The steps of the loop.
LEMMA LoopAction ==
  ASSUME TypeOK, ActionInv, NEW w \in Workers,
         Lookup(w) \/ StepDone(w) \/ StepFails(w)
  PROVE  ActionInv'
<1>1. worker[w] \in Worker
  BY DEF TypeOK
<1>2. UNCHANGED <<steps, requests, effects>>
  BY DEF Lookup, StepDone, StepFails
<1>3. CASE Lookup(w)
  <2>1. PICK x : /\ Step(w, x)
                 /\ \/ x = [worker[w] EXCEPT !.pc = "requesting"]
                    \/ x = [worker[w] EXCEPT !.pc = "answered", !.request = 1,
                                             !.answer = requests[1].status]
                    \/ x = [worker[w] EXCEPT !.pc = "answered", !.request = None,
                                             !.answer = "failed"]
    BY <1>3 DEF Lookup
  <2>2. x.pc \notin Calling
    BY <1>1, <2>1 DEF Worker, Calling
  <2> QED
    BY <1>2, <2>1, <2>2, QuietStep
<1>4. CASE StepDone(w)
  <2>1. PICK i, row : Step(w, [worker[w] EXCEPT !.pc = "loop", !.next = i, !.locked = TRUE,
                                 !.row = row, !.request = None, !.answer = ""])
    BY <1>4 DEF StepDone
  <2>2. [worker[w] EXCEPT !.pc = "loop", !.next = i, !.locked = TRUE,
                          !.row = row, !.request = None, !.answer = ""].pc \notin Calling
    BY <1>1 DEF Worker, Calling
  <2> QED
    BY <1>2, <2>1, <2>2, QuietStep
<1>5. CASE StepFails(w)
  <2>1. PICK row, ex : Step(w, [worker[w] EXCEPT !.pc = "failing", !.row = row,
                                  !.locked = FALSE, !.ex = ex])
    BY <1>5 DEF StepFails
  <2>2. [worker[w] EXCEPT !.pc = "failing", !.row = row, !.locked = FALSE, !.ex = ex].pc
          \notin Calling
    BY <1>1 DEF Worker, Calling
  <2> QED
    BY <1>2, <2>1, <2>2, QuietStep
<1> QED
  BY <1>3, <1>4, <1>5

\* The steps that go on with an execution.
LEMMA GoOnAction ==
  ASSUME TypeOK, ActionInv, NEW w \in Workers, NEW entry, GoOn(w, entry)
  PROVE  ActionInv'
<1>1. PICK next, row : Step(w, [Idle EXCEPT !.pc = "loop", !.ex = worker[w].ex,
                                            !.next = next, !.row = row])
  BY DEF GoOn
<1>2. [Idle EXCEPT !.pc = "loop", !.ex = worker[w].ex, !.next = next, !.row = row].pc
        \notin Calling
  BY DEF Idle, Calling
<1>3. UNCHANGED <<steps, requests, effects>>
  BY DEF GoOn
<1> QED
  BY <1>1, <1>2, <1>3, QuietStep

\* The steps that take a worker to an execution.
LEMMA OpenAction ==
  ASSUME TypeOK, ActionInv, NEW w \in Workers, NEW e,
         Start(w) \/ OpenManual(w, e) \/ OpenGate(w, e) \/ Find(w, e)
  PROVE  ActionInv'
<1>1. worker[w] \in Worker
  BY DEF TypeOK
<1>2. UNCHANGED <<steps, requests, effects>>
  BY DEF Start, OpenManual, OpenGate, Open, Find
<1>3. PICK x : /\ Step(w, x)
               /\ \/ x = [Idle EXCEPT !.pc = "loop", !.next = 1]
                  \/ x = [Idle EXCEPT !.pc = "completing", !.ex = e, !.row = executions[e]]
                  \/ x = [Idle EXCEPT !.pc = "approving", !.ex = e, !.row = executions[e]]
                  \/ x = [worker[w] EXCEPT !.pc = "resuming", !.ex = e, !.row = executions[e]]
  BY DEF Start, OpenManual, OpenGate, Open, Find
<1>4. x.pc \notin Calling
  BY <1>1, <1>3 DEF Worker, Idle, Calling
<1> QED
  BY <1>2, <1>3, <1>4, QuietStep

LEMMA ActionStep ==
  ASSUME TypeOK, ActionInv, [Next]_vars
  PROVE  ActionInv'
<1>1. CASE UNCHANGED vars
  BY <1>1 DEF vars, ActionInv, Calling
<1>2. ASSUME NEW w \in Workers, Act(w) PROVE ActionInv'
  <2>1. Pause(w) \/ Fail(w) \/ PauseForHuman(w) \/ Finish(w) \/ FindNone(w) => ActionInv'
    BY IdleStep DEF Pause, Fail, PauseForHuman, Finish, FindNone
  <2>2. CompleteManual(w) \/ ApproveGated(w) \/ DenyGated(w) => ActionInv'
    BY IdleStep, GoOnAction DEF CompleteManual, ApproveGated, DenyGated, Abandon
  <2>3. Resume(w) => ActionInv'
    BY IdleStep, GoOnAction DEF Resume, Abandon
  <2> QED
    BY <1>2, <2>1, <2>2, <2>3, LoopAction, AskAction, CallAction, SettleAction, OpenAction DEF Act
<1>3. ASSUME NEW w \in Workers, Crash(w) PROVE ActionInv'
  BY <1>3, IdleStep DEF Crash
<1> QED
  BY <1>1, <1>2, <1>3, OpenAction, DecideAction DEF Next

LEMMA ActionInit == Init => ActionInv
<1> SUFFICES ASSUME Init PROVE ActionInv
  OBVIOUS
<1>0. requests \in Seq(Request) /\ Len(requests) = 0
  BY EmptySeq DEF Init
<1>1. DOMAIN requests = {} /\ \A w \in Workers : worker[w].pc \notin Calling
  <2>1. DOMAIN requests = 1 .. 0
    BY <1>0, LenProperties
  <2>2. \A w \in Workers : worker[w].pc = "idle"
    BY DEF Init, Idle
  <2> QED
    BY <2>1, <2>2 DEF Calling
<1>2. \A q \in DOMAIN effects : effects[q] = 0
  BY DEF Init
<1> QED
  BY <1>1, <1>2 DEF ActionInv

\* A request under way belongs to one worker, who called its provider or not.
THEOREM ActionInvariant == Spec => []ActionInv
BY TypeInit, TypeStep, ActionInit, ActionStep, PTL DEF Spec

\* The provider is called at most once for a request, whoever approves it.
THEOREM ActionsCalledOnce == Spec => []CalledOnce
<1>1. ASSUME TypeOK, ActionInv PROVE CalledOnce
  <2>1. ASSUME NEW q \in DOMAIN effects PROVE effects[q] <= 1
    <3>1. CASE q > Len(requests)
      BY <1>1, <2>1, <3>1, ActionParts DEF FreshInv
    <3>2. CASE ~ (q > Len(requests))
      <4>1. q \in DOMAIN requests
        BY <1>1, <2>1, <3>2, Domains, Bounds
      <4> QED
        BY <1>1, <4>1, ActionParts DEF RequestInv
    <3> QED
      BY <3>1, <3>2
  <2> QED
    BY <2>1 DEF CalledOnce
<1> QED
  BY <1>1, TypeCorrect, ActionInvariant, PTL

\* An action had an effect only if nobody refused it, and with its approval.
THEOREM ActionsAllowed == Spec => []EffectsAreAllowed
<1>1. ASSUME TypeOK, ActionInv PROVE EffectsAreAllowed
  <2>1. ASSUME NEW q \in DOMAIN requests, effects[q] > 0
        PROVE  requests[q].status \in {"executing", "verified", "failed"}
    <3>1. RequestInv(q) /\ requests[q].status \in Statuses
      BY <1>1, <2>1, Domains, ActionParts DEF Request
    <3>2. effects[q] # 0
      BY <2>1
    <3> QED
      BY <3>1, <3>2 DEF RequestInv, Statuses
  <2> QED
    BY <1>1, <2>1, ActionParts DEF EffectsAreAllowed, RequestInv
<1> QED
  BY <1>1, TypeCorrect, ActionInvariant, PTL

-----------------------------------------------------------------------------
(* Reports.                                                                *)

\* What is verified stays verified, and results stay true.
VerifiedNext(q) == q \in DOMAIN requests' /\ requests'[q].status = "verified"
Stays == \A q : Verified(q) => VerifiedNext(q)

\* Nothing reopens a request that was settled.
LEMMA SettledStays ==
  ASSUME TypeOK, ActionInv, [Next]_vars
  PROVE  Stays
<1>1. CASE UNCHANGED requests
  BY <1>1 DEF Stays, Verified, VerifiedNext
<1>2. ASSUME NEW w \in Workers, Ask(w) PROVE Stays
  <2>1. PICK new \in Request : requests' = Append(requests, new)
    <3>1. PICK status \in {"policy_denied", "awaiting_approval", "executing"},
               approval \in {"none", "pending"} :
            requests' = Append(requests, [step |-> worker[w].next, status |-> status,
                                          approval |-> approval])
      BY <1>2 DEF Ask
    <3>2. [step |-> worker[w].next, status |-> status, approval |-> approval] \in Request
      BY Fields DEF Request, Statuses
    <3> QED
      BY <3>1, <3>2
  <2>2. requests \in Seq(Request)
    BY DEF TypeOK
  <2>3. /\ DOMAIN requests \subseteq DOMAIN requests'
        /\ \A q \in DOMAIN requests : requests'[q] = requests[q]
    BY <2>1, <2>2, Appended
  <2> QED
    BY <2>3 DEF Stays, Verified, VerifiedNext
<1>3. ASSUME NEW w \in Workers, Settle(w) PROVE Stays
  <2>1. requests[worker[w].request].status = "executing"
    BY <1>3, SettleRequest, CallerRequest DEF Calling
  <2>2. /\ DOMAIN requests' = DOMAIN requests
        /\ \A q \in DOMAIN requests : q # worker[w].request => requests'[q] = requests[q]
    BY <1>3, SettleRequest
  <2> QED
    BY <2>1, <2>2 DEF Stays, Verified, VerifiedNext
<1>4. ASSUME NEW w \in Workers, NEW q, Decide(w, q) PROVE Stays
  BY <1>4, Decisions DEF Stays, Verified, VerifiedNext, Claim
<1>5. ASSUME NEW w \in Workers, Act(w) PROVE Stays
  <2>1. Ask(w) \/ Settle(w) \/ UNCHANGED requests
    BY <1>5 DEF Act, Lookup, Call, StepDone, Pause, StepFails, Fail, PauseForHuman, Finish,
       CompleteManual, ApproveGated, DenyGated, GoOn, Abandon, Find, FindNone, Resume
  <2> QED
    BY <1>1, <1>2, <1>3, <2>1
<1>6. ASSUME NEW w \in Workers, NEW e, Start(w) \/ Crash(w) \/ OpenManual(w, e) \/ OpenGate(w, e)
      PROVE  Stays
  BY <1>1, <1>6 DEF Start, Crash, OpenManual, OpenGate, Open
<1> QED
  BY <1>1, <1>4, <1>5, <1>6 DEF Next, vars

\* The results a worker has are true, and those it adds.
LEMMA RecordedTruthful ==
  ASSUME TypeOK, ReportInv, NEW w \in Workers, NEW i \in Nat, NEW q \in Nat,
         NEW status \in {"succeeded", "failed", "waiting", "approved", "completed"},
         status = "succeeded" => Verified(q)
  PROVE  Truthful(Recorded(w, Result(i, status, q)))
<1> DEFINE entry == Result(i, status, q)
<1>1. entry.status = status /\ entry.request = q /\ Truthful(worker[w].row)
  BY DEF Result, ReportInv
<1> HIDE DEF entry
<1>2. worker[w].row \in Execution /\ (Begun(w) \/ executions[worker[w].ex] \in Execution)
  BY Domains DEF TypeOK, Worker, Begun
<1>3. Recorded(w, entry).results = worker[w].row.results \cup {entry}
  BY <1>2 DEF Recorded, Execution
<1>4. Truthful(Recorded(w, entry))
  BY <1>1, <1>3 DEF Truthful
<1> QED
  BY <1>4 DEF entry

LEMMA SameResults ==
  ASSUME NEW row \in Execution, Truthful(row), NEW i, NEW status
  PROVE  /\ Truthful([row EXCEPT !.index = i]) /\ Truthful([row EXCEPT !.status = status])
         /\ Truthful([row EXCEPT !.index = i, !.status = status])
         /\ Truthful([row EXCEPT !.status = status, !.index = i])
BY DEF Truthful, Execution

\* The rows after a worker saved one.
LEMMA SavedTruthful ==
  ASSUME TypeOK, ReportInv, NEW w \in Workers, NEW row \in Execution, Truthful(row),
         executions' = Saved(w, row)
  PROVE  \A e \in DOMAIN executions' : Truthful(executions'[e])
<1>1. executions \in Seq(Execution) /\ \A e \in DOMAIN executions : Truthful(executions[e])
  BY DEF TypeOK, ReportInv
<1>2. CASE Begun(w)
  <2>1. executions' = Append(executions, row)
    BY <1>2 DEF Saved
  <2>2. /\ DOMAIN executions' = 1 .. (Len(executions) + 1) /\ Len(executions) \in Nat
        /\ DOMAIN executions = 1 .. Len(executions)
        /\ executions'[Len(executions) + 1] = row
        /\ \A i \in DOMAIN executions : executions'[i] = executions[i]
    BY <1>1, <2>1, Appended
  <2>3. \A e \in DOMAIN executions' : e = Len(executions) + 1 \/ e \in DOMAIN executions
    BY <2>2
  <2> QED
    BY <1>1, <2>2, <2>3
<1>3. CASE ~Begun(w)
  <2>1. worker[w].ex \in DOMAIN executions
    BY <1>3 DEF TypeOK, Begun
  <2>2. executions' = [executions EXCEPT ![worker[w].ex] = row]
    BY <1>3 DEF Saved
  <2>3. /\ DOMAIN executions' = DOMAIN executions /\ executions'[worker[w].ex] = row
        /\ \A e \in DOMAIN executions : e # worker[w].ex => executions'[e] = executions[e]
    BY <1>1, <2>1, <2>2, Updated
  <2> QED
    BY <1>1, <2>3
<1> QED
  BY <1>2, <1>3

\* A step after which rows and the worker's memory are true.
LEMMA ReportStepped ==
  ASSUME TypeOK, ReportInv, Stays, NEW w \in Workers, NEW x, Step(w, x),
         Truthful(x.row), x.answer = "verified" => VerifiedNext(x.request),
         \A e \in DOMAIN executions' : Truthful(executions'[e])
  PROVE  ReportInv'
<1>1. ASSUME NEW row, Truthful(row)
      PROVE  \A r \in row.results : r.status = "succeeded" => VerifiedNext(r.request)
  BY <1>1 DEF Truthful, Stays
<1>2. \A e \in DOMAIN executions' : Truthful(executions[e])'
  BY <1>1 DEF Truthful, Verified, VerifiedNext
<1>3. ASSUME NEW v \in Workers
      PROVE  Truthful(worker[v].row)' /\ (worker'[v].answer = "verified"
                                            => VerifiedNext(worker'[v].request))
  <2>1. Truthful(worker[v].row) /\ (worker[v].answer = "verified" => Verified(worker[v].request))
    BY DEF ReportInv
  <2>2. CASE v = w
    <3>1. worker'[v] = x
      BY <2>2, Others
    <3> QED
      BY <1>1, <3>1 DEF Truthful, Verified, VerifiedNext
  <2>3. CASE v # w
    <3>1. worker'[v] = worker[v]
      BY <2>3, Others
    <3> QED
      BY <1>1, <2>1, <3>1 DEF Truthful, Verified, VerifiedNext, Stays
  <2> QED
    BY <2>2, <2>3
<1> QED
  BY <1>2, <1>3 DEF ReportInv, Verified, VerifiedNext

\* A step that stores no execution.
LEMMA MemoryReport ==
  ASSUME TypeOK, ReportInv, Stays, NEW w \in Workers, NEW x, Step(w, x),
         Truthful(x.row), x.answer = "verified" => VerifiedNext(x.request),
         UNCHANGED executions
  PROVE  ReportInv'
<1>1. \A e \in DOMAIN executions' : Truthful(executions'[e])
  BY DEF ReportInv
<1> QED
  BY <1>1, ReportStepped

LEMMA IdleTruthful == Truthful(Idle.row) /\ Idle.answer = ""
BY DEF Truthful, Idle, NewExecution

\* A step that stores an execution and leaves it.
LEMMA SaveReport ==
  ASSUME TypeOK, ReportInv, Stays, NEW w \in Workers, NEW row \in Execution,
         Truthful(row), executions' = Saved(w, row), Step(w, Idle)
  PROVE  ReportInv'
<1>1. \A e \in DOMAIN executions' : Truthful(executions'[e])
  BY SavedTruthful
<1> QED
  BY <1>1, IdleTruthful, ReportStepped

\* A step that only sets the status of a row.
LEMMA EndReport ==
  ASSUME TypeOK, ReportInv, Stays, NEW w \in Workers, worker[w].ex \in DOMAIN executions,
         NEW status \in {"failed", "abandoned"}, Step(w, Idle),
         executions' = [executions EXCEPT ![worker[w].ex].status = status]
  PROVE  ReportInv'
<1>1. executions \in Seq(Execution)
  BY DEF TypeOK
<1>2. /\ DOMAIN executions' = DOMAIN executions
      /\ \A e \in DOMAIN executions : executions'[e].results = executions[e].results
  BY <1>1, StatusUpdated
<1>3. \A e \in DOMAIN executions' : Truthful(executions'[e])
  BY <1>2 DEF ReportInv, Truthful
<1> QED
  BY <1>3, IdleTruthful, ReportStepped

LEMMA GoOnReport ==
  ASSUME TypeOK, ReportInv, Stays, NEW w \in Workers, NEW i \in Nat, NEW q \in Nat,
         NEW status \in {"succeeded", "approved", "completed"},
         status = "succeeded" => Verified(q), GoOn(w, Result(i, status, q))
  PROVE  ReportInv'
<1> DEFINE entry == Result(i, status, q)
           row == Recorded(w, entry)
           advanced == [row EXCEPT !.index = @ + 1, !.status = "running"]
           x == [Idle EXCEPT !.pc = "loop", !.ex = worker[w].ex,
                             !.next = advanced.index, !.row = advanced]
<1>1. row \in Execution /\ Truthful(row)
  BY EntryTypes, RecordedTypes, RecordedTruthful
<1>2. executions' = Saved(w, advanced) /\ Step(w, x)
  BY DEF GoOn
<1> HIDE DEF row
<1>3. advanced \in Execution /\ Truthful(advanced)
  BY <1>1, AdvancedTypes, SameResults
<1> HIDE DEF advanced
<1>4. x.row = advanced /\ x.answer = ""
  BY DEF Idle
<1>5. \A e \in DOMAIN executions' : Truthful(executions'[e])
  BY <1>2, <1>3, SavedTruthful
<1> HIDE DEF x
<1> QED
  BY <1>2, <1>3, <1>4, <1>5, ReportStepped

LEMMA CopyIsTrue ==
  ASSUME TypeOK, ReportInv, Stays, NEW w \in Workers
  PROVE  /\ worker[w] \in Worker /\ Truthful(worker[w].row)
         /\ worker[w].answer = "verified" =>
              Verified(worker[w].request) /\ VerifiedNext(worker[w].request)
BY DEF TypeOK, ReportInv, Stays

\* The answers to a request.
LEMMA AnswerReport ==
  ASSUME TypeOK, ActionInv, ReportInv, Stays, NEW w \in Workers,
         Lookup(w) \/ Ask(w) \/ Call(w) \/ Settle(w)
  PROVE  ReportInv'
<1>1. worker[w] \in Worker /\ Truthful(worker[w].row) /\ UNCHANGED executions
  BY CopyIsTrue DEF Lookup, Ask, Call, Settle
<1>2. CASE Call(w) \/ (Lookup(w) /\ Step(w, [worker[w] EXCEPT !.pc = "requesting"]))
  <2>1. PICK pc : Step(w, [worker[w] EXCEPT !.pc = pc])
    BY <1>2 DEF Call
  <2>2. [worker[w] EXCEPT !.pc = pc].row = worker[w].row
        /\ [worker[w] EXCEPT !.pc = pc].answer = worker[w].answer
        /\ [worker[w] EXCEPT !.pc = pc].request = worker[w].request
    BY <1>1 DEF Worker
  <2> QED
    BY <1>1, <2>1, <2>2, CopyIsTrue, MemoryReport
<1>3. CASE Lookup(w) /\ ~ Step(w, [worker[w] EXCEPT !.pc = "requesting"])
  <2>1. PICK q, status :
          /\ Step(w, [worker[w] EXCEPT !.pc = "answered", !.request = q, !.answer = status])
          /\ status = "verified" => q \in DOMAIN requests /\ status = requests[q].status
    <3>1. CASE /\ Len(requests) = 1
               /\ Step(w, [worker[w] EXCEPT !.pc = "answered", !.request = 1,
                                            !.answer = requests[1].status])
      <4>1. 1 \in DOMAIN requests
        BY <3>1, Domains
      <4> QED
        BY <3>1, <4>1
    <3>2. CASE Step(w, [worker[w] EXCEPT !.pc = "answered", !.request = None,
                                         !.answer = "failed"])
      <4>1. "failed" # "verified"
        OBVIOUS
      <4> QED
        BY <3>2, <4>1
    <3> QED
      BY <1>3, <3>1, <3>2 DEF Lookup
  <2> DEFINE x == [worker[w] EXCEPT !.pc = "answered", !.request = q, !.answer = status]
  <2>2. x.row = worker[w].row /\ x.answer = status /\ x.request = q
    BY <1>1 DEF Worker
  <2>3. status = "verified" => VerifiedNext(q)
    BY <2>1 DEF Stays, Verified
  <2>4. Step(w, x)
    BY <2>1
  <2> HIDE DEF x
  <2> QED
    BY <1>1, <2>2, <2>3, <2>4, MemoryReport
<1>4. CASE Ask(w)
  <2>1. PICK pc, q, status :
          /\ status # "verified"
          /\ Step(w, [worker[w] EXCEPT !.pc = pc, !.request = q, !.answer = status])
    BY <1>4 DEF Ask
  <2> DEFINE x == [worker[w] EXCEPT !.pc = pc, !.request = q, !.answer = status]
  <2>2. x.row = worker[w].row /\ x.answer = status
    BY <1>1 DEF Worker
  <2>3. Step(w, x)
    BY <2>1
  <2> HIDE DEF x
  <2> QED
    BY <1>1, <2>1, <2>2, <2>3, MemoryReport
<1>5. CASE Settle(w)
  <2>1. PICK x : Step(w, x)
    BY <1>5 DEF Settle
  <2>2. worker'[w] = x
    BY <2>1, Others
  <2>3. /\ x.row = worker[w].row /\ x.request \in DOMAIN requests'
        /\ x.answer = requests'[x.request].status
    BY <1>5, <2>2, SettleRequest
  <2> QED
    BY <1>1, <2>1, <2>3, MemoryReport DEF VerifiedNext
<1> QED
  BY <1>2, <1>3, <1>4, <1>5

\* Recording a step's result.
LEMMA StepDoneReport ==
  ASSUME TypeOK, ReportInv, Stays, NEW w \in Workers, StepDone(w)
  PROVE  ReportInv'
<1> DEFINE i == worker[w].next
           recorded == Recorded(w, Result(i, "succeeded", worker[w].request))
           row == [recorded EXCEPT !.index = i + 1]
           x == [worker[w] EXCEPT !.pc = "loop", !.next = i + 1, !.locked = TRUE,
                                  !.row = row, !.request = None, !.answer = ""]
<1>1. Verified(worker[w].request)
  BY CopyIsTrue DEF StepDone, Succeeds
<1>2. recorded \in Execution /\ Truthful(recorded)
  BY <1>1, Fields, EntryTypes, RecordedTypes, RecordedTruthful
<1>3. Step(w, x) /\ UNCHANGED executions
  BY DEF StepDone
<1> HIDE DEF recorded
<1>4. Truthful(row)
  BY <1>2, SameResults
<1> HIDE DEF row
<1>5. x.row = row /\ x.answer = ""
  BY CopyIsTrue DEF Worker
<1> HIDE DEF x
<1> QED
  BY <1>3, <1>4, <1>5, MemoryReport

LEMMA PauseReport ==
  ASSUME TypeOK, ReportInv, Stays, NEW w \in Workers, Pause(w) \/ PauseForHuman(w)
  PROVE  ReportInv'
<1>1. PICK q, i, status :
        /\ q \in Nat
        /\ executions' = Saved(w, [Recorded(w, Result(worker[w].next, "waiting", q))
                                     EXCEPT !.status = status, !.index = i])
        /\ i \in Nat /\ status \in {"awaiting_approval", "awaiting_manual"}
  <2>1. \A q \in Nat : /\ Recorded(w, Result(worker[w].next, "waiting", q)) \in Execution
                       /\ Recorded(w, Result(worker[w].next, "waiting", q)).index \in Nat
    BY Fields, EntryTypes, RecordedTypes DEF Execution
  <2>2. CASE Pause(w)
    <3>1. [Recorded(w, Result(worker[w].next, "waiting", worker[w].request))
             EXCEPT !.index = worker[w].next, !.status = "awaiting_approval"]
          = [Recorded(w, Result(worker[w].next, "waiting", worker[w].request))
             EXCEPT !.status = "awaiting_approval", !.index = worker[w].next]
      BY <2>1, Fields DEF Execution
    <3> QED
      BY <2>2, <3>1, Fields DEF Pause
  <2>3. CASE PauseForHuman(w)
    <3> DEFINE row == Recorded(w, Result(worker[w].next, "waiting", None))
               status == IF steps[worker[w].next] = "gated" THEN "awaiting_approval"
                         ELSE "awaiting_manual"
               index == IF Begun(w) THEN worker[w].next ELSE row.index
    <3>1. executions' = Saved(w, [row EXCEPT !.status = status, !.index = index])
      BY <2>3 DEF PauseForHuman
    <3>2. status \in {"awaiting_approval", "awaiting_manual"} /\ index \in Nat
      BY <2>1, Fields
    <3> HIDE DEF status, index
    <3> QED
      BY <3>1, <3>2, Fields
  <2> QED
    BY <2>2, <2>3
<1> DEFINE row == Recorded(w, Result(worker[w].next, "waiting", q))
           saved == [row EXCEPT !.status = status, !.index = i]
<1>2. row \in Execution /\ Truthful(row)
  BY <1>1, Fields, EntryTypes, RecordedTypes, RecordedTruthful
<1>3. executions' = Saved(w, saved) /\ Step(w, Idle)
  BY <1>1 DEF Pause, PauseForHuman
<1> HIDE DEF row
<1>4. saved \in Execution /\ Truthful(saved)
  BY <1>1, <1>2, IndexTypes, SameResults
<1> HIDE DEF saved
<1> QED
  BY <1>3, <1>4, SaveReport

LEMMA StepFailsReport ==
  ASSUME TypeOK, ReportInv, Stays, NEW w \in Workers, StepFails(w)
  PROVE  ReportInv'
<1> DEFINE i == worker[w].next
           recorded == Recorded(w, Result(i, "failed", worker[w].request))
           row == [recorded EXCEPT !.index = i]
           ex == IF Begun(w) THEN Len(executions) + 1 ELSE worker[w].ex
           x == [worker[w] EXCEPT !.pc = "failing", !.row = row, !.locked = FALSE, !.ex = ex]
<1>1. recorded \in Execution /\ Truthful(recorded)
  BY Fields, EntryTypes, RecordedTypes, RecordedTruthful
<1>2. executions' = Saved(w, row) /\ Step(w, x) /\ worker[w].answer # "verified"
  BY DEF StepFails, Succeeds
<1> HIDE DEF recorded
<1>3. row \in Execution /\ Truthful(row)
  BY <1>1, Fields, IndexTypes, SameResults
<1> HIDE DEF row, ex
<1>4. x.row = row /\ x.answer = worker[w].answer
  BY CopyIsTrue DEF Worker
<1>5. \A e \in DOMAIN executions' : Truthful(executions'[e])
  BY <1>2, <1>3, SavedTruthful
<1> HIDE DEF x
<1> QED
  BY <1>2, <1>3, <1>4, <1>5, ReportStepped

LEMMA FinishReport ==
  ASSUME TypeOK, ReportInv, Stays, NEW w \in Workers, Finish(w)
  PROVE  ReportInv'
<1> DEFINE row == IF Begun(w) \/ worker[w].locked THEN worker[w].row
                  ELSE executions[worker[w].ex]
           saved == [row EXCEPT !.status = "succeeded"]
<1>1. row \in Execution /\ Truthful(row)
  <2>1. Begun(w) \/ worker[w].ex \in DOMAIN executions
    BY DEF TypeOK, Begun
  <2> QED
    BY <2>1, Fields, Domains, CopyIsTrue DEF ReportInv
<1>2. executions' = Saved(w, saved) /\ Step(w, Idle)
  BY DEF Finish
<1> HIDE DEF row
<1>3. saved \in Execution /\ Truthful(saved)
  BY <1>1, IndexTypes, SameResults
<1> HIDE DEF saved
<1> QED
  BY <1>2, <1>3, SaveReport

\* Taking up an execution.
LEMMA OpenReport ==
  ASSUME TypeOK, ReportInv, Stays, NEW w \in Workers, NEW e,
         Start(w) \/ OpenManual(w, e) \/ OpenGate(w, e) \/ (e \in DOMAIN executions /\ Find(w, e))
  PROVE  ReportInv'
<1>1. UNCHANGED executions
  BY DEF Start, OpenManual, OpenGate, Open, Find
<1>2. PICK x :
        /\ Step(w, x)
        /\ \/ x = [Idle EXCEPT !.pc = "loop", !.next = 1]
           \/ /\ e \in DOMAIN executions
              /\ \/ x = [Idle EXCEPT !.pc = "completing", !.ex = e, !.row = executions[e]]
                 \/ x = [Idle EXCEPT !.pc = "approving", !.ex = e, !.row = executions[e]]
                 \/ x = [worker[w] EXCEPT !.pc = "resuming", !.ex = e, !.row = executions[e]]
  BY DEF Start, OpenManual, OpenGate, Open, Find
<1>3. /\ x.row = Idle.row \/ (e \in DOMAIN executions /\ x.row = executions[e])
      /\ x.answer = "" \/ (x.answer = worker[w].answer /\ x.request = worker[w].request)
  BY <1>2, CopyIsTrue DEF Idle, Worker
<1>4. Truthful(x.row) /\ (x.answer = "verified" => VerifiedNext(x.request))
  BY <1>3, CopyIsTrue, IdleTruthful DEF ReportInv
<1> QED
  BY <1>1, <1>2, <1>4, MemoryReport

LEMMA ResumeReport ==
  ASSUME TypeOK, ReportInv, Stays, NEW w \in Workers, Resume(w)
  PROVE  ReportInv'
<1> DEFINE i == worker[w].row.index
           q == worker[w].request
           row == Recorded(w, Result(i, "failed", q))
<1>1. worker[w].ex \in DOMAIN executions /\ i \in Nat /\ q \in Nat
  BY Fields DEF TypeOK, Resume
<1>2. CASE Abandon(w)
  BY <1>1, <1>2, EndReport DEF Abandon
<1>3. CASE Succeeds(worker[w].answer) /\ GoOn(w, Result(i, "succeeded", q))
  BY <1>1, <1>3, CopyIsTrue, GoOnReport DEF Succeeds
<1>4. CASE executions' = Saved(w, [row EXCEPT !.status = "failed"]) /\ Step(w, Idle)
  <2>1. row \in Execution /\ Truthful(row)
    BY <1>1, EntryTypes, RecordedTypes, RecordedTruthful
  <2>2. [row EXCEPT !.status = "failed"] \in Execution
        /\ Truthful([row EXCEPT !.status = "failed"])
    BY <2>1, IndexTypes, SameResults
  <2> QED
    BY <1>4, <2>2, SaveReport
<1> QED
  BY <1>2, <1>3, <1>4 DEF Resume

LEMMA ReportStep ==
  ASSUME TypeOK, ActionInv, ReportInv, [Next]_vars
  PROVE  ReportInv'
<1>0. Stays
  BY SettledStays
<1>1. CASE UNCHANGED vars
  BY <1>1 DEF vars, ReportInv, Truthful, Verified
<1>2. ASSUME NEW w \in Workers, Act(w) PROVE ReportInv'
  <2>1. Fail(w) => ReportInv'
    BY <1>0, EndReport DEF Fail, TypeOK
  <2>2. CompleteManual(w) \/ ApproveGated(w) => ReportInv'
    BY <1>0, Fields, GoOnReport DEF CompleteManual, ApproveGated
  <2>3. DenyGated(w) => ReportInv'
    BY <1>0, EndReport DEF DenyGated, Abandon, TypeOK
  <2>4. FindNone(w) => ReportInv'
    BY <1>0, IdleTruthful, MemoryReport DEF FindNone
  <2> QED
    BY <1>0, <1>2, <2>1, <2>2, <2>3, <2>4, AnswerReport, StepDoneReport, PauseReport,
       StepFailsReport, FinishReport, OpenReport, ResumeReport DEF Act
<1>3. ASSUME NEW w \in Workers, Crash(w) PROVE ReportInv'
  BY <1>0, <1>3, IdleTruthful, MemoryReport DEF Crash
<1>4. ASSUME NEW w \in Workers, NEW q, Decide(w, q) PROVE ReportInv'
  <2>1. PICK x : /\ Step(w, x)
                 /\ \/ x = [Idle EXCEPT !.pc = "resolved", !.request = q, !.answer = "denied"]
                    \/ x = [Idle EXCEPT !.pc = "calling", !.request = q]
    BY <1>4, Decisions DEF Denies, Approves
  <2>2. x.row = Idle.row /\ x.answer # "verified" /\ UNCHANGED executions
    BY <1>4, <2>1, Decisions DEF Idle
  <2> QED
    BY <1>0, <2>1, <2>2, IdleTruthful, MemoryReport
<1> QED
  BY <1>0, <1>1, <1>2, <1>3, <1>4, OpenReport DEF Next

LEMMA ReportInit == Init => ReportInv
<1> SUFFICES ASSUME Init PROVE ReportInv
  OBVIOUS
<1>1. \A w \in Workers : worker[w] = Idle
  BY DEF Init
<1>2. executions \in Seq(Execution) /\ Len(executions) = 0
  BY EmptySeq DEF Init
<1>3. DOMAIN executions = 1 .. 0
  BY <1>2, LenProperties
<1>4. \A w \in Workers : Truthful(worker[w].row) /\ worker[w].answer # "verified"
  <2>1. Idle.answer # "verified"
    BY IdleTruthful
  <2> QED
    BY <1>1, <2>1, IdleTruthful
<1>5. \A e \in DOMAIN executions : Truthful(executions[e])
  BY <1>3
<1> QED
  BY <1>4, <1>5 DEF ReportInv

\* What is recorded or about to be recorded as a success was verified.
THEOREM ReportInvariant == Spec => []ReportInv
BY TypeInit, TypeStep, ActionInit, ActionStep, ReportInit, ReportStep, PTL DEF Spec

\* No failed, denied or undecided action is reported as a completed step,
\* however executions are paused, resumed and replayed.
THEOREM ReportsAreTrue == Spec => []ReportedIsVerified
<1>1. ReportInv => ReportedIsVerified
  BY DEF ReportInv, ReportedIsVerified
<1> QED
  BY <1>1, ReportInvariant, PTL
=============================================================================
