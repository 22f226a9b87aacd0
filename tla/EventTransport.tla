--------------------------- MODULE EventTransport ---------------------------
(***************************************************************************)
(* The shared event transport (services/events/redis_transport.py) under   *)
(* the event bus (services/events/event_bus.py): producers append events   *)
(* to one Redis stream, the processes that run consumers read it through   *)
(* one consumer group, run every handler of an event and acknowledge it.   *)
(*                                                                         *)
(* An action is one Redis command (or the end of a dispatch), so that      *)
(* other consumers act, and processes die, between any two.  Events are    *)
(* numbered in the order of their stream ids.                              *)
(***************************************************************************)
EXTENDS Naturals, FiniteSets

CONSTANTS
  Events,         \* how many events are published
  Invalid,        \* events whose envelope does not decode
  Consumers,      \* processes that run the consumer loop
  Handlers,       \* the handlers subscribed to every event
  BatchSize,      \* messages claimed or read at once
  MaxDeliveries,  \* attempts before an event is dead-lettered
  MaxLen,         \* the stream is trimmed to about this many entries
  MaxFaults       \* bound: crashes, and Redis errors in a consumer or a publish

Ids == 1 .. Events

ASSUME TransportAssumption ==
  /\ Events \in Nat
  /\ Invalid \subseteq Ids
  /\ BatchSize \in Nat \ {0}
  /\ MaxDeliveries \in Nat \ {0}
  /\ MaxLen \in Nat \ {0}
  /\ MaxFaults \in Nat
  /\ IsFiniteSet(Consumers)

VARIABLES
  sent,      \* events published so far
  stream,    \* the entries of the stream
  cursor,    \* last-delivered id of the group
  pending,   \* delivered to a consumer, not acknowledged
  idle,      \* pending for longer than claim_idle_ms
  attempts,  \* the attempts hash: an entry per event, 0 when there is none
  done,      \* the done keys: the handlers recorded for each event
  dead,      \* the events that have an entry in the dead-letter stream
  effects,   \* handlers that did their work for an event, recorded or not
  local,     \* events queued in a consumer process because Redis was down
  consumer,  \* what each consumer process keeps in memory
  drops,     \* batches dropped so far
  outages    \* publishes that failed so far

redis == <<stream, cursor, pending, idle, attempts, done, dead>>
producer == <<sent, local, outages>>
vars == <<redis, producer, effects, consumer, drops>>

-----------------------------------------------------------------------------
(* Consumers.  `batch` holds the messages not handled yet, the smallest id *)
(* first; `count`, `already` and `ok` are the locals of _handle.           *)

Polling == [pc |-> "polling", batch |-> {}, count |-> 0,
            already |-> {}, ok |-> {}]

Current(c) == CHOOSE m \in consumer[c].batch :
                \A x \in consumer[c].batch : m <= x

\* The first k members of S.
First(k, S) == {m \in S : Cardinality({x \in S : x < m}) < k}

At(c, pc) == consumer[c].pc = pc
Become(c, state) == consumer' = [consumer EXCEPT ![c] = state]
Goto(c, pc) == Become(c, [consumer[c] EXCEPT !.pc = pc])

Fetched(batch) == [Polling EXCEPT !.pc = "next", !.batch = batch]

\* _handle returns: the next message of the batch, or the next poll.
Handled(c) ==
  LET rest == consumer[c].batch \ {Current(c)}
  IN  Become(c, IF rest = {} THEN Polling ELSE Fetched(rest))

Failed(c) == Handlers \ (consumer[c].already \cup consumer[c].ok)

\* The handlers a dispatch runs.
Todo(c) == Handlers \ consumer[c].already

-----------------------------------------------------------------------------
(* Producers.                                                              *)

\* XADD ... MAXLEN ~: entries before `lo` may be trimmed while MaxLen remain.
Appended(m) ==
  LET full == stream \cup {m}
  IN  {kept \in {{x \in full : x >= lo} : lo \in 0 .. m} :
         kept = full \/ Cardinality(kept) >= MaxLen}

Publish ==
  /\ sent < Events
  /\ sent' = sent + 1
  /\ stream' \in Appended(sent + 1)
  /\ UNCHANGED <<cursor, pending, idle, attempts, done, dead, effects, local,
                 consumer, drops, outages>>

\* XADD fails, before or after Redis applied it: a process that runs
\* consumers queues the event in memory, any other one loses it.
PublishFails ==
  /\ sent < Events
  /\ drops + outages < MaxFaults
  /\ sent' = sent + 1
  /\ outages' = outages + 1
  /\ stream' \in Appended(sent + 1) \cup {stream}
  /\ local' \in {local, local \cup {sent + 1}}
  /\ UNCHANGED <<cursor, pending, idle, attempts, done, dead, effects,
                 consumer, drops>>

\* _process_event: every handler is run once; failures are swallowed.
RunLocally(m) ==
  /\ m \in local
  /\ local' = local \ {m}
  /\ \E ok \in SUBSET Handlers : effects' = [effects EXCEPT ![m] = @ \cup ok]
  /\ UNCHANGED <<redis, sent, consumer, drops, outages>>

-----------------------------------------------------------------------------
(* The consumer loop.                                                      *)

\* What XAUTOCLAIM finds from 0-0 on.
Ripe == idle \cap stream

\* Mutant of Claim: claimed messages keep their idle time.
ClaimKeepsIdle(c) ==
  LET batch == First(BatchSize, Ripe)
  IN  /\ At(c, "polling")
      /\ pending' = pending \ (idle \ stream)
      /\ Become(c, IF batch = {} THEN [Polling EXCEPT !.pc = "reading"]
                                 ELSE Fetched(batch))
      /\ UNCHANGED <<stream, cursor, idle, attempts, done, dead, effects, producer, drops>>
\* Trimmed entries are dropped from the pending list.  A claim that finds
\* nothing goes on to read new messages.
Claim(c) ==
  LET batch == First(BatchSize, Ripe)
  IN  /\ At(c, "polling")
      /\ pending' = pending \ (idle \ stream)
      /\ idle' = (idle \cap stream) \ batch
      /\ Become(c, IF batch = {} THEN [Polling EXCEPT !.pc = "reading"]
                                 ELSE Fetched(batch))
      /\ UNCHANGED <<stream, cursor, attempts, done, dead, effects, producer, drops>>

Read(c) ==
  LET batch == First(BatchSize, {m \in stream : m > cursor})
  IN  /\ At(c, "reading")
      /\ IF batch = {}
         THEN Become(c, Polling) /\ UNCHANGED <<cursor, pending>>
         ELSE /\ Become(c, Fetched(batch))
              /\ cursor' = CHOOSE m \in batch : \A x \in batch : x <= m
              /\ pending' = pending \cup batch
      /\ UNCHANGED <<stream, idle, attempts, done, dead, effects, producer, drops>>

\* HINCRBY attempts, then decode: an invalid envelope is dead-lettered.
Count(c) ==
  LET m == Current(c)
  IN  /\ At(c, "next")
      /\ attempts' = [attempts EXCEPT ![m] = @ + 1]
      /\ Become(c, [consumer[c] EXCEPT
                      !.pc = IF m \in Invalid THEN "burying" ELSE "counted",
                      !.count = attempts[m] + 1])
      /\ UNCHANGED <<stream, cursor, pending, idle, done, dead, effects,
                     producer, drops>>

\* SMEMBERS of the done key.
Recorded(m) == done[m]

\* The handlers not recorded as done start.
Dispatch(c) ==
  /\ At(c, "counted")
  /\ Become(c, [consumer[c] EXCEPT !.pc = "running",
                                   !.already = Recorded(Current(c))])
  /\ UNCHANGED <<redis, effects, producer, drops>>

\* dispatch_tracked gathers the outcome of every handler it ran.
Outcome(c) ==
  /\ At(c, "running")
  /\ \E ok \in SUBSET Todo(c) :
       /\ Become(c, [consumer[c] EXCEPT !.pc = "ran", !.ok = ok])
       /\ effects' = [effects EXCEPT ![Current(c)] = @ \cup ok]
  /\ UNCHANGED <<redis, producer, drops>>

\* Mutant of Verdict: one handler that succeeded is enough.
VerdictOfAny(c) == IF consumer[c].ok # {} THEN "acking" ELSE "failed"
\* Mutant of Verdict: one attempt too many.
VerdictLate(c) ==
  IF Failed(c) = {} THEN "acking"
  ELSE IF consumer[c].count > MaxDeliveries THEN "burying" ELSE "failed"
Verdict(c) ==
  IF Failed(c) = {} THEN "acking"
  ELSE IF consumer[c].count >= MaxDeliveries THEN "burying" ELSE "failed"

\* Mutant of Record: every handler that was run is recorded.
RecordAll(c) ==
  /\ At(c, "ran")
  /\ done' = [done EXCEPT ![Current(c)] = Handlers]
  /\ IF Verdict(c) = "failed" THEN Handled(c) ELSE Goto(c, Verdict(c))
  /\ UNCHANGED <<stream, cursor, pending, idle, attempts, dead, effects,
                 producer, drops>>
\* SADD to the done key, then acknowledge, dead-letter, or leave the event
\* pending for a later claim.
Record(c) ==
  /\ At(c, "ran")
  /\ done' = [done EXCEPT ![Current(c)] = @ \cup consumer[c].ok]
  /\ IF Verdict(c) = "failed" THEN Handled(c) ELSE Goto(c, Verdict(c))
  /\ UNCHANGED <<stream, cursor, pending, idle, attempts, dead, effects,
                 producer, drops>>

\* Mutant of Bury: only the acknowledgement is sent.
BuryNothing(c) == At(c, "burying") /\ Goto(c, "acking")
                  /\ UNCHANGED <<redis, effects, producer, drops>>
\* XADD to the dead-letter stream.
Bury(c) ==
  /\ At(c, "burying")
  /\ dead' = dead \cup {Current(c)}
  /\ Goto(c, "acking")
  /\ UNCHANGED <<stream, cursor, pending, idle, attempts, done, effects,
                 producer, drops>>

\* XACK, whoever the message is pending for by now.
Ack(c) ==
  /\ At(c, "acking")
  /\ pending' = pending \ {Current(c)}
  /\ idle' = idle \ {Current(c)}
  /\ Goto(c, "clearing")
  /\ UNCHANGED <<stream, cursor, attempts, done, dead, effects, producer, drops>>

\* HDEL of the attempts entry.
Clear(c) ==
  /\ At(c, "clearing")
  /\ attempts' = [attempts EXCEPT ![Current(c)] = 0]
  /\ Handled(c)
  /\ UNCHANGED <<stream, cursor, pending, idle, done, dead, effects,
                 producer, drops>>

\* The process dies, is cancelled by stop(), or a Redis command raises: the
\* rest of the batch is dropped.  Handlers that ran may have done their work.
Drop(c) ==
  /\ drops + outages < MaxFaults
  /\ consumer[c].batch # {}
  /\ drops' = drops + 1
  /\ Become(c, Polling)
  /\ \E ok \in SUBSET (IF At(c, "running") THEN Todo(c) ELSE {}) :
       effects' = [effects EXCEPT ![Current(c)] = @ \cup ok]
  /\ UNCHANGED <<redis, producer>>

-----------------------------------------------------------------------------
\* Mutant of Expire: messages of a dead consumer stay its own.
ExpireNever(m) == FALSE
\* claim_idle_ms pass, be it while a live consumer still has the message in its
\* batch or runs its handlers: neither has a time limit, and nothing extends
\* the claim.
Expire(m) ==
  /\ m \in pending \ idle
  /\ idle' = idle \cup {m}
  /\ UNCHANGED <<stream, cursor, pending, attempts, done, dead, effects,
                 producer, consumer, drops>>

Init ==
  /\ sent = 0
  /\ stream = {}
  /\ cursor = 0
  /\ pending = {}
  /\ idle = {}
  /\ attempts = [m \in Ids |-> 0]
  /\ done = [m \in Ids |-> {}]
  /\ dead = {}
  /\ effects = [m \in Ids |-> {}]
  /\ local = {}
  /\ consumer = [c \in Consumers |-> Polling]
  /\ drops = 0
  /\ outages = 0

\* One iteration of poll_once and _handle, a command at a time.
Consume(c) ==
  \/ Claim(c) \/ Read(c)
  \/ Count(c) \/ Dispatch(c) \/ Outcome(c) \/ Record(c)
  \/ Bury(c) \/ Ack(c) \/ Clear(c)

Next == \/ Publish \/ PublishFails
        \/ \E m \in Ids : RunLocally(m) \/ Expire(m)
        \/ \E c \in Consumers : Consume(c) \/ Drop(c)

Spec == Init /\ [][Next]_vars

\* run() keeps polling through errors, time passes, the in-process worker
\* runs.  That a handler returns is assumed of the handlers.
Fairness == /\ \A c \in Consumers : WF_vars(Consume(c))
            /\ \A m \in Ids : WF_vars(Expire(m)) /\ WF_vars(RunLocally(m))

FairSpec == Spec /\ Fairness

-----------------------------------------------------------------------------
(* Properties.                                                             *)

Pcs == {"polling", "reading", "next", "counted", "running", "ran",
        "burying", "acking", "clearing"}

Memory == [pc: Pcs, batch: SUBSET Ids, count: Nat,
           already: SUBSET Handlers, ok: SUBSET Handlers]

\* Every variable keeps its type; a consumer that is not polling has work.
TypeOK ==
  /\ sent \in 0 .. Events
  /\ stream \in SUBSET (1 .. sent)
  /\ cursor \in 0 .. sent
  /\ pending \in SUBSET (1 .. cursor)
  /\ idle \in SUBSET pending
  /\ attempts \in [Ids -> Nat]
  /\ done \in [Ids -> SUBSET Handlers]
  /\ dead \in SUBSET Ids
  /\ effects \in [Ids -> SUBSET Handlers]
  /\ local \in SUBSET (1 .. sent)
  /\ consumer \in [Consumers -> Memory]
  /\ drops \in Nat
  /\ outages \in Nat
  /\ \A c \in Consumers : consumer[c].batch = {} <=>
                            consumer[c].pc \in {"polling", "reading"}

\* The group has delivered m and it is pending no more.
Settled(m) == m \in stream /\ m <= cursor /\ m \notin pending

\* "A message is acknowledged only after every handler for it succeeded", or
\* is in the dead-letter stream: no crash, late claim or second consumer
\* makes the group forget an event whose work is not done.
NothingForgotten == \A m \in Ids :
  Settled(m) => m \in dead \/ effects[m] = Handlers

\* A done key never names a handler that has not done its work: a retry
\* skips nothing that is still owed.
DoneIsDone == \A m \in Ids : done[m] \subseteq effects[m]

\* "A handler that already succeeded for an event is recorded and skipped on
\* redelivery": none that did its work is started again.
SucceededIsSkipped == [][\A c \in Consumers :
  At(c, "counted") /\ consumer'[c].pc = "running"
    => effects[Current(c)] \subseteq consumer'[c].already]_vars

\* Two consumers never run the handlers of one event at the same time.
OneConsumer == \A c1, c2 \in Consumers :
  /\ At(c1, "running")
  /\ At(c2, "running")
  /\ Current(c1) = Current(c2)
  => c1 = c2

\* "A message that is not acknowledged within claim_idle_ms (handler failed, or
\* the consumer died mid-way) is reclaimed": an event whose handlers are all
\* recorded is not dead-lettered by a consumer that came too late.
DeadIsUnfinished == [][\A m \in Ids \ Invalid :
  m \in dead' \ dead => done[m] # Handlers]_vars

\* The consumer has counted an attempt at its current message.
Working(c) ==
  consumer[c].pc \in {"counted", "running", "ran", "burying", "acking", "clearing"}

\* The attempts at m under way that its failure would end.
LastAttempts(m) == {c \in Consumers :
  Working(c) /\ Current(c) = m /\ consumer[c].count >= MaxDeliveries}

\* "After max_deliveries attempts it moves to the dead-letter stream": an event
\* is attempted that often and no more, but for attempts that died under way
\* and those that a late claim lets run beside one another.
AttemptsBounded == \A m \in Ids :
  attempts[m] < MaxDeliveries + drops + Cardinality(LastAttempts(m))

\* At least once: every event in the stream is handled by every handler or
\* dead-lettered, unless it is trimmed first.  An event that keeps failing,
\* a crash or a slow handler does not starve the events behind it.
EventuallyHandled == \A m \in Ids :
  m \in stream ~> \/ effects[m] = Handlers
                  \/ m \in dead
                  \/ m \notin stream

=============================================================================
