------------------------ MODULE EventTransportProofs ------------------------
(***************************************************************************)
(* Proofs about EventTransport for any number of events, consumers and     *)
(* handlers, any batch size, delivery limit and stream length, whatever is *)
(* slow, crashes or fails: a done key names only handlers that did their   *)
(* work, the group forgets an event only when it is handled or dead, and   *)
(* an attempt beyond the limit is one that died or runs beside another.    *)
(***************************************************************************)
EXTENDS EventTransport, FiniteSetTheorems, WellFoundedInduction, TLAPS

-----------------------------------------------------------------------------
(* Sets of event ids.                                                      *)

LEMMA Bounds == Events \in Nat /\ BatchSize \in Nat /\ IsFiniteSet(Ids) /\ Ids \subseteq Nat
<1>1. Events \in Nat /\ BatchSize \in Nat
  BY TransportAssumption DEF TransportAssumption
<1> QED
  BY <1>1, FS_Interval DEF Ids

LEMMA MinExists ==
  ASSUME NEW S \in SUBSET Nat, S # {}
  PROVE  \E m \in S : \A x \in S : m <= x
<1> DEFINE R == OpToRel(<, Nat)
<1>1. \A x, y \in Nat : x < y => <<x, y>> \in R
  BY DEF OpToRel
<1>2. IsWellFoundedOn(R, Nat)
  BY NatLessThanWellFounded
<1> HIDE DEF R
<1>3. \E m \in S : \A x \in S : <<x, m>> \notin R
  BY <1>2, WFMin
<1>4. PICK m \in S : \A x \in S : <<x, m>> \notin R
  BY <1>3
<1>5. ASSUME NEW x \in S PROVE m <= x
  <2>1. x \in Nat /\ m \in Nat /\ ~ (x < m)
    BY <1>1, <1>4
  <2> QED
    BY <2>1
<1> QED
  BY <1>5

LEMMA MaxExists ==
  ASSUME NEW n \in Nat, NEW S \in SUBSET (1 .. n), S # {}
  PROVE  \E m \in S : \A x \in S : x <= m
<1> DEFINE T == {k \in Nat : \A x \in S : x <= k}
<1>1. T \in SUBSET Nat /\ n \in T
  OBVIOUS
<1>2. PICK m \in T : \A k \in T : m <= k
  BY <1>1, MinExists
<1>3. CASE m \in S
  BY <1>2, <1>3
<1>4. CASE m \notin S
  <2>1. PICK x \in S : TRUE
    OBVIOUS
  <2>2. m \in Nat /\ x <= m /\ x >= 1
    BY <1>2, <2>1
  <2>3. m - 1 \in T
    BY <1>2, <1>4, <2>2
  <2> QED
    BY <1>2, <2>2, <2>3
<1> QED
  BY <1>3, <1>4

\* A batch leaves no smaller id behind.
LEMMA FirstIsPrefix ==
  ASSUME NEW S \in SUBSET Ids, NEW k \in Nat, NEW m \in First(k, S),
         NEW x \in S, x <= m
  PROVE  x \in First(k, S)
<1> DEFINE Below(y) == {z \in S : z < y}
<1>1. IsFiniteSet(S)
  BY FS_Subset, Bounds
<1>m. m \in Nat /\ x \in Nat /\ S \subseteq Nat
  BY Bounds DEF First
<1>2. Below(x) \subseteq Below(m) /\ Below(m) \subseteq S
  <2>1. ASSUME NEW z \in S, z < x PROVE z < m
    <3>1. z \in Nat
      BY <1>m
    <3> QED
      BY <1>m, <2>1, <3>1
  <2> QED
    BY <2>1
<1>3. IsFiniteSet(Below(m)) /\ IsFiniteSet(Below(x))
  BY <1>1, <1>2, FS_Subset
<1>4. Cardinality(Below(x)) <= Cardinality(Below(m))
  BY <1>2, <1>3, FS_Subset
<1>5. Cardinality(Below(x)) \in Nat /\ Cardinality(Below(m)) \in Nat
  BY <1>3, FS_CardinalityType
<1>6. Cardinality(Below(m)) < k
  BY DEF First
<1> HIDE DEF Below
<1>7. Cardinality(Below(x)) < k
  BY <1>4, <1>5, <1>6
<1> QED
  BY <1>7 DEF First, Below

\* The message a consumer is handling is one of its batch.
LEMMA CurrentIsMine ==
  ASSUME TypeOK, NEW c \in Consumers, consumer[c].pc \notin {"polling", "reading"}
  PROVE  Current(c) \in consumer[c].batch /\ Current(c) \in Ids
<1>1. consumer[c].batch # {} /\ consumer[c].batch \in SUBSET Ids
  BY DEF TypeOK, Memory
<1>2. \E m \in consumer[c].batch : \A x \in consumer[c].batch : m <= x
  BY <1>1, MinExists, Bounds
<1> QED
  BY <1>1, <1>2 DEF Current

-----------------------------------------------------------------------------
(* Type correctness.                                                       *)

\* A consumer state that is idle without a batch and busy with one.
Legal(x) == /\ x \in Memory
            /\ x.batch = {} <=> x.pc \in {"polling", "reading"}

LEMMA BecomeTypes ==
  ASSUME TypeOK, NEW c \in Consumers, NEW x, Legal(x), Become(c, x)
  PROVE  /\ consumer' \in [Consumers -> Memory]
         /\ \A d \in Consumers : consumer'[d].batch = {} <=>
                                   consumer'[d].pc \in {"polling", "reading"}
BY DEF TypeOK, Become, Legal

LEMMA FetchedLegal ==
  ASSUME NEW batch \in SUBSET Ids, batch # {}
  PROVE  Legal(Fetched(batch))
BY DEF Legal, Fetched, Polling, Memory, Pcs

LEMMA PollingLegal == Legal(Polling) /\ Legal([Polling EXCEPT !.pc = "reading"])
BY DEF Legal, Polling, Memory, Pcs

LEMMA HandledTypes ==
  ASSUME TypeOK, NEW c \in Consumers, Handled(c)
  PROVE  /\ consumer' \in [Consumers -> Memory]
         /\ \A d \in Consumers : consumer'[d].batch = {} <=>
                                   consumer'[d].pc \in {"polling", "reading"}
<1> DEFINE rest == consumer[c].batch \ {Current(c)}
<1>1. rest \in SUBSET Ids
  BY DEF TypeOK, Memory
<1>2. Legal(IF rest = {} THEN Polling ELSE Fetched(rest))
  BY <1>1, FetchedLegal, PollingLegal
<1>3. Become(c, IF rest = {} THEN Polling ELSE Fetched(rest))
  BY DEF Handled
<1> HIDE DEF rest
<1> QED
  BY <1>2, <1>3, BecomeTypes

LEMMA GotoTypes ==
  ASSUME TypeOK, NEW c \in Consumers, NEW pc \in Pcs, Goto(c, pc),
         consumer[c].pc \notin {"polling", "reading"}, pc \notin {"polling", "reading"}
  PROVE  /\ consumer' \in [Consumers -> Memory]
         /\ \A d \in Consumers : consumer'[d].batch = {} <=>
                                   consumer'[d].pc \in {"polling", "reading"}
<1>1. Legal([consumer[c] EXCEPT !.pc = pc])
  BY DEF TypeOK, Legal, Memory
<1> QED
  BY <1>1, BecomeTypes DEF Goto

LEMMA InitTypes == Init => TypeOK
BY Bounds DEF Init, TypeOK, Polling, Memory, Pcs

\* Only entries of published events are in the stream.
LEMMA AppendedTypes ==
  ASSUME TypeOK, sent < Events, NEW s \in Appended(sent + 1)
  PROVE  s \in SUBSET (1 .. (sent + 1))
<1>1. sent \in Nat /\ stream \subseteq 1 .. sent
  BY Bounds DEF TypeOK
<1>2. stream \cup {sent + 1} \subseteq 1 .. (sent + 1)
  BY <1>1
<1>3. s \subseteq stream \cup {sent + 1}
  BY DEF Appended
<1> QED
  BY <1>2, <1>3

LEMMA ProducerTypes ==
  ASSUME TypeOK, \/ Publish \/ PublishFails \/ \E m \in Ids : RunLocally(m) \/ Expire(m)
  PROVE  TypeOK'
<1>s. sent \in Nat /\ cursor \in Nat /\ Events \in Nat
  BY Bounds DEF TypeOK
<1>1. CASE Publish
  <2>1. stream' \in SUBSET (1 .. sent')
    BY <1>1, AppendedTypes DEF Publish
  <2>2. sent' \in 0 .. Events /\ cursor' \in 0 .. sent' /\ local' \in SUBSET (1 .. sent')
    BY <1>1, <1>s DEF Publish, TypeOK
  <2> QED
    BY <1>1, <2>1, <2>2 DEF Publish, TypeOK
<1>2. CASE PublishFails
  <2>1. stream' \in SUBSET (1 .. sent')
    <3>1. stream \in SUBSET (1 .. (sent + 1))
      BY <1>s DEF TypeOK
    <3> QED
      BY <1>2, <3>1, AppendedTypes DEF PublishFails
  <2>2. sent' \in 0 .. Events /\ cursor' \in 0 .. sent' /\ local' \in SUBSET (1 .. sent')
    BY <1>2, <1>s DEF PublishFails, TypeOK
  <2>3. outages' \in Nat
    BY <1>2 DEF PublishFails, TypeOK
  <2> QED
    BY <1>2, <2>1, <2>2, <2>3 DEF PublishFails, TypeOK
<1>3. ASSUME NEW m \in Ids, RunLocally(m) PROVE TypeOK'
  BY <1>3 DEF RunLocally, TypeOK, redis
<1>4. ASSUME NEW m \in Ids, Expire(m) PROVE TypeOK'
  BY <1>4 DEF Expire, TypeOK, producer
<1> QED
  BY <1>1, <1>2, <1>3, <1>4

LEMMA ClaimTypes ==
  ASSUME TypeOK, NEW c \in Consumers, Claim(c)
  PROVE  TypeOK'
<1> DEFINE batch == First(BatchSize, Ripe)
<1>1. batch \subseteq stream /\ stream \subseteq Ids
  BY Bounds DEF First, Ripe, TypeOK, Ids
<1>2. Legal(IF batch = {} THEN [Polling EXCEPT !.pc = "reading"] ELSE Fetched(batch))
  BY <1>1, FetchedLegal, PollingLegal
<1>3. Become(c, IF batch = {} THEN [Polling EXCEPT !.pc = "reading"] ELSE Fetched(batch))
  BY DEF Claim
<1>4. /\ pending' = pending \ (idle \ stream)
      /\ idle' = (idle \cap stream) \ batch
      /\ UNCHANGED <<stream, cursor, attempts, done, dead, effects, producer, drops>>
  BY DEF Claim
<1> HIDE DEF batch
<1> QED
  BY <1>2, <1>3, <1>4, BecomeTypes DEF TypeOK, producer

LEMMA ReadTypes ==
  ASSUME TypeOK, NEW c \in Consumers, Read(c)
  PROVE  TypeOK'
<1> DEFINE batch == First(BatchSize, {m \in stream : m > cursor})
<1>1. /\ batch \subseteq stream /\ stream \subseteq 1 .. sent /\ 1 .. sent \subseteq Ids
      /\ sent \in Nat /\ cursor \in Nat /\ pending \subseteq 1 .. cursor
      /\ \A m \in batch : m > cursor
  BY Bounds DEF First, TypeOK, Ids
<1>2. CASE batch = {}
  <2>1. Become(c, Polling) /\ UNCHANGED <<cursor, pending>>
    BY <1>2 DEF Read
  <2> QED
    BY <2>1, BecomeTypes, PollingLegal DEF Read, TypeOK, producer
<1>3. CASE batch # {}
  <2>1. /\ Become(c, Fetched(batch))
        /\ cursor' = CHOOSE m \in batch : \A x \in batch : x <= m
        /\ pending' = pending \cup batch
    BY <1>3 DEF Read
  <2>2. \E m \in batch : \A x \in batch : x <= m
    BY <1>1, <1>3, MaxExists
  <2> HIDE DEF batch
  <2>3. cursor' \in batch /\ \A x \in batch : x <= cursor'
    BY <2>1, <2>2
  <2>4. cursor' \in 1 .. sent /\ cursor < cursor'
    BY <1>1, <2>3
  <2>5. pending' \in SUBSET (1 .. cursor')
    <3>1. ASSUME NEW x \in pending' PROVE x \in 1 .. cursor'
      <4>1. CASE x \in pending
        <5>1. x \in 1 .. cursor /\ cursor' \in Nat
          BY <1>1, <2>4, <4>1
        <5> QED
          BY <1>1, <2>4, <5>1
      <4>2. CASE x \in batch
        <5>1. x \in 1 .. sent /\ x <= cursor'
          BY <1>1, <2>3, <4>2
        <5> QED
          BY <2>4, <5>1
      <4> QED
        BY <2>1, <3>1, <4>1, <4>2
    <3> QED
      BY <3>1
  <2>6. Legal(Fetched(batch))
    BY <1>1, <1>3, FetchedLegal
  <2> QED
    BY <1>1, <2>1, <2>4, <2>5, <2>6, BecomeTypes DEF Read, TypeOK, producer
<1> QED
  BY <1>2, <1>3

LEMMA HandleTypes ==
  ASSUME TypeOK, NEW c \in Consumers,
         \/ Count(c) \/ Dispatch(c) \/ Outcome(c) \/ Record(c)
         \/ Bury(c) \/ Ack(c) \/ Clear(c) \/ Drop(c)
  PROVE  TypeOK'
<1> DEFINE m == Current(c)
<1>m. ASSUME consumer[c].pc \notin {"polling", "reading"} PROVE m \in Ids
  BY <1>m, CurrentIsMine
<1>c. consumer[c] \in Memory
  BY DEF TypeOK
<1>1. CASE Count(c)
  <2>1. m \in Ids /\ attempts[m] + 1 \in Nat
    BY <1>1, <1>m DEF Count, At, TypeOK
  <2>2. Legal([consumer[c] EXCEPT
                 !.pc = IF m \in Invalid THEN "burying" ELSE "counted",
                 !.count = attempts[m] + 1])
    BY <1>1, <1>c, <2>1 DEF Count, At, Legal, Memory, Pcs, TypeOK
  <2> QED
    BY <1>1, <2>1, <2>2, BecomeTypes DEF Count, TypeOK, producer
<1>2. CASE Dispatch(c)
  <2>1. m \in Ids /\ done[m] \in SUBSET Handlers
    BY <1>2, <1>m DEF Dispatch, At, TypeOK
  <2>2. Legal([consumer[c] EXCEPT !.pc = "running", !.already = Recorded(m)])
    BY <1>2, <1>c, <2>1 DEF Dispatch, At, Legal, Memory, Pcs, TypeOK, Recorded
  <2> QED
    BY <1>2, <2>2, BecomeTypes DEF Dispatch, TypeOK, producer, redis
<1>3. CASE Outcome(c)
  <2>1. m \in Ids
    BY <1>3, <1>m DEF Outcome, At
  <2>2. PICK ok \in SUBSET Todo(c) :
          /\ Become(c, [consumer[c] EXCEPT !.pc = "ran", !.ok = ok])
          /\ effects' = [effects EXCEPT ![m] = @ \cup ok]
    BY <1>3 DEF Outcome
  <2>3. ok \subseteq Handlers
    BY <2>2 DEF Todo
  <2>4. Legal([consumer[c] EXCEPT !.pc = "ran", !.ok = ok])
    BY <1>3, <1>c, <2>3 DEF Outcome, At, Legal, Memory, Pcs, TypeOK
  <2> QED
    BY <1>3, <2>1, <2>2, <2>3, <2>4, BecomeTypes DEF Outcome, TypeOK, producer, redis
<1>4. CASE Record(c)
  <2>1. m \in Ids /\ consumer[c].ok \subseteq Handlers /\ At(c, "ran")
    BY <1>4, <1>c, <1>m DEF Record, At, Memory
  <2>2. /\ consumer' \in [Consumers -> Memory]
        /\ \A d \in Consumers : consumer'[d].batch = {} <=>
                                  consumer'[d].pc \in {"polling", "reading"}
    <3>1. CASE Verdict(c) = "failed"
      BY <1>4, <3>1, HandledTypes DEF Record
    <3>2. CASE Verdict(c) # "failed"
      <4>1. Verdict(c) \in {"acking", "burying"} /\ Goto(c, Verdict(c))
        BY <1>4, <3>2 DEF Record, Verdict
      <4> QED
        BY <2>1, <4>1, GotoTypes DEF At, Pcs
    <3> QED
      BY <3>1, <3>2
  <2> QED
    BY <1>4, <2>1, <2>2 DEF Record, TypeOK, producer
<1>5. CASE Bury(c)
  <2>1. m \in Ids
    BY <1>5, <1>m DEF Bury, At
  <2>2. /\ consumer' \in [Consumers -> Memory]
        /\ \A d \in Consumers : consumer'[d].batch = {} <=>
                                  consumer'[d].pc \in {"polling", "reading"}
    BY <1>5, GotoTypes DEF Bury, At, Pcs
  <2> QED
    BY <1>5, <2>1, <2>2 DEF Bury, TypeOK, producer
<1>6. CASE Ack(c)
  <2>2. /\ consumer' \in [Consumers -> Memory]
        /\ \A d \in Consumers : consumer'[d].batch = {} <=>
                                  consumer'[d].pc \in {"polling", "reading"}
    BY <1>6, GotoTypes DEF Ack, At, Pcs
  <2> QED
    BY <1>6, <2>2 DEF Ack, TypeOK, producer
<1>7. CASE Clear(c)
  BY <1>7, HandledTypes DEF Clear, TypeOK, producer
<1>8. CASE Drop(c)
  <2>1. consumer[c].pc \notin {"polling", "reading"}
    BY <1>8 DEF Drop, TypeOK
  <2>2. PICK ok \in SUBSET (IF At(c, "running") THEN Todo(c) ELSE {}) :
          effects' = [effects EXCEPT ![m] = @ \cup ok]
    BY <1>8 DEF Drop
  <2>3. m \in Ids /\ ok \subseteq Handlers
    BY <1>m, <2>1, <2>2 DEF Todo
  <2> QED
    BY <1>8, <2>2, <2>3, BecomeTypes, PollingLegal DEF Drop, TypeOK, redis, producer
<1> QED
  BY <1>1, <1>2, <1>3, <1>4, <1>5, <1>6, <1>7, <1>8

LEMMA NextTypes == TypeOK /\ [Next]_vars => TypeOK'
<1> SUFFICES ASSUME TypeOK, [Next]_vars PROVE TypeOK'
  OBVIOUS
<1>1. CASE UNCHANGED vars
  BY <1>1 DEF vars, TypeOK, redis, producer
<1>2. CASE Publish \/ PublishFails \/ \E m \in Ids : RunLocally(m) \/ Expire(m)
  BY <1>2, ProducerTypes
<1>3. ASSUME NEW c \in Consumers, Consume(c) \/ Drop(c) PROVE TypeOK'
  BY <1>3, ClaimTypes, ReadTypes, HandleTypes DEF Consume
<1> QED
  BY <1>1, <1>2, <1>3 DEF Next

\* Every variable keeps its type in every reachable state.
THEOREM TypeCorrect == Spec => []TypeOK
BY InitTypes, NextTypes, PTL DEF Spec

-----------------------------------------------------------------------------
(* Delivery.                                                               *)

\* What a consumer remembers of its current message is true of it: recorded
\* handlers are recorded, succeeded ones did their work, and it acknowledges
\* only what is handled or dead.
Knows(c) ==
  LET m == Current(c)
  IN  /\ consumer[c].pc \in {"running", "ran"} => consumer[c].already \subseteq done[m]
      /\ At(c, "ran") => consumer[c].ok \subseteq effects[m]
      /\ At(c, "acking") => m \in dead \/ effects[m] = Handlers

DeliveryInv == /\ TypeOK
               /\ DoneIsDone
               /\ NothingForgotten
               /\ \A c \in Consumers : Knows(c)

\* Nothing that happened to an event is taken back.
Grows == \A m \in Ids : /\ done[m] \subseteq done'[m]
                        /\ effects[m] \subseteq effects'[m]
                        /\ m \in dead => m \in dead'

\* What the consumers other than c know stays true.
LEMMA OthersKnow ==
  ASSUME DeliveryInv, TypeOK', Grows, NEW d \in Consumers, consumer'[d] = consumer[d]
  PROVE  Knows(d)'
<1>1. CASE consumer[d].pc \in {"polling", "reading"}
  BY <1>1 DEF Knows, At
<1>2. CASE consumer[d].pc \notin {"polling", "reading"}
  <2>1. Current(d) \in Ids /\ Current(d)' = Current(d)
    BY <1>2, CurrentIsMine DEF DeliveryInv, Current
  <2>2. effects'[Current(d)] \subseteq Handlers
    BY <2>1 DEF TypeOK
  <2>3. Knows(d)
    BY DEF DeliveryInv
  <2> QED
    BY <2>1, <2>2, <2>3 DEF Knows, At, Grows
<1> QED
  BY <1>1, <1>2

\* A settled event stays handled or dead.
LEMMA StaysSettled ==
  ASSUME DeliveryInv, TypeOK', Grows, NEW m \in Ids, Settled(m)
  PROVE  m \in dead' \/ effects'[m] = Handlers
<1>1. m \in dead \/ effects[m] = Handlers
  BY DEF DeliveryInv, NothingForgotten
<1>2. effects'[m] \subseteq Handlers
  BY DEF TypeOK
<1> QED
  BY <1>1, <1>2 DEF Grows

\* Steps that leave what happened to the events, and every batch, alone.
LEMMA ProducerDelivers ==
  ASSUME DeliveryInv, TypeOK',
         \/ Publish \/ PublishFails \/ \E m \in Ids : RunLocally(m) \/ Expire(m)
  PROVE  DeliveryInv'
<1>s. /\ sent \in Nat /\ cursor \in Nat /\ cursor <= sent
      /\ effects \in [Ids -> SUBSET Handlers]
  BY Bounds DEF DeliveryInv, TypeOK
<1>1. Grows /\ consumer' = consumer /\ cursor' = cursor /\ pending' = pending /\ done' = done
  <2>1. CASE Publish \/ PublishFails
    BY <2>1 DEF Publish, PublishFails, Grows
  <2>2. ASSUME NEW m \in Ids, RunLocally(m)
        PROVE  Grows /\ consumer' = consumer /\ cursor' = cursor /\ pending' = pending /\ done' = done
    BY <1>s, <2>2 DEF RunLocally, Grows, redis
  <2>3. ASSUME NEW m \in Ids, Expire(m)
        PROVE  Grows /\ consumer' = consumer /\ cursor' = cursor /\ pending' = pending /\ done' = done
    BY <2>3 DEF Expire, Grows
  <2> QED
    BY <2>1, <2>2, <2>3
<1>2. \A m \in stream' : m \in stream \/ m > cursor
  <2>1. CASE Publish \/ PublishFails
    <3>1. stream' \subseteq stream \cup {sent + 1}
      BY <2>1 DEF Publish, PublishFails, Appended
    <3> QED
      BY <1>s, <3>1
  <2>2. CASE ~ (Publish \/ PublishFails)
    BY <2>2 DEF RunLocally, Expire, redis
  <2> QED
    BY <2>1, <2>2
<1>3. NothingForgotten'
  <2>1. ASSUME NEW m \in Ids, Settled(m)' PROVE m \in dead' \/ effects'[m] = Handlers
    <3>1. Settled(m)
      BY <1>1, <1>2, <1>s, <2>1, Bounds DEF Settled
    <3> QED
      BY <1>1, <3>1, StaysSettled
  <2> QED
    BY <2>1 DEF NothingForgotten
<1>4. DoneIsDone'
  BY <1>1 DEF DeliveryInv, DoneIsDone, Grows
<1>5. \A c \in Consumers : Knows(c)'
  BY <1>1, OthersKnow
<1> QED
  BY <1>3, <1>4, <1>5 DEF DeliveryInv

\* A claim forgets only trimmed entries.
LEMMA ClaimDelivers ==
  ASSUME DeliveryInv, TypeOK', NEW c \in Consumers, Claim(c)
  PROVE  DeliveryInv'
<1> DEFINE next == IF First(BatchSize, Ripe) = {} THEN [Polling EXCEPT !.pc = "reading"]
                   ELSE Fetched(First(BatchSize, Ripe))
<1>1. next.pc \in {"reading", "next"}
  BY DEF Polling, Fetched
<1>2. /\ consumer' = [consumer EXCEPT ![c] = next] /\ DOMAIN consumer = Consumers
      /\ stream' = stream /\ cursor' = cursor /\ pending' = pending \ (idle \ stream)
      /\ UNCHANGED <<done, effects, dead>>
  BY DEF Claim, Become, DeliveryInv, TypeOK
<1> HIDE DEF next
<1>3. Grows
  BY <1>2 DEF Grows
<1>4. NothingForgotten'
  BY <1>2 DEF DeliveryInv, NothingForgotten, Settled
<1>5. ASSUME NEW d \in Consumers PROVE Knows(d)'
  <2>1. CASE d = c
    BY <1>1, <1>2, <2>1 DEF Knows, At
  <2>2. CASE d # c
    BY <1>2, <1>3, <2>2, OthersKnow
  <2> QED
    BY <2>1, <2>2
<1> QED
  BY <1>2, <1>4, <1>5 DEF DeliveryInv, DoneIsDone

\* A read moves the cursor over nothing it does not take.
LEMMA ReadDelivers ==
  ASSUME DeliveryInv, TypeOK', NEW c \in Consumers, Read(c)
  PROVE  DeliveryInv'
<1> DEFINE fresh == {m \in stream : m > cursor}
           batch == First(BatchSize, fresh)
           next == IF batch = {} THEN Polling ELSE Fetched(batch)
<1>1. next.pc \in {"polling", "next"}
  BY DEF Polling, Fetched
<1>2. /\ consumer' = [consumer EXCEPT ![c] = next] /\ DOMAIN consumer = Consumers
      /\ stream' = stream
      /\ UNCHANGED <<done, effects, dead>>
  BY DEF Read, Become, DeliveryInv, TypeOK
<1>3. Grows
  BY <1>2 DEF Grows
<1>4. ASSUME NEW m \in Ids, Settled(m)' PROVE Settled(m)
  <2>1. CASE batch = {}
    BY <1>4, <2>1 DEF Read, Settled
  <2>2. CASE batch # {}
    <3>1. /\ cursor' = CHOOSE x \in batch : \A y \in batch : y <= x
          /\ pending' = pending \cup batch
      BY <2>2 DEF Read
    <3>2. fresh \in SUBSET Ids /\ batch \subseteq 1 .. Events /\ Events \in Nat
      <4>1. stream \subseteq 1 .. sent /\ sent \in 0 .. Events /\ Events \in Nat
        BY Bounds DEF DeliveryInv, TypeOK
      <4>2. stream \subseteq 1 .. Events
        BY <4>1
      <4>3. batch \subseteq stream
        BY DEF First
      <4> QED
        BY <4>1, <4>2, <4>3 DEF Ids
    <3>3. \E x \in batch : \A y \in batch : y <= x
      BY <2>2, <3>2, MaxExists
    <3>4. cursor' \in batch
      BY <3>1, <3>3
    <3>5. m \in stream /\ m <= cursor' /\ m \notin pending /\ m \notin batch
      BY <1>2, <1>4, <3>1 DEF Settled
    <3>6. m \notin fresh
      BY <3>2, <3>4, <3>5, Bounds, FirstIsPrefix
    <3> QED
      BY <3>5, <3>6, Bounds DEF Settled, DeliveryInv, TypeOK
  <2> QED
    BY <2>1, <2>2
<1> HIDE DEF next
<1>5. NothingForgotten'
  BY <1>2, <1>4 DEF DeliveryInv, NothingForgotten
<1>6. ASSUME NEW d \in Consumers PROVE Knows(d)'
  <2>1. CASE d = c
    BY <1>1, <1>2, <2>1 DEF Knows, At
  <2>2. CASE d # c
    BY <1>2, <1>3, <2>2, OthersKnow
  <2> QED
    BY <2>1, <2>2
<1> QED
  BY <1>2, <1>5, <1>6 DEF DeliveryInv, DoneIsDone

\* Steps of _handle before and after the acknowledgement: the group's own
\* state does not change, so it is enough that c knows what it does next.
LEMMA HandleDelivers ==
  ASSUME DeliveryInv, TypeOK', Grows, NEW c \in Consumers,
         UNCHANGED <<stream, cursor, pending>>,
         \A d \in Consumers \ {c} : consumer'[d] = consumer[d],
         DoneIsDone', Knows(c)'
  PROVE  DeliveryInv'
<1>1. NothingForgotten'
  <2>1. ASSUME NEW m \in Ids, Settled(m)' PROVE m \in dead' \/ effects'[m] = Handlers
    <3>1. Settled(m)
      BY <2>1 DEF Settled
    <3> QED
      BY <3>1, StaysSettled
  <2> QED
    BY <2>1 DEF NothingForgotten
<1>2. ASSUME NEW d \in Consumers PROVE Knows(d)'
  BY OthersKnow
<1> QED
  BY <1>1, <1>2 DEF DeliveryInv

\* A step after which c polls or has its next message ahead of it.
LEMMA HandledKnows ==
  ASSUME NEW c \in Consumers, consumer'[c].pc \in {"polling", "next", "counted", "burying", "clearing"}
  PROVE  Knows(c)'
BY DEF Knows, At

LEMMA HandledPc ==
  ASSUME TypeOK, NEW c \in Consumers, Handled(c)
  PROVE  /\ consumer'[c].pc \in {"polling", "next"}
         /\ \A d \in Consumers \ {c} : consumer'[d] = consumer[d]
<1> DEFINE rest == consumer[c].batch \ {Current(c)}
           next == IF rest = {} THEN Polling ELSE Fetched(rest)
<1>1. next.pc \in {"polling", "next"}
  BY DEF Polling, Fetched
<1>2. consumer' = [consumer EXCEPT ![c] = next] /\ DOMAIN consumer = Consumers
  BY DEF Handled, Become, TypeOK
<1> HIDE DEF next
<1> QED
  BY <1>1, <1>2

\* Handled removes the current message from the batch.
LEMMA HandledShrinks ==
  ASSUME TypeOK, NEW c \in Consumers, Handled(c)
  PROVE  consumer'[c].batch \subseteq consumer[c].batch
<1> DEFINE rest == consumer[c].batch \ {Current(c)}
           next == IF rest = {} THEN Polling ELSE Fetched(rest)
<1>1. next.batch = rest
  BY DEF Polling, Fetched
<1>2. consumer' = [consumer EXCEPT ![c] = next] /\ DOMAIN consumer = Consumers
  BY DEF Handled, Become, TypeOK
<1> HIDE DEF next
<1> QED
  BY <1>1, <1>2

LEMMA WorkDelivers ==
  ASSUME DeliveryInv, TypeOK', NEW c \in Consumers,
         \/ Count(c) \/ Dispatch(c) \/ Outcome(c) \/ Record(c)
         \/ Bury(c) \/ Clear(c) \/ Drop(c)
  PROVE  DeliveryInv'
<1> DEFINE m == Current(c)
<1>t. /\ TypeOK /\ DoneIsDone /\ Knows(c)
      /\ consumer[c] \in Memory /\ DOMAIN consumer = Consumers
  BY DEF DeliveryInv, TypeOK
<1>m. ASSUME consumer[c].pc \notin {"polling", "reading"} PROVE m \in Ids
  BY <1>m, <1>t, CurrentIsMine
<1>1. CASE Count(c)
  <2>1. /\ consumer'[c].pc \in {"counted", "burying"}
        /\ \A d \in Consumers \ {c} : consumer'[d] = consumer[d]
    BY <1>1, <1>t DEF Count, Become, Memory
  <2>2. UNCHANGED <<stream, cursor, pending, done, dead, effects>>
    BY <1>1 DEF Count
  <2>3. Grows /\ DoneIsDone'
    BY <1>t, <2>2 DEF Grows, DoneIsDone
  <2> QED
    BY <2>1, <2>2, <2>3, HandledKnows, HandleDelivers
<1>2. CASE Dispatch(c)
  <2>1. /\ consumer'[c] = [consumer[c] EXCEPT !.pc = "running", !.already = done[m]]
        /\ \A d \in Consumers \ {c} : consumer'[d] = consumer[d]
    BY <1>2, <1>t DEF Dispatch, Become, Recorded
  <2>2. UNCHANGED <<stream, cursor, pending, done, dead, effects>>
    BY <1>2 DEF Dispatch, redis
  <2>3. Grows /\ DoneIsDone'
    BY <1>t, <2>2 DEF Grows, DoneIsDone
  <2>4. /\ consumer'[c].pc = "running" /\ consumer'[c].already = done[m]
        /\ consumer'[c].batch = consumer[c].batch
    BY <1>t, <2>1 DEF Memory
  <2>5. Knows(c)'
    BY <2>2, <2>4 DEF Knows, At, Current
  <2> QED
    BY <2>1, <2>2, <2>3, <2>5, HandleDelivers
<1>3. CASE Outcome(c)
  <2>0. m \in Ids
    BY <1>3, <1>m DEF Outcome, At
  <2>1. PICK ok \in SUBSET Todo(c) :
          /\ Become(c, [consumer[c] EXCEPT !.pc = "ran", !.ok = ok])
          /\ effects' = [effects EXCEPT ![m] = @ \cup ok]
    BY <1>3 DEF Outcome
  <2>2. UNCHANGED <<stream, cursor, pending, done, dead>>
    BY <1>3 DEF Outcome, redis
  <2>3. \A d \in Consumers \ {c} : consumer'[d] = consumer[d]
    BY <1>t, <2>1 DEF Become
  <2>4. /\ consumer'[c].pc = "ran" /\ consumer'[c].ok = ok
        /\ consumer'[c].already = consumer[c].already
        /\ consumer'[c].batch = consumer[c].batch
    BY <1>t, <2>1 DEF Become, Memory
  <2>5. Grows /\ DoneIsDone' /\ ok \subseteq effects'[m]
    BY <1>t, <2>0, <2>1, <2>2 DEF Grows, DoneIsDone, TypeOK
  <2>6. Knows(c)'
    BY <1>3, <1>t, <2>2, <2>4, <2>5 DEF Knows, At, Current, Outcome
  <2> QED
    BY <2>2, <2>3, <2>5, <2>6, HandleDelivers
<1>4. CASE Record(c)
  <2>0. m \in Ids /\ consumer[c].ok \subseteq effects[m]
    BY <1>4, <1>m, <1>t DEF Record, At, Knows
  <2>1. /\ done' = [done EXCEPT ![m] = @ \cup consumer[c].ok]
        /\ UNCHANGED <<stream, cursor, pending, dead, effects>>
    BY <1>4 DEF Record
  <2>2. Grows /\ DoneIsDone'
    BY <1>t, <2>0, <2>1 DEF Grows, DoneIsDone, TypeOK
  <2>3. CASE Verdict(c) = "failed"
    BY <1>4, <1>t, <2>1, <2>2, <2>3, HandledPc, HandledKnows, HandleDelivers DEF Record
  <2>4. CASE Verdict(c) # "failed"
    <3>1. Verdict(c) \in {"acking", "burying"} /\ Goto(c, Verdict(c))
      BY <1>4, <2>4 DEF Record, Verdict
    <3>2. /\ consumer'[c].pc = Verdict(c) /\ consumer'[c].batch = consumer[c].batch
          /\ \A d \in Consumers \ {c} : consumer'[d] = consumer[d]
      BY <1>t, <3>1 DEF Goto, Become, Memory
    <3>3. Verdict(c) = "acking" => effects[m] = Handlers
      <4>1. consumer[c].already \subseteq effects[m] /\ effects[m] \subseteq Handlers
        BY <1>4, <1>t, <2>0 DEF Record, At, Knows, DoneIsDone, TypeOK
      <4>2. ASSUME Failed(c) = {} PROVE Handlers \subseteq effects[m]
        BY <2>0, <4>1, <4>2 DEF Failed
      <4>3. Verdict(c) = "acking" => Failed(c) = {}
        BY DEF Verdict
      <4> QED
        BY <4>1, <4>2, <4>3
    <3>4. Knows(c)'
      BY <2>1, <3>1, <3>2, <3>3 DEF Knows, At, Current
    <3> QED
      BY <2>1, <2>2, <3>2, <3>4, HandleDelivers
  <2> QED
    BY <2>3, <2>4
<1>5. CASE Bury(c)
  <2>0. m \in Ids
    BY <1>5, <1>m DEF Bury, At
  <2>1. /\ dead' = dead \cup {m}
        /\ Goto(c, "acking")
        /\ UNCHANGED <<stream, cursor, pending, done, effects>>
    BY <1>5 DEF Bury
  <2>2. /\ consumer'[c].pc = "acking" /\ consumer'[c].batch = consumer[c].batch
        /\ \A d \in Consumers \ {c} : consumer'[d] = consumer[d]
    BY <1>t, <2>1 DEF Goto, Become, Memory
  <2>3. Grows /\ DoneIsDone' /\ m \in dead'
    BY <1>t, <2>0, <2>1 DEF Grows, DoneIsDone, TypeOK
  <2>4. Knows(c)'
    BY <2>2, <2>3 DEF Knows, At, Current
  <2> QED
    BY <2>1, <2>2, <2>3, <2>4, HandleDelivers
<1>6. CASE Clear(c)
  <2>1. UNCHANGED <<stream, cursor, pending, done, dead, effects>> /\ Handled(c)
    BY <1>6 DEF Clear
  <2>2. Grows /\ DoneIsDone'
    BY <1>t, <2>1 DEF Grows, DoneIsDone
  <2> QED
    BY <1>t, <2>1, <2>2, HandledPc, HandledKnows, HandleDelivers
<1>7. CASE Drop(c)
  <2>0. m \in Ids
    BY <1>7, <1>m, <1>t DEF Drop, TypeOK
  <2>1. PICK ok : effects' = [effects EXCEPT ![m] = @ \cup ok]
    BY <1>7 DEF Drop
  <2>2. UNCHANGED <<stream, cursor, pending, done, dead>>
    BY <1>7 DEF Drop, redis
  <2>3. /\ consumer'[c].pc = "polling"
        /\ \A d \in Consumers \ {c} : consumer'[d] = consumer[d]
    BY <1>7, <1>t DEF Drop, Become, Polling
  <2>4. Grows /\ DoneIsDone'
    BY <1>t, <2>0, <2>1, <2>2 DEF Grows, DoneIsDone, TypeOK
  <2> QED
    BY <2>2, <2>3, <2>4, HandledKnows, HandleDelivers
<1> QED
  BY <1>1, <1>2, <1>3, <1>4, <1>5, <1>6, <1>7

\* Only what is handled or dead is acknowledged.
LEMMA AckDelivers ==
  ASSUME DeliveryInv, TypeOK', NEW c \in Consumers, Ack(c)
  PROVE  DeliveryInv'
<1> DEFINE m == Current(c)
<1>t. /\ TypeOK /\ DoneIsDone /\ Knows(c)
      /\ consumer[c] \in Memory /\ DOMAIN consumer = Consumers
  BY DEF DeliveryInv, TypeOK
<1>1. m \in dead \/ effects[m] = Handlers
  BY <1>t DEF Ack, At, Knows
<1>2. /\ pending' = pending \ {m} /\ Goto(c, "clearing")
      /\ UNCHANGED <<stream, cursor, done, dead, effects>>
  BY DEF Ack
<1>3. /\ consumer'[c].pc = "clearing"
      /\ \A d \in Consumers \ {c} : consumer'[d] = consumer[d]
  BY <1>t, <1>2 DEF Goto, Become, Memory
<1>4. Grows /\ DoneIsDone'
  BY <1>t, <1>2 DEF Grows, DoneIsDone
<1>5. NothingForgotten'
  <2>1. ASSUME NEW x \in Ids, Settled(x)' PROVE x = m \/ Settled(x)
    BY <1>2, <2>1 DEF Settled
  <2> QED
    BY <1>1, <1>2, <2>1 DEF NothingForgotten, DeliveryInv
<1>6. ASSUME NEW d \in Consumers PROVE Knows(d)'
  BY <1>3, <1>4, HandledKnows, OthersKnow
<1> QED
  BY <1>4, <1>5, <1>6 DEF DeliveryInv

LEMMA InitDelivery == Init => DeliveryInv
<1> SUFFICES ASSUME Init PROVE DeliveryInv
  OBVIOUS
<1>1. \A c \in Consumers : consumer[c].pc = "polling"
  BY DEF Init, Polling
<1> QED
  BY <1>1, InitTypes DEF Init, DeliveryInv, DoneIsDone, NothingForgotten, Settled, Knows, At

LEMMA NextDelivery == DeliveryInv /\ [Next]_vars => DeliveryInv'
<1> SUFFICES ASSUME DeliveryInv, [Next]_vars PROVE DeliveryInv'
  OBVIOUS
<1>t. TypeOK'
  BY NextTypes DEF DeliveryInv
<1>1. CASE UNCHANGED vars
  <2>1. Grows /\ consumer' = consumer
        /\ UNCHANGED <<stream, cursor, pending, done, dead, effects>>
    BY <1>1 DEF vars, redis, producer, Grows
  <2>2. \A c \in Consumers : Knows(c)'
    BY <1>t, <2>1, OthersKnow
  <2> QED
    BY <1>t, <2>1, <2>2 DEF DeliveryInv, DoneIsDone, NothingForgotten, Settled
<1>2. CASE Publish \/ PublishFails \/ \E m \in Ids : RunLocally(m) \/ Expire(m)
  BY <1>2, <1>t, ProducerDelivers
<1>3. ASSUME NEW c \in Consumers, Consume(c) \/ Drop(c) PROVE DeliveryInv'
  BY <1>3, <1>t, ClaimDelivers, ReadDelivers, WorkDelivers, AckDelivers DEF Consume
<1> QED
  BY <1>1, <1>2, <1>3 DEF Next

\* The invariant that carries at-least-once delivery holds throughout.
THEOREM DeliveryInvariant == Spec => []DeliveryInv
BY InitDelivery, NextDelivery, PTL DEF Spec

\* A message is acknowledged only after every handler for it succeeded, or it
\* is in the dead-letter stream (RedisStreamTransport._handle).
THEOREM Delivered == Spec => []NothingForgotten
<1>1. DeliveryInv => NothingForgotten
  BY DEF DeliveryInv
<1> QED
  BY <1>1, DeliveryInvariant, PTL

\* A done key names only handlers that did their work.
THEOREM RecordsAreTrue == Spec => []DoneIsDone
<1>1. DeliveryInv => DoneIsDone
  BY DEF DeliveryInv
<1> QED
  BY <1>1, DeliveryInvariant, PTL

-----------------------------------------------------------------------------
(* Attempts.                                                               *)

BoundedInv == TypeOK /\ AttemptsBounded

LEMMA LastFacts ==
  ASSUME NEW m \in Ids
  PROVE  /\ IsFiniteSet(LastAttempts(m)) /\ Cardinality(LastAttempts(m)) \in Nat
         /\ IsFiniteSet(LastAttempts(m)') /\ Cardinality(LastAttempts(m)') \in Nat
<1>1. IsFiniteSet(Consumers)
  BY TransportAssumption DEF TransportAssumption
<1>2. LastAttempts(m) \subseteq Consumers /\ LastAttempts(m)' \subseteq Consumers
  BY DEF LastAttempts
<1> QED
  BY <1>1, <1>2, FS_Subset, FS_CardinalityType

\* Nothing is counted for m, and who is at a last attempt stays there.
Goes(m) == /\ attempts'[m] = attempts[m] /\ drops' = drops
           /\ LastAttempts(m) \subseteq LastAttempts(m)'

\* An attempt at m is counted, and one at the limit is c's.
Counts(m, c) ==
  /\ attempts'[m] = attempts[m] + 1 /\ drops' = drops
  /\ LastAttempts(m) \subseteq LastAttempts(m)'
  /\ attempts'[m] < MaxDeliveries \/ c \in LastAttempts(m)' \ LastAttempts(m)

\* An attempt of c dies.
Dies(m, c) == /\ attempts'[m] = attempts[m] /\ drops' = drops + 1
              /\ LastAttempts(m) \ {c} \subseteq LastAttempts(m)'

LEMMA StaysBounded ==
  ASSUME BoundedInv, TypeOK', NEW m \in Ids, NEW c \in Consumers,
         Goes(m) \/ Counts(m, c) \/ Dies(m, c) \/ (attempts'[m] = 0 /\ drops' = drops)
  PROVE  attempts'[m] < MaxDeliveries + drops' + Cardinality(LastAttempts(m)')
<1> DEFINE L == LastAttempts(m)
           Later == LastAttempts(m)'
<1>1. /\ attempts[m] \in Nat /\ drops \in Nat /\ MaxDeliveries \in Nat \ {0}
      /\ attempts[m] < MaxDeliveries + drops + Cardinality(L)
  BY TransportAssumption DEF TransportAssumption, BoundedInv, TypeOK, AttemptsBounded
<1>2. /\ IsFiniteSet(L) /\ Cardinality(L) \in Nat
      /\ IsFiniteSet(Later) /\ Cardinality(Later) \in Nat
  BY LastFacts
<1>3. L \subseteq Later => Cardinality(L) <= Cardinality(Later)
  BY <1>2, FS_Subset
<1>4. CASE Goes(m)
  BY <1>1, <1>2, <1>3, <1>4 DEF Goes
<1>5. CASE Counts(m, c)
  <2>1. CASE attempts'[m] < MaxDeliveries
    BY <1>1, <1>2, <1>5, <2>1 DEF Counts
  <2>2. CASE c \in Later \ L
    <3>1. Cardinality(L \cup {c}) = Cardinality(L) + 1
      BY <1>2, <2>2, FS_AddElement
    <3>2. L \cup {c} \subseteq Later
      BY <1>5, <2>2 DEF Counts
    <3>3. Cardinality(L \cup {c}) <= Cardinality(Later)
      BY <1>2, <3>2, FS_Subset
    <3> QED
      BY <1>1, <1>2, <1>5, <3>1, <3>3 DEF Counts
  <2> QED
    BY <1>5, <2>1, <2>2 DEF Counts
<1>6. CASE Dies(m, c)
  <2>1. IsFiniteSet(L \ {c}) /\ Cardinality(L) <= Cardinality(L \ {c}) + 1
        /\ Cardinality(L \ {c}) \in Nat
    <3>1. PICK S : S = L
      OBVIOUS
    <3>2. /\ IsFiniteSet(S) /\ Cardinality(S) \in Nat /\ IsFiniteSet(S \ {c})
          /\ Cardinality(S \ {c}) = IF c \in S THEN Cardinality(S) - 1 ELSE Cardinality(S)
      BY <1>2, <3>1, FS_RemoveElement
    <3>3. Cardinality(S \ {c}) \in Nat
      BY <3>2, FS_CardinalityType
    <3> QED
      BY <3>1, <3>2, <3>3
  <2>2. Cardinality(L \ {c}) <= Cardinality(Later)
    BY <1>2, <1>6, FS_Subset DEF Dies
  <2> QED
    BY <1>1, <1>2, <1>6, <2>1, <2>2 DEF Dies
<1>7. CASE attempts'[m] = 0 /\ drops' = drops
  BY <1>1, <1>2, <1>7
<1> QED
  BY <1>4, <1>5, <1>6, <1>7

\* Another consumer's attempt is what it was.
LEMMA OthersLast ==
  ASSUME NEW m \in Ids, NEW d \in Consumers, consumer'[d] = consumer[d]
  PROVE  d \in LastAttempts(m)' <=> d \in LastAttempts(m)
BY DEF LastAttempts, Working, Current

\* A step within an attempt of c, which counts nothing.
LEMMA StepGoes ==
  ASSUME NEW m \in Ids, NEW c \in Consumers,
         \A d \in Consumers \ {c} : consumer'[d] = consumer[d],
         attempts'[m] = attempts[m], drops' = drops,
         c \in LastAttempts(m) => c \in LastAttempts(m)'
  PROVE  Goes(m)
<1>1. \A d \in Consumers \ {c} : d \in LastAttempts(m) => d \in LastAttempts(m)'
  BY OthersLast
<1> QED
  BY <1>1 DEF Goes, LastAttempts

LEMMA WithinAttempt ==
  ASSUME NEW m \in Ids, NEW c \in Consumers,
         \A d \in Consumers \ {c} : consumer'[d] = consumer[d],
         UNCHANGED <<attempts, drops>>,
         \/ ~ Working(c)
         \/ /\ Working(c)' /\ consumer'[c].batch = consumer[c].batch
            /\ consumer'[c].count = consumer[c].count
  PROVE  Goes(m)
<1>1. c \in LastAttempts(m) => c \in LastAttempts(m)'
  BY DEF LastAttempts, Current
<1> QED
  BY <1>1, StepGoes

LEMMA ConsumerBounded ==
  ASSUME BoundedInv, NEW c \in Consumers, Consume(c) \/ Drop(c), NEW m \in Ids
  PROVE  \/ Goes(m) \/ Counts(m, c) \/ Dies(m, c)
         \/ (attempts'[m] = 0 /\ drops' = drops)
<1>t. /\ TypeOK /\ consumer[c] \in Memory /\ DOMAIN consumer = Consumers
      /\ attempts \in [Ids -> Nat] /\ MaxDeliveries \in Nat
  BY TransportAssumption DEF TransportAssumption, BoundedInv, TypeOK
<1>1. CASE Claim(c)
  <2>1. /\ \A d \in Consumers \ {c} : consumer'[d] = consumer[d]
        /\ UNCHANGED <<attempts, drops>> /\ ~ Working(c)
    BY <1>1, <1>t DEF Claim, Become, At, Working
  <2> QED
    BY <2>1, WithinAttempt
<1>2. CASE Read(c)
  <2>1. /\ \A d \in Consumers \ {c} : consumer'[d] = consumer[d]
        /\ UNCHANGED <<attempts, drops>> /\ ~ Working(c)
    BY <1>2, <1>t DEF Read, Become, At, Working
  <2> QED
    BY <2>1, WithinAttempt
<1>3. CASE Count(c)
  <2>1. PICK n : n = Current(c)
    OBVIOUS
  <2>2. /\ n \in Ids /\ ~ Working(c) /\ drops' = drops
        /\ attempts' = [attempts EXCEPT ![n] = @ + 1]
        /\ consumer'[c] = [consumer[c] EXCEPT
                             !.pc = IF n \in Invalid THEN "burying" ELSE "counted",
                             !.count = attempts[n] + 1]
        /\ \A d \in Consumers \ {c} : consumer'[d] = consumer[d]
    BY <1>3, <1>t, <2>1, CurrentIsMine DEF Count, Become, At, Working
  <2>3. /\ Working(c)' /\ consumer'[c].count = attempts[n] + 1
        /\ consumer'[c].batch = consumer[c].batch
    BY <1>t, <2>2 DEF Working, Memory
  <2>4. Current(c)' = n
    BY <2>1, <2>3 DEF Current
  <2>5. c \notin LastAttempts(m)
    BY <2>2 DEF LastAttempts
  <2>6. CASE m # n
    BY <1>t, <2>2, <2>5, <2>6, StepGoes
  <2>7. CASE m = n
    <3>1. attempts'[m] = attempts[m] + 1
      BY <1>t, <2>2, <2>7
    <3>2. attempts[m] + 1 >= MaxDeliveries => c \in LastAttempts(m)'
      BY <2>3, <2>4, <2>7 DEF LastAttempts
    <3>3. \A d \in Consumers \ {c} : d \in LastAttempts(m) => d \in LastAttempts(m)'
      BY <2>2, OthersLast
    <3>4. LastAttempts(m) \subseteq LastAttempts(m)'
      BY <2>5, <3>3 DEF LastAttempts
    <3>5. attempts'[m] < MaxDeliveries \/ c \in LastAttempts(m)' \ LastAttempts(m)
      BY <1>t, <2>5, <3>1, <3>2
    <3> QED
      BY <2>2, <3>1, <3>4, <3>5 DEF Counts
  <2> QED
    BY <2>6, <2>7
<1>4. CASE Dispatch(c)
  <2>1. /\ consumer'[c] = [consumer[c] EXCEPT !.pc = "running",
                                              !.already = Recorded(Current(c))]
        /\ \A d \in Consumers \ {c} : consumer'[d] = consumer[d]
        /\ UNCHANGED <<attempts, drops>>
    BY <1>4, <1>t DEF Dispatch, Become, redis
  <2>2. /\ Working(c)' /\ consumer'[c].batch = consumer[c].batch
        /\ consumer'[c].count = consumer[c].count
    BY <1>t, <2>1 DEF Working, Memory
  <2> QED
    BY <2>1, <2>2, WithinAttempt
<1>5. CASE Outcome(c)
  <2>1. PICK ok : consumer' = [consumer EXCEPT ![c] =
                                 [consumer[c] EXCEPT !.pc = "ran", !.ok = ok]]
    BY <1>5 DEF Outcome, Become
  <2>2. /\ consumer'[c] = [consumer[c] EXCEPT !.pc = "ran", !.ok = ok]
        /\ \A d \in Consumers \ {c} : consumer'[d] = consumer[d]
        /\ UNCHANGED <<attempts, drops>>
    BY <1>5, <1>t, <2>1 DEF Outcome, redis
  <2>3. /\ Working(c)' /\ consumer'[c].batch = consumer[c].batch
        /\ consumer'[c].count = consumer[c].count
    BY <1>t, <2>2 DEF Working, Memory
  <2> QED
    BY <2>2, <2>3, WithinAttempt
<1>6. CASE Record(c)
  <2>1. UNCHANGED <<attempts, drops>>
    BY <1>6 DEF Record
  <2>2. CASE Verdict(c) = "failed"
    <3>1. ~ (consumer[c].count >= MaxDeliveries)
      BY <2>2 DEF Verdict
    <3>2. c \notin LastAttempts(m)
      BY <3>1 DEF LastAttempts
    <3>3. \A d \in Consumers \ {c} : consumer'[d] = consumer[d]
      BY <1>6, <1>t, <2>2, HandledPc DEF Record
    <3> QED
      BY <2>1, <3>2, <3>3, StepGoes
  <2>3. CASE Verdict(c) # "failed"
    <3>1. Verdict(c) \in {"acking", "burying"} /\ Goto(c, Verdict(c))
      BY <1>6, <2>3 DEF Record, Verdict
    <3>2. /\ consumer'[c].pc = Verdict(c) /\ consumer'[c].batch = consumer[c].batch
          /\ consumer'[c].count = consumer[c].count
          /\ \A d \in Consumers \ {c} : consumer'[d] = consumer[d]
      BY <1>t, <3>1 DEF Goto, Become, Memory
    <3>3. Working(c)'
      BY <3>1, <3>2 DEF Working
    <3> QED
      BY <2>1, <3>2, <3>3, WithinAttempt
  <2> QED
    BY <2>2, <2>3
<1>7. CASE Bury(c) \/ Ack(c)
  <2>1. PICK pc \in {"acking", "clearing"} : Goto(c, pc)
    BY <1>7 DEF Bury, Ack
  <2>2. UNCHANGED <<attempts, drops>>
    BY <1>7 DEF Bury, Ack
  <2>3. /\ consumer'[c].pc = pc /\ consumer'[c].batch = consumer[c].batch
        /\ consumer'[c].count = consumer[c].count
        /\ \A d \in Consumers \ {c} : consumer'[d] = consumer[d]
    BY <1>t, <2>1 DEF Goto, Become, Memory
  <2>4. Working(c)'
    BY <2>3 DEF Working
  <2> QED
    BY <2>2, <2>3, <2>4, WithinAttempt
<1>8. CASE Clear(c)
  <2>1. /\ attempts' = [attempts EXCEPT ![Current(c)] = 0] /\ drops' = drops
        /\ \A d \in Consumers \ {c} : consumer'[d] = consumer[d]
    BY <1>8, <1>t, HandledPc DEF Clear
  <2>2. CASE m = Current(c)
    BY <1>t, <2>1, <2>2
  <2>3. CASE m # Current(c)
    <3>1. c \notin LastAttempts(m)
      BY <2>3 DEF LastAttempts
    <3> QED
      BY <1>t, <2>1, <2>3, <3>1, StepGoes
  <2> QED
    BY <2>2, <2>3
<1>9. CASE Drop(c)
  <2>1. /\ attempts' = attempts /\ drops' = drops + 1
        /\ \A d \in Consumers \ {c} : consumer'[d] = consumer[d]
    BY <1>9, <1>t DEF Drop, Become, redis
  <2>2. \A d \in Consumers \ {c} : d \in LastAttempts(m) => d \in LastAttempts(m)'
    BY <2>1, OthersLast
  <2> QED
    BY <2>1, <2>2 DEF Dies, LastAttempts
<1> QED
  BY <1>1, <1>2, <1>3, <1>4, <1>5, <1>6, <1>7, <1>8, <1>9 DEF Consume

LEMMA NextBounded == BoundedInv /\ [Next]_vars => BoundedInv'
<1> SUFFICES ASSUME BoundedInv, [Next]_vars PROVE BoundedInv'
  OBVIOUS
<1>1. TypeOK'
  BY NextTypes DEF BoundedInv
<1>2. CASE \E c \in Consumers : Consume(c) \/ Drop(c)
  <2>1. PICK c \in Consumers : Consume(c) \/ Drop(c)
    BY <1>2
  <2>2. \A m \in Ids : attempts'[m] < MaxDeliveries + drops' + Cardinality(LastAttempts(m)')
    BY <1>1, <2>1, ConsumerBounded, StaysBounded
  <2> QED
    BY <1>1, <2>2 DEF BoundedInv, AttemptsBounded
<1>3. ASSUME UNCHANGED <<attempts, drops, consumer>>
      PROVE  BoundedInv'
  <2>1. \A m \in Ids : LastAttempts(m)' = LastAttempts(m)
    BY <1>3 DEF LastAttempts, Working, Current
  <2> QED
    BY <1>1, <1>3, <2>1 DEF BoundedInv, AttemptsBounded
<1>4. CASE Publish \/ PublishFails
  BY <1>3, <1>4 DEF Publish, PublishFails
<1>5. CASE \E m \in Ids : RunLocally(m) \/ Expire(m)
  BY <1>3, <1>5 DEF RunLocally, Expire, redis
<1>6. CASE UNCHANGED vars
  BY <1>3, <1>6 DEF vars, redis
<1> QED
  BY <1>2, <1>4, <1>5, <1>6 DEF Next

LEMMA InitBounded == Init => BoundedInv
<1> SUFFICES ASSUME Init PROVE BoundedInv
  OBVIOUS
<1>1. TypeOK
  BY InitTypes
<1>2. \A m \in Ids : attempts[m] = 0 /\ drops = 0
  BY DEF Init
<1>3. \A m \in Ids : Cardinality(LastAttempts(m)) \in Nat
  BY LastFacts
<1>4. MaxDeliveries \in Nat \ {0}
  BY TransportAssumption DEF TransportAssumption
<1> QED
  BY <1>1, <1>2, <1>3, <1>4 DEF BoundedInv, AttemptsBounded

\* max_deliveries: however slow the handlers are, an event is attempted that
\* often and no more, but for the attempts that died before they could end it
\* and those at work beside one another since a late claim (_handle).
THEOREM AttemptsAreBounded == Spec => []AttemptsBounded
<1>1. BoundedInv => AttemptsBounded
  BY DEF BoundedInv
<1>2. Spec => []BoundedInv
  BY InitBounded, NextBounded, PTL DEF Spec
<1> QED
  BY <1>1, <1>2, PTL

=============================================================================
