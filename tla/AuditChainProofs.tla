-------------------------- MODULE AuditChainProofs --------------------------
(***************************************************************************)
(* Proofs about AuditChain for any number of tenants, events, requests,    *)
(* sealing jobs and edits, any batch and any window of the check: what     *)
(* nobody changed is one whole chain, no check says otherwise, and a check *)
(* reports whatever was changed before it began.                           *)
(***************************************************************************)
EXTENDS AuditChain, NaturalsInduction, WellFoundedInduction, TLAPS

-----------------------------------------------------------------------------
(* Sequences and links.                                                    *)

LEMMA InFront ==
  ASSUME NEW m \in Nat, NEW n \in Nat, NEW k \in 1 .. m
  PROVE  k \in 1 .. m + n
OBVIOUS

LEMMA MinExists ==
  ASSUME NEW S \in SUBSET Nat, S # {}
  PROVE  \E m \in S : \A x \in S : m <= x
<1> DEFINE R == OpToRel(<, Nat)
<1>1. \A x, y \in Nat : x < y => <<x, y>> \in R
  BY DEF OpToRel
<1>2. IsWellFoundedOn(R, Nat)
  BY NatLessThanWellFounded
<1> HIDE DEF R
<1>3. PICK m \in S : \A x \in S : <<x, m>> \notin R
  BY <1>2, WFMin
<1>4. ASSUME NEW x \in S PROVE m <= x
  <2>1. x \in Nat /\ m \in Nat /\ ~ (x < m)
    BY <1>1, <1>3
  <2> QED
    BY <2>1
<1> QED
  BY <1>4

LEMMA ConcatAppend ==
  ASSUME NEW S, NEW c \in Seq(S), NEW d \in Seq(S), NEW x \in S
  PROVE  c \o Append(d, x) = Append(c \o d, x)
OBVIOUS

LEMMA ConcatEmpty ==
  ASSUME NEW S, NEW c \in Seq(S)
  PROVE  c \o <<>> = c
OBVIOUS

Rows == Links \cup {Gone}

LEMMA GoneIsNoLink == Gone \notin Links
BY DEF Gone, Links

LEMMA AppendPair ==
  ASSUME NEW A, NEW B, NEW c \in Seq(A \X B), NEW a \in A, NEW b \in B
  PROVE  Append(c, <<a, b>>) \in Seq(A \X B)
OBVIOUS

LEMMA HashTyped ==
  ASSUME NEW prev \in Hashes, NEW e \in Events, NEW text \in Texts
  PROVE  /\ Hash(prev, e, text) \in Hashes
         /\ Link(prev, e, text) \in Links
<1>1. Events \subseteq Nat
  BY ChainAssumption DEF ChainAssumption
<1>2. e \in Nat /\ text \in Texts \cup {"rewritten"}
  BY <1>1
<1>3. Hash(prev, e, text) \in Hashes
  BY <1>2, AppendPair DEF Hash, Hashes
<1> QED
  BY <1>3 DEF Link, Links

LEMMA PrevTyped ==
  ASSUME NEW c \in Seq(Rows), NEW k \in 0 .. Len(c), k = 0 \/ c[k] # Gone
  PROVE  PrevHash(c, k) \in Hashes
<1>1. CASE k = 0
  BY <1>1 DEF PrevHash, Genesis, Hashes
<1>2. CASE k # 0
  <2>1. c[k] \in Links
    BY <1>2 DEF Rows
  <2> QED
    BY <1>2, <2>1 DEF PrevHash, Links
<1> QED
  BY <1>1, <1>2

\* A whole chain has no deleted link.
LEMMA WholeHasLinks ==
  ASSUME NEW c \in Seq(Rows), NEW text, Whole(c, text), NEW k \in 1 .. Len(c)
  PROVE  c[k] # Gone /\ c[k] \in Links
<1>1. c[k] = Link(PrevHash(c, k - 1), c[k].event, text[c[k].event])
  BY DEF Whole
<1>2. c[k] # Gone
  BY <1>1 DEF Link, Gone
<1> QED
  BY <1>2 DEF Rows

\* A chain stays whole for texts that agree on its events.
LEMMA WholeAgrees ==
  ASSUME NEW c \in Seq(Rows), NEW f, NEW g, Whole(c, f),
         \A k \in 1 .. Len(c) : g[c[k].event] = f[c[k].event]
  PROVE  Whole(c, g)
<1>1. DOMAIN c = 1 .. Len(c)
  OBVIOUS
<1> QED
  BY <1>1 DEF Whole

LEMMA WholeEmpty == ASSUME NEW text PROVE Whole(<<>>, text)
BY DEF Whole

\* The link of an event that has none extends the chain.
LEMMA WholeAppend ==
  ASSUME NEW c \in Seq(Rows), NEW f \in [Events -> Texts], Whole(c, f),
         NEW e \in Events, ~ Linked(c, e)
  PROVE  Whole(Append(c, Link(PrevHash(c, Len(c)), e, f[e])), f)
<1> DEFINE l == Link(PrevHash(c, Len(c)), e, f[e])
           d == Append(c, l)
<1>1. /\ Len(d) = Len(c) + 1 /\ DOMAIN d = 1 .. Len(c) + 1 /\ Len(c) \in Nat
      /\ \A k \in 1 .. Len(c) : d[k] = c[k]
      /\ d[Len(c) + 1] = l
      /\ DOMAIN c = 1 .. Len(c)
  OBVIOUS
<1>2. \A k \in 1 .. Len(c) + 1 : PrevHash(d, k - 1) = PrevHash(c, k - 1)
  BY <1>1 DEF PrevHash
<1>3. l.event = e
  BY DEF Link
<1> HIDE DEF l, d
<1>4. ASSUME NEW k \in 1 .. Len(c) + 1
      PROVE /\ d[k] = Link(PrevHash(d, k - 1), d[k].event, f[d[k].event])
            /\ \A i \in 1 .. k - 1 : d[i].event # d[k].event
  <2>1. CASE k \in 1 .. Len(c)
    <3>1. /\ c[k] = Link(PrevHash(c, k - 1), c[k].event, f[c[k].event])
          /\ \A i \in 1 .. k - 1 : c[i].event # c[k].event
      BY <1>1, <2>1 DEF Whole
    <3>2. d[k] = c[k] /\ PrevHash(d, k - 1) = PrevHash(c, k - 1)
      BY <1>1, <1>2, <2>1
    <3>3. \A i \in 1 .. k - 1 : d[i] = c[i]
      BY <1>1, <2>1
    <3> QED
      BY <3>1, <3>2, <3>3
  <2>2. CASE k = Len(c) + 1
    <3>1. d[k] = l /\ PrevHash(d, k - 1) = PrevHash(c, Len(c))
      BY <1>1, <1>2, <2>2
    <3>2. ASSUME NEW i \in 1 .. k - 1 PROVE d[i].event # e
      <4>1. i \in 1 .. Len(c) /\ i \in DOMAIN c /\ d[i] = c[i]
        BY <1>1, <2>2
      <4>2. c[i] # Gone
        BY <4>1, WholeHasLinks
      <4> QED
        BY <4>1, <4>2 DEF Linked
    <3> QED
      BY <1>3, <3>1, <3>2 DEF l
  <2> QED
    BY <1>1, <2>1, <2>2
<1> QED
  BY <1>1, <1>4 DEF Whole, l, d

-----------------------------------------------------------------------------
(* What each step makes of a transaction.                                  *)

LEMMA ActorSets == Requests \subseteq Actors /\ Sealers \subseteq Actors /\ Nobody \notin Actors
BY ChainAssumption DEF ChainAssumption, Actors

LEMMA OwnerTyped == Events \subseteq Nat /\ \A e \in Events : Owner[e] \in Tenants
BY ChainAssumption DEF ChainAssumption

LEMMA BecomeOnly ==
  ASSUME session \in [Actors -> Transaction], NEW s \in Actors, NEW n, Become(s, n)
  PROVE  /\ session'[s] = n
         /\ \A q \in Actors : q # s => session'[q] = session[q]
         /\ n \in Transaction => session' \in [Actors -> Transaction]
BY DEF Become

LEMMA OpenTyped == Open \in Transaction
<1>1. <<>> \in Seq(Links)
  OBVIOUS
<1> QED
  BY <1>1 DEF Open, Transaction

LEMMA RecordEffect ==
  ASSUME TypeOK, NEW s \in Actors, NEW e \in Events, Record(s, e)
  PROVE  /\ session'[s] = [pc |-> "linking", tenant |-> Owner[e], todo |-> {e},
                           wrote |-> session[s].wrote \cup {e},
                           taken |-> session[s].taken, added |-> session[s].added]
         /\ session'[s] \in Transaction
<1> DEFINE r == session[s]
<1>1. r \in Transaction
  BY DEF TypeOK
<1>2. [r EXCEPT !.pc = "linking", !.tenant = Owner[e], !.todo = {e}, !.wrote = @ \cup {e}]
      = [[[[r EXCEPT !.pc = "linking"] EXCEPT !.tenant = Owner[e]] EXCEPT !.todo = {e}]
           EXCEPT !.wrote = @ \cup {e}]
  BY <1>1 DEF Transaction
<1>3. session'[s] = [[[[r EXCEPT !.pc = "linking"] EXCEPT !.tenant = Owner[e]] EXCEPT !.todo = {e}]
           EXCEPT !.wrote = @ \cup {e}]
  BY <1>2, BecomeOnly DEF Record, TypeOK
<1>4. session'[s] = [pc |-> "linking", tenant |-> Owner[e], todo |-> {e},
                     wrote |-> r.wrote \cup {e}, taken |-> r.taken, added |-> r.added]
  BY <1>1, <1>3 DEF Transaction
<1>5. session'[s] \in Transaction
  BY <1>1, <1>4, OwnerTyped DEF Transaction
<1> QED
  BY <1>4, <1>5

LEMMA WriteEffect ==
  ASSUME TypeOK, NEW s \in Actors, NEW e \in Events, WriteDirectly(s, e)
  PROVE  /\ session'[s] = [pc |-> session[s].pc, tenant |-> session[s].tenant,
                           todo |-> session[s].todo, wrote |-> session[s].wrote \cup {e},
                           taken |-> session[s].taken, added |-> session[s].added]
         /\ session'[s] \in Transaction
<1>1. session[s] \in Transaction
  BY DEF TypeOK
<1>2. session'[s] = [session[s] EXCEPT !.wrote = @ \cup {e}]
  BY BecomeOnly DEF WriteDirectly, TypeOK
<1>3. session'[s] = [pc |-> session[s].pc, tenant |-> session[s].tenant,
                     todo |-> session[s].todo, wrote |-> session[s].wrote \cup {e},
                     taken |-> session[s].taken, added |-> session[s].added]
  BY <1>1, <1>2 DEF Transaction
<1> QED
  BY <1>1, <1>3 DEF Transaction

LEMMA TakeEffect ==
  ASSUME TypeOK, NEW s \in Actors, TakeLock(s)
  PROVE  /\ session'[s] = [pc |-> "locked", tenant |-> session[s].tenant,
                           todo |-> session[s].todo, wrote |-> session[s].wrote,
                           taken |-> (holder[Tenant(s)] = Nobody), added |-> session[s].added]
         /\ session'[s] \in Transaction
<1> DEFINE r == session[s]
           free == holder[Tenant(s)] = Nobody
<1>1. r \in Transaction /\ free \in BOOLEAN
  BY DEF TypeOK
<1>2. [r EXCEPT !.pc = "locked", !.taken = free]
      = [[r EXCEPT !.pc = "locked"] EXCEPT !.taken = free]
  BY <1>1 DEF Transaction
<1>3. session'[s] = [[r EXCEPT !.pc = "locked"] EXCEPT !.taken = free]
  BY <1>2, BecomeOnly DEF TakeLock, TypeOK
<1> HIDE DEF free
<1>4. session'[s] = [pc |-> "locked", tenant |-> r.tenant, todo |-> r.todo, wrote |-> r.wrote,
                     taken |-> free, added |-> r.added]
  BY <1>1, <1>3 DEF Transaction
<1>5. session'[s] \in Transaction
  BY <1>1, <1>4 DEF Transaction
<1> QED
  BY <1>4, <1>5 DEF free

LEMMA AppendEffect ==
  ASSUME TypeOK, NEW s \in Actors, AppendLink(s)
  PROVE  session'[s] = [pc |-> IF s \in Requests THEN "open" ELSE "locked",
                        tenant |-> session[s].tenant, todo |-> session[s].todo \ {Turn(s)},
                        wrote |-> session[s].wrote, taken |-> session[s].taken,
                        added |-> [session[s].added EXCEPT ![Tenant(s)] =
                                     IF Linked(Seen(s, Tenant(s)), Turn(s)) THEN @
                                     ELSE Extended(s, Turn(s))]]
<1> DEFINE r == session[s]
           pc == IF s \in Requests THEN "open" ELSE "locked"
           new == IF Linked(Seen(s, Tenant(s)), Turn(s)) THEN r.added[Tenant(s)]
                  ELSE Extended(s, Turn(s))
<1>1. r \in Transaction
  BY DEF TypeOK
<1>2. session'[s] = [r EXCEPT !.pc = pc, !.todo = @ \ {Turn(s)}, !.added[Tenant(s)] = new]
  BY BecomeOnly DEF AppendLink, TypeOK
<1> HIDE DEF pc, new
<1>3. session'[s] = [[[r EXCEPT !.pc = pc] EXCEPT !.todo = @ \ {Turn(s)}]
                       EXCEPT !.added[Tenant(s)] = new]
  BY <1>1, <1>2 DEF Transaction
<1>4. session'[s] = [pc |-> pc, tenant |-> r.tenant, todo |-> r.todo \ {Turn(s)},
                     wrote |-> r.wrote, taken |-> r.taken,
                     added |-> [r.added EXCEPT ![Tenant(s)] = new]]
  BY <1>1, <1>3 DEF Transaction
<1> QED
  BY <1>4 DEF pc, new

LEMMA LeaveEffect ==
  ASSUME TypeOK, NEW s \in Actors, LeaveUnlinked(s)
  PROVE  /\ session'[s] = [pc |-> "open", tenant |-> session[s].tenant, todo |-> {},
                           wrote |-> session[s].wrote, taken |-> session[s].taken,
                           added |-> session[s].added]
         /\ session'[s] \in Transaction
<1> DEFINE r == session[s]
<1>1. r \in Transaction
  BY DEF TypeOK
<1>2. [r EXCEPT !.pc = "open", !.todo = {}] = [[r EXCEPT !.pc = "open"] EXCEPT !.todo = {}]
  BY <1>1 DEF Transaction
<1>3. session'[s] = [[r EXCEPT !.pc = "open"] EXCEPT !.todo = {}]
  BY <1>2, BecomeOnly DEF LeaveUnlinked, TypeOK
<1>4. session'[s] = [pc |-> "open", tenant |-> r.tenant, todo |-> {},
                     wrote |-> r.wrote, taken |-> r.taken, added |-> r.added]
  BY <1>1, <1>3 DEF Transaction
<1> QED
  BY <1>1, <1>4 DEF Transaction

LEMMA SealEffect ==
  ASSUME TypeOK, NEW s \in Actors, NEW t \in Tenants, StartSeal(s, t)
  PROVE  /\ session'[s] = [pc |-> "locked", tenant |-> t,
                           todo |-> First(SealLimit, Unchained(t)), wrote |-> {},
                           taken |-> TRUE, added |-> Open.added]
         /\ session'[s] \in Transaction
<1> DEFINE new == First(SealLimit, Unchained(t))
<1>0. new \in SUBSET Events
  BY DEF First, Unchained
<1>1. Open \in Transaction
  BY OpenTyped
<1>2. session'[s] = [Open EXCEPT !.pc = "locked", !.tenant = t, !.taken = TRUE, !.todo = new]
  BY BecomeOnly DEF StartSeal, TypeOK
<1> HIDE DEF new
<1>3. session'[s] = [[[[Open EXCEPT !.pc = "locked"] EXCEPT !.tenant = t] EXCEPT !.taken = TRUE]
                       EXCEPT !.todo = new]
  BY <1>1, <1>2 DEF Transaction
<1>4. Open.wrote = {}
  BY DEF Open
<1>5. session'[s] = [pc |-> "locked", tenant |-> t, todo |-> new, wrote |-> {},
                     taken |-> TRUE, added |-> Open.added]
  BY <1>1, <1>3, <1>4 DEF Transaction
<1>6. session'[s] \in Transaction
  BY <1>0, <1>1, <1>5 DEF Transaction
<1> QED
  BY <1>5, <1>6 DEF new

-----------------------------------------------------------------------------
(* Types.                                                                  *)

\* A transaction links the events of its tenant, and links of each tenant's own.
Owned(r) ==
  /\ r.pc # "open" => r.tenant \in Tenants
  /\ \A e \in r.todo : Owner[e] = r.tenant
  /\ \A t \in Tenants : \A k \in 1 .. Len(r.added[t]) : Owner[r.added[t][k].event] = t

\* The newest link of a chain is there.
HeadInv == \A t \in Tenants : Len(chain[t]) > 0 => chain[t][Len(chain[t])] # Gone

TypeInv ==
  /\ TypeOK
  /\ \A s \in Actors : Owned(session[s])
  /\ HeadInv
  /\ check.pc # "idle" => check.tenant \in Tenants

LEMMA TypeInit == Init => TypeInv
<1> SUFFICES ASSUME Init PROVE TypeInv
  OBVIOUS
<1>1. Open \in Transaction /\ Owned(Open)
  <2>1. \A t \in Tenants : Open.added[t] = <<>>
    BY DEF Open
  <2> QED
    BY <2>1, OpenTyped DEF Open, Owned
<1>2. NoCheck \in Checks
  BY DEF NoCheck, Checks, Genesis, Hashes
<1>3. chain \in [Tenants -> Seq(Links \cup {Gone})]
  BY DEF Init
<1>4. stored \in [Events -> Texts]
  BY DEF Init, Texts
<1>5. TypeOK
  BY <1>1, <1>2, <1>3, <1>4 DEF Init, TypeOK
<1> QED
  BY <1>1, <1>5 DEF Init, TypeInv, HeadInv, NoCheck

LEMMA TurnIn ==
  ASSUME TypeOK, NEW s \in Actors, session[s].todo # {}
  PROVE  Turn(s) \in session[s].todo /\ Turn(s) \in Events
<1>1. session[s].todo \in SUBSET Events /\ session[s].todo \in SUBSET Nat
  BY OwnerTyped DEF TypeOK, Transaction
<1>2. \E e \in session[s].todo : \A x \in session[s].todo : e <= x
  BY <1>1, MinExists
<1> QED
  BY <1>1, <1>2 DEF Turn

LEMMA SeenFacts ==
  ASSUME TypeInv, NEW s \in Actors, NEW t \in Tenants
  PROVE  /\ chain[t] \in Seq(Rows) /\ session[s].added[t] \in Seq(Links)
         /\ session[s].added[t] \in Seq(Rows) /\ Seen(s, t) \in Seq(Rows)
         /\ Len(Seen(s, t)) = Len(chain[t]) + Len(session[s].added[t])
         /\ \A k \in 1 .. Len(chain[t]) : Seen(s, t)[k] = chain[t][k]
         /\ \A k \in 1 .. Len(session[s].added[t]) :
              /\ Seen(s, t)[Len(chain[t]) + k] = session[s].added[t][k]
              /\ session[s].added[t][k] \in Links
         /\ Len(Seen(s, t)) > 0 => Seen(s, t)[Len(Seen(s, t))] # Gone
<1> DEFINE c == chain[t]
           a == session[s].added[t]
<1>1. c \in Seq(Rows) /\ a \in Seq(Links)
  BY DEF TypeInv, TypeOK, Transaction, Rows
<1>2. a \in Seq(Rows)
  BY <1>1 DEF Rows
<1>3. Len(c) > 0 => c[Len(c)] # Gone
  BY DEF TypeInv, HeadInv
<1>4. Seen(s, t) = c \o a
  BY DEF Seen
<1> HIDE DEF c, a
<1>5. /\ Seen(s, t) \in Seq(Rows) /\ Len(Seen(s, t)) = Len(c) + Len(a)
      /\ Len(c) \in Nat /\ Len(a) \in Nat
      /\ \A k \in 1 .. Len(c) : Seen(s, t)[k] = c[k]
      /\ \A k \in 1 .. Len(a) : Seen(s, t)[Len(c) + k] = a[k] /\ a[k] \in Links
  BY <1>1, <1>2, <1>4
<1>6. Len(Seen(s, t)) > 0 => Seen(s, t)[Len(Seen(s, t))] # Gone
  <2>1. CASE Len(a) = 0
    BY <1>3, <1>5, <2>1
  <2>2. CASE Len(a) # 0
    <3>1. Len(a) \in 1 .. Len(a)
      BY <1>5, <2>2
    <3>2. Seen(s, t)[Len(c) + Len(a)] = a[Len(a)] /\ a[Len(a)] \in Links
      BY <1>5, <3>1
    <3> QED
      BY <1>5, <3>2, GoneIsNoLink
  <2> QED
    BY <2>1, <2>2
<1> QED
  BY <1>1, <1>2, <1>5, <1>6 DEF c, a

\* The links of a tenant that a transaction sees are of the tenant's events.
LEMMA SeenOwned ==
  ASSUME TypeInv, NEW s \in Actors, NEW t \in Tenants,
         NEW k \in DOMAIN Seen(s, t), Seen(s, t)[k] # Gone
  PROVE  Owner[Seen(s, t)[k].event] = t
<1>1. PICK c : c = chain[t]
  OBVIOUS
<1>2. PICK a : a = session[s].added[t]
  OBVIOUS
<1>3. PICK d : d = Seen(s, t)
  OBVIOUS
<1>4. /\ c \in Seq(Rows) /\ a \in Seq(Links) /\ d \in Seq(Rows) /\ Len(d) = Len(c) + Len(a)
      /\ \A i \in 1 .. Len(c) : d[i] = c[i]
      /\ \A i \in 1 .. Len(a) : d[Len(c) + i] = a[i]
  BY <1>1, <1>2, <1>3, SeenFacts
<1>5. \A i \in 1 .. Len(a) : Owner[a[i].event] = t
  BY <1>2 DEF TypeInv, Owned
<1>6. \A i \in DOMAIN c : c[i] # Gone => Owner[c[i].event] = t
  BY <1>1 DEF TypeInv, TypeOK
<1>7. k \in 1 .. Len(c) + Len(a) /\ Len(c) \in Nat /\ Len(a) \in Nat
  BY <1>3, <1>4
<1>8. CASE k \in 1 .. Len(c)
  <2>1. k \in DOMAIN c /\ d[k] = c[k]
    BY <1>4, <1>8
  <2> QED
    BY <1>3, <1>6, <2>1
<1>9. CASE k \notin 1 .. Len(c)
  <2>1. PICK i \in 1 .. Len(a) : k = Len(c) + i
    <3>1. k - Len(c) \in 1 .. Len(a) /\ k = Len(c) + (k - Len(c))
      BY <1>7, <1>9
    <3> QED
      BY <3>1
  <2> QED
    BY <1>3, <1>4, <1>5, <2>1
<1> QED
  BY <1>8, <1>9

\* A step that rewrites one transaction and commits nothing.
LEMMA SessionKeepsTypes ==
  ASSUME TypeInv, NEW s \in Actors, NEW n, session' = [session EXCEPT ![s] = n],
         session'[s] \in Transaction, Owned(session'[s]),
         holder' \in [Tenants -> Actors \cup {Nobody}],
         UNCHANGED <<stored, chain, check, edits>>
  PROVE  TypeInv'
<1>1. session' \in [Actors -> Transaction]
      /\ \A q \in Actors : q # s => session'[q] = session[q]
  BY DEF TypeInv, TypeOK
<1>2. TypeOK'
  BY <1>1 DEF TypeInv, TypeOK
<1>3. \A q \in Actors : Owned(session'[q])
  BY <1>1 DEF TypeInv
<1> QED
  BY <1>2, <1>3 DEF TypeInv, HeadInv

LEMMA OwnTypes ==
  ASSUME TypeInv, NEW s \in Actors
  PROVE  TypeOK /\ session[s] \in Transaction /\ Owned(session[s])
         /\ holder \in [Tenants -> Actors \cup {Nobody}]
BY DEF TypeInv, TypeOK

LEMMA RecordTypes ==
  ASSUME TypeInv, NEW s \in Requests, NEW e \in Events, Record(s, e)
  PROVE  TypeInv'
<1>1. s \in Actors /\ TypeOK /\ Owned(session[s])
  BY ActorSets, OwnTypes
<1>2. session'[s] = [pc |-> "linking", tenant |-> Owner[e], todo |-> {e},
                     wrote |-> session[s].wrote \cup {e},
                     taken |-> session[s].taken, added |-> session[s].added]
      /\ session'[s] \in Transaction
  BY <1>1, RecordEffect
<1>3. Owned(session'[s])
  BY <1>1, <1>2, OwnerTyped DEF Owned
<1>4. PICK n : session' = [session EXCEPT ![s] = n]
  BY DEF Record, Become
<1> QED
  BY <1>1, <1>2, <1>3, <1>4, OwnTypes, SessionKeepsTypes DEF Record

LEMMA WriteTypes ==
  ASSUME TypeInv, NEW s \in Requests, NEW e \in Events, WriteDirectly(s, e)
  PROVE  TypeInv'
<1>1. s \in Actors /\ TypeOK /\ Owned(session[s])
  BY ActorSets, OwnTypes
<1>2. session'[s] = [pc |-> session[s].pc, tenant |-> session[s].tenant,
                     todo |-> session[s].todo, wrote |-> session[s].wrote \cup {e},
                     taken |-> session[s].taken, added |-> session[s].added]
      /\ session'[s] \in Transaction
  BY <1>1, WriteEffect
<1>3. Owned(session'[s])
  BY <1>1, <1>2 DEF Owned
<1>4. PICK n : session' = [session EXCEPT ![s] = n]
  BY DEF WriteDirectly, Become
<1> QED
  BY <1>1, <1>2, <1>3, <1>4, OwnTypes, SessionKeepsTypes DEF WriteDirectly

LEMMA TakeTypes ==
  ASSUME TypeInv, NEW s \in Actors, TakeLock(s)
  PROVE  TypeInv'
<1>1. TypeOK /\ Owned(session[s])
  BY OwnTypes
<1>2. session'[s] = [pc |-> "locked", tenant |-> session[s].tenant,
                     todo |-> session[s].todo, wrote |-> session[s].wrote,
                     taken |-> (holder[Tenant(s)] = Nobody), added |-> session[s].added]
      /\ session'[s] \in Transaction
  BY <1>1, TakeEffect
<1>3. Owned(session'[s])
  BY <1>1, <1>2 DEF Owned, TakeLock, At
<1>4. PICK n : session' = [session EXCEPT ![s] = n]
  BY DEF TakeLock, Become
<1>5. holder' \in [Tenants -> Actors \cup {Nobody}]
  BY OwnTypes DEF TakeLock
<1> QED
  BY <1>2, <1>3, <1>4, <1>5, SessionKeepsTypes DEF TakeLock

LEMMA LeaveTypes ==
  ASSUME TypeInv, NEW s \in Actors, LeaveUnlinked(s)
  PROVE  TypeInv'
<1>1. TypeOK /\ Owned(session[s])
  BY OwnTypes
<1>2. session'[s] = [pc |-> "open", tenant |-> session[s].tenant, todo |-> {},
                     wrote |-> session[s].wrote, taken |-> session[s].taken,
                     added |-> session[s].added]
      /\ session'[s] \in Transaction
  BY <1>1, LeaveEffect
<1>3. Owned(session'[s])
  BY <1>1, <1>2 DEF Owned
<1>4. PICK n : session' = [session EXCEPT ![s] = n]
  BY DEF LeaveUnlinked, Become
<1>5. holder' \in [Tenants -> Actors \cup {Nobody}]
  BY OwnTypes DEF LeaveUnlinked
<1> QED
  BY <1>2, <1>3, <1>4, <1>5, SessionKeepsTypes DEF LeaveUnlinked

LEMMA SealTypes ==
  ASSUME TypeInv, NEW s \in Actors, NEW t \in Tenants, StartSeal(s, t)
  PROVE  TypeInv'
<1>1. session'[s] = [pc |-> "locked", tenant |-> t,
                     todo |-> First(SealLimit, Unchained(t)), wrote |-> {},
                     taken |-> TRUE, added |-> Open.added]
      /\ session'[s] \in Transaction
  BY OwnTypes, SealEffect
<1>2. \A u \in Tenants : Open.added[u] = <<>>
  BY DEF Open
<1>3. \A e \in First(SealLimit, Unchained(t)) : Owner[e] = t
  BY DEF First, Unchained
<1>4. Owned(session'[s])
  BY <1>1, <1>2, <1>3 DEF Owned
<1>5. PICK n : session' = [session EXCEPT ![s] = n]
  BY DEF StartSeal, Become
<1>6. holder' \in [Tenants -> Actors \cup {Nobody}]
  BY OwnTypes DEF StartSeal
<1> QED
  BY <1>1, <1>4, <1>5, <1>6, SessionKeepsTypes DEF StartSeal

\* The link of the next event, and the event's tenant.
LEMMA NextLink ==
  ASSUME TypeInv, NEW s \in Actors, session[s].pc = "locked", session[s].todo # {}
  PROVE  LET t == Tenant(s)
             e == Turn(s)
             l == Link(PrevHash(Seen(s, t), Len(Seen(s, t))), e, Text(s, e))
         IN  /\ t \in Tenants /\ e \in session[s].todo /\ e \in Events /\ Owner[e] = t
             /\ Text(s, e) \in Texts
             /\ l \in Links /\ l.event = e
             /\ Extended(s, e) = Append(session[s].added[t], l)
<1> DEFINE t == Tenant(s)
           e == Turn(s)
           l == Link(PrevHash(Seen(s, t), Len(Seen(s, t))), e, Text(s, e))
<1>1. TypeOK /\ Owned(session[s])
  BY OwnTypes
<1>2. t \in Tenants /\ e \in session[s].todo /\ e \in Events /\ Owner[e] = t
  BY <1>1, TurnIn DEF Owned, Tenant
<1>3. Text(s, e) \in Texts
  BY <1>1, <1>2 DEF Text, Texts, TypeOK
<1>4. Seen(s, t) \in Seq(Rows) /\ (Len(Seen(s, t)) > 0 => Seen(s, t)[Len(Seen(s, t))] # Gone)
  BY <1>2, SeenFacts
<1>5. Len(Seen(s, t)) \in 0 .. Len(Seen(s, t))
  BY <1>4
<1>6. PrevHash(Seen(s, t), Len(Seen(s, t))) \in Hashes
  BY <1>4, <1>5, PrevTyped
<1>7. l \in Links
  BY <1>2, <1>3, <1>6, HashTyped
<1>8. l.event = e
  BY DEF Link
<1>9. Extended(s, e) = Append(session[s].added[t], l)
  BY DEF Extended
<1> QED
  BY <1>2, <1>3, <1>7, <1>8, <1>9

LEMMA AppendTypes ==
  ASSUME TypeInv, NEW s \in Actors, AppendLink(s)
  PROVE  TypeInv'
<1> DEFINE t == Tenant(s)
           e == Turn(s)
           l == Link(PrevHash(Seen(s, t), Len(Seen(s, t))), e, Text(s, e))
           a == session[s].added[t]
           new == IF Linked(Seen(s, t), e) THEN a ELSE Extended(s, e)
<1>1. TypeOK /\ session[s] \in Transaction /\ Owned(session[s])
      /\ session[s].pc = "locked" /\ session[s].todo # {}
  BY OwnTypes DEF AppendLink, At
<1>2. /\ t \in Tenants /\ e \in session[s].todo /\ Owner[e] = t
      /\ l \in Links /\ l.event = e /\ Extended(s, e) = Append(a, l)
  BY <1>1, NextLink
<1>3. session'[s] = [pc |-> IF s \in Requests THEN "open" ELSE "locked",
                     tenant |-> session[s].tenant, todo |-> session[s].todo \ {e},
                     wrote |-> session[s].wrote, taken |-> session[s].taken,
                     added |-> [session[s].added EXCEPT ![t] = new]]
  BY <1>1, AppendEffect
<1>4. a \in Seq(Links) /\ \A k \in 1 .. Len(a) : Owner[a[k].event] = t
  BY <1>1, <1>2 DEF Transaction, Owned
<1> HIDE DEF l, a
<1>5. Append(a, l) \in Seq(Links)
      /\ \A k \in 1 .. Len(Append(a, l)) : Owner[Append(a, l)[k].event] = t
  <2>1. Append(a, l) \in Seq(Links) /\ Len(Append(a, l)) = Len(a) + 1 /\ Len(a) \in Nat
        /\ Append(a, l)[Len(a) + 1] = l /\ \A k \in 1 .. Len(a) : Append(a, l)[k] = a[k]
    BY <1>2, <1>4
  <2> QED
    BY <1>2, <1>4, <2>1
<1>6. new \in Seq(Links) /\ \A k \in 1 .. Len(new) : Owner[new[k].event] = t
  BY <1>2, <1>4, <1>5
<1> HIDE DEF new, t, e
<1>7. session'[s] \in Transaction
  BY <1>1, <1>2, <1>3, <1>6 DEF Transaction
<1>8. Owned(session'[s])
  <2>1. \A u \in Tenants : session'[s].added[u] = IF u = t THEN new ELSE session[s].added[u]
    BY <1>1, <1>2, <1>3 DEF Transaction
  <2>2. session'[s].tenant = session[s].tenant /\ session'[s].todo \subseteq session[s].todo
        /\ (session'[s].pc # "open" => session[s].pc # "open")
    BY <1>1, <1>3
  <2> QED
    BY <1>1, <1>6, <2>1, <2>2 DEF Owned
<1>9. PICK n : session' = [session EXCEPT ![s] = n]
  BY DEF AppendLink, Become
<1> QED
  BY <1>7, <1>8, <1>9, OwnTypes, SessionKeepsTypes DEF AppendLink

LEMMA RollBackTypes ==
  ASSUME TypeInv, NEW s \in Actors, RollBack(s)
  PROVE  TypeInv'
<1>1. session' = [session EXCEPT ![s] = Open] /\ session'[s] = Open
  BY OwnTypes DEF RollBack, Become, TypeOK
<1>2. \A u \in Tenants : Open.added[u] = <<>>
  BY DEF Open
<1>3. Owned(Open)
  BY <1>2 DEF Owned, Open
<1>4. holder' \in [Tenants -> Actors \cup {Nobody}]
  BY OwnTypes DEF RollBack, Released
<1> QED
  BY <1>1, <1>3, <1>4, OpenTyped, SessionKeepsTypes DEF RollBack

\* A committed transaction: its links follow those of the chain.
LEMMA CommitEffect ==
  ASSUME TypeInv, NEW s \in Actors, Commit(s)
  PROVE  /\ session' = [session EXCEPT ![s] = Open]
         /\ session'[s] = Open
         /\ \A q \in Actors : q # s => session'[q] = session[q]
         /\ \A t \in Tenants : chain'[t] = Seen(s, t)
         /\ \A e \in Events :
              stored'[e] = IF e \in session[s].wrote THEN "written" ELSE stored[e]
         /\ \A t \in Tenants : holder'[t] = IF holder[t] = s THEN Nobody ELSE holder[t]
         /\ UNCHANGED <<check, edits>>
BY OwnTypes DEF Commit, Become, Released, TypeOK

LEMMA CommitTypes ==
  ASSUME TypeInv, NEW s \in Actors, Commit(s)
  PROVE  TypeInv'
<1>1. Owned(Open) /\ Open \in Transaction
  <2>1. \A u \in Tenants : Open.added[u] = <<>>
    BY DEF Open
  <2> QED
    BY <2>1, OpenTyped DEF Owned, Open
<1>2. stored' \in [Events -> Texts]
  BY OwnTypes DEF Commit, TypeOK, Texts
<1>3. chain' \in [Tenants -> Seq(Links \cup {Gone})]
  BY SeenFacts DEF Commit, Rows
<1>4. ASSUME NEW t \in Tenants, NEW k \in DOMAIN chain'[t], chain'[t][k] # Gone
      PROVE  Owner[chain'[t][k].event] = t
  <2>1. chain'[t] = Seen(s, t)
    BY CommitEffect
  <2> QED
    BY <1>4, <2>1, SeenOwned
<1>5. TypeOK'
  <2>1. session' \in [Actors -> Transaction]
    BY <1>1, CommitEffect, OwnTypes DEF TypeOK
  <2>2. holder' \in [Tenants -> Actors \cup {Nobody}]
    BY OwnTypes DEF Commit, Released
  <2> QED
    BY <1>2, <1>3, <1>4, <2>1, <2>2, OwnTypes DEF TypeOK, Commit
<1>6. \A q \in Actors : Owned(session'[q])
  BY <1>1, CommitEffect, OwnTypes
<1>7. HeadInv'
  <2>1. ASSUME NEW t \in Tenants, Len(chain'[t]) > 0 PROVE chain'[t][Len(chain'[t])] # Gone
    <3>1. chain'[t] = Seen(s, t)
      BY CommitEffect
    <3> QED
      BY <2>1, <3>1, SeenFacts
  <2> QED
    BY <2>1 DEF HeadInv
<1> QED
  BY <1>5, <1>6, <1>7 DEF TypeInv, Commit

LEMMA PairIn ==
  ASSUME NEW A, NEW B, NEW a \in A, NEW b \in B
  PROVE  <<a, b>> \in A \X B
OBVIOUS

LEMMA CheckKeepsTypes ==
  ASSUME TypeInv, check' \in Checks, check'.pc # "idle" => check'.tenant \in Tenants,
         UNCHANGED <<stored, chain, holder, session, edits>>
  PROVE  TypeInv'
BY DEF TypeInv, TypeOK, HeadInv

LEMMA StartCheckTypes ==
  ASSUME TypeInv, NEW t \in Tenants, NEW full \in BOOLEAN, StartCheck(t, full)
  PROVE  TypeInv'
<1> DEFINE last == Len(chain[t])
           after == IF ~ full /\ last > RecentLinks THEN last - RecentLinks ELSE 0
           lost == after > 0 /\ chain[t][after] = Gone
           prev == IF lost THEN Genesis ELSE PrevHash(chain[t], after)
           problems == IF lost THEN {<<after, "missing_link">>} ELSE {}
<1>1. chain[t] \in Seq(Rows) /\ last \in Nat /\ RecentLinks \in Nat
  BY ChainAssumption DEF ChainAssumption, TypeInv, TypeOK, Rows
<1>2. after \in 0 .. last /\ after \in Nat
  BY <1>1
<1>3. prev \in Hashes
  <2>1. Genesis \in Hashes
    BY DEF Genesis, Hashes
  <2>2. ~ lost => PrevHash(chain[t], after) \in Hashes
    <3> HIDE DEF last
    <3>1. ~ lost => after = 0 \/ chain[t][after] # Gone
      BY <1>2
    <3> QED
      BY <1>1, <1>2, <3>1, PrevTyped DEF last
  <2> QED
    BY <2>1, <2>2
<1>4. problems \in SUBSET (Nat \X Kinds)
  <2>1. "missing_link" \in Kinds
    BY DEF Kinds
  <2>2. <<after, "missing_link">> \in Nat \X Kinds
    BY <1>2, <2>1, PairIn
  <2> QED
    BY <2>2
<1>5. Owed(t, after) \in SUBSET Nat
  BY <1>1 DEF Owed
<1>6. check' = [pc |-> "walking", tenant |-> t, after |-> after, prev |-> prev,
                next |-> after + 1, problems |-> problems, owed |-> Owed(t, after)]
  BY DEF StartCheck
<1>7. check' \in Checks /\ check'.tenant = t
  <2> HIDE DEF after, prev, problems
  <2>1. after + 1 \in Nat
    BY <1>2
  <2> QED
    BY <1>2, <1>3, <1>4, <1>5, <1>6, <2>1 DEF Checks
<1> QED
  BY <1>7, CheckKeepsTypes DEF StartCheck

\* The walk takes one link, and goes on behind it.
LEMMA WalkEffect ==
  ASSUME TypeInv, CheckLink
  PROVE  \E k \in Ahead :
           /\ \A x \in Ahead : k <= x
           /\ k \in 1 .. Len(chain[check.tenant]) /\ chain[check.tenant][k] \in Links
           /\ check.tenant \in Tenants
           /\ check' = [pc |-> check.pc, tenant |-> check.tenant, after |-> k,
                        prev |-> chain[check.tenant][k].hash, next |-> k + 1,
                        problems |-> check.problems \cup Problem(k), owed |-> check.owed]
<1>1. PICK k \in Ahead :
        /\ \A x \in Ahead : k <= x
        /\ check' = [check EXCEPT !.after = k, !.prev = chain[check.tenant][k].hash,
                                  !.next = k + 1, !.problems = @ \cup Problem(k)]
  BY DEF CheckLink
<1>2. check \in Checks /\ check.tenant \in Tenants
  BY DEF TypeInv, TypeOK, CheckLink
<1>3. k \in 1 .. Len(chain[check.tenant]) /\ chain[check.tenant][k] \in Links
  BY <1>2 DEF Ahead, TypeInv, TypeOK
<1> DEFINE h == chain[check.tenant][k].hash
           new == check.problems \cup Problem(k)
<1>4. check' = [check EXCEPT !.after = k, !.prev = h, !.next = k + 1, !.problems = new]
  BY <1>1
<1> HIDE DEF h, new
<1>5. check' = [[[[check EXCEPT !.after = k] EXCEPT !.prev = h] EXCEPT !.next = k + 1]
                  EXCEPT !.problems = new]
  BY <1>2, <1>4 DEF Checks
<1>6. check' = [pc |-> check.pc, tenant |-> check.tenant, after |-> k, prev |-> h,
                next |-> k + 1, problems |-> new, owed |-> check.owed]
  BY <1>2, <1>5 DEF Checks
<1> QED
  BY <1>1, <1>2, <1>3, <1>6 DEF h, new

LEMMA CheckLinkTypes ==
  ASSUME TypeInv, CheckLink
  PROVE  TypeInv'
<1>1. PICK k \in Ahead :
        /\ k \in 1 .. Len(chain[check.tenant]) /\ chain[check.tenant][k] \in Links
        /\ check.tenant \in Tenants
        /\ check' = [pc |-> check.pc, tenant |-> check.tenant, after |-> k,
                     prev |-> chain[check.tenant][k].hash, next |-> k + 1,
                     problems |-> check.problems \cup Problem(k), owed |-> check.owed]
  BY WalkEffect
<1>2. check \in Checks
  BY DEF TypeInv, TypeOK
<1>3. chain[check.tenant][k].hash \in Hashes
  BY <1>1 DEF Links
<1>4. k \in Nat /\ k + 1 \in Nat
  BY <1>1
<1>5. Problem(k) \in SUBSET (Nat \X Kinds)
  <2>1. \A kind \in Kinds : {<<k, kind>>} \in SUBSET (Nat \X Kinds)
    BY <1>4, PairIn
  <2>2. {} \in SUBSET (Nat \X Kinds)
    OBVIOUS
  <2>3. {"missing_link", "broken_link", "event_deleted", "event_modified"} \subseteq Kinds
    BY DEF Kinds
  <2>4. \/ Problem(k) = {} \/ Problem(k) = {<<k, "missing_link">>}
        \/ Problem(k) = {<<k, "broken_link">>} \/ Problem(k) = {<<k, "event_deleted">>}
        \/ Problem(k) = {<<k, "event_modified">>}
    BY Zenon DEF Problem
  <2> QED
    BY <2>1, <2>2, <2>3, <2>4
<1>6. check.problems \cup Problem(k) \in SUBSET (Nat \X Kinds)
  BY <1>2, <1>5 DEF Checks
<1>7. check' \in Checks
  BY <1>1, <1>2, <1>3, <1>4, <1>6 DEF Checks
<1> QED
  BY <1>1, <1>7, CheckKeepsTypes DEF CheckLink

LEMMA EndTypes ==
  ASSUME TypeInv, EndCheck \/ Report
  PROVE  TypeInv'
<1>1. CASE EndCheck
  BY <1>1, CheckKeepsTypes DEF EndCheck, TypeInv, TypeOK, Checks
<1>2. CASE Report
  <2>1. NoCheck \in Checks /\ NoCheck.pc = "idle"
    BY DEF NoCheck, Checks, Genesis, Hashes
  <2> QED
    BY <1>2, <2>1, CheckKeepsTypes DEF Report
<1> QED
  BY <1>1, <1>2

LEMMA EditEventTypes ==
  ASSUME TypeInv, NEW t \in Tenants, NEW k \in DOMAIN chain[t], EditEvent(t, k)
  PROVE  TypeInv'
<1>1. chain[t][k] \in Links /\ k \in Nat
  BY DEF EditEvent, Edit, TypeInv, TypeOK
<1>2. stored' \in [Events -> Texts]
  BY DEF EditEvent, TypeInv, TypeOK, Texts
<1>3. edits' \subseteq Tenants \X Nat
  BY <1>1, PairIn DEF EditEvent, Edit, TypeInv, TypeOK
<1> QED
  BY <1>2, <1>3 DEF EditEvent, Edit, TypeInv, TypeOK, HeadInv

LEMMA EditLinkTypes ==
  ASSUME TypeInv, NEW t \in Tenants, NEW k \in DOMAIN chain[t], EditLink(t, k)
  PROVE  TypeInv'
<1> DEFINE c == chain[t]
           l == c[k]
           new == [event |-> l.event, prev |-> l.prev, hash |-> Rewritten]
<1>1. l \in Links /\ k \in Nat /\ c \in Seq(Rows) /\ k \in 1 .. Len(c)
  BY DEF EditLink, Edit, TypeInv, TypeOK, Rows
<1>2. Rewritten \in Hashes
  <2>1. <<>> \in Seq(Nat \X (Texts \cup {"rewritten"})) /\ 0 \in Nat
    OBVIOUS
  <2>2. "rewritten" \in Texts \cup {"rewritten"}
    OBVIOUS
  <2>3. Append(<<>>, <<0, "rewritten">>) \in Seq(Nat \X (Texts \cup {"rewritten"}))
    BY <2>1, <2>2, AppendPair
  <2>4. Append(<<>>, <<0, "rewritten">>) = <<<<0, "rewritten">>>>
    OBVIOUS
  <2> QED
    BY <2>3, <2>4 DEF Rewritten, Hashes
<1>3. new \in Links
  BY <1>1, <1>2 DEF Links
<1>4. \A u \in Tenants : u # t => chain'[u] = chain[u]
  BY DEF EditLink, TypeInv, TypeOK
<1>5. \/ chain' = [chain EXCEPT ![t] = [c EXCEPT ![k] = new]]
      \/ k < Len(c) /\ chain' = [chain EXCEPT ![t] = [c EXCEPT ![k] = Gone]]
  <2>1. CASE chain' = [chain EXCEPT ![t][k].hash = Rewritten]
    <3>1. [l EXCEPT !.hash = Rewritten] = new
      BY <1>1 DEF Links
    <3> QED
      BY <2>1, <3>1
  <2>2. CASE k < Len(c) /\ chain' = [chain EXCEPT ![t][k] = Gone]
    BY <2>2
  <2> QED
    BY <2>1, <2>2 DEF EditLink
<1>6. PICK x \in Rows : /\ chain' = [chain EXCEPT ![t] = [c EXCEPT ![k] = x]]
                        /\ x = new \/ (x = Gone /\ k < Len(c))
  BY <1>3, <1>5 DEF Rows
<1>7. chain'[t] = [c EXCEPT ![k] = x]
  BY <1>6 DEF TypeInv, TypeOK
<1> HIDE DEF c, new
<1>8. chain'[t] \in Seq(Rows) /\ Len(chain'[t]) = Len(c) /\ chain'[t][k] = x
      /\ \A i \in 1 .. Len(c) : i # k => chain'[t][i] = c[i]
  BY <1>1, <1>6, <1>7
<1>9. chain' \in [Tenants -> Seq(Links \cup {Gone})]
  BY <1>6, <1>8 DEF TypeInv, TypeOK, Rows, c
<1>10. ASSUME NEW u \in Tenants, NEW i \in DOMAIN chain'[u], chain'[u][i] # Gone
       PROVE  Owner[chain'[u][i].event] = u
  <2>1. CASE u # t
    BY <1>4, <1>10, <2>1 DEF TypeInv, TypeOK
  <2>2. CASE u = t /\ i # k
    <3>1. i \in DOMAIN c /\ chain'[u][i] = c[i]
      BY <1>1, <1>8, <2>2
    <3> QED
      BY <1>10, <2>2, <3>1 DEF TypeInv, TypeOK, c
  <2>3. CASE u = t /\ i = k
    <3>1. chain'[u][i] = new
      BY <1>6, <1>8, <1>10, <2>3
    <3>2. Owner[l.event] = t
      BY <1>1, GoneIsNoLink DEF TypeInv, TypeOK, c
    <3> QED
      BY <2>3, <3>1, <3>2 DEF new
  <2> QED
    BY <2>1, <2>2, <2>3
<1>11. HeadInv'
  <2>1. ASSUME Len(c) > 0 PROVE chain'[t][Len(c)] # Gone
    <3>1. c[Len(c)] # Gone
      BY <2>1 DEF TypeInv, HeadInv, c
    <3>2. Len(c) \in 1 .. Len(c)
      BY <1>1, <2>1
    <3>3. CASE k = Len(c)
      BY <1>3, <1>6, <1>8, <3>3, GoneIsNoLink
    <3>4. CASE k # Len(c)
      BY <1>8, <3>1, <3>2, <3>4
    <3> QED
      BY <3>3, <3>4
  <2> QED
    BY <1>4, <1>8, <2>1 DEF TypeInv, HeadInv
<1>12. edits' \subseteq Tenants \X Nat
  BY <1>1, PairIn DEF EditLink, Edit, TypeInv, TypeOK
<1> QED
  BY <1>9, <1>10, <1>11, <1>12 DEF EditLink, Edit, TypeInv, TypeOK

LEMMA TypeStep == TypeInv /\ [Next]_vars => TypeInv'
<1> SUFFICES ASSUME TypeInv, [Next]_vars PROVE TypeInv'
  OBVIOUS
<1>1. CASE UNCHANGED vars
  BY <1>1 DEF vars, TypeInv, TypeOK, HeadInv
<1> QED
  BY <1>1, ActorSets, RecordTypes, WriteTypes, TakeTypes, AppendTypes, LeaveTypes, SealTypes,
     CommitTypes, RollBackTypes, StartCheckTypes, CheckLinkTypes, EndTypes, EditEventTypes,
     EditLinkTypes
  DEF Next, LinkStep

-----------------------------------------------------------------------------
(* Locks.                                                                  *)

\* A transaction that links holds the tenant's lock, and keeps it as long as
\* it has links that are not committed.
Holds(s) ==
  /\ session[s].pc = "locked" => holder[session[s].tenant] = s
  /\ \A t \in Tenants : session[s].added[t] # <<>> => holder[t] = s
  /\ s \in Requests /\ session[s].pc = "locked" /\ session[s].taken =>
       session[s].added[session[s].tenant] = <<>>

HolderInv == \A s \in Actors : Holds(s)

LEMMA HolderFrame ==
  ASSUME HolderInv, NEW s \in Actors,
         \A q \in Actors : q # s => session'[q] = session[q],
         \A t \in Tenants : holder[t] # s /\ holder[t] # Nobody => holder'[t] = holder[t],
         TypeInv, Holds(s)'
  PROVE  HolderInv'
<1>1. ASSUME NEW q \in Actors, q # s PROVE Holds(q)'
  <2>1. session'[q] = session[q] /\ Holds(q) /\ Owned(session[q]) /\ q # Nobody
    BY <1>1, ActorSets DEF HolderInv, TypeInv
  <2>2. \A t \in Tenants : holder[t] = q => holder'[t] = q
    BY <1>1, <2>1
  <2> QED
    BY <2>1, <2>2 DEF Holds, Owned
<1> QED
  BY <1>1 DEF HolderInv

LEMMA HolderStep ==
  ASSUME TypeInv, HolderInv, [Next]_vars
  PROVE  HolderInv'
<1>1. ASSUME NEW s \in Requests, NEW e \in Events, Record(s, e) PROVE HolderInv'
  <2>1. s \in Actors /\ TypeOK /\ Holds(s) /\ Owned(session[s])
    BY ActorSets, OwnTypes DEF HolderInv
  <2>2. session'[s] = [pc |-> "linking", tenant |-> Owner[e], todo |-> {e},
                       wrote |-> session[s].wrote \cup {e},
                       taken |-> session[s].taken, added |-> session[s].added]
    BY <1>1, <2>1, RecordEffect
  <2>3. holder' = holder /\ \A q \in Actors : q # s => session'[q] = session[q]
    BY <1>1, <2>1, BecomeOnly DEF Record, TypeOK
  <2>4. Holds(s)'
    BY <2>1, <2>2, <2>3 DEF Holds
  <2> QED
    BY <2>1, <2>3, <2>4, HolderFrame
<1>2. ASSUME NEW s \in Requests, NEW e \in Events, WriteDirectly(s, e) PROVE HolderInv'
  <2>1. s \in Actors /\ TypeOK /\ Holds(s) /\ Owned(session[s])
    BY ActorSets, OwnTypes DEF HolderInv
  <2>2. session'[s] = [pc |-> session[s].pc, tenant |-> session[s].tenant,
                       todo |-> session[s].todo, wrote |-> session[s].wrote \cup {e},
                       taken |-> session[s].taken, added |-> session[s].added]
    BY <1>2, <2>1, WriteEffect
  <2>3. holder' = holder /\ \A q \in Actors : q # s => session'[q] = session[q]
    BY <1>2, <2>1, BecomeOnly DEF WriteDirectly, TypeOK
  <2>4. Holds(s)'
    BY <2>1, <2>2, <2>3 DEF Holds
  <2> QED
    BY <2>1, <2>3, <2>4, HolderFrame
<1>3. ASSUME NEW s \in Actors, TakeLock(s) PROVE HolderInv'
  <2>1. TypeOK /\ Holds(s) /\ Owned(session[s])
    BY OwnTypes DEF HolderInv
  <2>2. session'[s] = [pc |-> "locked", tenant |-> session[s].tenant,
                       todo |-> session[s].todo, wrote |-> session[s].wrote,
                       taken |-> (holder[Tenant(s)] = Nobody), added |-> session[s].added]
    BY <1>3, <2>1, TakeEffect
  <2>3. Tenant(s) = session[s].tenant /\ Tenant(s) \in Tenants
    BY <1>3, <2>1 DEF TakeLock, At, Owned, Tenant
  <2>4. /\ \A q \in Actors : q # s => session'[q] = session[q]
        /\ holder'[Tenant(s)] = s
        /\ \A t \in Tenants : t # Tenant(s) => holder'[t] = holder[t]
        /\ holder[Tenant(s)] \in {Nobody, s}
    BY <1>3, <2>1, <2>3, BecomeOnly DEF TakeLock, MayLock, TypeOK
  <2>5. holder[Tenant(s)] = Nobody => session[s].added[Tenant(s)] = <<>>
    BY <2>1, <2>3, ActorSets DEF Holds
  <2> DEFINE free == holder[Tenant(s)] = Nobody
  <2>6. session'[s].tenant = session[s].tenant /\ session'[s].added = session[s].added
        /\ session'[s].taken = free
    <3>1. session'[s] = [pc |-> "locked", tenant |-> session[s].tenant,
                         todo |-> session[s].todo, wrote |-> session[s].wrote,
                         taken |-> free, added |-> session[s].added]
      BY <2>2
    <3> HIDE DEF free
    <3> QED
      BY <3>1
  <2>7. session'[s].taken => session'[s].added[session'[s].tenant] = <<>>
    <3>1. session'[s].taken => free
      BY <2>6, Zenon
    <3> QED
      BY <2>3, <2>5, <2>6, <3>1
  <2>8. Holds(s)'
    BY <2>1, <2>3, <2>4, <2>6, <2>7 DEF Holds
  <2> QED
    BY <2>4, <2>8, HolderFrame
<1>4. ASSUME NEW s \in Actors, AppendLink(s) PROVE HolderInv'
  <2> DEFINE t == Tenant(s)
             new == IF Linked(Seen(s, t), Turn(s)) THEN session[s].added[t]
                    ELSE Extended(s, Turn(s))
  <2>1. TypeOK /\ Holds(s) /\ Owned(session[s]) /\ session[s] \in Transaction
    BY OwnTypes DEF HolderInv
  <2>2. session'[s] = [pc |-> IF s \in Requests THEN "open" ELSE "locked",
                       tenant |-> session[s].tenant, todo |-> session[s].todo \ {Turn(s)},
                       wrote |-> session[s].wrote, taken |-> session[s].taken,
                       added |-> [session[s].added EXCEPT ![t] = new]]
    BY <1>4, <2>1, AppendEffect
  <2>3. t = session[s].tenant /\ t \in Tenants /\ holder[t] = s
    BY <1>4, <2>1 DEF AppendLink, At, Owned, Tenant, Holds
  <2>4. holder' = holder /\ \A q \in Actors : q # s => session'[q] = session[q]
    BY <1>4, <2>1, BecomeOnly DEF AppendLink, TypeOK
  <2> HIDE DEF new, t
  <2>5. \A u \in Tenants : u # t => session'[s].added[u] = session[s].added[u]
    BY <2>1, <2>2 DEF Transaction
  <2>6. Holds(s)'
    BY <2>1, <2>2, <2>3, <2>4, <2>5 DEF Holds
  <2> QED
    BY <2>4, <2>6, HolderFrame
<1>5. ASSUME NEW s \in Actors, LeaveUnlinked(s) PROVE HolderInv'
  <2>1. TypeOK /\ Holds(s) /\ Owned(session[s])
    BY OwnTypes DEF HolderInv
  <2>2. session'[s] = [pc |-> "open", tenant |-> session[s].tenant, todo |-> {},
                       wrote |-> session[s].wrote, taken |-> session[s].taken,
                       added |-> session[s].added]
    BY <1>5, <2>1, LeaveEffect
  <2>3. Tenant(s) = session[s].tenant /\ Tenant(s) \in Tenants /\ s \in Requests
    BY <1>5, <2>1 DEF LeaveUnlinked, Owned, Tenant
  <2>4. /\ \A q \in Actors : q # s => session'[q] = session[q]
        /\ \/ holder' = holder
           \/ /\ session[s].pc = "locked" /\ session[s].taken
              /\ \A t \in Tenants : t # Tenant(s) => holder'[t] = holder[t]
    BY <1>5, <2>1, <2>3, BecomeOnly DEF LeaveUnlinked, At, TypeOK
  <2>5. Holds(s)'
    BY <2>1, <2>2, <2>3, <2>4 DEF Holds
  <2>6. \A t \in Tenants : holder[t] # s /\ holder[t] # Nobody => holder'[t] = holder[t]
    BY <2>1, <2>3, <2>4 DEF Holds
  <2> QED
    BY <2>4, <2>5, <2>6, HolderFrame
<1>6. ASSUME NEW s \in Actors, NEW t \in Tenants, StartSeal(s, t) PROVE HolderInv'
  <2>1. session'[s] = [pc |-> "locked", tenant |-> t,
                       todo |-> First(SealLimit, Unchained(t)), wrote |-> {},
                       taken |-> TRUE, added |-> Open.added]
    BY <1>6, OwnTypes, SealEffect
  <2>2. \A u \in Tenants : Open.added[u] = <<>>
    BY DEF Open
  <2>3. /\ \A q \in Actors : q # s => session'[q] = session[q]
        /\ holder'[t] = s /\ holder[t] = Nobody
        /\ \A u \in Tenants : u # t => holder'[u] = holder[u]
    BY <1>6, BecomeOnly, OwnTypes DEF StartSeal, TypeOK
  <2>4. Holds(s)'
    BY <2>1, <2>2, <2>3 DEF Holds
  <2> QED
    BY <2>3, <2>4, HolderFrame
<1>7. ASSUME NEW s \in Actors, Commit(s) \/ RollBack(s) PROVE HolderInv'
  <2>1. /\ session'[s] = Open
        /\ \A q \in Actors : q # s => session'[q] = session[q]
        /\ \A t \in Tenants : holder'[t] = IF holder[t] = s THEN Nobody ELSE holder[t]
    BY <1>7, BecomeOnly, OwnTypes DEF Commit, RollBack, Released, TypeOK
  <2>2. \A u \in Tenants : Open.added[u] = <<>>
    BY DEF Open
  <2>3. Holds(s)'
    BY <2>1, <2>2 DEF Holds, Open
  <2> QED
    BY <2>1, <2>3, HolderFrame
<1>8. ASSUME UNCHANGED <<session, holder>> PROVE HolderInv'
  BY <1>8 DEF HolderInv, Holds
<1> QED
  BY <1>1, <1>2, <1>3, <1>4, <1>5, <1>6, <1>7, <1>8, ActorSets
  DEF Next, LinkStep, StartCheck, CheckLink, EndCheck, Report, EditEvent, EditLink, Edit, vars

-----------------------------------------------------------------------------
(* Events.                                                                 *)

\* What a transaction has inserted is not committed, and is its own.
WroteInv ==
  /\ \A s \in Actors : \A e \in session[s].wrote : stored[e] = "absent"
  /\ \A s, q \in Actors : s # q => session[s].wrote \cap session[q].wrote = {}

\* Transaction s can read event e: the row is committed, or its own.
Backed(s, e) == e \in session[s].wrote \/ stored[e] # "absent"

\* What a transaction links, or has linked, it can read.
Backs(s) ==
  /\ \A e \in session[s].todo : Backed(s, e)
  /\ \A t \in Tenants : \A k \in 1 .. Len(session[s].added[t]) :
       Backed(s, session[s].added[t][k].event)

\* What is linked, and committed, is there or was deleted.
RowInv ==
  /\ \A t \in Tenants : \A k \in 1 .. Len(chain[t]) :
       chain[t][k] # Gone => stored[chain[t][k].event] # "absent"
  /\ \A s \in Actors : Backs(s)

\* Only where rows were changed is an event deleted.
DeletedInv == \A e \in Events : stored[e] = "deleted" => ~ Untouched(Owner[e])

EventInv == WroteInv /\ RowInv /\ DeletedInv

\* A step that rewrites one transaction and commits nothing.
LEMMA EventFrame ==
  ASSUME TypeInv, EventInv, NEW s \in Actors,
         \A q \in Actors : q # s => session'[q] = session[q],
         UNCHANGED <<stored, chain, edits>>,
         \A e \in session'[s].wrote :
           e \in session[s].wrote \/ (stored[e] = "absent"
                                      /\ \A q \in Actors : e \notin session[q].wrote),
         Backs(s)'
  PROVE  EventInv'
<1>1. WroteInv'
  BY DEF EventInv, WroteInv
<1>2. ASSUME NEW q \in Actors, q # s PROVE Backs(q)'
  BY <1>2 DEF EventInv, RowInv, Backs, Backed
<1>3. RowInv'
  BY <1>2 DEF EventInv, RowInv
<1>4. DeletedInv'
  BY DEF EventInv, DeletedInv, Untouched
<1> QED
  BY <1>1, <1>3, <1>4 DEF EventInv

\* A step that changes no transaction: events may change that are there.
LEMMA EditFrame ==
  ASSUME TypeInv, EventInv, UNCHANGED session,
         \A e \in Events : stored[e] = "absent" <=> stored'[e] = "absent",
         \A t \in Tenants : \A k \in 1 .. Len(chain'[t]) :
           chain'[t][k] # Gone => stored[chain'[t][k].event] # "absent"
                                  /\ chain'[t][k].event \in Events,
         DeletedInv'
  PROVE  EventInv'
<1>1. ASSUME NEW s \in Actors
      PROVE  /\ session[s].wrote \subseteq Events /\ session[s].todo \subseteq Events
             /\ \A t \in Tenants : \A k \in 1 .. Len(session[s].added[t]) :
                  session[s].added[t][k].event \in Events
  BY SeenFacts DEF TypeInv, TypeOK, Transaction, Links
<1>2. WroteInv'
  BY <1>1 DEF EventInv, WroteInv
<1>3. ASSUME NEW s \in Actors PROVE Backs(s)'
  BY <1>1 DEF EventInv, RowInv, Backs, Backed
<1>4. RowInv'
  BY <1>3 DEF RowInv
<1> QED
  BY <1>2, <1>4 DEF EventInv

LEMMA EventAppend ==
  ASSUME TypeInv, EventInv, NEW s \in Actors, AppendLink(s)
  PROVE  EventInv'
<1> DEFINE t == Tenant(s)
           e == Turn(s)
           a == session[s].added[t]
           l == Link(PrevHash(Seen(s, t), Len(Seen(s, t))), e, Text(s, e))
           new == IF Linked(Seen(s, t), e) THEN a ELSE Extended(s, e)
<1>1. TypeOK /\ session[s] \in Transaction /\ session[s].pc = "locked" /\ session[s].todo # {}
  BY OwnTypes DEF AppendLink, At
<1>2. /\ t \in Tenants /\ e \in session[s].todo /\ l \in Links /\ l.event = e
      /\ Extended(s, e) = Append(a, l)
  BY <1>1, NextLink
<1>3. session'[s] = [pc |-> IF s \in Requests THEN "open" ELSE "locked",
                     tenant |-> session[s].tenant, todo |-> session[s].todo \ {e},
                     wrote |-> session[s].wrote, taken |-> session[s].taken,
                     added |-> [session[s].added EXCEPT ![t] = new]]
  BY <1>1, AppendEffect
<1>4. a \in Seq(Links) /\ Backed(s, e) /\ \A k \in 1 .. Len(a) : Backed(s, a[k].event)
  BY <1>1, <1>2 DEF Transaction, EventInv, RowInv, Backs
<1>5. \A q \in Actors : q # s => session'[q] = session[q]
  BY <1>1, BecomeOnly DEF AppendLink, TypeOK
<1>6. UNCHANGED <<stored, chain, edits>>
  BY DEF AppendLink
<1> HIDE DEF l, a
<1>7. \A k \in 1 .. Len(Append(a, l)) : Backed(s, Append(a, l)[k].event)
  <2>1. Len(Append(a, l)) = Len(a) + 1 /\ Len(a) \in Nat
        /\ Append(a, l)[Len(a) + 1] = l /\ \A k \in 1 .. Len(a) : Append(a, l)[k] = a[k]
    BY <1>2, <1>4
  <2> QED
    BY <1>2, <1>4, <2>1
<1>8. PICK n : n = new /\ \A k \in 1 .. Len(n) : Backed(s, n[k].event)
  BY <1>2, <1>4, <1>7
<1>9. PICK u : u = t
  OBVIOUS
<1> HIDE DEF new, t, e
<1>10. /\ session'[s].wrote = session[s].wrote
       /\ session'[s].todo \subseteq session[s].todo
       /\ \A v \in Tenants : session'[s].added[v] = IF v = u THEN n ELSE session[s].added[v]
  BY <1>1, <1>2, <1>3, <1>8, <1>9 DEF Transaction
<1>11. Backs(s)'
  <2>1. \A x : Backed(s, x)' <=> Backed(s, x)
    BY <1>6, <1>10 DEF Backed
  <2>2. \A x \in session[s].todo : Backed(s, x)
    BY DEF EventInv, RowInv, Backs
  <2>3. \A v \in Tenants : \A k \in 1 .. Len(session[s].added[v]) :
          Backed(s, session[s].added[v][k].event)
    BY DEF EventInv, RowInv, Backs
  <2>4. \A x \in session'[s].todo : Backed(s, x)
    BY <1>10, <2>2
  <2>5. \A v \in Tenants : \A k \in 1 .. Len(session'[s].added[v]) :
          Backed(s, session'[s].added[v][k].event)
    BY <1>8, <1>10, <2>3
  <2> QED
    BY <1>6, <1>10, <2>4, <2>5 DEF Backs, Backed
<1> QED
  BY <1>5, <1>6, <1>10, <1>11, EventFrame

\* What a transaction sees linked it can read.
LEMMA SeenBacked ==
  ASSUME TypeInv, EventInv, NEW s \in Actors, NEW t \in Tenants,
         NEW k \in 1 .. Len(Seen(s, t)), Seen(s, t)[k] # Gone
  PROVE  Seen(s, t)[k].event \in Events /\ Backed(s, Seen(s, t)[k].event)
<1>1. PICK c : c = chain[t]
  OBVIOUS
<1>2. PICK a : a = session[s].added[t]
  OBVIOUS
<1>3. PICK d : d = Seen(s, t)
  OBVIOUS
<1>4. /\ c \in Seq(Rows) /\ a \in Seq(Links) /\ d \in Seq(Rows) /\ Len(d) = Len(c) + Len(a)
      /\ \A i \in 1 .. Len(c) : d[i] = c[i]
      /\ \A i \in 1 .. Len(a) : d[Len(c) + i] = a[i]
  BY <1>1, <1>2, <1>3, SeenFacts
<1>5. \A i \in 1 .. Len(a) : Backed(s, a[i].event)
  BY <1>2 DEF EventInv, RowInv, Backs
<1>6. \A i \in 1 .. Len(c) : c[i] # Gone => Backed(s, c[i].event)
  BY <1>1 DEF EventInv, RowInv, Backed
<1>7. k \in 1 .. Len(c) + Len(a) /\ Len(c) \in Nat /\ Len(a) \in Nat
  BY <1>3, <1>4
<1>8. d[k] \in Links
  BY <1>3, <1>4 DEF Rows
<1>9. CASE k \in 1 .. Len(c)
  BY <1>3, <1>4, <1>6, <1>8, <1>9 DEF Links
<1>10. CASE k \notin 1 .. Len(c)
  <2>1. PICK i \in 1 .. Len(a) : k = Len(c) + i
    <3>1. k - Len(c) \in 1 .. Len(a) /\ k = Len(c) + (k - Len(c))
      BY <1>7, <1>10
    <3> QED
      BY <3>1
  <2> QED
    BY <1>3, <1>4, <1>5, <1>8, <2>1 DEF Links
<1> QED
  BY <1>9, <1>10

LEMMA EventCommit ==
  ASSUME TypeInv, EventInv, NEW s \in Actors, Commit(s)
  PROVE  EventInv'
<1>1. /\ session'[s] = Open
      /\ \A q \in Actors : q # s => session'[q] = session[q]
      /\ \A t \in Tenants : chain'[t] = Seen(s, t)
      /\ \A e \in Events : stored'[e] = IF e \in session[s].wrote THEN "written" ELSE stored[e]
      /\ edits' = edits
  BY CommitEffect
<1>2. \A q \in Actors : session[q].wrote \subseteq Events /\ session[q].todo \subseteq Events
  BY DEF TypeInv, TypeOK, Transaction
<1>3. WroteInv'
  BY <1>1, <1>2 DEF EventInv, WroteInv, Open
<1>4. \A q \in Actors : \A e \in Events : q # s /\ Backed(q, e) => Backed(q, e)'
  BY <1>1 DEF Backed
<1>5. ASSUME NEW q \in Actors PROVE Backs(q)'
  <2>1. CASE q = s
    <3>1. session'[q].todo = {} /\ \A t \in Tenants : session'[q].added[t] = <<>>
      BY <1>1, <2>1 DEF Open
    <3> QED
      BY <3>1 DEF Backs
  <2>2. CASE q # s
    <3>1. \A t \in Tenants : \A k \in 1 .. Len(session[q].added[t]) :
            session[q].added[t][k].event \in Events
      BY SeenFacts DEF Links
    <3> QED
      BY <1>1, <1>2, <1>4, <2>2, <3>1 DEF EventInv, RowInv, Backs
  <2> QED
    BY <2>1, <2>2
<1>6. ASSUME NEW t \in Tenants, NEW k \in 1 .. Len(chain'[t]), chain'[t][k] # Gone
      PROVE  stored'[chain'[t][k].event] # "absent"
  <2>1. chain'[t] = Seen(s, t)
    BY <1>1
  <2>2. Backed(s, Seen(s, t)[k].event) /\ Seen(s, t)[k].event \in Events
    BY <1>6, <2>1, SeenBacked
  <2> QED
    BY <1>1, <2>1, <2>2 DEF Backed
<1>7. DeletedInv'
  BY <1>1 DEF EventInv, DeletedInv, Untouched
<1> QED
  BY <1>3, <1>5, <1>6, <1>7 DEF EventInv, RowInv

\* A link that is edited still names its event.
LEMMA EditedLink ==
  ASSUME TypeInv, NEW t \in Tenants, NEW k \in DOMAIN chain[t], EditLink(t, k),
         NEW u \in Tenants, NEW i \in 1 .. Len(chain'[u]), chain'[u][i] # Gone
  PROVE  /\ i \in 1 .. Len(chain[u]) /\ chain[u][i] # Gone
         /\ chain'[u][i].event = chain[u][i].event
<1>1. PICK c : c = chain[t]
  OBVIOUS
<1>2. c \in Seq(Rows) /\ k \in 1 .. Len(c) /\ c[k] \in Links /\ c[k] # Gone
  BY <1>1 DEF EditLink, Edit, TypeInv, TypeOK, Rows
<1>3. CASE u # t
  BY <1>3 DEF EditLink, TypeInv, TypeOK
<1>4. CASE u = t /\ chain' = [chain EXCEPT ![t][k].hash = Rewritten]
  <2>1. chain'[t] = [c EXCEPT ![k] = [c[k] EXCEPT !.hash = Rewritten]]
    BY <1>1, <1>4 DEF TypeInv, TypeOK
  <2>2. [c[k] EXCEPT !.hash = Rewritten].event = c[k].event
    BY <1>2 DEF Links
  <2>3. DOMAIN chain'[t] = 1 .. Len(c) /\ Len(chain'[t]) = Len(c)
    BY <1>2, <2>1
  <2>4. i \in 1 .. Len(c)
    BY <1>4, <2>3
  <2>5. chain'[t][i] = IF i = k THEN [c[k] EXCEPT !.hash = Rewritten] ELSE c[i]
    BY <1>2, <2>1, <2>4
  <2> QED
    BY <1>1, <1>2, <1>4, <2>2, <2>4, <2>5
<1>5. CASE u = t /\ chain' = [chain EXCEPT ![t][k] = Gone]
  <2>1. chain'[t] = [c EXCEPT ![k] = Gone]
    BY <1>1, <1>5 DEF TypeInv, TypeOK
  <2>2. DOMAIN chain'[t] = 1 .. Len(c) /\ Len(chain'[t]) = Len(c)
    BY <1>2, <2>1
  <2>3. i \in 1 .. Len(c) /\ chain'[t][i] = IF i = k THEN Gone ELSE c[i]
    BY <1>2, <1>5, <2>1, <2>2
  <2> QED
    BY <1>1, <1>5, <2>3
<1> QED
  BY <1>3, <1>4, <1>5 DEF EditLink

LEMMA EventEdit ==
  ASSUME TypeInv, EventInv, NEW t \in Tenants, NEW k \in DOMAIN chain[t],
         EditEvent(t, k) \/ EditLink(t, k)
  PROVE  EventInv'
<1>1. Edit(t, k) /\ session' = session /\ edits' = edits \cup {<<t, k>>} /\ chain[t][k] # Gone
  BY DEF EditEvent, EditLink, Edit
<1>2. chain[t] \in Seq(Rows) /\ k \in 1 .. Len(chain[t]) /\ chain[t][k] \in Links
  BY <1>1 DEF TypeInv, TypeOK, Rows
<1>3. ~ Untouched(t)' /\ \A u \in Tenants : ~ Untouched(u) => ~ Untouched(u)'
  <2>1. <<t, k>> \in edits' /\ <<t, k>>[1] = t
    BY <1>1
  <2>2. ~ Untouched(t)'
    BY <2>1, Zenon DEF Untouched
  <2>3. \A u \in Tenants : ~ Untouched(u) => ~ Untouched(u)'
    BY <1>1, Zenon DEF Untouched
  <2> QED
    BY <2>2, <2>3
<1>4. \A u \in Tenants : \A i \in 1 .. Len(chain[u]) : chain[u][i] # Gone =>
        stored[chain[u][i].event] # "absent" /\ chain[u][i].event \in Events
  BY DEF EventInv, RowInv, TypeInv, TypeOK, Links
<1>5. CASE EditEvent(t, k)
  <2> DEFINE e == chain[t][k].event
  <2>1. e \in Events /\ Owner[e] = t /\ stored[e] # "absent"
    BY <1>1, <1>2, <1>4 DEF TypeInv, TypeOK
  <2>2. PICK text \in {"edited", "deleted"} : stored' = [stored EXCEPT ![e] = text]
    BY <1>5 DEF EditEvent
  <2>3. chain' = chain
    BY <1>5 DEF EditEvent
  <2>4. \A x \in Events : stored'[x] = IF x = e THEN text ELSE stored[x]
    BY <2>2 DEF TypeInv, TypeOK
  <2> HIDE DEF e
  <2>5. \A x \in Events : stored[x] = "absent" <=> stored'[x] = "absent"
    BY <2>1, <2>4
  <2>6. DeletedInv'
    BY <1>3, <2>1, <2>4, OwnerTyped DEF EventInv, DeletedInv
  <2> QED
    BY <1>1, <1>4, <2>3, <2>5, <2>6, EditFrame
<1>6. CASE EditLink(t, k)
  <2>1. stored' = stored
    BY <1>6 DEF EditLink
  <2>2. DeletedInv'
    BY <1>3, <2>1, OwnerTyped DEF EventInv, DeletedInv
  <2>3. ASSUME NEW u \in Tenants, NEW i \in 1 .. Len(chain'[u]), chain'[u][i] # Gone
        PROVE  i \in 1 .. Len(chain[u]) /\ chain[u][i] # Gone
               /\ chain'[u][i].event = chain[u][i].event
    BY <1>1, <1>6, <2>3, EditedLink
  <2> QED
    BY <1>1, <1>4, <2>1, <2>2, <2>3, EditFrame
<1> QED
  BY <1>5, <1>6

LEMMA EventStep ==
  ASSUME TypeInv, EventInv, [Next]_vars
  PROVE  EventInv'
<1>1. ASSUME NEW s \in Requests, NEW e \in Events, Record(s, e) \/ WriteDirectly(s, e)
      PROVE  EventInv'
  <2>1. s \in Actors /\ TypeOK
    BY ActorSets, OwnTypes
  <2>2. /\ session'[s].wrote = session[s].wrote \cup {e}
        /\ session'[s].todo \subseteq session[s].todo \cup {e}
        /\ session'[s].added = session[s].added
    <3>1. CASE Record(s, e)
      <4>1. session'[s] = [pc |-> "linking", tenant |-> Owner[e], todo |-> {e},
                           wrote |-> session[s].wrote \cup {e},
                           taken |-> session[s].taken, added |-> session[s].added]
        BY <2>1, <3>1, RecordEffect
      <4> QED
        BY <4>1
    <3>2. CASE WriteDirectly(s, e)
      <4>1. session'[s] = [pc |-> session[s].pc, tenant |-> session[s].tenant,
                           todo |-> session[s].todo, wrote |-> session[s].wrote \cup {e},
                           taken |-> session[s].taken, added |-> session[s].added]
        BY <2>1, <3>2, WriteEffect
      <4> QED
        BY <4>1
    <3> QED
      BY <1>1, <3>1, <3>2
  <2>3. \A q \in Actors : q # s => session'[q] = session[q]
    BY <1>1, <2>1, BecomeOnly DEF Record, WriteDirectly, TypeOK
  <2>4. Fresh(e) /\ UNCHANGED <<stored, chain, edits>>
    BY <1>1 DEF Record, WriteDirectly
  <2>5. Backs(s)'
    BY <2>1, <2>2, <2>4 DEF Backs, Backed, EventInv, RowInv
  <2> QED
    BY <2>1, <2>2, <2>3, <2>4, <2>5, EventFrame DEF Fresh
<1>2. ASSUME NEW s \in Actors, TakeLock(s) \/ LeaveUnlinked(s) PROVE EventInv'
  <2>1. /\ session'[s].wrote = session[s].wrote
        /\ session'[s].todo \subseteq session[s].todo
        /\ session'[s].added = session[s].added
    <3>1. CASE TakeLock(s)
      <4> DEFINE free == holder[Tenant(s)] = Nobody
      <4>1. session'[s] = [pc |-> "locked", tenant |-> session[s].tenant,
                           todo |-> session[s].todo, wrote |-> session[s].wrote,
                           taken |-> free, added |-> session[s].added]
        BY <3>1, OwnTypes, TakeEffect
      <4> HIDE DEF free
      <4> QED
        BY <4>1
    <3>2. CASE LeaveUnlinked(s)
      <4>1. session'[s] = [pc |-> "open", tenant |-> session[s].tenant, todo |-> {},
                           wrote |-> session[s].wrote, taken |-> session[s].taken,
                           added |-> session[s].added]
        BY <3>2, OwnTypes, LeaveEffect
      <4> QED
        BY <4>1
    <3> QED
      BY <1>2, <3>1, <3>2
  <2>2. \A q \in Actors : q # s => session'[q] = session[q]
    BY <1>2, OwnTypes, BecomeOnly DEF TakeLock, LeaveUnlinked, TypeOK
  <2>3. UNCHANGED <<stored, chain, edits>>
    BY <1>2 DEF TakeLock, LeaveUnlinked
  <2>4. Backs(s)'
    BY <2>1, <2>3 DEF Backs, Backed, EventInv, RowInv
  <2> QED
    BY <2>1, <2>2, <2>3, <2>4, EventFrame
<1>3. ASSUME NEW s \in Actors, NEW t \in Tenants, StartSeal(s, t) PROVE EventInv'
  <2>1. session'[s] = [pc |-> "locked", tenant |-> t,
                       todo |-> First(SealLimit, Unchained(t)), wrote |-> {},
                       taken |-> TRUE, added |-> Open.added]
    BY <1>3, OwnTypes, SealEffect
  <2>2. \A u \in Tenants : Open.added[u] = <<>>
    BY DEF Open
  <2>3. \A q \in Actors : q # s => session'[q] = session[q]
    BY <1>3, OwnTypes, BecomeOnly DEF StartSeal, TypeOK
  <2>4. UNCHANGED <<stored, chain, edits>>
    BY <1>3 DEF StartSeal
  <2>5. \A e \in First(SealLimit, Unchained(t)) : stored[e] # "absent"
    BY DEF First, Unchained, Exists
  <2>6. Backs(s)'
    BY <2>1, <2>2, <2>4, <2>5 DEF Backs, Backed
  <2> QED
    BY <2>1, <2>3, <2>4, <2>6, EventFrame
<1>4. ASSUME NEW s \in Actors, RollBack(s) PROVE EventInv'
  <2>1. session'[s] = Open /\ \A q \in Actors : q # s => session'[q] = session[q]
    BY <1>4, OwnTypes, BecomeOnly DEF RollBack, TypeOK
  <2>2. Open.wrote = {} /\ Open.todo = {} /\ \A u \in Tenants : Open.added[u] = <<>>
    BY DEF Open
  <2>3. UNCHANGED <<stored, chain, edits>>
    BY <1>4 DEF RollBack
  <2>4. Backs(s)'
    BY <2>1, <2>2 DEF Backs
  <2> QED
    BY <2>1, <2>2, <2>3, <2>4, EventFrame
<1>5. ASSUME UNCHANGED <<session, stored, chain, edits>> PROVE EventInv'
  BY <1>5 DEF EventInv, WroteInv, RowInv, Backs, Backed, DeletedInv, Untouched
<1> QED
  BY <1>1, <1>2, <1>3, <1>4, <1>5, EventAppend, EventCommit, EventEdit, ActorSets
  DEF Next, LinkStep, StartCheck, CheckLink, EndCheck, Report, vars

-----------------------------------------------------------------------------
(* What nobody changed is one whole chain.                                 *)

\* What a transaction reads of each event.
Reads(s) == [e \in Events |-> Text(s, e)]

\* The chain a transaction extends, or has extended, is whole as it reads it.
SeenWhole == \A s \in Actors, t \in Tenants :
  holder[t] = s /\ Untouched(t) => Whole(Seen(s, t), Reads(s))

ChainInv == TypeInv /\ HolderInv /\ EventInv /\ ChainIsWhole /\ SeenWhole

LEMMA ReadsFacts ==
  ASSUME TypeInv, NEW s \in Actors
  PROVE  /\ Reads(s) \in [Events -> Texts]
         /\ \A e \in Events : Reads(s)[e] = IF e \in session[s].wrote THEN "written" ELSE stored[e]
BY DEF Reads, Text, TypeInv, TypeOK, Texts

\* What is linked and committed reads the same for every transaction.
\* g is what is stored, with the new events w over it.
Overlaid(g, w) ==
  /\ w \in SUBSET Events
  /\ \A e \in w : stored[e] = "absent"
  /\ \A e \in Events : g[e] = IF e \in w THEN "written" ELSE stored[e]

LEMMA ChainReads ==
  ASSUME TypeInv, EventInv, ChainIsWhole, NEW t \in Tenants, Untouched(t),
         NEW w, NEW g, Overlaid(g, w)
  PROVE  Whole(chain[t], g)
<1>1. PICK c : c = chain[t]
  OBVIOUS
<1>2. c \in Seq(Rows) /\ Whole(c, stored)
  BY <1>1 DEF TypeInv, TypeOK, Rows, ChainIsWhole
<1>3. ASSUME NEW k \in 1 .. Len(c) PROVE g[c[k].event] = stored[c[k].event]
  <2>1. c[k] # Gone /\ c[k] \in Links
    BY <1>2, WholeHasLinks
  <2>2. c[k].event \in Events /\ stored[c[k].event] # "absent"
    BY <1>1, <2>1 DEF EventInv, RowInv, Links
  <2> QED
    BY <2>2 DEF Overlaid
<1>4. Whole(c, g)
  BY <1>2, <1>3, WholeAgrees
<1> QED
  BY <1>1, <1>4

\* A chain that a transaction sees stays whole for texts that agree on what
\* it can read.
LEMMA SeenAgrees ==
  ASSUME TypeInv, EventInv, NEW s \in Actors, NEW t \in Tenants,
         Whole(Seen(s, t), Reads(s)), NEW g,
         \A e \in Events : Owner[e] = t /\ Backed(s, e) => g[e] = Reads(s)[e]
  PROVE  Whole(Seen(s, t), g)
<1>1. PICK d : d = Seen(s, t)
  OBVIOUS
<1>2. d \in Seq(Rows) /\ Whole(d, Reads(s))
  BY <1>1, SeenFacts
<1>3. ASSUME NEW k \in 1 .. Len(d) PROVE g[d[k].event] = Reads(s)[d[k].event]
  <2>1. d[k] # Gone /\ k \in DOMAIN d
    BY <1>2, WholeHasLinks
  <2>2. d[k].event \in Events /\ Backed(s, d[k].event) /\ Owner[d[k].event] = t
    BY <1>1, <2>1, SeenBacked, SeenOwned
  <2> QED
    BY <2>2
<1>4. Whole(d, g)
  BY <1>2, <1>3, WholeAgrees
<1> QED
  BY <1>1, <1>4

\* A step that rewrites one transaction and commits nothing.
LEMMA WholeFrame ==
  ASSUME ChainInv, NEW s \in Actors,
         \A q \in Actors : q # s => session'[q] = session[q],
         UNCHANGED <<stored, chain, edits>>,
         \A t \in Tenants : holder'[t] \in {holder[t], s, Nobody},
         \A t \in Tenants : holder'[t] = s /\ Untouched(t) => Whole(Seen(s, t), Reads(s))'
  PROVE  ChainIsWhole' /\ SeenWhole'
<1>1. \A t \in Tenants : Untouched(t)' <=> Untouched(t)
  BY DEF Untouched
<1>2. ChainIsWhole'
  BY <1>1 DEF ChainInv, ChainIsWhole
<1>3. ASSUME NEW q \in Actors, q # s, NEW t \in Tenants, holder'[t] = q, Untouched(t)'
      PROVE  Whole(Seen(q, t), Reads(q))'
  <2>1. holder[t] = q /\ session'[q] = session[q]
    BY <1>3, ActorSets
  <2>2. Whole(Seen(q, t), Reads(q))
    BY <1>1, <1>3, <2>1 DEF ChainInv, SeenWhole
  <2>3. Seen(q, t)' = Seen(q, t)
    BY <2>1 DEF Seen
  <2>4. Reads(q)' = Reads(q)
    BY <2>1 DEF Reads, Text
  <2> QED
    BY <2>2, <2>3, <2>4 DEF Whole
<1>4. SeenWhole'
  BY <1>1, <1>3 DEF SeenWhole
<1> QED
  BY <1>2, <1>4

\* A step that leaves what a transaction has linked and inserted alone.
LEMMA WholeStays ==
  ASSUME ChainInv, NEW s \in Actors, NEW t \in Tenants, holder[t] = s, Untouched(t),
         UNCHANGED <<stored, chain>>, session'[s].added = session[s].added,
         session'[s].wrote = session[s].wrote
  PROVE  Whole(Seen(s, t), Reads(s))'
<1>1. Whole(Seen(s, t), Reads(s))
  BY DEF ChainInv, SeenWhole
<1>2. Seen(s, t)' = Seen(s, t)
  BY DEF Seen
<1>3. Reads(s)' = Reads(s)
  BY DEF Reads, Text
<1> QED
  BY <1>1, <1>2, <1>3 DEF Whole

\* A transaction without links of tenant t sees the chain as committed.
LEMMA WholeFresh ==
  ASSUME ChainInv, NEW s \in Actors, NEW t \in Tenants, Untouched(t),
         UNCHANGED <<stored, chain>>, session'[s].added[t] = <<>>,
         session'[s].wrote \in SUBSET Events,
         \A e \in session'[s].wrote : stored[e] = "absent"
  PROVE  Whole(Seen(s, t), Reads(s))'
<1>1. Seen(s, t)' = chain[t]
  BY SeenFacts, ConcatEmpty DEF Seen, ChainInv
<1>2. PICK g : g = Reads(s)'
  OBVIOUS
<1>3. \A e \in Events : g[e] = IF e \in session'[s].wrote THEN "written" ELSE stored[e]
  BY <1>2 DEF Reads, Text
<1>4. PICK w : w = session'[s].wrote
  OBVIOUS
<1>5. Overlaid(g, w)
  BY <1>3, <1>4 DEF Overlaid
<1>6. TypeInv /\ EventInv /\ ChainIsWhole
  BY DEF ChainInv
<1>7. Whole(chain[t], g)
  BY <1>5, <1>6, ChainReads
<1> QED
  BY <1>1, <1>2, <1>7 DEF Whole

LEMMA WholeInsert ==
  ASSUME ChainInv, NEW s \in Requests, NEW e \in Events, Record(s, e) \/ WriteDirectly(s, e)
  PROVE  ChainIsWhole' /\ SeenWhole'
<1>1. s \in Actors /\ TypeOK /\ TypeInv
  BY ActorSets, OwnTypes DEF ChainInv
<1>2. session'[s].wrote = session[s].wrote \cup {e} /\ session'[s].added = session[s].added
  <2>1. CASE Record(s, e)
    <3>1. session'[s] = [pc |-> "linking", tenant |-> Owner[e], todo |-> {e},
                         wrote |-> session[s].wrote \cup {e},
                         taken |-> session[s].taken, added |-> session[s].added]
      BY <1>1, <2>1, RecordEffect
    <3> QED
      BY <3>1
  <2>2. CASE WriteDirectly(s, e)
    <3>1. session'[s] = [pc |-> session[s].pc, tenant |-> session[s].tenant,
                         todo |-> session[s].todo, wrote |-> session[s].wrote \cup {e},
                         taken |-> session[s].taken, added |-> session[s].added]
      BY <1>1, <2>2, WriteEffect
    <3> QED
      BY <3>1
  <2> QED
    BY <2>1, <2>2
<1>3. /\ \A q \in Actors : q # s => session'[q] = session[q]
      /\ UNCHANGED <<stored, chain, edits, holder>>
      /\ stored[e] = "absent" /\ e \notin session[s].wrote
  BY <1>1, BecomeOnly DEF Record, WriteDirectly, Fresh, TypeOK
<1>4. ASSUME NEW t \in Tenants, holder'[t] = s, Untouched(t)
      PROVE  Whole(Seen(s, t), Reads(s))'
  <2>1. Whole(Seen(s, t), Reads(s))
    BY <1>1, <1>3, <1>4 DEF ChainInv, SeenWhole
  <2>2. PICK g : g = Reads(s)'
    OBVIOUS
  <2>3. \A x \in Events : g[x] = IF x \in session'[s].wrote THEN "written" ELSE stored[x]
    BY <1>3, <2>2 DEF Reads, Text
  <2>4. \A x \in Events : Backed(s, x) => g[x] = Reads(s)[x]
    BY <1>1, <1>2, <1>3, <2>3, ReadsFacts DEF Backed
  <2>5. Whole(Seen(s, t), g)
    BY <1>1, <2>1, <2>4, SeenAgrees DEF ChainInv
  <2>6. Seen(s, t)' = Seen(s, t)
    BY <1>2, <1>3 DEF Seen
  <2> QED
    BY <2>2, <2>5, <2>6 DEF Whole
<1> QED
  BY <1>1, <1>3, <1>4, WholeFrame

LEMMA WholeTake ==
  ASSUME ChainInv, NEW s \in Actors, TakeLock(s)
  PROVE  ChainIsWhole' /\ SeenWhole'
<1>1. TypeOK /\ TypeInv /\ Holds(s) /\ Owned(session[s]) /\ session[s].wrote \in SUBSET Events
  BY OwnTypes DEF ChainInv, HolderInv, Transaction
<1>2. session'[s].wrote = session[s].wrote /\ session'[s].added = session[s].added
  <2> DEFINE free == holder[Tenant(s)] = Nobody
  <2>1. session'[s] = [pc |-> "locked", tenant |-> session[s].tenant,
                       todo |-> session[s].todo, wrote |-> session[s].wrote,
                       taken |-> free, added |-> session[s].added]
    BY <1>1, TakeEffect
  <2> HIDE DEF free
  <2> QED
    BY <2>1
<1>3. /\ \A q \in Actors : q # s => session'[q] = session[q]
      /\ UNCHANGED <<stored, chain, edits>>
      /\ Tenant(s) \in Tenants /\ holder[Tenant(s)] \in {Nobody, s}
      /\ \A t \in Tenants : holder'[t] = IF t = Tenant(s) THEN s ELSE holder[t]
  BY <1>1, BecomeOnly DEF TakeLock, At, MayLock, Owned, Tenant, TypeOK
<1>4. ASSUME NEW t \in Tenants, holder'[t] = s, Untouched(t)
      PROVE  Whole(Seen(s, t), Reads(s))'
  <2>1. CASE holder[t] = s
    BY <1>2, <1>3, <1>4, <2>1, WholeStays
  <2>2. CASE holder[t] # s
    <3>1. session'[s].added[t] = <<>>
      BY <1>1, <1>2, <2>2 DEF Holds
    <3>2. \A e \in session'[s].wrote : stored[e] = "absent"
      BY <1>2 DEF ChainInv, EventInv, WroteInv
    <3> QED
      BY <1>1, <1>2, <1>3, <1>4, <3>1, <3>2, WholeFresh
  <2> QED
    BY <2>1, <2>2
<1> QED
  BY <1>3, <1>4, WholeFrame

LEMMA WholeLink ==
  ASSUME ChainInv, NEW s \in Actors, AppendLink(s)
  PROVE  ChainIsWhole' /\ SeenWhole'
<1>1. TypeOK /\ TypeInv /\ session[s] \in Transaction
      /\ session[s].pc = "locked" /\ session[s].todo # {}
  BY OwnTypes DEF ChainInv, AppendLink, At
<1>2. PICK t : t = Tenant(s)
  OBVIOUS
<1>3. PICK e : e = Turn(s)
  OBVIOUS
<1>4. PICK d : d = Seen(s, t)
  OBVIOUS
<1>5. PICK f : f = Reads(s)
  OBVIOUS
<1>6. PICK l : l = Link(PrevHash(d, Len(d)), e, f[e])
  OBVIOUS
<1>7. /\ t \in Tenants /\ e \in Events /\ l \in Links
      /\ Extended(s, e) = Append(session[s].added[t], l)
  <2>1. e \in Events
    BY <1>1, <1>3, NextLink
  <2>2. f[e] = Text(s, e)
    BY <1>5, <2>1 DEF Reads
  <2> QED
    BY <1>1, <1>2, <1>3, <1>4, <1>6, <2>1, <2>2, NextLink
<1>8. PICK n : n = IF Linked(d, e) THEN session[s].added[t] ELSE Append(session[s].added[t], l)
  OBVIOUS
<1>9. /\ session'[s].wrote = session[s].wrote
      /\ \A u \in Tenants : session'[s].added[u] = IF u = t THEN n ELSE session[s].added[u]
  <2>1. session'[s] = [pc |-> IF s \in Requests THEN "open" ELSE "locked",
                       tenant |-> session[s].tenant, todo |-> session[s].todo \ {e},
                       wrote |-> session[s].wrote, taken |-> session[s].taken,
                       added |-> [session[s].added EXCEPT ![t] = n]]
    BY <1>1, <1>2, <1>3, <1>4, <1>7, <1>8, AppendEffect
  <2> QED
    BY <1>1, <1>7, <2>1 DEF Transaction
<1>10. /\ \A q \in Actors : q # s => session'[q] = session[q]
       /\ UNCHANGED <<stored, chain, edits, holder>>
  BY <1>1, BecomeOnly DEF AppendLink, TypeOK
<1>11. Reads(s)' = Reads(s)
  BY <1>9, <1>10 DEF Reads, Text
<1>12. ASSUME NEW u \in Tenants, holder'[u] = s, Untouched(u)
       PROVE  Whole(Seen(s, u), Reads(s))'
  <2>1. Whole(Seen(s, u), Reads(s))
    BY <1>10, <1>12 DEF ChainInv, SeenWhole
  <2>2. CASE u # t \/ Linked(d, e)
    <3>1. Seen(s, u)' = Seen(s, u)
      BY <1>8, <1>9, <1>10, <2>2 DEF Seen
    <3> QED
      BY <1>11, <2>1, <3>1 DEF Whole
  <2>3. CASE u = t /\ ~ Linked(d, e)
    <3>1. PICK c : c = chain[t]
      OBVIOUS
    <3>2. PICK a : a = session[s].added[t]
      OBVIOUS
    <3>3. c \in Seq(Rows) /\ a \in Seq(Rows) /\ l \in Rows /\ d = c \o a /\ d \in Seq(Rows)
      BY <1>1, <1>4, <1>7, <3>1, <3>2, SeenFacts DEF Seen, Rows
    <3>4. Seen(s, u)' = c \o Append(a, l)
      BY <1>7, <1>8, <1>9, <1>10, <2>3, <3>1, <3>2 DEF Seen
    <3>5. c \o Append(a, l) = Append(d, l)
      BY <3>3, ConcatAppend
    <3>6. f \in [Events -> Texts] /\ Whole(d, f)
      BY <1>1, <1>4, <1>5, <2>1, <2>3, ReadsFacts
    <3>7. Whole(Append(d, l), f)
      BY <1>6, <1>7, <2>3, <3>3, <3>6, WholeAppend
    <3> QED
      BY <1>5, <1>11, <3>4, <3>5, <3>7 DEF Whole
  <2> QED
    BY <2>2, <2>3
<1> QED
  BY <1>10, <1>12, WholeFrame

LEMMA WholeOthers ==
  ASSUME ChainInv, NEW s \in Actors,
         LeaveUnlinked(s) \/ RollBack(s) \/ \E t \in Tenants : StartSeal(s, t)
  PROVE  ChainIsWhole' /\ SeenWhole'
<1>1. TypeOK /\ TypeInv
  BY OwnTypes DEF ChainInv
<1>2. CASE LeaveUnlinked(s)
  <2>1. session'[s].wrote = session[s].wrote /\ session'[s].added = session[s].added
    <3>1. session'[s] = [pc |-> "open", tenant |-> session[s].tenant, todo |-> {},
                         wrote |-> session[s].wrote, taken |-> session[s].taken,
                         added |-> session[s].added]
      BY <1>1, <1>2, LeaveEffect
    <3> QED
      BY <3>1
  <2>2. /\ \A q \in Actors : q # s => session'[q] = session[q]
        /\ UNCHANGED <<stored, chain, edits>>
        /\ \A t \in Tenants : holder'[t] \in {holder[t], Nobody}
    BY <1>1, <1>2, BecomeOnly DEF LeaveUnlinked, TypeOK
  <2>3. ASSUME NEW t \in Tenants, holder'[t] = s, Untouched(t)
        PROVE  Whole(Seen(s, t), Reads(s))'
    <3>1. holder[t] = s
      BY <2>2, <2>3, ActorSets
    <3> QED
      BY <2>1, <2>2, <2>3, <3>1, WholeStays
  <2> QED
    BY <2>2, <2>3, WholeFrame
<1>3. CASE RollBack(s)
  <2>1. /\ \A q \in Actors : q # s => session'[q] = session[q]
        /\ UNCHANGED <<stored, chain, edits>>
        /\ \A t \in Tenants : holder'[t] = IF holder[t] = s THEN Nobody ELSE holder[t]
    BY <1>1, <1>3, BecomeOnly DEF RollBack, Released, TypeOK
  <2>2. \A t \in Tenants : holder'[t] # s
    BY <2>1, ActorSets
  <2> QED
    BY <2>1, <2>2, WholeFrame
<1>4. ASSUME NEW t \in Tenants, StartSeal(s, t) PROVE ChainIsWhole' /\ SeenWhole'
  <2>1. session'[s] = [pc |-> "locked", tenant |-> t,
                       todo |-> First(SealLimit, Unchained(t)), wrote |-> {},
                       taken |-> TRUE, added |-> Open.added]
    BY <1>1, <1>4, SealEffect
  <2>2. \A u \in Tenants : session'[s].added[u] = <<>>
    BY <2>1 DEF Open
  <2>3. session'[s].wrote = {}
    BY <2>1
  <2>4. /\ \A q \in Actors : q # s => session'[q] = session[q]
        /\ UNCHANGED <<stored, chain, edits>>
        /\ \A u \in Tenants : holder'[u] \in {holder[u], s}
    BY <1>1, <1>4, BecomeOnly DEF StartSeal, TypeOK
  <2>5. ASSUME NEW u \in Tenants, Untouched(u) PROVE Whole(Seen(s, u), Reads(s))'
    BY <2>2, <2>3, <2>4, <2>5, WholeFresh
  <2> QED
    BY <2>4, <2>5, WholeFrame
<1> QED
  BY <1>2, <1>3, <1>4

LEMMA WholeCommit ==
  ASSUME ChainInv, NEW s \in Actors, Commit(s)
  PROVE  ChainIsWhole' /\ SeenWhole'
<1>1. TypeInv /\ EventInv /\ TypeOK
  BY OwnTypes DEF ChainInv
<1>2. /\ \A q \in Actors : q # s => session'[q] = session[q]
      /\ \A t \in Tenants : chain'[t] = Seen(s, t)
      /\ \A e \in Events : stored'[e] = IF e \in session[s].wrote THEN "written" ELSE stored[e]
      /\ \A t \in Tenants : holder'[t] = IF holder[t] = s THEN Nobody ELSE holder[t]
      /\ edits' = edits
  BY <1>1, CommitEffect
<1>3. \A t \in Tenants : Untouched(t)' <=> Untouched(t)
  BY <1>2 DEF Untouched
<1>4. session[s].wrote \in SUBSET Events /\ \A e \in session[s].wrote : stored[e] = "absent"
  BY <1>1 DEF EventInv, WroteInv, TypeOK, Transaction
<1>5. PICK g : g = stored'
  OBVIOUS
<1>6. ASSUME NEW t \in Tenants, Untouched(t) PROVE Whole(chain'[t], g)
  <2>1. CASE holder[t] = s
    <3>1. Whole(Seen(s, t), Reads(s))
      BY <1>6, <2>1 DEF ChainInv, SeenWhole
    <3>2. \A e \in Events : g[e] = Reads(s)[e]
      BY <1>1, <1>2, <1>5, ReadsFacts
    <3>3. Whole(Seen(s, t), g)
      BY <1>1, <3>1, <3>2, SeenAgrees
    <3> QED
      BY <1>2, <3>3
  <2>2. CASE holder[t] # s
    <3>1. session[s].added[t] = <<>>
      BY <2>2 DEF ChainInv, HolderInv, Holds
    <3>2. Seen(s, t) = chain[t]
      BY <1>1, <3>1, SeenFacts, ConcatEmpty DEF Seen
    <3>4. \A e \in Events : g[e] = IF e \in session[s].wrote THEN "written" ELSE stored[e]
      BY <1>2, <1>5
    <3>5. PICK w : w = session[s].wrote
      OBVIOUS
    <3>6. Overlaid(g, w)
      BY <1>4, <3>4, <3>5 DEF Overlaid
    <3>7. Whole(chain[t], g)
      BY <1>1, <1>6, <3>6, ChainReads DEF ChainInv
    <3> QED
      BY <1>2, <3>2, <3>7
  <2> QED
    BY <2>1, <2>2
<1>7. ChainIsWhole'
  BY <1>3, <1>5, <1>6 DEF ChainIsWhole
<1>8. ASSUME NEW q \in Actors, NEW t \in Tenants, holder'[t] = q, Untouched(t)'
      PROVE  Whole(Seen(q, t), Reads(q))'
  <2>1. q # s /\ holder[t] = q /\ session'[q] = session[q]
    BY <1>2, <1>8, ActorSets
  <2>2. session[s].added[t] = <<>>
    BY <2>1 DEF ChainInv, HolderInv, Holds
  <2>10. Seen(s, t) = chain[t]
    BY <1>1, <2>2, SeenFacts, ConcatEmpty DEF Seen
  <2>3. chain'[t] = chain[t]
    BY <1>2, <2>10
  <2>4. Seen(q, t)' = Seen(q, t)
    BY <2>1, <2>3 DEF Seen
  <2>5. PICK h : h = Reads(q)'
    OBVIOUS
  <2>6. \A e \in Events : h[e] = IF e \in session[q].wrote THEN "written" ELSE stored'[e]
    BY <2>1, <2>5 DEF Reads, Text
  <2>7. \A e \in Events : Backed(q, e) => h[e] = Reads(q)[e]
    BY <1>1, <1>2, <1>4, <2>1, <2>6, ReadsFacts DEF Backed
  <2>8. Whole(Seen(q, t), Reads(q))
    BY <1>3, <1>8, <2>1 DEF ChainInv, SeenWhole
  <2>9. Whole(Seen(q, t), h)
    BY <1>1, <2>7, <2>8, SeenAgrees
  <2> QED
    BY <2>4, <2>5, <2>9 DEF Whole
<1>9. SeenWhole'
  BY <1>8 DEF SeenWhole
<1> QED
  BY <1>7, <1>9

LEMMA WholeEdit ==
  ASSUME ChainInv, NEW t \in Tenants, NEW k \in DOMAIN chain[t],
         EditEvent(t, k) \/ EditLink(t, k)
  PROVE  ChainIsWhole' /\ SeenWhole'
<1>1. /\ TypeInv /\ EventInv /\ TypeOK
      /\ UNCHANGED <<session, holder>> /\ edits' = edits \cup {<<t, k>>}
      /\ chain[t][k] # Gone
  BY DEF ChainInv, TypeInv, EditEvent, EditLink, Edit
<1>2. \A u \in Tenants : Untouched(u)' => u # t /\ Untouched(u)
  <2>1. <<t, k>> \in edits' /\ <<t, k>>[1] = t
    BY <1>1
  <2>2. ~ Untouched(t)'
    BY <2>1, Zenon DEF Untouched
  <2>3. \A u \in Tenants : Untouched(u)' => Untouched(u)
    BY <1>1, Zenon DEF Untouched
  <2> QED
    BY <2>2, <2>3
<1>3. \A u \in Tenants : u # t => chain'[u] = chain[u]
  BY <1>1 DEF EditEvent, EditLink, TypeOK
<1>4. \A e \in Events : Owner[e] # t => stored'[e] = stored[e]
  <2>1. Owner[chain[t][k].event] = t
    BY <1>1 DEF TypeOK
  <2> QED
    BY <1>1, <2>1 DEF EditEvent, EditLink, TypeOK
<1>5. ASSUME NEW u \in Tenants, Untouched(u)' PROVE Whole(chain'[u], stored')
  <2>1. PICK c : c = chain[u]
    OBVIOUS
  <2>2. PICK g : g = stored'
    OBVIOUS
  <2>6. PICK f : f = stored
    OBVIOUS
  <2>3. c \in Seq(Rows) /\ Whole(c, f) /\ u # t
    BY <1>1, <1>2, <1>5, <2>1, <2>6 DEF ChainInv, ChainIsWhole, TypeOK, Rows
  <2>4. ASSUME NEW i \in 1 .. Len(c) PROVE g[c[i].event] = f[c[i].event]
    <3>1. c[i] # Gone /\ c[i] \in Links /\ i \in DOMAIN c
      BY <2>3, WholeHasLinks
    <3>2. Owner[c[i].event] = u /\ c[i].event \in Events
      BY <1>1, <2>1, <3>1 DEF TypeOK, Links
    <3> QED
      BY <1>4, <2>2, <2>3, <2>6, <3>2
  <2>5. Whole(c, g)
    BY <2>3, <2>4, WholeAgrees
  <2> QED
    BY <1>3, <2>1, <2>2, <2>3, <2>5
<1>6. ASSUME NEW q \in Actors, NEW u \in Tenants, holder'[u] = q, Untouched(u)'
      PROVE  Whole(Seen(q, u), Reads(q))'
  <2>1. Whole(Seen(q, u), Reads(q)) /\ u # t
    BY <1>1, <1>2, <1>6 DEF ChainInv, SeenWhole
  <2>2. Seen(q, u)' = Seen(q, u)
    BY <1>1, <1>3, <2>1 DEF Seen
  <2>3. PICK h : h = Reads(q)'
    OBVIOUS
  <2>4. \A e \in Events : h[e] = IF e \in session[q].wrote THEN "written" ELSE stored'[e]
    BY <1>1, <2>3 DEF Reads, Text
  <2>5. \A e \in Events : Owner[e] = u => h[e] = Reads(q)[e]
    BY <1>1, <1>4, <2>1, <2>4, ReadsFacts
  <2>6. Whole(Seen(q, u), h)
    BY <1>1, <2>1, <2>5, SeenAgrees
  <2> QED
    BY <2>2, <2>3, <2>6 DEF Whole
<1>7. ChainIsWhole'
  BY <1>5 DEF ChainIsWhole
<1>8. SeenWhole'
  BY <1>6 DEF SeenWhole
<1> QED
  BY <1>7, <1>8

LEMMA ChainStep == ChainInv /\ [Next]_vars => ChainInv'
<1> SUFFICES ASSUME ChainInv, [Next]_vars PROVE ChainInv'
  OBVIOUS
<1>1. TypeInv' /\ HolderInv' /\ EventInv'
  BY TypeStep, HolderStep, EventStep DEF ChainInv
<1>2. ASSUME UNCHANGED <<stored, chain, holder, session, edits>>
      PROVE  ChainIsWhole' /\ SeenWhole'
  <2>1. \A t \in Tenants : Untouched(t)' <=> Untouched(t)
    BY <1>2 DEF Untouched
  <2>2. \A s \in Actors, t \in Tenants : Seen(s, t)' = Seen(s, t) /\ Reads(s)' = Reads(s)
    BY <1>2 DEF Seen, Reads, Text
  <2>3. ChainIsWhole'
    BY <1>2, <2>1 DEF ChainInv, ChainIsWhole
  <2>4. SeenWhole'
    BY <1>2, <2>1, <2>2 DEF ChainInv, SeenWhole
  <2> QED
    BY <2>3, <2>4
<1>3. ChainIsWhole' /\ SeenWhole'
  <2>1. ASSUME \/ \E t \in Tenants, full \in BOOLEAN : StartCheck(t, full)
               \/ CheckLink \/ EndCheck \/ Report \/ UNCHANGED vars
        PROVE  UNCHANGED <<stored, chain, holder, session, edits>>
    BY <2>1 DEF StartCheck, CheckLink, EndCheck, Report, vars
  <2>2. ASSUME NEW s \in Requests, LinkStep(s) PROVE ChainIsWhole' /\ SeenWhole'
    BY <2>2, WholeTake, WholeLink, WholeOthers, ActorSets DEF LinkStep
  <2>3. ASSUME NEW s \in Sealers, AppendLink(s) \/ \E t \in Tenants : StartSeal(s, t)
        PROVE  ChainIsWhole' /\ SeenWhole'
    BY <2>3, WholeLink, WholeOthers, ActorSets
  <2>4. ASSUME NEW s \in Actors, Commit(s) \/ RollBack(s) PROVE ChainIsWhole' /\ SeenWhole'
    BY <2>4, WholeCommit, WholeOthers
  <2> QED
    BY <1>2, <2>1, <2>2, <2>3, <2>4, WholeInsert, WholeEdit DEF Next
<1> QED
  BY <1>1, <1>3 DEF ChainInv

LEMMA ChainInit == Init => ChainInv
<1> SUFFICES ASSUME Init PROVE ChainInv
  OBVIOUS
<1>1. /\ \A s \in Actors : session[s] = Open
      /\ \A t \in Tenants : chain[t] = <<>> /\ holder[t] = Nobody
      /\ \A e \in Events : stored[e] = "absent"
  BY DEF Init
<1>2. Open.wrote = {} /\ Open.todo = {} /\ \A t \in Tenants : Open.added[t] = <<>>
  BY DEF Open
<1>3. Open.pc = "open"
  BY DEF Open
<1>4. HolderInv
  BY <1>1, <1>2, <1>3 DEF HolderInv, Holds
<1>5. WroteInv /\ RowInv /\ DeletedInv
  <2>1. WroteInv
    BY <1>1, <1>2 DEF WroteInv
  <2>2. \A s \in Actors : Backs(s)
    BY <1>1, <1>2 DEF Backs
  <2>3. RowInv
    BY <1>1, <2>2 DEF RowInv
  <2>4. DeletedInv
    BY <1>1 DEF DeletedInv
  <2> QED
    BY <2>1, <2>3, <2>4
<1>6. ChainIsWhole
  BY <1>1, WholeEmpty DEF ChainIsWhole
<1>7. SeenWhole
  BY <1>1, ActorSets DEF SeenWhole
<1> QED
  BY <1>4, <1>5, <1>6, <1>7, TypeInit DEF ChainInv, EventInv

-----------------------------------------------------------------------------
(* The check.                                                              *)

\* While nobody changes the tenant's rows, the walk stands behind a link that
\* is there, with its hash, and expects the next one.
WalkInv == check.pc = "walking" /\ Untouched(check.tenant) =>
  /\ check.after \in 0 .. Len(chain[check.tenant])
  /\ check.next = check.after + 1
  /\ check.prev = PrevHash(chain[check.tenant], check.after)

CheckInv == ChainInv /\ WalkInv /\ NoFalseAlarm

LEMMA StartsSound ==
  ASSUME CheckInv, NEW t \in Tenants, NEW full \in BOOLEAN, StartCheck(t, full)
  PROVE  WalkInv' /\ NoFalseAlarm'
<1>1. PICK c : c = chain[t]
  OBVIOUS
<1>2. c \in Seq(Rows) /\ Len(c) \in Nat
  BY <1>1 DEF CheckInv, ChainInv, TypeInv, TypeOK, Rows
<1>3. PICK k : k = IF ~ full /\ Len(c) > RecentLinks THEN Len(c) - RecentLinks ELSE 0
  OBVIOUS
<1>4. k \in 0 .. Len(c)
  BY <1>2, <1>3, ChainAssumption DEF ChainAssumption
<1>5. PICK lost : lost = (k > 0 /\ c[k] = Gone)
  OBVIOUS
<1>6. check' = [pc |-> "walking", tenant |-> t, after |-> k,
                prev |-> IF lost THEN Genesis ELSE PrevHash(c, k), next |-> k + 1,
                problems |-> IF lost THEN {<<k, "missing_link">>} ELSE {},
                owed |-> Owed(t, k)]
  BY <1>1, <1>3, <1>5 DEF StartCheck
<1>7. /\ check'.tenant = t /\ check'.after = k /\ check'.next = k + 1
      /\ check'.prev = (IF lost THEN Genesis ELSE PrevHash(c, k))
      /\ check'.problems = (IF lost THEN {<<k, "missing_link">>} ELSE {})
  BY <1>6
<1>8. chain'[t] = c /\ edits' = edits
  BY <1>1 DEF StartCheck
<1>9. ASSUME Untouched(t) PROVE ~ lost
  <2>1. Whole(c, stored)
    BY <1>1, <1>9 DEF CheckInv, ChainInv, ChainIsWhole
  <2>2. CASE k > 0
    <3>1. k \in 1 .. Len(c)
      BY <1>2, <1>4, <2>2
    <3> QED
      BY <1>2, <1>5, <2>1, <3>1, WholeHasLinks
  <2> QED
    BY <1>4, <1>5, <2>2
<1>10. Untouched(t)' <=> Untouched(t)
  BY <1>8 DEF Untouched
<1>11. Untouched(check.tenant)' <=> Untouched(t)
  BY <1>7, <1>8 DEF Untouched
<1>12. WalkInv'
  BY <1>4, <1>7, <1>8, <1>9, <1>11 DEF WalkInv
<1>13. NoFalseAlarm'
  BY <1>7, <1>9, <1>11 DEF NoFalseAlarm
<1> QED
  BY <1>12, <1>13

LEMMA WalksSound ==
  ASSUME CheckInv, CheckLink
  PROVE  WalkInv' /\ NoFalseAlarm'
<1>1. PICK t : t = check.tenant
  OBVIOUS
<1>2. PICK c : c = chain[t]
  OBVIOUS
<1>3. PICK k \in Ahead :
        /\ \A x \in Ahead : k <= x
        /\ k \in 1 .. Len(c) /\ c[k] \in Links /\ t \in Tenants
        /\ check' = [pc |-> check.pc, tenant |-> t, after |-> k, prev |-> c[k].hash,
                     next |-> k + 1, problems |-> check.problems \cup Problem(k),
                     owed |-> check.owed]
  BY <1>1, <1>2, WalkEffect DEF CheckInv, ChainInv
<1>4. PICK p : p = Problem(k)
  OBVIOUS
<1>5. /\ check'.pc = check.pc /\ check'.tenant = t /\ check'.after = k
      /\ check'.prev = c[k].hash /\ check'.next = k + 1
      /\ check'.problems = check.problems \cup p
  BY <1>3, <1>4
<1>6. chain'[t] = c /\ edits' = edits /\ check.pc = "walking"
  BY <1>2 DEF CheckLink
<1>7. Untouched(check.tenant)' <=> Untouched(t)
  BY <1>5, <1>6 DEF Untouched
<1>8. c \in Seq(Rows) /\ Len(c) \in Nat
  BY <1>2, <1>3 DEF CheckInv, ChainInv, TypeInv, TypeOK, Rows
<1>9. PrevHash(c, k) = c[k].hash /\ k \in 0 .. Len(c)
  BY <1>3, <1>8 DEF PrevHash
<1>10. WalkInv'
  BY <1>5, <1>6, <1>9 DEF WalkInv
<1>11. ASSUME Untouched(t) PROVE p = {}
  <2>1. /\ check.after \in 0 .. Len(c) /\ check.next = check.after + 1
        /\ check.prev = PrevHash(c, check.after)
    BY <1>1, <1>2, <1>6, <1>11 DEF CheckInv, WalkInv
  <2>2. Whole(c, stored)
    BY <1>2, <1>3, <1>11 DEF CheckInv, ChainInv, ChainIsWhole
  <2>3. k > check.after /\ DOMAIN c = 1 .. Len(c)
    BY <1>1, <1>8 DEF Ahead
  <2>4. check.next \in 1 .. Len(c)
    BY <1>3, <1>8, <2>1, <2>3
  <2>5. check.next \in Ahead
    <3>1. c[check.next] # Gone
      BY <1>8, <2>2, <2>4, WholeHasLinks
    <3> QED
      BY <1>1, <1>2, <2>1, <2>3, <2>4, <3>1 DEF Ahead
  <2>6. k = check.next
    BY <1>3, <2>1, <2>3, <2>5
  <2>7. check.after = k - 1
    BY <2>1, <2>6
  <2>8. c[k] = Link(PrevHash(c, k - 1), c[k].event, stored[c[k].event])
    BY <1>3, <2>2, <2>3 DEF Whole
  <2>9. c[k].prev = check.prev
    BY <2>1, <2>7, <2>8 DEF Link
  <2>10. c[k].hash = Hash(c[k].prev, c[k].event, stored[c[k].event])
    BY <2>8 DEF Link
  <2>11. stored[c[k].event] # "deleted"
    <3>1. c[k] # Gone /\ c[k].event \in Events
      BY <1>3, GoneIsNoLink DEF Links
    <3>2. Owner[c[k].event] = t
      BY <1>2, <1>3, <2>3, <3>1 DEF CheckInv, ChainInv, TypeInv, TypeOK
    <3> QED
      BY <1>11, <3>1, <3>2 DEF CheckInv, ChainInv, EventInv, DeletedInv
  <2> QED
    BY <1>1, <1>2, <1>4, <2>6, <2>9, <2>10, <2>11 DEF Problem
<1>12. NoFalseAlarm'
  <2>1. Untouched(t) => check.problems = {}
    BY <1>1 DEF CheckInv, NoFalseAlarm
  <2> QED
    BY <1>5, <1>7, <1>11, <2>1 DEF NoFalseAlarm
<1> QED
  BY <1>10, <1>12

\* The chain grows under the walk, and what the walk stands on stays.
LEMMA GrowsSound ==
  ASSUME CheckInv, NEW s \in Actors, Commit(s)
  PROVE  WalkInv' /\ NoFalseAlarm'
<1>1. PICK t : t = check.tenant
  OBVIOUS
<1>2. TypeInv /\ TypeOK
  BY DEF CheckInv, ChainInv, TypeInv
<1>3. /\ check' = check /\ edits' = edits
      /\ \A u \in Tenants : chain'[u] = Seen(s, u)
  BY <1>2, CommitEffect DEF Commit
<1>4. Untouched(check.tenant)' <=> Untouched(t)
  BY <1>1, <1>3 DEF Untouched
<1>5. NoFalseAlarm'
  BY <1>1, <1>3, <1>4 DEF CheckInv, NoFalseAlarm
<1>6. ASSUME check.pc = "walking", Untouched(t)
      PROVE  /\ check.after \in 0 .. Len(chain'[t])
             /\ check.next = check.after + 1
             /\ check.prev = PrevHash(chain'[t], check.after)
  <2>1. t \in Tenants
    BY <1>1, <1>2, <1>6 DEF TypeInv
  <2>2. PICK c : c = chain[t]
    OBVIOUS
  <2>3. PICK d : d = Seen(s, t)
    OBVIOUS
  <2>4. /\ Len(d) = Len(c) + Len(session[s].added[t])
        /\ Len(c) \in Nat /\ Len(session[s].added[t]) \in Nat
        /\ \A k \in 1 .. Len(c) : d[k] = c[k]
    <3>1. c \in Seq(Rows) /\ session[s].added[t] \in Seq(Rows)
      BY <1>2, <2>1, <2>2, SeenFacts
    <3>2. Len(c) \in Nat /\ Len(session[s].added[t]) \in Nat
      BY <3>1
    <3> QED
      BY <1>2, <2>1, <2>2, <2>3, <3>2, SeenFacts
  <2>5. /\ check.after \in 0 .. Len(c) /\ check.next = check.after + 1
        /\ check.prev = PrevHash(c, check.after)
    BY <1>1, <1>6, <2>2 DEF CheckInv, WalkInv
  <2>6. PrevHash(d, check.after) = PrevHash(c, check.after)
    BY <2>4, <2>5 DEF PrevHash
  <2>7. check.after \in 0 .. Len(d)
    BY <2>4, <2>5
  <2> QED
    BY <1>3, <2>1, <2>3, <2>5, <2>6, <2>7
<1>7. WalkInv'
  BY <1>1, <1>3, <1>4, <1>6 DEF WalkInv
<1> QED
  BY <1>5, <1>7

LEMMA EditsSound ==
  ASSUME CheckInv, NEW t \in Tenants, NEW k \in DOMAIN chain[t],
         EditEvent(t, k) \/ EditLink(t, k)
  PROVE  WalkInv' /\ NoFalseAlarm'
<1>1. /\ check' = check /\ edits' = edits \cup {<<t, k>>} /\ TypeOK
      /\ chain[t][k] # Gone
  BY DEF CheckInv, ChainInv, TypeInv, EditEvent, EditLink, Edit
<1>2. Untouched(check.tenant)' => check.tenant # t /\ Untouched(check.tenant)
  <2>1. <<t, k>> \in edits' /\ <<t, k>>[1] = t
    BY <1>1
  <2>2. ~ Untouched(t)'
    BY <2>1, Zenon DEF Untouched
  <2>3. Untouched(check.tenant)' => Untouched(check.tenant)
    BY <1>1, Zenon DEF Untouched
  <2>4. check.tenant = t => (Untouched(check.tenant)' <=> Untouched(t)')
    BY <1>1 DEF Untouched
  <2> QED
    BY <2>2, <2>3, <2>4
<1>3. \A u \in Tenants : u # t => chain'[u] = chain[u]
  BY <1>1 DEF EditEvent, EditLink, TypeOK
<1>4. check.pc = "walking" => check.tenant \in Tenants
  BY DEF CheckInv, ChainInv, TypeInv
<1>5. WalkInv'
  BY <1>1, <1>2, <1>3, <1>4 DEF CheckInv, WalkInv
<1>6. NoFalseAlarm'
  BY <1>1, <1>2 DEF CheckInv, NoFalseAlarm
<1> QED
  BY <1>5, <1>6

LEMMA CheckStep == CheckInv /\ [Next]_vars => CheckInv'
<1> SUFFICES ASSUME CheckInv, [Next]_vars PROVE CheckInv'
  OBVIOUS
<1>1. ChainInv'
  BY ChainStep DEF CheckInv
<1>2. ASSUME UNCHANGED <<chain, check, edits>>
      PROVE  WalkInv' /\ NoFalseAlarm'
  <2>1. Untouched(check.tenant)' <=> Untouched(check.tenant)
    BY <1>2 DEF Untouched
  <2>2. WalkInv'
    BY <1>2, <2>1 DEF CheckInv, WalkInv
  <2>3. NoFalseAlarm'
    BY <1>2, <2>1 DEF CheckInv, NoFalseAlarm
  <2> QED
    BY <2>2, <2>3
<1>3. ASSUME EndCheck \/ Report PROVE WalkInv' /\ NoFalseAlarm'
  <2>1. CASE EndCheck
    <3>1. check \in Checks
      BY DEF CheckInv, ChainInv, TypeInv, TypeOK
    <3>2. check' = [check EXCEPT !.pc = "done"] /\ edits' = edits
      BY <2>1 DEF EndCheck
    <3>3. check'.pc = "done" /\ check'.tenant = check.tenant /\ check'.problems = check.problems
      BY <3>1, <3>2 DEF Checks
    <3>4. Untouched(check.tenant)' <=> Untouched(check.tenant)
      BY <3>2, <3>3 DEF Untouched
    <3>5. WalkInv'
      BY <3>3 DEF WalkInv
    <3>6. NoFalseAlarm'
      BY <3>3, <3>4 DEF CheckInv, NoFalseAlarm
    <3> QED
      BY <3>5, <3>6
  <2>2. CASE Report
    <3>1. check'.pc = "idle" /\ check'.problems = {}
      BY <2>2 DEF Report, NoCheck
    <3> QED
      BY <3>1 DEF WalkInv, NoFalseAlarm
  <2> QED
    BY <1>3, <2>1, <2>2
<1>4. WalkInv' /\ NoFalseAlarm'
  <2>1. ASSUME \/ \E s \in Requests, e \in Events : Record(s, e) \/ WriteDirectly(s, e)
               \/ \E s \in Requests : LinkStep(s)
               \/ \E s \in Sealers : AppendLink(s) \/ \E t \in Tenants : StartSeal(s, t)
               \/ \E s \in Actors : RollBack(s)
               \/ UNCHANGED vars
        PROVE  UNCHANGED <<chain, check, edits>>
    BY <2>1 DEF Record, WriteDirectly, LinkStep, TakeLock, AppendLink, LeaveUnlinked,
                StartSeal, RollBack, vars
  <2> QED
    BY <1>2, <1>3, <2>1, StartsSound, WalksSound, GrowsSound, EditsSound DEF Next
<1> QED
  BY <1>1, <1>4 DEF CheckInv

LEMMA CheckInit == Init => CheckInv
<1> SUFFICES ASSUME Init PROVE CheckInv
  OBVIOUS
<1>1. check.pc = "idle" /\ check.problems = {}
  BY DEF Init, NoCheck
<1> QED
  BY <1>1, ChainInit DEF CheckInv, WalkInv, NoFalseAlarm

-----------------------------------------------------------------------------
(* What an edit leaves behind.                                             *)

\* The hash of link l is the one over its event with this text.
Covers(l, text) == l.hash = Hash(l.prev, l.event, text)

\* A link over an event nobody edited is over what the event says, unless
\* the link itself was rewritten.
Kept(l) == stored[l.event] = "written" => l.hash = Rewritten \/ Covers(l, "written")

\* The check sees that link l, or its event, was changed.
Shown(l) == stored[l.event] = "deleted" \/ ~ Covers(l, stored[l.event])

\* What transaction s has linked is over what it reads.
Adds(s) == \A t \in Tenants : \A k \in 1 .. Len(session[s].added[t]) :
  LET l == session[s].added[t][k]
  IN  l.event \in session[s].wrote \/ stored[l.event] = "written" => Covers(l, "written")

KeptInv ==
  /\ \A t \in Tenants : \A k \in 1 .. Len(chain[t]) :
       chain[t][k] # Gone => Kept(chain[t][k])
  /\ \A s \in Actors : Adds(s)

\* Every edit concerns a link that is there, and shows, or that is gone.
ShownInv == \A t \in Tenants, k \in Nat : <<t, k>> \in edits =>
  /\ k \in 1 .. Len(chain[t])
  /\ chain[t][k] # Gone => Shown(chain[t][k])

TraceInv == KeptInv /\ ShownInv

\* A digest determines the text it covers.
LEMMA HashDetermines ==
  ASSUME NEW p \in Hashes, NEW e, NEW x, NEW y, Hash(p, e, x) = Hash(p, e, y)
  PROVE  x = y
<1>1. Append(p, <<e, x>>)[Len(p) + 1] = <<e, x>> /\ Append(p, <<e, y>>)[Len(p) + 1] = <<e, y>>
  BY DEF Hashes
<1>2. <<e, x>> = <<e, y>>
  BY <1>1 DEF Hash
<1> QED
  BY <1>2, Zenon

LEMMA RewrittenShows ==
  ASSUME NEW p \in Hashes, NEW e, NEW x \in Texts
  PROVE  Hash(p, e, x) # Rewritten
<1> SUFFICES ASSUME Append(p, <<e, x>>) = Rewritten PROVE FALSE
  BY DEF Hash
<1>1. Len(Append(p, <<e, x>>)) = Len(p) + 1 /\ Append(p, <<e, x>>)[Len(p) + 1] = <<e, x>>
      /\ Len(p) \in Nat
  BY DEF Hashes
<1>2. Len(Rewritten) = 1 /\ Rewritten[1] = <<0, "rewritten">>
  BY DEF Rewritten
<1>3. Len(p) + 1 = 1
  BY <1>1, <1>2
<1>4. <<e, x>> = <<0, "rewritten">>
  BY <1>1, <1>2, <1>3
<1>5. x = "rewritten"
  BY <1>4, Zenon
<1> QED
  BY <1>5 DEF Texts

\* A live link whose text is no longer "written", or that was rewritten.
LEMMA EditShows ==
  ASSUME NEW l \in Links, NEW x \in Texts,
         l.hash = Rewritten \/ (Covers(l, "written") /\ x # "written")
  PROVE  ~ Covers(l, x)
<1>1. l.prev \in Hashes
  BY DEF Links
<1> QED
  BY <1>1, HashDetermines, RewrittenShows DEF Covers

\* What EditLink makes of the rows.
LEMMA EditLinkEffect ==
  ASSUME TypeInv, NEW t \in Tenants, NEW k \in DOMAIN chain[t], EditLink(t, k)
  PROVE  /\ \A u \in Tenants : u # t => chain'[u] = chain[u]
         /\ Len(chain'[t]) = Len(chain[t]) /\ k \in 1 .. Len(chain[t])
         /\ \A i \in 1 .. Len(chain[t]) : i # k => chain'[t][i] = chain[t][i]
         /\ \/ chain'[t][k] = Gone
            \/ chain'[t][k] = [event |-> chain[t][k].event, prev |-> chain[t][k].prev,
                               hash |-> Rewritten]
<1>1. PICK c : c = chain[t]
  OBVIOUS
<1>2. c \in Seq(Rows) /\ k \in 1 .. Len(c) /\ c[k] \in Links
  BY <1>1 DEF EditLink, Edit, TypeInv, TypeOK, Rows
<1>3. PICK x : /\ chain' = [chain EXCEPT ![t] = [c EXCEPT ![k] = x]]
               /\ x = Gone \/ x = [event |-> c[k].event, prev |-> c[k].prev, hash |-> Rewritten]
  <2>1. CASE chain' = [chain EXCEPT ![t][k].hash = Rewritten]
    <3>1. [c[k] EXCEPT !.hash = Rewritten]
            = [event |-> c[k].event, prev |-> c[k].prev, hash |-> Rewritten]
      BY <1>2 DEF Links
    <3>2. chain' = [chain EXCEPT ![t] = [c EXCEPT ![k] = [c[k] EXCEPT !.hash = Rewritten]]]
      BY <1>1, <2>1
    <3> QED
      BY <3>1, <3>2
  <2>2. CASE chain' = [chain EXCEPT ![t][k] = Gone]
    BY <1>1, <2>2
  <2> QED
    BY <2>1, <2>2 DEF EditLink
<1>4. chain'[t] = [c EXCEPT ![k] = x] /\ \A u \in Tenants : u # t => chain'[u] = chain[u]
  BY <1>3 DEF TypeInv, TypeOK
<1>5. Len(chain'[t]) = Len(c) /\ chain'[t][k] = x
      /\ \A i \in 1 .. Len(c) : i # k => chain'[t][i] = c[i]
  BY <1>2, <1>4
<1> QED
  BY <1>1, <1>2, <1>3, <1>4, <1>5

\* A step that commits and edits nothing, and adds at most a link that covers
\* what its transaction reads.
LEMMA TraceFrame ==
  ASSUME TypeInv, EventInv, TraceInv, NEW s \in Actors,
         \A q \in Actors : q # s => session'[q] = session[q],
         UNCHANGED <<stored, chain, edits>>,
         Adds(s)'
  PROVE  TraceInv'
<1>1. ASSUME NEW q \in Actors, q # s PROVE Adds(q)'
  <2>1. session'[q] = session[q] /\ Adds(q)
    BY <1>1 DEF TraceInv, KeptInv
  <2> QED
    BY <2>1 DEF Adds, Covers
<1>2. KeptInv'
  BY <1>1 DEF TraceInv, KeptInv, Kept, Covers
<1>3. ShownInv'
  BY DEF TraceInv, ShownInv, Shown
<1> QED
  BY <1>2, <1>3 DEF TraceInv

\* The transaction keeps its links, and reads as before the events they name.
LEMMA TraceSession ==
  ASSUME TypeInv, EventInv, TraceInv, NEW s \in Actors,
         \A q \in Actors : q # s => session'[q] = session[q],
         UNCHANGED <<stored, chain, edits>>,
         \A t \in Tenants : \/ session'[s].added[t] = <<>>
                            \/ session'[s].added[t] = session[s].added[t],
         \/ session'[s].wrote \subseteq session[s].wrote
         \/ \E e \in Events : Fresh(e) /\ session'[s].wrote = session[s].wrote \cup {e}
  PROVE  TraceInv'
<1>1. ASSUME NEW t \in Tenants, NEW k \in 1 .. Len(session'[s].added[t]),
             \/ session'[s].added[t][k].event \in session'[s].wrote
             \/ stored[session'[s].added[t][k].event] = "written"
      PROVE  Covers(session'[s].added[t][k], "written")
  <2>1. session'[s].added[t] = session[s].added[t] /\ k \in 1 .. Len(session[s].added[t])
    BY <1>1
  <2> DEFINE x == session[s].added[t][k].event
  <2>2. Backed(s, x)
    BY <2>1 DEF EventInv, RowInv, Backs
  <2>3. x \in session'[s].wrote => x \in session[s].wrote
    BY <2>2 DEF Backed, Fresh
  <2>4. Adds(s) /\ (x \in session[s].wrote \/ stored[x] = "written")
    BY <1>1, <2>1, <2>3 DEF TraceInv, KeptInv
  <2> QED
    BY <2>1, <2>4 DEF Adds
<1>2. Adds(s)'
  BY <1>1 DEF Adds, Covers
<1> QED
  BY <1>2, TraceFrame

LEMMA TraceAppend ==
  ASSUME TypeInv, EventInv, TraceInv, NEW s \in Actors, AppendLink(s)
  PROVE  TraceInv'
<1> DEFINE t == Tenant(s)
           e == Turn(s)
           a == session[s].added[t]
           l == Link(PrevHash(Seen(s, t), Len(Seen(s, t))), e, Text(s, e))
           new == IF Linked(Seen(s, t), e) THEN a ELSE Extended(s, e)
<1>1. TypeOK /\ session[s] \in Transaction /\ session[s].pc = "locked" /\ session[s].todo # {}
  BY OwnTypes DEF AppendLink, At
<1>2. t \in Tenants /\ l.event = e /\ Extended(s, e) = Append(a, l) /\ a \in Seq(Links) /\ l \in Links
  BY <1>1, NextLink DEF Transaction
<1>3. session'[s] = [pc |-> IF s \in Requests THEN "open" ELSE "locked",
                     tenant |-> session[s].tenant, todo |-> session[s].todo \ {e},
                     wrote |-> session[s].wrote, taken |-> session[s].taken,
                     added |-> [session[s].added EXCEPT ![t] = new]]
  BY <1>1, AppendEffect
<1>4. \A q \in Actors : q # s => session'[q] = session[q]
  BY <1>1, BecomeOnly DEF AppendLink, TypeOK
<1>5. UNCHANGED <<stored, chain, edits>>
  BY DEF AppendLink
<1> DEFINE Over(x) == x.event \in session[s].wrote \/ stored[x.event] = "written"
                        => Covers(x, "written")
<1>6. Over(l)
  BY <1>2 DEF Link, Covers, Text
<1>7. \A v \in Tenants : \A k \in 1 .. Len(session[s].added[v]) : Over(session[s].added[v][k])
  BY DEF TraceInv, KeptInv, Adds
<1> HIDE DEF Over
<1>8. \A k \in 1 .. Len(new) : Over(new[k])
  <2>1. \A k \in 1 .. Len(a) : Over(a[k])
    BY <1>2, <1>7
  <2> HIDE DEF l, a
  <2>2. /\ Len(Append(a, l)) = Len(a) + 1 /\ Len(a) \in Nat
        /\ Append(a, l)[Len(a) + 1] = l /\ \A k \in 1 .. Len(a) : Append(a, l)[k] = a[k]
    BY <1>2
  <2>3. \A k \in 1 .. Len(Append(a, l)) : Over(Append(a, l)[k])
    BY <1>6, <2>1, <2>2
  <2> QED
    BY <1>2, <2>1, <2>3
<1>9. PICK n : n = new /\ \A k \in 1 .. Len(n) : Over(n[k])
  BY <1>8
<1>10. PICK u : u = t
  OBVIOUS
<1> HIDE DEF new, t, e, l, a
<1>11. /\ session'[s].wrote = session[s].wrote
       /\ \A v \in Tenants : session'[s].added[v] = IF v = u THEN n ELSE session[s].added[v]
  BY <1>1, <1>2, <1>3, <1>9, <1>10 DEF Transaction
<1>12. \A v \in Tenants : \A k \in 1 .. Len(session'[s].added[v]) : Over(session'[s].added[v][k])
  BY <1>7, <1>9, <1>11
<1>13. Adds(s)'
  BY <1>5, <1>11, <1>12 DEF Adds, Over, Covers
<1> QED
  BY <1>4, <1>5, <1>13, TraceFrame

\* Committed links are over what their events say once the transaction's own
\* are written; nobody else's are concerned.
LEMMA TraceCommit ==
  ASSUME TypeInv, EventInv, TraceInv, NEW s \in Actors, Commit(s)
  PROVE  TraceInv'
<1>1. /\ session'[s] = Open
      /\ \A q \in Actors : q # s => session'[q] = session[q]
      /\ \A t \in Tenants : chain'[t] = Seen(s, t)
      /\ \A e \in Events : stored'[e] = IF e \in session[s].wrote THEN "written" ELSE stored[e]
      /\ edits' = edits
  BY CommitEffect
<1>2. ASSUME NEW e \in Events, stored[e] # "absent" PROVE stored'[e] = stored[e]
  BY <1>1, <1>2 DEF EventInv, WroteInv
<1>3. ASSUME NEW q \in Actors PROVE Adds(q)'
  <2>1. CASE q = s
    <3>1. \A t \in Tenants : session'[q].added[t] = <<>>
      BY <1>1, <2>1 DEF Open
    <3> QED
      BY <3>1 DEF Adds
  <2>2. CASE q # s
    <3>1. session'[q] = session[q] /\ Adds(q)
      BY <1>1, <2>2 DEF TraceInv, KeptInv
    <3>2. \A t \in Tenants : \A k \in 1 .. Len(session[q].added[t]) :
            session[q].added[t][k].event \in Events /\ Backed(q, session[q].added[t][k].event)
      BY SeenFacts DEF Links, EventInv, RowInv, Backs
    <3>3. \A e \in Events : Backed(q, e) /\ stored'[e] = "written"
                              => e \in session[q].wrote \/ stored[e] = "written"
      BY <1>2 DEF Backed
    <3> QED
      BY <3>1, <3>2, <3>3 DEF Adds, Covers
  <2> QED
    BY <2>1, <2>2
<1>4. ASSUME NEW t \in Tenants, NEW k \in 1 .. Len(chain'[t]), chain'[t][k] # Gone
      PROVE  Kept(chain[t][k])'
  <2>1. PICK c : c = chain[t]
    OBVIOUS
  <2>2. PICK a : a = session[s].added[t]
    OBVIOUS
  <2>3. PICK d : d = chain'[t]
    OBVIOUS
  <2>4. d = Seen(s, t)
    BY <1>1, <2>3
  <2>5. /\ c \in Seq(Rows) /\ a \in Seq(Links) /\ Len(d) = Len(c) + Len(a)
        /\ \A i \in 1 .. Len(c) : d[i] = c[i]
        /\ \A i \in 1 .. Len(a) : d[Len(c) + i] = a[i] /\ a[i] \in Links
    BY <2>1, <2>2, <2>4, SeenFacts
  <2>6. k \in 1 .. Len(c) + Len(a) /\ Len(c) \in Nat /\ Len(a) \in Nat
    BY <2>3, <2>5
  <2>7. CASE k \in 1 .. Len(c)
    <3>1. d[k] = c[k] /\ c[k] # Gone /\ Kept(c[k]) /\ c[k].event \in Events
          /\ stored[c[k].event] # "absent"
      BY <1>4, <2>1, <2>3, <2>5, <2>7
      DEF TraceInv, KeptInv, EventInv, RowInv, Rows, Links
    <3> QED
      BY <1>2, <2>3, <3>1 DEF Kept, Covers
  <2>8. CASE k \notin 1 .. Len(c)
    <3>1. PICK i \in 1 .. Len(a) : k = Len(c) + i
      <4>1. k - Len(c) \in 1 .. Len(a) /\ k = Len(c) + (k - Len(c))
        BY <2>6, <2>8
      <4> QED
        BY <4>1
    <3>2. d[k] = a[i] /\ a[i].event \in Events
      BY <2>5, <3>1 DEF Links
    <3>3. a[i].event \in session[s].wrote \/ stored[a[i].event] = "written"
            => Covers(a[i], "written")
      BY <2>2, <3>1 DEF TraceInv, KeptInv, Adds
    <3> QED
      BY <1>1, <2>3, <3>2, <3>3 DEF Kept, Covers
  <2> QED
    BY <2>7, <2>8
<1>5. ShownInv'
  <2>1. ASSUME NEW t \in Tenants, NEW k \in Nat, <<t, k>> \in edits
        PROVE  /\ k \in 1 .. Len(chain'[t])
               /\ chain'[t][k] # Gone => Shown(chain[t][k])'
    <3>1. k \in 1 .. Len(chain[t]) /\ (chain[t][k] # Gone => Shown(chain[t][k]))
      BY <2>1 DEF TraceInv, ShownInv
    <3>2. /\ chain'[t] = Seen(s, t) /\ chain[t] \in Seq(Rows)
          /\ Len(Seen(s, t)) = Len(chain[t]) + Len(session[s].added[t])
          /\ Seen(s, t)[k] = chain[t][k]
          /\ Len(chain[t]) \in Nat /\ Len(session[s].added[t]) \in Nat
      <4>1. /\ session[s].added[t] \in Seq(Links) /\ chain[t] \in Seq(Rows)
            /\ Len(Seen(s, t)) = Len(chain[t]) + Len(session[s].added[t])
            /\ Seen(s, t)[k] = chain[t][k]
        BY <3>1, SeenFacts
      <4>2. Len(chain[t]) \in Nat /\ Len(session[s].added[t]) \in Nat
        BY <4>1
      <4> QED
        BY <1>1, <4>1, <4>2
    <3>3. k \in 1 .. Len(chain'[t]) /\ chain'[t][k] = chain[t][k]
      <4>1. k \in 1 .. Len(chain[t])
        BY <3>1
      <4>2. k \in 1 .. Len(chain[t]) + Len(session[s].added[t])
        BY <3>2, <4>1, InFront
      <4> QED
        BY <3>2, <4>2
    <3>4. chain[t][k] # Gone => chain[t][k].event \in Events
                                /\ stored[chain[t][k].event] # "absent"
      BY <3>1, <3>2 DEF EventInv, RowInv, Rows, Links
    <3> QED
      BY <1>2, <3>1, <3>3, <3>4 DEF Shown
  <2> QED
    BY <1>1, <2>1 DEF ShownInv
<1>6. KeptInv'
  BY <1>3, <1>4 DEF KeptInv
<1> QED
  BY <1>5, <1>6 DEF TraceInv

\* An event that is edited disagrees with every link that was over it.
LEMMA TraceEditEvent ==
  ASSUME TypeInv, EventInv, TraceInv, NEW t \in Tenants, NEW k \in DOMAIN chain[t],
         EditEvent(t, k)
  PROVE  TraceInv'
<1>1. PICK e : e = chain[t][k].event
  OBVIOUS
<1>2. /\ k \in 1 .. Len(chain[t]) /\ chain[t][k] \in Links /\ e \in Events
      /\ stored[e] # "absent" /\ stored[e] # "deleted"
      /\ UNCHANGED <<chain, session>> /\ edits' = edits \cup {<<t, k>>}
  BY <1>1 DEF EditEvent, Edit, TypeInv, TypeOK, Links, EventInv, RowInv
<1>3. PICK text \in {"edited", "deleted"} :
        text # stored[e] /\ \A x \in Events : stored'[x] = IF x = e THEN text ELSE stored[x]
  BY <1>1, <1>2 DEF EditEvent, TypeInv, TypeOK
<1>4. text = "deleted" \/ (text = "edited" /\ stored[e] = "written")
  BY <1>2, <1>3 DEF TypeInv, TypeOK, Texts
<1>5. text # "written" /\ text \in Texts
  BY <1>3 DEF Texts
<1>6. ASSUME NEW u \in Tenants, NEW i \in 1 .. Len(chain[u]), chain[u][i] # Gone
      PROVE  /\ Kept(chain[u][i])'
             /\ Shown(chain[u][i]) => Shown(chain[u][i])'
             /\ chain[u][i].event = e => Shown(chain[u][i])'
  <2>1. PICK l : l = chain[u][i]
    OBVIOUS
  <2>2. l \in Links /\ Kept(l)
    BY <1>6, <2>1 DEF TraceInv, KeptInv, TypeInv, TypeOK
  <2>3. l.event \in Events
    BY <2>2 DEF Links
  <2>4. CASE l.event = e
    <3>1. text = "deleted" \/ ~ Covers(l, text)
      <4>1. CASE stored[e] = "written"
        BY <1>5, <2>2, <2>4, <4>1, EditShows DEF Kept
      <4> QED
        BY <1>4, <4>1
    <3>2. stored'[l.event] = text
      BY <1>3, <2>3, <2>4
    <3> QED
      BY <1>2, <1>5, <2>1, <3>1, <3>2 DEF Kept, Shown, Covers
  <2>5. CASE l.event # e
    <3>1. stored'[l.event] = stored[l.event]
      BY <1>3, <2>3, <2>5
    <3> QED
      BY <1>2, <2>1, <2>2, <2>5, <3>1 DEF Kept, Shown, Covers
  <2> QED
    BY <2>4, <2>5
<1>7. ASSUME NEW q \in Actors PROVE Adds(q)'
  <2>1. \A v \in Tenants : \A i \in 1 .. Len(session[q].added[v]) :
          session[q].added[v][i].event \in Events
    BY SeenFacts DEF Links
  <2>2. e \notin session[q].wrote
    BY <1>2 DEF EventInv, WroteInv
  <2>3. Adds(q) /\ session'[q] = session[q]
    BY <1>2 DEF TraceInv, KeptInv
  <2> QED
    BY <1>3, <1>5, <2>1, <2>2, <2>3 DEF Adds, Covers
<1>8. KeptInv'
  BY <1>2, <1>6, <1>7 DEF KeptInv
<1>9. ASSUME NEW u \in Tenants, NEW i \in Nat, <<u, i>> \in edits'
      PROVE  /\ i \in 1 .. Len(chain[u])
             /\ chain[u][i] # Gone => Shown(chain[u][i])'
  <2>1. CASE <<u, i>> \in edits
    <3>1. i \in 1 .. Len(chain[u]) /\ (chain[u][i] # Gone => Shown(chain[u][i]))
      BY <2>1 DEF TraceInv, ShownInv
    <3> QED
      BY <1>6, <3>1
  <2>2. CASE <<u, i>> \notin edits
    <3>1. <<u, i>> = <<t, k>>
      BY <1>2, <1>9, <2>2
    <3>2. u = t /\ i = k
      BY <3>1, Zenon
    <3> QED
      BY <1>1, <1>2, <1>6, <3>2
  <2> QED
    BY <2>1, <2>2
<1>10. ShownInv'
  BY <1>2, <1>9 DEF ShownInv
<1> QED
  BY <1>8, <1>10 DEF TraceInv

\* A link that is rewritten covers nothing.
LEMMA TraceEditLink ==
  ASSUME TypeInv, EventInv, TraceInv, NEW t \in Tenants, NEW k \in DOMAIN chain[t],
         EditLink(t, k)
  PROVE  TraceInv'
<1>1. /\ \A u \in Tenants : u # t => chain'[u] = chain[u]
      /\ Len(chain'[t]) = Len(chain[t]) /\ k \in 1 .. Len(chain[t])
      /\ \A i \in 1 .. Len(chain[t]) : i # k => chain'[t][i] = chain[t][i]
      /\ \/ chain'[t][k] = Gone
         \/ chain'[t][k] = [event |-> chain[t][k].event, prev |-> chain[t][k].prev,
                            hash |-> Rewritten]
  BY EditLinkEffect
<1>2. UNCHANGED <<stored, session>> /\ edits' = edits \cup {<<t, k>>} /\ chain[t][k] \in Links
  BY <1>1 DEF EditLink, Edit, TypeInv, TypeOK
<1>3. PICK l : l = chain'[t][k]
  OBVIOUS
<1>4. l = Gone \/ (Kept(l) /\ Shown(l))
  <2>1. CASE l # Gone
    <3>1. PICK e, p : /\ e \in Events /\ p \in Hashes
                      /\ l = [event |-> e, prev |-> p, hash |-> Rewritten]
      BY <1>1, <1>2, <1>3, <2>1 DEF Links
    <3>2. stored[e] \in Texts
      BY <3>1 DEF TypeInv, TypeOK
    <3>3. Hash(p, e, stored[e]) # Rewritten
      BY <3>1, <3>2, RewrittenShows
    <3>4. l.event = e /\ l.prev = p /\ l.hash = Rewritten
      BY <3>1
    <3> QED
      BY <3>3, <3>4 DEF Kept, Shown, Covers
  <2> QED
    BY <2>1
<1>5. ASSUME NEW u \in Tenants, NEW i \in 1 .. Len(chain'[u]), chain'[u][i] # Gone
      PROVE  /\ i \in 1 .. Len(chain[u])
             /\ Kept(chain'[u][i])
             /\ (u = t /\ i = k) \/ Shown(chain[u][i]) => Shown(chain'[u][i])
             /\ chain[u][i] # Gone \/ (u = t /\ i = k)
  <2>1. i \in 1 .. Len(chain[u])
    BY <1>1
  <2>2. CASE u = t /\ i = k
    BY <1>3, <1>4, <1>5, <2>1, <2>2
  <2>3. CASE ~ (u = t /\ i = k)
    <3>1. chain'[u][i] = chain[u][i]
      BY <1>1, <2>1, <2>3
    <3> QED
      BY <1>5, <2>1, <2>3, <3>1 DEF TraceInv, KeptInv
  <2> QED
    BY <2>2, <2>3
<1>6. KeptInv'
  <2>1. \A q \in Actors : Adds(q)'
    BY <1>2 DEF TraceInv, KeptInv, Adds, Covers
  <2>2. ASSUME NEW u \in Tenants, NEW i \in 1 .. Len(chain'[u]), chain'[u][i] # Gone
        PROVE  Kept(chain[u][i])'
    <3>1. Kept(chain'[u][i])
      BY <1>5, <2>2
    <3> QED
      BY <1>2, <3>1 DEF Kept, Covers
  <2> QED
    BY <2>1, <2>2 DEF KeptInv
<1>7. ASSUME NEW u \in Tenants, NEW i \in Nat, <<u, i>> \in edits'
      PROVE  /\ i \in 1 .. Len(chain'[u])
             /\ chain'[u][i] # Gone => Shown(chain'[u][i])
  <2>1. CASE <<u, i>> \in edits
    <3>1. i \in 1 .. Len(chain[u]) /\ (chain[u][i] # Gone => Shown(chain[u][i]))
      BY <2>1 DEF TraceInv, ShownInv
    <3>2. i \in 1 .. Len(chain'[u])
      BY <1>1, <3>1
    <3> QED
      BY <1>5, <3>1, <3>2
  <2>2. CASE <<u, i>> \notin edits
    <3>1. <<u, i>> = <<t, k>>
      BY <1>2, <1>7, <2>2
    <3>2. u = t /\ i = k
      BY <3>1, Zenon
    <3> QED
      BY <1>1, <1>3, <1>4, <3>2
  <2> QED
    BY <2>1, <2>2
<1>8. ShownInv'
  <2>1. ASSUME NEW u \in Tenants, NEW i \in Nat, <<u, i>> \in edits'
        PROVE  i \in 1 .. Len(chain'[u]) /\ (chain'[u][i] # Gone => Shown(chain[u][i])')
    <3>1. i \in 1 .. Len(chain'[u]) /\ (chain'[u][i] # Gone => Shown(chain'[u][i]))
      BY <1>7, <2>1
    <3> QED
      BY <1>2, <3>1 DEF Shown
  <2> QED
    BY <2>1 DEF ShownInv
<1> QED
  BY <1>6, <1>8 DEF TraceInv

LEMMA TraceInit == Init => TraceInv
<1> SUFFICES ASSUME Init PROVE TraceInv
  OBVIOUS
<1>1. \A t \in Tenants : Open.added[t] = <<>>
  BY DEF Open
<1>2. \A s \in Actors : Adds(s)
  BY <1>1 DEF Init, Adds
<1> QED
  BY <1>2 DEF Init, TraceInv, KeptInv, ShownInv

LEMMA TraceStep ==
  ASSUME TypeInv, EventInv, TraceInv, [Next]_vars
  PROVE  TraceInv'
<1>1. ASSUME NEW s \in Requests, NEW e \in Events, Record(s, e) \/ WriteDirectly(s, e)
      PROVE  TraceInv'
  <2>1. s \in Actors /\ TypeOK
    BY ActorSets, OwnTypes
  <2>2. session'[s].wrote = session[s].wrote \cup {e} /\ session'[s].added = session[s].added
    <3>1. CASE Record(s, e)
      <4>1. session'[s] = [pc |-> "linking", tenant |-> Owner[e], todo |-> {e},
                           wrote |-> session[s].wrote \cup {e},
                           taken |-> session[s].taken, added |-> session[s].added]
        BY <2>1, <3>1, RecordEffect
      <4> QED
        BY <4>1
    <3>2. CASE WriteDirectly(s, e)
      <4>1. session'[s] = [pc |-> session[s].pc, tenant |-> session[s].tenant,
                           todo |-> session[s].todo, wrote |-> session[s].wrote \cup {e},
                           taken |-> session[s].taken, added |-> session[s].added]
        BY <2>1, <3>2, WriteEffect
      <4> QED
        BY <4>1
    <3> QED
      BY <1>1, <3>1, <3>2
  <2>3. \A q \in Actors : q # s => session'[q] = session[q]
    BY <1>1, <2>1, BecomeOnly DEF Record, WriteDirectly, TypeOK
  <2>4. Fresh(e) /\ UNCHANGED <<stored, chain, edits>>
    BY <1>1 DEF Record, WriteDirectly
  <2> QED
    BY <2>1, <2>2, <2>3, <2>4, TraceSession
<1>2. ASSUME NEW s \in Actors, TakeLock(s) \/ LeaveUnlinked(s) PROVE TraceInv'
  <2>1. session'[s].wrote = session[s].wrote /\ session'[s].added = session[s].added
    <3>1. CASE TakeLock(s)
      <4> DEFINE free == holder[Tenant(s)] = Nobody
      <4>1. session'[s] = [pc |-> "locked", tenant |-> session[s].tenant,
                           todo |-> session[s].todo, wrote |-> session[s].wrote,
                           taken |-> free, added |-> session[s].added]
        BY <3>1, OwnTypes, TakeEffect
      <4> HIDE DEF free
      <4> QED
        BY <4>1
    <3>2. CASE LeaveUnlinked(s)
      <4>1. session'[s] = [pc |-> "open", tenant |-> session[s].tenant, todo |-> {},
                           wrote |-> session[s].wrote, taken |-> session[s].taken,
                           added |-> session[s].added]
        BY <3>2, OwnTypes, LeaveEffect
      <4> QED
        BY <4>1
    <3> QED
      BY <1>2, <3>1, <3>2
  <2>2. \A q \in Actors : q # s => session'[q] = session[q]
    BY <1>2, OwnTypes, BecomeOnly DEF TakeLock, LeaveUnlinked, TypeOK
  <2>3. UNCHANGED <<stored, chain, edits>>
    BY <1>2 DEF TakeLock, LeaveUnlinked
  <2> QED
    BY <2>1, <2>2, <2>3, TraceSession
<1>3. ASSUME NEW s \in Actors, NEW t \in Tenants, StartSeal(s, t) PROVE TraceInv'
  <2>1. session'[s] = [pc |-> "locked", tenant |-> t,
                       todo |-> First(SealLimit, Unchained(t)), wrote |-> {},
                       taken |-> TRUE, added |-> Open.added]
    BY <1>3, OwnTypes, SealEffect
  <2>2. \A u \in Tenants : Open.added[u] = <<>>
    BY DEF Open
  <2>3. session'[s].wrote = {} /\ \A u \in Tenants : session'[s].added[u] = <<>>
    BY <2>1, <2>2
  <2>4. \A q \in Actors : q # s => session'[q] = session[q]
    BY <1>3, OwnTypes, BecomeOnly DEF StartSeal, TypeOK
  <2>5. UNCHANGED <<stored, chain, edits>>
    BY <1>3 DEF StartSeal
  <2> QED
    BY <2>3, <2>4, <2>5, TraceSession
<1>4. ASSUME NEW s \in Actors, RollBack(s) PROVE TraceInv'
  <2>1. session'[s] = Open /\ \A q \in Actors : q # s => session'[q] = session[q]
    BY <1>4, OwnTypes, BecomeOnly DEF RollBack, TypeOK
  <2>2. Open.wrote = {} /\ \A u \in Tenants : Open.added[u] = <<>>
    BY DEF Open
  <2>3. session'[s].wrote = {} /\ \A u \in Tenants : session'[s].added[u] = <<>>
    BY <2>1, <2>2
  <2>4. UNCHANGED <<stored, chain, edits>>
    BY <1>4 DEF RollBack
  <2> QED
    BY <2>1, <2>3, <2>4, TraceSession
<1>5. ASSUME UNCHANGED <<session, stored, chain, edits>> PROVE TraceInv'
  BY <1>5 DEF TraceInv, KeptInv, ShownInv, Kept, Shown, Adds, Covers
<1> QED
  BY <1>1, <1>2, <1>3, <1>4, <1>5, TraceAppend, TraceCommit, TraceEditEvent, TraceEditLink,
     ActorSets
  DEF Next, LinkStep, StartCheck, CheckLink, EndCheck, Report, vars

-----------------------------------------------------------------------------
(* What a check owes.                                                      *)

\* Link k is in the report: by itself or, when it is gone, by the next link
\* that is left, which the walk did not expect there.
Reported(k) == \E n \in 1 .. Len(chain[check.tenant]), kind \in Kinds :
  /\ <<n, kind>> \in check.problems
  /\ \/ n = k
     \/ /\ n > k /\ kind = "missing_link"
        /\ \A i \in k .. n - 1 : chain[check.tenant][i] = Gone

\* Every edit the check owes is in its report or still ahead of the walk.
OwedInv == check.pc # "idle" =>
  /\ check.pc = "walking" => check.next = check.after + 1
  /\ \A k \in check.owed :
       /\ k \in Nat /\ <<check.tenant, k>> \in edits
       /\ Reported(k) \/ (check.pc = "walking" /\ k > check.after)

\* Rows are added, and what is gone stays gone.
GoneStays == \A t \in Tenants : \A i \in 1 .. Len(chain[t]) :
  i \in 1 .. Len(chain'[t]) /\ (chain[t][i] = Gone => chain'[t][i] = Gone)

LEMMA ReportedStays ==
  ASSUME TypeInv, GoneStays, check' = check, check.pc # "idle", NEW k \in Nat, k >= 1,
         Reported(k)
  PROVE  Reported(k)'
<1>1. PICK t \in Tenants : t = check.tenant
  BY DEF TypeInv
<1>2. PICK n \in 1 .. Len(chain[t]), kind \in Kinds :
        /\ <<n, kind>> \in check.problems
        /\ \/ n = k
           \/ /\ n > k /\ kind = "missing_link"
              /\ \A i \in k .. n - 1 : chain[t][i] = Gone
  BY <1>1 DEF Reported
<1>3. n \in Nat /\ Len(chain[t]) \in Nat
  BY DEF TypeInv, TypeOK
<1>4. \A i \in k .. n - 1 : i \in 1 .. Len(chain[t])
  BY <1>2, <1>3
<1>5. n \in 1 .. Len(chain'[t])
  BY <1>2 DEF GoneStays
<1>6. \A i \in k .. n - 1 : chain[t][i] = Gone => chain'[t][i] = Gone
  BY <1>4 DEF GoneStays
<1> QED
  BY <1>1, <1>2, <1>5, <1>6 DEF Reported

LEMMA OwedFrame ==
  ASSUME TypeInv, ShownInv, OwedInv, GoneStays, check' = check, edits \subseteq edits'
  PROVE  OwedInv'
<1> SUFFICES ASSUME check.pc # "idle", NEW k \in check.owed
             PROVE  /\ k \in Nat /\ <<check.tenant, k>> \in edits
                    /\ Reported(k)' \/ (check.pc = "walking" /\ k > check.after)
  BY DEF OwedInv
<1>1. /\ k \in Nat /\ <<check.tenant, k>> \in edits
      /\ Reported(k) \/ (check.pc = "walking" /\ k > check.after)
  BY DEF OwedInv
<1>2. k >= 1
  BY <1>1 DEF ShownInv, TypeInv
<1> QED
  BY <1>1, <1>2, ReportedStays

LEMMA OwedStart ==
  ASSUME TypeInv, NEW t \in Tenants, NEW full \in BOOLEAN, StartCheck(t, full)
  PROVE  OwedInv'
<1>1. PICK after, prev, problems :
        /\ after \in Nat
        /\ check' = [pc |-> "walking", tenant |-> t, after |-> after, prev |-> prev,
                     next |-> after + 1, problems |-> problems, owed |-> Owed(t, after)]
  <2>1. Len(chain[t]) \in Nat /\ RecentLinks \in Nat
    BY ChainAssumption DEF ChainAssumption, TypeInv, TypeOK
  <2> DEFINE last == Len(chain[t])
             after == IF ~ full /\ last > RecentLinks THEN last - RecentLinks ELSE 0
             lost == after > 0 /\ chain[t][after] = Gone
  <2>2. after \in Nat
    BY <2>1
  <2>3. check' = [pc |-> "walking", tenant |-> t, after |-> after,
                  prev |-> IF lost THEN Genesis ELSE PrevHash(chain[t], after),
                  next |-> after + 1,
                  problems |-> IF lost THEN {<<after, "missing_link">>} ELSE {},
                  owed |-> Owed(t, after)]
    BY DEF StartCheck
  <2> HIDE DEF after, lost
  <2> QED
    BY <2>2, <2>3
<1>2. /\ check'.pc = "walking" /\ check'.tenant = t /\ check'.after = after
      /\ check'.next = after + 1 /\ check'.owed = Owed(t, after)
  BY <1>1
<1>3. \A k \in Owed(t, after) : k \in Nat /\ k > after /\ <<t, k>> \in edits
  BY DEF Owed, TypeInv, TypeOK
<1>4. edits' = edits
  BY DEF StartCheck
<1> QED
  BY <1>2, <1>3, <1>4 DEF OwedInv

\* The walk reports the edited link it comes to, and the gap before it.
LEMMA OwedWalk ==
  ASSUME TypeInv, ShownInv, OwedInv, CheckLink
  PROVE  OwedInv'
<1>1. PICK t \in Tenants : t = check.tenant
  BY DEF TypeInv, CheckLink
<1>2. PICK c : c = chain[t]
  OBVIOUS
<1>3. PICK m \in Ahead :
        /\ \A x \in Ahead : m <= x
        /\ m \in 1 .. Len(c) /\ c[m] \in Links
        /\ check' = [pc |-> check.pc, tenant |-> t, after |-> m, prev |-> c[m].hash,
                     next |-> m + 1, problems |-> check.problems \cup Problem(m),
                     owed |-> check.owed]
  BY <1>1, <1>2, WalkEffect
<1>4. /\ check'.pc = "walking" /\ check'.tenant = t /\ check'.after = m
      /\ check'.next = m + 1 /\ check'.owed = check.owed
      /\ check'.problems = check.problems \cup Problem(m)
  BY <1>3 DEF CheckLink
<1>5. c \in Seq(Rows) /\ Len(c) \in Nat /\ m \in Nat /\ check.after \in Nat
  BY <1>2, <1>3 DEF TypeInv, TypeOK, Rows, Checks
<1>6. chain'[t] = c /\ edits' = edits
  BY <1>2 DEF CheckLink
<1>7. ASSUME NEW k \in check.owed
      PROVE  k \in Nat /\ <<t, k>> \in edits /\ (Reported(k)' \/ k > m)
  <2>1. /\ k \in Nat /\ <<t, k>> \in edits /\ check.next = check.after + 1
        /\ Reported(k) \/ k > check.after
    BY <1>1, <1>7 DEF OwedInv, CheckLink
  <2>2. k \in 1 .. Len(c) /\ (c[k] # Gone => Shown(c[k]))
    BY <1>2, <2>1 DEF ShownInv
  <2>3. CASE Reported(k)
    <3>1. PICK n \in 1 .. Len(c), kind \in Kinds :
            /\ <<n, kind>> \in check.problems
            /\ \/ n = k
               \/ /\ n > k /\ kind = "missing_link"
                  /\ \A i \in k .. n - 1 : c[i] = Gone
      BY <1>1, <1>2, <2>3 DEF Reported
    <3>2. Reported(k)'
      BY <1>4, <1>6, <3>1 DEF Reported
    <3> QED
      BY <2>1, <3>2
  <2>4. CASE k > check.after /\ k = m
    <3>1. Shown(c[m])
      BY <1>3, <2>2, <2>4, GoneIsNoLink
    <3>2. PICK kind \in Kinds : Problem(m) = {<<m, kind>>}
      BY <1>1, <1>2, <3>1, Zenon DEF Shown, Covers, Problem, Kinds
    <3>3. <<m, kind>> \in check'.problems
      BY <1>4, <3>2
    <3>4. Reported(k)'
      BY <1>3, <1>4, <1>6, <2>4, <3>3 DEF Reported
    <3> QED
      BY <2>1, <3>4
  <2>5. CASE k > check.after /\ k < m
    <3>1. \A i \in k .. m - 1 : i \in 1 .. Len(c) /\ i > check.after /\ ~ m <= i
      BY <1>3, <1>5, <2>1, <2>2, <2>5
    <3>2. \A i \in k .. m - 1 : c[i] = Gone
      <4>1. DOMAIN c = 1 .. Len(c)
        BY <1>5
      <4> QED
        BY <1>1, <1>2, <1>3, <3>1, <4>1 DEF Ahead
    <3>3. m # check.next
      BY <1>5, <2>1, <2>5
    <3>4. Problem(m) = {<<m, "missing_link">>}
      BY <3>3, Zenon DEF Problem
    <3>5. <<m, "missing_link">> \in check'.problems /\ "missing_link" \in Kinds /\ m > k
      BY <1>4, <1>5, <2>1, <2>5, <3>4 DEF Kinds
    <3>6. Reported(k)'
      BY <1>3, <1>4, <1>6, <3>2, <3>5 DEF Reported
    <3> QED
      BY <2>1, <3>6
  <2> QED
    BY <1>5, <2>1, <2>3, <2>4, <2>5
<1> QED
  BY <1>4, <1>6, <1>7 DEF OwedInv

\* The newest link is there: nothing owed is ahead when no row is left.
LEMMA OwedEnd ==
  ASSUME TypeInv, ShownInv, OwedInv, EndCheck
  PROVE  OwedInv'
<1>1. PICK t \in Tenants : t = check.tenant
  BY DEF TypeInv, EndCheck
<1>2. PICK c : c = chain[t]
  OBVIOUS
<1>3. c \in Seq(Rows) /\ Len(c) \in Nat /\ DOMAIN c = 1 .. Len(c) /\ check.after \in Nat
  BY <1>2 DEF TypeInv, TypeOK, Rows, Checks
<1>4. check.pc = "walking" /\ check' = [check EXCEPT !.pc = "done"] /\ chain'[t] = c
      /\ edits' = edits
  BY <1>2 DEF EndCheck
<1>5. /\ check'.pc = "done" /\ check'.tenant = t /\ check'.owed = check.owed
      /\ check'.problems = check.problems
  BY <1>1, <1>4 DEF TypeInv, TypeOK, Checks
<1>6. ASSUME NEW k \in check.owed
      PROVE  k \in Nat /\ <<t, k>> \in edits /\ Reported(k)'
  <2>1. k \in Nat /\ <<t, k>> \in edits /\ (Reported(k) \/ k > check.after)
    BY <1>1, <1>4, <1>6 DEF OwedInv
  <2>2. k \in 1 .. Len(c)
    BY <1>2, <2>1 DEF ShownInv
  <2>3. ~ k > check.after
    <3>1. Len(c) > 0 /\ Len(c) \in 1 .. Len(c) /\ k <= Len(c)
      BY <1>3, <2>2
    <3>2. c[Len(c)] # Gone
      BY <1>2, <3>1 DEF TypeInv, HeadInv
    <3>3. k > check.after => Len(c) > check.after
      BY <1>3, <2>1, <3>1
    <3>4. k > check.after => Len(c) \in Ahead
      BY <1>1, <1>2, <1>3, <3>1, <3>2, <3>3 DEF Ahead
    <3> QED
      BY <3>4 DEF EndCheck
  <2>4. PICK n \in 1 .. Len(c), kind \in Kinds :
          /\ <<n, kind>> \in check.problems
          /\ \/ n = k
             \/ /\ n > k /\ kind = "missing_link"
                /\ \A i \in k .. n - 1 : c[i] = Gone
    BY <1>1, <1>2, <2>1, <2>3 DEF Reported
  <2>5. Reported(k)'
    BY <1>4, <1>5, <2>4 DEF Reported
  <2> QED
    BY <2>1, <2>5
<1> QED
  BY <1>4, <1>5, <1>6 DEF OwedInv

LEMMA OwedStep ==
  ASSUME TypeInv, ShownInv, OwedInv, [Next]_vars
  PROVE  OwedInv'
<1>1. ASSUME UNCHANGED <<chain, check, edits>> PROVE OwedInv'
  BY <1>1 DEF OwedInv, Reported
<1>2. ASSUME NEW s \in Actors, Commit(s) PROVE OwedInv'
  <2>1. ASSUME NEW t \in Tenants, NEW i \in 1 .. Len(chain[t])
        PROVE  i \in 1 .. Len(chain'[t]) /\ chain'[t][i] = chain[t][i]
    <3>1. /\ chain'[t] = Seen(s, t) /\ Seen(s, t)[i] = chain[t][i]
          /\ Len(Seen(s, t)) = Len(chain[t]) + Len(session[s].added[t])
          /\ chain[t] \in Seq(Rows) /\ session[s].added[t] \in Seq(Links)
      <4>1. chain'[t] = Seen(s, t)
        BY <1>2, CommitEffect
      <4> QED
        BY <2>1, <4>1, SeenFacts
    <3>2. Len(chain[t]) \in Nat /\ Len(session[s].added[t]) \in Nat
      BY <3>1
    <3>3. i \in 1 .. Len(chain[t]) + Len(session[s].added[t])
      BY <3>2, InFront
    <3> QED
      BY <3>1, <3>3
  <2> QED
    BY <1>2, <2>1, CommitEffect, OwedFrame DEF GoneStays
<1>3. ASSUME NEW t \in Tenants, NEW k \in DOMAIN chain[t], EditEvent(t, k)
      PROVE  OwedInv'
  <2>1. chain' = chain /\ check' = check /\ edits \subseteq edits'
    BY <1>3 DEF EditEvent, Edit
  <2> QED
    BY <2>1, OwedFrame DEF GoneStays
<1>4. ASSUME NEW t \in Tenants, NEW k \in DOMAIN chain[t], EditLink(t, k)
      PROVE  OwedInv'
  <2>1. check' = check /\ edits \subseteq edits' /\ chain[t][k] # Gone
    BY <1>4 DEF EditLink, Edit
  <2>2. GoneStays
    BY <1>4, <2>1, EditLinkEffect DEF GoneStays
  <2> QED
    BY <2>1, <2>2, OwedFrame
<1>5. ASSUME Report PROVE OwedInv'
  BY <1>5 DEF Report, NoCheck, OwedInv
<1> QED
  BY <1>1, <1>2, <1>3, <1>4, <1>5, OwedStart, OwedWalk, OwedEnd, ActorSets
  DEF Next, LinkStep, Record, WriteDirectly, TakeLock, AppendLink, LeaveUnlinked, StartSeal,
      RollBack, vars

-----------------------------------------------------------------------------
(* Theorems.                                                               *)

LEMMA CheckAlways == Spec => []CheckInv
<1>1. Init => CheckInv
  BY CheckInit
<1>2. CheckInv /\ [Next]_vars => CheckInv'
  BY CheckStep
<1> QED
  BY <1>1, <1>2, PTL DEF Spec

\* Every variable of the audit log keeps its type, and a link in a tenant's
\* chain is over an event of that tenant, whatever requests, sealing jobs,
\* checks and outside changes do (audit_chain.py _append, seal_unchained).
THEOREM TypeCorrect == Spec => []TypeOK
<1>1. CheckInv => TypeOK
  BY DEF CheckInv, ChainInv, TypeInv
<1> QED
  BY <1>1, CheckAlways, PTL

\* The chain of a tenant whose rows nobody changed is one chain from the
\* genesis hash with one link per event, however requests, savepoints,
\* sealing runs, roll-backs and commits of any number of processes interleave.
THEOREM ChainWhole == Spec => []ChainIsWhole
<1>1. CheckInv => ChainIsWhole
  BY DEF CheckInv, ChainInv
<1> QED
  BY <1>1, CheckAlways, PTL

\* The integrity check, link by link beside writers that append, reports a
\* problem only for a tenant whose rows were changed outside the platform.
THEOREM NoFalseAlarms == Spec => []NoFalseAlarm
<1>1. CheckInv => NoFalseAlarm
  BY DEF CheckInv
<1> QED
  BY <1>1, CheckAlways, PTL

LEMMA OwedAlways == Spec => [](CheckInv /\ TraceInv /\ OwedInv)
<1> DEFINE Inv == CheckInv /\ TraceInv /\ OwedInv
<1>1. Init => Inv
  <2>1. Init => OwedInv
    BY DEF Init, NoCheck, OwedInv
  <2> QED
    BY <2>1, CheckInit, TraceInit
<1>2. Inv /\ [Next]_vars => Inv'
  <2> SUFFICES ASSUME Inv, [Next]_vars PROVE Inv'
    OBVIOUS
  <2>1. TypeInv /\ EventInv /\ ShownInv
    BY DEF CheckInv, ChainInv, TraceInv
  <2> QED
    BY <2>1, CheckStep, TraceStep, OwedStep
<1> QED
  BY <1>1, <1>2, PTL DEF Spec

\* What was changed before a check began, an event, a link's hash or a link
\* taken out of the middle, is in its report when the walk ends, whatever
\* requests and sealing runs append and whatever else is changed meanwhile
\* (audit_chain.py verify).
THEOREM EditsReported == Spec => []EditsAreReported
<1>1. TypeInv /\ OwedInv => EditsAreReported
  <2> SUFFICES ASSUME TypeInv, OwedInv, check.pc = "done", NEW k \in check.owed
               PROVE  \E p \in check.problems :
                        \/ p[1] = k
                        \/ /\ chain[check.tenant][k] = Gone
                           /\ p[1] > k
                           /\ p[2] = "missing_link"
                           /\ \A i \in k .. p[1] - 1 : chain[check.tenant][i] = Gone
    BY DEF EditsAreReported
  <2>1. k \in Nat /\ Reported(k)
    BY DEF OwedInv
  <2>2. PICK n \in 1 .. Len(chain[check.tenant]), kind \in Kinds :
          /\ <<n, kind>> \in check.problems
          /\ \/ n = k
             \/ /\ n > k /\ kind = "missing_link"
                /\ \A i \in k .. n - 1 : chain[check.tenant][i] = Gone
    BY <2>1 DEF Reported
  <2>3. <<n, kind>>[1] = n /\ <<n, kind>>[2] = kind
    BY Zenon
  <2>4. n > k => k \in k .. n - 1
    <3>1. chain[check.tenant] \in Seq(Rows)
      BY DEF TypeInv, TypeOK, Rows
    <3>2. n \in Nat
      BY <2>2, <3>1
    <3> QED
      BY <2>1, <3>2
  <2> QED
    BY <2>2, <2>3, <2>4
<1>2. CheckInv /\ TraceInv /\ OwedInv => EditsAreReported
  BY <1>1 DEF CheckInv, ChainInv
<1> QED
  BY <1>2, OwedAlways, PTL

=============================================================================
