----------------------------- MODULE AuditChain -----------------------------
(***************************************************************************)
(* The tamper-evident audit log (services/audit_chain.py) and the requests *)
(* that write to it (services/audit_service.py): per tenant, a chain of    *)
(* links in which each hash covers the link before it and one audit event. *)
(*                                                                         *)
(* A request inserts its events and links them inside its own transaction, *)
(* under an advisory lock it keeps until that transaction ends; a link     *)
(* that fails is rolled back to a savepoint and left to the sealing job.   *)
(* The integrity check walks the links while both go on, one link a step.  *)
(*                                                                         *)
(* The position of a link in `chain` is its seq; that the table also       *)
(* refuses a second link with the same seq is left out, no property needs  *)
(* it.  A hash is modelled as what it covers: equal hashes mean equal      *)
(* histories.                                                              *)
(***************************************************************************)
EXTENDS Naturals, Sequences, FiniteSets

CONSTANTS
  Tenants,
  Events,       \* event ids, in the order of (created_at, id)
  Owner,        \* the tenant of each event
  Requests,     \* transactions that write audit events
  Sealers,      \* processes that run the sealing job
  Nobody,       \* the holder of a free lock
  SealLimit,    \* events a sealing run links per tenant
  RecentLinks,  \* links the default check covers
  MaxEdits      \* bound: rows changed or deleted outside the platform

Actors == Requests \cup Sealers

ASSUME ChainAssumption ==
  /\ Events \subseteq Nat
  /\ Owner \in [Events -> Tenants]
  /\ Requests \cap Sealers = {}
  /\ Nobody \notin Actors
  /\ SealLimit \in Nat \ {0}
  /\ RecentLinks \in Nat \ {0}
  /\ MaxEdits \in Nat

VARIABLES
  stored,   \* the committed event rows: what each event says
  chain,    \* the committed links of each tenant
  holder,   \* who holds the advisory lock of each tenant
  session,  \* what each transaction has not committed
  check,    \* the integrity check
  edits     \* the rows changed outside the platform so far

vars == <<stored, chain, holder, session, check, edits>>

-----------------------------------------------------------------------------
(* Links.                                                                  *)

Genesis == <<>>

\* chain_hash: a digest of the hash before and the event as stored.
Hash(prev, e, text) == Append(prev, <<e, text>>)

\* What the row of a deleted link leaves.
Gone == [gone |-> TRUE]

Link(prev, e, text) == [event |-> e, prev |-> prev, hash |-> Hash(prev, e, text)]

\* The hash a link of chain c after its first k links starts from.
PrevHash(c, k) == IF k = 0 THEN Genesis ELSE c[k].hash

Linked(c, e) == \E k \in DOMAIN c : c[k] # Gone /\ c[k].event = e

\* The links of tenant t as transaction s sees them, its own included.
Seen(s, t) == chain[t] \o session[s].added[t]

-----------------------------------------------------------------------------
(* Transactions.  `wrote` holds the events inserted, `added` the links per *)
(* tenant, `todo` the events of `tenant` still to be linked (by a request: *)
(* the one it is recording).  `taken`: in the current savepoint, the lock. *)

Open == [pc |-> "open", tenant |-> Nobody, todo |-> {}, wrote |-> {}, taken |-> FALSE,
         added |-> [t \in Tenants |-> <<>>]]

At(s, pc) == session[s].pc = pc
Become(s, next) == session' = [session EXCEPT ![s] = next]

\* Event e is a committed row.
Exists(e) == stored[e] \in {"written", "edited"}

Fresh(e) == stored[e] = "absent" /\ \A s \in Actors : e \notin session[s].wrote

\* The next event to link, and the tenant it is linked for.
Turn(s) == CHOOSE e \in session[s].todo : \A x \in session[s].todo : e <= x
Tenant(s) == session[s].tenant

\* pg_advisory_xact_lock: held by this transaction, or free.
MayLock(s, t) == holder[t] \in {Nobody, s}

\* The locks of a transaction that ends.
Released(s) == [t \in Tenants |-> IF holder[t] = s THEN Nobody ELSE holder[t]]

\* AuditService.record, up to the first savepoint.
Record(s, e) ==
  /\ At(s, "open")
  /\ Fresh(e)
  /\ Become(s, [session[s] EXCEPT !.pc = "linking", !.tenant = Owner[e],
                                  !.todo = {e}, !.wrote = @ \cup {e}])
  /\ UNCHANGED <<stored, chain, holder, check, edits>>

\* A service inserts the AuditEvent itself: no link.
WriteDirectly(s, e) ==
  /\ At(s, "open")
  /\ Fresh(e)
  /\ Become(s, [session[s] EXCEPT !.wrote = @ \cup {e}])
  /\ UNCHANGED <<stored, chain, holder, check, edits>>

TakeLock(s) ==
  /\ At(s, "linking")
  /\ MayLock(s, Tenant(s))
  /\ Become(s, [session[s] EXCEPT !.pc = "locked",
                                  !.taken = holder[Tenant(s)] = Nobody])
  /\ holder' = [holder EXCEPT ![Tenant(s)] = s]
  /\ UNCHANGED <<stored, chain, check, edits>>

\* What the transaction reads back for event e.
Text(s, e) == IF e \in session[s].wrote THEN "written" ELSE stored[e]

\* Mutant of Extended: the running hash is not carried to the next row.
ExtendedFlat(s, e) ==
  LET t == Tenant(s)
  IN  Append(session[s].added[t], Link(PrevHash(chain[t], Len(chain[t])), e, Text(s, e)))
\* _append: the links this transaction added for the tenant, and one for e.
Extended(s, e) ==
  LET t == Tenant(s)
  IN  Append(session[s].added[t],
             Link(PrevHash(Seen(s, t), Len(Seen(s, t))), e, Text(s, e)))

\* One row of _append (none when the event has a link already).
AppendLink(s) ==
  LET e == Turn(s)
  IN  /\ At(s, "locked")
      /\ session[s].todo # {}
      /\ Become(s, [session[s] EXCEPT
                      !.pc = IF s \in Requests THEN "open" ELSE "locked",
                      !.todo = @ \ {e},
                      !.added[Tenant(s)] = IF Linked(Seen(s, Tenant(s)), e) THEN @
                                           ELSE Extended(s, e)])
      /\ UNCHANGED <<stored, chain, holder, check, edits>>

\* Linking raises (a deadlock victim, a timeout): the savepoint is rolled
\* back, with the lock if it was taken in it, and the request goes on.
LeaveUnlinked(s) ==
  /\ s \in Requests
  /\ session[s].pc \in {"linking", "locked"}
  /\ holder' = IF At(s, "locked") /\ session[s].taken
               THEN [holder EXCEPT ![Tenant(s)] = Nobody] ELSE holder
  /\ Become(s, [session[s] EXCEPT !.pc = "open", !.todo = {}])
  /\ UNCHANGED <<stored, chain, check, edits>>

\* The request, or the sealing of one tenant, commits.
Commit(s) ==
  /\ \/ s \in Requests /\ At(s, "open") /\ session[s].wrote # {}
     \/ s \in Sealers /\ At(s, "locked") /\ session[s].todo = {}
  /\ stored' = [e \in Events |-> IF e \in session[s].wrote THEN "written" ELSE stored[e]]
  /\ chain' = [t \in Tenants |-> Seen(s, t)]
  /\ holder' = Released(s)
  /\ Become(s, Open)
  /\ UNCHANGED <<check, edits>>

\* The business request fails, its process dies, or the job raises.
RollBack(s) ==
  /\ session[s] # Open
  /\ holder' = Released(s)
  /\ Become(s, Open)
  /\ UNCHANGED <<stored, chain, check, edits>>

-----------------------------------------------------------------------------
(* seal_unchained.                                                         *)

\* Mutant of Unchained: the outer join does not ask for a missing link.
UnchainedOrNot(t) == {e \in Events : Owner[e] = t /\ Exists(e)}
\* Mutant of Unchained: the rows are not restricted to the tenant.
UnchainedAll(t) == {e \in Events : Exists(e) /\ ~ Linked(chain[t], e)}
\* Committed events of tenant t without a link.
Unchained(t) ==
  {e \in Events : Owner[e] = t /\ Exists(e) /\ ~ Linked(chain[t], e)}

\* The first k members of S.
First(k, S) == {e \in S : Cardinality({x \in S : x < e}) < k}

\* The lock is held before the rows are read.
StartSeal(s, t) ==
  /\ At(s, "open")
  /\ Unchained(t) # {}
  /\ holder[t] = Nobody
  /\ holder' = [holder EXCEPT ![t] = s]
  /\ Become(s, [Open EXCEPT !.pc = "locked", !.tenant = t, !.taken = TRUE,
                            !.todo = First(SealLimit, Unchained(t))])
  /\ UNCHANGED <<stored, chain, check, edits>>

-----------------------------------------------------------------------------
(* verify.                                                                 *)

NoCheck == [pc |-> "idle", tenant |-> Nobody, after |-> 0, prev |-> Genesis,
            next |-> 1, problems |-> {}, owed |-> {}]

\* What was edited and is there for a check that starts behind link k.
Owed(t, k) == {i \in DOMAIN chain[t] : i > k /\ <<t, i>> \in edits}

\* The default check starts behind the last RecentLinks links, from the
\* stored hash of the link before them.
StartCheck(t, full) ==
  LET last == Len(chain[t])
      after == IF ~ full /\ last > RecentLinks THEN last - RecentLinks ELSE 0
      lost == after > 0 /\ chain[t][after] = Gone
  IN  /\ check.pc = "idle"
      /\ check' = [pc |-> "walking", tenant |-> t, after |-> after,
                   prev |-> IF lost THEN Genesis ELSE PrevHash(chain[t], after),
                   next |-> after + 1,
                   problems |-> IF lost THEN {<<after, "missing_link">>} ELSE {},
                   owed |-> Owed(t, after)]
      /\ UNCHANGED <<stored, chain, holder, session, edits>>

\* Rows of the walk that are left.
Ahead == {k \in DOMAIN chain[check.tenant] :
            k > check.after /\ chain[check.tenant][k] # Gone}

\* Mutant of Problem: the stored hash is compared with itself only.
ProblemUnhashed(k) ==
  LET l == chain[check.tenant][k]
  IN  IF k # check.next THEN {<<k, "missing_link">>}
      ELSE IF l.prev # check.prev THEN {<<k, "broken_link">>}
      ELSE IF stored[l.event] = "deleted" THEN {<<k, "event_deleted">>}
      ELSE {}
\* Mutant of Problem: the walk compares with the genesis hash throughout.
ProblemFromGenesis(k) ==
  LET l == chain[check.tenant][k]
  IN  IF k # check.next THEN {<<k, "missing_link">>}
      ELSE IF l.prev # Genesis THEN {<<k, "broken_link">>}
      ELSE IF stored[l.event] = "deleted" THEN {<<k, "event_deleted">>}
      ELSE IF l.hash # Hash(l.prev, l.event, stored[l.event])
           THEN {<<k, "event_modified">>}
      ELSE {}
\* What is wrong with link k, if anything.
Problem(k) ==
  LET l == chain[check.tenant][k]
  IN  IF k # check.next THEN {<<k, "missing_link">>}
      ELSE IF l.prev # check.prev THEN {<<k, "broken_link">>}
      ELSE IF stored[l.event] = "deleted" THEN {<<k, "event_deleted">>}
      ELSE IF l.hash # Hash(l.prev, l.event, stored[l.event])
           THEN {<<k, "event_modified">>}
      ELSE {}

CheckLink ==
  /\ check.pc = "walking"
  /\ \E k \in Ahead :
       /\ \A x \in Ahead : k <= x
       /\ check' = [check EXCEPT !.after = k,
                                 !.prev = chain[check.tenant][k].hash,
                                 !.next = k + 1,
                                 !.problems = @ \cup Problem(k)]
  /\ UNCHANGED <<stored, chain, holder, session, edits>>

EndCheck ==
  /\ check.pc = "walking"
  /\ Ahead = {}
  /\ check' = [check EXCEPT !.pc = "done"]
  /\ UNCHANGED <<stored, chain, holder, session, edits>>

Report ==
  /\ check.pc = "done"
  /\ check' = NoCheck
  /\ UNCHANGED <<stored, chain, holder, session, edits>>

-----------------------------------------------------------------------------
(* Rows changed in the database itself.  `edits` names the links concerned. *)

Edit(t, k) ==
  /\ Cardinality(edits) < MaxEdits
  /\ k \in DOMAIN chain[t]
  /\ chain[t][k] # Gone
  /\ edits' = edits \cup {<<t, k>>}
  /\ UNCHANGED <<holder, session, check>>

EditEvent(t, k) ==
  /\ Edit(t, k)
  /\ LET e == chain[t][k].event
     IN  /\ stored[e] # "deleted"
         /\ \E text \in {"edited", "deleted"} \ {stored[e]} :
              stored' = [stored EXCEPT ![e] = text]
  /\ UNCHANGED chain

Rewritten == <<<<0, "rewritten">>>>

\* The hash of a link is overwritten, or a link is deleted that has one
\* behind it (the newest link may go unnoticed: only a head recorded
\* elsewhere shows that).
EditLink(t, k) ==
  /\ Edit(t, k)
  /\ \/ chain' = [chain EXCEPT ![t][k].hash = Rewritten]
     \/ /\ k < Len(chain[t])
        /\ chain' = [chain EXCEPT ![t][k] = Gone]
  /\ UNCHANGED stored

-----------------------------------------------------------------------------
Init ==
  /\ stored = [e \in Events |-> "absent"]
  /\ chain = [t \in Tenants |-> <<>>]
  /\ holder = [t \in Tenants |-> Nobody]
  /\ session = [s \in Actors |-> Open]
  /\ check = NoCheck
  /\ edits = {}

LinkStep(s) == TakeLock(s) \/ AppendLink(s) \/ LeaveUnlinked(s)

Next ==
  \/ \E s \in Requests, e \in Events : Record(s, e) \/ WriteDirectly(s, e)
  \/ \E s \in Requests : LinkStep(s)
  \/ \E s \in Sealers : AppendLink(s) \/ \E t \in Tenants : StartSeal(s, t)
  \/ \E s \in Actors : Commit(s) \/ RollBack(s)
  \/ \E t \in Tenants, full \in BOOLEAN : StartCheck(t, full)
  \/ CheckLink \/ EndCheck \/ Report
  \/ \E t \in Tenants : \E k \in DOMAIN chain[t] : EditEvent(t, k) \/ EditLink(t, k)

\* A transaction that has begun ends, and the job runs for every tenant.
\* PostgreSQL grants advisory locks in the order of the requests, so a
\* sealing run is not overtaken forever (SF).  That its transaction fails
\* only so often is assumed.
Fairness ==
  /\ \A s \in Requests : WF_vars(LinkStep(s) \/ Commit(s))
  /\ \A s \in Sealers : /\ \A t \in Tenants : SF_vars(StartSeal(s, t))
                        /\ WF_vars(AppendLink(s) \/ Commit(s))
                        /\ <>[][RollBack(s) => Commit(s)]_vars

Spec == Init /\ [][Next]_vars
FairSpec == Spec /\ Fairness

-----------------------------------------------------------------------------
(* Properties.                                                             *)

Texts == {"absent", "written", "edited", "deleted"}

Kinds == {"missing_link", "broken_link", "event_deleted", "event_modified"}

Hashes == Seq(Nat \X (Texts \cup {"rewritten"}))

Links == [event: Events, prev: Hashes, hash: Hashes]

Transaction == [pc: {"open", "linking", "locked"}, tenant: Tenants \cup {Nobody},
                todo: SUBSET Events, wrote: SUBSET Events, taken: BOOLEAN,
                added: [Tenants -> Seq(Links)]]

Checks == [pc: {"idle", "walking", "done"}, tenant: Tenants \cup {Nobody},
           after: Nat, prev: Hashes, next: Nat,
           problems: SUBSET (Nat \X Kinds), owed: SUBSET Nat]

\* Every variable keeps its type; links are those of the tenant's own events.
TypeOK ==
  /\ stored \in [Events -> Texts]
  /\ chain \in [Tenants -> Seq(Links \cup {Gone})]
  /\ \A t \in Tenants : \A k \in DOMAIN chain[t] :
       chain[t][k] # Gone => Owner[chain[t][k].event] = t
  /\ holder \in [Tenants -> Actors \cup {Nobody}]
  /\ session \in [Actors -> Transaction]
  /\ check \in Checks
  /\ edits \subseteq Tenants \X Nat

\* Nobody changed a row of tenant t outside the platform.
Untouched(t) == \A x \in edits : x[1] # t

\* c is one chain from the genesis hash, each link over the event it names
\* as `text` has it, and no event has two links.
Whole(c, text) == \A k \in DOMAIN c :
  /\ c[k] = Link(PrevHash(c, k - 1), c[k].event, text[c[k].event])
  /\ \A i \in 1 .. k - 1 : c[i].event # c[k].event

\* "A per-tenant transaction-level advisory lock keeps the chain strictly
\* sequential": no overlap of requests and sealing, no savepoint, crash or
\* deadlock forks the chain, leaves a gap or links an event twice.
ChainIsWhole == \A t \in Tenants : Untouched(t) => Whole(chain[t], stored)

\* A check that runs beside requests and the sealing job reports nothing on
\* a tenant whose rows nobody changed.
NoFalseAlarm == check.problems # {} => ~ Untouched(check.tenant)

\* "verify ... reports any link whose event was changed or deleted, or whose
\* link to the previous one was altered": what was changed before the check
\* began, within what it covers, is in its report when it ends.
EditsAreReported ==
  check.pc = "done" => \A k \in check.owed :
    \E p \in check.problems :
      \/ p[1] = k
      \/ /\ chain[check.tenant][k] = Gone
         /\ p[1] > k
         /\ p[2] = "missing_link"
         /\ \A i \in k .. p[1] - 1 : chain[check.tenant][i] = Gone

\* "The sealing job links it later": every event that is committed is linked
\* in the end, whether its own request linked it, could not, or never tried.
EventuallyLinked == \A e \in Events :
  Exists(e) ~> Linked(chain[Owner[e]], e) \/ stored[e] = "deleted"

=============================================================================
