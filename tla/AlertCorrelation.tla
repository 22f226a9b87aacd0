-------------------------- MODULE AlertCorrelation --------------------------
(***************************************************************************)
(* Alerts and the incidents they are grouped into: AlertService,           *)
(* CorrelationEngine, the two lifecycle rules (resolution on clear and the *)
(* stale-close sweep) and the operators who acknowledge, resolve and close *)
(* both kinds of row while the pollers run.                                *)
(*                                                                         *)
(* Every poller evaluates one probe in one READ COMMITTED transaction.  A  *)
(* transaction is a few steps: what it read and decided so far is in       *)
(* tx[w], the committed rows are in alerts and incidents, and a step that  *)
(* updates a row waits for the transaction that has it locked.  Rows are   *)
(* numbered in the order they are committed.                               *)
(***************************************************************************)
EXTENDS Integers, Sequences, FiniteSets

CONSTANTS Workers,      \* concurrent evaluations: collection runs and API requests
          Collectors,   \* the workers that are collection runs, not sensor routes
          Probes,       \* what can raise an alert: sensors and vendor signals
          Sensors,      \* the probes that are sensors: they report "up" as well
          Located,      \* the probes whose alerts have a device or a site
          SignatureOf,  \* build_signature of a probe's alerts
          Availability, \* the probes whose alerts are in the root-cause category
          Severities,   \* severities of an alert, as ranks
          Window,       \* correlation_inactivity_minutes
          StaleAfter,   \* incident_stale_minutes
          Targets,      \* the states operators move incidents to in a run
          MaxTime, MaxAlerts, MaxIncidents  \* bounds of a run

ASSUME WorkersAssumption == IsFiniteSet(Workers) /\ Collectors \subseteq Workers
ASSUME ProbesAssumption == /\ Sensors \subseteq Probes /\ Availability \subseteq Probes
                           /\ Located \subseteq Probes
ASSUME SeveritiesAssumption == /\ Severities \subseteq Nat \ {0}
                               /\ \E top \in Severities : \A s \in Severities : s <= top
ASSUME TimesAssumption == Window \in Nat /\ StaleAfter \in Nat /\ MaxTime \in Nat
ASSUME BoundsAssumption == MaxAlerts \in Nat /\ MaxIncidents \in Nat

VARIABLES now,        \* the clock, in correlation windows
          alerts,     \* the alerts table
          incidents,  \* the incidents table
          tx,         \* the transaction each worker is in
          sweep,      \* the incidents the stale-close sweep has listed
          rca         \* per incident handed to the RCA trigger, how often
vars == <<now, alerts, incidents, tx, sweep, rca>>

None == 0      \* no row (ids count from 1)
Clear == 0     \* the severity of a healthy reading

\* "active" is open or acknowledged, which no query or rule tells apart
AlertStatuses == {"active", "resolved"}
\* "acknowledged" stands for every state the sweep closes besides "open"
\* (investigating, monitoring), "recovered" for the live ones it leaves alone and
\* "closed" for archived too.
IncidentStatuses == {"open", "acknowledged", "recovered", "closed", "resolved"}
StaleEligible == {"open", "acknowledged"}

\* No route opens an incident again.
ASSUME TargetsAssumption == Targets \subseteq IncidentStatuses \ {"open"}

Alert == [probe : Probes, status : AlertStatuses, severity : Severities,
          triggered : 0 .. MaxTime, seen : 0 .. MaxTime, incident : 0 .. MaxIncidents,
          parent : 0 .. MaxAlerts, root : BOOLEAN, suppressed : BOOLEAN]
Incident == [signature : {SignatureOf[p] : p \in Probes}, status : IncidentStatuses,
             severity : Severities, last : 0 .. MaxTime, count : 0 .. MaxAlerts + 1,
             root : 0 .. MaxAlerts]

\* A transaction: pc, the probe and what was read of it and when, the alert and
\* the incident it works on (None: a row it inserts), the incident's attributes
\* as loaded, and how the alert joins.
Idle == [pc |-> "idle", probe |-> None, reading |-> Clear, at |-> 0, alert |-> None,
         incident |-> None, member |-> FALSE, count |-> 0, severity |-> 0, how |-> ""]

-----------------------------------------------------------------------------
(* What the queries return, and what is locked.                            *)

Active(a) == alerts[a].status /= "resolved"

\* get_active_for_sensor, get_active_for_signal
ActiveFor(p) == {a \in DOMAIN alerts : alerts[a].probe = p /\ Active(a)}

\* (mutant: a lookup that ignores the signature)
OpenForAny(s) == {i \in DOMAIN incidents : incidents[i].status /= "resolved"}

\* get_open_for_signature: of the incidents that are not resolved, the ones with
\* the latest last_alert_at (the first row of a tie is the database's choice)
OpenFor(s) ==
    LET joinable == {i \in DOMAIN incidents : /\ incidents[i].signature = s
                                              /\ incidents[i].status /= "resolved"}
    IN  {i \in joinable : \A j \in joinable : incidents[j].last <= incidents[i].last}

Members(i) == {a \in DOMAIN alerts : alerts[a].incident = i}

\* count_active_for_incident, which a transaction that resolves a asks
RemainingWithout(a) == {b \in Members(alerts[a].incident) : b /= a /\ Active(b)}

LockedAlert(a) == \E w \in Workers : /\ tx[w].pc \in {"recorded", "joined", "counted"}
                                     /\ tx[w].alert = a
LockedIncident(i) == \E w \in Workers : /\ tx[w].pc = "joined"
                                        /\ tx[w].how \in {"add", "touch"}
                                        /\ tx[w].incident = i

\* (mutants: without the unique indexes)
InsertingAlertNever(p) == FALSE
OpenHoldersNever(s) == {}

\* uq_alerts_active_per_sensor / _per_signal and uq_incidents_open_signature make
\* an INSERT wait for an uncommitted one of the same key
InsertingAlert(p) == \E w \in Workers : /\ tx[w].pc \in {"recorded", "joined"}
                                        /\ tx[w].alert = None
                                        /\ tx[w].probe = p
InsertingIncident(s) == \E w \in Workers : /\ tx[w].pc = "joined"
                                           /\ tx[w].how = "new"
                                           /\ SignatureOf[tx[w].probe] = s
OpenHolders(s) == {i \in DOMAIN incidents : /\ incidents[i].signature = s
                                            /\ incidents[i].status = "open"}

\* The rows that may still be inserted within the bounds of a run
RoomForAlert == Len(alerts) + Cardinality({w \in Workers : /\ tx[w].pc \in {"recorded", "joined"}
                                                           /\ tx[w].alert = None}) < MaxAlerts
RoomForIncident == Len(incidents) + Cardinality({w \in Workers : /\ tx[w].pc = "joined"
                                                                 /\ tx[w].how = "new"}) < MaxIncidents

-----------------------------------------------------------------------------
Init ==
    /\ now = 0
    /\ alerts = <<>>
    /\ incidents = <<>>
    /\ tx = [w \in Workers |-> Idle]
    /\ sweep = {}
    /\ rca = [i \in 1 .. MaxIncidents |-> 0]

\* evaluate_sensor / upsert_vendor_native read the probe's active alert.  A
\* healthy sensor without one is the "noop" answer, which changes nothing.
Evaluate(w, p) ==
    /\ tx[w].pc = "idle"
    /\ p \in Sensors \/ w \in Collectors
    /\ \E reading \in Severities \union IF p \in Sensors THEN {Clear} ELSE {} :
        /\ reading = Clear => ActiveFor(p) /= {}
        /\ \E a \in IF ActiveFor(p) = {} THEN {None} ELSE ActiveFor(p) :
            tx' = [tx EXCEPT ![w] = [Idle EXCEPT !.pc = "read", !.probe = p, !.alert = a,
                                                 !.reading = reading, !.at = now]]
    /\ UNCHANGED <<now, alerts, incidents, sweep, rca>>

\* record_occurrence (or create, which the unique index refuses when the probe
\* has an active alert by now: the transaction aborts) and the lookup of
\* correlate: an incident whose last alert is older than the window is dropped.
\* For an alert with neither device nor site nothing is looked up.
Record(w) ==
    LET t == tx[w]
        found == {i \in OpenFor(SignatureOf[t.probe]) :
                    t.probe \in Located /\ incidents[i].last >= now - Window}
    IN  /\ t.pc = "read" /\ t.reading /= Clear
        /\ IF t.alert = None
           THEN /\ ActiveFor(t.probe) = {}
                /\ ~InsertingAlert(t.probe)
                /\ RoomForAlert
           ELSE ~LockedAlert(t.alert)
        /\ \E i \in IF found = {} THEN {None} ELSE found :
            tx' = [tx EXCEPT ![w].pc = "recorded", ![w].incident = i,
                             ![w].count = IF i = None THEN 0 ELSE incidents[i].count,
                             ![w].severity = IF i = None THEN 0 ELSE incidents[i].severity,
                             ![w].member = /\ i /= None
                                           /\ t.alert /= None
                                           /\ alerts[t.alert].incident = i]
        /\ UNCHANGED <<now, alerts, incidents, sweep, rca>>

\* No incident found: INSERT one, unless an open incident has the signature.
\* Then the savepoint is rolled back and the conflicting incident is looked up
\* again, this time without the window.
Open(w) ==
    LET t == tx[w]
        s == SignatureOf[t.probe]
    IN  /\ t.pc = "recorded" /\ t.incident = None /\ t.probe \in Located
        /\ ~InsertingIncident(s)
        /\ \/ /\ OpenHolders(s) = {}
              /\ RoomForIncident
              /\ tx' = [tx EXCEPT ![w].pc = "joined", ![w].how = "new"]
           \/ /\ OpenHolders(s) /= {}
              /\ \E i \in OpenFor(s) :
                    tx' = [tx EXCEPT ![w].pc = "joined", ![w].how = "conflict",
                                     ![w].incident = i]
        /\ UNCHANGED <<now, alerts, incidents, sweep, rca>>

\* An incident was found: a member whose severity it has already advances the
\* recurrence (touch_occurrence), any other alert is added (add_alert).  Both
\* update the row, so they wait for its lock.
Join(w) ==
    LET t == tx[w]
        same == t.member /\ t.reading = t.severity
    IN  /\ t.pc = "recorded" /\ t.incident /= None
        /\ ~LockedIncident(t.incident)
        /\ tx' = [tx EXCEPT ![w].pc = "joined", ![w].how = IF same THEN "touch" ELSE "add"]
        /\ UNCHANGED <<now, alerts, incidents, sweep, rca>>

\* (mutants: the latest candidate; no default for an incident without active members)
SelectLatest(rows, members) ==
    LET candidates == {a \in members : /\ rows[a].probe \in Availability
                                       /\ rows[a].status /= "resolved"}
    IN  IF candidates = {} THEN {None}
        ELSE {a \in candidates : \A b \in candidates : rows[b].triggered <= rows[a].triggered}
MaxSeverityInfo(rows, members, default) ==
    LET active == {a \in members : rows[a].status /= "resolved"}
    IN  IF active = {} THEN 0 ELSE default

\* The rest of correlate and the commit.  The alert is linked to the incident;
\* the incident's severity and root cause are computed over its members, or, on
\* an idempotent recurrence, over this alert alone; the other members are
\* suppressed below the root cause, or no longer.

\* The first to fire.  Of several it is the first of the list, which is ordered by
\* last occurrence, latest first (of a tie there, the database's choice).
SelectRootCause(rows, members) ==
    LET candidates == {a \in members : /\ rows[a].probe \in Availability
                                       /\ rows[a].status /= "resolved"}
    IN  IF candidates = {} THEN {None}
        ELSE {a \in candidates : \A b \in candidates :
                \/ rows[a].triggered < rows[b].triggered
                \/ rows[a].triggered = rows[b].triggered /\ rows[b].seen <= rows[a].seen}

MaxSeverity(rows, members, default) ==
    LET active == {a \in members : rows[a].status /= "resolved"}
    IN  IF active = {} THEN default
        ELSE CHOOSE s \in {rows[a].severity : a \in active} :
                 \A a \in active : rows[a].severity <= s

ApplySuppression(rows, members, root) ==
    [a \in DOMAIN rows |->
        IF a \notin members \/ rows[a].status = "resolved" THEN rows[a]
        ELSE LET isRoot == a = root
                 suppress == root /= None /\ a /= root
             IN  IF rows[a].root = isRoot /\ rows[a].suppressed = suppress THEN rows[a]
                 ELSE [rows[a] EXCEPT !.root = isRoot, !.suppressed = suppress,
                                      !.parent = IF suppress THEN root ELSE @]]

\* When the alert of t fired: the moment a sensor was evaluated, or whatever time
\* the vendor's signal gives.
FiredAt(t) == IF t.probe \in Sensors THEN {t.at} ELSE 0 .. MaxTime

\* The alert row of transaction t, linked to incident i
Linked(t, fired, i) ==
    IF t.alert = None
    THEN Append(alerts, [probe |-> t.probe, status |-> "active", severity |-> t.reading,
                         triggered |-> fired, seen |-> t.at, incident |-> i,
                         parent |-> None, root |-> FALSE, suppressed |-> FALSE])
    ELSE [alerts EXCEPT ![t.alert].severity = t.reading, ![t.alert].seen = t.at,
                        ![t.alert].incident = i]

\* alert_count + 1, counted up to one more than there are alerts
Bump(count) == IF count > MaxAlerts THEN count ELSE count + 1

\* The incident row as the join leaves it
Joined(t, rows, a, i) ==
    IF t.how = "new"
    THEN Append(incidents, [signature |-> SignatureOf[t.probe], status |-> "open",
                            severity |-> t.reading, last |-> rows[a].triggered,
                            count |-> 1, root |-> None])
    ELSE [incidents EXCEPT ![i].last = IF t.how = "conflict" THEN @ ELSE t.at,
                           ![i].count = IF t.how = "add" THEN Bump(t.count) ELSE @]

CommitJoin(w) == \E fired \in FiredAt(tx[w]) :
    LET t == tx[w]
        a == IF t.alert = None THEN Len(alerts) + 1 ELSE t.alert
        i == IF t.how = "new" THEN Len(incidents) + 1 ELSE t.incident
        rows == Linked(t, fired, i)
        unchanged == \/ t.how = "touch"
                     \/ t.how = "add" /\ t.member /\ t.reading = incidents[i].severity
        members == IF unchanged THEN {a} ELSE {b \in DOMAIN rows : rows[b].incident = i}
    IN  /\ t.pc = "joined"
        /\ \A b \in members \ {a} : ~LockedAlert(b)
        /\ t.how = "conflict" => ~LockedIncident(i)
        /\ \E root \in SelectRootCause(rows, members) :
              /\ alerts' = ApplySuppression(rows, members, root)
              /\ incidents' = [Joined(t, rows, a, i) EXCEPT
                                  ![i].severity = MaxSeverity(rows, members, t.reading),
                                  ![i].root = root]
        /\ tx' = [tx EXCEPT ![w] = IF t.how = "new"
                                   THEN [Idle EXCEPT !.pc = "committed", !.incident = i]
                                   ELSE Idle]
        /\ UNCHANGED <<now, sweep, rca>>

\* An alert with neither device nor site is committed as it is: no grouping key.
CommitAlone(w) ==
    LET t == tx[w]
    IN  /\ t.pc = "recorded" /\ t.probe \notin Located
        /\ \E fired \in FiredAt(t) : alerts' = Linked(t, fired, None)
        /\ tx' = [tx EXCEPT ![w] = Idle]
        /\ UNCHANGED <<now, incidents, sweep, rca>>

\* (mutant: the drain does not clear the list)
TriggerKeeps(w) ==
    /\ tx[w].pc = "committed"
    /\ rca' = [rca EXCEPT ![tx[w].incident] = @ + 1]
    /\ UNCHANGED <<now, alerts, incidents, tx, sweep>>

\* After the commit the owner of a collection run drains the incidents it created
\* and triggers root-cause analysis for each; the sensor routes do not.
Trigger(w) ==
    LET t == tx[w]
    IN  /\ t.pc = "committed"
        /\ rca' = IF w \in Collectors THEN [rca EXCEPT ![t.incident] = @ + 1] ELSE rca
        /\ tx' = [tx EXCEPT ![w] = Idle]
        /\ UNCHANGED <<now, alerts, incidents, sweep>>

\* The sensor recovered: the alert is resolved, its incident is read, and its
\* remaining active alerts are counted.
ClearAlert(w) ==
    LET t == tx[w]
        i == alerts[t.alert].incident
    IN  /\ t.pc = "read" /\ t.reading = Clear
        /\ ~LockedAlert(t.alert)
        /\ tx' = [tx EXCEPT ![w].pc = "counted",
                            ![w].incident = IF /\ i /= None
                                               /\ incidents[i].status \notin {"resolved", "closed"}
                                               /\ RemainingWithout(t.alert) = {}
                                            THEN i ELSE None]
        /\ UNCHANGED <<now, alerts, incidents, sweep, rca>>

\* resolve_on_clear writes the incident it decided to resolve, and the commit
CommitClear(w) ==
    LET t == tx[w]
    IN  /\ t.pc = "counted"
        /\ t.incident /= None => ~LockedIncident(t.incident)
        /\ alerts' = [alerts EXCEPT ![t.alert].status = "resolved"]
        /\ incidents' = IF t.incident = None THEN incidents
                        ELSE [incidents EXCEPT ![t.incident].status = "resolved"]
        /\ tx' = [tx EXCEPT ![w] = Idle]
        /\ UNCHANGED <<now, sweep, rca>>

\* The transaction fails (a refused INSERT, a deadlock, a lost connection) and is
\* rolled back; after the commit it is the process that dies before the trigger.
Abort(w) ==
    /\ tx[w].pc /= "idle"
    /\ tx' = [tx EXCEPT ![w] = Idle]
    /\ UNCHANGED <<now, alerts, incidents, sweep, rca>>

-----------------------------------------------------------------------------
(* close_stale_incidents: one SELECT, then an UPDATE of every row listed.   *)

Stale(i) == /\ incidents[i].status \in StaleEligible
            /\ incidents[i].last < now - StaleAfter

SweepList ==
    /\ sweep = {}
    /\ sweep' = {i \in DOMAIN incidents : Stale(i)}
    /\ sweep' /= {}
    /\ UNCHANGED <<now, alerts, incidents, tx, rca>>

\* (mutant: the sweep's transaction is never committed)
SweepUncommitted == sweep /= {} /\ sweep' = {} /\ UNCHANGED <<now, alerts, incidents, tx, rca>>

SweepClose ==
    /\ sweep /= {}
    /\ \A i \in sweep : ~LockedIncident(i)
    /\ incidents' = [i \in DOMAIN incidents |->
                        IF i \in sweep THEN [incidents[i] EXCEPT !.status = "closed"]
                        ELSE incidents[i]]
    /\ sweep' = {}
    /\ UNCHANGED <<now, alerts, tx, rca>>

-----------------------------------------------------------------------------
(* Operators, each in one short transaction.                               *)

\* POST /alerts/{id}/acknowledge looks at nothing but the row's existence: a
\* resolved alert is active again, if the unique index lets it.  (Acknowledging an
\* open alert changes nothing that matters here.)
AcknowledgeAlert(a) ==
    /\ ~LockedAlert(a)
    /\ ActiveFor(alerts[a].probe) \subseteq {a}
    /\ ~InsertingAlert(alerts[a].probe)
    /\ ~Active(a)
    /\ alerts' = [alerts EXCEPT ![a].status = "active"]
    /\ UNCHANGED <<now, incidents, tx, sweep, rca>>

\* POST /alerts/{id}/resolve, which leaves the incident alone
ResolveAlert(a) ==
    /\ ~LockedAlert(a)
    /\ Active(a)
    /\ alerts' = [alerts EXCEPT ![a].status = "resolved"]
    /\ UNCHANGED <<now, incidents, tx, sweep, rca>>

\* The incident routes (acknowledge, investigate, monitor, recover, close, archive,
\* resolve) write their state whatever the incident is in: they do not go through
\* the transition table of IncidentLifecycleService.
MoveIncident(i, to) ==
    /\ ~LockedIncident(i)
    /\ incidents[i].status /= to
    /\ incidents' = [incidents EXCEPT ![i].status = to]
    /\ UNCHANGED <<now, alerts, tx, sweep, rca>>

Tick ==
    /\ now < MaxTime
    /\ now' = now + 1
    /\ UNCHANGED <<alerts, incidents, tx, sweep, rca>>

-----------------------------------------------------------------------------
Poll(w) == \/ \E p \in Probes : Evaluate(w, p)
           \/ Record(w) \/ Open(w) \/ Join(w) \/ CommitJoin(w) \/ CommitAlone(w)
           \/ Trigger(w) \/ ClearAlert(w) \/ CommitClear(w) \/ Abort(w)

Operate == \/ \E a \in DOMAIN alerts : AcknowledgeAlert(a) \/ ResolveAlert(a)
           \/ \E i \in DOMAIN incidents, to \in Targets : MoveIncident(i, to)

Next == (\E w \in Workers : Poll(w)) \/ SweepList \/ SweepClose \/ Operate \/ Tick

Spec == Init /\ [][Next]_vars

\* A request or a worker runs on, the sweep is a scheduled job; probes, operators
\* and the clock do as they please, and nobody has to fail.
Progress(w) == Record(w) \/ Open(w) \/ Join(w) \/ CommitJoin(w) \/ CommitAlone(w)
               \/ Trigger(w) \/ ClearAlert(w) \/ CommitClear(w)
Fairness == /\ \A w \in Workers : WF_vars(Progress(w))
            /\ WF_vars(SweepList) /\ WF_vars(SweepClose)
FairSpec == Spec /\ Fairness

-----------------------------------------------------------------------------
(* Properties                                                              *)

Transaction == [pc : {"idle", "read", "recorded", "joined", "counted", "committed"},
                probe : Probes \union {None}, reading : Severities \union {Clear},
                at : 0 .. MaxTime, alert : 0 .. MaxAlerts, incident : 0 .. MaxIncidents,
                member : BOOLEAN, count : 0 .. MaxAlerts + 1,
                severity : Severities \union {0}, how : {"", "new", "conflict", "add", "touch"}]

\* Types, and that every reference names a row.
TypeOK ==
    /\ now \in 0 .. MaxTime
    /\ alerts \in Seq(Alert) /\ Len(alerts) <= MaxAlerts
    /\ incidents \in Seq(Incident) /\ Len(incidents) <= MaxIncidents
    /\ tx \in [Workers -> Transaction]
    /\ \A w \in Workers : /\ tx[w].alert \in {None} \union DOMAIN alerts
                          /\ tx[w].incident \in {None} \union DOMAIN incidents
    /\ sweep \subseteq DOMAIN incidents
    /\ rca \in [1 .. MaxIncidents -> Nat]

\* However many pollers evaluate a probe at once, and although an operator can
\* make a resolved alert active again, a probe has one active alert at a time
\* (the partial unique indexes and the waiting of their INSERTs).
OneActiveAlert == \A a, b \in DOMAIN alerts :
    (alerts[a].probe = alerts[b].probe /\ Active(a) /\ Active(b)) => a = b

\* Racing pollers never leave two open incidents for one signature.
OneOpenIncident == \A i, j \in DOMAIN incidents :
    (/\ incidents[i].signature = incidents[j].signature
     /\ incidents[i].status = "open" /\ incidents[j].status = "open") => i = j

\* An alert with a device or a site is in an incident from the moment it is
\* visible, and only ever in one of its own signature, whichever of the three ways
\* it joined by; an alert with neither is never in one.
Grouped == \A a \in DOMAIN alerts :
    IF alerts[a].probe \in Located
    THEN /\ alerts[a].incident \in DOMAIN incidents
         /\ incidents[alerts[a].incident].signature = SignatureOf[alerts[a].probe]
    ELSE alerts[a].incident = None

\* A suppressed alert names the alert it is suppressed by: another one, of the
\* root-cause category, that fired no later if it is of that category itself.
\* And suppression never goes in circles, whatever order the members were
\* recomputed in, whatever has become of the alert it names and although alerts
\* of the same time take turns as the root cause: of any suppressed alerts, one is
\* suppressed by an alert that is not among them.
SuppressedByEarlier ==
    /\ \A a \in DOMAIN alerts : alerts[a].suppressed =>
           LET p == alerts[a].parent
           IN  /\ p \in DOMAIN alerts \ {a}
               /\ ~alerts[a].root
               /\ alerts[p].probe \in Availability
               /\ alerts[a].probe \in Availability =>
                      alerts[p].triggered <= alerts[a].triggered
    /\ \A S \in SUBSET {a \in DOMAIN alerts : alerts[a].suppressed} :
           S = {} \/ \E a \in S : alerts[a].parent \notin S

\* Root-cause analysis is triggered for committed incidents only, once each.
AnalysedOnce == \A i \in 1 .. MaxIncidents :
    /\ rca[i] <= 1
    /\ rca[i] > 0 => i \in DOMAIN incidents

\* An incident that has gone stale does not stay that way: the sweep closes it,
\* unless an alert or an operator gets to it first.
StaleIsEnded == \A i \in 1 .. MaxIncidents :
    (i \in DOMAIN incidents /\ Stale(i)) ~> ~(i \in DOMAIN incidents /\ Stale(i))

(* What the code's comments say and the code does not do.                  *)

\* An incident the sweep lists has had no alert for StaleAfter.
ListedIsQuiet == [][ \A i \in sweep' \ sweep : \A a \in Members(i) :
                        alerts[a].seen < now - StaleAfter ]_vars

\* The sweep closes open, acknowledged, investigating and monitoring incidents:
\* one that is held as recovered, or resolved, is left alone.
SweepsEligible == [][ \A i \in sweep \ sweep' : incidents[i].status \in StaleEligible ]_vars

\* A closed incident does not come back to life: its only way on is the archive.
ClosedIsTerminal == [][ \A i \in DOMAIN incidents :
    incidents[i].status = "closed" => incidents'[i].status = "closed" ]_vars

\* resolve_on_clear resolves an incident that has no active alert left.
ClearedIsClear == [][ \A w \in Workers : CommitClear(w) /\ tx[w].incident /= None =>
                        \A a \in Members(tx[w].incident) : alerts'[a].status = "resolved" ]_vars

\* An alert that enters an incident at this step (it is new, or it moves)
Enters(a, i) == /\ alerts'[a].incident = i
                /\ i \in DOMAIN incidents
                /\ a \notin DOMAIN alerts \/ alerts[a].incident /= i

\* An alert joins an open incident, not one an operator or the sweep has closed.
JoinsOpen == [][ \A a \in DOMAIN alerts', i \in DOMAIN incidents :
                    Enters(a, i) => incidents[i].status \notin {"closed", "resolved"} ]_vars

\* A cold incident does not absorb a new alert.
JoinsWarm == [][ \A a \in DOMAIN alerts', i \in DOMAIN incidents :
                    Enters(a, i) => incidents[i].last >= alerts'[a].seen - Window ]_vars

\* alert_count is the number of distinct members an incident has had.
CountsMembers == \A i \in DOMAIN incidents : incidents[i].count >= Cardinality(Members(i))

\* The recurrence of a member at the incident's severity changes nothing of the
\* incident's aggregate state.
RecurrenceKeepsRoot == [][ \A w \in Workers, i \in DOMAIN incidents :
    (tx[w].pc = "joined" /\ tx[w].how = "touch" /\ tx[w].incident = i /\ CommitJoin(w))
        => incidents'[i].root = incidents[i].root ]_vars

\* Every incident a transaction created is handed to root-cause analysis.
CreatedIsAnalysed == \A i \in 1 .. MaxIncidents :
    (i \in DOMAIN incidents) ~> (rca[i] > 0)
=============================================================================
