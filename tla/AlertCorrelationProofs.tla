----------------------- MODULE AlertCorrelationProofs -----------------------
(***************************************************************************)
(* Proofs about AlertCorrelation for any number of pollers, probes, alerts *)
(* and incidents, whatever operators and the sweep do meanwhile: a probe   *)
(* has one active alert and a signature one open incident, an alert is in  *)
(* an incident of its signature, suppression follows the order of the      *)
(* alerts, and an incident is analysed once.                               *)
(***************************************************************************)
EXTENDS AlertCorrelation, FiniteSetTheorems, NaturalsInduction, WellFoundedInduction, TLAPS

-----------------------------------------------------------------------------
(* Numbers and sets of workers.                                            *)

LEMMA Bounds ==
  /\ MaxTime \in Nat /\ MaxAlerts \in Nat /\ MaxIncidents \in Nat /\ Window \in Nat
  /\ IsFiniteSet(Workers) /\ Severities \subseteq Nat \ {0}
  /\ Sensors \subseteq Probes /\ Located \subseteq Probes
BY TimesAssumption, BoundsAssumption, WorkersAssumption, SeveritiesAssumption, ProbesAssumption
DEF TimesAssumption, BoundsAssumption, WorkersAssumption, SeveritiesAssumption, ProbesAssumption

LEMMA MinExists ==
  ASSUME NEW S \in SUBSET Nat, S # {}
  PROVE  \E m \in S : \A x \in S : m <= x
<1> DEFINE R == OpToRel(<, Nat)
<1>1. \A x, y \in Nat : x < y => <<x, y>> \in R
  BY DEF OpToRel
<1>2. IsWellFoundedOn(R, Nat)
  BY NatLessThanWellFounded
<1> HIDE DEF R
<1>3. PICK m \in S : \A x \in S : <<x, m>> \notin R
  BY <1>2, WFMin
<1>4. ASSUME NEW x \in S PROVE m <= x
  <2>1. x \in Nat /\ m \in Nat /\ ~ (x < m)
    BY <1>1, <1>3
  <2> QED
    BY <2>1
<1> QED
  BY <1>4

\* Of some severities there is a highest one.
LEMMA HighestExists ==
  ASSUME NEW S \in SUBSET Severities, S # {}
  PROVE  \E m \in S : \A x \in S : x <= m
<1>1. PICK top \in Severities : \A s \in Severities : s <= top
  BY SeveritiesAssumption DEF SeveritiesAssumption
<1> DEFINE T == {k \in Nat : \A x \in S : x <= k}
<1>2. S \in SUBSET Nat /\ top \in Nat /\ \A x \in S : x > 0
  BY Bounds
<1>3. T \in SUBSET Nat /\ top \in T
  BY <1>1, <1>2
<1>4. PICK m \in T : \A k \in T : m <= k
  BY <1>3, MinExists
<1>5. CASE m \in S
  BY <1>4, <1>5
<1>6. CASE m \notin S
  <2>1. PICK x \in S : TRUE
    OBVIOUS
  <2>2. m \in Nat /\ x <= m /\ x >= 1
    BY <1>2, <1>4, <2>1
  <2>3. m - 1 \in T
    BY <1>2, <1>4, <1>6, <2>2
  <2> QED
    BY <1>4, <2>2, <2>3
<1> QED
  BY <1>5, <1>6

\* One worker comes into a set or leaves it.
LEMMA CountWorkers ==
  ASSUME NEW A \in SUBSET Workers, NEW B \in SUBSET Workers, NEW w \in Workers,
         A \ {w} = B \ {w}
  PROVE  /\ Cardinality(A) \in Nat /\ Cardinality(B) \in Nat
         /\ (w \in A <=> w \in B) => Cardinality(B) = Cardinality(A)
         /\ w \in A /\ w \notin B => Cardinality(B) = Cardinality(A) - 1
         /\ w \notin A /\ w \in B => Cardinality(B) = Cardinality(A) + 1
<1>1. IsFiniteSet(A) /\ IsFiniteSet(B)
  BY Bounds, FS_Subset
<1>2. Cardinality(A) \in Nat /\ Cardinality(B) \in Nat
  BY <1>1, FS_CardinalityType
<1>3. (w \in A <=> w \in B) => A = B
  OBVIOUS
<1>4. w \in A /\ w \notin B => B = A \ {w}
  OBVIOUS
<1>5. w \notin A /\ w \in B => B = A \cup {w}
  OBVIOUS
<1>6. /\ Cardinality(A \ {w}) = IF w \in A THEN Cardinality(A) - 1 ELSE Cardinality(A)
      /\ Cardinality(A \cup {w}) = IF w \in A THEN Cardinality(A) ELSE Cardinality(A) + 1
  BY <1>1, FS_RemoveElement, FS_AddElement
<1> QED
  BY <1>2, <1>3, <1>4, <1>5, <1>6

-----------------------------------------------------------------------------
(* What a join computes.                                                   *)

\* A root cause is a member of the category that fired no later than any other
\* active one of it.
LEMMA RootFacts ==
  ASSUME NEW rows \in Seq(Alert), NEW members \in SUBSET (1 .. Len(rows)),
         NEW r \in SelectRootCause(rows, members), r # None
  PROVE  /\ r \in members /\ rows[r].probe \in Availability /\ rows[r].status # "resolved"
         /\ \A b \in members :
              rows[b].probe \in Availability /\ rows[b].status # "resolved"
              => rows[r].triggered <= rows[b].triggered
<1> DEFINE candidates == {a \in members : /\ rows[a].probe \in Availability
                                          /\ rows[a].status # "resolved"}
<1>1. candidates # {}
  BY DEF SelectRootCause
<1>2. \A a \in candidates : rows[a].triggered \in Nat
  <2> TAKE a \in candidates
  <2>1. a \in 1 .. Len(rows) /\ rows[a] \in Alert
    OBVIOUS
  <2>2. rows[a].triggered \in 0 .. MaxTime
    BY <2>1 DEF Alert
  <2> QED
    BY <2>2, Bounds
<1>3. r \in {a \in candidates : \A b \in candidates :
               \/ rows[a].triggered < rows[b].triggered
               \/ rows[a].triggered = rows[b].triggered /\ rows[b].seen <= rows[a].seen}
  BY <1>1 DEF SelectRootCause
<1>4. r \in candidates /\ \A b \in candidates : rows[r].triggered <= rows[b].triggered
  BY <1>2, <1>3
<1> QED
  BY <1>4

LEMMA SeverityFacts ==
  ASSUME NEW rows \in Seq(Alert), NEW members \in SUBSET (1 .. Len(rows)),
         NEW default \in Severities
  PROVE  MaxSeverity(rows, members, default) \in Severities
<1> DEFINE active == {a \in members : rows[a].status # "resolved"}
           S == {rows[a].severity : a \in active}
<1>1. CASE active = {}
  BY <1>1 DEF MaxSeverity
<1>2. CASE active # {}
  <2>1. S \in SUBSET Severities /\ S # {}
    <3>1. \A a \in active : rows[a] \in Alert
      OBVIOUS
    <3>2. \A a \in active : rows[a].severity \in Severities
      BY <3>1 DEF Alert
    <3> QED
      BY <1>2, <3>2
  <2>2. \E s \in S : \A a \in active : rows[a].severity <= s
    <3>1. PICK m \in S : \A x \in S : x <= m
      BY <2>1, HighestExists
    <3> QED
      BY <3>1
  <2>3. MaxSeverity(rows, members, default)
          = CHOOSE s \in S : \A a \in active : rows[a].severity <= s
    BY <1>2 DEF MaxSeverity
  <2>4. MaxSeverity(rows, members, default) \in S
    BY <2>2, <2>3
  <2> QED
    BY <2>1, <2>4
<1> QED
  BY <1>1, <1>2

\* The same alert, as far as grouping and the unique index can tell.
Same(x, y) == /\ x.probe = y.probe /\ x.status = y.status
              /\ x.triggered = y.triggered /\ x.incident = y.incident

\* Recomputing the suppression touches members only, and only their marks.
LEMMA SuppressionFacts ==
  ASSUME NEW rows \in Seq(Alert), Len(rows) <= MaxAlerts,
         NEW members \in SUBSET (1 .. Len(rows)), NEW r \in {None} \cup (1 .. Len(rows)),
         NEW new, new = ApplySuppression(rows, members, r)
  PROVE  /\ new \in Seq(Alert) /\ Len(new) = Len(rows)
         /\ \A a \in 1 .. Len(rows) :
              /\ Same(new[a], rows[a])
              /\ a \notin members \/ rows[a].status = "resolved" => new[a] = rows[a]
              /\ \/ new[a].suppressed = rows[a].suppressed /\ new[a].root = rows[a].root
                    /\ new[a].parent = rows[a].parent
                 \/ ~ new[a].suppressed
                 \/ /\ r # None /\ a # r /\ new[a].suppressed
                    /\ new[a].parent = r /\ ~ new[a].root
                    /\ a \in members /\ rows[a].status # "resolved"
              /\ a = r /\ a \in members /\ rows[a].status # "resolved" => ~ new[a].suppressed
<1>1. Len(rows) \in Nat /\ DOMAIN rows = 1 .. Len(rows)
  OBVIOUS
<1>2. ASSUME NEW a \in 1 .. Len(rows)
      PROVE  /\ new[a] \in Alert
             /\ Same(new[a], rows[a])
             /\ a \notin members \/ rows[a].status = "resolved" => new[a] = rows[a]
             /\ \/ new[a].suppressed = rows[a].suppressed /\ new[a].root = rows[a].root
                   /\ new[a].parent = rows[a].parent
                \/ ~ new[a].suppressed
                \/ /\ r # None /\ a # r /\ new[a].suppressed
                   /\ new[a].parent = r /\ ~ new[a].root
                   /\ a \in members /\ rows[a].status # "resolved"
             /\ a = r /\ a \in members /\ rows[a].status # "resolved" => ~ new[a].suppressed
  <2>1. PICK x : x = rows[a]
    OBVIOUS
  <2>2. x \in Alert
    BY <2>1
  <2>3. PICK root \in BOOLEAN, sup \in BOOLEAN : root = (a = r) /\ sup = (r # None /\ a # r)
    OBVIOUS
  <2>9. PICK par : par = IF sup THEN r ELSE x.parent
    OBVIOUS
  <2>4. new[a] = IF a \notin members \/ x.status = "resolved" \/ (x.root = root /\ x.suppressed = sup)
                 THEN x ELSE [x EXCEPT !.root = root, !.suppressed = sup, !.parent = par]
    BY <1>1, <2>1, <2>3, <2>9 DEF ApplySuppression
  <2>5. [x EXCEPT !.root = root, !.suppressed = sup, !.parent = par]
          = [probe |-> x.probe, status |-> x.status, severity |-> x.severity,
             triggered |-> x.triggered, seen |-> x.seen, incident |-> x.incident,
             parent |-> par, root |-> root, suppressed |-> sup]
    <3>1. [x EXCEPT !.root = root, !.suppressed = sup, !.parent = par]
            = [[[x EXCEPT !.root = root] EXCEPT !.suppressed = sup] EXCEPT !.parent = par]
      BY <2>2 DEF Alert
    <3>2. PICK y : y = [x EXCEPT !.root = root]
      OBVIOUS
    <3>3. PICK z : z = [y EXCEPT !.suppressed = sup]
      OBVIOUS
    <3>4. y = [probe |-> x.probe, status |-> x.status, severity |-> x.severity,
               triggered |-> x.triggered, seen |-> x.seen, incident |-> x.incident,
               parent |-> x.parent, root |-> root, suppressed |-> x.suppressed]
      BY <2>2, <3>2 DEF Alert
    <3>5. z = [probe |-> x.probe, status |-> x.status, severity |-> x.severity,
               triggered |-> x.triggered, seen |-> x.seen, incident |-> x.incident,
               parent |-> x.parent, root |-> root, suppressed |-> sup]
      BY <3>3, <3>4
    <3>6. [z EXCEPT !.parent = par]
            = [probe |-> x.probe, status |-> x.status, severity |-> x.severity,
               triggered |-> x.triggered, seen |-> x.seen, incident |-> x.incident,
               parent |-> par, root |-> root, suppressed |-> sup]
      BY <3>5
    <3> QED
      BY <3>1, <3>2, <3>3, <3>6
  <2>6. par \in 0 .. MaxAlerts
    <3>1. r \in 0 .. MaxAlerts
      BY <1>1, Bounds DEF None
    <3> QED
      BY <2>2, <2>9, <3>1 DEF Alert
  <2>7. CASE a \notin members \/ x.status = "resolved" \/ (x.root = root /\ x.suppressed = sup)
    <3>1. new[a] = x
      BY <2>4, <2>7
    <3>2. a = r /\ a \in members /\ x.status # "resolved" => ~ x.suppressed
      BY <2>3, <2>7
    <3> QED
      BY <2>1, <2>2, <3>1, <3>2 DEF Same
  <2>8. CASE ~ (a \notin members \/ x.status = "resolved" \/ (x.root = root /\ x.suppressed = sup))
    <3>1. new[a] = [probe |-> x.probe, status |-> x.status, severity |-> x.severity,
                    triggered |-> x.triggered, seen |-> x.seen, incident |-> x.incident,
                    parent |-> par, root |-> root, suppressed |-> sup]
      BY <2>4, <2>5, <2>8
    <3>2. new[a] \in Alert
      BY <2>2, <2>3, <2>6, <3>1 DEF Alert
    <3>3. /\ Same(new[a], x) /\ new[a].suppressed = sup /\ new[a].root = root
          /\ new[a].parent = par
      BY <3>1 DEF Same
    <3> QED
      BY <2>1, <2>3, <2>8, <2>9, <3>2, <3>3
  <2> QED
    BY <2>7, <2>8
<1>3. new = [a \in 1 .. Len(rows) |-> new[a]]
  BY <1>1 DEF ApplySuppression
<1>4. new \in [1 .. Len(rows) -> Alert]
  BY <1>2, <1>3
<1>5. new \in Seq(Alert) /\ Len(new) = Len(rows)
  BY <1>1, <1>4
<1> QED
  BY <1>2, <1>5

\* One row of a table is replaced.
LEMMA RowSet ==
  ASSUME NEW S, NEW old \in Seq(S), NEW i \in 1 .. Len(old), NEW row \in S
  PROVE  /\ [old EXCEPT ![i] = row] \in Seq(S)
         /\ Len([old EXCEPT ![i] = row]) = Len(old)
         /\ [old EXCEPT ![i] = row][i] = row
         /\ \A j \in 1 .. Len(old) : j # i => [old EXCEPT ![i] = row][j] = old[j]
OBVIOUS

\* The alert of the transaction, linked: a new row, or the one it had.
LEMMA LinkedFacts ==
  ASSUME TypeOK, NEW t \in Transaction, t.probe \in Probes, t.reading \in Severities,
         t.alert = None => Len(alerts) < MaxAlerts,
         t.alert # None => t.alert \in DOMAIN alerts /\ alerts[t.alert].probe = t.probe,
         NEW i \in 0 .. MaxIncidents, NEW fired \in FiredAt(t), NEW rows, rows = Linked(t, fired, i),
         NEW a, a = IF t.alert = None THEN Len(alerts) + 1 ELSE t.alert
  PROVE  /\ rows \in Seq(Alert)
         /\ Len(rows) = IF t.alert = None THEN Len(alerts) + 1 ELSE Len(alerts)
         /\ Len(rows) <= MaxAlerts /\ a \in 1 .. Len(rows)
         /\ \A b \in 1 .. Len(alerts) : b # a => rows[b] = alerts[b]
         /\ rows[a].probe = t.probe /\ rows[a].incident = i
         /\ t.alert = None => rows[a].status = "active" /\ ~ rows[a].suppressed
         /\ t.alert # None =>
              /\ rows[a].status = alerts[a].status /\ rows[a].triggered = alerts[a].triggered
              /\ rows[a].suppressed = alerts[a].suppressed /\ rows[a].root = alerts[a].root
              /\ rows[a].parent = alerts[a].parent
<1>1. alerts \in Seq(Alert) /\ Len(alerts) \in Nat /\ Len(alerts) <= MaxAlerts
  BY DEF TypeOK
<1>2. t.at \in 0 .. MaxTime /\ fired \in 0 .. MaxTime
  <2>1. t.at \in 0 .. MaxTime
    BY DEF Transaction
  <2> QED
    BY <2>1 DEF FiredAt
<1>3. CASE t.alert = None
  <2> DEFINE new == [probe |-> t.probe, status |-> "active", severity |-> t.reading,
                     triggered |-> fired, seen |-> t.at, incident |-> i,
                     parent |-> None, root |-> FALSE, suppressed |-> FALSE]
  <2>1. rows = Append(alerts, new) /\ a = Len(alerts) + 1
    BY <1>3 DEF Linked
  <2>2. new \in Alert
    BY <1>2, Bounds DEF Alert, AlertStatuses, None
  <2>3. new.probe = t.probe /\ new.incident = i /\ new.status = "active" /\ ~ new.suppressed
    OBVIOUS
  <2> HIDE DEF new
  <2>4. /\ rows \in Seq(Alert) /\ Len(rows) = Len(alerts) + 1 /\ rows[a] = new
        /\ \A b \in 1 .. Len(alerts) : rows[b] = alerts[b]
    BY <1>1, <2>1, <2>2
  <2>5. Len(rows) <= MaxAlerts /\ a \in 1 .. Len(rows)
    BY <1>1, <1>3, <2>1, <2>4, Bounds
  <2> QED
    BY <1>3, <2>3, <2>4, <2>5
<1>4. CASE t.alert # None
  <2>1. a = t.alert /\ a \in 1 .. Len(alerts)
    BY <1>1, <1>4
  <2>2. PICK x : x = alerts[a] /\ x \in Alert
    BY <1>1, <2>1
  <2> DEFINE new == [probe |-> x.probe, status |-> x.status, severity |-> t.reading,
                     triggered |-> x.triggered, seen |-> t.at, incident |-> i,
                     parent |-> x.parent, root |-> x.root, suppressed |-> x.suppressed]
  <2>3. rows = [[[alerts EXCEPT ![a].severity = t.reading] EXCEPT ![a].seen = t.at]
                   EXCEPT ![a].incident = i]
    BY <1>1, <1>4, <2>1 DEF Linked
  <2>4. PICK y : y = [x EXCEPT !.severity = t.reading]
    OBVIOUS
  <2>5. PICK z : z = [y EXCEPT !.seen = t.at]
    OBVIOUS
  <2>6. rows = [alerts EXCEPT ![a] = [z EXCEPT !.incident = i]]
    BY <1>1, <2>1, <2>2, <2>3, <2>4, <2>5
  <2>7. y = [probe |-> x.probe, status |-> x.status, severity |-> t.reading,
             triggered |-> x.triggered, seen |-> x.seen, incident |-> x.incident,
             parent |-> x.parent, root |-> x.root, suppressed |-> x.suppressed]
    BY <2>2, <2>4 DEF Alert
  <2>8. z = [probe |-> x.probe, status |-> x.status, severity |-> t.reading,
             triggered |-> x.triggered, seen |-> t.at, incident |-> x.incident,
             parent |-> x.parent, root |-> x.root, suppressed |-> x.suppressed]
    BY <2>5, <2>7
  <2>9. [z EXCEPT !.incident = i] = new
    BY <2>8
  <2>10. new \in Alert
    BY <1>2, <2>2 DEF Alert
  <2>11. /\ new.probe = x.probe /\ new.incident = i /\ new.status = x.status
         /\ new.triggered = x.triggered /\ new.suppressed = x.suppressed
         /\ new.root = x.root /\ new.parent = x.parent
    OBVIOUS
  <2> HIDE DEF new
  <2>12. /\ rows \in Seq(Alert) /\ Len(rows) = Len(alerts) /\ rows[a] = new
         /\ \A b \in 1 .. Len(alerts) : b # a => rows[b] = alerts[b]
    BY <1>1, <2>1, <2>6, <2>9, <2>10
  <2> QED
    BY <1>1, <1>4, <2>1, <2>2, <2>11, <2>12
<1> QED
  BY <1>3, <1>4

\* The incident that the transaction joins: a new row, or the one it found.
LEMMA JoinedFacts ==
  ASSUME TypeOK, NEW t \in Transaction, t.probe \in Probes, t.reading \in Severities,
         t.how = "new" => Len(incidents) < MaxIncidents,
         NEW i, i = IF t.how = "new" THEN Len(incidents) + 1 ELSE t.incident,
         t.how # "new" => i \in DOMAIN incidents,
         NEW rows, NEW a, rows[a].triggered \in 0 .. MaxTime,
         NEW new, new = Joined(t, rows, a, i)
  PROVE  /\ new \in Seq(Incident)
         /\ Len(new) = IF t.how = "new" THEN Len(incidents) + 1 ELSE Len(incidents)
         /\ Len(new) <= MaxIncidents /\ i \in 1 .. Len(new)
         /\ \A j \in 1 .. Len(incidents) : /\ new[j].signature = incidents[j].signature
                                           /\ new[j].status = incidents[j].status
         /\ t.how = "new" => /\ new[i].signature = SignatureOf[t.probe]
                             /\ new[i].status = "open"
<1>1. incidents \in Seq(Incident) /\ Len(incidents) \in Nat /\ Len(incidents) <= MaxIncidents
  BY DEF TypeOK
<1>2. CASE t.how = "new"
  <2> DEFINE row == [signature |-> SignatureOf[t.probe], status |-> "open",
                     severity |-> t.reading, last |-> rows[a].triggered,
                     count |-> 1, root |-> None]
  <2>1. new = Append(incidents, row) /\ i = Len(incidents) + 1
    BY <1>2 DEF Joined
  <2>2. row \in Incident
    BY Bounds DEF Incident, IncidentStatuses, None
  <2>3. row.signature = SignatureOf[t.probe] /\ row.status = "open"
    OBVIOUS
  <2> HIDE DEF row
  <2>4. /\ new \in Seq(Incident) /\ Len(new) = Len(incidents) + 1 /\ new[i] = row
        /\ \A j \in 1 .. Len(incidents) : new[j] = incidents[j]
    BY <1>1, <2>1, <2>2
  <2>5. Len(new) <= MaxIncidents /\ i \in 1 .. Len(new)
    BY <1>1, <1>2, <2>1, <2>4, Bounds
  <2> QED
    BY <1>2, <2>3, <2>4, <2>5
<1>3. CASE t.how # "new"
  <2>1. i \in 1 .. Len(incidents)
    BY <1>1, <1>3
  <2>2. PICK x : x = incidents[i] /\ x \in Incident
    BY <1>1, <2>1
  <2>3. PICK last, count : /\ last = IF t.how = "conflict" THEN x.last ELSE t.at
                           /\ count = IF t.how = "add" THEN Bump(t.count) ELSE x.count
    OBVIOUS
  <2>4. new = [[incidents EXCEPT ![i].last = last] EXCEPT ![i].count = count]
    BY <1>1, <1>3, <2>1, <2>2, <2>3 DEF Joined
  <2>5. last \in 0 .. MaxTime /\ count \in 0 .. MaxAlerts + 1
    <3>1. x.last \in 0 .. MaxTime /\ x.count \in 0 .. MaxAlerts + 1
      BY <2>2 DEF Incident
    <3>2. t.at \in 0 .. MaxTime /\ t.count \in 0 .. MaxAlerts + 1
      BY DEF Transaction
    <3>3. Bump(t.count) \in 0 .. MaxAlerts + 1
      BY <3>2, Bounds DEF Bump
    <3> QED
      BY <2>3, <3>1, <3>2, <3>3
  <2> DEFINE row == [signature |-> x.signature, status |-> x.status, severity |-> x.severity,
                     last |-> last, count |-> count, root |-> x.root]
  <2>6. PICK y : y = [x EXCEPT !.last = last]
    OBVIOUS
  <2>7. new = [incidents EXCEPT ![i] = [y EXCEPT !.count = count]]
    <3>1. PICK between : between = [incidents EXCEPT ![i].last = last]
      OBVIOUS
    <3>2. between = [incidents EXCEPT ![i] = y]
      BY <2>2, <2>6, <3>1
    <3>3. between[i] = y
      BY <1>1, <2>1, <3>2
    <3>4. new = [between EXCEPT ![i] = [y EXCEPT !.count = count]]
      BY <2>4, <3>1, <3>3
    <3> QED
      BY <3>2, <3>4
  <2>8. y = [signature |-> x.signature, status |-> x.status, severity |-> x.severity,
             last |-> last, count |-> x.count, root |-> x.root]
    BY <2>2, <2>6 DEF Incident
  <2>9. [y EXCEPT !.count = count] = row
    BY <2>8
  <2>10. row \in Incident
    BY <2>2, <2>5 DEF Incident
  <2>11. row.signature = x.signature /\ row.status = x.status
    OBVIOUS
  <2> HIDE DEF row
  <2>12. /\ new \in Seq(Incident) /\ Len(new) = Len(incidents) /\ new[i] = row
         /\ \A j \in 1 .. Len(incidents) : j # i => new[j] = incidents[j]
    <3>1. new = [incidents EXCEPT ![i] = row]
      BY <2>7, <2>9
    <3> QED
      BY <1>1, <2>1, <2>10, <3>1, RowSet
  <2> QED
    BY <1>1, <1>3, <2>1, <2>2, <2>11, <2>12
<1> QED
  BY <1>2, <1>3

\* The recomputed severity and root cause change neither signature nor status.
Recomputed(old, i, s, r) == [old EXCEPT ![i].severity = s, ![i].root = r]
LEMMA RecomputedFacts ==
  ASSUME NEW old \in Seq(Incident), NEW i \in 1 .. Len(old),
         NEW s \in Severities, NEW r \in 0 .. MaxAlerts
  PROVE  /\ Recomputed(old, i, s, r) \in Seq(Incident)
         /\ Len(Recomputed(old, i, s, r)) = Len(old)
         /\ \A j \in 1 .. Len(old) :
              /\ Recomputed(old, i, s, r)[j].signature = old[j].signature
              /\ Recomputed(old, i, s, r)[j].status = old[j].status
<1>0. PICK new : new = Recomputed(old, i, s, r)
  OBVIOUS
<1>1. PICK x : x = old[i] /\ x \in Incident
  OBVIOUS
<1>2. new = [[old EXCEPT ![i].severity = s] EXCEPT ![i].root = r]
  BY <1>0 DEF Recomputed
<1>3. PICK y : y = [x EXCEPT !.severity = s]
  OBVIOUS
<1>4. new = [old EXCEPT ![i] = [y EXCEPT !.root = r]]
  <2>1. PICK mid : mid = [old EXCEPT ![i].severity = s]
    OBVIOUS
  <2>2. mid = [old EXCEPT ![i] = y] /\ mid[i] = y
    BY <1>1, <1>3, <2>1
  <2>3. new = [mid EXCEPT ![i] = [y EXCEPT !.root = r]]
    BY <1>2, <2>1, <2>2
  <2> QED
    BY <2>2, <2>3
<1>5. y = [signature |-> x.signature, status |-> x.status, severity |-> s,
           last |-> x.last, count |-> x.count, root |-> x.root]
  BY <1>1, <1>3 DEF Incident
<1> DEFINE row == [signature |-> x.signature, status |-> x.status, severity |-> s,
                   last |-> x.last, count |-> x.count, root |-> r]
<1>6. [y EXCEPT !.root = r] = row
  BY <1>5
<1>7. row \in Incident /\ row.signature = x.signature /\ row.status = x.status
  BY <1>1 DEF Incident
<1> HIDE DEF row
<1>8. /\ new \in Seq(Incident) /\ Len(new) = Len(old) /\ new[i] = row
      /\ \A j \in 1 .. Len(old) : j # i => new[j] = old[j]
  <2>1. PICK k : k = [old EXCEPT ![i] = row]
    OBVIOUS
  <2>2. /\ k \in Seq(Incident) /\ Len(k) = Len(old) /\ k[i] = row
        /\ \A j \in 1 .. Len(old) : j # i => k[j] = old[j]
    <3>1. row \in Incident
      BY <1>7
    <3> QED
      BY <2>1, <3>1, RowSet
  <2>3. new = k
    BY <1>4, <1>6, <2>1
  <2> QED
    BY <2>2, <2>3
<1> QED
  BY <1>0, <1>1, <1>7, <1>8

-----------------------------------------------------------------------------
(* The inductive invariant.                                                *)

\* The evaluation at hand: of a probe, and of its alert if it has one.
Working(t) == t.pc \in {"read", "recorded", "joined", "counted"}

\* A transaction that will insert an alert, or an incident, when it commits.
Inserts(t) == t.pc \in {"recorded", "joined"} /\ t.alert = None
Opens(t) == t.pc = "joined" /\ t.how = "new"

\* What a transaction works on is its probe's.
Own(t) == Working(t) =>
  /\ t.probe \in Probes
  /\ t.alert # None => alerts[t.alert].probe = t.probe
  /\ t.pc \in {"recorded", "joined"} /\ t.incident # None =>
       /\ incidents[t.incident].signature = SignatureOf[t.probe]
       /\ t.probe \in Located
  /\ t.pc = "joined" => t.probe \in Located

\* What each step of a transaction has decided.
Stage(t) ==
  /\ t.pc = "read" /\ t.reading = Clear => t.alert # None
  /\ t.pc \in {"recorded", "joined"} => t.reading \in Severities
  /\ t.pc = "joined" => /\ t.how \in {"new", "conflict", "add", "touch"}
                        /\ t.how = "new" <=> t.incident = None
  /\ t.pc = "counted" => t.alert # None
  /\ t.pc = "committed" => t.incident # None

StageInv == \A w \in Workers : Own(tx[w]) /\ Stage(tx[w])

\* A key whose row is being inserted has no row, and one inserter.
AlertReserved ==
  /\ \A w \in Workers : Inserts(tx[w]) => ActiveFor(tx[w].probe) = {}
  /\ \A w, v \in Workers :
       Inserts(tx[w]) /\ Inserts(tx[v]) /\ tx[w].probe = tx[v].probe => w = v
IncidentReserved ==
  /\ \A w \in Workers : Opens(tx[w]) => OpenHolders(SignatureOf[tx[w].probe]) = {}
  /\ \A w, v \in Workers :
       /\ Opens(tx[w]) /\ Opens(tx[v])
       /\ SignatureOf[tx[w].probe] = SignatureOf[tx[v].probe]
       => w = v

\* There is room for what is being inserted.
Inserters == {w \in Workers : Inserts(tx[w])}
Openers == {w \in Workers : Opens(tx[w])}
RoomInv == /\ Len(alerts) + Cardinality(Inserters) <= MaxAlerts
           /\ Len(incidents) + Cardinality(Openers) <= MaxIncidents

\* An incident that waits for its analysis has had none, and waits once.
AnalysisInv ==
  /\ \A w \in Workers : tx[w].pc = "committed" => rca[tx[w].incident] = 0
  /\ \A w, v \in Workers :
       /\ tx[w].pc = "committed" /\ tx[v].pc = "committed"
       /\ tx[w].incident = tx[v].incident
       => w = v

CorrelationInv ==
  /\ TypeOK /\ StageInv
  /\ AlertReserved /\ OneActiveAlert
  /\ IncidentReserved /\ OneOpenIncident
  /\ RoomInv /\ AnalysisInv /\ AnalysedOnce
  /\ Grouped /\ SuppressedByEarlier

LEMMA IdleFacts ==
  /\ Idle \in Transaction
  /\ Idle.alert = None /\ Idle.incident = None
  /\ ~ Working(Idle) /\ Stage(Idle) /\ ~ Inserts(Idle) /\ ~ Opens(Idle)
  /\ Idle.pc # "committed"
BY Bounds DEF Idle, Transaction, Working, Stage, Inserts, Opens, None, Clear

LEMMA CorrelationInit == Init => CorrelationInv
<1> SUFFICES ASSUME Init PROVE CorrelationInv
  OBVIOUS
<1>1. TypeOK
  BY IdleFacts, Bounds DEF Init, TypeOK
<1>2. \A w \in Workers : tx[w] = Idle
  BY DEF Init
<1>3. StageInv /\ AlertReserved /\ IncidentReserved /\ AnalysisInv
  BY <1>2, IdleFacts DEF StageInv, Own, AlertReserved, IncidentReserved, AnalysisInv
<1>4. RoomInv
  <2>1. Inserters = {} /\ Openers = {}
    BY <1>2, IdleFacts DEF Inserters, Openers
  <2>2. Len(alerts) = 0 /\ Len(incidents) = 0
    BY DEF Init
  <2> QED
    BY <2>1, <2>2, FS_EmptySet, Bounds DEF RoomInv
<1>5. OneActiveAlert /\ OneOpenIncident /\ AnalysedOnce /\ Grouped /\ SuppressedByEarlier
  BY DEF Init, OneActiveAlert, OneOpenIncident, AnalysedOnce, Grouped, SuppressedByEarlier
<1> QED
  BY <1>1, <1>3, <1>4, <1>5 DEF CorrelationInv

-----------------------------------------------------------------------------
(* Steps that change one transaction and no row.                           *)

LEMMA TxFrame ==
  ASSUME CorrelationInv, NEW w \in Workers, NEW n \in Transaction,
         tx' = [tx EXCEPT ![w] = n], UNCHANGED <<now, alerts, incidents, sweep, rca>>,
         n.alert \in {None} \cup DOMAIN alerts, n.incident \in {None} \cup DOMAIN incidents,
         Own(n), Stage(n), n.pc # "committed",
         Inserts(n) => /\ ActiveFor(n.probe) = {}
                       /\ \A v \in Workers : v # w /\ Inserts(tx[v]) => tx[v].probe # n.probe
                       /\ Inserts(tx[w]) \/ RoomForAlert,
         Opens(n) => /\ OpenHolders(SignatureOf[n.probe]) = {}
                     /\ ~ InsertingIncident(SignatureOf[n.probe])
                     /\ RoomForIncident
  PROVE  CorrelationInv'
<1>1. tx \in [Workers -> Transaction]
  BY DEF CorrelationInv, TypeOK
<1>2. tx'[w] = n /\ \A v \in Workers : v # w => tx'[v] = tx[v]
  BY <1>1
<1>3. TypeOK'
  BY <1>1, <1>2 DEF CorrelationInv, TypeOK
<1>4. StageInv'
  <2>1. \A t : (Own(t)' <=> Own(t)) /\ (Stage(t)' <=> Stage(t))
    BY DEF Own, Stage
  <2> QED
    BY <1>2, <2>1 DEF CorrelationInv, StageInv
<1>5. AlertReserved'
  <2>1. \A p : ActiveFor(p)' = ActiveFor(p)
    BY DEF ActiveFor, Active
  <2> QED
    BY <1>2, <2>1 DEF CorrelationInv, AlertReserved
<1>6. IncidentReserved'
  <2>1. \A s : OpenHolders(s)' = OpenHolders(s)
    BY DEF OpenHolders
  <2>2. Opens(n) => \A v \in Workers : Opens(tx[v]) =>
                      SignatureOf[tx[v].probe] # SignatureOf[n.probe]
    BY DEF InsertingIncident, Opens
  <2> QED
    BY <1>2, <2>1, <2>2 DEF CorrelationInv, IncidentReserved
<1>7. RoomInv'
  <2>1. /\ Inserters \in SUBSET Workers /\ Inserters' \in SUBSET Workers
        /\ Inserters \ {w} = Inserters' \ {w}
        /\ w \in Inserters' <=> Inserts(n)
        /\ w \in Inserters <=> Inserts(tx[w])
    BY <1>2 DEF Inserters
  <2>2. /\ Openers \in SUBSET Workers /\ Openers' \in SUBSET Workers
        /\ Openers \ {w} = Openers' \ {w}
        /\ w \in Openers' <=> Opens(n)
        /\ w \in Openers <=> Opens(tx[w])
    BY <1>2 DEF Openers
  <2>3. /\ RoomForAlert => Len(alerts) + Cardinality(Inserters) < MaxAlerts
        /\ RoomForIncident => Len(incidents) + Cardinality(Openers) < MaxIncidents
    BY DEF RoomForAlert, RoomForIncident, Inserters, Openers, Inserts, Opens
  <2>4. Len(alerts) \in Nat /\ Len(incidents) \in Nat
    BY DEF CorrelationInv, TypeOK
  <2>5. Len(alerts) + Cardinality(Inserters') <= MaxAlerts
    <3>1. /\ Cardinality(Inserters) \in Nat /\ Cardinality(Inserters') \in Nat
          /\ Cardinality(Inserters') <= Cardinality(Inserters)
             \/ (Inserts(n) /\ ~ Inserts(tx[w]) /\ Cardinality(Inserters') = Cardinality(Inserters) + 1)
      BY <2>1, CountWorkers
    <3> QED
      BY <2>3, <2>4, <3>1, Bounds DEF CorrelationInv, RoomInv
  <2>6. Len(incidents) + Cardinality(Openers') <= MaxIncidents
    <3>1. /\ Cardinality(Openers) \in Nat /\ Cardinality(Openers') \in Nat
          /\ Cardinality(Openers') <= Cardinality(Openers)
             \/ (Opens(n) /\ ~ Opens(tx[w]) /\ Cardinality(Openers') = Cardinality(Openers) + 1)
      BY <2>2, CountWorkers
    <3> QED
      BY <2>3, <2>4, <3>1, Bounds DEF CorrelationInv, RoomInv
  <2> QED
    BY <2>5, <2>6 DEF RoomInv
<1>8. AnalysisInv' /\ AnalysedOnce'
  BY <1>2 DEF CorrelationInv, AnalysisInv, AnalysedOnce
<1>9. OneActiveAlert' /\ OneOpenIncident' /\ Grouped' /\ SuppressedByEarlier'
  BY DEF CorrelationInv, OneActiveAlert, OneOpenIncident, Grouped, SuppressedByEarlier, Active
<1> QED
  BY <1>3, <1>4, <1>5, <1>6, <1>7, <1>8, <1>9 DEF CorrelationInv

\* What the invariant says of one transaction.
LEMMA TxFacts ==
  ASSUME CorrelationInv, NEW w \in Workers
  PROVE  /\ tx \in [Workers -> Transaction] /\ tx[w] \in Transaction
         /\ tx[w].alert \in {None} \cup DOMAIN alerts
         /\ tx[w].incident \in {None} \cup DOMAIN incidents
         /\ Own(tx[w]) /\ Stage(tx[w])
         /\ alerts \in Seq(Alert) /\ incidents \in Seq(Incident)
         /\ DOMAIN alerts = 1 .. Len(alerts) /\ DOMAIN incidents = 1 .. Len(incidents)
         /\ DOMAIN alerts \subseteq 0 .. MaxAlerts
         /\ DOMAIN incidents \subseteq 0 .. MaxIncidents
         /\ now \in 0 .. MaxTime
<1>1. /\ tx \in [Workers -> Transaction] /\ tx[w] \in Transaction
      /\ tx[w].alert \in {None} \cup DOMAIN alerts
      /\ tx[w].incident \in {None} \cup DOMAIN incidents
      /\ Own(tx[w]) /\ Stage(tx[w])
      /\ alerts \in Seq(Alert) /\ incidents \in Seq(Incident)
      /\ Len(alerts) <= MaxAlerts /\ Len(incidents) <= MaxIncidents
      /\ now \in 0 .. MaxTime
  BY DEF CorrelationInv, TypeOK, StageInv
<1>2. /\ Len(alerts) \in Nat /\ Len(incidents) \in Nat
      /\ DOMAIN alerts = 1 .. Len(alerts) /\ DOMAIN incidents = 1 .. Len(incidents)
  BY <1>1
<1>3. 1 .. Len(alerts) \subseteq 0 .. MaxAlerts /\ 1 .. Len(incidents) \subseteq 0 .. MaxIncidents
  BY <1>1, <1>2, Bounds
<1> QED
  BY <1>1, <1>2, <1>3

\* What a step makes of a transaction, field by field.
LEMMA TxFields ==
  ASSUME NEW t \in Transaction, NEW pc, NEW x, x = [t EXCEPT !.pc = pc]
  PROVE  x = [pc |-> pc, probe |-> t.probe, reading |-> t.reading, at |-> t.at,
              alert |-> t.alert, incident |-> t.incident, member |-> t.member,
              count |-> t.count, severity |-> t.severity, how |-> t.how]
BY DEF Transaction

LEMMA ReadFields ==
  ASSUME NEW p, NEW a, NEW reading, NEW time
  PROVE  [Idle EXCEPT !.pc = "read", !.probe = p, !.alert = a, !.reading = reading, !.at = time]
           = [pc |-> "read", probe |-> p, reading |-> reading, at |-> time, alert |-> a,
              incident |-> None, member |-> FALSE, count |-> 0, severity |-> 0, how |-> ""]
<1>1. PICK x : x = [Idle EXCEPT !.pc = "read"]
  OBVIOUS
<1>2. PICK y : y = [x EXCEPT !.probe = p]
  OBVIOUS
<1>3. PICK z : z = [y EXCEPT !.alert = a]
  OBVIOUS
<1>4. PICK u : u = [z EXCEPT !.reading = reading]
  OBVIOUS
<1>5. [Idle EXCEPT !.pc = "read", !.probe = p, !.alert = a, !.reading = reading, !.at = time]
        = [u EXCEPT !.at = time]
  BY <1>1, <1>2, <1>3, <1>4 DEF Idle
<1>11. PICK then, m, c, h : then = 0 /\ m = FALSE /\ c = 0 /\ h = ""
  OBVIOUS
<1>6. x = [pc |-> "read", probe |-> None, reading |-> Clear, at |-> then, alert |-> None,
           incident |-> None, member |-> m, count |-> c, severity |-> c, how |-> h]
  BY <1>1, <1>11 DEF Idle
<1>7. y = [pc |-> "read", probe |-> p, reading |-> Clear, at |-> then, alert |-> None,
           incident |-> None, member |-> m, count |-> c, severity |-> c, how |-> h]
  BY <1>2, <1>6
<1>8. z = [pc |-> "read", probe |-> p, reading |-> Clear, at |-> then, alert |-> a,
           incident |-> None, member |-> m, count |-> c, severity |-> c, how |-> h]
  BY <1>3, <1>7
<1>9. u = [pc |-> "read", probe |-> p, reading |-> reading, at |-> then, alert |-> a,
           incident |-> None, member |-> m, count |-> c, severity |-> c, how |-> h]
  BY <1>4, <1>8
<1>10. [u EXCEPT !.at = time] = [pc |-> "read", probe |-> p, reading |-> reading, at |-> time, alert |-> a,
           incident |-> None, member |-> m, count |-> c, severity |-> c, how |-> h]
  BY <1>9
<1> QED
  BY <1>5, <1>10, <1>11

LEMMA EvaluateKeeps ==
  ASSUME CorrelationInv, NEW w \in Workers, NEW p \in Probes, Evaluate(w, p)
  PROVE  CorrelationInv'
<1>1. PICK reading \in Severities \cup {Clear}, a \in {None} \cup ActiveFor(p) :
        /\ reading = Clear => a # None
        /\ tx' = [tx EXCEPT ![w] = [Idle EXCEPT !.pc = "read", !.probe = p, !.alert = a,
                                                !.reading = reading, !.at = now]]
  <2>1. PICK reading \in Severities \cup {Clear} :
          /\ reading = Clear => ActiveFor(p) # {}
          /\ \E a \in IF ActiveFor(p) = {} THEN {None} ELSE ActiveFor(p) :
               tx' = [tx EXCEPT ![w] = [Idle EXCEPT !.pc = "read", !.probe = p, !.alert = a,
                                                    !.reading = reading, !.at = now]]
    BY DEF Evaluate
  <2>2. None \notin ActiveFor(p)
    BY TxFacts DEF ActiveFor, None
  <2> QED
    BY <2>1, <2>2
<1> DEFINE n == [pc |-> "read", probe |-> p, reading |-> reading, at |-> now, alert |-> a,
                 incident |-> None, member |-> FALSE, count |-> 0, severity |-> 0, how |-> ""]
<1>2. tx' = [tx EXCEPT ![w] = n]
  <2>1. [Idle EXCEPT !.pc = "read", !.probe = p, !.alert = a, !.reading = reading, !.at = now] = n
    BY ReadFields
  <2> QED
    BY <1>1, <2>1
<1>3. a \in {None} \cup DOMAIN alerts /\ (a # None => alerts[a].probe = p)
  BY <1>1 DEF ActiveFor
<1>4. n \in Transaction
  <2>1. a \in 0 .. MaxAlerts /\ now \in 0 .. MaxTime /\ None \in 0 .. MaxIncidents
        /\ 0 \in 0 .. MaxAlerts + 1
    BY <1>3, TxFacts, Bounds DEF None
  <2> QED
    BY <1>1, <2>1 DEF Transaction
<1>5. Own(n) /\ Stage(n) /\ ~ Inserts(n) /\ ~ Opens(n)
  BY <1>1, <1>3 DEF Own, Stage, Inserts, Opens
<1>6. n.alert = a /\ n.incident = None /\ n.pc # "committed"
  OBVIOUS
<1> HIDE DEF n
<1> QED
  BY <1>2, <1>3, <1>4, <1>5, <1>6, TxFrame DEF Evaluate

LEMMA RecordKeeps ==
  ASSUME CorrelationInv, NEW w \in Workers, Record(w)
  PROVE  CorrelationInv'
<1>1. PICK t : t = tx[w]
  OBVIOUS
<1>2. /\ t \in Transaction /\ t.pc = "read" /\ t.reading # Clear /\ Own(t)
      /\ t.alert \in {None} \cup DOMAIN alerts
  BY <1>1, TxFacts DEF Record
<1>3. t.probe \in Probes /\ t.reading \in Severities
  BY <1>2 DEF Own, Working, Transaction
<1>4. PICK i : /\ i = None \/ (i \in OpenFor(SignatureOf[t.probe]) /\ t.probe \in Located)
               /\ tx' = [tx EXCEPT ![w].pc = "recorded", ![w].incident = i,
                           ![w].count = IF i = None THEN 0 ELSE incidents[i].count,
                           ![w].severity = IF i = None THEN 0 ELSE incidents[i].severity,
                           ![w].member = /\ i # None
                                         /\ t.alert # None
                                         /\ alerts[t.alert].incident = i]
  BY <1>1 DEF Record
<1>10. i = None \/ (i \in DOMAIN incidents /\ incidents[i].signature = SignatureOf[t.probe]
                     /\ t.probe \in Located)
  BY <1>4 DEF OpenFor
<1>11. PICK m \in BOOLEAN : m = (i # None /\ t.alert # None /\ alerts[t.alert].incident = i)
  OBVIOUS
<1>12. PICK c : c = IF i = None THEN 0 ELSE incidents[i].count
  OBVIOUS
<1>13. PICK s : s = IF i = None THEN 0 ELSE incidents[i].severity
  OBVIOUS
<1> DEFINE n == [pc |-> "recorded", probe |-> t.probe, reading |-> t.reading, at |-> t.at,
                 alert |-> t.alert, incident |-> i, member |-> m, count |-> c,
                 severity |-> s, how |-> t.how]
<1>5. tx' = [tx EXCEPT ![w] = n]
  <2>1. PICK x : x = [t EXCEPT !.pc = "recorded"]
    OBVIOUS
  <2>2. PICK y : y = [x EXCEPT !.incident = i]
    OBVIOUS
  <2>3. PICK z : z = [y EXCEPT !.count = c]
    OBVIOUS
  <2>4. PICK u : u = [z EXCEPT !.severity = s]
    OBVIOUS
  <2>5. tx' = [tx EXCEPT ![w] = [u EXCEPT !.member = m]]
    <3>1. tx' = [tx EXCEPT ![w].pc = "recorded", ![w].incident = i, ![w].count = c,
                           ![w].severity = s, ![w].member = m]
      BY <1>4, <1>11, <1>12, <1>13
    <3> QED
      BY <1>1, <2>1, <2>2, <2>3, <2>4, <3>1, TxFacts
  <2>6. x = [pc |-> "recorded", probe |-> t.probe, reading |-> t.reading, at |-> t.at,
             alert |-> t.alert, incident |-> t.incident, member |-> t.member,
             count |-> t.count, severity |-> t.severity, how |-> t.how]
    BY <1>2, <2>1, TxFields
  <2>7. y = [pc |-> "recorded", probe |-> t.probe, reading |-> t.reading, at |-> t.at,
             alert |-> t.alert, incident |-> i, member |-> t.member, count |-> t.count,
             severity |-> t.severity, how |-> t.how]
    BY <2>2, <2>6
  <2>8. z = [pc |-> "recorded", probe |-> t.probe, reading |-> t.reading, at |-> t.at,
             alert |-> t.alert, incident |-> i, member |-> t.member, count |-> c,
             severity |-> t.severity, how |-> t.how]
    BY <2>3, <2>7
  <2>9. u = [pc |-> "recorded", probe |-> t.probe, reading |-> t.reading, at |-> t.at,
             alert |-> t.alert, incident |-> i, member |-> t.member, count |-> c,
             severity |-> s, how |-> t.how]
    BY <2>4, <2>8
  <2>10. [u EXCEPT !.member = m] = n
    BY <2>9
  <2> QED
    BY <2>5, <2>10
<1>6. n \in Transaction /\ i \in {None} \cup DOMAIN incidents
  <2>1. i \in 0 .. MaxIncidents /\ i \in {None} \cup DOMAIN incidents
    BY <1>10, TxFacts, Bounds DEF None
  <2>2. c \in 0 .. MaxAlerts + 1 /\ s \in Severities \cup {0}
    <3>1. 0 \in 0 .. MaxAlerts + 1
      BY Bounds
    <3>2. i # None => incidents[i] \in Incident
      BY <1>10, TxFacts
    <3>3. i # None => /\ incidents[i].count \in 0 .. MaxAlerts + 1
                      /\ incidents[i].severity \in Severities
      BY <3>2 DEF Incident
    <3> QED
      BY <1>10, <1>12, <1>13, <3>1, <3>3
  <2> QED
    <3>1. /\ t.probe \in Probes \cup {None} /\ t.reading \in Severities \cup {Clear}
          /\ t.at \in 0 .. MaxTime /\ t.alert \in 0 .. MaxAlerts
          /\ t.how \in {"", "new", "conflict", "add", "touch"}
      BY <1>2 DEF Transaction
    <3>2. n \in Transaction
      BY <1>11, <2>1, <2>2, <3>1 DEF Transaction
    <3> QED
      BY <2>1, <3>2
<1>7. Own(n) /\ Stage(n) /\ ~ Opens(n)
  BY <1>2, <1>3, <1>10 DEF Own, Stage, Opens, Working
<1>8. Inserts(n) => /\ ActiveFor(t.probe) = {} /\ RoomForAlert
                    /\ \A v \in Workers : Inserts(tx[v]) => tx[v].probe # t.probe
  BY <1>1, <1>2 DEF Inserts, Record, InsertingAlert
<1>9. n.alert = t.alert /\ n.incident = i /\ n.pc # "committed" /\ n.probe = t.probe
  OBVIOUS
<1> HIDE DEF n
<1> QED
  BY <1>2, <1>5, <1>6, <1>7, <1>8, <1>9, TxFrame DEF Record

\* Of an open incident of a signature, one is found.
LEMMA OpenForFacts ==
  ASSUME NEW s, NEW i \in OpenFor(s)
  PROVE  i \in DOMAIN incidents /\ incidents[i].signature = s
BY DEF OpenFor

LEMMA DecideKeeps ==
  ASSUME CorrelationInv, NEW w \in Workers, Open(w) \/ Join(w)
  PROVE  CorrelationInv'
<1>1. PICK t : t = tx[w]
  OBVIOUS
<1>2. /\ t \in Transaction /\ t.pc = "recorded" /\ Own(t) /\ Stage(t)
      /\ t.alert \in {None} \cup DOMAIN alerts
      /\ t.incident \in {None} \cup DOMAIN incidents
      /\ UNCHANGED <<now, alerts, incidents, sweep, rca>>
  BY <1>1, TxFacts DEF Open, Join
<1>3. t.probe \in Probes /\ t.reading \in Severities /\ t.probe \in Located
  BY <1>1, <1>2, TxFacts DEF Own, Stage, Working, Open, Join
<1> DEFINE Decided(i, how) ==
        /\ how \in {"new", "conflict", "add", "touch"}
        /\ i \in {None} \cup DOMAIN incidents
        /\ i # None => incidents[i].signature = SignatureOf[t.probe]
        /\ how = "new" <=> i = None
        /\ how = "new" => /\ OpenHolders(SignatureOf[t.probe]) = {}
                          /\ ~ InsertingIncident(SignatureOf[t.probe])
                          /\ RoomForIncident
      Set(i, how) ==
        [pc |-> "joined", probe |-> t.probe, reading |-> t.reading, at |-> t.at,
         alert |-> t.alert, incident |-> i, member |-> t.member, count |-> t.count,
         severity |-> t.severity, how |-> how]
<1>11. PICK x : x = [t EXCEPT !.pc = "joined"]
  OBVIOUS
<1>12. x = [pc |-> "joined", probe |-> t.probe, reading |-> t.reading, at |-> t.at,
            alert |-> t.alert, incident |-> t.incident, member |-> t.member,
            count |-> t.count, severity |-> t.severity, how |-> t.how]
  BY <1>2, <1>11, TxFields
<1>13. \A how : [x EXCEPT !.how = how] = Set(t.incident, how)
  BY <1>12
<1>4. \E i, how : Decided(i, how) /\ tx' = [tx EXCEPT ![w] = Set(i, how)]
  <2>1. CASE Open(w) /\ tx' = [tx EXCEPT ![w].pc = "joined", ![w].how = "new"]
                     /\ OpenHolders(SignatureOf[t.probe]) = {} /\ RoomForIncident
    <3>1. t.incident = None /\ ~ InsertingIncident(SignatureOf[t.probe])
      BY <1>1, <2>1 DEF Open
    <3>2. tx' = [tx EXCEPT ![w] = [x EXCEPT !.how = "new"]]
      BY <1>1, <1>11, <2>1, TxFacts
    <3>3. tx' = [tx EXCEPT ![w] = Set(None, "new")]
      BY <1>13, <3>1, <3>2
    <3>4. Decided(None, "new")
      BY <2>1, <3>1
    <3> HIDE DEF Decided, Set
    <3> QED
      BY <3>3, <3>4
  <2>2. CASE Open(w) /\ \E i \in OpenFor(SignatureOf[t.probe]) :
               tx' = [tx EXCEPT ![w].pc = "joined", ![w].how = "conflict", ![w].incident = i]
    <3>1. PICK i \in OpenFor(SignatureOf[t.probe]) :
            tx' = [tx EXCEPT ![w].pc = "joined", ![w].how = "conflict", ![w].incident = i]
      BY <2>2
    <3>2. i \in DOMAIN incidents /\ incidents[i].signature = SignatureOf[t.probe] /\ i # None
      BY <1>1, <3>1, OpenForFacts, TxFacts DEF None
    <3>3. PICK y : y = [x EXCEPT !.how = "conflict"]
      OBVIOUS
    <3>4. tx' = [tx EXCEPT ![w] = [y EXCEPT !.incident = i]]
      BY <1>1, <1>11, <3>1, <3>3, TxFacts
    <3>5. tx' = [tx EXCEPT ![w] = Set(i, "conflict")]
      <4>1. y = Set(t.incident, "conflict")
        BY <1>13, <3>3
      <4>2. [y EXCEPT !.incident = i] = Set(i, "conflict")
        BY <4>1
      <4> QED
        BY <3>4, <4>2
    <3>6. Decided(i, "conflict")
      BY <3>2
    <3> HIDE DEF Decided, Set
    <3> QED
      BY <3>5, <3>6
  <2>3. CASE Join(w)
    <3>1. PICK how \in {"add", "touch"} : tx' = [tx EXCEPT ![w].pc = "joined", ![w].how = how]
      BY <1>1, <2>3 DEF Join
    <3>2. tx' = [tx EXCEPT ![w] = [x EXCEPT !.how = how]]
      BY <1>1, <1>11, <3>1, TxFacts
    <3>3. tx' = [tx EXCEPT ![w] = Set(t.incident, how)]
      BY <1>13, <3>2
    <3>4. t.incident # None /\ incidents[t.incident].signature = SignatureOf[t.probe]
      BY <1>1, <1>2, <2>3 DEF Join, Own, Working
    <3>5. Decided(t.incident, how)
      BY <1>2, <3>1, <3>4
    <3> HIDE DEF Decided, Set
    <3> QED
      BY <3>3, <3>5
  <2> QED
    BY <1>1, <2>1, <2>2, <2>3 DEF Open
<1>5. PICK i, how : Decided(i, how) /\ tx' = [tx EXCEPT ![w] = Set(i, how)]
  BY <1>4
<1> DEFINE n == Set(i, how)
<1>6. n \in Transaction
  <2>1. i \in 0 .. MaxIncidents
    BY <1>5, TxFacts, Bounds DEF None
  <2> QED
    BY <1>2, <1>5, <2>1 DEF Transaction
<1>7. Own(n) /\ Stage(n)
  BY <1>2, <1>3, <1>5 DEF Own, Stage, Working
<1>8. Opens(n) => /\ OpenHolders(SignatureOf[n.probe]) = {}
                  /\ ~ InsertingIncident(SignatureOf[n.probe])
                  /\ RoomForIncident
  BY <1>5 DEF Opens
<1>9. Inserts(n) => /\ ActiveFor(n.probe) = {} /\ Inserts(tx[w])
                    /\ \A v \in Workers : v # w /\ Inserts(tx[v]) => tx[v].probe # n.probe
  <2>1. Inserts(n) => Inserts(tx[w])
    BY <1>1, <1>2 DEF Inserts
  <2>2. n.probe = tx[w].probe
    BY <1>1
  <2> HIDE DEF n
  <2> QED
    BY <2>1, <2>2 DEF CorrelationInv, AlertReserved
<1>10. n.alert = t.alert /\ n.incident = i /\ n.pc # "committed"
  OBVIOUS
<1>15. i \in {None} \cup DOMAIN incidents /\ tx' = [tx EXCEPT ![w] = n]
  BY <1>5
<1> HIDE DEF n
<1> QED
  BY <1>2, <1>15, <1>6, <1>7, <1>8, <1>9, <1>10, TxFrame

LEMMA ClearKeeps ==
  ASSUME CorrelationInv, NEW w \in Workers, ClearAlert(w)
  PROVE  CorrelationInv'
<1>1. PICK t : t = tx[w]
  OBVIOUS
<1>2. /\ t \in Transaction /\ t.pc = "read" /\ t.reading = Clear /\ Own(t) /\ Stage(t)
      /\ t.alert \in {None} \cup DOMAIN alerts
  BY <1>1, TxFacts DEF ClearAlert
<1>3. t.probe \in Probes /\ t.alert # None /\ alerts[t.alert].probe = t.probe
      /\ t.alert \in DOMAIN alerts
  BY <1>2 DEF Own, Stage, Working
<1>4. alerts[t.alert].incident \in {None} \cup DOMAIN incidents
  BY <1>3 DEF CorrelationInv, Grouped
<1>5. PICK i \in {None} \cup DOMAIN incidents :
        tx' = [tx EXCEPT ![w].pc = "counted", ![w].incident = i]
  BY <1>1, <1>4 DEF ClearAlert
<1> DEFINE n == [pc |-> "counted", probe |-> t.probe, reading |-> t.reading, at |-> t.at,
                 alert |-> t.alert, incident |-> i, member |-> t.member, count |-> t.count,
                 severity |-> t.severity, how |-> t.how]
<1>6. tx' = [tx EXCEPT ![w] = n]
  <2>1. PICK x : x = [t EXCEPT !.pc = "counted"]
    OBVIOUS
  <2>2. tx' = [tx EXCEPT ![w] = [x EXCEPT !.incident = i]]
    BY <1>1, <1>5, <2>1, TxFacts
  <2>3. x = [pc |-> "counted", probe |-> t.probe, reading |-> t.reading, at |-> t.at,
             alert |-> t.alert, incident |-> t.incident, member |-> t.member,
             count |-> t.count, severity |-> t.severity, how |-> t.how]
    BY <1>2, <2>1, TxFields
  <2>4. [x EXCEPT !.incident = i] = n
    BY <2>3
  <2> QED
    BY <2>2, <2>4
<1>7. n \in Transaction
  <2>1. i \in 0 .. MaxIncidents
    BY <1>5, TxFacts, Bounds DEF None
  <2> QED
    BY <1>2, <2>1 DEF Transaction
<1>8. Own(n) /\ Stage(n) /\ ~ Inserts(n) /\ ~ Opens(n)
  BY <1>3 DEF Own, Stage, Inserts, Opens
<1>9. n.alert = t.alert /\ n.incident = i /\ n.pc # "committed"
  OBVIOUS
<1> HIDE DEF n
<1> QED
  BY <1>2, <1>5, <1>6, <1>7, <1>8, <1>9, TxFrame DEF ClearAlert

-----------------------------------------------------------------------------
(* Steps that change rows, and free transactions.                          *)

\* Each transaction stays as it is or ends.
Frees == /\ tx' \in [Workers -> Transaction]
         /\ \A v \in Workers : tx'[v] = tx[v] \/ tx'[v] = Idle

\* No alert is added; what changes of one is its status, severity and time.
AlertsKept ==
  /\ alerts' \in Seq(Alert) /\ Len(alerts') = Len(alerts)
  /\ \A a \in DOMAIN alerts :
       /\ alerts'[a].probe = alerts[a].probe /\ alerts'[a].incident = alerts[a].incident
       /\ alerts'[a].triggered = alerts[a].triggered
       /\ alerts'[a].suppressed = alerts[a].suppressed /\ alerts'[a].root = alerts[a].root
       /\ alerts'[a].parent = alerts[a].parent

\* No incident is added or opened.
IncidentsKept ==
  /\ incidents' \in Seq(Incident) /\ Len(incidents') = Len(incidents)
  /\ \A i \in DOMAIN incidents :
       /\ incidents'[i].signature = incidents[i].signature
       /\ incidents'[i].status = "open" => incidents[i].status = "open"

\* The alerts that become active again: at most one, of a probe that has none.
Woken == {a \in DOMAIN alerts : ~ Active(a) /\ alerts'[a].status # "resolved"}
WakesOne ==
  /\ \A a, b \in Woken : a = b
  /\ \A a \in Woken : /\ ActiveFor(alerts[a].probe) = {}
                      /\ ~ InsertingAlert(alerts[a].probe)

LEMMA FreesFacts ==
  ASSUME CorrelationInv, Frees, NEW v \in Workers
  PROVE  /\ tx'[v] = tx[v] \/ tx'[v] = Idle
         /\ Inserts(tx[v])' => Inserts(tx[v]) /\ tx'[v] = tx[v]
         /\ Opens(tx[v])' => Opens(tx[v]) /\ tx'[v] = tx[v]
         /\ tx'[v].pc = "committed" => tx[v].pc = "committed" /\ tx'[v] = tx[v]
         /\ Stage(tx[v])'
<1>1. tx'[v] = tx[v] \/ tx'[v] = Idle
  BY DEF Frees
<1>2. Stage(tx[v])
  BY TxFacts
<1>3. CASE tx'[v] = tx[v]
  BY <1>2, <1>3 DEF Inserts, Opens, Stage
<1>4. CASE tx'[v] = Idle
  <2>1. PICK k : k = Idle
    OBVIOUS
  <2>2. Stage(k) /\ ~ Inserts(k) /\ ~ Opens(k) /\ k.pc # "committed"
    BY <2>1, IdleFacts
  <2>3. tx'[v] = k
    BY <1>4, <2>1
  <2> QED
    BY <1>4, <2>2, <2>3 DEF Inserts, Opens, Stage
<1> QED
  BY <1>1, <1>3, <1>4

LEMMA AnalysisFrame ==
  ASSUME CorrelationInv, Frees, rca' = rca, DOMAIN incidents \subseteq DOMAIN incidents'
  PROVE  AnalysisInv' /\ AnalysedOnce'
<1>1. AnalysisInv'
  BY FreesFacts DEF CorrelationInv, AnalysisInv
<1>2. AnalysedOnce'
  BY DEF CorrelationInv, AnalysedOnce
<1> QED
  BY <1>1, <1>2

LEMMA RowsKeep ==
  ASSUME CorrelationInv, Frees, AlertsKept, IncidentsKept, WakesOne,
         now' \in 0 .. MaxTime, sweep' \subseteq DOMAIN incidents,
         rca' \in [1 .. MaxIncidents -> Nat], AnalysisInv', AnalysedOnce'
  PROVE  CorrelationInv'
<1>1. /\ DOMAIN alerts' = DOMAIN alerts /\ DOMAIN incidents' = DOMAIN incidents
      /\ DOMAIN alerts = 1 .. Len(alerts) /\ DOMAIN incidents = 1 .. Len(incidents)
      /\ Len(alerts) \in Nat /\ Len(incidents) \in Nat
  <2>1. alerts \in Seq(Alert) /\ incidents \in Seq(Incident)
    BY DEF CorrelationInv, TypeOK
  <2>2. alerts' \in Seq(Alert) /\ incidents' \in Seq(Incident)
        /\ Len(alerts') = Len(alerts) /\ Len(incidents') = Len(incidents)
    BY DEF AlertsKept, IncidentsKept
  <2> QED
    BY <2>1, <2>2
<1>2. TypeOK'
  <2>1. \A v \in Workers : /\ tx'[v].alert \in {None} \cup DOMAIN alerts
                           /\ tx'[v].incident \in {None} \cup DOMAIN incidents
    <3> TAKE v \in Workers
    <3>1. tx'[v] = tx[v] \/ tx'[v] = Idle
      BY FreesFacts
    <3> QED
      BY <3>1, TxFacts, IdleFacts
  <2>2. Len(alerts) <= MaxAlerts /\ Len(incidents) <= MaxIncidents
    BY DEF CorrelationInv, TypeOK
  <2> QED
    BY <1>1, <2>1, <2>2 DEF TypeOK, Frees, AlertsKept, IncidentsKept
<1>3. StageInv'
  <2>1. ASSUME NEW v \in Workers PROVE Own(tx[v])'
    <3>1. CASE tx'[v] = Idle
      <4>1. ~ Working(tx[v])'
        BY <3>1, IdleFacts DEF Working, Idle
      <4> QED
        BY <4>1 DEF Own
    <3>2. CASE tx'[v] = tx[v]
      <4>1. PICK t : t = tx[v]
        OBVIOUS
      <4>2. /\ Own(t) /\ t.alert \in {None} \cup DOMAIN alerts
            /\ t.incident \in {None} \cup DOMAIN incidents
        BY <4>1, TxFacts
      <4>3. tx'[v] = t
        BY <3>2, <4>1
      <4>4. Working(tx[v])' => Working(t)
        BY <4>3 DEF Working
      <4>5. ASSUME t.alert # None PROVE alerts'[t.alert].probe = alerts[t.alert].probe
        BY <4>2, <4>5 DEF AlertsKept
      <4>6. ASSUME t.incident # None
            PROVE incidents'[t.incident].signature = incidents[t.incident].signature
        BY <4>2, <4>6 DEF IncidentsKept
      <4> QED
        BY <4>2, <4>3, <4>4, <4>5, <4>6 DEF Own
    <3> QED
      BY <3>1, <3>2, FreesFacts
  <2> QED
    BY <2>1, FreesFacts DEF StageInv
<1>4. ASSUME NEW a \in DOMAIN alerts, NEW b \in DOMAIN alerts, alerts[a].probe = alerts[b].probe,
             alerts'[a].status # "resolved", alerts'[b].status # "resolved"
      PROVE  a = b
  <2>1. CASE a \in Woken \/ b \in Woken
    <3>1. ActiveFor(alerts[a].probe) = {}
      BY <1>4, <2>1 DEF WakesOne
    <3>2. ~ Active(a) /\ ~ Active(b)
      BY <1>4, <3>1 DEF ActiveFor
    <3>3. a \in Woken /\ b \in Woken
      BY <1>4, <3>2 DEF Woken
    <3> QED
      BY <3>3 DEF WakesOne
  <2>2. CASE a \notin Woken /\ b \notin Woken
    <3>1. Active(a) /\ Active(b)
      BY <1>4, <2>2 DEF Woken
    <3> QED
      BY <1>4, <3>1 DEF CorrelationInv, OneActiveAlert
  <2> QED
    BY <2>1, <2>2
<1>5. OneActiveAlert'
  BY <1>1, <1>4 DEF OneActiveAlert, Active, AlertsKept
<1>6. AlertReserved'
  <2>1. ASSUME NEW v \in Workers, Inserts(tx[v])' PROVE ActiveFor(tx[v].probe)' = {}
    <3>1. Inserts(tx[v]) /\ tx'[v] = tx[v]
      BY <2>1, FreesFacts
    <3>2. PICK p : p = tx[v].probe
      OBVIOUS
    <3>3. ActiveFor(p) = {} /\ InsertingAlert(p)
      BY <3>1, <3>2 DEF CorrelationInv, AlertReserved, Inserts, InsertingAlert
    <3>4. \A a \in DOMAIN alerts : alerts[a].probe = p => a \notin Woken /\ ~ Active(a)
      BY <3>3 DEF WakesOne, ActiveFor
    <3>5. \A a \in DOMAIN alerts : alerts'[a].probe = p => alerts'[a].status = "resolved"
      BY <3>4 DEF Woken, AlertsKept
    <3>6. ActiveFor(p)' = {}
      BY <1>1, <3>5 DEF ActiveFor, Active
    <3> QED
      BY <3>1, <3>2, <3>6 DEF ActiveFor, Active
  <2> QED
    BY <2>1, FreesFacts DEF CorrelationInv, AlertReserved
<1>7. OneOpenIncident'
  BY <1>1 DEF CorrelationInv, OneOpenIncident, IncidentsKept
<1>8. IncidentReserved'
  <2>1. ASSUME NEW v \in Workers, Opens(tx[v])'
        PROVE  OpenHolders(SignatureOf[tx[v].probe])' = {}
    <3>1. Opens(tx[v]) /\ tx'[v] = tx[v]
      BY <2>1, FreesFacts
    <3>2. PICK s : s = SignatureOf[tx[v].probe]
      OBVIOUS
    <3>3. OpenHolders(s) = {}
      BY <3>1, <3>2 DEF CorrelationInv, IncidentReserved
    <3>4. OpenHolders(s)' = {}
      BY <1>1, <3>3 DEF OpenHolders, IncidentsKept
    <3> QED
      BY <3>1, <3>2, <3>4 DEF OpenHolders
  <2> QED
    BY <2>1, FreesFacts DEF CorrelationInv, IncidentReserved
<1>9. RoomInv'
  <2>1. Inserters' \subseteq Inserters /\ Openers' \subseteq Openers
    BY FreesFacts DEF Inserters, Openers
  <2>2. IsFiniteSet(Inserters) /\ IsFiniteSet(Openers)
    BY Bounds, FS_Subset DEF Inserters, Openers
  <2>3. /\ Cardinality(Inserters') <= Cardinality(Inserters)
        /\ Cardinality(Openers') <= Cardinality(Openers)
        /\ IsFiniteSet(Inserters') /\ IsFiniteSet(Openers')
    BY <2>1, <2>2, FS_Subset
  <2>4. /\ Cardinality(Inserters) \in Nat /\ Cardinality(Openers) \in Nat
        /\ Cardinality(Inserters') \in Nat /\ Cardinality(Openers') \in Nat
    BY <2>2, <2>3, FS_CardinalityType
  <2>5. Len(alerts') = Len(alerts) /\ Len(incidents') = Len(incidents)
    BY DEF AlertsKept, IncidentsKept
  <2> QED
    BY <1>1, <2>3, <2>4, <2>5, Bounds DEF CorrelationInv, RoomInv
<1>10. Grouped'
  BY <1>1 DEF CorrelationInv, Grouped, AlertsKept, IncidentsKept
<1>11. SuppressedByEarlier'
  <2>1. PICK A : A = alerts'
    OBVIOUS
  <2>2. /\ DOMAIN A = DOMAIN alerts
        /\ \A a \in DOMAIN alerts :
             /\ A[a].probe = alerts[a].probe /\ A[a].triggered = alerts[a].triggered
             /\ A[a].suppressed = alerts[a].suppressed /\ A[a].root = alerts[a].root
             /\ A[a].parent = alerts[a].parent
    BY <1>1, <2>1 DEF AlertsKept
  <2>3. \A a \in DOMAIN A : A[a].suppressed =>
          LET p == A[a].parent
          IN  /\ p \in DOMAIN A \ {a} /\ ~ A[a].root /\ A[p].probe \in Availability
              /\ A[a].probe \in Availability => A[p].triggered <= A[a].triggered
    BY <2>2 DEF CorrelationInv, SuppressedByEarlier
  <2>4. ASSUME NEW S \in SUBSET {a \in DOMAIN A : A[a].suppressed}, S # {}
        PROVE  \E a \in S : A[a].parent \notin S
    <3>1. S \in SUBSET {a \in DOMAIN alerts : alerts[a].suppressed}
      BY <2>2
    <3>2. PICK a \in S : alerts[a].parent \notin S
      BY <2>4, <3>1 DEF CorrelationInv, SuppressedByEarlier
    <3> QED
      BY <2>2, <3>1, <3>2
  <2> QED
    BY <2>1, <2>3, <2>4 DEF SuppressedByEarlier
<1> QED
  BY <1>2, <1>3, <1>5, <1>6, <1>7, <1>8, <1>9, <1>10, <1>11 DEF CorrelationInv

LEMMA FreesIf ==
  ASSUME CorrelationInv, tx' = tx \/ \E w \in Workers : tx' = [tx EXCEPT ![w] = Idle]
  PROVE  Frees
<1>1. tx \in [Workers -> Transaction]
  BY DEF CorrelationInv, TypeOK
<1>2. CASE tx' = tx
  BY <1>1, <1>2 DEF Frees
<1>3. CASE \E w \in Workers : tx' = [tx EXCEPT ![w] = Idle]
  <2>1. PICK w \in Workers : tx' = [tx EXCEPT ![w] = Idle]
    BY <1>3
  <2>2. Idle \in Transaction
    BY IdleFacts
  <2> QED
    BY <1>1, <2>1, <2>2 DEF Frees
<1> QED
  BY <1>2, <1>3

LEMMA AlertsKeptIf ==
  ASSUME CorrelationInv, alerts' = alerts
  PROVE  AlertsKept /\ WakesOne
<1>1. alerts \in Seq(Alert)
  BY DEF CorrelationInv, TypeOK
<1>2. Woken = {}
  BY DEF Woken, Active
<1> QED
  BY <1>1, <1>2 DEF AlertsKept, WakesOne

LEMMA IncidentsKeptIf ==
  ASSUME CorrelationInv, incidents' = incidents
  PROVE  IncidentsKept
<1>1. incidents \in Seq(Incident)
  BY DEF CorrelationInv, TypeOK
<1> QED
  BY <1>1 DEF IncidentsKept

LEMMA AlertMarked ==
  ASSUME CorrelationInv, NEW a \in DOMAIN alerts, NEW st \in AlertStatuses,
         alerts' = [alerts EXCEPT ![a].status = st]
  PROVE  /\ AlertsKept /\ alerts'[a].status = st
         /\ \A b \in DOMAIN alerts : b # a => alerts'[b] = alerts[b]
<1>1. alerts \in Seq(Alert) /\ DOMAIN alerts = 1 .. Len(alerts) /\ Len(alerts) \in Nat
  BY DEF CorrelationInv, TypeOK
<1>2. PICK x \in Alert : x = alerts[a]
  BY <1>1
<1> DEFINE row == [probe |-> x.probe, status |-> st, severity |-> x.severity,
                   triggered |-> x.triggered, seen |-> x.seen, incident |-> x.incident,
                   parent |-> x.parent, root |-> x.root, suppressed |-> x.suppressed]
<1>3. [x EXCEPT !.status = st] = row
  BY <1>2 DEF Alert
<1>4. row \in Alert
  BY <1>2 DEF Alert
<1>5. /\ row.probe = x.probe /\ row.incident = x.incident /\ row.triggered = x.triggered
      /\ row.suppressed = x.suppressed /\ row.root = x.root /\ row.parent = x.parent
      /\ row.status = st
  OBVIOUS
<1> HIDE DEF row
<1>6. PICK k : k = [alerts EXCEPT ![a] = row]
  OBVIOUS
<1>7. alerts' = k
  BY <1>1, <1>2, <1>3, <1>6
<1>8. /\ k \in Seq(Alert) /\ Len(k) = Len(alerts) /\ k[a] = row
      /\ \A b \in 1 .. Len(alerts) : b # a => k[b] = alerts[b]
  BY <1>1, <1>4, <1>6, RowSet
<1>9. AlertsKept
  BY <1>1, <1>2, <1>5, <1>7, <1>8 DEF AlertsKept
<1> QED
  BY <1>1, <1>5, <1>7, <1>8, <1>9

LEMMA IncidentMarked ==
  ASSUME CorrelationInv, NEW i \in DOMAIN incidents, NEW st \in IncidentStatuses \ {"open"},
         incidents' = [incidents EXCEPT ![i].status = st]
  PROVE  IncidentsKept
<1>1. /\ incidents \in Seq(Incident) /\ DOMAIN incidents = 1 .. Len(incidents)
      /\ Len(incidents) \in Nat
  BY DEF CorrelationInv, TypeOK
<1>2. PICK x \in Incident : x = incidents[i]
  BY <1>1
<1> DEFINE row == [signature |-> x.signature, status |-> st, severity |-> x.severity,
                   last |-> x.last, count |-> x.count, root |-> x.root]
<1>3. [x EXCEPT !.status = st] = row
  BY <1>2 DEF Incident
<1>4. row \in Incident
  BY <1>2 DEF Incident
<1>5. row.signature = x.signature /\ row.status # "open"
  OBVIOUS
<1> HIDE DEF row
<1>6. PICK k : k = [incidents EXCEPT ![i] = row]
  OBVIOUS
<1>7. incidents' = k
  BY <1>1, <1>2, <1>3, <1>6
<1>8. /\ k \in Seq(Incident) /\ Len(k) = Len(incidents) /\ k[i] = row
      /\ \A j \in 1 .. Len(incidents) : j # i => k[j] = incidents[j]
  BY <1>1, <1>4, <1>6, RowSet
<1> QED
  BY <1>1, <1>2, <1>5, <1>7, <1>8 DEF IncidentsKept

\* Resolving an alert wakes none.
LEMMA ResolvedWakesNone ==
  ASSUME CorrelationInv, NEW a \in DOMAIN alerts,
         alerts' = [alerts EXCEPT ![a].status = "resolved"]
  PROVE  AlertsKept /\ WakesOne
<1>1. /\ AlertsKept /\ alerts'[a].status = "resolved"
      /\ \A b \in DOMAIN alerts : b # a => alerts'[b] = alerts[b]
  BY AlertMarked DEF AlertStatuses
<1>2. Woken = {}
  BY <1>1 DEF Woken, Active
<1> QED
  BY <1>1, <1>2 DEF WakesOne

\* Only rows and ended transactions, and nothing of the analyses, change.
LEMMA QuietKeeps ==
  ASSUME CorrelationInv, Frees, AlertsKept, IncidentsKept, WakesOne,
         now' \in 0 .. MaxTime, sweep' \subseteq DOMAIN incidents, rca' = rca
  PROVE  CorrelationInv'
<1>1. DOMAIN incidents = 1 .. Len(incidents) /\ DOMAIN incidents' = 1 .. Len(incidents)
  BY DEF CorrelationInv, TypeOK, IncidentsKept
<1>2. AnalysisInv' /\ AnalysedOnce'
  BY <1>1, AnalysisFrame
<1>3. rca' \in [1 .. MaxIncidents -> Nat]
  BY DEF CorrelationInv, TypeOK
<1> QED
  BY <1>2, <1>3, RowsKeep

LEMMA AbortKeeps ==
  ASSUME CorrelationInv, NEW w \in Workers, Abort(w)
  PROVE  CorrelationInv'
<1>1. Frees
  BY FreesIf DEF Abort
<1>2. now' \in 0 .. MaxTime /\ sweep' \subseteq DOMAIN incidents /\ rca' = rca
  BY DEF Abort, CorrelationInv, TypeOK
<1>3. AlertsKept /\ WakesOne /\ IncidentsKept
  BY AlertsKeptIf, IncidentsKeptIf DEF Abort
<1> QED
  BY <1>1, <1>2, <1>3, QuietKeeps

LEMMA ClearedKeeps ==
  ASSUME CorrelationInv, NEW w \in Workers, CommitClear(w)
  PROVE  CorrelationInv'
<1>1. Frees
  BY FreesIf DEF CommitClear
<1>2. now' \in 0 .. MaxTime /\ sweep' \subseteq DOMAIN incidents /\ rca' = rca
  BY DEF CommitClear, CorrelationInv, TypeOK
<1>3. /\ tx[w].alert \in DOMAIN alerts
      /\ tx[w].incident = None \/ tx[w].incident \in DOMAIN incidents
  BY TxFacts DEF CommitClear, Stage
<1>4. AlertsKept /\ WakesOne
  BY <1>3, ResolvedWakesNone DEF CommitClear
<1>5. IncidentsKept
  BY <1>3, IncidentMarked, IncidentsKeptIf DEF CommitClear, IncidentStatuses
<1> QED
  BY <1>1, <1>2, <1>4, <1>5, QuietKeeps

LEMMA OperateKeeps ==
  ASSUME CorrelationInv, Operate
  PROVE  CorrelationInv'
<1>1. ASSUME NEW a \in DOMAIN alerts, AcknowledgeAlert(a)
      PROVE  CorrelationInv'
  <2>1. Frees /\ IncidentsKept
    BY <1>1, FreesIf, IncidentsKeptIf DEF AcknowledgeAlert
  <2>2. now' \in 0 .. MaxTime /\ sweep' \subseteq DOMAIN incidents /\ rca' = rca
    BY <1>1 DEF AcknowledgeAlert, CorrelationInv, TypeOK
  <2>3. AlertsKept /\ \A b \in DOMAIN alerts : b # a => alerts'[b] = alerts[b]
    BY <1>1, AlertMarked DEF AcknowledgeAlert, AlertStatuses
  <2>4. Woken \subseteq {a}
    BY <2>3 DEF Woken, Active
  <2>5. ActiveFor(alerts[a].probe) = {} /\ ~ InsertingAlert(alerts[a].probe)
    BY <1>1 DEF AcknowledgeAlert, ActiveFor
  <2>6. WakesOne
    BY <2>4, <2>5 DEF WakesOne
  <2> QED
    BY <2>1, <2>2, <2>3, <2>6, QuietKeeps
<1>2. ASSUME NEW a \in DOMAIN alerts, ResolveAlert(a)
      PROVE  CorrelationInv'
  <2>1. Frees /\ IncidentsKept
    BY <1>2, FreesIf, IncidentsKeptIf DEF ResolveAlert
  <2>2. now' \in 0 .. MaxTime /\ sweep' \subseteq DOMAIN incidents /\ rca' = rca
    BY <1>2 DEF ResolveAlert, CorrelationInv, TypeOK
  <2>3. AlertsKept /\ WakesOne
    BY <1>2, ResolvedWakesNone DEF ResolveAlert
  <2> QED
    BY <2>1, <2>2, <2>3, QuietKeeps
<1>3. ASSUME NEW i \in DOMAIN incidents, NEW to \in Targets, MoveIncident(i, to)
      PROVE  CorrelationInv'
  <2>1. Frees /\ AlertsKept /\ WakesOne
    BY <1>3, FreesIf, AlertsKeptIf DEF MoveIncident
  <2>2. now' \in 0 .. MaxTime /\ sweep' \subseteq DOMAIN incidents /\ rca' = rca
    BY <1>3 DEF MoveIncident, CorrelationInv, TypeOK
  <2>3. to \in IncidentStatuses \ {"open"}
    BY TargetsAssumption DEF TargetsAssumption
  <2>4. IncidentsKept
    BY <1>3, <2>3, IncidentMarked DEF MoveIncident
  <2> QED
    BY <2>1, <2>2, <2>4, QuietKeeps
<1> QED
  BY <1>1, <1>2, <1>3 DEF Operate

LEMMA SweepKeeps ==
  ASSUME CorrelationInv, SweepList \/ SweepClose
  PROVE  CorrelationInv'
<1>1. Frees /\ AlertsKept /\ WakesOne
  BY FreesIf, AlertsKeptIf DEF SweepList, SweepClose
<1>2. now' \in 0 .. MaxTime /\ sweep' \subseteq DOMAIN incidents /\ rca' = rca
  BY DEF SweepList, SweepClose, CorrelationInv, TypeOK
<1>3. CASE SweepList
  <2>1. IncidentsKept
    BY <1>3, IncidentsKeptIf DEF SweepList
  <2> QED
    BY <1>1, <1>2, <2>1, QuietKeeps
<1>4. CASE SweepClose
  <2>1. incidents \in Seq(Incident) /\ DOMAIN incidents = 1 .. Len(incidents)
        /\ Len(incidents) \in Nat
    BY DEF CorrelationInv, TypeOK
  <2>2. PICK k : k = incidents'
    OBVIOUS
  <2>3. ASSUME NEW i \in 1 .. Len(incidents)
        PROVE  /\ k[i] \in Incident /\ k[i].signature = incidents[i].signature
               /\ k[i].status = "open" => incidents[i].status = "open"
    <3>1. PICK x \in Incident : x = incidents[i]
      BY <2>1
    <3>2. k[i] = IF i \in sweep THEN [x EXCEPT !.status = "closed"] ELSE x
      BY <1>4, <2>1, <2>2, <3>1 DEF SweepClose
    <3>3. [x EXCEPT !.status = "closed"]
            = [signature |-> x.signature, status |-> "closed", severity |-> x.severity,
               last |-> x.last, count |-> x.count, root |-> x.root]
      BY <3>1 DEF Incident
    <3>4. CASE i \in sweep
      <4>1. k[i] = [signature |-> x.signature, status |-> "closed", severity |-> x.severity,
                    last |-> x.last, count |-> x.count, root |-> x.root]
        BY <3>2, <3>3, <3>4
      <4> QED
        BY <3>1, <4>1 DEF Incident, IncidentStatuses
    <3>5. CASE i \notin sweep
      BY <3>1, <3>2, <3>5
    <3> QED
      BY <3>4, <3>5
  <2>4. k = [i \in 1 .. Len(incidents) |-> k[i]]
    BY <1>4, <2>1, <2>2 DEF SweepClose
  <2>5. k \in [1 .. Len(incidents) -> Incident]
    BY <2>3, <2>4
  <2>6. k \in Seq(Incident) /\ Len(k) = Len(incidents)
    BY <2>1, <2>5
  <2>7. IncidentsKept
    BY <2>1, <2>2, <2>3, <2>6 DEF IncidentsKept
  <2> QED
    BY <1>1, <1>2, <2>7, QuietKeeps
<1> QED
  BY <1>3, <1>4

LEMMA TickKeeps ==
  ASSUME CorrelationInv, Tick \/ UNCHANGED vars
  PROVE  CorrelationInv'
<1>1. Frees /\ AlertsKept /\ WakesOne /\ IncidentsKept
  BY FreesIf, AlertsKeptIf, IncidentsKeptIf DEF Tick, vars
<1>2. now' \in 0 .. MaxTime
  BY Bounds DEF Tick, vars, CorrelationInv, TypeOK
<1>3. sweep' \subseteq DOMAIN incidents /\ rca' = rca
  BY DEF Tick, vars, CorrelationInv, TypeOK
<1> QED
  BY <1>1, <1>2, <1>3, QuietKeeps

LEMMA TriggerKeepsInv ==
  ASSUME CorrelationInv, NEW w \in Workers, Trigger(w)
  PROVE  CorrelationInv'
<1>1. PICK i : i = tx[w].incident
  OBVIOUS
<1>2. i \in DOMAIN incidents /\ tx[w].pc = "committed" /\ rca[i] = 0
  BY <1>1, TxFacts DEF Trigger, Stage, CorrelationInv, AnalysisInv
<1>3. Frees /\ AlertsKept /\ WakesOne /\ IncidentsKept
  BY FreesIf, AlertsKeptIf, IncidentsKeptIf DEF Trigger
<1>4. now' \in 0 .. MaxTime /\ sweep' \subseteq DOMAIN incidents
  BY DEF Trigger, CorrelationInv, TypeOK
<1>5. rca \in [1 .. MaxIncidents -> Nat] /\ DOMAIN incidents \subseteq 1 .. MaxIncidents
  <2>1. /\ incidents \in Seq(Incident) /\ Len(incidents) <= MaxIncidents
        /\ rca \in [1 .. MaxIncidents -> Nat]
    BY DEF CorrelationInv, TypeOK
  <2>2. Len(incidents) \in Nat /\ DOMAIN incidents = 1 .. Len(incidents)
    BY <2>1
  <2>3. 1 .. Len(incidents) \subseteq 1 .. MaxIncidents
    BY <2>1, <2>2, Bounds
  <2> QED
    BY <2>1, <2>2, <2>3
<1>6. /\ rca' \in [1 .. MaxIncidents -> Nat] /\ rca'[i] \in {0, 1}
      /\ \A j \in 1 .. MaxIncidents : j # i => rca'[j] = rca[j]
  <2>1. rca' = rca \/ rca' = [rca EXCEPT ![i] = @ + 1]
    BY <1>1 DEF Trigger
  <2>2. CASE rca' = rca
    BY <1>2, <1>5, <2>2
  <2>3. CASE rca' = [rca EXCEPT ![i] = @ + 1]
    <3>1. i \in 1 .. MaxIncidents
      BY <1>2, <1>5
    <3>2. rca' = [rca EXCEPT ![i] = 1]
      BY <1>2, <1>5, <2>3, <3>1
    <3>3. 1 \in Nat
      OBVIOUS
    <3>4. rca' \in [1 .. MaxIncidents -> Nat]
      BY <1>5, <3>2, <3>3
    <3> QED
      BY <1>5, <3>1, <3>2, <3>4
  <2> QED
    BY <2>1, <2>2, <2>3
<1>7. ASSUME NEW v \in Workers, tx'[v].pc = "committed"
      PROVE  tx[v].pc = "committed" /\ tx'[v] = tx[v] /\ tx[v].incident # i
             /\ tx[v].incident \in 1 .. MaxIncidents
  <2>1. v # w
    <3>1. tx'[w] = Idle
      BY TxFacts DEF Trigger
    <3> QED
      BY <1>7, <3>1, IdleFacts
  <2>2. tx[v].pc = "committed" /\ tx'[v] = tx[v]
    BY <1>3, <1>7, FreesFacts
  <2>3. tx[v].incident # i
    BY <1>1, <1>2, <2>1, <2>2 DEF CorrelationInv, AnalysisInv
  <2>4. tx[v].incident \in DOMAIN incidents
    BY <2>2, TxFacts DEF Stage
  <2> QED
    BY <1>5, <2>2, <2>3, <2>4
<1>8. AnalysisInv'
  <2>1. \A v \in Workers : tx'[v].pc = "committed" => rca'[tx'[v].incident] = 0
    BY <1>6, <1>7 DEF CorrelationInv, AnalysisInv
  <2>2. \A v, u \in Workers :
          tx'[v].pc = "committed" /\ tx'[u].pc = "committed" /\ tx'[v].incident = tx'[u].incident
          => v = u
    BY <1>7 DEF CorrelationInv, AnalysisInv
  <2> QED
    BY <2>1, <2>2 DEF AnalysisInv
<1>9. AnalysedOnce'
  <2>1. incidents' = incidents
    BY DEF Trigger
  <2>2. \A j \in 1 .. MaxIncidents : rca'[j] <= 1 /\ (rca'[j] > 0 => j \in DOMAIN incidents)
    BY <1>2, <1>5, <1>6 DEF CorrelationInv, AnalysedOnce
  <2> QED
    BY <2>1, <2>2 DEF AnalysedOnce
<1> QED
  BY <1>3, <1>4, <1>6, <1>8, <1>9, RowsKeep

-----------------------------------------------------------------------------
(* The commit of a join, which adds rows and recomputes the members.       *)

\* Alert a is linked to incident i; either may be a new row.
AlertLinked(t, a, i) ==
  /\ a = IF t.alert = None THEN Len(alerts) + 1 ELSE t.alert
  /\ alerts' \in Seq(Alert) /\ Len(alerts') <= MaxAlerts /\ a \in 1 .. Len(alerts')
  /\ Len(alerts') = IF t.alert = None THEN Len(alerts) + 1 ELSE Len(alerts)
  /\ \A b \in 1 .. Len(alerts) :
       /\ alerts'[b].probe = alerts[b].probe /\ alerts'[b].status = alerts[b].status
       /\ alerts'[b].triggered = alerts[b].triggered
       /\ b # a => alerts'[b].incident = alerts[b].incident
  /\ alerts'[a].probe = t.probe /\ alerts'[a].incident = i
IncidentJoined(t, i) ==
  /\ incidents' \in Seq(Incident) /\ Len(incidents') <= MaxIncidents
  /\ Opens(t) => i = Len(incidents) + 1 /\ t.probe \in Located
  /\ Len(incidents') = IF Opens(t) THEN Len(incidents) + 1 ELSE Len(incidents)
  /\ \A j \in 1 .. Len(incidents) : /\ incidents'[j].signature = incidents[j].signature
                                    /\ incidents'[j].status = incidents[j].status
  /\ IF t.probe \in Located
     THEN i \in 1 .. Len(incidents') /\ incidents'[i].signature = SignatureOf[t.probe]
     ELSE i = None
Committed(w, i) ==
  \E n \in Transaction :
     /\ tx' = [tx EXCEPT ![w] = n]
     /\ n.alert = None /\ n.incident \in {None, i}
     /\ n.pc \in {"idle", "committed"} /\ (n.pc = "committed" => Opens(tx[w]) /\ n.incident = i)

\* A transaction that inserts has its room in the tables.
LEMMA RoomFacts ==
  ASSUME CorrelationInv, NEW w \in Workers
  PROVE  /\ Inserts(tx[w]) => Len(alerts) < MaxAlerts
         /\ Opens(tx[w]) => Len(incidents) < MaxIncidents
<1>1. /\ Inserters \in SUBSET Workers /\ Openers \in SUBSET Workers
      /\ Inserters \ {w} \in SUBSET Workers /\ Openers \ {w} \in SUBSET Workers
  BY DEF Inserters, Openers
<1>2. Inserts(tx[w]) => Cardinality(Inserters) >= 1
  <2>1. /\ (Inserters \ {w}) \ {w} = Inserters \ {w} /\ w \notin Inserters \ {w}
        /\ Inserts(tx[w]) => w \in Inserters
    BY DEF Inserters
  <2>2. /\ Cardinality(Inserters) \in Nat /\ Cardinality(Inserters \ {w}) \in Nat
        /\ w \in Inserters => Cardinality(Inserters) = Cardinality(Inserters \ {w}) + 1
    BY <1>1, <2>1, CountWorkers
  <2> QED
    BY <2>1, <2>2
<1>3. Opens(tx[w]) => Cardinality(Openers) >= 1
  <2>1. /\ (Openers \ {w}) \ {w} = Openers \ {w} /\ w \notin Openers \ {w}
        /\ Opens(tx[w]) => w \in Openers
    BY DEF Openers
  <2>2. /\ Cardinality(Openers) \in Nat /\ Cardinality(Openers \ {w}) \in Nat
        /\ w \in Openers => Cardinality(Openers) = Cardinality(Openers \ {w}) + 1
    BY <1>1, <2>1, CountWorkers
  <2> QED
    BY <2>1, <2>2
<1>4. /\ Cardinality(Inserters) \in Nat /\ Cardinality(Openers) \in Nat
      /\ Len(alerts) \in Nat /\ Len(incidents) \in Nat
  BY <1>1, Bounds, FS_Subset, FS_CardinalityType DEF CorrelationInv, TypeOK
<1> QED
  BY <1>2, <1>3, <1>4, Bounds DEF CorrelationInv, RoomInv

\* What the commit of t writes, with its alert in row a and its incident in row i.
Rewrites(t, a, i) ==
  \E fired \in FiredAt(t) :
    LET rows == Linked(t, fired, i)
        unchanged == \/ t.how = "touch"
                     \/ t.how = "add" /\ t.member /\ t.reading = incidents[i].severity
        members == IF unchanged THEN {a} ELSE {b \in DOMAIN rows : rows[b].incident = i}
    IN  \E root \in SelectRootCause(rows, members) :
          /\ alerts' = ApplySuppression(rows, members, root)
          /\ incidents' = [Joined(t, rows, a, i) EXCEPT
                              ![i].severity = MaxSeverity(rows, members, t.reading),
                              ![i].root = root]

LEMMA JoinEffect ==
  ASSUME CorrelationInv, NEW w \in Workers, CommitJoin(w)
  PROVE  /\ tx[w].pc = "joined" /\ UNCHANGED <<now, sweep, rca>>
         /\ SuppressedByEarlier'
         /\ \E a, i : AlertLinked(tx[w], a, i) /\ IncidentJoined(tx[w], i) /\ Committed(w, i)
<1>1. PICK t : t = tx[w]
  OBVIOUS
<1>2. PICK a : a = IF t.alert = None THEN Len(alerts) + 1 ELSE t.alert
  OBVIOUS
<1>3. PICK i : i = IF t.how = "new" THEN Len(incidents) + 1 ELSE t.incident
  OBVIOUS
<1> DEFINE Recomputes(rs) ==
             IF t.how = "touch" \/ (t.how = "add" /\ t.member /\ t.reading = incidents[i].severity)
             THEN {a} ELSE {b \in DOMAIN rs : rs[b].incident = i}
           Written(rs, ms, r) ==
             /\ alerts' = ApplySuppression(rs, ms, r)
             /\ incidents' = [Joined(t, rs, a, i) EXCEPT
                                 ![i].severity = MaxSeverity(rs, ms, t.reading),
                                 ![i].root = r]
<1>0. \E fired \in FiredAt(t) :
        \E r \in SelectRootCause(Linked(t, fired, i), Recomputes(Linked(t, fired, i))) :
          Written(Linked(t, fired, i), Recomputes(Linked(t, fired, i)), r)
  <2>1. Rewrites(t, a, i)
    <3>1. Rewrites(tx[w], IF tx[w].alert = None THEN Len(alerts) + 1 ELSE tx[w].alert,
                   IF tx[w].how = "new" THEN Len(incidents) + 1 ELSE tx[w].incident)
      BY Zenon DEF CommitJoin, Rewrites
    <3> QED
      BY <1>1, <1>2, <1>3, <3>1
  <2> QED
    BY <2>1, Zenon DEF Rewrites
<1>25. PICK fired \in FiredAt(t) :
         \E r \in SelectRootCause(Linked(t, fired, i), Recomputes(Linked(t, fired, i))) :
           Written(Linked(t, fired, i), Recomputes(Linked(t, fired, i)), r)
  <2> HIDE DEF Recomputes, Written
  <2> QED
    BY <1>0
<1>26. PICK rows : rows = Linked(t, fired, i)
  OBVIOUS
<1>4. /\ fired \in FiredAt(t)
      /\ rows = Linked(t, fired, i)
      /\ \E r \in SelectRootCause(rows, Recomputes(rows)) : Written(rows, Recomputes(rows), r)
  <2> HIDE DEF Recomputes, Written
  <2> QED
    BY <1>25, <1>26
<1>5. PICK members, root :
        /\ members = {a} \/ members = {b \in DOMAIN rows : rows[b].incident = i}
        /\ root \in SelectRootCause(rows, members)
        /\ alerts' = ApplySuppression(rows, members, root)
        /\ incidents' = [Joined(t, rows, a, i) EXCEPT
                            ![i].severity = MaxSeverity(rows, members, t.reading),
                            ![i].root = root]
  <2>1. PICK members : members = Recomputes(rows)
    OBVIOUS
  <2>2. members = {a} \/ members = {b \in DOMAIN rows : rows[b].incident = i}
    BY <2>1
  <2>3. \E r \in SelectRootCause(rows, members) : Written(rows, members, r)
    <3> HIDE DEF Recomputes, Written
    <3> QED
      BY <1>4, <2>1
  <2> QED
    BY <2>2, <2>3
<1> HIDE DEF Recomputes, Written
<1>24. tx' = [tx EXCEPT ![w] = IF t.how = "new"
                              THEN [Idle EXCEPT !.pc = "committed", !.incident = i]
                              ELSE Idle]
  BY <1>1, <1>3 DEF CommitJoin
<1>6. t.pc = "joined" /\ UNCHANGED <<now, sweep, rca>>
  BY <1>1 DEF CommitJoin
<1>7. /\ t \in Transaction /\ t.probe \in Probes /\ t.reading \in Severities /\ TypeOK
      /\ t.alert # None => t.alert \in DOMAIN alerts /\ alerts[t.alert].probe = t.probe
      /\ t.alert = None => Len(alerts) < MaxAlerts
      /\ t.how = "new" => Len(incidents) < MaxIncidents
      /\ t.how # "new" => i \in DOMAIN incidents /\ incidents[i].signature = SignatureOf[t.probe]
      /\ t.probe \in Located /\ (Opens(t) <=> t.how = "new")
  <2>1. /\ t \in Transaction /\ Own(t) /\ Stage(t) /\ t.alert \in {None} \cup DOMAIN alerts
        /\ t.incident \in {None} \cup DOMAIN incidents
    BY <1>1, TxFacts
  <2>2. /\ t.alert = None => Len(alerts) < MaxAlerts
        /\ t.how = "new" => Len(incidents) < MaxIncidents
    BY <1>1, <1>6, RoomFacts DEF Inserts, Opens
  <2>3. TypeOK
    BY DEF CorrelationInv
  <2> QED
    BY <1>3, <1>6, <2>1, <2>2, <2>3 DEF Own, Stage, Working, Opens
<1>8. /\ Len(alerts) \in Nat /\ Len(incidents) \in Nat
      /\ DOMAIN alerts = 1 .. Len(alerts) /\ DOMAIN incidents = 1 .. Len(incidents)
      /\ Len(incidents) <= MaxIncidents
  BY <1>7 DEF TypeOK
<1>9. i \in 1 .. MaxIncidents
  <2>1. CASE t.how = "new"
    BY <1>3, <1>7, <1>8, <2>1, Bounds
  <2>2. CASE t.how # "new"
    BY <1>7, <1>8, <2>2, Bounds
  <2> QED
    BY <2>1, <2>2
<1>10. /\ rows \in Seq(Alert)
       /\ Len(rows) = IF t.alert = None THEN Len(alerts) + 1 ELSE Len(alerts)
       /\ Len(rows) <= MaxAlerts /\ a \in 1 .. Len(rows)
       /\ \A b \in 1 .. Len(alerts) : b # a => rows[b] = alerts[b]
       /\ rows[a].probe = t.probe /\ rows[a].incident = i
       /\ t.alert = None => rows[a].status = "active" /\ ~ rows[a].suppressed
       /\ t.alert # None =>
            /\ rows[a].status = alerts[a].status /\ rows[a].triggered = alerts[a].triggered
            /\ rows[a].suppressed = alerts[a].suppressed /\ rows[a].root = alerts[a].root
            /\ rows[a].parent = alerts[a].parent
  <2>1. i \in 0 .. MaxIncidents
    BY <1>9, Bounds
  <2> QED
    BY <1>2, <1>4, <1>7, <2>1, LinkedFacts
<1>11. members \in SUBSET (1 .. Len(rows)) /\ DOMAIN rows = 1 .. Len(rows) /\ Len(rows) \in Nat
  BY <1>5, <1>10
<1>12. root # None =>
         /\ root \in members /\ rows[root].probe \in Availability
         /\ rows[root].status # "resolved"
         /\ \A b \in members :
              rows[b].probe \in Availability /\ rows[b].status # "resolved"
              => rows[root].triggered <= rows[b].triggered
  BY <1>5, <1>10, <1>11, RootFacts
<1>13. root \in {None} \cup (1 .. Len(rows)) /\ root \in 0 .. MaxAlerts
  <2>1. root \in {None} \cup (1 .. Len(rows))
    BY <1>11, <1>12
  <2> QED
    BY <1>10, <1>11, <2>1, Bounds DEF None
<1>14. PICK A : A = alerts'
  OBVIOUS
<1>15. /\ A \in Seq(Alert) /\ Len(A) = Len(rows)
       /\ \A b \in 1 .. Len(rows) :
            /\ Same(A[b], rows[b])
            /\ \/ A[b].suppressed = rows[b].suppressed /\ A[b].root = rows[b].root
                  /\ A[b].parent = rows[b].parent
               \/ ~ A[b].suppressed
               \/ /\ root # None /\ b # root /\ A[b].suppressed
                  /\ A[b].parent = root /\ ~ A[b].root
                  /\ b \in members /\ rows[b].status # "resolved"
            /\ b = root /\ b \in members /\ rows[b].status # "resolved" => ~ A[b].suppressed
  <2>1. rows \in Seq(Alert) /\ Len(rows) <= MaxAlerts
    BY <1>10
  <2>2. members \in SUBSET (1 .. Len(rows))
    BY <1>11
  <2>3. root \in {None} \cup (1 .. Len(rows))
    BY <1>13
  <2>4. A = ApplySuppression(rows, members, root)
    BY <1>5, <1>14
  <2> QED
    BY <2>1, <2>2, <2>3, <2>4, SuppressionFacts
<1>16. \A b \in 1 .. Len(alerts) :
         /\ b \in 1 .. Len(rows)
         /\ A[b].probe = alerts[b].probe /\ A[b].status = alerts[b].status
         /\ A[b].triggered = alerts[b].triggered
         /\ b # a => A[b].incident = alerts[b].incident
  <2> TAKE b \in 1 .. Len(alerts)
  <2>1. b \in 1 .. Len(rows)
    BY <1>8, <1>10
  <2>2. Same(A[b], rows[b])
    BY <1>15, <2>1
  <2>3. CASE b # a
    BY <1>10, <2>1, <2>2, <2>3 DEF Same
  <2>4. CASE b = a
    <3>1. t.alert # None
      BY <1>2, <1>8, <2>4
    <3> QED
      BY <1>2, <1>7, <1>10, <2>1, <2>2, <2>4, <3>1 DEF Same
  <2> QED
    BY <2>3, <2>4
<1>17. AlertLinked(t, a, i)
  <2>1. A[a].probe = t.probe /\ A[a].incident = i
    BY <1>10, <1>15 DEF Same
  <2> QED
    BY <1>2, <1>10, <1>14, <1>15, <1>16, <2>1 DEF AlertLinked
<1>18. IncidentJoined(t, i)
  <2>1. rows[a].triggered \in 0 .. MaxTime
    <3>1. rows[a] \in Alert
      BY <1>10
    <3> QED
      BY <3>1 DEF Alert
  <2>2. PICK mid : mid = Joined(t, rows, a, i)
    OBVIOUS
  <2>3. /\ mid \in Seq(Incident)
        /\ Len(mid) = IF t.how = "new" THEN Len(incidents) + 1 ELSE Len(incidents)
        /\ Len(mid) <= MaxIncidents /\ i \in 1 .. Len(mid)
        /\ \A j \in 1 .. Len(incidents) : /\ mid[j].signature = incidents[j].signature
                                          /\ mid[j].status = incidents[j].status
        /\ t.how = "new" => /\ mid[i].signature = SignatureOf[t.probe]
                            /\ mid[i].status = "open"
    BY <1>3, <1>7, <2>1, <2>2, JoinedFacts
  <2>4. PICK sev : sev = MaxSeverity(rows, members, t.reading)
    OBVIOUS
  <2>5. sev \in Severities
    BY <1>7, <1>10, <1>11, <2>4, SeverityFacts
  <2>6. PICK J : J = incidents'
    OBVIOUS
  <2>7. J = Recomputed(mid, i, sev, root)
    BY <1>5, <2>2, <2>4, <2>6 DEF Recomputed
  <2>8. /\ J \in Seq(Incident) /\ Len(J) = Len(mid)
        /\ \A j \in 1 .. Len(mid) : /\ J[j].signature = mid[j].signature
                                    /\ J[j].status = mid[j].status
    <3>1. mid \in Seq(Incident) /\ i \in 1 .. Len(mid)
      BY <2>3
    <3>2. root \in 0 .. MaxAlerts
      BY <1>13
    <3>3. /\ Recomputed(mid, i, sev, root) \in Seq(Incident)
          /\ Len(Recomputed(mid, i, sev, root)) = Len(mid)
          /\ \A j \in 1 .. Len(mid) :
               /\ Recomputed(mid, i, sev, root)[j].signature = mid[j].signature
               /\ Recomputed(mid, i, sev, root)[j].status = mid[j].status
      BY <2>5, <3>1, <3>2, RecomputedFacts
    <3> QED
      BY <2>7, <3>3
  <2>9. \A j \in 1 .. Len(incidents) : j \in 1 .. Len(mid)
    BY <1>8, <2>3
  <2>10. J[i].signature = SignatureOf[t.probe]
    BY <1>7, <1>8, <2>3, <2>8
  <2> QED
    BY <1>3, <1>7, <2>3, <2>6, <2>8, <2>9, <2>10 DEF IncidentJoined
<1>19. Committed(w, i)
  <2>1. CASE t.how # "new"
    <3>1. tx' = [tx EXCEPT ![w] = Idle]
      BY <1>24, <2>1
    <3>2. PICK n : n = Idle
      OBVIOUS
    <3>3. n \in Transaction /\ n.alert = None /\ n.incident = None /\ n.pc = "idle"
      BY <3>2, IdleFacts DEF Idle
    <3> QED
      BY <3>1, <3>2, <3>3 DEF Committed
  <2>2. CASE t.how = "new"
    <3>1. PICK x : x = [Idle EXCEPT !.pc = "committed"]
      OBVIOUS
    <3>2. PICK n : n = [x EXCEPT !.incident = i]
      OBVIOUS
    <3>3. tx' = [tx EXCEPT ![w] = n]
      BY <1>24, <2>2, <3>1, <3>2
    <3>4. PICK zero, no, nil : zero = 0 /\ no = FALSE /\ nil = ""
      OBVIOUS
    <3>5. x = [pc |-> "committed", probe |-> None, reading |-> Clear, at |-> zero,
               alert |-> None, incident |-> None, member |-> no, count |-> zero,
               severity |-> zero, how |-> nil]
      BY <3>1, <3>4 DEF Idle
    <3>6. n = [pc |-> "committed", probe |-> None, reading |-> Clear, at |-> zero,
               alert |-> None, incident |-> i, member |-> no, count |-> zero,
               severity |-> zero, how |-> nil]
      BY <3>2, <3>5
    <3>7. i \in 0 .. MaxIncidents /\ 0 \in 0 .. MaxTime /\ 0 \in 0 .. MaxAlerts + 1
          /\ None \in 0 .. MaxAlerts
      BY <1>9, Bounds DEF None
    <3>8. n \in Transaction
      BY <3>4, <3>6, <3>7 DEF Transaction
    <3>9. n.alert = None /\ n.incident = i /\ n.pc = "committed"
      BY <3>6
    <3> QED
      BY <1>1, <1>7, <2>2, <3>3, <3>8, <3>9 DEF Committed
  <2> QED
    BY <2>1, <2>2
<1> DEFINE Kept(b) == /\ b \in 1 .. Len(alerts) /\ alerts[b].suppressed
                      /\ A[b].root = alerts[b].root /\ A[b].parent = alerts[b].parent
           Put(b) == /\ root # None /\ b # root /\ A[b].parent = root /\ ~ A[b].root
                     /\ b \in members /\ rows[b].status # "resolved"
\* A suppressed alert was so before, below the same alert, or is put below the root.
<1>22. ASSUME NEW b \in 1 .. Len(A), A[b].suppressed PROVE Kept(b) \/ Put(b)
  <2>1. b \in 1 .. Len(rows)
    BY <1>15
  <2>2. CASE A[b].suppressed = rows[b].suppressed /\ A[b].root = rows[b].root
             /\ A[b].parent = rows[b].parent
    <3>1. rows[b].suppressed
      BY <1>22, <2>2
    <3>2. CASE b = a
      BY <1>2, <1>7, <1>8, <1>10, <2>2, <3>1, <3>2
    <3>3. CASE b # a
      <4>1. b \in 1 .. Len(alerts)
        BY <1>2, <1>8, <1>10, <2>1, <3>3
      <4> QED
        BY <1>10, <2>2, <3>1, <3>3, <4>1
    <3> QED
      BY <3>2, <3>3
  <2> QED
    BY <1>15, <1>22, <2>1, <2>2
<1>20. ASSUME NEW b \in 1 .. Len(A), A[b].suppressed
       PROVE  LET p == A[b].parent
              IN  /\ p \in (1 .. Len(A)) \ {b} /\ ~ A[b].root
                  /\ A[p].probe \in Availability
                  /\ A[b].probe \in Availability => A[p].triggered <= A[b].triggered
  <2>1. b \in 1 .. Len(rows) /\ Same(A[b], rows[b]) /\ b \in Nat
    BY <1>11, <1>15, <1>20
  <2>2. CASE Kept(b)
    <3>2. PICK p : p = A[b].parent
      OBVIOUS
    <3>3. /\ p \in 1 .. Len(alerts) /\ p # b /\ ~ alerts[b].root
          /\ alerts[p].probe \in Availability
          /\ alerts[b].probe \in Availability => alerts[p].triggered <= alerts[b].triggered
      BY <1>8, <2>2, <3>2 DEF CorrelationInv, SuppressedByEarlier
    <3>4. /\ A[p].probe = alerts[p].probe /\ A[p].triggered = alerts[p].triggered
          /\ A[b].probe = alerts[b].probe /\ A[b].triggered = alerts[b].triggered
          /\ p \in 1 .. Len(rows)
      BY <1>16, <2>2, <3>3
    <3> QED
      BY <1>15, <2>2, <3>2, <3>3, <3>4
  <2>3. CASE Put(b)
    <3>1. /\ root \in 1 .. Len(rows) /\ root \in Nat /\ Same(A[root], rows[root])
      <4>1. root \in members /\ members \in SUBSET (1 .. Len(rows))
        BY <1>11, <1>12, <2>3
      <4>2. root \in 1 .. Len(rows)
        BY <4>1
      <4> QED
        BY <1>11, <1>15, <4>2
    <3>2. rows[root].probe \in Availability
      BY <1>12, <2>3
    <3>3. rows[b].probe \in Availability => rows[root].triggered <= rows[b].triggered
      BY <1>12, <2>3
    <3> QED
      BY <1>15, <2>1, <2>3, <3>1, <3>2, <3>3 DEF Same
  <2> QED
    BY <1>20, <1>22, <2>2, <2>3
\* Of some suppressed alerts, either one is put below the root, which is not among
\* them, or all were suppressed before.
<1>23. ASSUME NEW S \in SUBSET (1 .. Len(A)), S # {}, \A b \in S : A[b].suppressed
       PROVE  \E b \in S : A[b].parent \notin S
  <2>1. CASE \E b \in S : Put(b)
    <3>1. PICK b \in S : Put(b)
      BY <2>1
    <3>2. root \in members /\ rows[root].status # "resolved" /\ root \in 1 .. Len(rows)
      BY <1>11, <1>12, <3>1
    <3>3. ~ A[root].suppressed
      BY <1>15, <3>2
    <3> QED
      BY <1>23, <3>1, <3>3
  <2>2. CASE \A b \in S : Kept(b)
    <3>1. S \in SUBSET {b \in DOMAIN alerts : alerts[b].suppressed}
      BY <1>8, <2>2
    <3>2. PICK b \in S : alerts[b].parent \notin S
      BY <1>23, <3>1 DEF CorrelationInv, SuppressedByEarlier
    <3> QED
      BY <2>2, <3>2
  <2> QED
    BY <1>22, <1>23, <2>1, <2>2
<1> HIDE DEF Kept, Put
<1>21. SuppressedByEarlier'
  <2>1. DOMAIN A = 1 .. Len(A)
    BY <1>15
  <2>2. \A S \in SUBSET {b \in DOMAIN A : A[b].suppressed} :
          S = {} \/ \E b \in S : A[b].parent \notin S
    BY <1>23, <2>1
  <2> QED
    BY <1>14, <1>20, <2>1, <2>2 DEF SuppressedByEarlier
<1> QED
  BY <1>1, <1>6, <1>17, <1>18, <1>19, <1>21

\* An alert with neither device nor site: its row alone.
LEMMA AloneEffect ==
  ASSUME CorrelationInv, NEW w \in Workers, CommitAlone(w)
  PROVE  /\ tx[w].pc = "recorded" /\ UNCHANGED <<now, sweep, rca>>
         /\ SuppressedByEarlier'
         /\ \E a, i : AlertLinked(tx[w], a, i) /\ IncidentJoined(tx[w], i) /\ Committed(w, i)
<1>1. PICK t : t = tx[w]
  OBVIOUS
<1>2. PICK a : a = IF t.alert = None THEN Len(alerts) + 1 ELSE t.alert
  OBVIOUS
<1>3. PICK fired \in FiredAt(t) : alerts' = Linked(t, fired, None)
  BY <1>1 DEF CommitAlone
<1>4. /\ t.pc = "recorded" /\ t.probe \notin Located /\ tx' = [tx EXCEPT ![w] = Idle]
      /\ UNCHANGED <<now, incidents, sweep, rca>>
  BY <1>1 DEF CommitAlone
<1>5. /\ t \in Transaction /\ t.probe \in Probes /\ t.reading \in Severities /\ TypeOK
      /\ t.alert # None => t.alert \in DOMAIN alerts /\ alerts[t.alert].probe = t.probe
      /\ t.alert = None => Len(alerts) < MaxAlerts
      /\ ~ Opens(t)
  <2>1. /\ t \in Transaction /\ Own(t) /\ Stage(t) /\ t.alert \in {None} \cup DOMAIN alerts
    BY <1>1, TxFacts
  <2>2. t.alert = None => Len(alerts) < MaxAlerts
    BY <1>1, <1>4, RoomFacts DEF Inserts
  <2>3. TypeOK
    BY DEF CorrelationInv
  <2> QED
    BY <1>4, <2>1, <2>2, <2>3 DEF Own, Stage, Working, Opens
<1>6. /\ Len(alerts) \in Nat /\ DOMAIN alerts = 1 .. Len(alerts)
      /\ incidents \in Seq(Incident) /\ Len(incidents) <= MaxIncidents
      /\ DOMAIN incidents = 1 .. Len(incidents)
  BY <1>5 DEF TypeOK
<1>7. PICK A : A = alerts'
  OBVIOUS
<1>8. /\ A \in Seq(Alert)
      /\ Len(A) = IF t.alert = None THEN Len(alerts) + 1 ELSE Len(alerts)
      /\ Len(A) <= MaxAlerts /\ a \in 1 .. Len(A)
      /\ \A b \in 1 .. Len(alerts) : b # a => A[b] = alerts[b]
      /\ A[a].probe = t.probe /\ A[a].incident = None
      /\ t.alert = None => A[a].status = "active" /\ ~ A[a].suppressed
      /\ t.alert # None =>
           /\ A[a].status = alerts[a].status /\ A[a].triggered = alerts[a].triggered
           /\ A[a].suppressed = alerts[a].suppressed /\ A[a].root = alerts[a].root
           /\ A[a].parent = alerts[a].parent
  <2>1. None \in 0 .. MaxIncidents
    BY Bounds DEF None
  <2> QED
    BY <1>2, <1>3, <1>5, <1>7, <2>1, LinkedFacts
\* The rows that were there keep what suppression looks at.
<1>9. \A b \in 1 .. Len(alerts) :
        /\ b \in 1 .. Len(A)
        /\ A[b].probe = alerts[b].probe /\ A[b].status = alerts[b].status
        /\ A[b].triggered = alerts[b].triggered /\ A[b].suppressed = alerts[b].suppressed
        /\ A[b].root = alerts[b].root /\ A[b].parent = alerts[b].parent
        /\ b # a => A[b].incident = alerts[b].incident
  <2> TAKE b \in 1 .. Len(alerts)
  <2>1. b \in 1 .. Len(A)
    BY <1>6, <1>8
  <2>2. CASE b # a
    BY <1>8, <2>1, <2>2
  <2>3. CASE b = a
    <3>1. t.alert # None
      BY <1>2, <1>6, <2>3
    <3> QED
      BY <1>2, <1>5, <1>8, <2>1, <2>3, <3>1
  <2> QED
    BY <2>2, <2>3
<1>10. AlertLinked(t, a, None)
  BY <1>2, <1>7, <1>8, <1>9 DEF AlertLinked
<1>11. IncidentJoined(t, None)
  BY <1>4, <1>5, <1>6 DEF IncidentJoined
<1>12. Committed(w, None)
  <2>1. PICK n : n = Idle
    OBVIOUS
  <2>2. n \in Transaction /\ n.alert = None /\ n.incident = None /\ n.pc = "idle"
    BY <2>1, IdleFacts DEF Idle
  <2> QED
    BY <1>4, <2>1, <2>2 DEF Committed
<1>13. \A b \in 1 .. Len(A) : A[b].suppressed => b \in 1 .. Len(alerts) /\ alerts[b].suppressed
  <2> TAKE b \in 1 .. Len(A)
  <2>1. b \in 1 .. Len(alerts) \/ (b = a /\ t.alert = None)
    BY <1>2, <1>6, <1>8
  <2> QED
    BY <1>8, <1>9, <2>1
<1>14. SuppressedByEarlier'
  <2>1. DOMAIN A = 1 .. Len(A)
    BY <1>8
  <2>2. ASSUME NEW b \in 1 .. Len(A), A[b].suppressed
        PROVE  LET p == A[b].parent
               IN  /\ p \in (1 .. Len(A)) \ {b} /\ ~ A[b].root
                   /\ A[p].probe \in Availability
                   /\ A[b].probe \in Availability => A[p].triggered <= A[b].triggered
    <3>1. b \in 1 .. Len(alerts) /\ alerts[b].suppressed
      BY <1>13, <2>2
    <3>2. PICK p : p = alerts[b].parent
      OBVIOUS
    <3>3. /\ p \in 1 .. Len(alerts) /\ p # b /\ ~ alerts[b].root
          /\ alerts[p].probe \in Availability
          /\ alerts[b].probe \in Availability => alerts[p].triggered <= alerts[b].triggered
      BY <1>6, <3>1, <3>2 DEF CorrelationInv, SuppressedByEarlier
    <3> QED
      BY <1>9, <3>1, <3>2, <3>3
  <2>3. ASSUME NEW S \in SUBSET {b \in DOMAIN A : A[b].suppressed}, S # {}
        PROVE  \E b \in S : A[b].parent \notin S
    <3>1. S \in SUBSET {b \in DOMAIN alerts : alerts[b].suppressed}
      BY <1>6, <1>13, <2>1
    <3>2. PICK b \in S : alerts[b].parent \notin S
      BY <2>3, <3>1 DEF CorrelationInv, SuppressedByEarlier
    <3> QED
      BY <1>6, <1>9, <3>1, <3>2
  <2> QED
    BY <1>7, <2>1, <2>2, <2>3 DEF SuppressedByEarlier
<1> QED
  BY <1>1, <1>4, <1>10, <1>11, <1>12, <1>14

LEMMA CommitKeeps ==
  ASSUME CorrelationInv, NEW w \in Workers, CommitJoin(w) \/ CommitAlone(w)
  PROVE  CorrelationInv'
<1>1. PICK t : t = tx[w]
  OBVIOUS
<1>2. PICK a, i : AlertLinked(t, a, i) /\ IncidentJoined(t, i) /\ Committed(w, i)
  BY <1>1, JoinEffect, AloneEffect
<1>3. t.pc \in {"recorded", "joined"} /\ UNCHANGED <<now, sweep, rca>> /\ SuppressedByEarlier'
  BY <1>1, JoinEffect, AloneEffect
<1>4. /\ t \in Transaction /\ t.probe \in Probes
      /\ t.alert = None <=> Inserts(tx[w])
      /\ Opens(t) <=> Opens(tx[w])
      /\ t.alert # None => t.alert \in 1 .. Len(alerts) /\ alerts[t.alert].probe = t.probe
  BY <1>1, <1>3, TxFacts DEF Own, Stage, Working, Inserts, Opens
<1>5. /\ alerts \in Seq(Alert) /\ DOMAIN alerts = 1 .. Len(alerts) /\ Len(alerts) \in Nat
      /\ incidents \in Seq(Incident) /\ DOMAIN incidents = 1 .. Len(incidents)
      /\ Len(incidents) \in Nat /\ tx \in [Workers -> Transaction]
      /\ rca \in [1 .. MaxIncidents -> Nat] /\ Len(incidents) <= MaxIncidents
      /\ now \in 0 .. MaxTime /\ sweep \subseteq DOMAIN incidents
  BY DEF CorrelationInv, TypeOK
<1>6. PICK A, J : A = alerts' /\ J = incidents'
  OBVIOUS
<1>7. /\ A \in Seq(Alert) /\ Len(A) <= MaxAlerts /\ a \in 1 .. Len(A)
      /\ a = IF t.alert = None THEN Len(alerts) + 1 ELSE t.alert
      /\ Len(A) = IF t.alert = None THEN Len(alerts) + 1 ELSE Len(alerts)
      /\ \A b \in 1 .. Len(alerts) :
           /\ A[b].probe = alerts[b].probe /\ A[b].status = alerts[b].status
           /\ b # a => A[b].incident = alerts[b].incident
      /\ A[a].probe = t.probe /\ A[a].incident = i
  BY <1>2, <1>6 DEF AlertLinked
<1>8. /\ J \in Seq(Incident) /\ Len(J) <= MaxIncidents
      /\ Opens(t) => i = Len(incidents) + 1 /\ t.probe \in Located
      /\ Len(J) = IF Opens(t) THEN Len(incidents) + 1 ELSE Len(incidents)
      /\ \A j \in 1 .. Len(incidents) : /\ J[j].signature = incidents[j].signature
                                        /\ J[j].status = incidents[j].status
      /\ IF t.probe \in Located
         THEN i \in 1 .. Len(J) /\ J[i].signature = SignatureOf[t.probe]
         ELSE i = None
  BY <1>2, <1>6 DEF IncidentJoined
<1>9. /\ DOMAIN A = 1 .. Len(A) /\ DOMAIN J = 1 .. Len(J)
      /\ 1 .. Len(alerts) \subseteq 1 .. Len(A) /\ 1 .. Len(incidents) \subseteq 1 .. Len(J)
      /\ \A b \in 1 .. Len(A) : b \in 1 .. Len(alerts) \/ (b = a /\ t.alert = None)
      /\ \A j \in 1 .. Len(J) : j \in 1 .. Len(incidents) \/ (j = i /\ Opens(t))
  <2>1. DOMAIN A = 1 .. Len(A) /\ DOMAIN J = 1 .. Len(J)
    BY <1>7, <1>8
  <2>2. /\ 1 .. Len(alerts) \subseteq 1 .. Len(A)
        /\ \A b \in 1 .. Len(A) : b \in 1 .. Len(alerts) \/ (b = a /\ t.alert = None)
    BY <1>5, <1>7
  <2>3. /\ 1 .. Len(incidents) \subseteq 1 .. Len(J)
        /\ \A j \in 1 .. Len(J) : j \in 1 .. Len(incidents) \/ (j = i /\ Opens(t))
    BY <1>5, <1>8
  <2> QED
    BY <2>1, <2>2, <2>3
<1>10. PICK n \in Transaction :
         /\ tx' = [tx EXCEPT ![w] = n]
         /\ n.alert = None /\ n.incident \in {None, i} /\ n.pc \in {"idle", "committed"}
         /\ n.pc = "committed" => Opens(t) /\ n.incident = i
  BY <1>1, <1>2 DEF Committed
<1>11. /\ tx'[w] = n /\ ~ Working(n) /\ ~ Inserts(n) /\ ~ Opens(n)
       /\ tx' \in [Workers -> Transaction]
       /\ \A v \in Workers : v # w => tx'[v] = tx[v]
  BY <1>5, <1>10 DEF Working, Inserts, Opens
\* The others' reservations: the new rows are under other keys.
<1>12. /\ t.alert = None => /\ ActiveFor(t.probe) = {}
                            /\ \A v \in Workers : v # w /\ Inserts(tx[v]) => tx[v].probe # t.probe
       /\ Opens(t) => /\ OpenHolders(SignatureOf[t.probe]) = {}
                           /\ \A v \in Workers : v # w /\ Opens(tx[v]) =>
                                SignatureOf[tx[v].probe] # SignatureOf[t.probe]
  BY <1>1, <1>4 DEF CorrelationInv, AlertReserved, IncidentReserved
<1>13. TypeOK'
  <2>1. \A v \in Workers : /\ tx'[v].alert \in {None} \cup DOMAIN A
                           /\ tx'[v].incident \in {None} \cup DOMAIN J
    <3> TAKE v \in Workers
    <3>1. CASE v = w
      BY <1>8, <1>9, <1>10, <1>11, <3>1
    <3>2. CASE v # w
      BY <1>5, <1>9, <1>11, <3>2, TxFacts
    <3> QED
      BY <3>1, <3>2
  <2>2. sweep' \subseteq DOMAIN J
    BY <1>3, <1>5, <1>9
  <2> QED
    BY <1>3, <1>5, <1>6, <1>7, <1>8, <1>11, <2>1, <2>2 DEF TypeOK
<1>14. StageInv'
  <2>1. ASSUME NEW v \in Workers PROVE Own(tx[v])' /\ Stage(tx[v])'
    <3>1. CASE v = w
      <4>1. Own(tx[v])'
        BY <1>11, <3>1 DEF Own, Working
      <4>2. n.pc = "committed" => n.incident # None
        BY <1>8, <1>9, <1>10 DEF None
      <4>3. Stage(tx[v])'
        BY <1>10, <1>11, <3>1, <4>2 DEF Stage
      <4> QED
        BY <4>1, <4>3
    <3>2. CASE v # w
      <4>1. PICK u : u = tx[v]
        OBVIOUS
      <4>2. /\ Own(u) /\ Stage(u) /\ tx'[v] = u
            /\ u.alert # None => u.alert \in 1 .. Len(alerts)
            /\ u.incident # None => u.incident \in 1 .. Len(incidents)
        BY <1>5, <1>11, <3>2, <4>1, TxFacts
      <4>3. /\ u.alert # None => A[u.alert].probe = alerts[u.alert].probe
            /\ u.incident # None =>
                 J[u.incident].signature = incidents[u.incident].signature
        BY <1>7, <1>8, <4>2
      <4>4. Own(tx[v])'
        BY <1>6, <4>2, <4>3 DEF Own, Working
      <4>5. Stage(tx[v])'
        BY <4>2 DEF Stage
      <4> QED
        BY <4>4, <4>5
    <3> QED
      BY <3>1, <3>2
  <2> QED
    BY <2>1 DEF StageInv
<1>15. AlertReserved'
  <2>1. ASSUME NEW v \in Workers, Inserts(tx[v])'
        PROVE  v # w /\ Inserts(tx[v]) /\ tx'[v] = tx[v]
    <3>1. v # w
      BY <1>11, <2>1 DEF Inserts
    <3> QED
      BY <1>11, <2>1, <3>1 DEF Inserts
  <2>2. ASSUME NEW v \in Workers, Inserts(tx[v])', NEW b \in 1 .. Len(A),
               A[b].probe = tx'[v].probe, A[b].status # "resolved"
        PROVE  FALSE
    <3>1. v # w /\ Inserts(tx[v]) /\ tx'[v] = tx[v]
      BY <2>1, <2>2
    <3>2. ActiveFor(tx[v].probe) = {}
      BY <3>1 DEF CorrelationInv, AlertReserved
    <3>3. CASE b \in 1 .. Len(alerts)
      BY <1>5, <1>7, <2>2, <3>1, <3>2, <3>3 DEF ActiveFor, Active
    <3>4. CASE b = a /\ t.alert = None
      BY <1>7, <1>12, <2>2, <3>1, <3>4
    <3> QED
      BY <1>9, <3>3, <3>4
  <2>3. \A v \in Workers : Inserts(tx[v])' => ActiveFor(tx[v].probe)' = {}
    BY <1>6, <1>9, <2>2 DEF ActiveFor, Active
  <2> QED
    BY <2>1, <2>3 DEF CorrelationInv, AlertReserved
<1>16. OneActiveAlert'
  <2>1. ASSUME NEW b \in 1 .. Len(A), NEW c \in 1 .. Len(A), A[b].probe = A[c].probe,
               A[b].status # "resolved", A[c].status # "resolved"
        PROVE  b = c
    <3>1. CASE b \in 1 .. Len(alerts) /\ c \in 1 .. Len(alerts)
      BY <1>5, <1>7, <2>1, <3>1 DEF CorrelationInv, OneActiveAlert, Active
    <3>2. CASE b \in 1 .. Len(alerts) /\ c = a /\ t.alert = None
      BY <1>5, <1>7, <1>12, <2>1, <3>2 DEF ActiveFor, Active
    <3>3. CASE c \in 1 .. Len(alerts) /\ b = a /\ t.alert = None
      BY <1>5, <1>7, <1>12, <2>1, <3>3 DEF ActiveFor, Active
    <3> QED
      BY <1>9, <3>1, <3>2, <3>3
  <2> QED
    BY <1>6, <1>9, <2>1 DEF OneActiveAlert, Active
<1>17. IncidentReserved'
  <2>1. ASSUME NEW v \in Workers, Opens(tx[v])'
        PROVE  v # w /\ Opens(tx[v]) /\ tx'[v] = tx[v]
    <3>1. v # w
      BY <1>11, <2>1 DEF Opens
    <3> QED
      BY <1>11, <2>1, <3>1 DEF Opens
  <2>2. ASSUME NEW v \in Workers, Opens(tx[v])', NEW j \in 1 .. Len(J),
               J[j].signature = SignatureOf[tx'[v].probe], J[j].status = "open"
        PROVE  FALSE
    <3>1. v # w /\ Opens(tx[v]) /\ tx'[v] = tx[v]
      BY <2>1, <2>2
    <3>2. OpenHolders(SignatureOf[tx[v].probe]) = {}
      BY <3>1 DEF CorrelationInv, IncidentReserved
    <3>3. CASE j \in 1 .. Len(incidents)
      BY <1>5, <1>8, <2>2, <3>1, <3>2, <3>3 DEF OpenHolders
    <3>4. CASE j = i /\ Opens(t)
      BY <1>8, <1>12, <2>2, <3>1, <3>4
    <3> QED
      BY <1>9, <3>3, <3>4
  <2>3. \A v \in Workers : Opens(tx[v])' => OpenHolders(SignatureOf[tx[v].probe])' = {}
    BY <1>6, <1>9, <2>2 DEF OpenHolders
  <2> QED
    BY <2>1, <2>3 DEF CorrelationInv, IncidentReserved
<1>18. OneOpenIncident'
  <2>1. ASSUME NEW j \in 1 .. Len(J), NEW k \in 1 .. Len(J), J[j].signature = J[k].signature,
               J[j].status = "open", J[k].status = "open"
        PROVE  j = k
    <3>1. CASE j \in 1 .. Len(incidents) /\ k \in 1 .. Len(incidents)
      BY <1>5, <1>8, <2>1, <3>1 DEF CorrelationInv, OneOpenIncident
    <3>2. CASE j \in 1 .. Len(incidents) /\ k = i /\ Opens(t)
      BY <1>5, <1>8, <1>12, <2>1, <3>2 DEF OpenHolders
    <3>3. CASE k \in 1 .. Len(incidents) /\ j = i /\ Opens(t)
      BY <1>5, <1>8, <1>12, <2>1, <3>3 DEF OpenHolders
    <3> QED
      BY <1>9, <3>1, <3>2, <3>3
  <2> QED
    BY <1>6, <1>9, <2>1 DEF OneOpenIncident
<1>19. RoomInv'
  <2>1. /\ Inserters \in SUBSET Workers /\ Inserters' \in SUBSET Workers
        /\ Inserters \ {w} = Inserters' \ {w} /\ w \notin Inserters'
        /\ w \in Inserters <=> t.alert = None
    BY <1>4, <1>11 DEF Inserters, Inserts
  <2>2. /\ Openers \in SUBSET Workers /\ Openers' \in SUBSET Workers
        /\ Openers \ {w} = Openers' \ {w} /\ w \notin Openers'
        /\ w \in Openers <=> Opens(t)
    BY <1>4, <1>11 DEF Openers, Opens
  <2>3. /\ Cardinality(Inserters) \in Nat /\ Cardinality(Inserters') \in Nat
        /\ Cardinality(Inserters') = IF t.alert = None THEN Cardinality(Inserters) - 1
                                     ELSE Cardinality(Inserters)
    BY <2>1, CountWorkers
  <2>4. /\ Cardinality(Openers) \in Nat /\ Cardinality(Openers') \in Nat
        /\ Cardinality(Openers') = IF Opens(t) THEN Cardinality(Openers) - 1
                                   ELSE Cardinality(Openers)
    BY <2>2, CountWorkers
  <2>5. Len(A) + Cardinality(Inserters') <= MaxAlerts
    BY <1>5, <1>7, <2>3, Bounds DEF CorrelationInv, RoomInv
  <2>6. Len(J) + Cardinality(Openers') <= MaxIncidents
    BY <1>5, <1>8, <2>4, Bounds DEF CorrelationInv, RoomInv
  <2> QED
    BY <1>6, <2>5, <2>6 DEF RoomInv
<1>20. AnalysisInv'
  <2>1. ASSUME NEW v \in Workers, tx'[v].pc = "committed"
        PROVE  /\ v # w => tx[v].pc = "committed" /\ tx'[v] = tx[v] /\ tx'[v].incident # Len(incidents) + 1
               /\ v = w => tx'[v].incident = Len(incidents) + 1
               /\ rca[tx'[v].incident] = 0
    <3>1. CASE v # w
      <4>1. tx[v].pc = "committed" /\ tx'[v] = tx[v]
        BY <1>11, <2>1, <3>1
      <4>2. tx[v].incident \in 1 .. Len(incidents)
        BY <1>5, <4>1, TxFacts DEF Stage
      <4>3. tx[v].incident # Len(incidents) + 1
        BY <1>5, <4>2
      <4>4. rca[tx[v].incident] = 0
        BY <4>1 DEF CorrelationInv, AnalysisInv
      <4> QED
        BY <3>1, <4>1, <4>3, <4>4
    <3>2. CASE v = w
      <4>1. Opens(t) /\ tx'[v].incident = i /\ i = Len(incidents) + 1
        BY <1>8, <1>10, <1>11, <2>1, <3>2
      <4>2. i \in 1 .. MaxIncidents /\ i \notin 1 .. Len(incidents)
        BY <1>5, <1>8, <4>1, Bounds
      <4>3. rca[i] = 0
        BY <1>5, <4>2 DEF CorrelationInv, AnalysedOnce
      <4> QED
        BY <3>2, <4>1, <4>3
    <3> QED
      BY <3>1, <3>2
  <2> QED
    BY <1>3, <2>1 DEF CorrelationInv, AnalysisInv
<1>21. AnalysedOnce'
  BY <1>3, <1>5, <1>6, <1>9 DEF CorrelationInv, AnalysedOnce
<1>22. Grouped'
  <2>1. ASSUME NEW b \in 1 .. Len(A)
        PROVE  IF A[b].probe \in Located
               THEN /\ A[b].incident \in 1 .. Len(J)
                    /\ J[A[b].incident].signature = SignatureOf[A[b].probe]
               ELSE A[b].incident = None
    <3>1. CASE b = a
      BY <1>7, <1>8, <3>1
    <3>2. CASE b # a
      <4>1. /\ b \in 1 .. Len(alerts) /\ A[b].incident = alerts[b].incident
            /\ A[b].probe = alerts[b].probe
        BY <1>7, <1>9, <3>2
      <4>2. IF alerts[b].probe \in Located
            THEN /\ alerts[b].incident \in 1 .. Len(incidents)
                 /\ incidents[alerts[b].incident].signature = SignatureOf[alerts[b].probe]
            ELSE alerts[b].incident = None
        BY <1>5, <4>1 DEF CorrelationInv, Grouped
      <4> QED
        BY <1>8, <1>9, <4>1, <4>2
    <3> QED
      BY <3>1, <3>2
  <2> QED
    BY <1>6, <1>9, <2>1 DEF Grouped
<1> QED
  BY <1>3, <1>13, <1>14, <1>15, <1>16, <1>17, <1>18, <1>19, <1>20, <1>21, <1>22
  DEF CorrelationInv

LEMMA CorrelationStep == CorrelationInv /\ [Next]_vars => CorrelationInv'
<1> SUFFICES ASSUME CorrelationInv, [Next]_vars PROVE CorrelationInv'
  OBVIOUS
<1>1. CASE \E w \in Workers : Poll(w)
  <2>1. PICK w \in Workers : Poll(w)
    BY <1>1
  <2>2. CASE \E p \in Probes : Evaluate(w, p)
    BY <2>2, EvaluateKeeps
  <2>3. CASE Record(w)
    BY <2>3, RecordKeeps
  <2>4. CASE Open(w) \/ Join(w)
    BY <2>4, DecideKeeps
  <2>5. CASE CommitJoin(w) \/ CommitAlone(w)
    BY <2>5, CommitKeeps
  <2>6. CASE Trigger(w)
    BY <2>6, TriggerKeepsInv
  <2>7. CASE ClearAlert(w)
    BY <2>7, ClearKeeps
  <2>8. CASE CommitClear(w)
    BY <2>8, ClearedKeeps
  <2>9. CASE Abort(w)
    BY <2>9, AbortKeeps
  <2> QED
    BY <2>1, <2>2, <2>3, <2>4, <2>5, <2>6, <2>7, <2>8, <2>9 DEF Poll
<1>2. CASE SweepList \/ SweepClose
  BY <1>2, SweepKeeps
<1>3. CASE Operate
  BY <1>3, OperateKeeps
<1>4. CASE Tick \/ UNCHANGED vars
  BY <1>4, TickKeeps
<1> QED
  BY <1>1, <1>2, <1>3, <1>4 DEF Next

-----------------------------------------------------------------------------
(* The theorems.                                                           *)

\* The inductive invariant holds throughout: every transaction works on rows of
\* its own probe and signature, a key that is being inserted is free and has one
\* inserter (the unique indexes of the two tables), and the properties below.
THEOREM CorrelationInvariant == Spec => []CorrelationInv
<1>1. Init => CorrelationInv
  BY CorrelationInit
<1>2. CorrelationInv /\ [Next]_vars => CorrelationInv'
  BY CorrelationStep
<1> QED
  BY <1>1, <1>2, PTL DEF Spec

\* The tables and the transactions keep their types, and a transaction, an alert
\* and the sweep's list never name an incident or an alert that is not a row.
THEOREM TypeCorrect == Spec => []TypeOK
<1>1. CorrelationInv => TypeOK
  BY DEF CorrelationInv
<1> QED
  BY <1>1, CorrelationInvariant, PTL

\* A probe has one active alert at a time, however many pollers evaluate it at
\* once and although POST /alerts/{id}/acknowledge revives resolved alerts.
THEOREM OneActive == Spec => []OneActiveAlert
<1>1. CorrelationInv => OneActiveAlert
  BY DEF CorrelationInv
<1> QED
  BY <1>1, CorrelationInvariant, PTL

\* A signature has one open incident at a time: of the pollers that find none,
\* one inserts and the others join its incident (CorrelationEngine.correlate).
THEOREM OneOpen == Spec => []OneOpenIncident
<1>1. CorrelationInv => OneOpenIncident
  BY DEF CorrelationInv
<1> QED
  BY <1>1, CorrelationInvariant, PTL

\* Root-cause analysis is triggered for committed incidents only and for none of
\* them twice, wherever the collection run that drains its list is interrupted.
THEOREM AnalysedAtMostOnce == Spec => []AnalysedOnce
<1>1. CorrelationInv => AnalysedOnce
  BY DEF CorrelationInv
<1> QED
  BY <1>1, CorrelationInvariant, PTL

\* An alert with a device or a site is in an incident of its own signature from the
\* commit that makes it visible, whether it opened the incident, found it or lost
\* the race to insert it; an alert with neither never is (correlate).
THEOREM AlertsGrouped == Spec => []Grouped
<1>1. CorrelationInv => Grouped
  BY DEF CorrelationInv
<1> QED
  BY <1>1, CorrelationInvariant, PTL

\* A suppressed alert names another alert, of the root-cause category, that fired
\* no later if it is of that category too; and the suppression links never form a
\* cycle, whatever recomputations the members have been through.
THEOREM SuppressionOrdered == Spec => []SuppressedByEarlier
<1>1. CorrelationInv => SuppressedByEarlier
  BY DEF CorrelationInv
<1> QED
  BY <1>1, CorrelationInvariant, PTL

=============================================================================
