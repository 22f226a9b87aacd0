------------------------- MODULE NotificationProofs -------------------------
(***************************************************************************)
(* Proofs about IncidentNotices and about EmailOutbox, which sends what    *)
(* the email channel queues.                                               *)
(*                                                                         *)
(* For any number of incidents, channels and notification jobs, any batch  *)
(* and limit of attempts, however passes overlap and are lost: an email    *)
(* is queued twice for an incident and event only where an attempt had     *)
(* failed, and a channel that is posted to hears of an opening before it   *)
(* hears of the resolution.                                                *)
(*                                                                         *)
(* For any number of messages and mail jobs, any batch, limit of attempts  *)
(* and number of losses: a message arrives once more than jobs or answers  *)
(* were lost at most, and what is settled stays settled and is not sent    *)
(* again.                                                                  *)
(***************************************************************************)
EXTENDS IncidentNotices, EmailOutbox, TLAPS

-----------------------------------------------------------------------------
(* Keys and rows.                                                          *)

LEMMA KeyFacts ==
  ASSUME NEW k \in Keys
  PROVE  /\ Opening(k) \in Keys
         /\ Opening(k)[2] = k[2]
         /\ k[3] # "resolved" => Opening(k) = k
BY DEF Keys, Opening

LEMMA NoRowType == NoRow \in Rows /\ NoRows \in [Keys -> Rows] /\ \A k \in Keys : NoRows[k] = NoRow
<1>1. NoRow \in Rows
  BY NoticesAssumption DEF NoticesAssumption, NoRow, Rows
<1> QED
  BY <1>1 DEF NoRows

\* A row without a status has no attempt.
Clean(r) == r.status = "none" => r = NoRow

\* Column by column, what a pass leaves of a row.
Merge(now, old, new) == [f \in DOMAIN new |-> IF new[f] = old[f] THEN now[f] ELSE new[f]]

LEMMA MergeRow ==
  ASSUME NEW now \in Rows, NEW old \in Rows, NEW new \in Rows
  PROVE  /\ Merge(now, old, new) \in Rows
         /\ Merge(now, old, new).status =
              IF new.status = old.status THEN now.status ELSE new.status
         /\ Merge(now, old, new).tries =
              IF new.tries = old.tries THEN now.tries ELSE new.tries
<1> DEFINE m == Merge(now, old, new)
<1>1. DOMAIN new = {"status", "tries"}
  BY DEF Rows
<1>2. m = [status |-> m.status, tries |-> m.tries]
  BY <1>1 DEF Merge
<1>3. m.status = (IF new.status = old.status THEN now.status ELSE new.status)
      /\ m.tries = (IF new.tries = old.tries THEN now.tries ELSE new.tries)
  BY <1>1 DEF Merge
<1> HIDE DEF m
<1>4. m = [status |-> IF new.status = old.status THEN now.status ELSE new.status,
           tries |-> IF new.tries = old.tries THEN now.tries ELSE new.tries]
  BY <1>2, <1>3
<1>5. m \in Rows
  BY <1>4 DEF Rows
<1> QED
  BY <1>3, <1>5 DEF m

-----------------------------------------------------------------------------
(* The inductive invariant.                                                *)

Passes == [pc: {"idle", "telling"}, left: SUBSET Keys, read: [Keys -> Rows],
           rows: [Keys -> Rows], mails: SUBSET Keys]

\* What a pass knows of a key.
PassOf(p, k) ==
  /\ Clean(p.read[k])
  /\ Clean(p.rows[k])
  /\ p.rows[k].status = "none" => p.read[k].status = "none"
  /\ p.read[k].status # "none" => notice[k].status # "none"
  /\ p.read[k].status = "sent" => p.rows[k].status = "sent"
  /\ k[2] # "email" /\ p.rows[k].status = "sent" => k \in told
  /\ p.read[k].status # "none" => p.read[k].tries > 0
  /\ p.rows[k] = p.read[k] \/ p.rows[k].tries > p.read[k].tries
  /\ k \in p.mails => /\ k[2] = "email"
                      /\ p.rows[k].status = "sent"
                      /\ p.read[k].status # "sent"
                      /\ p.rows[k].tries > p.read[k].tries

\* What is committed of a key.
RowOf(k) ==
  /\ Clean(notice[k])
  /\ k[2] # "email" /\ notice[k].status = "sent" => k \in told
  /\ notice[k].status # "none" => notice[k].tries > 0
  /\ emails[k] > 0 => notice[k].status # "none"
  /\ emails[k] > 1 => notice[k].tries > 1

NoticeInv ==
  /\ TypeOK
  /\ \A k \in Keys : RowOf(k)
  /\ \A d \in Dispatchers, k \in Keys : PassOf(pass[d], k)
  /\ ResolvedAfterOpened

LEMMA RestingFacts ==
  /\ Resting \in Passes
  /\ \A k \in Keys : PassOf(Resting, k)
<1>1. Resting \in Passes
  BY NoRowType DEF Resting, Passes
<1>2. ASSUME NEW k \in Keys PROVE PassOf(Resting, k)
  <2>1. Resting.read[k] = NoRow /\ Resting.rows[k] = NoRow /\ Resting.mails = {}
    BY NoRowType DEF Resting
  <2>2. NoRow.status = "none"
    BY DEF NoRow
  <2> QED
    BY <2>1, <2>2 DEF PassOf, Clean
<1> QED
  BY <1>1, <1>2

LEMMA NoticeInit == Init => NoticeInv
<1> SUFFICES ASSUME Init PROVE NoticeInv
  OBVIOUS
<1>1. TypeOK
  BY NoRowType, RestingFacts DEF Init, TypeOK, Passes
<1>2. ASSUME NEW k \in Keys PROVE RowOf(k)
  BY <1>2, NoRowType DEF Init, RowOf, Clean, NoRow
<1>3. \A d \in Dispatchers, k \in Keys : PassOf(pass[d], k)
  BY RestingFacts DEF Init
<1> QED
  BY <1>1, <1>2, <1>3 DEF NoticeInv, Init, ResolvedAfterOpened

-----------------------------------------------------------------------------
(* The steps.                                                              *)

\* A step of one pass that commits nothing.
LEMMA PassKeeps ==
  ASSUME NoticeInv, NEW d \in Dispatchers, NEW new \in Passes,
         pass' = [pass EXCEPT ![d] = new],
         told \subseteq told', told' \subseteq Keys,
         UNCHANGED <<incident, notice, emails>>,
         \A k \in told' : k \in told \/ Opening(k) \in told',
         \A k \in Keys : PassOf(new, k)'
  PROVE  NoticeInv'
<1>1. TypeOK'
  BY DEF NoticeInv, TypeOK, Passes
<1>2. \A k \in Keys : RowOf(k)'
  BY DEF NoticeInv, RowOf
<1>3. ASSUME NEW e \in Dispatchers, NEW k \in Keys PROVE PassOf(pass[e], k)'
  <2>1. CASE e = d
    <3>1. pass'[e] = new
      BY <2>1 DEF NoticeInv, TypeOK
    <3> QED
      BY <3>1 DEF PassOf
  <2>2. CASE e # d
    <3>1. pass'[e] = pass[e]
      BY <2>2 DEF NoticeInv, TypeOK
    <3> QED
      BY <3>1 DEF NoticeInv, PassOf
  <2> QED
    BY <2>1, <2>2
<1>4. ResolvedAfterOpened'
  BY DEF NoticeInv, ResolvedAfterOpened
<1> QED
  BY <1>1, <1>2, <1>3, <1>4 DEF NoticeInv

LEMMA StartKeeps ==
  ASSUME NoticeInv, NEW d \in Dispatchers, StartPass(d)
  PROVE  NoticeInv'
<1>0. PICK seen : seen = [k \in Keys |-> IF k[1] \in Found THEN notice[k] ELSE NoRow]
  OBVIOUS
<1>p. PICK new : new =
        [pc |-> "telling", read |-> seen, rows |-> seen, mails |-> {},
         left |-> {k \in Keys : /\ k[1] \in Found
                                /\ k[3] = "resolved" => incident[k[1]] = "resolved"}]
  OBVIOUS
<1>1. pass' = [pass EXCEPT ![d] = new] /\ UNCHANGED <<incident, notice, emails, told>>
  BY <1>0, <1>p DEF StartPass
<1>2. seen \in [Keys -> Rows]
  BY <1>0, NoRowType DEF NoticeInv, TypeOK
<1>3. new \in Passes
  BY <1>2, <1>p DEF Passes
<1>4. ASSUME NEW k \in Keys PROVE PassOf(new, k)'
  <2>1. new.read[k] = seen[k] /\ new.rows[k] = seen[k] /\ new.mails = {}
    BY <1>p
  <2>2. seen[k] = notice[k] \/ seen[k] = NoRow
    BY <1>0
  <2>3. NoRow.status = "none"
    BY DEF NoRow
  <2>4. RowOf(k)
    BY DEF NoticeInv
  <2> QED
    BY <1>1, <2>1, <2>2, <2>3, <2>4 DEF RowOf, PassOf, Clean
<1> QED
  BY <1>1, <1>3, <1>4, PassKeeps DEF NoticeInv, TypeOK

LEMMA DeliverKeeps ==
  ASSUME NoticeInv, NEW d \in Dispatchers, NEW k \in Keys,
         NEW how \in Outcomes, NEW reached \in BOOLEAN, Deliver(d, k, how, reached)
  PROVE  NoticeInv'
<1>p. PICK p : p = pass[d]
  OBVIOUS
<1> DEFINE new == Delivered(p, k, how)
           result == [status |-> IF how = "sent" THEN "sent" ELSE "failed",
                      tries |-> IF how = "disabled" THEN MaxTries ELSE p.rows[k].tries + 1]
<1>1. p \in Passes /\ PassOf(p, k) /\ pass' = [pass EXCEPT ![d] = new]
  BY <1>p DEF NoticeInv, TypeOK, Passes, Deliver
<1>2. p.rows[k] \in Rows /\ p.rows[k].status # "sent" /\ p.rows[k].tries < MaxTries
  BY <1>1, <1>p DEF Deliver, IsNext, Owed, IsOwed, Passes
<1>3. result \in Rows /\ result.tries > p.rows[k].tries
  BY <1>2, NoticesAssumption DEF NoticesAssumption, Rows
<1>4. new.rows = [p.rows EXCEPT ![k] = result] /\ new.read = p.read
      /\ new.mails = IF k[2] = "email" /\ how = "sent" THEN p.mails \cup {k} ELSE p.mails
  BY DEF Delivered
<1>5. new \in Passes
  <2>1. new.rows \in [Keys -> Rows]
    BY <1>1, <1>3, <1>4 DEF Passes
  <2> QED
    BY <1>1, <1>4, <2>1 DEF Passes, Delivered
<1>6. told \subseteq told' /\ told' \subseteq Keys /\ UNCHANGED <<incident, notice, emails>>
  BY DEF Deliver, NoticeInv, TypeOK
<1>8. k[2] # "email" /\ how = "sent" => k \in told'
  BY DEF Deliver
<1>11. \A x \in told' : x \in told \/ Opening(x) \in told'
  <2>1. ASSUME k[2] # "email" PROVE k[3] = "resolved" => Opening(k) \in told
    <3>1. k[3] = "resolved" => p.rows[Opening(k)].status = "sent"
      BY <1>p DEF Deliver, IsNext, Owed, IsOwed
    <3>2. Opening(k) \in Keys /\ Opening(k)[2] # "email"
      BY <2>1, KeyFacts
    <3>3. PassOf(p, Opening(k))
      BY <1>p, <3>2 DEF NoticeInv
    <3> QED
      BY <3>1, <3>2, <3>3 DEF PassOf
  <2>2. told' = told \/ (told' = told \cup {k} /\ k[2] # "email")
    BY DEF Deliver
  <2> QED
    BY <1>6, <2>1, <2>2, KeyFacts
<1> HIDE DEF new
<1>9. PassOf(new, k)'
  <2>1. new.rows[k] = result
    BY <1>1, <1>4 DEF Passes
  <2>2. /\ result.status = (IF how = "sent" THEN "sent" ELSE "failed")
        /\ result.tries > p.rows[k].tries
    BY <1>3
  <2> HIDE DEF result
  <2>3. Clean(new.rows[k]) /\ new.rows[k].status # "none"
    BY <2>1, <2>2 DEF Clean
  <2>4. new.read[k].status # "none" => notice'[k].status # "none"
    BY <1>1, <1>4, <1>6 DEF PassOf
  <2>5. Clean(new.read[k])
    BY <1>1, <1>4 DEF PassOf
  <2>6. /\ new.read[k].status # "none" => new.read[k].tries > 0
        /\ new.rows[k].tries > new.read[k].tries
    <3>1. p.read[k] \in Rows /\ new.rows[k] \in Rows
      BY <1>1, <1>3, <2>1 DEF Passes
    <3>2. p.rows[k].tries >= p.read[k].tries
      BY <1>1, <1>2, <3>1, NoticesAssumption DEF PassOf, Rows, NoticesAssumption
    <3> QED
      BY <1>1, <1>2, <1>4, <2>1, <2>2, <3>1, <3>2, NoticesAssumption
      DEF PassOf, Rows, NoticesAssumption
  <2>10. new.read[k].status # "sent"
    BY <1>1, <1>2, <1>4 DEF PassOf
  <2>9. k \in new.mails => k[2] = "email" /\ new.rows[k].status = "sent"
    <3>1. k \notin p.mails
      BY <1>1, <1>2 DEF PassOf
    <3> QED
      BY <1>4, <2>1, <2>2, <3>1
  <2>7. k[2] # "email" => k \notin new.mails
    BY <1>1, <1>4 DEF PassOf
  <2>8. k[2] # "email" /\ new.rows[k].status = "sent" => k \in told'
    BY <1>8, <2>1, <2>2
  <2> QED
    BY <1>4, <2>3, <2>4, <2>5, <2>6, <2>7, <2>8, <2>9, <2>10 DEF PassOf
<1>10. ASSUME NEW x \in Keys, x # k PROVE PassOf(new, x)'
  <2>1. new.rows[x] = p.rows[x] /\ (x \in new.mails => x \in p.mails)
    BY <1>1, <1>4, <1>10 DEF Passes
  <2>2. PassOf(p, x)
    BY <1>p DEF NoticeInv
  <2> QED
    BY <1>4, <1>6, <2>1, <2>2 DEF PassOf
<1> QED
  BY <1>1, <1>5, <1>6, <1>9, <1>10, <1>11, PassKeeps

\* What a commit leaves of a result.
LEMMA KeptRow ==
  ASSUME NoticeInv, NEW d \in Dispatchers, NEW k \in Keys
  PROVE  /\ Kept(d, k) \in Rows
         /\ Clean(Kept(d, k))
         /\ notice[k].status # "none" => Kept(d, k).status # "none"
         /\ k[2] # "email" /\ Kept(d, k).status = "sent" => k \in told
         /\ Kept(d, k).status # "none" => Kept(d, k).tries > 0
         /\ \/ Kept(d, k).tries = notice[k].tries /\ k \notin pass[d].mails
            \/ /\ pass[d].rows[k] # NoRow
               /\ pass[d].read[k] = NoRow \/ Kept(d, k).tries > 1
         /\ k \in pass[d].mails => Kept(d, k).status = "sent"
<1> DEFINE now == notice[k]
           old == pass[d].read[k]
           new == pass[d].rows[k]
<1>1. now \in Rows /\ old \in Rows /\ new \in Rows
  BY DEF NoticeInv, TypeOK
<1>2. RowOf(k) /\ PassOf(pass[d], k)
  BY DEF NoticeInv
<1>3. Kept(d, k) = Merge(now, old, new)
  BY DEF Kept, Merge
<1>4. Kept(d, k) \in Rows
      /\ Kept(d, k).status = (IF new.status = old.status THEN now.status ELSE new.status)
      /\ Kept(d, k).tries = (IF new.tries = old.tries THEN now.tries ELSE new.tries)
      /\ Kept(d, k) = [status |-> Kept(d, k).status, tries |-> Kept(d, k).tries]
  <2>1. Kept(d, k) \in Rows
    BY <1>1, <1>3, MergeRow
  <2>2. Kept(d, k).status = (IF new.status = old.status THEN now.status ELSE new.status)
    BY <1>1, <1>3, MergeRow
  <2>3. Kept(d, k).tries = (IF new.tries = old.tries THEN now.tries ELSE new.tries)
    BY <1>1, <1>3, MergeRow
  <2> QED
    BY <2>1, <2>2, <2>3 DEF Rows
<1>5. new.status = "none" => old.status = "none"
  BY <1>2 DEF PassOf
<1>6. Kept(d, k).status = "none" => new = NoRow /\ old = NoRow /\ now = NoRow
  BY <1>2, <1>4, <1>5 DEF PassOf, RowOf, Clean
<1>7. Clean(Kept(d, k))
  <2>1. NoRow = [status |-> NoRow.status, tries |-> NoRow.tries]
    BY DEF NoRow
  <2>2. ASSUME Kept(d, k).status = "none" PROVE Kept(d, k) = NoRow
    BY <1>4, <1>6, <2>1, <2>2
  <2> QED
    BY <2>2 DEF Clean
<1>8. now.status # "none" => Kept(d, k).status # "none"
  BY <1>6 DEF NoRow
<1>9. k[2] # "email" /\ Kept(d, k).status = "sent" => k \in told
  BY <1>2, <1>4 DEF RowOf, PassOf
<1>10. k \in pass[d].mails => Kept(d, k).status = "sent"
  BY <1>2, <1>4 DEF PassOf
<1>11. CASE new = old
  <2>1. Kept(d, k).tries = now.tries /\ Kept(d, k).status = now.status
    BY <1>4, <1>11
  <2>2. k \notin pass[d].mails
    BY <1>1, <1>2, <1>11 DEF PassOf, Rows
  <2> QED
    BY <1>2, <1>4, <1>7, <1>8, <1>9, <1>10, <2>1, <2>2 DEF RowOf
<1>12. CASE new.tries > old.tries
  <2>1. Kept(d, k).tries = new.tries /\ new.tries > 0
    BY <1>1, <1>4, <1>12 DEF Rows
  <2>2. new # NoRow
    BY <1>1, <2>1 DEF NoRow
  <2>3. old = NoRow \/ new.tries > 1
    BY <1>1, <1>2, <1>12 DEF PassOf, Clean, Rows
  <2> QED
    BY <1>4, <1>7, <1>8, <1>9, <1>10, <2>1, <2>2, <2>3
<1>13. new = old \/ new.tries > old.tries
  BY <1>2 DEF PassOf
<1> QED
  BY <1>11, <1>12, <1>13

LEMMA EndKeeps ==
  ASSUME NoticeInv, NEW d \in Dispatchers, EndPass(d)
  PROVE  NoticeInv'
<1>1. pass' = [pass EXCEPT ![d] = Resting] /\ UNCHANGED <<incident, told>>
  BY DEF EndPass
<1>2. CASE Collides(d)
  <2>1. UNCHANGED <<incident, notice, emails, told>>
    BY <1>2 DEF EndPass
  <2>2. \A k \in Keys : PassOf(Resting, k)'
    BY <2>1, RestingFacts DEF PassOf
  <2> QED
    BY <1>1, <2>1, <2>2, RestingFacts, PassKeeps DEF NoticeInv, TypeOK
<1>3. CASE ~ Collides(d)
  <2>1. /\ notice' = [k \in Keys |-> Kept(d, k)]
        /\ emails' = [k \in Keys |-> IF k \in pass[d].mails THEN Another(emails[k]) ELSE emails[k]]
    BY <1>3 DEF EndPass
  <2>2. ASSUME NEW k \in Keys
        PROVE  /\ notice'[k] \in Rows /\ Clean(notice'[k])
               /\ notice[k].status # "none" => notice'[k].status # "none"
               /\ k[2] # "email" /\ notice'[k].status = "sent" => k \in told
               /\ notice'[k].status # "none" => notice'[k].tries > 0
               /\ \/ notice'[k].tries = notice[k].tries /\ k \notin pass[d].mails
                  \/ /\ pass[d].rows[k] # NoRow
                     /\ pass[d].read[k] = NoRow \/ notice'[k].tries > 1
               /\ k \in pass[d].mails => notice'[k].status = "sent"
    BY <2>1, KeptRow
  <2>3. TypeOK'
    <3>1. notice' \in [Keys -> Rows]
      BY <2>1, <2>2
    <3>2. emails' \in [Keys -> 0 .. 2]
      BY <2>1 DEF NoticeInv, TypeOK, Another
    <3>3. pass' \in [Dispatchers -> Passes]
      BY <1>1, RestingFacts DEF NoticeInv, TypeOK, Passes
    <3> QED
      BY <1>1, <3>1, <3>2, <3>3 DEF NoticeInv, TypeOK, Passes
  <2>4. ASSUME NEW k \in Keys PROVE RowOf(k)'
    <3>1. RowOf(k) /\ PassOf(pass[d], k) /\ emails[k] \in 0 .. 2
      BY DEF NoticeInv, TypeOK
    <3>2. emails'[k] = IF k \in pass[d].mails THEN Another(emails[k]) ELSE emails[k]
      BY <2>1
    <3>3. emails'[k] > 0 => notice'[k].status # "none"
      BY <2>2, <3>1, <3>2 DEF RowOf
    <3>4. emails'[k] > 1 => notice'[k].tries > 1
      <4>1. CASE notice'[k].tries = notice[k].tries /\ k \notin pass[d].mails
        BY <3>1, <3>2, <4>1 DEF RowOf
      <4>2. CASE pass[d].rows[k] # NoRow /\ pass[d].read[k] = NoRow
        <5>1. notice[k] = NoRow
          BY <1>3, <4>2 DEF Collides
        <5>2. emails[k] = 0
          BY <3>1, <5>1 DEF RowOf, NoRow
        <5> QED
          BY <3>2, <5>2 DEF Another
      <4>3. CASE notice'[k].tries > 1
        BY <4>3
      <4> QED
        BY <2>2, <4>1, <4>2, <4>3
    <3> QED
      BY <1>1, <2>2, <3>3, <3>4 DEF RowOf
  <2>5. ASSUME NEW e \in Dispatchers, NEW k \in Keys PROVE PassOf(pass[e], k)'
    <3>1. CASE e = d
      <4>1. pass'[e] = Resting
        BY <1>1, <3>1 DEF NoticeInv, TypeOK
      <4>2. PassOf(Resting, k)
        BY RestingFacts
      <4>3. Resting.read[k].status = "none"
        BY NoRowType DEF Resting, NoRow
      <4> QED
        BY <1>1, <4>1, <4>2, <4>3 DEF PassOf
    <3>2. CASE e # d
      <4>1. pass'[e] = pass[e]
        BY <1>1, <3>2 DEF NoticeInv, TypeOK
      <4>2. PassOf(pass[e], k)
        BY DEF NoticeInv
      <4> QED
        BY <1>1, <2>2, <4>1, <4>2 DEF PassOf
    <3> QED
      BY <3>1, <3>2
  <2>6. ResolvedAfterOpened'
    BY <1>1 DEF NoticeInv, ResolvedAfterOpened
  <2> QED
    BY <2>3, <2>4, <2>5, <2>6 DEF NoticeInv
<1> QED
  BY <1>2, <1>3

LEMMA NoticeStep == NoticeInv /\ [Next]_vars => NoticeInv'
<1> SUFFICES ASSUME NoticeInv, [Next]_vars PROVE NoticeInv'
  OBVIOUS
<1>1. ASSUME NEW i \in Incidents, OpenIncident(i) \/ ResolveIncident(i) \/ LeaveWindow(i)
      PROVE  NoticeInv'
  <2>1. UNCHANGED <<notice, emails, told, pass>>
    BY <1>1 DEF OpenIncident, ResolveIncident, LeaveWindow
  <2>2. incident' \in [Incidents -> {"unknown", "open", "resolved", "past"}]
    BY <1>1 DEF OpenIncident, ResolveIncident, LeaveWindow, NoticeInv, TypeOK
  <2> QED
    BY <2>1, <2>2 DEF NoticeInv, TypeOK, RowOf, PassOf, ResolvedAfterOpened
<1>2. ASSUME NEW d \in Dispatchers, LosePass(d) PROVE NoticeInv'
  <2>1. pass' = [pass EXCEPT ![d] = Resting] /\ UNCHANGED <<incident, notice, emails, told>>
    BY <1>2 DEF LosePass
  <2>2. \A k \in Keys : PassOf(Resting, k)'
    BY <2>1, RestingFacts DEF PassOf
  <2> QED
    BY <2>1, <2>2, RestingFacts, PassKeeps DEF NoticeInv, TypeOK
<1>3. CASE UNCHANGED vars
  BY <1>3 DEF vars, NoticeInv, TypeOK, RowOf, PassOf, ResolvedAfterOpened
<1>4. ASSUME NEW d \in Dispatchers, Tell(d) PROVE NoticeInv'
  <2>1. Owed(d) \subseteq Keys
    BY DEF Owed, NoticeInv, TypeOK
  <2>2. PICK k \in Keys, how \in Outcomes, reached \in BOOLEAN : Deliver(d, k, how, reached)
    BY <1>4, <2>1 DEF Tell
  <2> QED
    BY <2>2, DeliverKeeps
<1> QED
  BY <1>1, <1>2, <1>3, <1>4, StartKeeps, EndKeeps DEF Next

-----------------------------------------------------------------------------
(* Theorems.                                                               *)

\* However passes overlap, collide and are lost, rows, counts and
\* transactions keep their types, and nothing is tried beyond MAX_ATTEMPTS.
THEOREM TypeCorrect == Spec => []TypeOK
<1>1. NoticeInv => TypeOK
  BY DEF NoticeInv
<1> QED
  BY <1>1, NoticeInit, NoticeStep, PTL DEF Spec

\* However passes of several processes overlap, are lost and repeat, an email is
\* queued twice for an incident and event only where an attempt had failed
\* (dispatcher.py: one transaction, one unique row, but a row is updated twice).
THEOREM OneEmailEach == Spec => []OneEmail
<1>1. NoticeInv => OneEmail
  BY DEF NoticeInv, RowOf, OneEmail
<1> QED
  BY <1>1, NoticeInit, NoticeStep, PTL DEF Spec

\* A channel that is posted to hears of an opening before it hears of the
\* resolution, whatever posts fail although they were made.
THEOREM OpeningFirst == Spec => []ResolvedAfterOpened
<1>1. NoticeInv => ResolvedAfterOpened
  BY DEF NoticeInv
<1> QED
  BY <1>1, NoticeInit, NoticeStep, PTL DEF Spec

-----------------------------------------------------------------------------
(* The outbox: its inductive invariant.                                    *)

\* A job locks rows that are queued, and no row is locked twice.
LockInv ==
  /\ \A w \in Mailers : holds[w] \subseteq Queued
  /\ \A w, v \in Mailers : w # v => holds[w] \cap holds[v] = {}

\* Only a row that a job has locked has an outcome.
OutcomeInv == \A w \in Mailers, m \in Messages : outcome[w][m] # "none" => m \in holds[w]

\* A row that can still be sent has an attempt left.
AttemptInv == \A m \in Messages :
  row[m].status \in {"none", "queued"} => row[m].attempts < MaxAttempts

\* Some job has sent m and has not committed that.
Pending(m) == \E w \in Mailers : outcome[w][m] = "accepted"

\* What arrived beyond the losses is a message that is sent or pending.
ArrivedInv == \A m \in Messages :
  /\ arrived[m] <= 1 + losses
  /\ row[m].status \in {"none", "queued"} /\ ~ Pending(m) => arrived[m] <= losses

OutboxInv == MailTypeOK /\ LockInv /\ OutcomeInv /\ AttemptInv /\ ArrivedInv

LEMMA OutboxInit == MailInit => OutboxInv
<1> SUFFICES ASSUME MailInit PROVE OutboxInv
  OBVIOUS
<1>1. MailTypeOK /\ AttemptInv
  BY OutboxAssumption DEF OutboxAssumption, MailInit, MailTypeOK, AttemptInv, NoMessage
<1>2. LockInv /\ OutcomeInv /\ ArrivedInv
  BY OutboxAssumption DEF OutboxAssumption, MailInit, LockInv, OutcomeInv, ArrivedInv
<1> QED
  BY <1>1, <1>2 DEF OutboxInv

-----------------------------------------------------------------------------
(* A request queues a message.                                             *)

LEMMA EnqueueKeeps ==
  ASSUME OutboxInv, NEW m \in Messages, Enqueue(m)
  PROVE  OutboxInv'
<1> USE DEF OutboxInv
<1>1. row'[m] = [status |-> "queued", attempts |-> 0] /\ row[m].status = "none"
      /\ \A x \in Messages : x # m => row'[x] = row[x]
  BY DEF Enqueue, MailTypeOK, NoMessage
<1>2. row' \in [Messages -> [status: {"none", "queued", "sent", "failed"},
                             attempts: 0 .. MaxAttempts]]
  <2>1. [status |-> "queued", attempts |-> 0] \in
          [status: {"none", "queued", "sent", "failed"}, attempts: 0 .. MaxAttempts]
    BY OutboxAssumption DEF OutboxAssumption
  <2>2. row' = [row EXCEPT ![m] = [status |-> "queued", attempts |-> 0]]
    BY <1>1 DEF Enqueue, MailTypeOK
  <2> QED
    BY <2>1, <2>2 DEF MailTypeOK
<1>3. MailTypeOK'
  BY <1>2 DEF Enqueue, MailTypeOK
<1>4. Queued \subseteq Queued'
  BY <1>1 DEF Queued
<1>5. LockInv' /\ OutcomeInv'
  BY <1>4 DEF Enqueue, LockInv, OutcomeInv
<1>6. AttemptInv'
  BY <1>1, OutboxAssumption DEF OutboxAssumption, AttemptInv
<1>7. ArrivedInv'
  BY <1>1 DEF Enqueue, ArrivedInv, Pending
<1> QED
  BY <1>3, <1>5, <1>6, <1>7

-----------------------------------------------------------------------------
(* A job locks a batch.                                                    *)

LEMMA ClaimKeeps ==
  ASSUME OutboxInv, NEW w \in Mailers, Claim(w)
  PROVE  OutboxInv'
<1> USE DEF OutboxInv
<1>1. PICK due \in SUBSET Claimable : holds' = [holds EXCEPT ![w] = due]
  BY DEF Claim
<1>2. due \subseteq Queued /\ \A v \in Mailers : due \cap holds[v] = {}
  BY DEF Claimable, Locked
<1>3. holds[w] = {} /\ UNCHANGED <<row, outcome, arrived, losses>>
  BY DEF Claim
<1>4. MailTypeOK'
  BY <1>1, <1>2, <1>3 DEF MailTypeOK, Queued
<1>5. LockInv'
  BY <1>1, <1>2, <1>3 DEF LockInv, MailTypeOK, Queued
<1>6. OutcomeInv'
  BY <1>1, <1>3 DEF OutcomeInv, MailTypeOK
<1>7. AttemptInv' /\ ArrivedInv'
  BY <1>3 DEF AttemptInv, ArrivedInv, Pending
<1> QED
  BY <1>4, <1>5, <1>6, <1>7

-----------------------------------------------------------------------------
(* A job sends a message.                                                  *)

\* No job has an outcome of a message that a job is about to send.
LEMMA NextIsFresh ==
  ASSUME OutboxInv, NEW w \in Mailers, NEW m \in Messages, IsNextMessage(w, m)
  PROVE  /\ ~ Pending(m)
         /\ row[m].status = "queued"
         /\ arrived[m] <= losses
<1> USE DEF OutboxInv
<1>1. m \in holds[w] /\ outcome[w][m] = "none"
  BY DEF IsNextMessage
<1>2. row[m].status = "queued"
  BY <1>1 DEF LockInv, Queued
<1>3. ASSUME NEW v \in Mailers PROVE outcome[v][m] = "none"
  BY <1>1, <1>3 DEF LockInv, OutcomeInv
<1> QED
  BY <1>2, <1>3 DEF Pending, ArrivedInv

LEMMA SendKeeps ==
  ASSUME OutboxInv, NEW w \in Mailers, NEW m \in Messages,
         SendUnanswered(w, m) \/ \E ok \in BOOLEAN : Send(w, m, ok)
  PROVE  OutboxInv'
<1> USE DEF OutboxInv
<1>1. IsNextMessage(w, m) /\ UNCHANGED <<row, holds>>
  BY DEF Send, SendUnanswered
<1>2. ~ Pending(m) /\ arrived[m] <= losses /\ m \in holds[w]
  BY <1>1, NextIsFresh DEF IsNextMessage
<1>3. PICK result \in {"accepted", "refused"} :
        outcome' = [outcome EXCEPT ![w][m] = result]
  BY DEF Send, SendUnanswered
<1>4. /\ arrived' \in [Messages -> Nat]
      /\ losses' \in 0 .. MaxLosses /\ losses <= losses'
      /\ \A x \in Messages : x # m => arrived'[x] = arrived[x]
  BY OutboxAssumption DEF OutboxAssumption, Send, SendUnanswered, MailTypeOK
<1>5. arrived'[m] <= losses' \/ (result = "accepted" /\ arrived'[m] <= 1 + losses')
  <2>1. CASE SendUnanswered(w, m)
    BY <1>2, <2>1 DEF SendUnanswered, MailTypeOK
  <2>2. CASE \E ok \in BOOLEAN : Send(w, m, ok)
    <3>1. PICK ok \in BOOLEAN : Send(w, m, ok)
      BY <2>2
    <3>2. CASE ok
      <4>1. arrived'[m] = arrived[m] + 1 /\ losses' = losses
        BY <3>1, <3>2 DEF Send, MailTypeOK
      <4>2. outcome'[w][m] = "accepted"
        BY <3>1, <3>2 DEF Send, MailTypeOK
      <4>3. result = "accepted"
        BY <1>3, <4>2 DEF MailTypeOK
      <4> QED
        BY <1>2, <4>1, <4>3 DEF MailTypeOK
    <3>3. CASE ~ ok
      BY <1>2, <3>1, <3>3 DEF Send, MailTypeOK
    <3> QED
      BY <3>2, <3>3
  <2> QED
    BY <2>1, <2>2
<1>6. outcome' \in [Mailers -> [Messages -> {"none", "accepted", "refused"}]]
      /\ outcome'[w][m] = result
      /\ \A v \in Mailers, x \in Messages :
           v # w \/ x # m => outcome'[v][x] = outcome[v][x]
  BY <1>3 DEF MailTypeOK
<1>7. MailTypeOK'
  BY <1>1, <1>4, <1>6 DEF MailTypeOK
<1>8. LockInv' /\ AttemptInv'
  BY <1>1 DEF LockInv, AttemptInv, Queued
<1>9. OutcomeInv'
  BY <1>1, <1>2, <1>6 DEF OutcomeInv
<1>10. ArrivedInv'
  <2>1. ASSUME NEW x \in Messages, x # m
        PROVE  /\ arrived'[x] <= 1 + losses'
               /\ row'[x].status \in {"none", "queued"} /\ ~ Pending(x)' => arrived'[x] <= losses'
    <3>1. Pending(x)' <=> Pending(x)
      BY <1>6, <2>1 DEF Pending
    <3>2. arrived'[x] = arrived[x] /\ arrived[x] \in Nat /\ losses \in Nat /\ losses' \in Nat
      BY <1>4, <2>1, OutboxAssumption DEF MailTypeOK, OutboxAssumption
    <3> QED
      BY <1>1, <1>4, <3>1, <3>2 DEF ArrivedInv
  <2>2. arrived'[m] <= 1 + losses' /\ (~ Pending(m)' => arrived'[m] <= losses')
    <3>1. result = "accepted" => Pending(m)'
      BY <1>6 DEF Pending
    <3>2. arrived'[m] \in Nat /\ losses' \in Nat
      BY <1>4, OutboxAssumption DEF OutboxAssumption
    <3> QED
      BY <1>5, <3>1, <3>2
  <2> QED
    BY <2>1, <2>2 DEF ArrivedInv
<1> QED
  BY <1>7, <1>8, <1>9, <1>10

-----------------------------------------------------------------------------
(* A job ends.                                                             *)

\* A job that leaves its rows, with what it has sent committed or counted as lost.
LEMMA UnlockKeeps ==
  ASSUME OutboxInv, NEW w \in Mailers, Unlocked(w)
  PROVE  /\ \A v \in Mailers : holds'[v] = IF v = w THEN {} ELSE holds[v]
         /\ \A v \in Mailers, m \in Messages :
              outcome'[v][m] = IF v = w THEN "none" ELSE outcome[v][m]
         /\ holds' \in [Mailers -> SUBSET Messages]
         /\ outcome' \in [Mailers -> [Messages -> {"none", "accepted", "refused"}]]
         /\ OutcomeInv'
<1> USE DEF OutboxInv
<1>1. \A v \in Mailers : holds'[v] = IF v = w THEN {} ELSE holds[v]
  BY DEF Unlocked, MailTypeOK
<1>2. \A v \in Mailers, m \in Messages :
        outcome'[v][m] = IF v = w THEN "none" ELSE outcome[v][m]
  BY DEF Unlocked, MailTypeOK
<1>3. holds' \in [Mailers -> SUBSET Messages]
      /\ outcome' \in [Mailers -> [Messages -> {"none", "accepted", "refused"}]]
  BY DEF Unlocked, MailTypeOK
<1>4. OutcomeInv'
  BY <1>1, <1>2 DEF OutcomeInv
<1> QED
  BY <1>1, <1>2, <1>3, <1>4

LEMMA LoseKeeps ==
  ASSUME OutboxInv, NEW w \in Mailers, Lose(w)
  PROVE  OutboxInv'
<1>1. Unlocked(w) /\ losses' = losses + 1 /\ UNCHANGED <<row, arrived>> /\ losses < MaxLosses
  BY DEF Lose
<1>2. /\ \A v \in Mailers : holds'[v] = IF v = w THEN {} ELSE holds[v]
      /\ holds' \in [Mailers -> SUBSET Messages]
      /\ outcome' \in [Mailers -> [Messages -> {"none", "accepted", "refused"}]]
      /\ OutcomeInv'
  BY <1>1, UnlockKeeps
<1>3. MailTypeOK'
  BY <1>1, <1>2, OutboxAssumption DEF OutboxInv, MailTypeOK, OutboxAssumption
<1>4. LockInv'
  BY <1>1, <1>2 DEF OutboxInv, LockInv, Queued
<1>5. AttemptInv'
  BY <1>1 DEF OutboxInv, AttemptInv
<1>6. ArrivedInv'
  BY <1>1, OutboxAssumption DEF OutboxInv, ArrivedInv, MailTypeOK, OutboxAssumption
<1> QED
  BY <1>2, <1>3, <1>4, <1>5, <1>6 DEF OutboxInv

\* The row of a message that was tried.
LEMMA SettledRow ==
  ASSUME NEW r \in [status: {"none", "queued", "sent", "failed"}, attempts: 0 .. MaxAttempts],
         r.attempts < MaxAttempts, NEW result
  PROVE  /\ Settled(r, result) \in [status: {"none", "queued", "sent", "failed"},
                                    attempts: 0 .. MaxAttempts]
         /\ Settled(r, result).status \in {"queued", "sent", "failed"}
         /\ result = "accepted" => Settled(r, result).status = "sent"
         /\ Settled(r, result).status = "queued" => Settled(r, result).attempts < MaxAttempts
<1>1. r.attempts + 1 \in 0 .. MaxAttempts /\ MaxAttempts \in Nat /\ r.attempts \in Nat
  BY OutboxAssumption DEF OutboxAssumption
<1> QED
  BY <1>1 DEF Settled

LEMMA CommitKeeps ==
  ASSUME OutboxInv, NEW w \in Mailers, Commit(w)
  PROVE  OutboxInv'
<1> USE DEF OutboxInv
<1> DEFINE new(m) == Settled(row[m], outcome[w][m])
<1>1. /\ Unlocked(w) /\ UNCHANGED <<arrived, losses>>
      /\ \A m \in Messages : row'[m] = IF m \in holds[w] THEN new(m) ELSE row[m]
      /\ \A m \in holds[w] : outcome[w][m] # "none"
  BY DEF Commit
<1>2. /\ \A v \in Mailers : holds'[v] = IF v = w THEN {} ELSE holds[v]
      /\ \A v \in Mailers, m \in Messages :
           outcome'[v][m] = IF v = w THEN "none" ELSE outcome[v][m]
      /\ holds' \in [Mailers -> SUBSET Messages]
      /\ outcome' \in [Mailers -> [Messages -> {"none", "accepted", "refused"}]]
      /\ OutcomeInv'
  BY <1>1, UnlockKeeps
<1>3. ASSUME NEW m \in holds[w]
      PROVE  /\ m \in Messages /\ row[m].status = "queued"
             /\ new(m) \in [status: {"none", "queued", "sent", "failed"},
                            attempts: 0 .. MaxAttempts]
             /\ new(m).status \in {"queued", "sent", "failed"}
             /\ outcome[w][m] = "accepted" => new(m).status = "sent"
             /\ new(m).status = "queued" => new(m).attempts < MaxAttempts
  <2>1. m \in Messages /\ row[m].status = "queued"
    BY <1>3 DEF MailTypeOK, LockInv, Queued
  <2>2. row[m].attempts < MaxAttempts
        /\ row[m] \in [status: {"none", "queued", "sent", "failed"}, attempts: 0 .. MaxAttempts]
    BY <2>1 DEF AttemptInv, MailTypeOK
  <2> QED
    BY <2>1, <2>2, SettledRow
<1> HIDE DEF new
<1>4. row' \in [Messages -> [status: {"none", "queued", "sent", "failed"},
                             attempts: 0 .. MaxAttempts]]
  <2>1. DOMAIN row' = Messages /\ row' = [m \in Messages |-> row'[m]]
    BY DEF Commit
  <2>2. \A m \in Messages : row'[m] \in [status: {"none", "queued", "sent", "failed"},
                                         attempts: 0 .. MaxAttempts]
    BY <1>1, <1>3 DEF MailTypeOK
  <2> QED
    BY <2>1, <2>2
<1>5. MailTypeOK'
  BY <1>1, <1>2, <1>4 DEF MailTypeOK
<1>6. LockInv'
  <2>1. ASSUME NEW v \in Mailers PROVE holds'[v] \subseteq Queued'
    BY <1>1, <1>2, <2>1 DEF LockInv, Queued
  <2> QED
    BY <1>2, <2>1 DEF LockInv
<1>7. AttemptInv'
  BY <1>1, <1>3 DEF AttemptInv
<1>8. ArrivedInv'
  <2>1. ASSUME NEW m \in Messages, row'[m].status \in {"none", "queued"}, ~ Pending(m)'
        PROVE  arrived[m] <= losses
    <3>1. row[m].status \in {"none", "queued"}
      BY <1>1, <1>3, <2>1
    <3>2. outcome[w][m] # "accepted"
      <4>1. CASE m \in holds[w]
        BY <1>1, <1>3, <2>1, <4>1
      <4>2. CASE m \notin holds[w]
        BY <4>2 DEF OutcomeInv
      <4> QED
        BY <4>1, <4>2
    <3>3. ~ Pending(m)
      BY <1>2, <2>1, <3>2 DEF Pending
    <3> QED
      BY <3>1, <3>3 DEF ArrivedInv
  <2> QED
    BY <1>1, <2>1 DEF ArrivedInv
<1> QED
  BY <1>2, <1>5, <1>6, <1>7, <1>8

LEMMA OutboxStep == OutboxInv /\ [MailNext]_mailVars => OutboxInv'
<1> SUFFICES ASSUME OutboxInv, [MailNext]_mailVars PROVE OutboxInv'
  OBVIOUS
<1>1. CASE UNCHANGED mailVars
  BY <1>1 DEF mailVars, OutboxInv, MailTypeOK, LockInv, OutcomeInv, AttemptInv, ArrivedInv, Pending, Queued
<1> QED
  BY <1>1, EnqueueKeeps, ClaimKeeps, SendKeeps, CommitKeeps, LoseKeeps DEF MailNext, SendNext

-----------------------------------------------------------------------------
(* Theorems.                                                               *)

\* However jobs overlap and are lost, the rows, locks and counters keep their
\* types, and no message has more attempts than MAX_ATTEMPTS.
THEOREM MailTypeCorrect == MailSpec => []MailTypeOK
<1>1. OutboxInv => MailTypeOK
  BY DEF OutboxInv
<1> QED
  BY <1>1, OutboxInit, OutboxStep, PTL DEF MailSpec

\* "Two workers never send the same message": a message arrives at most once
\* more than jobs or answers were lost (outbox.py, FOR UPDATE SKIP LOCKED).
THEOREM ArrivesOnceUnlessLost == MailSpec => []OnceUnlessLost
<1>1. OutboxInv => OnceUnlessLost
  BY DEF OutboxInv, ArrivedInv, OnceUnlessLost
<1> QED
  BY <1>1, OutboxInit, OutboxStep, PTL DEF MailSpec

\* A message settled as sent or failed is never sent again, by any job.
THEOREM SettledForGood == MailSpec => SettledIsFinal
<1> DEFINE Stays == \A m \in Messages : row[m].status \in {"sent", "failed"} =>
                     row'[m] = row[m] /\ arrived'[m] = arrived[m]
<1>1. OutboxInv /\ [MailNext]_mailVars => [Stays]_mailVars
  <2> SUFFICES ASSUME OutboxInv, MailNext PROVE Stays
    BY DEF OutboxInv
  <2>1. ASSUME NEW x \in Messages, Enqueue(x) PROVE Stays
    BY <2>1 DEF Enqueue, NoMessage, OutboxInv, MailTypeOK
  <2>2. ASSUME NEW w \in Mailers, Claim(w) \/ Lose(w) PROVE Stays
    BY <2>2 DEF Claim, Lose
  <2>3. ASSUME NEW w \in Mailers, NEW x \in Messages,
               SendUnanswered(w, x) \/ \E ok \in BOOLEAN : Send(w, x, ok)
        PROVE  Stays
    <3>1. row[x].status = "queued" /\ row' = row
      BY <2>3, NextIsFresh DEF Send, SendUnanswered
    <3>2. \A m \in Messages : m # x => arrived'[m] = arrived[m]
      BY <2>3 DEF Send, SendUnanswered, OutboxInv, MailTypeOK
    <3> QED
      BY <3>1, <3>2
  <2>4. ASSUME NEW w \in Mailers, Commit(w) PROVE Stays
    BY <2>4 DEF Commit, OutboxInv, LockInv, Queued
  <2> QED
    BY <2>1, <2>2, <2>3, <2>4 DEF MailNext, SendNext
<1>2. [][Stays]_mailVars => SettledIsFinal
  BY DEF SettledIsFinal
<1> HIDE DEF Stays
<1> QED
  BY <1>1, <1>2, OutboxInit, OutboxStep, PTL DEF MailSpec

=============================================================================
