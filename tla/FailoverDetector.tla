-------------------------- MODULE FailoverDetector --------------------------
(***************************************************************************)
(* The WAN failover detector (services/failover_intelligence/detector.py): *)
(* after a collection run it compares the WAN links of a site edge with    *)
(* what the round before saw and carries an episode through detected,      *)
(* failed_over, recovering and recovered or verification_failed.           *)
(*                                                                         *)
(* One site edge.  Its rounds run in the transactions of the collection    *)
(* runs of the tenant's sources, so two can overlap: each reads the        *)
(* baseline and the open episode, and writes both when it commits.  The    *)
(* writes are the ORM's: an UPDATE carries the columns that differ from    *)
(* what the round read.                                                    *)
(*                                                                         *)
(* The timeline, blast radius and evidence of an episode are left out, and *)
(* its number.  A round reads what its own run has collected, so what it   *)
(* sees is its input.                                                      *)
(***************************************************************************)
EXTENDS Naturals, FiniteSets

CONSTANTS
  Links,           \* candidate WAN links, in the order of their names
  Rounds,          \* collection runs that can be at work at a time
  Episodes,        \* ids of episodes: numbers, given out from the lowest
  Sights,          \* what a round can see: the links that are up, and
                   \* whether a policy reports a critical breach
  NoLink, NoEpisode,
  DefaultSamples,  \* rounds that confirm, without a breached policy
  PolicySamples    \* min_consecutive_samples of the policy

ASSUME DetectorAssumption ==
  /\ Links \subseteq Nat /\ Links # {} /\ NoLink \notin Links
  /\ Sights \subseteq [up: SUBSET Links, critical: BOOLEAN]
  /\ Episodes \subseteq Nat /\ NoEpisode \notin Episodes
  /\ DefaultSamples \in Nat \ {0}
  /\ PolicySamples \in Nat \ {0}

VARIABLES
  baseline,  \* the detector state row, or NoBaseline
  episode,   \* the failover events
  round      \* what each collection run has read and not yet committed

detectorVars == <<baseline, episode, round>>

-----------------------------------------------------------------------------
(* Episodes.                                                               *)

OpenStatuses == {"detected", "failed_over", "recovering"}
Terminal == {"recovered", "verification_failed", "aborted"}

\* ALLOWED_TRANSITIONS.
AllowedTransitions ==
  {<<"detected", "failed_over">>, <<"detected", "aborted">>,
   <<"detected", "recovering">>, <<"failed_over", "recovering">>,
   <<"recovering", "recovered">>, <<"recovering", "verification_failed">>}

\* An id no episode has, or one that has ended and that nothing refers to.
Unused == [status |-> "none", from |-> NoLink, need |-> 0]

Open == {e \in Episodes : episode[e].status \in OpenStatuses}

-----------------------------------------------------------------------------
(* The pure part of a round: what it sees and what the round before left.  *)

NoBaseline == [active |-> NoEpisode, breaches |-> 0, clear |-> 0, chosen |-> NoLink,
               kept |-> FALSE]

Down(n) == Links \ n.up
PathFailure(n) == Down(n) # {}
Healthy(n) == ~ PathFailure(n) /\ ~ n.critical

Least(S) == CHOOSE x \in S : \A y \in S : x <= y

\* evaluate_paths: a path that is up.  Which one depends on scores; the
\* first by name stands for the best.
Selected(n) == IF n.up = {} THEN NoLink ELSE Least(n.up)

\* The link an episode is keyed by: the path preferred so far if it is down,
\* else the first that is, else the path preferred so far.
FailedLink(n, prev) ==
  IF prev.chosen \notin n.up \cup {NoLink} \/ Down(n) = {} THEN prev.chosen
  ELSE Least(Down(n))

\* Mutant of Required: no breached policy, no sample.
RequiredZero(n) == IF n.critical THEN PolicySamples ELSE 0
\* evaluate_breaches: the samples asked for by the policies that are breached.
Required(n) == IF n.critical THEN PolicySamples ELSE DefaultSamples

\* The counters are compared with the samples only, and stop there.
EnoughSamples == IF DefaultSamples > PolicySamples THEN DefaultSamples ELSE PolicySamples
MoreSamples(k) == IF k < EnoughSamples THEN k + 1 ELSE k

Breaches(n, prev) == IF n.critical THEN MoreSamples(prev.breaches) ELSE 0

Clear(n, prev) == IF Healthy(n) THEN MoreSamples(prev.clear) ELSE 0

ClearConfirmed(n, prev) == Clear(n, prev) >= Required(n)

\* Mutant of Resolve: an open breach is not escalated.
ResolveNoEscalation(n, prev, status) ==
  CASE ~ prev.kept -> "baseline"
    [] prev.kept /\ status = "none" ->
         IF PathFailure(n) THEN "open_failover"
         ELSE IF n.critical /\ Breaches(n, prev) >= Required(n) THEN "open_breach"
         ELSE "none"
    [] prev.kept /\ status = "detected" ->
         IF ClearConfirmed(n, prev) THEN "abort" ELSE "none"
    [] prev.kept /\ status = "failed_over" ->
         IF ~ PathFailure(n) /\ ClearConfirmed(n, prev) THEN "begin_recovery" ELSE "none"
    [] prev.kept /\ status = "recovering" ->
         IF ClearConfirmed(n, prev) \/ ~ PathFailure(n) THEN "verify" ELSE "none"
\* Mutant of Resolve: a breach that clears is not aborted.
ResolveNoAbort(n, prev, status) ==
  CASE ~ prev.kept -> "baseline"
    [] prev.kept /\ status = "none" ->
         IF PathFailure(n) THEN "open_failover"
         ELSE IF n.critical /\ Breaches(n, prev) >= Required(n) THEN "open_breach"
         ELSE "none"
    [] prev.kept /\ status = "detected" ->
         IF PathFailure(n) THEN "escalate" ELSE "none"
    [] prev.kept /\ status = "failed_over" ->
         IF ~ PathFailure(n) /\ ClearConfirmed(n, prev) THEN "begin_recovery" ELSE "none"
    [] prev.kept /\ status = "recovering" ->
         IF ClearConfirmed(n, prev) \/ ~ PathFailure(n) THEN "verify" ELSE "none"
\* _resolve_action.
Resolve(n, prev, status) ==
  CASE ~ prev.kept -> "baseline"
    [] prev.kept /\ status = "none" ->
         IF PathFailure(n) THEN "open_failover"
         ELSE IF n.critical /\ Breaches(n, prev) >= Required(n) THEN "open_breach"
         ELSE "none"
    [] prev.kept /\ status = "detected" ->
         IF PathFailure(n) THEN "escalate"
         ELSE IF ClearConfirmed(n, prev) THEN "abort" ELSE "none"
    [] prev.kept /\ status = "failed_over" ->
         IF ~ PathFailure(n) /\ ClearConfirmed(n, prev) THEN "begin_recovery" ELSE "none"
    [] prev.kept /\ status = "recovering" ->
         IF ClearConfirmed(n, prev) \/ ~ PathFailure(n) THEN "verify" ELSE "none"

\* verify_event reads the counter as the round before left it, and asks for
\* the samples the episode was opened with.
Verified(n, prev, e) == Healthy(n) /\ prev.clear >= e.need

-----------------------------------------------------------------------------
(* Rounds.                                                                 *)

NoRound == [pc |-> "idle", saw |-> [up |-> {}, critical |-> FALSE], prev |-> NoBaseline,
         open |-> NoEpisode, was |-> "none", stale |-> FALSE]

\* Mutant of OpenEpisode: only the episode the baseline names is resumed.
OpenEpisodeNamed(prev) ==
  IF prev.active \in Open THEN {prev.active} ELSE {NoEpisode}
\* _resolve_open_event: the episode of the baseline if it is open, else the
\* open one of the scope.  Of two, the one detected last: rounds that overlap
\* can have either order.
OpenEpisode(prev) ==
  IF prev.active \in Open THEN {prev.active}
  ELSE IF Open # {} THEN Open ELSE {NoEpisode}

\* Bound: a round lasts 20 seconds at most, a source is collected every
\* minute or more seldom; no round begins before one that was overtaken ends.
MayBegin(c) == round[c] = NoRound /\ \A d \in Rounds : ~ round[d].stale

\* A round begins: it reads the links, the baseline and the open episode.
Load(c, n) ==
  /\ MayBegin(c)
  /\ \E e \in OpenEpisode(baseline) :
       round' = [round EXCEPT ![c] =
         [pc |-> "loaded", saw |-> n, prev |-> baseline, open |-> e,
          was |-> IF e = NoEpisode THEN "none" ELSE episode[e].status,
          stale |-> FALSE]]
  /\ UNCHANGED <<baseline, episode>>

\* No candidate link is left: the baseline is dropped, an episode stays.
DropBaseline(c) ==
  /\ MayBegin(c)
  /\ baseline.kept
  /\ baseline' = NoBaseline
  /\ round' = [d \in Rounds |->
                 IF round[d].pc = "loaded" THEN [round[d] EXCEPT !.stale = TRUE] ELSE round[d]]
  /\ UNCHANGED episode

\* The other rounds that have read the rows this one writes.
Ended(c) == [d \in Rounds |->
  IF d = c THEN NoRound
  ELSE IF round[d].pc = "loaded" THEN [round[d] EXCEPT !.stale = TRUE] ELSE round[d]]

\* upsert of the baseline: columns that are as the round read them are not
\* written, unless the row is new or the round had read none.
Saved(c, active) ==
  LET r == round[c]
      new == [active |-> active, breaches |-> Breaches(r.saw, r.prev),
              clear |-> Clear(r.saw, r.prev), chosen |-> Selected(r.saw), kept |-> TRUE]
  IN  IF baseline.kept /\ r.prev.kept
      THEN [f \in DOMAIN new |-> IF new[f] = r.prev[f] THEN baseline[f] ELSE new[f]]
      ELSE new

\* What a round commits.  Episodes that have ended, and that neither the
\* baseline nor another round refers to, are forgotten.
Write(c, events, row) ==
  /\ baseline' = row
  /\ round' = Ended(c)
  /\ episode' = [e \in Episodes |->
       IF /\ events[e].status \in Terminal
          /\ row.active # e
          /\ \A d \in Rounds \ {c} : e \notin {round[d].open, round[d].prev.active}
       THEN Unused ELSE events[e]]

\* apply_transition from the status the round read; it raises when the edge
\* is not allowed, and the round writes nothing.
Transition(c, status, active) ==
  IF <<round[c].was, status>> \in AllowedTransitions
  THEN Write(c, [episode EXCEPT ![round[c].open].status = status], Saved(c, active))
  ELSE /\ round' = [round EXCEPT ![c] = NoRound]
       /\ UNCHANGED <<baseline, episode>>

Resolved(c) == Resolve(round[c].saw, round[c].prev, round[c].was)

\* The first round of the scope, or the first after its baseline was dropped.
TakeBaseline(c) ==
  /\ Resolved(c) = "baseline"
  /\ Write(c, episode, Saved(c, NoEpisode))

\* _open_event: the open episode of the same link if another round has made
\* one since, else a new one.
OpenOne(c) ==
  LET from == FailedLink(round[c].saw, round[c].prev)
      same == {e \in Open : episode[e].from = from}
      status == IF Resolved(c) = "open_failover" THEN "failed_over" ELSE "detected"
      unused == {e \in Episodes : episode[e] = Unused}
  IN  /\ Resolved(c) \in {"open_failover", "open_breach"}
      /\ \/ \E e \in same :
              Write(c, IF status = "failed_over" /\ episode[e].status = "detected"
                       THEN [episode EXCEPT ![e].status = status] ELSE episode,
                    Saved(c, e))
         \/ /\ same = {} /\ unused # {}
            /\ LET e == Least(unused)
               IN  Write(c, [episode EXCEPT ![e] =
                               [status |-> status, from |-> from,
                                need |-> Required(round[c].saw)]],
                         Saved(c, e))

Escalate(c) ==
  /\ Resolved(c) = "escalate"
  /\ Transition(c, "failed_over", round[c].open)

Abort(c) ==
  /\ Resolved(c) = "abort"
  /\ Transition(c, "aborted", NoEpisode)

BeginRecovery(c) ==
  /\ Resolved(c) = "begin_recovery"
  /\ Transition(c, "recovering", round[c].open)

\* _verify_and_close.
VerifyAndClose(c) ==
  LET r == round[c]
  IN  /\ Resolved(c) = "verify"
      /\ Transition(c, IF Verified(r.saw, r.prev, episode[r.open]) THEN "recovered"
                       ELSE "verification_failed", NoEpisode)

\* Nothing to open or to move: the baseline is refreshed.
Refresh(c) ==
  /\ Resolved(c) = "none"
  /\ Write(c, episode, Saved(c, round[c].open))

\* _apply_round, and the commit of the collection run.
CommitRound(c) ==
  /\ round[c].pc = "loaded"
  /\ \/ TakeBaseline(c) \/ OpenOne(c) \/ Escalate(c) \/ Abort(c)
     \/ BeginRecovery(c) \/ VerifyAndClose(c) \/ Refresh(c)

\* The round raises or exceeds its 20 seconds, or the process dies.
GiveUp(c) ==
  /\ round[c].pc = "loaded"
  /\ round' = [round EXCEPT ![c] = NoRound]
  /\ UNCHANGED <<baseline, episode>>

-----------------------------------------------------------------------------
DetectorInit ==
  /\ baseline = NoBaseline
  /\ episode = [e \in Episodes |-> Unused]
  /\ round = [c \in Rounds |-> NoRound]

LoadAny(c) == \E n \in Sights : Load(c, n)

DetectorNext == \E c \in Rounds : LoadAny(c) \/ DropBaseline(c) \/ CommitRound(c) \/ GiveUp(c)

\* The scheduler collects every source again and again; that a run fails, or
\* the last link vanishes, only so often is assumed.
DetectorFairness == \A c \in Rounds :
  /\ WF_detectorVars(LoadAny(c) \/ CommitRound(c) \/ GiveUp(c))
  /\ <>[][(GiveUp(c) => CommitRound(c)) /\ ~ DropBaseline(c)]_detectorVars

DetectorSpec == DetectorInit /\ [][DetectorNext]_detectorVars
DetectorFairSpec == DetectorSpec /\ DetectorFairness

-----------------------------------------------------------------------------
(* Properties.                                                             *)

Baselines == [active: Episodes \cup {NoEpisode}, breaches: 0 .. EnoughSamples,
              clear: 0 .. EnoughSamples, chosen: Links \cup {NoLink}, kept: BOOLEAN]

\* Every variable keeps its type.
DetectorTypeOK ==
  /\ baseline \in Baselines
  /\ episode \in [Episodes -> [status: OpenStatuses \cup Terminal \cup {"none"},
                               from: Links \cup {NoLink}, need: 0 .. EnoughSamples]]
  /\ \A e \in Open : episode[e].need > 0
  /\ round \in [Rounds -> [pc: {"idle", "loaded"}, saw: [up: SUBSET Links, critical: BOOLEAN],
                           prev: Baselines,
                           open: Episodes \cup {NoEpisode},
                           was: OpenStatuses \cup {"none"}, stale: BOOLEAN]]

\* "It must be continued rather than duplicated": whatever became of the
\* baseline, a round that was not overtaken opens no second episode.
OneEpisode == [][\A c \in Rounds : CommitRound(c) /\ ~ round[c].stale =>
  Cardinality(Open') <= IF Open = {} THEN 1 ELSE Cardinality(Open)]_detectorVars

\* From some point on, rounds see only what N holds.
SeesOnly(N) == <>[][\A c \in Rounds, n \in Sights : Load(c, n) => n \in N]_detectorVars

\* A path that stays down is on record as a failover, whatever the baseline,
\* the episodes and the overlap of rounds were before.
OutageIsRecorded == SeesOnly({n \in Sights : PathFailure(n)}) =>
  <>[](\E e \in Episodes : episode[e].status \in {"failed_over", "recovering"})

\* Once the network stays healthy, every open episode ends.
EpisodesEnd == SeesOnly({n \in Sights : Healthy(n)}) => <>[](Open = {})

\* "recovering: the decision is healthy again and the confirmation window is
\* satisfied; verification is running".  The samples that confirm the recovery
\* are those of the policies breached now, the verification asks for those of
\* the policies breached when the episode began.
RecoveringIsConfirmed == [][\A e \in Episodes :
  episode'[e].status = "recovering" /\ episode[e].status # "recovering" =>
    baseline'.clear >= episode[e].need]_detectorVars

=============================================================================
