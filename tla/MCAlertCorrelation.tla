------------------------- MODULE MCAlertCorrelation -------------------------
(* Small instances of AlertCorrelation for TLC.                            *)
EXTENDS AlertCorrelation, TLC

CONSTANTS w1, w2, sensor, prtg1, prtg2, stray, s1, s2

OneWorker == {w1}
TwoWorkers == {w1, w2}

\* One sensor, polled by everyone
SensorOnly == {sensor}
\* Two vendor sources that report the same external id and title
SameSignal == {prtg1, prtg2}
SensorAndSignal == {sensor, prtg1}
EveryProbe == {sensor, prtg1, prtg2}
\* A vendor source whose signal names no device joins them
WithStray == EveryProbe \union {stray}
NoWorkers == {}
NoProbes == {}
OnePrtg == {prtg2}

SharedSignature == [p \in WithStray |-> IF p = sensor THEN s1 ELSE s2]

OneSeverity == {1}
TwoSeverities == {1, 2}

EveryState == {"acknowledged", "recovered", "closed", "resolved"}
ClosedOnly == {"closed"}
NoState == {}

Symmetric == Permutations(TwoWorkers)
SymmetricSignals == Permutations(TwoWorkers) \union Permutations(SameSignal)
=============================================================================
