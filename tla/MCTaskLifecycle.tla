-------------------------- MODULE MCTaskLifecycle --------------------------
(* Small instances of TaskLifecycle for TLC.                               *)
EXTENDS TaskLifecycle, TLC

CONSTANTS t1, t2, a1, a2, s1, s2

OneTask == {t1}
TwoTasks == {t1, t2}
OneAgent == {a1}
TwoAgents == {a1, a2}
OneSession == {s1}
TwoSessions == {s1, s2}

Symmetric == Permutations(TwoAgents) \cup Permutations(TwoSessions)
=============================================================================
