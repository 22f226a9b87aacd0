\* Overlapping requests, reassignments and ticks with their stale copies, the
\* abstract gate, liveness.
SPECIFICATION FairSpec
CONSTANTS
  t1 = t1  t2 = t2  a1 = a1  a2 = a2  s1 = s1  s2 = s2
  Tasks <- OneTask
  Agents <- OneAgent
  Sessions <- TwoSessions
  NoAgent = NoAgent
  Reassigning = TRUE
  Autonomous = TRUE
  MaxRetries = 1
  MaxWorkload = 2
CHECK_DEADLOCK FALSE
INVARIANTS GateHolds OneWorkerPerTask
PROPERTIES TerminalIsFinal DecisionStands GateSpec Answered
