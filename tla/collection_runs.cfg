\* Two processes with a slot each, and an operator.
SPECIFICATION FairSpec
CONSTANTS
  s1 = s1  s2 = s2  p1 = p1  p2 = p2  c1 = c1  c2 = c2  q1 = q1
  Sources = {s1}
  Processes = {p1, p2}
  Slots = {c1, c2}
  Requests = {q1}
  Home <- Homes
  Nobody = Nobody
  DegradedThreshold = 2
  RecoverySuccesses = 2
INVARIANTS OneScheduledRun
PROPERTIES DueIsCollected Recovers
