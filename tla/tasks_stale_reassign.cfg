SPECIFICATION Spec
CONSTANTS
  t1 = t1  t2 = t2  a1 = a1  a2 = a2  s1 = s1  s2 = s2
  Tasks <- OneTask
  Agents <- TwoAgents
  Sessions <- OneSession
  NoAgent = NoAgent
  Reassigning = TRUE
  Autonomous = FALSE
  MaxRetries = 0
  MaxWorkload = 2
CHECK_DEADLOCK FALSE
PROPERTIES NotResurrected
