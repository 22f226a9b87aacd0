\* Two notification jobs over one incident.
SPECIFICATION FairSpec
CONSTANTS
  Incidents = {1}
  Channels = {"email", "slack"}
  Dispatchers = {d1, d2}
  MaxTries = 2
  Batch = 1
CHECK_DEADLOCK FALSE
INVARIANTS OneEmail ResolvedAfterOpened
PROPERTIES EveryoneIsTold
