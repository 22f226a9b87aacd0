\* The runner, approvers and a crash; the event is delivered twice.
SPECIFICATION FairSpec
CONSTANTS
  w1 = w1  w2 = w2
  Workers <- TwoWorkers
  Starters <- OneWorker
  Procedures <- Mixed
  MaxExecutions = 2
  MaxRequests = 2
  MaxCrashes = 1
CHECK_DEADLOCK FALSE
INVARIANTS CalledOnce EffectsAreAllowed ReportedIsVerified
PROPERTY DecisionIsFollowed
