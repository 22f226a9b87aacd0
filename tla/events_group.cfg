\* Slow handlers, an invalid entry, a trimmed stream, a crash or a Redis outage.
SPECIFICATION FairSpec
CONSTANTS
  c1 = c1  c2 = c2  h1 = h1  h2 = h2
  Events = 2
  Invalid <- SecondInvalid
  Consumers <- TwoConsumers
  Handlers <- TwoHandlers
  BatchSize = 1
  MaxDeliveries = 2
  MaxLen = 1
  MaxFaults = 1
INVARIANTS NothingForgotten DoneIsDone AttemptsBounded
PROPERTIES EventuallyHandled
