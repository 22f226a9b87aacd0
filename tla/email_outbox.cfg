\* Two mail jobs, three messages, two jobs that are lost.
SPECIFICATION MailFairSpec
CONSTANTS
  Messages = {1, 2, 3}
  Mailers = {w1, w2}
  MaxAttempts = 2
  MailBatch = 2
  MaxLosses = 2
CHECK_DEADLOCK FALSE
INVARIANTS OnceUnlessLost
PROPERTIES SettledIsFinal EveryMessageEnds
