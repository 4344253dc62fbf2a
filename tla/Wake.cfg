SPECIFICATION FairSpec
CONSTANTS
  Sessions = {a1, a2}
  NoUpdate = NoUpdate Never = Never
  BatchWindow = 1 RetryDelay = 2 MinWake = 5
INVARIANT OutstandingOnTime
PROPERTIES WakesSpaced WokenEventually
