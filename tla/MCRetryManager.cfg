SPECIFICATION MCSpec
CONSTANTS
  t1 = t1
  t2 = t2
  Turns = {t1, t2}
  MaxGeneration = 4
  MaxDepth = 3
  Reentrant <- EveryCall
INVARIANTS
  OneRetryAtMost
  ClaimsAreDropped
  ShownRetryIsReal
PROPERTIES
  RetiredStaysRetired
  StoppedTurnIsNotRetried
  RetriesSettle
CHECK_DEADLOCK FALSE
