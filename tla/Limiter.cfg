\* Three goroutines share a bucket that gains two thirds of a token per tick,
\* or a window of two requests in three ticks.
SPECIFICATION FairSpec
CONSTANTS
  c1 = c1
  c2 = c2
  c3 = c3
  Nobody = Nobody
  Callers = {c1, c2, c3}
  Capacity = 2
  Rate = 2
  Unit = 3
  WindowSize = 3
  MaxRequests = 2
  MinWait = 1
  NoRateWait = 4
  Horizon = 4
  MayCancel = TRUE
INVARIANTS
  BucketRate
  WindowLimit
PROPERTY WaitersAdvance
