\* Three callers, late results in every state, State and Reset at any time.
SPECIFICATION FairSpec
CONSTANTS
  c1 = c1
  c2 = c2
  c3 = c3
  Callers = {c1, c2, c3}
  MaxFailures = 2
  Timeout = 2
  HalfOpenRequests = 2
  MayPanic = FALSE
  MayReset = TRUE
INVARIANTS
  ClosedBelowThreshold
  HalfOpenNotStuck
  FailuresBounded
PROPERTY Recovers
