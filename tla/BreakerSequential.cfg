\* One caller, whose fn may panic: the documented life cycle.
SPECIFICATION Spec
CONSTANTS
  c1 = c1
  Callers = {c1}
  MaxFailures = 5
  Timeout = 6
  HalfOpenRequests = 3
  MayPanic = TRUE
  MayReset = FALSE
PROPERTY FollowsLifeCycle
