\* HTTP requests and weighted callers, cancelled or not, share a semaphore.
SPECIFICATION MiddlewareSpec
CONSTANTS
  c1 = c1
  c2 = c2
  c3 = c3
  r1 = r1
  Callers = {c1, c2, c3, r1}
  Requests = {r1}
  Cancellable = {c1, c2, c3}
  MaxWeight = 2
  MaxInt = 7
  Weights = {0, 1, 2, 3}
  OverRelease = FALSE
  Nobody = Nobody
INVARIANTS
  CapacityRespected
  WaitersConsistent
  ExactUntilCancelled
  WakesUntilCancelled
PROPERTIES
  LightestServedAmongRequests
  SomeWaiterServedAmongRequests
  SlotComesBack
