\* Every operation races every other one; the program may panic.
SPECIFICATION BatchSpec
CONSTANTS
  t1 = t1
  t2 = t2
  w1 = w1
  w2 = w2
  s1 = s1
  r1 = r1
  r2 = r2
  NoTask = NoTask
  Zero = Zero
  Nobody = Nobody
  Tasks = {t1, t2}
  Batch <- OneTask
  WaitTasks = {t1}
  Workers = {w1, w2}
  InitialWorkers = {w1}
  QueueSize = 1
  Resizers = {r1, r2}
  Sizes = {0, 1, 2}
  Closers = {s1}
  MayCancel = TRUE
  MayGiveUp = TRUE
  Drainers = {}
  Orderly = FALSE
INVARIANTS
  ConcurrencyBound
  AtMostOnce
  ResultsConserved
\* A scale-down Resize and a SubmitWait may block for ever.
CHECK_DEADLOCK FALSE
