\* Orderly use: submissions and a batch end, then the pool is shut down or
\* stopped.
SPECIFICATION FairBatchSpec
CONSTANTS
  t1 = t1
  t2 = t2
  t3 = t3
  w1 = w1
  w2 = w2
  s1 = s1
  s2 = s2
  NoTask = NoTask
  Zero = Zero
  Nobody = Nobody
  Tasks = {t1, t2, t3}
  Batch <- TwoTasks
  WaitTasks = {}
  Workers = {w1, w2}
  InitialWorkers = {w1, w2}
  QueueSize = 2
  Resizers = {}
  Sizes = {}
  Closers = {s1, s2}
  MayCancel = TRUE
  MayGiveUp = FALSE
  Drainers = {}
  Orderly = TRUE
INVARIANTS
  GracefulRunsAll
  OrderlyNeverPanics
PROPERTIES
  EveryTaskRuns
  ShutdownReturns
