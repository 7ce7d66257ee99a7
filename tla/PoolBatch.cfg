\* A batch of two, a SubmitWait and a WaitForDrain share a pool with room for
\* all results; or the batch has a private pool.
SPECIFICATION FairBatchSpec
CONSTANTS
  t1 = t1
  t2 = t2
  t3 = t3
  w1 = w1
  d1 = d1
  NoTask = NoTask
  Zero = Zero
  Nobody = Nobody
  Tasks = {t1, t2, t3}
  Batch <- TwoTasks
  WaitTasks = {t3}
  Workers = {w1}
  InitialWorkers = {w1}
  QueueSize = 3
  Resizers = {}
  Sizes = {}
  Closers = {}
  MayCancel = FALSE
  MayGiveUp = TRUE
  Drainers = {d1}
  Orderly = TRUE
INVARIANTS
  ResultsConserved
  BatchComplete
PROPERTIES
  BatchReturns
  WaitersServedBesideBatch
  DrainReturns
