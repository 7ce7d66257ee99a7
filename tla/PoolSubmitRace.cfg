\* Submit racing Shutdown.
SPECIFICATION Spec
CONSTANTS
  t1 = t1
  w1 = w1
  s1 = s1
  NoTask = NoTask
  Zero = Zero
  Nobody = Nobody
  Tasks = {t1}
  WaitTasks = {}
  Workers = {w1}
  InitialWorkers = {w1}
  QueueSize = 1
  Resizers = {}
  Sizes = {}
  Closers = {s1}
  MayCancel = FALSE
  MayGiveUp = FALSE
  Drainers = {}
  Orderly = FALSE
INVARIANT SubmitNeverPanics
