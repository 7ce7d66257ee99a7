\* A monitor that is started, stopped and started again, with failing getters
\* and contexts that expire.
SPECIFICATION Spec
CONSTANTS
  s1 = s1
  s2 = s2
  s3 = s3
  Published = Published
  NoStart = NoStart
  Starts = {s1, s2, s3}
  Probes = {"cpu", "mem"}
  CtxProbes = {"cpu"}
  GetterFails = TRUE
  ParentDone = TRUE
  Paired = TRUE
INVARIANTS
  Controlled
  OlderOnlyAroundStop
PROPERTIES
  StopHalts
  KeepsCollecting
