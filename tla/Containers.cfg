\* Three goroutines share a Store, a Slice or a LazyLoader; callbacks return,
\* panic or call back.
SPECIFICATION Spec
CONSTANTS
  g1 = g1
  g2 = g2
  g3 = g3
  Nobody = Nobody
  k1 = k1
  k2 = k2
  v1 = v1
  v2 = v2
  a1 = a1
  a2 = a2
  a3 = a3
  Absent = Absent
  NilMap = NilMap
  NoChunk = NoChunk
  Goroutines = {g1, g2, g3}
  Keys = {k1, k2}
  Values = {v1}
  Arrays = {a1, a2, a3}
  Elements = {v1, v2}
  MaxLen = 2
  Clients = {g1}
  LineCounts = {1, 2, 4}
  ChunkSizes = {1, 2, 3}
INVARIANTS
  CallbackSeesCurrent
  NotExposed
  LoadedOncePerClear
  ChunksAgreeWithLines
PROPERTY CallsReturn
\* A callback that calls back blocks for ever, and in the end all do.
CHECK_DEADLOCK FALSE
