----------------------------- MODULE LazyLoader -----------------------------
(***************************************************************************)
(* The chunk cache of pkg/lazyloader/lazyloader.go and the StringLoader on *)
(* top of it.  A chunk is the set of the line numbers it holds.            *)
(***************************************************************************)
EXTENDS Guarded, Integers

CONSTANTS
  LineCounts,     \* numbers of lines of the content
  ChunkSizes,     \* the chunk sizes asked for, all positive
  NoChunk         \* not cached

ASSUME LoaderAssumption ==
  /\ LineCounts \subseteq Nat \ {0} /\ ChunkSizes \subseteq Nat \ {0}
  /\ \A n \in LineCounts : \A lines \in SUBSET (0..(n - 1)) : lines # NoChunk

VARIABLES
  nlines, chunkSize,    \* len(sl.lines), l.chunkSize
  chunks,               \* l.chunks
  wanted,               \* the index each running load is for
  loads                 \* successful loads of each chunk since the last Clear

loader == <<nlines, chunkSize, chunks, wanted, loads>>

\* Mutant: the last chunk is forgotten when it is not full.
totalChunks_Floor == nlines \div chunkSize

totalChunks == (nlines + chunkSize - 1) \div chunkSize

Indices == 0..(totalChunks - 1)

LoaderInit ==
  /\ nlines \in LineCounts /\ chunkSize \in ChunkSizes
  /\ chunks = [i \in Indices |-> NoChunk]
  /\ wanted = [g \in Goroutines |-> -1]
  /\ loads = [i \in Indices |-> 0]

\* sl.lines[from:to], to cut off at the last line.
Lines(from, to) == {n \in from..(to - 1) : n < nlines}

\* The loadFn of NewStringLoader; {} when the chunk starts behind the lines.
load(i) == Lines(i * chunkSize, (i + 1) * chunkSize)

\* GetLines: {} for a range that is empty or outside.
GetLines(startLine, endLine) ==
  IF startLine < 0 \/ endLine <= startLine \/ startLine >= nlines THEN {}
  ELSE Lines(startLine, endLine)

-----------------------------------------------------------------------------
\* GetChunk of an index that does not exist or is cached, and CachedCount.
GetCached(g) == WriteOnce(g) /\ UNCHANGED loader

\* Mutant: the lock is released while loadFn runs.
LoadBegins_Unlocked(g) ==
  /\ MayWrite(g)
  /\ Moves(g, "lock", "writing")
  /\ \E i \in Indices : chunks[i] = NoChunk /\ wanted' = [wanted EXCEPT ![g] = i]
  /\ UNCHANGED <<writer, readers, shown, nlines, chunkSize, chunks, loads>>

\* GetChunk of another index calls loadFn with the lock held.
LoadBegins(g) ==
  /\ WriteBegins(g, chunks)
  /\ \E i \in Indices : chunks[i] = NoChunk /\ wanted' = [wanted EXCEPT ![g] = i]
  /\ UNCHANGED <<nlines, chunkSize, chunks, loads>>

\* loadFn returns the chunk, which is cached ...
LoadSucceeds(g) ==
  /\ WriteEnds(g)
  /\ chunks' = [chunks EXCEPT ![wanted[g]] = load(wanted[g])]
  /\ loads' = [loads EXCEPT ![wanted[g]] = @ + 1]
  /\ wanted' = [wanted EXCEPT ![g] = -1]
  /\ UNCHANGED <<nlines, chunkSize>>

\* ... or an error, or panics, and nothing is cached.
LoadFails(g) ==
  /\ WriteEnds(g)
  /\ wanted' = [wanted EXCEPT ![g] = -1]
  /\ UNCHANGED <<nlines, chunkSize, chunks, loads>>

LoaderClear(g) ==
  /\ WriteOnce(g)
  /\ chunks' = [i \in Indices |-> NoChunk]
  /\ loads' = [i \in Indices |-> 0]
  /\ UNCHANGED <<nlines, chunkSize, wanted>>

LoaderOp(g) ==
  GetCached(g) \/ LoadBegins(g) \/ LoadSucceeds(g) \/ LoadFails(g) \/ LoaderClear(g)

(***************************************************************************)
(* Properties                                                              *)
(***************************************************************************)
\* However many goroutines ask for a chunk, and however often loading it
\* fails, it is loaded at most once between two Clears, and cached then.
LoadedOncePerClear ==
  \A i \in Indices : loads[i] = IF chunks[i] = NoChunk THEN 0 ELSE 1

\* For every number of lines and every chunk size: chunk i of the cache is
\* what GetLines returns for its lines, and the chunks are all the lines.
ChunksAgreeWithLines ==
  /\ \A i \in Indices : chunks[i] \in {NoChunk, GetLines(i * chunkSize, (i + 1) * chunkSize)}
  /\ UNION {GetLines(i * chunkSize, (i + 1) * chunkSize) : i \in Indices} = 0..(nlines - 1)
=============================================================================
