----------------------------- MODULE Containers -----------------------------
(***************************************************************************)
(* Goroutines that share one of the lock-protected objects: a safe.Store,  *)
(* a safe.Slice or a LazyLoader.  kind says which; the data of the others  *)
(* stays as it is.                                                         *)
(***************************************************************************)
EXTENDS SafeStore, SafeSlice, LazyLoader

VARIABLE kind

vars == <<guard, m, slices, loader, kind>>

Init ==
  /\ kind \in {"store", "slice", "loader"}
  /\ GuardInit
  /\ StoreInit /\ (kind # "store" => m = empty)
  /\ SliceInit /\ (kind # "slice" => s.len = 0)
  /\ LoaderInit /\ (kind # "loader" => nlines = 1 /\ chunkSize = 1)

\* Only the LazyLoader has a sync.Mutex, which has no readers.
Calls(g) ==
  /\ \/ CallWrite(g)
     \/ kind # "loader" /\ CallRead(g)
     \/ CallsBack(g)
  /\ UNCHANGED <<m, slices, loader, kind>>

Proceeds(g) ==
  /\ \/ kind = "store" /\ StoreOp(g) /\ UNCHANGED <<slices, loader>>
     \/ kind = "slice" /\ SliceOp(g) /\ UNCHANGED <<m, loader>>
     \/ kind = "loader" /\ LoaderOp(g) /\ UNCHANGED <<m, slices>>
  /\ UNCHANGED kind

Next == \E g \in Goroutines : Calls(g) \/ Proceeds(g)

(***************************************************************************)
(* Fairness.  Callbacks return and a goroutine that holds the lock goes    *)
(* on; among the goroutines that wait in Lock, sync.Mutex serves one that  *)
(* starves: strong fairness.  Nothing makes a goroutine call an operation. *)
(***************************************************************************)
Spec ==
  /\ Init /\ [][Next]_vars
  /\ \A g \in Goroutines :
       /\ WF_vars(stage[g] \in {"rlock", "reading", "writing"} /\ Proceeds(g))
       /\ SF_vars(stage[g] = "lock" /\ Proceeds(g))

-----------------------------------------------------------------------------
(***************************************************************************)
(* Properties                                                              *)
(***************************************************************************)
Data == CASE kind = "store"  -> m
          [] kind = "slice"  -> Contents(s)
          [] kind = "loader" -> chunks

\* While a callback runs, the data is as the callback was shown it: no Put,
\* append, Delete, Clear or load of another goroutine comes between what
\* Update, UpdateAt or GetChunk read and what it writes, and an iteration
\* sees one state.
CallbackSeesCurrent ==
  \A g \in Goroutines : stage[g] \in {"reading", "writing", "stuck"} => shown[g] = Data

\* Every operation returns, however the others keep coming and whether
\* callbacks return or panic, unless a callback calls the object it runs
\* under.
CallsReturn ==
  \A g \in Goroutines :
    stage[g] # "idle" ~> (stage[g] = "idle" \/ \E h \in Goroutines : stage[h] = "stuck")

\* Update, Find, UpdateAt and Delete of the safe containers, and loadFn, run
\* the client's code with the lock held; nothing in the API of Update or
\* GetChunk forbids a call back, and one blocks for ever.
CallbacksReturn == \A g \in Goroutines : stage[g] = "stuck" ~> stage[g] = "idle"
=============================================================================
