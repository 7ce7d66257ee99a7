-------------------------- MODULE WorkerPool_proof --------------------------
(***************************************************************************)
(* Proofs about the worker pool, for any number of tasks, workers and      *)
(* clients, any queue size and any sequence of calls.                      *)
(***************************************************************************)
EXTENDS PoolBatch, FiniteSetTheorems, SequenceTheorems, TLAPS

(***************************************************************************)
(* Channels                                                                *)
(***************************************************************************)
\* A send that does not block keeps a channel within its capacity.
LEMMA PutOrDropType ==
  ASSUME NEW ch \in Seq(Tasks), Len(ch) <= QueueSize, NEW x \in Tasks
  PROVE  PutOrDrop(ch, x) \in Seq(Tasks) /\ Len(PutOrDrop(ch, x)) <= QueueSize
  <1>1. Append(ch, x) \in Seq(Tasks) /\ Len(Append(ch, x)) = Len(ch) + 1
    BY AppendProperties
  <1> QED BY <1>1, PoolAssumption, LenProperties DEF PutOrDrop, Room

\* So does a send where there is room.
LEMMA SendType ==
  ASSUME NEW ch \in Seq(Tasks), Room(ch), NEW x \in Tasks
  PROVE  Append(ch, x) \in Seq(Tasks) /\ Len(Append(ch, x)) <= QueueSize
  <1>1. Append(ch, x) \in Seq(Tasks) /\ Len(Append(ch, x)) = Len(ch) + 1
    BY AppendProperties
  <1> QED BY <1>1, PoolAssumption, LenProperties DEF Room

\* A receive takes a value out.
LEMMA ReceiveType ==
  ASSUME NEW ch \in Seq(Tasks), Len(ch) <= QueueSize, ch # <<>>
  PROVE  Head(ch) \in Tasks /\ Tail(ch) \in Seq(Tasks) /\ Len(Tail(ch)) <= QueueSize
  <1>1. Tail(ch) \in Seq(Tasks) /\ Len(Tail(ch)) = Len(ch) - 1 /\ Head(ch) \in Tasks
    BY HeadTailProperties
  <1> QED BY <1>1, PoolAssumption, LenProperties

(***************************************************************************)
(* The tokens of p.sem                                                     *)
(***************************************************************************)
LEMMA HoldingFinite ==
  /\ IsFiniteSet(Holding) /\ Cardinality(Holding) \in Nat
  /\ semCap \in Nat
  <1>1. Holding \in SUBSET Workers /\ InitialWorkers \in SUBSET Workers
    BY PoolAssumption DEF Holding
  <1>2. IsFiniteSet(Holding) /\ IsFiniteSet(InitialWorkers)
    BY <1>1, PoolAssumption, FS_Subset
  <1> QED BY <1>2, FS_CardinalityType DEF semCap

\* A worker that moves between two places, neither or both of which hold a
\* token, changes nothing.
LEMMA KeepTokens ==
  ASSUME TokensOK, UNCHANGED sem, Holding' = Holding
  PROVE  TokensOK'
  BY DEF TokensOK, semCap

\* A worker that moves to another place holds a token or not by that place.
LEMMA MoveHolding ==
  ASSUME TypeOK, NEW w \in Workers, NEW p, Goto(w, p)
  PROVE  /\ \A v \in Workers : wpc'[v] = IF v = w THEN p ELSE wpc[v]
         /\ p \in {"acquired", "run", "release"} => Holding' = Holding \cup {w}
         /\ p \notin {"acquired", "run", "release"} => Holding' = Holding \ {w}
  <1>1. \A v \in Workers : wpc'[v] = IF v = w THEN p ELSE wpc[v]
    BY DEF Goto, TypeOK
  <1> QED BY <1>1 DEF Holding

\* p.sem <- struct{}{}
LEMMA TakeToken ==
  ASSUME TypeOK, TokensOK, NEW w \in Workers, SemAcquire(w)
  PROVE  TokensOK'
  <1>1. Holding' = Holding \cup {w} /\ w \notin Holding
    <2>1. wpc[w] = "sem" /\ Goto(w, "acquired")
      BY DEF SemAcquire
    <2> QED BY <2>1, MoveHolding DEF Holding
  <1>2. Cardinality(Holding \cup {w}) = Cardinality(Holding) + 1
    BY <1>1, HoldingFinite, FS_AddElement
  <1>3. sem < semCap /\ sem' = sem + 1 /\ semCap' = semCap
    BY DEF SemAcquire, SemFree, semCap
  <1> QED BY <1>1, <1>2, <1>3, HoldingFinite DEF TokensOK

\* <-p.sem
LEMMA GiveToken ==
  ASSUME TypeOK, TokensOK, NEW w \in Workers, SemRelease(w)
  PROVE  TokensOK' /\ sem' \in Nat
  <1>1. Holding' = Holding \ {w} /\ w \in Holding
    <2>1. wpc[w] = "release" /\ Goto(w, "uncount")
      BY DEF SemRelease
    <2> QED BY <2>1, MoveHolding DEF Holding
  <1>2. Cardinality(Holding \ {w}) = Cardinality(Holding) - 1
    BY <1>1, HoldingFinite, FS_RemoveElement
  <1>3. Cardinality(Holding \ {w}) \in Nat
    BY HoldingFinite, FS_RemoveElement, FS_CardinalityType
  <1>4. sem' = sem - 1 /\ semCap' = semCap
    BY DEF SemRelease, semCap
  <1> QED BY <1>1, <1>2, <1>3, <1>4, HoldingFinite DEF TokensOK

\* Tokens stay accounted for if neither they nor the workers move.
LEMMA SameWorkers ==
  ASSUME TokensOK, UNCHANGED <<sem, wpc>>
  PROVE  TokensOK'
  BY KeepTokens DEF Holding

(***************************************************************************)
(* Every step keeps IndInv.                                                *)
(***************************************************************************)
LEMMA InitInv == Init => IndInv
  <1> SUFFICES ASSUME Init PROVE IndInv
    OBVIOUS
  <1>1. Holding = {} /\ Cardinality({}) = 0
    BY FS_EmptySet DEF Holding, Init
  <1>2. TokensOK
    BY <1>1, HoldingFinite DEF TokensOK, Init
  <1>3. TypeOK
    <2>1. <<>> \in Seq(Tasks) /\ Len(<<>>) = 0 /\ 0 <= QueueSize
      BY PoolAssumption
    <2>2. /\ started \in BOOLEAN /\ closed \in BOOLEAN /\ ctxDone \in BOOLEAN
          /\ tasksClosed \in BOOLEAN /\ resultsClosed \in BOOLEAN
          /\ tasks \in Seq(Tasks) /\ Len(tasks) <= QueueSize
          /\ results \in Seq(Tasks) /\ Len(results) <= QueueSize
      BY <2>1 DEF Init
    <2>3. /\ sem \in Nat /\ active \in Int /\ queued \in Int
          /\ executed \in [Tasks -> Nat]
          /\ wpc \in [Workers -> WorkerPlaces]
          /\ wtask \in [Workers -> Tasks \cup {NoTask}]
          /\ got \in [Tasks -> Tasks \cup {NoTask, Zero}]
      BY DEF Init, WorkerPlaces
    <2>4. pending \in [Drainers -> SUBSET Tasks]
      BY DEF Init
    <2> QED BY <2>2, <2>3, <2>4 DEF Init, TypeOK
  <1>4. InHandOK
    BY DEF Init, InHandOK
  <1>5. StartedOK
    BY DEF Init, StartedOK
  <1> QED BY <1>2, <1>3, <1>4, <1>5 DEF IndInv

\* Start puts the first workers at their loop, once, when nobody is at work.
LEMMA StartInv ==
  ASSUME IndInv, startLocked, UNCHANGED <<got, resultsClosed, rpc>>
  PROVE  /\ wpc' \in [Workers -> WorkerPlaces] /\ started' \in BOOLEAN
         /\ TokensOK' /\ StartedOK'
         /\ \A w \in Workers : wpc'[w] = wpc[w] \/ wpc'[w] = "loop"
  <1> USE DEF IndInv
  <1>1. CASE started \/ closed
    <2>1. UNCHANGED <<started, wpc, sem>>
      BY <1>1 DEF startLocked
    <2>2. TokensOK'
      BY <2>1, SameWorkers
    <2> QED BY <2>1, <2>2 DEF TypeOK, StartedOK
  <1>2. CASE ~(started \/ closed)
    <2>1. /\ started' = TRUE /\ UNCHANGED sem
          /\ wpc' = [w \in Workers |-> IF w \in InitialWorkers THEN "loop" ELSE wpc[w]]
      BY <1>2 DEF startLocked
    <2>2. \A w \in Workers : wpc[w] = "none"
      BY <1>2 DEF StartedOK
    <2>3. Holding' = Holding
      BY <2>1, <2>2 DEF Holding
    <2>4. TokensOK'
      BY <2>1, <2>3, KeepTokens
    <2> QED BY <2>1, <2>2, <2>4 DEF StartedOK, WorkerPlaces
  <1> QED BY <1>1, <1>2

\* A send on a closed channel ends the program and changes nothing else.
LEMMA PanicInv ==
  ASSUME IndInv, NEW who \in {"submit", "wait", "worker", "result"}, Panic(who)
  PROVE  IndInv'
  <1> USE DEF IndInv
  <1>1. UNCHANGED <<flags, channels, workers, submits, resizes, spc, drains>>
    BY DEF Panic
  <1>2. TypeOK'
    BY <1>1 DEF TypeOK, Panic, flags, channels, workers, submits, resizes, drains
  <1>3. TokensOK'
    BY <1>1, SameWorkers DEF workers
  <1> QED BY <1>1, <1>2, <1>3
      DEF InHandOK, StartedOK, flags, channels, workers, submits, resizes

\* Every step of Submit and SubmitWait preserves the invariant.
LEMMA SubmitInv ==
  ASSUME IndInv, NEW t \in Tasks, Submit(t)
  PROVE  IndInv'
  <1> USE DEF IndInv
  <1>1. CASE SubmitCheck(t)
    <2>1. startLocked /\ UNCHANGED <<got, resultsClosed, rpc>>
      BY <1>1 DEF SubmitCheck, channels, resizes
    <2>2. TypeOK'
      <3>1. wpc' \in [Workers -> WorkerPlaces] /\ started' \in BOOLEAN
        BY <2>1, StartInv
      <3>2. UNCHANGED <<closed, ctxDone, sem, active, executed, wtask>>
        BY <2>1 DEF startLocked
      <3> QED BY <1>1, <3>1, <3>2
          DEF TypeOK, SubmitCheck, Becomes, NoPanic, channels, resizes, drains
    <2>3. InHandOK'
      BY <1>1, <2>1, StartInv DEF TypeOK, InHandOK, SubmitCheck, startLocked, Becomes
    <2> QED BY <2>1, <2>2, <2>3, StartInv
  <1>2. ASSUME SubmitFrame PROVE TokensOK' /\ StartedOK'
    BY <1>2, SameWorkers DEF SubmitFrame, StartedOK, workers, flags, resizes
  <1>3. CASE SubmitClosed(t)
    <2>1. TypeOK'
      BY <1>3 DEF TypeOK, SubmitClosed, SubmitFrame, Becomes, NoPanic, flags, channels,
                  workers, resizes, drains
    <2>2. InHandOK'
      BY <1>3 DEF TypeOK, InHandOK, SubmitClosed, SubmitFrame, Becomes, channels, workers
    <2> QED BY <1>2, <1>3, <2>1, <2>2 DEF SubmitClosed
  <1>4. CASE SubmitSend(t)
    <2>1. tasks' \in Seq(Tasks) /\ Len(tasks') <= QueueSize
      BY <1>4, SendType DEF SubmitSend, TypeOK
    <2>2. TypeOK'
      BY <1>4, <2>1 DEF TypeOK, SubmitSend, SubmitFrame, Becomes, NoPanic, flags,
                  workers, resizes, drains
    <2>3. InHandOK'
      BY <1>4 DEF TypeOK, InHandOK, SubmitSend, SubmitFrame, Becomes, workers
    <2> QED BY <1>2, <1>4, <2>2, <2>3 DEF SubmitSend
  <1>5. CASE SubmitReject(t)
    <2>1. TypeOK'
      BY <1>5 DEF TypeOK, SubmitReject, Refuse, SubmitFrame, Becomes, NoPanic, flags,
                  channels, workers, resizes, drains
    <2>2. InHandOK'
      BY <1>5 DEF TypeOK, InHandOK, SubmitReject, Refuse, SubmitFrame, Becomes, channels,
                  workers
    <2> QED BY <1>2, <1>5, <2>1, <2>2 DEF SubmitReject
  <1>6. CASE WaitGivesUp(t)
    <2>1. TypeOK'
      BY <1>6 DEF TypeOK, WaitGivesUp, SubmitFrame, Becomes, NoPanic, flags, channels,
                  workers, resizes, drains
    <2>2. InHandOK'
      BY <1>6 DEF TypeOK, InHandOK, WaitGivesUp, SubmitFrame, Becomes, channels, workers
    <2> QED BY <1>2, <1>6, <2>1, <2>2 DEF WaitGivesUp
  <1>7. CASE WaitServed(t)
    <2>1. results' \in Seq(Tasks) /\ Len(results') <= QueueSize
      BY <1>7, ReceiveType DEF WaitServed, TypeOK
    <2>2. TypeOK'
      BY <1>7, <2>1 DEF TypeOK, WaitServed, SubmitFrame, Becomes, NoPanic, flags,
                  workers, resizes, drains
    <2>3. InHandOK'
      BY <1>7 DEF TypeOK, InHandOK, WaitServed, SubmitFrame, Becomes, workers
    <2> QED BY <1>2, <1>7, <2>2, <2>3 DEF WaitServed
  <1>8. CASE WaitOther(t)
    <2>1. /\ results' \in Seq(Tasks) /\ Len(results') <= QueueSize
          /\ got' \in [Tasks -> Tasks \cup {NoTask, Zero}]
          /\ got'[t] \in Tasks \/ resultsClosed
          /\ \A u \in Tasks \ {t} : got'[u] = got[u]
      <3>1. CASE results # <<>> /\ got' = [got EXCEPT ![t] = Head(results)]
                 /\ results' = Tail(results)
        BY <3>1, ReceiveType DEF TypeOK
      <3>2. CASE resultsClosed /\ got' = [got EXCEPT ![t] = Zero] /\ UNCHANGED results
        BY <3>2 DEF TypeOK
      <3> QED BY <1>8, <3>1, <3>2 DEF WaitOther
    <2>2. TypeOK'
      BY <1>8, <2>1 DEF TypeOK, WaitOther, SubmitFrame, Becomes, NoPanic, flags,
                  workers, resizes, drains
    <2>3. InHandOK'
      BY <1>8, <2>1 DEF TypeOK, InHandOK, WaitOther, SubmitFrame, Becomes, workers
    <2> QED BY <1>2, <1>8, <2>2, <2>3 DEF WaitOther
  <1>9. CASE WaitPutBack(t)
    <2>1. got[t] \in Tasks
      BY <1>9 DEF WaitPutBack, InHandOK
    <2>2. results' \in Seq(Tasks) /\ Len(results') <= QueueSize
      BY <1>9, <2>1, PutOrDropType DEF WaitPutBack, TypeOK
    <2>3. TypeOK'
      BY <1>9, <2>2 DEF TypeOK, WaitPutBack, SubmitFrame, Becomes, NoPanic, flags,
                  workers, resizes, drains
    <2>4. InHandOK'
      BY <1>9 DEF TypeOK, InHandOK, WaitPutBack, SubmitFrame, Becomes, workers
    <2> QED BY <1>2, <1>9, <2>3, <2>4 DEF WaitPutBack
  <1>10. CASE SubmitPanics(t) \/ WaitPanics(t)
    BY <1>10, PanicInv DEF SubmitPanics, WaitPanics
  <1> QED BY <1>1, <1>3, <1>4, <1>5, <1>6, <1>7, <1>8, <1>9, <1>10 DEF Submit

\* Every step of a worker preserves the invariant.
LEMMA WorkerInv ==
  ASSUME IndInv, NEW w \in Workers, Worker(w)
  PROVE  IndInv'
  <1> USE DEF IndInv
  \* What the moves of a worker have in common.
  <1>0. ASSUME NEW p \in WorkerPlaces, Goto(w, p), wpc[w] # "none", WorkerFrame
        PROVE  /\ wpc' \in [Workers -> WorkerPlaces] /\ StartedOK'
               /\ \A v \in Workers : wpc'[v] = IF v = w THEN p ELSE wpc[v]
               /\ UNCHANGED sem /\ (w \in Holding <=> p \in {"acquired", "run", "release"})
                    => TokensOK'
    <2>1. \A v \in Workers : wpc'[v] = IF v = w THEN p ELSE wpc[v]
      BY <1>0, MoveHolding
    <2>2. StartedOK'
      BY <1>0, <2>1 DEF StartedOK, WorkerFrame, flags, resizes
    <2>3. ASSUME UNCHANGED sem, w \in Holding <=> p \in {"acquired", "run", "release"}
          PROVE  TokensOK'
      <3>1. Holding' = Holding
        BY <1>0, <2>3, MoveHolding
      <3> QED BY <2>3, <3>1, KeepTokens
    <2>4. wpc' \in [Workers -> WorkerPlaces]
      BY <1>0 DEF Goto, TypeOK
    <2> QED BY <2>1, <2>2, <2>3, <2>4
  <1>1. CASE WorkerCancelled(w)
    <2>1. Goto(w, "exit") /\ wpc[w] # "none" /\ WorkerFrame /\ "exit" \in WorkerPlaces
      BY <1>1 DEF WorkerCancelled, WorkerPlaces
    <2>2. /\ wpc' \in [Workers -> WorkerPlaces] /\ StartedOK'
          /\ \A v \in Workers : wpc'[v] = IF v = w THEN "exit" ELSE wpc[v]
      BY <1>0, <2>1
    <2>3. TypeOK'
      BY <1>1, <2>2 DEF TypeOK, WorkerCancelled, WorkerFrame, NoPanic, flags, channels, submits, resizes,
                  drains
    <2>4. InHandOK'
      BY <1>1, <2>2 DEF TypeOK, InHandOK, WorkerCancelled, WorkerFrame, channels, submits
    <2>5. TokensOK'
      BY <1>1, <1>0, <2>1 DEF WorkerCancelled, Holding
    <2> QED BY <2>2, <2>3, <2>4, <2>5
  <1>2. CASE WorkerTakes(w)
    <2>1. Goto(w, "sem") /\ wpc[w] # "none" /\ WorkerFrame /\ "sem" \in WorkerPlaces
      BY <1>2 DEF WorkerTakes, WorkerPlaces
    <2>2. /\ wpc' \in [Workers -> WorkerPlaces] /\ StartedOK'
          /\ \A v \in Workers : wpc'[v] = IF v = w THEN "sem" ELSE wpc[v]
      BY <1>0, <2>1
    <2>3. /\ tasks' \in Seq(Tasks) /\ Len(tasks') <= QueueSize
          /\ wtask' \in [Workers -> Tasks \cup {NoTask}] /\ wtask'[w] \in Tasks
          /\ \A v \in Workers \ {w} : wtask'[v] = wtask[v]
      BY <1>2, ReceiveType DEF WorkerTakes, TypeOK
    <2>4. TypeOK'
      BY <1>2, <2>2, <2>3 DEF TypeOK, WorkerTakes, WorkerFrame, NoPanic, flags, submits, resizes,
                  drains
    <2>5. InHandOK'
      BY <1>2, <2>2, <2>3 DEF TypeOK, InHandOK, WorkerTakes, WorkerFrame, submits
    <2>6. TokensOK'
      BY <1>2, <1>0, <2>1 DEF WorkerTakes, Holding
    <2> QED BY <2>2, <2>4, <2>5, <2>6
  <1>3. CASE WorkerEnds(w)
    <2>1. Goto(w, "exit") /\ wpc[w] # "none" /\ WorkerFrame /\ "exit" \in WorkerPlaces
      BY <1>3 DEF WorkerEnds, WorkerPlaces
    <2>2. /\ wpc' \in [Workers -> WorkerPlaces] /\ StartedOK'
          /\ \A v \in Workers : wpc'[v] = IF v = w THEN "exit" ELSE wpc[v]
      BY <1>0, <2>1
    <2>3. TypeOK'
      BY <1>3, <2>2 DEF TypeOK, WorkerEnds, WorkerFrame, NoPanic, flags, channels, submits, resizes,
                  drains
    <2>4. InHandOK'
      BY <1>3, <2>2 DEF TypeOK, InHandOK, WorkerEnds, WorkerFrame, channels, submits
    <2>5. TokensOK'
      BY <1>3, <1>0, <2>1 DEF WorkerEnds, Holding
    <2> QED BY <2>2, <2>3, <2>4, <2>5
  <1>4. CASE SemAcquire(w)
    <2>1. Goto(w, "acquired") /\ wpc[w] # "none" /\ WorkerFrame /\ "acquired" \in WorkerPlaces
      BY <1>4 DEF SemAcquire, WorkerPlaces
    <2>2. /\ wpc' \in [Workers -> WorkerPlaces] /\ StartedOK'
          /\ \A v \in Workers : wpc'[v] = IF v = w THEN "acquired" ELSE wpc[v]
      BY <1>0, <2>1
    <2>3. TokensOK' /\ sem' \in Nat
      BY <1>4, TakeToken DEF SemAcquire, TypeOK
    <2>4. TypeOK'
      BY <1>4, <2>2, <2>3 DEF TypeOK, SemAcquire, WorkerFrame, NoPanic, flags, channels, submits, resizes,
                  drains
    <2>5. InHandOK'
      BY <1>4, <2>2 DEF TypeOK, InHandOK, SemAcquire, WorkerFrame, channels, submits
    <2> QED BY <2>2, <2>3, <2>4, <2>5
  <1>5. CASE CountActive(w)
    <2>1. Goto(w, "run") /\ wpc[w] # "none" /\ WorkerFrame /\ "run" \in WorkerPlaces
      BY <1>5 DEF CountActive, WorkerPlaces
    <2>2. /\ wpc' \in [Workers -> WorkerPlaces] /\ StartedOK'
          /\ \A v \in Workers : wpc'[v] = IF v = w THEN "run" ELSE wpc[v]
      BY <1>0, <2>1
    <2>3. TypeOK'
      BY <1>5, <2>2 DEF TypeOK, CountActive, WorkerFrame, NoPanic, flags, channels, submits, resizes,
                  drains
    <2>4. InHandOK'
      BY <1>5, <2>2 DEF TypeOK, InHandOK, CountActive, WorkerFrame, channels, submits
    <2>5. TokensOK'
      BY <1>5, <1>0, <2>1 DEF CountActive, Holding
    <2> QED BY <2>2, <2>3, <2>4, <2>5
  <1>6. CASE ExecuteTask(w)
    <2>1. Goto(w, "release") /\ wpc[w] # "none" /\ WorkerFrame /\ "release" \in WorkerPlaces
      BY <1>6 DEF ExecuteTask, WorkerPlaces
    <2>2. /\ wpc' \in [Workers -> WorkerPlaces] /\ StartedOK'
          /\ \A v \in Workers : wpc'[v] = IF v = w THEN "release" ELSE wpc[v]
      BY <1>0, <2>1
    <2>3. wtask[w] \in Tasks
      BY <1>6 DEF ExecuteTask, InHandOK
    <2>4. executed' \in [Tasks -> Nat]
      BY <1>6, <2>3 DEF ExecuteTask, TypeOK
    <2>5. TypeOK'
      BY <1>6, <2>2, <2>4 DEF TypeOK, ExecuteTask, WorkerFrame, NoPanic, flags, channels, submits, resizes,
                  drains
    <2>6. InHandOK'
      BY <1>6, <2>2 DEF TypeOK, InHandOK, ExecuteTask, WorkerFrame, channels, submits
    <2>7. TokensOK'
      BY <1>6, <1>0, <2>1 DEF ExecuteTask, Holding
    <2> QED BY <2>2, <2>5, <2>6, <2>7
  <1>7. CASE SemRelease(w)
    <2>1. Goto(w, "uncount") /\ wpc[w] # "none" /\ WorkerFrame /\ "uncount" \in WorkerPlaces
      BY <1>7 DEF SemRelease, WorkerPlaces
    <2>2. /\ wpc' \in [Workers -> WorkerPlaces] /\ StartedOK'
          /\ \A v \in Workers : wpc'[v] = IF v = w THEN "uncount" ELSE wpc[v]
      BY <1>0, <2>1
    <2>3. TokensOK' /\ sem' \in Nat
      BY <1>7, GiveToken
    <2>4. TypeOK'
      BY <1>7, <2>2, <2>3 DEF TypeOK, SemRelease, WorkerFrame, NoPanic, flags, channels, submits, resizes,
                  drains
    <2>5. InHandOK'
      BY <1>7, <2>2 DEF TypeOK, InHandOK, SemRelease, WorkerFrame, channels, submits
    <2> QED BY <2>2, <2>3, <2>4, <2>5
  <1>8. CASE UncountActive(w)
    <2>1. Goto(w, "send") /\ wpc[w] # "none" /\ WorkerFrame /\ "send" \in WorkerPlaces
      BY <1>8 DEF UncountActive, WorkerPlaces
    <2>2. /\ wpc' \in [Workers -> WorkerPlaces] /\ StartedOK'
          /\ \A v \in Workers : wpc'[v] = IF v = w THEN "send" ELSE wpc[v]
      BY <1>0, <2>1
    <2>3. TypeOK'
      BY <1>8, <2>2 DEF TypeOK, UncountActive, WorkerFrame, NoPanic, flags, channels, submits, resizes,
                  drains
    <2>4. InHandOK'
      BY <1>8, <2>2 DEF TypeOK, InHandOK, UncountActive, WorkerFrame, channels, submits
    <2>5. TokensOK'
      BY <1>8, <1>0, <2>1 DEF UncountActive, Holding
    <2> QED BY <2>2, <2>3, <2>4, <2>5
  <1>9. CASE SendResult(w)
    <2>1. Goto(w, "loop") /\ wpc[w] # "none" /\ WorkerFrame /\ "loop" \in WorkerPlaces
      BY <1>9 DEF SendResult, WorkerPlaces
    <2>2. /\ wpc' \in [Workers -> WorkerPlaces] /\ StartedOK'
          /\ \A v \in Workers : wpc'[v] = IF v = w THEN "loop" ELSE wpc[v]
      BY <1>0, <2>1
    <2>3. wtask[w] \in Tasks
      BY <1>9 DEF SendResult, InHandOK
    <2>4. results' \in Seq(Tasks) /\ Len(results') <= QueueSize
      BY <1>9, <2>3, PutOrDropType DEF SendResult, TypeOK
    <2>5. TypeOK'
      BY <1>9, <2>2, <2>4 DEF TypeOK, SendResult, WorkerFrame, NoPanic, flags, submits, resizes,
                  drains
    <2>6. InHandOK'
      BY <1>9, <2>2 DEF TypeOK, InHandOK, SendResult, WorkerFrame, submits
    <2>7. TokensOK'
      BY <1>9, <1>0, <2>1 DEF SendResult, Holding
    <2> QED BY <2>2, <2>5, <2>6, <2>7
  <1>10. CASE WorkerPutBack(w)
    <2>1. Goto(w, "exit") /\ wpc[w] # "none" /\ WorkerFrame /\ "exit" \in WorkerPlaces
      BY <1>10 DEF WorkerPutBack, WorkerPlaces
    <2>2. /\ wpc' \in [Workers -> WorkerPlaces] /\ StartedOK'
          /\ \A v \in Workers : wpc'[v] = IF v = w THEN "exit" ELSE wpc[v]
      BY <1>0, <2>1
    <2>3. wtask[w] \in Tasks
      BY <1>10 DEF WorkerPutBack, InHandOK
    <2>4. tasks' \in Seq(Tasks) /\ Len(tasks') <= QueueSize
      BY <1>10, <2>3, PutOrDropType DEF WorkerPutBack, TypeOK
    <2>5. TypeOK'
      BY <1>10, <2>2, <2>4 DEF TypeOK, WorkerPutBack, WorkerFrame, NoPanic, flags, submits, resizes,
                  drains
    <2>6. InHandOK'
      BY <1>10, <2>2 DEF TypeOK, InHandOK, WorkerPutBack, WorkerFrame, submits
    <2>7. TokensOK'
      BY <1>10, <1>0, <2>1 DEF WorkerPutBack, Holding
    <2> QED BY <2>2, <2>5, <2>6, <2>7
  <1>11. CASE WorkerExits(w)
    <2>1. Goto(w, "none") /\ wpc[w] # "none" /\ WorkerFrame /\ "none" \in WorkerPlaces
      BY <1>11 DEF WorkerExits, WorkerPlaces
    <2>2. /\ wpc' \in [Workers -> WorkerPlaces] /\ StartedOK'
          /\ \A v \in Workers : wpc'[v] = IF v = w THEN "none" ELSE wpc[v]
      BY <1>0, <2>1
    <2>3. TypeOK'
      BY <1>11, <2>2 DEF TypeOK, WorkerExits, WorkerFrame, NoPanic, flags, channels, submits, resizes,
                  drains
    <2>4. InHandOK'
      BY <1>11, <2>2 DEF TypeOK, InHandOK, WorkerExits, WorkerFrame, channels, submits
    <2>5. TokensOK'
      BY <1>11, <1>0, <2>1 DEF WorkerExits, Holding
    <2> QED BY <2>2, <2>3, <2>4, <2>5
  <1>12. CASE SendResultPanics(w) \/ PutBackPanics(w)
    BY <1>12, PanicInv DEF SendResultPanics, PutBackPanics
  <1> QED BY <1>1, <1>2, <1>3, <1>4, <1>5, <1>6, <1>7, <1>8, <1>9, <1>10, <1>11, <1>12
      DEF Worker

\* Every step of Resize preserves the invariant.
LEMMA ResizeInv ==
  ASSUME IndInv, NEW r \in Resizers, Resize(r)
  PROVE  IndInv'
  <1> USE DEF IndInv
  <1>0. workerCount \in Nat
    <2>1. Live \in SUBSET Workers
      BY DEF Live
    <2> QED BY <2>1, PoolAssumption, FS_Subset, FS_CardinalityType DEF workerCount
  <1>1. ASSUME UNCHANGED workers, ResizeFrame PROVE InHandOK' /\ TokensOK'
    <2>1. TokensOK'
      BY <1>1, SameWorkers DEF workers
    <2> QED BY <1>1, <2>1 DEF InHandOK, workers, ResizeFrame, channels, submits
  <1>2. ASSUME NEW n \in Sizes, ResizeCheck(r, n) PROVE IndInv'
    <2>1. TypeOK'
      BY <1>2, PoolAssumption
      DEF TypeOK, ResizeCheck, ResizeFrame, NoPanic, flags, channels, workers, submits, drains
    <2>2. StartedOK'
      BY <1>2 DEF TypeOK, StartedOK, ResizeCheck, ResizeFrame, flags, workers
    <2> QED BY <1>1, <1>2, <2>1, <2>2 DEF ResizeCheck
  <1>3. CASE ResizeLock(r)
    <2>1. /\ rpc' \in [Resizers -> {"idle", "lock", "grow", "shrink", "done"}]
          /\ left' \in [Resizers -> Int]
          /\ resizeMu' \in Resizers \cup {Nobody}
      <3>1. left[r] \in Int /\ left[r] - workerCount \in Int /\ workerCount - left[r] \in Int
        BY <1>0 DEF TypeOK
      <3> QED BY <1>3, <3>1 DEF TypeOK, ResizeLock
    <2>3. TypeOK'
      BY <1>3, <2>1 DEF TypeOK, ResizeLock, ResizeFrame, NoPanic, flags, channels,
          workers, submits, drains
    <2>2. StartedOK'
      BY <1>3 DEF TypeOK, StartedOK, ResizeLock, ResizeFrame, flags, workers
    <2> QED BY <1>1, <1>3, <2>2, <2>3 DEF ResizeLock
  <1>4. ASSUME NEW w \in Workers, ResizeStarts(r, w) PROVE IndInv'
    <2>1. Goto(w, "loop") /\ w \notin Holding /\ UNCHANGED sem /\ started
      BY <1>4 DEF ResizeStarts, Holding, StartedOK
    <2>2. \A v \in Workers : wpc'[v] = IF v = w THEN "loop" ELSE wpc[v]
      BY <2>1, MoveHolding
    <2>3. TokensOK'
      BY <2>1, MoveHolding, KeepTokens
    <2>4. TypeOK'
      BY <1>4
      DEF TypeOK, WorkerPlaces, ResizeStarts, Goto, ResizeFrame, NoPanic, flags, channels,
          submits, drains
    <2>5. InHandOK' /\ StartedOK'
      BY <1>4, <2>1, <2>2
      DEF InHandOK, StartedOK, ResizeStarts, ResizeFrame, flags, channels, submits
    <2> QED BY <2>3, <2>4, <2>5
  <1>5. ASSUME NEW w \in Workers, ResizeStops(r, w) PROVE IndInv'
    <2>1. PICK p \in {"exit", "putback"} :
            /\ Goto(w, p) /\ (p = "putback" => wpc[w] = "sem")
            /\ w \notin Holding /\ UNCHANGED sem /\ started
      BY <1>5 DEF ResizeStops, Holding, StartedOK
    <2>2. \A v \in Workers : wpc'[v] = IF v = w THEN p ELSE wpc[v]
      BY <2>1, MoveHolding
    <2>3. TokensOK'
      BY <2>1, MoveHolding, KeepTokens
    <2>4. TypeOK'
      BY <1>5, <2>1
      DEF TypeOK, WorkerPlaces, ResizeStops, Goto, ResizeFrame, NoPanic, flags, channels,
          submits, drains
    <2>5. InHandOK' /\ StartedOK'
      BY <1>5, <2>1, <2>2
      DEF InHandOK, StartedOK, ResizeStops, ResizeFrame, flags, channels, submits
    <2> QED BY <2>3, <2>4, <2>5
  <1>6. CASE ResizeReturns(r)
    <2>1. TypeOK'
      BY <1>6
      DEF TypeOK, ResizeReturns, ResizeFrame, NoPanic, flags, channels, workers, submits, drains
    <2>2. StartedOK'
      BY <1>6 DEF TypeOK, StartedOK, ResizeReturns, ResizeFrame, flags, workers
    <2> QED BY <1>1, <1>6, <2>1, <2>2 DEF ResizeReturns
  <1> QED BY <1>2, <1>3, <1>4, <1>5, <1>6 DEF Resize

\* The steps of Shutdown, Stop and WaitForDrain leave the workers alone, and
\* only ever set the flags.
LEMMA ShutdownInv ==
  ASSUME IndInv, NEW s \in Closers, Shutdown(s)
  PROVE  IndInv'
  <1> USE DEF IndInv
  <1>1. /\ RestUnchanged /\ UNCHANGED <<started, tasks, results>>
        /\ resultsClosed' = resultsClosed \/ resultsClosed' = TRUE
        /\ closed' \in BOOLEAN /\ ctxDone' \in BOOLEAN
        /\ tasksClosed' \in BOOLEAN /\ resultsClosed' \in BOOLEAN
        /\ \E p \in {"stop", "close", "wait", "drain", "results", "done"} :
             spc' = [spc EXCEPT ![s] = p]
    BY DEF Shutdown, StopCancels, ShutdownBegins, ShutdownAgain, CloseTasks,
           ShutdownTimesOut, WorkersGone, CloseResults, CloserAt, flags, channels, TypeOK
  <1>2. TypeOK'
    BY <1>1 DEF TypeOK, RestUnchanged, NoPanic, workers, submits, resizes, drains
  <1>3. TokensOK'
    BY <1>1, SameWorkers DEF RestUnchanged, workers
  <1>4. InHandOK' /\ StartedOK'
    BY <1>1 DEF InHandOK, StartedOK, RestUnchanged, workers, submits, resizes
  <1> QED BY <1>2, <1>3, <1>4

\* Every step of WaitForDrain preserves the invariant.
LEMMA DrainInv ==
  ASSUME IndInv, NEW d \in Drainers, WaitForDrain(d)
  PROVE  IndInv'
  <1> USE DEF IndInv
  <1>1. /\ DrainFrame
        /\ \E p \in {"tick", "empty", "drained", "gaveup"} : dpc' = [dpc EXCEPT ![d] = p]
        /\ pending' \in [Drainers -> SUBSET Tasks]
    BY DEF WaitForDrain, DrainBegins, DrainSeesEmpty, DrainReadsActive, DrainGivesUp, DrainAt,
           Accepted, TypeOK
  <1>2. TypeOK'
    <2>1. /\ dpc' \in [Drainers -> {"idle", "tick", "empty", "drained", "gaveup"}]
          /\ pending' \in [Drainers -> SUBSET Tasks]
      <3>1. dpc \in [Drainers -> {"idle", "tick", "empty", "drained", "gaveup"}]
        BY DEF TypeOK
      <3>2. PICK p \in {"tick", "empty", "drained", "gaveup"} : dpc' = [dpc EXCEPT ![d] = p]
        BY <1>1
      <3> QED BY <1>1, <3>1, <3>2
    <2>2. UNCHANGED <<started, closed, ctxDone, tasks, tasksClosed, results, resultsClosed, sem, active,
                      queued, executed, wpc, wtask, sub, got, rpc, left, resizeMu, spc, panicked>>
      BY <1>1 DEF DrainFrame, NoPanic, flags, channels, workers, submits, resizes
    <2> QED BY <2>1, <2>2 DEF TypeOK
  <1>3. TokensOK'
    BY <1>1, SameWorkers DEF DrainFrame, workers
  <1>4. InHandOK' /\ StartedOK'
    BY <1>1 DEF InHandOK, StartedOK, DrainFrame, flags, channels, workers, submits, resizes
  <1> QED BY <1>2, <1>3, <1>4

\* Every step of the pool preserves the invariant.
LEMMA NextInv == IndInv /\ [Next]_vars => IndInv'
  <1> SUFFICES ASSUME IndInv, [Next]_vars PROVE IndInv'
    OBVIOUS
  <1>1. CASE Start
    <2>1. startLocked /\ UNCHANGED <<channels, submits, resizes, spc, drains>> /\ NoPanic
      BY <1>1 DEF Start
    <2>2. /\ wpc' \in [Workers -> WorkerPlaces] /\ started' \in BOOLEAN
          /\ TokensOK' /\ StartedOK'
          /\ \A w \in Workers : wpc'[w] = wpc[w] \/ wpc'[w] = "loop"
      BY <2>1, StartInv DEF submits, channels, resizes
    <2>3. UNCHANGED <<closed, ctxDone, sem, active, executed, wtask>>
      BY <2>1 DEF startLocked
    <2>4. TypeOK'
      BY <2>1, <2>2, <2>3 DEF IndInv, TypeOK, NoPanic, channels, submits, resizes, drains
    <2>5. InHandOK'
      BY <2>1, <2>2, <2>3 DEF IndInv, InHandOK, channels, submits
    <2> QED BY <2>2, <2>4, <2>5 DEF IndInv
  <1>2. CASE UNCHANGED vars
    <2>1. TokensOK'
      BY <1>2, SameWorkers DEF IndInv, vars, workers
    <2>2. TypeOK'
      BY <1>2 DEF IndInv, vars, flags, channels, workers, submits, resizes, drains, TypeOK
    <2> QED BY <1>2, <2>1, <2>2
        DEF IndInv, InHandOK, StartedOK, vars, flags, channels, workers, submits, resizes
  <1>3. CASE \E t \in Tasks : Submit(t)
    BY <1>3, SubmitInv
  <1>4. CASE \E w \in Workers : Worker(w)
    BY <1>4, WorkerInv
  <1>5. CASE \E r \in Resizers : Resize(r)
    BY <1>5, ResizeInv
  <1>6. CASE \E s \in Closers : Shutdown(s)
    BY <1>6, ShutdownInv
  <1>7. CASE \E d \in Drainers : WaitForDrain(d)
    BY <1>7, DrainInv
  <1> QED BY <1>1, <1>2, <1>3, <1>4, <1>5, <1>6, <1>7 DEF Next, Finished

\* Running workers hold tokens, and p.sem has one for each first worker.
LEMMA BoundedBy ==
  ASSUME IndInv
  PROVE  ConcurrencyBound
  <1>1. Running \in SUBSET Holding
    BY DEF Running, Holding
  <1>2. Cardinality(Running) <= Cardinality(Holding) /\ Cardinality(Running) \in Nat
    BY <1>1, HoldingFinite, FS_Subset, FS_CardinalityType
  <1> QED BY <1>2, HoldingFinite DEF IndInv, TokensOK, ConcurrencyBound

(***************************************************************************)
(* Theorems                                                                *)
(***************************************************************************)
\* Whatever clients, workers, Resize and Shutdown do, the invariant about
\* the tokens of p.sem, the tasks in workers' hands and p.started holds.
THEOREM Invariance == Spec => []IndInv
  <1>1. Init => IndInv
    BY InitInv
  <1>2. IndInv /\ [Next]_vars => IndInv'
    BY NextInv
  <1> QED BY <1>1, <1>2, PTL DEF Spec

\* The pool's state has its type: in particular the channels p.tasks and
\* p.results never exceed config.QueueSize and hold only tasks and results.
THEOREM TypeCorrect == Spec => []TypeOK
  <1>1. IndInv => TypeOK
    BY DEF IndInv
  <1> QED BY <1>1, Invariance, PTL

\* No more tasks run at once than the pool was made with workers, however
\* often it is resized, and every token of p.sem has a holder.
THEOREM Bounded == Spec => []ConcurrencyBound
  <1>1. IndInv => ConcurrencyBound
    BY BoundedBy
  <1> QED BY <1>1, Invariance, PTL

(***************************************************************************)
(* Orderly use: nobody submits while a Shutdown runs.                      *)
(***************************************************************************)
\* p.wg.Wait() returns only when every worker has returned.
LEMMA NobodyLive ==
  ASSUME workerCount = 0
  PROVE  \A w \in Workers : wpc[w] = "none"
  <1>1. Live \in SUBSET Workers
    BY DEF Live
  <1>2. IsFiniteSet(Live)
    BY <1>1, PoolAssumption, FS_Subset
  <1>3. Live = {}
    BY <1>2, FS_EmptySet DEF workerCount
  <1> QED BY <1>3 DEF Live

\* Every step of an orderly pool preserves its invariant.
LEMMA OrderlyNext ==
  ASSUME TypeOK, OrderlyInv, Next, Orderly, WaitTasks = {}, Resizers = {}
  PROVE  OrderlyInv'
  <1>0. /\ closed => \E s \in Closers : spc[s] # "idle"
        /\ (\E s \in Closers : spc[s] # "idle") => \A t \in Tasks : sub[t] # "send"
        /\ \A s \in Closers : spc[s] \in {"close", "wait", "drain", "results"} => closed
        /\ tasksClosed \/ resultsClosed => closed
        /\ resultsClosed \/ (\E s \in Closers : spc[s] = "results")
             => \A w \in Workers : wpc[w] = "none"
        /\ \A w \in Workers : wpc[w] # "putback"
        /\ \A t \in Tasks : sub[t] \notin {"await", "putback"}
        /\ panicked = "nobody"
    BY DEF OrderlyInv
  <1>1. ASSUME startLocked, ~closed,
               UNCHANGED <<spc, tasksClosed, resultsClosed, panicked>>,
               \A t \in Tasks : sub'[t] \notin {"await", "putback"},
               (\E s \in Closers : spc[s] # "idle") => \A t \in Tasks : sub'[t] # "send"
        PROVE  OrderlyInv'
    <2>1. ~closed' /\ \A w \in Workers : wpc'[w] # "putback"
      BY <1>0, <1>1 DEF startLocked, TypeOK
    <2> QED BY <1>0, <1>1, <2>1 DEF OrderlyInv
  <1>2. CASE Start
    BY <1>0, <1>1, <1>2 DEF Start, NoPanic, channels, submits
  <1>3. ASSUME NEW t \in Tasks, Submit(t) PROVE OrderlyInv'
    <2>1. CASE SubmitCheck(t)
      <3>1. \A s \in Closers : spc[s] = "idle"
        BY <2>1 DEF SubmitCheck, Open
      <3>2. \A u \in Tasks : sub'[u] \notin {"await", "putback"}
        BY <1>0, <2>1 DEF SubmitCheck, Becomes, TypeOK
      <3> QED BY <1>1, <2>1, <3>1, <3>2 DEF SubmitCheck, NoPanic, channels
    <2>2. CASE SubmitClosed(t) \/ SubmitSend(t) \/ SubmitReject(t)
      <3>1. /\ UNCHANGED <<closed, tasksClosed, resultsClosed, spc, wpc, panicked>>
            /\ \E p \in {"rejected", "accepted"} : sub' = [sub EXCEPT ![t] = p]
        BY <2>2 DEF SubmitClosed, SubmitSend, SubmitReject, SubmitFrame, Refuse, Becomes,
                    NoPanic, flags, channels, workers
      <3>2. \A u \in Tasks : sub'[u] \in {sub[u], "rejected", "accepted"}
        BY <3>1 DEF TypeOK
      <3> QED BY <1>0, <3>1, <3>2 DEF OrderlyInv
    <2>3. sub[t] \notin {"await", "putback"} /\ ~SubmitPanics(t)
      BY <1>0 DEF SubmitPanics
    <2> QED BY <1>3, <2>1, <2>2, <2>3
        DEF Submit, WaitGivesUp, WaitServed, WaitOther, WaitPutBack, WaitPanics
  <1>4. ASSUME NEW w \in Workers, Worker(w) PROVE OrderlyInv'
    <2>1. wpc[w] # "none"
      BY <1>4 DEF Worker, WorkerCancelled, WorkerTakes, WorkerEnds, SemAcquire, CountActive,
           ExecuteTask, SemRelease, UncountActive, SendResult, SendResultPanics, WorkerPutBack,
           PutBackPanics, WorkerExits
    <2>2. /\ WorkerFrame /\ UNCHANGED <<tasksClosed, resultsClosed>>
          /\ \E p \in WorkerPlaces \ {"putback"} : Goto(w, p)
      BY <1>0, <1>4, <2>1
      DEF Worker, WorkerCancelled, WorkerTakes, WorkerEnds, SemAcquire, CountActive,
          ExecuteTask, SemRelease, UncountActive, SendResult, SendResultPanics, WorkerPutBack,
          PutBackPanics, WorkerExits, channels, WorkerPlaces
    <2>3. \A v \in Workers : wpc'[v] # "putback"
      BY <1>0, <2>2 DEF Goto, TypeOK
    <2>4. /\ UNCHANGED <<closed, spc, sub, panicked>>
          /\ ~resultsClosed /\ \A s \in Closers : spc[s] # "results"
      BY <1>0, <2>1, <2>2 DEF WorkerFrame, NoPanic, flags, submits
    <2> QED BY <1>0, <2>2, <2>3, <2>4 DEF OrderlyInv
  <1>5. ASSUME NEW s \in Closers, Shutdown(s) PROVE OrderlyInv'
    <2>1. UNCHANGED <<sub, wpc, panicked>>
      BY <1>5 DEF Shutdown, StopCancels, ShutdownBegins, ShutdownAgain, CloseTasks,
           ShutdownTimesOut, WorkersGone, CloseResults, RestUnchanged, NoPanic, workers, submits
    <2>2. \A t \in Tasks : sub[t] # "send"
      BY <1>0, <1>5 DEF Shutdown, StopCancels, ShutdownBegins, ShutdownAgain, CloseTasks,
           ShutdownTimesOut, WorkersGone, CloseResults, CloserAt, Quiet
    <2>3. /\ \E p \in {"stop", "close", "wait", "drain", "results", "done"} :
               spc' = [spc EXCEPT ![s] = p] /\ (p \in {"close", "wait", "drain", "results"} => closed')
          /\ closed => closed'
          /\ tasksClosed' \/ resultsClosed' => closed'
      BY <1>0, <1>5 DEF Shutdown, StopCancels, ShutdownBegins, ShutdownAgain, CloseTasks,
           ShutdownTimesOut, WorkersGone, CloseResults, CloserAt, flags, channels
    <2>4. /\ spc'[s] # "idle" /\ (spc'[s] \in {"close", "wait", "drain", "results"} => closed')
          /\ \A c \in Closers \ {s} : spc'[c] = spc[c]
      BY <2>3 DEF TypeOK
    <2>5. resultsClosed' \/ spc'[s] = "results" => \A w \in Workers : wpc[w] = "none"
      BY <1>0, <1>5, NobodyLive
      DEF Shutdown, StopCancels, ShutdownBegins, ShutdownAgain, CloseTasks,
          ShutdownTimesOut, WorkersGone, CloseResults, CloserAt, flags, channels, TypeOK
    <2> QED BY <1>0, <2>1, <2>2, <2>3, <2>4, <2>5 DEF OrderlyInv
  <1>6. ASSUME UNCHANGED <<flags, channels, workers, submits, spc, panicked>> PROVE OrderlyInv'
    BY <1>0, <1>6 DEF OrderlyInv, flags, channels, workers, submits
  <1>7. ASSUME NEW d \in Drainers, WaitForDrain(d) PROVE OrderlyInv'
    <2>1. DrainFrame
      BY <1>7 DEF WaitForDrain, DrainBegins, DrainSeesEmpty, DrainReadsActive, DrainGivesUp
    <2> QED BY <1>6, <2>1 DEF DrainFrame, NoPanic
  <1>8. CASE Finished
    BY <1>6, <1>8 DEF Finished, vars
  <1> QED BY <1>2, <1>3, <1>4, <1>5, <1>7, <1>8 DEF Next

\* The invariant of an orderly pool is kept by every step.
THEOREM OrderlyInvariance == Spec => []OrderlyInv
  <1>1. Init => OrderlyInv
    BY DEF Init, OrderlyInv
  <1>2. TypeOK /\ OrderlyInv /\ [Next]_vars => OrderlyInv'
    <2>1. CASE Orderly /\ WaitTasks = {} /\ Resizers = {}
      <3>1. OrderlyInv /\ UNCHANGED vars => OrderlyInv'
        BY <2>1 DEF OrderlyInv, vars, flags, channels, workers, submits
      <3> QED BY <2>1, <3>1, OrderlyNext
    <2>2. CASE ~(Orderly /\ WaitTasks = {} /\ Resizers = {})
      BY <2>2 DEF OrderlyInv
    <2> QED BY <2>1, <2>2
  <1> QED BY <1>1, <1>2, TypeCorrect, PTL DEF Spec

\* Clients that submit with Submit only, never resize and stop submitting
\* before they call Shutdown or Stop never see a send on a closed channel,
\* whether or not Shutdown times out.
THEOREM OrderlySafe == Spec => []OrderlyNeverPanics
  <1>1. OrderlyInv => OrderlyNeverPanics
    BY DEF OrderlyInv, OrderlyNeverPanics
  <1> QED BY <1>1, OrderlyInvariance, PTL

(***************************************************************************)
(* Counting tasks and results                                              *)
(***************************************************************************)
One(b) == IF b THEN 1 ELSE 0

\* Sets that differ in one element only.
LEMMA CountChange ==
  ASSUME NEW S, IsFiniteSet(S), NEW A \in SUBSET S, NEW B \in SUBSET S, NEW a,
         A \ {a} = B \ {a}
  PROVE  /\ Cardinality(A) \in Nat
         /\ Cardinality(B) = Cardinality(A) + One(a \in B) - One(a \in A)
  <1>1. IsFiniteSet(A) /\ IsFiniteSet(B)
    BY FS_Subset
  <1>2. Cardinality(A) \in Nat /\ Cardinality(B) \in Nat
    BY <1>1, FS_CardinalityType
  <1>3. /\ Cardinality(A \ {a}) = IF a \in A THEN Cardinality(A) - 1 ELSE Cardinality(A)
        /\ Cardinality(B \ {a}) = IF a \in B THEN Cardinality(B) - 1 ELSE Cardinality(B)
    BY <1>1, FS_RemoveElement
  <1>4. Cardinality(A \ {a}) = Cardinality(B \ {a})
    OBVIOUS
  <1> HIDE DEF Cardinality
  <1> QED BY <1>2, <1>3, <1>4 DEF One

\* A value occurs a finite number of times in a channel.
LEMMA OccursType ==
  ASSUME NEW S, NEW s \in Seq(S), NEW t
  PROVE  /\ {i \in DOMAIN s : s[i] = t} \in SUBSET (1..Len(s))
         /\ IsFiniteSet({i \in DOMAIN s : s[i] = t})
         /\ Occurs(t, s) \in Nat
  <1>1. {i \in DOMAIN s : s[i] = t} \in SUBSET (1..Len(s)) /\ Len(s) \in Nat
    BY LenProperties
  <1>2. IsFiniteSet(1..Len(s))
    BY <1>1, FS_Interval
  <1>3. IsFiniteSet({i \in DOMAIN s : s[i] = t})
    BY <1>1, <1>2, FS_Subset
  <1> QED BY <1>1, <1>3, FS_CardinalityType DEF Occurs

\* A send adds one occurrence of what is sent.
LEMMA OccursAppend ==
  ASSUME NEW S, NEW s \in Seq(S), NEW x \in S, NEW t
  PROVE  Occurs(t, Append(s, x)) = Occurs(t, s) + One(x = t)
  <1> DEFINE A == {i \in DOMAIN s : s[i] = t}
             B == {i \in DOMAIN Append(s, x) : Append(s, x)[i] = t}
  <1>1. /\ Len(s) \in Nat /\ DOMAIN s = 1..Len(s)
        /\ DOMAIN Append(s, x) = 1..(Len(s) + 1)
        /\ Append(s, x)[Len(s) + 1] = x
        /\ \A i \in 1..Len(s) : Append(s, x)[i] = s[i]
    BY AppendProperties, LenProperties
  <1>2. A \ {Len(s) + 1} = B \ {Len(s) + 1}
    BY <1>1
  <1>3. (Len(s) + 1 \in B <=> x = t) /\ Len(s) + 1 \notin A
    BY <1>1
  <1>4. /\ IsFiniteSet(1..(Len(s) + 1))
        /\ A \in SUBSET (1..(Len(s) + 1)) /\ B \in SUBSET (1..(Len(s) + 1))
    BY SMTT(30), <1>1, FS_Interval
  <1>5. /\ Cardinality(A) \in Nat
        /\ Cardinality(B) = Cardinality(A) + One(Len(s) + 1 \in B) - One(Len(s) + 1 \in A)
    <2> HIDE DEF A, B
    <2> QED BY <1>2, <1>4, CountChange
  <1>6. Cardinality(B) = Cardinality(A) + One(x = t)
    <2> HIDE DEF A, B
    <2> QED BY <1>3, <1>5 DEF One
  <1> QED BY <1>6 DEF Occurs

\* A receive removes one occurrence of what is received.
LEMMA OccursTail ==
  ASSUME NEW S, NEW s \in Seq(S), s # <<>>, NEW t
  PROVE  Occurs(t, Tail(s)) = Occurs(t, s) - One(Head(s) = t)
  <1> DEFINE A == {i \in DOMAIN s : s[i] = t}
             B == {i \in DOMAIN Tail(s) : Tail(s)[i] = t}
             f == [i \in A \ {1} |-> i - 1]
  <1>1. /\ Len(s) \in Nat \ {0} /\ DOMAIN s = 1..Len(s)
        /\ DOMAIN Tail(s) = 1..(Len(s) - 1)
        /\ \A i \in 1..(Len(s) - 1) : Tail(s)[i] = s[i + 1]
        /\ Head(s) = s[1]
    BY LenProperties, EmptySeq, HeadTailProperties
  <1>2. IsFiniteSet(A) /\ Cardinality(A) \in Nat
    BY OccursType, FS_CardinalityType
  <1>3. f \in Bijection(A \ {1}, B)
    <2>1. \A i \in A \ {1} : f[i] \in B
      BY <1>1
    <2>2. \A i, j \in A \ {1} : f[i] = f[j] => i = j
      BY <1>1
    <2>3. \A j \in B : \E i \in A \ {1} : f[i] = j
      <3> TAKE j \in B
      <3>1. j + 1 \in A \ {1} /\ f[j + 1] = j
        BY <1>1
      <3> QED BY <3>1
    <2> HIDE DEF A, B
    <2> QED BY <2>1, <2>2, <2>3 DEF Bijection, Injection, Surjection, IsInjective
  <1>4. IsFiniteSet(A \ {1}) /\ Cardinality(A \ {1}) = Cardinality(A) - One(1 \in A)
    <2> HIDE DEF A, B
    <2> QED BY <1>2, FS_RemoveElement DEF One
  <1>5. Cardinality(B) = Cardinality(A \ {1})
    <2> HIDE DEF A, B, f
    <2> QED BY <1>3, <1>4, FS_Bijection DEF ExistsBijection
  <1>6. 1 \in A <=> Head(s) = t
    BY <1>1
  <1>7. Cardinality(B) = Cardinality(A) - One(Head(s) = t)
    <2> HIDE DEF A, B
    <2> QED BY <1>4, <1>5, <1>6 DEF One
  <1> QED BY <1>7 DEF Occurs

(***************************************************************************)
(* Tasks are neither duplicated nor lost.                                  *)
(***************************************************************************)
CountsOK(t) ==
  /\ Cardinality(InHands(t)) \in Nat /\ Cardinality(Finishing(t)) \in Nat
  /\ Cardinality(Holders(t)) \in Nat
  /\ Occurs(t, tasks) \in Nat /\ Occurs(t, results) \in Nat /\ executed[t] \in Nat
  /\ Copies(t) = Occurs(t, tasks) + Cardinality(InHands(t)) + executed[t]
  /\ ResultCopies(t) = Occurs(t, results) + Cardinality(Holders(t))
                         + Cardinality(Finishing(t)) + One(sub[t] = "served")

AllCounted == TypeOK => \A t \in Tasks : CountsOK(t)

\* Copies of a task and of a result, written as sums of counts.
LEMMA Counts == AllCounted
  <1> SUFFICES ASSUME TypeOK, NEW t \in Tasks PROVE CountsOK(t)
    BY DEF AllCounted
  <1>1. /\ InHands(t) \in SUBSET Workers /\ Finishing(t) \in SUBSET Workers
        /\ Holders(t) \in SUBSET Tasks
    BY DEF InHands, Finishing, Holders
  <1>2. IsFiniteSet(InHands(t)) /\ IsFiniteSet(Finishing(t)) /\ IsFiniteSet(Holders(t))
    BY <1>1, PoolAssumption, FS_Subset
  <1>3. /\ Cardinality(InHands(t)) \in Nat /\ Cardinality(Finishing(t)) \in Nat
        /\ Cardinality(Holders(t)) \in Nat
    BY <1>2, FS_CardinalityType
  <1>4. Occurs(t, tasks) \in Nat /\ Occurs(t, results) \in Nat /\ executed[t] \in Nat
    BY OccursType DEF TypeOK
  <1> QED BY <1>3, <1>4 DEF CountsOK, Copies, Queued, ResultCopies, Occurs, One

\* The same in the next state.
LEMMA CountsNext == AllCounted'
  BY Counts, PTL

\* One worker moves.
LEMMA MoveCount ==
  ASSUME TypeOK, NEW w \in Workers, NEW t \in Tasks,
         \A v \in Workers \ {w} : wpc'[v] = wpc[v] /\ wtask'[v] = wtask[v]
  PROVE  /\ Cardinality(InHands(t))'
              = Cardinality(InHands(t)) + One(w \in InHands(t)') - One(w \in InHands(t))
         /\ Cardinality(Finishing(t))'
              = Cardinality(Finishing(t)) + One(w \in Finishing(t)') - One(w \in Finishing(t))
  <1>1. /\ InHands(t) \in SUBSET Workers /\ InHands(t)' \in SUBSET Workers
        /\ Finishing(t) \in SUBSET Workers /\ Finishing(t)' \in SUBSET Workers
    BY DEF InHands, Finishing
  <1>2. InHands(t) \ {w} = InHands(t)' \ {w} /\ Finishing(t) \ {w} = Finishing(t)' \ {w}
    BY DEF InHands, Finishing
  <1>3. Cardinality(InHands(t)') = Cardinality(InHands(t)) + One(w \in InHands(t)') - One(w \in InHands(t))
    BY <1>1, <1>2, PoolAssumption, CountChange
  <1>4. Cardinality(Finishing(t)') = Cardinality(Finishing(t)) + One(w \in Finishing(t)') - One(w \in Finishing(t))
    BY <1>1, <1>2, PoolAssumption, CountChange
  <1> QED BY <1>3, <1>4

\* A worker duplicates no task and no result, drops a task only when the pool
\* is cancelled or it puts the task back, and a result only when the channel
\* is full.
LEMMA WorkerCounts ==
  ASSUME IndInv, IndInv', NEW w \in Workers, Worker(w), NEW t \in Tasks
  PROVE  /\ Copies(t)' <= Copies(t)
         /\ ~ctxDone /\ wpc[w] # "putback" => Copies(t)' = Copies(t)
         /\ ResultCopies(t)' - executed'[t] <= ResultCopies(t) - executed[t]
         /\ Room(results) \/ wpc[w] # "send"
              => ResultCopies(t)' - executed'[t] = ResultCopies(t) - executed[t]
  <1> DEFINE a  == Cardinality(InHands(t))   a1 == Cardinality(InHands(t))'
             f  == Cardinality(Finishing(t)) f1 == Cardinality(Finishing(t))'
             q  == Occurs(t, tasks)          q1 == Occurs(t, tasks')
             r  == Occurs(t, results)        r1 == Occurs(t, results')
             h  == Cardinality(Holders(t))
             e  == executed[t]               e1 == executed'[t]
             c  == Copies(t)                 c1 == Copies(t)'
             rc == ResultCopies(t)           rc1 == ResultCopies(t)'
             sv == One(sub[t] = "served")
  <1>1. /\ a \in Nat /\ f \in Nat /\ q \in Nat /\ r \in Nat /\ h \in Nat /\ e \in Nat
        /\ c = q + a + e /\ rc = r + h + f + sv
    BY Counts DEF IndInv, AllCounted, CountsOK
  <1>2. TypeOK' /\ TypeOK
    BY DEF IndInv
  <1>3. /\ WorkerFrame \/ UNCHANGED <<flags, channels, workers, submits, resizes, spc, drains>>
        /\ UNCHANGED <<got, sub>>
    BY DEF Worker, WorkerCancelled, WorkerTakes, WorkerEnds, SemAcquire, CountActive,
           ExecuteTask, SemRelease, UncountActive, SendResult, SendResultPanics, WorkerPutBack,
           PutBackPanics, WorkerExits, Panic, WorkerFrame, submits
  <1>4. Cardinality(Holders(t))' = h /\ One(sub[t] = "served")' = sv
    BY <1>3 DEF Holders
  <1>5. /\ c1 = q1 + a1 + e1 /\ rc1 = r1 + h + f1 + sv
        /\ a1 \in Nat /\ f1 \in Nat /\ q1 \in Nat /\ r1 \in Nat /\ e1 \in Nat
    <2>1. CountsOK(t)'
      BY <1>2, CountsNext DEF AllCounted
    <2>2. Occurs(t, tasks)' = q1 /\ Occurs(t, results)' = r1
      BY DEF Occurs
    <2> QED BY <2>1, <2>2, <1>4 DEF CountsOK
  <1>6. \A v \in Workers \ {w} : wpc'[v] = wpc[v] /\ wtask'[v] = wtask[v]
    BY <1>2 DEF TypeOK, Worker, WorkerCancelled, WorkerTakes, WorkerEnds, SemAcquire, CountActive,
       ExecuteTask, SemRelease, UncountActive, SendResult, SendResultPanics, WorkerPutBack,
       PutBackPanics, WorkerExits, Panic, Goto, workers
  <1>7. /\ a1 = a + One(w \in InHands(t)') - One(w \in InHands(t))
        /\ f1 = f + One(w \in Finishing(t)') - One(w \in Finishing(t))
    BY <1>2, <1>6, MoveCount
  <1>8. /\ w \in InHands(t) <=> wpc[w] \in {"sem", "putback", "acquired", "run"} /\ wtask[w] = t
        /\ w \in InHands(t)' <=> wpc'[w] \in {"sem", "putback", "acquired", "run"} /\ wtask'[w] = t
        /\ w \in Finishing(t) <=> wpc[w] \in {"release", "uncount", "send"} /\ wtask[w] = t
        /\ w \in Finishing(t)' <=> wpc'[w] \in {"release", "uncount", "send"} /\ wtask'[w] = t
    BY DEF InHands, Finishing
  <1>9. t # NoTask /\ sv \in Nat
    BY PoolAssumption DEF One
  \* What remains is arithmetic: one count goes down as another goes up.
  <1>10. ASSUME NEW x \in Int, NEW y \in Int,
                c1 = c + x, rc1 - e1 = rc - e + y,
                x <= 0, y <= 0, ~ctxDone /\ wpc[w] # "putback" => x = 0,
                Room(results) \/ wpc[w] # "send" => y = 0
         PROVE  /\ c1 <= c
                /\ ~ctxDone /\ wpc[w] # "putback" => c1 = c
                /\ rc1 - e1 <= rc - e
                /\ Room(results) \/ wpc[w] # "send" => rc1 - e1 = rc - e
    <2> HIDE DEF a, a1, f, f1, q, q1, r, r1, h, e, e1, c, c1, rc, rc1, sv
    <2> QED BY <1>1, <1>5, <1>9, <1>10
  <1> SUFFICES /\ c1 <= c
               /\ ~ctxDone /\ wpc[w] # "putback" => c1 = c
               /\ rc1 - e1 <= rc - e
               /\ Room(results) \/ wpc[w] # "send" => rc1 - e1 = rc - e
    OBVIOUS
  <1> HIDE DEF a, a1, f, f1, q, q1, r, r1, h, e, e1, c, c1, rc, rc1, sv
  <1>11. CASE \/ WorkerEnds(w) \/ SemAcquire(w) \/ CountActive(w) \/ SemRelease(w)
              \/ UncountActive(w) \/ WorkerExits(w) \/ SendResultPanics(w) \/ PutBackPanics(w)
    <2>1. UNCHANGED <<tasks, results, executed, wtask>>
      BY <1>11 DEF WorkerEnds, SemAcquire, CountActive, SemRelease, UncountActive, WorkerExits,
         SendResultPanics, PutBackPanics, Panic, channels, workers
    <2>2. /\ w \in InHands(t)' <=> w \in InHands(t)
          /\ w \in Finishing(t)' <=> w \in Finishing(t)
      BY <1>2, <1>8, <1>11 DEF TypeOK, WorkerEnds, SemAcquire, CountActive, SemRelease, UncountActive,
         WorkerExits, SendResultPanics, PutBackPanics, Panic, Goto, channels, workers
    <2>3. q1 = q /\ r1 = r /\ e1 = e
      BY <2>1 DEF q, q1, r, r1, e, e1
    <2>4. a1 = a /\ f1 = f
      BY <1>1, <1>5, <1>7, <2>2 DEF One
    <2>5. c1 = c + 0 /\ rc1 - e1 = rc - e + 0
      BY <1>1, <1>5, <1>9, <2>3, <2>4
    <2> QED BY <1>10, <2>5
  <1>12. CASE WorkerCancelled(w)
    <2>1. UNCHANGED <<tasks, results, executed>> /\ ctxDone
      BY <1>12 DEF WorkerCancelled, channels
    <2>2. w \notin InHands(t)' /\ w \notin Finishing(t)' /\ w \notin Finishing(t)
      BY <1>2, <1>8, <1>12 DEF TypeOK, WorkerCancelled, Goto
    <2>3. q1 = q /\ r1 = r /\ e1 = e
      BY <2>1 DEF q, q1, r, r1, e, e1
    <2>4. a1 = a - One(w \in InHands(t)) /\ f1 = f
      BY <1>1, <1>5, <1>7, <2>2 DEF One
    <2>5. /\ c1 = c + (0 - One(w \in InHands(t))) /\ rc1 - e1 = rc - e + 0
          /\ One(w \in InHands(t)) \in 0..1
      BY <1>1, <1>5, <1>9, <2>3, <2>4 DEF One
    <2> QED BY <1>10, <2>1, <2>5
  <1>13. CASE WorkerTakes(w)
    <2>1. /\ UNCHANGED <<results, executed>> /\ tasks # <<>> /\ tasks' = Tail(tasks)
          /\ wpc[w] = "loop" /\ wpc'[w] = "sem" /\ wtask'[w] = Head(tasks)
      BY <1>2, <1>13 DEF TypeOK, WorkerTakes, Goto
    <2>2. /\ w \notin InHands(t) /\ w \notin Finishing(t)' /\ w \notin Finishing(t)
          /\ w \in InHands(t)' <=> Head(tasks) = t
      BY <1>8, <2>1
    <2>3. q1 = q - One(Head(tasks) = t) /\ r1 = r /\ e1 = e
      BY <1>2, <2>1, OccursTail DEF TypeOK, q, q1, r, r1, e, e1
    <2>4. a1 = a + One(Head(tasks) = t) /\ f1 = f
      BY <1>1, <1>5, <1>7, <2>2 DEF One
    <2>5. c1 = c + 0 /\ rc1 - e1 = rc - e + 0
      BY <1>1, <1>5, <1>9, <2>3, <2>4 DEF One
    <2> QED BY <1>10, <2>5
  <1>14. CASE ExecuteTask(w)
    <2>1. /\ UNCHANGED <<results, tasks, wtask>> /\ wpc[w] = "run" /\ wpc'[w] = "release"
          /\ e1 = e + One(wtask[w] = t)
      BY <1>2, <1>14 DEF TypeOK, ExecuteTask, Goto, channels, One, e, e1
    <2>2. /\ w \notin InHands(t)' /\ w \notin Finishing(t)
          /\ w \in InHands(t) <=> wtask[w] = t
          /\ w \in Finishing(t)' <=> wtask[w] = t
      BY <1>8, <2>1
    <2>3. q1 = q /\ r1 = r
      BY <2>1 DEF q, q1, r, r1
    <2>4. a1 = a - One(wtask[w] = t) /\ f1 = f + One(wtask[w] = t)
      BY <1>1, <1>5, <1>7, <2>2 DEF One
    <2>5. c1 = c + 0 /\ rc1 - e1 = rc - e + 0
      BY <1>1, <1>5, <1>9, <2>1, <2>3, <2>4 DEF One
    <2> QED BY <1>10, <2>5
  <1>15. CASE SendResult(w)
    <2>1. /\ UNCHANGED <<executed, tasks>> /\ wpc[w] = "send" /\ wpc'[w] = "loop"
          /\ wtask[w] \in Tasks
          /\ results' = PutOrDrop(results, wtask[w])
      BY <1>2, <1>15 DEF TypeOK, SendResult, Goto, IndInv, InHandOK
    <2>2. /\ w \notin InHands(t)' /\ w \notin InHands(t) /\ w \notin Finishing(t)'
          /\ w \in Finishing(t) <=> wtask[w] = t
      BY <1>8, <2>1
    <2>3. q1 = q /\ e1 = e /\ r1 = IF Room(results) THEN r + One(wtask[w] = t) ELSE r
      BY <1>2, <2>1, OccursAppend DEF TypeOK, PutOrDrop, q, q1, e, e1, r, r1
    <2>4. a1 = a /\ f1 = f - One(wtask[w] = t)
      BY <1>1, <1>5, <1>7, <2>2 DEF One
    <2>5. c1 = c + 0 /\ (IF Room(results) THEN rc1 - e1 = rc - e + 0
                         ELSE rc1 - e1 = rc - e + (0 - One(wtask[w] = t)))
      BY <1>1, <1>5, <1>9, <2>3, <2>4 DEF One
    <2>6. One(wtask[w] = t) \in 0..1
      BY DEF One
    <2> QED BY <1>10, <2>1, <2>5, <2>6
  <1>16. CASE WorkerPutBack(w)
    <2>1. /\ UNCHANGED <<executed, results>> /\ wpc[w] = "putback" /\ wpc'[w] = "exit"
          /\ wtask[w] \in Tasks
          /\ tasks' = PutOrDrop(tasks, wtask[w])
      BY <1>2, <1>16 DEF TypeOK, WorkerPutBack, Goto, IndInv, InHandOK
    <2>2. /\ w \notin InHands(t)' /\ w \notin Finishing(t) /\ w \notin Finishing(t)'
          /\ w \in InHands(t) <=> wtask[w] = t
      BY <1>8, <2>1
    <2>3. r1 = r /\ e1 = e /\ q1 = IF Room(tasks) THEN q + One(wtask[w] = t) ELSE q
      BY <1>2, <2>1, OccursAppend DEF TypeOK, PutOrDrop, q, q1, e, e1, r, r1
    <2>4. f1 = f /\ a1 = a - One(wtask[w] = t)
      BY <1>1, <1>5, <1>7, <2>2 DEF One
    <2>5. rc1 - e1 = rc - e + 0 /\ (IF Room(tasks) THEN c1 = c + 0
                                    ELSE c1 = c + (0 - One(wtask[w] = t)))
      BY <1>1, <1>5, <1>9, <2>3, <2>4 DEF One
    <2>6. One(wtask[w] = t) \in 0..1
      BY DEF One
    <2> QED BY <1>10, <2>1, <2>5, <2>6
  <1> QED BY <1>11, <1>12, <1>13, <1>14, <1>15, <1>16 DEF Worker

\* Workers that start, that leave with empty hands or that are told to put
\* their task back change no count.
LEMMA SameHands ==
  ASSUME TypeOK, NEW t \in Tasks, UNCHANGED wtask,
         \A v \in Workers : \/ wpc'[v] = wpc[v]
                            \/ wpc[v] \in {"none", "loop"} /\ wpc'[v] \in {"loop", "exit"}
                            \/ wpc[v] = "sem" /\ wpc'[v] = "putback"
  PROVE  InHands(t)' = InHands(t) /\ Finishing(t)' = Finishing(t)
  <1>1. InHands(t)' = InHands(t)
    BY DEF InHands
  <1>2. Finishing(t)' = Finishing(t)
    BY DEF Finishing
  <1> QED BY <1>1, <1>2

\* What a step that runs no task and moves none changes.
LEMMA SameCounts ==
  ASSUME TypeOK, TypeOK', NEW t \in Tasks, UNCHANGED <<tasks, executed>>,
         InHands(t)' = InHands(t), Finishing(t)' = Finishing(t)
  PROVE  /\ Copies(t)' = Copies(t)
         /\ ResultCopies(t)' = Occurs(t, results)' + Cardinality(Holders(t))'
                                 + Cardinality(Finishing(t)) + One(sub[t] = "served")'
  <1>1. CountsOK(t) /\ CountsOK(t)'
    BY Counts, CountsNext DEF AllCounted
  <1>2. Occurs(t, tasks)' = Occurs(t, tasks) /\ Cardinality(InHands(t))' = Cardinality(InHands(t))
    BY DEF Occurs
  <1>3. Cardinality(Finishing(t))' = Cardinality(Finishing(t))
    OBVIOUS
  <1> QED BY <1>1, <1>2, <1>3 DEF CountsOK

\* A result changes hands between p.results and the SubmitWait of u.
LEMMA HolderCount ==
  ASSUME TypeOK, NEW t \in Tasks, NEW u \in Tasks,
         \A v \in Tasks \ {u} : got'[v] = got[v]
  PROVE  Cardinality(Holders(t))' = Cardinality(Holders(t)) + One(got'[u] = t) - One(got[u] = t)
  <1>1. /\ Holders(t) \in SUBSET Tasks /\ Holders(t)' \in SUBSET Tasks
        /\ Holders(t) \ {u} = Holders(t)' \ {u}
        /\ u \in Holders(t) <=> got[u] = t
        /\ u \in Holders(t)' <=> got'[u] = t
    BY DEF Holders
  <1>2. Cardinality(Holders(t)') = Cardinality(Holders(t)) + One(u \in Holders(t)') - One(u \in Holders(t))
    BY <1>1, PoolAssumption, CountChange
  <1> QED BY <1>1, <1>2 DEF One

\* Submit and SubmitWait: a task is there once when it is accepted; results
\* that are taken and put back are not duplicated, and dropped only when the
\* channel is full.
LEMMA SubmitCounts ==
  ASSUME IndInv, IndInv', NEW u \in Tasks, Submit(u), NEW t \in Tasks
  PROVE  /\ Accepted \subseteq Accepted'
         /\ Copies(t)' = Copies(t) + One(t \in Accepted' \ Accepted)
         /\ executed'[t] = executed[t]
         /\ ResultCopies(t)' <= ResultCopies(t)
         /\ Room(results) \/ got[u] \notin Tasks => ResultCopies(t)' = ResultCopies(t)
  <1> DEFINE a  == Cardinality(InHands(t))
             f  == Cardinality(Finishing(t))
             q  == Occurs(t, tasks)
             r  == Occurs(t, results)        r1 == Occurs(t, results)'
             h  == Cardinality(Holders(t))   h1 == Cardinality(Holders(t))'
             e  == executed[t]
             c  == Copies(t)                 c1 == Copies(t)'
             rc == ResultCopies(t)           rc1 == ResultCopies(t)'
             sv == One(sub[t] = "served")    sv1 == One(sub[t] = "served")'
  <1>1. /\ a \in Nat /\ f \in Nat /\ q \in Nat /\ r \in Nat /\ h \in Nat /\ e \in Nat
        /\ c = q + a + e /\ rc = r + h + f + sv
    BY Counts DEF IndInv, AllCounted, CountsOK
  <1>2. TypeOK /\ TypeOK' /\ InHandOK /\ InHandOK'
    BY DEF IndInv
  <1>3. CountsOK(t)'
    BY <1>2, CountsNext DEF AllCounted
  <1>4. UNCHANGED <<executed, wtask>>
    BY DEF Submit, SubmitCheck, startLocked, SubmitClosed, SubmitSend, SubmitReject, Refuse,
           SubmitPanics, WaitGivesUp, WaitServed, WaitOther, WaitPutBack, WaitPanics,
           SubmitFrame, Panic, workers
  <1>5. \A v \in Workers : wpc'[v] = wpc[v] \/ (wpc[v] = "none" /\ wpc'[v] = "loop")
    <2>1. CASE SubmitCheck(u)
      BY <1>2, <2>1 DEF SubmitCheck, startLocked, IndInv, StartedOK, TypeOK
    <2>2. CASE ~SubmitCheck(u)
      BY <2>2 DEF Submit, SubmitClosed, SubmitSend, SubmitReject, Refuse,
           SubmitPanics, WaitGivesUp, WaitServed, WaitOther, WaitPutBack, WaitPanics,
           SubmitFrame, Panic, workers
    <2> QED BY <2>1, <2>2
  <1>6. InHands(t)' = InHands(t) /\ Finishing(t)' = Finishing(t)
    BY <1>2, <1>4, <1>5, SameHands
  <1>7. rc1 = r1 + h1 + f + sv1 /\ r1 \in Nat /\ h1 \in Nat
    <2>1. Cardinality(Finishing(t))' = f
      BY <1>6
    <2> QED BY <1>3, <2>1 DEF CountsOK
  <1>8. ASSUME UNCHANGED tasks PROVE c1 = c
    BY <1>2, <1>4, <1>6, <1>8, SameCounts
  <1>9. ASSUME NEW p, Becomes(u, p)
        PROVE  \A v \in Tasks : sub'[v] = IF v = u THEN p ELSE sub[v]
    BY <1>2, <1>9 DEF Becomes, TypeOK
  <1>10. ASSUME UNCHANGED results PROVE r1 = r
    BY <1>10 DEF Occurs
  <1>11. ASSUME UNCHANGED got PROVE h1 = h
    BY <1>11 DEF Holders
  <1>12. t # NoTask /\ t # Zero /\ sv \in 0..1 /\ sv1 \in 0..1
    BY PoolAssumption DEF One
  <1> SUFFICES /\ Accepted \subseteq Accepted'
               /\ c1 = c + One(t \in Accepted' \ Accepted)
               /\ rc1 <= rc
               /\ Room(results) \/ got[u] \notin Tasks => rc1 = rc
    BY <1>4
  <1>13. ASSUME NEW p, Becomes(u, p) \/ UNCHANGED sub, UNCHANGED tasks,
                sub[u] \in {"new", "send"} => p \in {"send", "rejected"},
                sub[u] \in {"await", "putback"} => p \in {"await", "putback", "served", "gaveup"},
                sub[u] \in {"new", "send", "await", "putback"}
         PROVE  Accepted' = Accepted /\ c1 = c + One(t \in Accepted' \ Accepted)
    <2>1. Accepted' = Accepted
      BY <1>9, <1>13 DEF Accepted
    <2> HIDE DEF c, c1
    <2> QED BY <1>1, <1>8, <1>13, <2>1 DEF One, c
  <1>14. CASE SubmitCheck(u) \/ SubmitClosed(u) \/ SubmitReject(u) \/ WaitGivesUp(u)
              \/ SubmitPanics(u) \/ WaitPanics(u)
    <2>1. /\ UNCHANGED <<tasks, results, got>>
          /\ \/ UNCHANGED sub /\ sub[u] \in {"send", "putback"}
             \/ sub[u] \in {"new", "send"} /\ (Becomes(u, "send") \/ Becomes(u, "rejected"))
             \/ sub[u] = "await" /\ Becomes(u, "gaveup")
      BY <1>14 DEF SubmitCheck, SubmitClosed, SubmitReject, Refuse, WaitGivesUp, SubmitPanics,
         WaitPanics, Panic, channels, submits
    <2>2. sv1 = sv
      BY <1>9, <2>1 DEF One
    <2>3. Accepted' = Accepted /\ c1 = c + One(t \in Accepted' \ Accepted)
      BY <1>13, <2>1
    <2>4. rc1 = rc
      <3>1. r1 = r /\ h1 = h
        BY <1>10, <1>11, <2>1
      <3> HIDE DEF r, r1, h, h1, f, sv, sv1, rc, rc1
      <3> QED BY <1>1, <1>7, <2>2, <3>1
    <2> HIDE DEF c, c1, rc, rc1
    <2> QED BY <1>1, <1>12, <2>3, <2>4 DEF rc
  <1>15. CASE SubmitSend(u)
    <2>1. PICK p \in {"await", "accepted"} : Becomes(u, p)
      BY <1>15 DEF SubmitSend
    <2>2. /\ sub[u] = "send" /\ tasks' = Append(tasks, u) /\ UNCHANGED <<results, got>>
      BY <1>15 DEF SubmitSend
    <2>3. Accepted' = Accepted \cup {u} /\ u \notin Accepted /\ sv1 = sv
      BY <1>9, <2>1, <2>2 DEF Accepted, One
    <2>4. Occurs(t, tasks)' = q + One(u = t)
      <3>1. Occurs(t, Append(tasks, u)) = q + One(u = t)
        BY <1>2, OccursAppend DEF TypeOK
      <3> QED BY <2>2, <3>1 DEF Occurs
    <2>5. c1 = Occurs(t, tasks)' + a + e
      <3>1. Cardinality(InHands(t))' = a /\ executed'[t] = e
        BY <1>4, <1>6
      <3> QED BY <1>3, <3>1 DEF CountsOK
    <2>6. c1 = c + One(t \in Accepted' \ Accepted)
      <3>1. t \in Accepted' \ Accepted <=> u = t
        BY <2>3
      <3>2. One(t \in Accepted' \ Accepted) = One(u = t) /\ One(u = t) \in Nat
        BY <3>1 DEF One
      <3> HIDE DEF a, e, q, c, c1
      <3> QED BY <1>1, <2>4, <2>5, <3>2
    <2>7. rc1 = rc /\ rc \in Int
      <3>1. r1 = r /\ h1 = h
        BY <1>10, <1>11, <2>2
      <3> HIDE DEF r, r1, h, h1, f, sv, sv1, rc, rc1
      <3> QED BY <1>1, <1>7, <1>12, <2>3, <3>1
    <2> HIDE DEF c, c1, rc, rc1
    <2> QED BY <2>3, <2>6, <2>7
  <1>16. CASE WaitServed(u)
    <2>1. /\ sub[u] = "await" /\ results # <<>> /\ Head(results) = u /\ results' = Tail(results)
          /\ Becomes(u, "served") /\ UNCHANGED <<tasks, got>>
      BY <1>16 DEF WaitServed
    <2>2. sv1 = sv + One(u = t)
      BY <1>9, <2>1 DEF One
    <2>3. Accepted' = Accepted /\ c1 = c + One(t \in Accepted' \ Accepted)
      BY <1>13, <2>1
    <2>4. r1 = r - One(u = t)
      <3>1. Occurs(t, Tail(results)) = r - One(u = t)
        BY SMTT(30), <1>2, <2>1, OccursTail DEF TypeOK
      <3> QED BY <2>1, <3>1 DEF Occurs
    <2>5. rc1 = rc /\ rc \in Int
      <3>1. h1 = h /\ One(u = t) \in Nat
        BY <1>11, <2>1 DEF One
      <3> HIDE DEF r, r1, h, h1, f, sv, sv1, rc, rc1
      <3> QED BY <1>1, <1>7, <1>12, <2>2, <2>4, <3>1
    <2> HIDE DEF c, c1, rc, rc1
    <2> QED BY <2>3, <2>5
  <1>17. CASE WaitOther(u)
    <2>1. sub[u] = "await" /\ got[u] = NoTask /\ Becomes(u, "putback") /\ UNCHANGED tasks
      BY <1>2, <1>17 DEF WaitOther, InHandOK
    <2>2. sv1 = sv
      BY <1>9, <2>1 DEF One
    <2>3. Accepted' = Accepted /\ c1 = c + One(t \in Accepted' \ Accepted)
      BY <1>13, <2>1
    <2>4. \A v \in Tasks \ {u} : got'[v] = got[v]
      BY <1>2, <1>17 DEF WaitOther, TypeOK
    <2>5. h1 = h + One(got'[u] = t)
      <3>1. h1 = h + One(got'[u] = t) - One(got[u] = t)
        BY <1>2, <2>4, HolderCount
      <3>2. One(got[u] = t) = 0 /\ One(got'[u] = t) \in Nat
        BY <1>12, <2>1 DEF One
      <3> HIDE DEF h, h1
      <3> QED BY <1>1, <3>1, <3>2
    <2>6. r1 = r - One(got'[u] = t)
      <3>1. CASE results # <<>> /\ got' = [got EXCEPT ![u] = Head(results)]
                 /\ results' = Tail(results)
        <4>1. Occurs(t, Tail(results)) = r - One(Head(results) = t)
          BY <1>2, <3>1, OccursTail DEF TypeOK
        <4>2. got'[u] = Head(results)
          BY <1>2, <3>1 DEF TypeOK
        <4>3. r1 = Occurs(t, Tail(results))
          BY <3>1 DEF Occurs
        <4> HIDE DEF r, r1
        <4> QED BY <4>1, <4>2, <4>3
      <3>2. CASE got' = [got EXCEPT ![u] = Zero] /\ UNCHANGED results
        <4>1. One(got'[u] = t) = 0
          BY <1>2, <1>12, <3>2 DEF TypeOK, One
        <4>2. r1 = r
          BY <1>10, <3>2
        <4> HIDE DEF r, r1
        <4> QED BY <1>1, <4>1, <4>2
      <3> QED BY <1>17, <3>1, <3>2 DEF WaitOther
    <2>7. rc1 = rc /\ rc \in Int
      <3>1. One(got'[u] = t) \in Nat
        BY DEF One
      <3> HIDE DEF r, r1, h, h1, f, sv, sv1, rc, rc1
      <3> QED BY <1>1, <1>7, <1>12, <2>2, <2>5, <2>6, <3>1
    <2> HIDE DEF c, c1, rc, rc1
    <2> QED BY <2>3, <2>7
  <1>18. CASE WaitPutBack(u)
    <2>1. /\ sub[u] = "putback" /\ got[u] \in Tasks /\ Becomes(u, "await") /\ UNCHANGED tasks
          /\ results' = PutOrDrop(results, got[u])
      BY <1>2, <1>18 DEF WaitPutBack, InHandOK
    <2>2. sv1 = sv
      BY <1>9, <2>1 DEF One
    <2>3. Accepted' = Accepted /\ c1 = c + One(t \in Accepted' \ Accepted)
      BY <1>13, <2>1
    <2>4. (\A v \in Tasks \ {u} : got'[v] = got[v]) /\ got'[u] = NoTask
      BY <1>2, <1>18 DEF WaitPutBack, TypeOK
    <2>5. h1 = h - One(got[u] = t)
      <3>1. h1 = h + One(got'[u] = t) - One(got[u] = t)
        BY <1>2, <2>4, HolderCount
      <3>2. One(got'[u] = t) = 0 /\ One(got[u] = t) \in Nat
        BY <1>12, <2>4 DEF One
      <3> HIDE DEF h, h1
      <3> QED BY <1>1, <3>1, <3>2
    <2>6. r1 = IF Room(results) THEN r + One(got[u] = t) ELSE r
      <3>1. Occurs(t, Append(results, got[u])) = r + One(got[u] = t)
        BY <1>2, <2>1, OccursAppend DEF TypeOK
      <3> QED BY <2>1, <3>1 DEF PutOrDrop, Occurs
    <2>7. rc1 <= rc /\ (Room(results) => rc1 = rc)
      <3>1. One(got[u] = t) \in Nat
        BY DEF One
      <3> HIDE DEF r, r1, h, h1, f, sv, sv1, rc, rc1
      <3> QED BY <1>1, <1>7, <1>12, <2>2, <2>5, <2>6, <3>1
    <2> HIDE DEF c, c1, rc, rc1
    <2> QED BY <2>1, <2>3, <2>7
  <1> HIDE DEF c, c1, rc, rc1
  <1> QED BY <1>14, <1>15, <1>16, <1>17, <1>18 DEF Submit

\* The steps of Start, Resize, Shutdown and WaitForDrain.
OtherStep ==
  \/ Start \/ (\E r \in Resizers : Resize(r)) \/ (\E s \in Closers : Shutdown(s))
  \/ (\E d \in Drainers : WaitForDrain(d)) \/ UNCHANGED vars

\* They move no task and no result.
LEMMA OtherCounts ==
  ASSUME IndInv, IndInv', OtherStep, NEW t \in Tasks
  PROVE  /\ Accepted' = Accepted /\ Copies(t)' = Copies(t)
         /\ executed'[t] = executed[t] /\ ResultCopies(t)' = ResultCopies(t)
  <1>1. TypeOK /\ TypeOK'
    BY DEF IndInv
  <1>2. UNCHANGED <<tasks, results, executed, wtask, sub, got>>
    <2>1. CASE Start
      BY <2>1 DEF Start, startLocked, channels, submits
    <2>2. CASE \E r \in Resizers : Resize(r)
      BY <2>2 DEF Resize, ResizeCheck, ResizeLock, ResizeStarts, ResizeStops, ResizeReturns,
         ResizeFrame, channels, submits, workers
    <2>3. CASE \E s \in Closers : Shutdown(s)
      BY <2>3 DEF Shutdown, StopCancels, ShutdownBegins, ShutdownAgain, CloseTasks,
           ShutdownTimesOut, WorkersGone, CloseResults, channels, RestUnchanged, workers, submits
    <2>4. CASE \E d \in Drainers : WaitForDrain(d)
      BY <2>4 DEF WaitForDrain, DrainBegins, DrainSeesEmpty, DrainReadsActive, DrainGivesUp,
         DrainFrame, channels, workers, submits
    <2>5. CASE UNCHANGED vars
      BY <2>5 DEF vars, channels, workers, submits
    <2> QED BY <2>1, <2>2, <2>3, <2>4, <2>5 DEF OtherStep
  <1>3. \A v \in Workers : \/ wpc'[v] = wpc[v]
                           \/ wpc[v] \in {"none", "loop"} /\ wpc'[v] \in {"loop", "exit"}
                           \/ wpc[v] = "sem" /\ wpc'[v] = "putback"
    <2>1. CASE Start
      BY <1>1, <2>1 DEF Start, startLocked, IndInv, StartedOK, TypeOK
    <2>2. CASE \E r \in Resizers : Resize(r)
      BY <1>1, <2>2 DEF Resize, ResizeCheck, ResizeLock, ResizeStarts, ResizeStops, ResizeReturns,
         Goto, TypeOK, workers
    <2>3. CASE \E s \in Closers : Shutdown(s)
      BY <2>3 DEF Shutdown, StopCancels, ShutdownBegins, ShutdownAgain, CloseTasks,
           ShutdownTimesOut, WorkersGone, CloseResults, RestUnchanged, workers
    <2>4. CASE \E d \in Drainers : WaitForDrain(d)
      BY <2>4 DEF WaitForDrain, DrainBegins, DrainSeesEmpty, DrainReadsActive, DrainGivesUp,
         DrainFrame, workers
    <2>5. CASE UNCHANGED vars
      BY <2>5 DEF vars, workers
    <2> QED BY <2>1, <2>2, <2>3, <2>4, <2>5 DEF OtherStep
  <1>4. InHands(t)' = InHands(t) /\ Finishing(t)' = Finishing(t)
    BY <1>1, <1>2, <1>3, SameHands
  <1>5. /\ Copies(t)' = Copies(t)
        /\ ResultCopies(t)' = Occurs(t, results)' + Cardinality(Holders(t))'
                                 + Cardinality(Finishing(t)) + One(sub[t] = "served")'
    BY <1>1, <1>2, <1>4, SameCounts
  <1>6. /\ Occurs(t, results)' = Occurs(t, results)
        /\ Cardinality(Holders(t))' = Cardinality(Holders(t))
        /\ One(sub[t] = "served")' = One(sub[t] = "served")
        /\ Accepted' = Accepted
    BY <1>2 DEF Occurs, Holders, Accepted
  <1>7. CountsOK(t)
    BY <1>1, Counts DEF AllCounted
  <1> QED BY <1>2, <1>5, <1>6, <1>7 DEF CountsOK

\* A step is one of a submission, of a worker, or of somebody else.
LEMMA NextSplit ==
  ASSUME [Next]_vars
  PROVE  (\E u \in Tasks : Submit(u)) \/ (\E w \in Workers : Worker(w)) \/ OtherStep
  BY DEF Next, OtherStep, Finished

\* A worker changes no flag, no submission and no Shutdown.
LEMMA WorkerKeepsSub ==
  ASSUME NEW w \in Workers, Worker(w)
  PROVE  UNCHANGED <<started, closed, ctxDone, sub, spc, tasksClosed, resultsClosed>>
  BY DEF Worker, WorkerCancelled, WorkerTakes, WorkerEnds, SemAcquire, CountActive,
         ExecuteTask, SemRelease, UncountActive, SendResult, SendResultPanics, WorkerPutBack,
         PutBackPanics, WorkerExits, Panic, WorkerFrame, submits, flags, channels

\* No step of the pool duplicates a task.
LEMMA OnceNext ==
  ASSUME IndInv, IndInv', AtMostOnce, [Next]_vars
  PROVE  AtMostOnce'
  <1> SUFFICES ASSUME NEW t \in Tasks
               PROVE  Copies(t)' <= IF t \in Accepted' THEN 1 ELSE 0
    BY DEF AtMostOnce
  <1>1. Copies(t) <= IF t \in Accepted THEN 1 ELSE 0
    BY DEF AtMostOnce
  <1>2. Copies(t) \in Nat /\ Copies(t)' \in Nat
    BY Counts, CountsNext DEF IndInv, AllCounted, CountsOK
  <1>3. ASSUME NEW u \in Tasks, Submit(u)
        PROVE  Copies(t)' <= IF t \in Accepted' THEN 1 ELSE 0
    <2>1. Accepted \subseteq Accepted' /\ Copies(t)' = Copies(t) + One(t \in Accepted' \ Accepted)
      BY <1>3, SubmitCounts
    <2> QED BY <1>1, <1>2, <2>1 DEF One
  <1>4. ASSUME NEW w \in Workers, Worker(w)
        PROVE  Copies(t)' <= IF t \in Accepted' THEN 1 ELSE 0
    <2>1. Copies(t)' <= Copies(t)
      BY <1>4, WorkerCounts
    <2>2. Accepted' = Accepted
      BY <1>4, WorkerKeepsSub DEF Accepted
    <2> QED BY <1>1, <1>2, <2>1, <2>2
  <1>5. CASE OtherStep
    BY <1>1, <1>5, OtherCounts
  <1> QED BY <1>3, <1>4, <1>5, NextSplit

\* A new pool has no copy of any task.
LEMMA OnceInit == Init => AtMostOnce
  <1> SUFFICES ASSUME Init, NEW t \in Tasks PROVE Copies(t) = 0
    BY DEF AtMostOnce
  <1>1. Queued(t) = {} /\ InHands(t) = {} /\ executed[t] = 0
    BY DEF Init, Queued, InHands
  <1> QED BY <1>1, FS_EmptySet DEF Copies

(***************************************************************************)
(* A graceful Shutdown                                                     *)
(***************************************************************************)
\* Nothing undoes a cancellation, the closing of a channel or a panic.
LEMMA FlagsStay ==
  ASSUME [Next]_vars
  PROVE  /\ ctxDone => ctxDone'
         /\ resultsClosed => resultsClosed'
         /\ panicked' = "nobody" => panicked = "nobody"
  <1>1. CASE \E u \in Tasks : Submit(u)
    BY <1>1 DEF Submit, SubmitCheck, startLocked, SubmitClosed, SubmitSend, SubmitReject, Refuse,
       SubmitPanics, WaitGivesUp, WaitServed, WaitOther, WaitPutBack, WaitPanics,
       SubmitFrame, Panic, NoPanic, flags, channels
  <1>2. CASE \E w \in Workers : Worker(w)
    BY <1>2 DEF Worker, WorkerCancelled, WorkerTakes, WorkerEnds, SemAcquire, CountActive,
       ExecuteTask, SemRelease, UncountActive, SendResult, SendResultPanics, WorkerPutBack,
       PutBackPanics, WorkerExits, Panic, NoPanic, WorkerFrame, flags, channels
  <1>3. CASE Start \/ \E r \in Resizers : Resize(r)
    BY <1>3 DEF Start, startLocked, Resize, ResizeCheck, ResizeLock, ResizeStarts, ResizeStops,
       ResizeReturns, ResizeFrame, NoPanic, flags, channels
  <1>4. CASE \E s \in Closers : Shutdown(s)
    BY <1>4 DEF Shutdown, StopCancels, ShutdownBegins, ShutdownAgain, CloseTasks,
       ShutdownTimesOut, WorkersGone, CloseResults, RestUnchanged, NoPanic, flags, channels
  <1>5. CASE (\E d \in Drainers : WaitForDrain(d)) \/ UNCHANGED vars
    BY <1>5 DEF WaitForDrain, DrainBegins, DrainSeesEmpty, DrainReadsActive, DrainGivesUp,
       DrainFrame, NoPanic, vars, flags, channels
  <1> QED BY <1>1, <1>2, <1>3, <1>4, <1>5, NextSplit DEF OtherStep

\* No step of a pool that is neither resized nor cancelled drops a task.
LEMMA GracefulNext ==
  ASSUME IndInv, IndInv', AtMostOnce, GracefulInv, [Next]_vars
  PROVE  GracefulInv'
  <1> SUFFICES ASSUME Resizers = {}, ~ctxDone' PROVE GracefulInv'
    BY DEF GracefulInv
  <1>1. ~ctxDone
    BY FlagsStay
  <1>2. /\ \A t \in Accepted : Copies(t) = 1
        /\ \A t \in Tasks : sub[t] = "send" \/ t \in Accepted => started
        /\ \A w \in Workers : wpc[w] # "putback"
        /\ started => \A w \in InitialWorkers : wpc[w] \in {"exit", "none"} => Drained
        /\ tasksClosed => closed
        /\ \A s \in Closers : /\ spc[s] = "close" => closed
                              /\ spc[s] \in {"wait", "drain", "results"} => tasksClosed
        /\ resultsClosed \/ (\E s \in Closers : spc[s] = "results")
             => tasksClosed /\ \A w \in Workers : wpc[w] = "none"
    BY <1>1, Zenon DEF GracefulInv
  <1>3. TypeOK /\ StartedOK /\ AllCounted /\ AllCounted' /\ TypeOK'
    BY Counts, CountsNext DEF IndInv
  <1>4. ASSUME NEW u \in Tasks, Submit(u) PROVE GracefulInv'
    <2>1. \A t \in Accepted' : Copies(t)' = 1
      <3> SUFFICES ASSUME NEW t \in Tasks, t \in Accepted' PROVE Copies(t)' = 1
        BY DEF Accepted
      <3>1. Accepted \subseteq Accepted' /\ Copies(t)' = Copies(t) + One(t \in Accepted' \ Accepted)
        BY <1>4, SubmitCounts
      <3>2. CASE t \in Accepted
        BY <1>2, <3>1, <3>2 DEF One
      <3>3. CASE t \notin Accepted
        <4>1. Copies(t) = 0
          BY <1>3, <3>3 DEF AtMostOnce, AllCounted, CountsOK
        <4> QED BY <3>1, <3>3, <4>1 DEF One
      <3> QED BY <3>2, <3>3
    <2>2. CASE SubmitCheck(u)
      <3>1. /\ startLocked /\ ~closed /\ ~closed' /\ started'
            /\ UNCHANGED <<tasks, tasksClosed, resultsClosed, spc>> /\ ~tasksClosed
        BY <1>2, <1>3, <2>2 DEF SubmitCheck, startLocked, channels, TypeOK
      <3>2. \A w \in Workers : wpc'[w] # "putback"
        <4>1. UNCHANGED <<got, resultsClosed, rpc>>
          BY <2>2 DEF SubmitCheck, channels, resizes
        <4>2. \A w \in Workers : wpc'[w] = wpc[w] \/ wpc'[w] = "loop"
          BY <3>1, <4>1, StartInv
        <4> QED BY <1>2, <4>2
      <3>3. \A w \in InitialWorkers : wpc'[w] \in {"exit", "none"} => Drained'
        <4>1. CASE started
          <5>1. wpc' = wpc /\ UNCHANGED <<tasks, tasksClosed>>
            BY <3>1, <4>1 DEF startLocked
          <5> QED BY <1>2, <4>1, <5>1 DEF Drained
        <4>2. CASE ~started
          <5>1. wpc' = [w \in Workers |-> IF w \in InitialWorkers THEN "loop" ELSE wpc[w]]
            BY <3>1, <4>2 DEF startLocked
          <5> QED BY <5>1, PoolAssumption
        <4> QED BY <4>1, <4>2
      <3>4. ~resultsClosed /\ \A s \in Closers : spc[s] \notin {"close", "wait", "drain", "results"}
        BY <1>2, <3>1
      <3> QED BY <2>1, <3>1, <3>2, <3>3, <3>4 DEF GracefulInv
    <2>3. CASE ~SubmitCheck(u)
      <3>1. /\ UNCHANGED <<started, closed, wpc, tasksClosed, resultsClosed, spc>>
            /\ \A t \in Tasks : sub'[t] = "send" \/ t \in Accepted' => sub[t] = "send" \/ t \in Accepted
            /\ UNCHANGED tasks \/ ~tasksClosed
        <4>1. UNCHANGED <<started, closed, wpc, tasksClosed, resultsClosed, spc>>
          BY <1>4, <2>3 DEF Submit, SubmitClosed, SubmitSend, SubmitReject, Refuse,
             SubmitPanics, WaitGivesUp, WaitServed, WaitOther, WaitPutBack, WaitPanics,
             SubmitFrame, Panic, flags, workers, channels
        <4>2. UNCHANGED tasks \/ ~tasksClosed
          BY <1>4, <2>3 DEF Submit, SubmitClosed, SubmitSend, SubmitReject, Refuse,
             SubmitPanics, WaitGivesUp, WaitServed, WaitOther, WaitPutBack, WaitPanics,
             SubmitFrame, Panic, channels
        <4>3. UNCHANGED sub \/ \E p \in {"rejected", "await", "accepted", "gaveup", "served", "putback"} :
                Becomes(u, p) /\ (p = "rejected" \/ sub[u] \in {"send", "await", "putback"})
          BY <1>4, <2>3 DEF Submit, SubmitClosed, SubmitSend, SubmitReject, Refuse,
             SubmitPanics, WaitGivesUp, WaitServed, WaitOther, WaitPutBack, WaitPanics,
             SubmitFrame, Panic, submits
        <4> QED BY SMTT(30), <1>3, <4>1, <4>2, <4>3 DEF Accepted, Becomes, TypeOK
      <3>2. Drained => Drained'
        BY <3>1 DEF Drained
      <3> QED BY <1>2, <2>1, <3>1, <3>2 DEF GracefulInv
    <2> QED BY <2>2, <2>3
  <1>5. ASSUME NEW w \in Workers, Worker(w) PROVE GracefulInv'
    <2>1. UNCHANGED <<started, closed, ctxDone, sub, spc, tasksClosed, resultsClosed>>
      BY <1>5, WorkerKeepsSub
    <2>2. \A t \in Accepted' : Copies(t)' = 1
      BY <1>1, <1>2, <1>5, <2>1, WorkerCounts DEF Accepted
    <2>3. wpc[w] # "none"
      BY <1>5 DEF Worker, WorkerCancelled, WorkerTakes, WorkerEnds, SemAcquire, CountActive,
           ExecuteTask, SemRelease, UncountActive, SendResult, SendResultPanics, WorkerPutBack,
           PutBackPanics, WorkerExits
    <2>4. /\ UNCHANGED wpc \/ \E p \in WorkerPlaces \ {"putback"} :
               Goto(w, p) /\ (p \in {"none", "exit"} => wpc[w] = "exit" \/ Drained)
          /\ tasks = <<>> => tasks' = <<>>
      BY <1>1, <1>2, <1>5
      DEF Worker, WorkerCancelled, WorkerTakes, WorkerEnds, SemAcquire, CountActive,
          ExecuteTask, SemRelease, UncountActive, SendResult, SendResultPanics, WorkerPutBack,
          PutBackPanics, WorkerExits, WorkerPlaces, Panic, channels, workers
    <2>5. \A v \in Workers : /\ wpc'[v] # "putback"
                             /\ wpc'[v] \in {"exit", "none"} => wpc[v] \in {"exit", "none"} \/ Drained
      BY SMTT(30), <1>2, <1>3, <2>4 DEF Goto, TypeOK
    <2>6. Drained => Drained'
      BY <2>1, <2>4 DEF Drained
    <2>7. \A v \in InitialWorkers : started /\ wpc'[v] \in {"exit", "none"} => Drained'
      BY <1>2, <2>5, <2>6, PoolAssumption
    <2>8. ~resultsClosed /\ \A s \in Closers : spc[s] # "results"
      BY <1>2, <2>3
    <2>9. \A t \in Tasks : sub'[t] = "send" \/ t \in Accepted' => started'
      BY <1>2, <2>1 DEF Accepted
    <2> QED BY <1>2, <2>1, <2>2, <2>5, <2>7, <2>8, <2>9 DEF GracefulInv
  <1>6. CASE OtherStep
    <2>1. \A t \in Accepted' : Copies(t)' = 1
      BY <1>2, <1>6, OtherCounts DEF Accepted
    <2>2. CASE Start
      <3>1. /\ startLocked /\ ~closed /\ ~closed' /\ started' /\ ~tasksClosed
            /\ UNCHANGED <<tasks, tasksClosed, resultsClosed, spc, sub>>
        BY <1>2, <2>2 DEF Start, startLocked, channels, submits
      <3>2. \A w \in Workers : wpc'[w] # "putback"
        <4>1. UNCHANGED <<got, resultsClosed, rpc>>
          BY <2>2 DEF Start, channels, submits, resizes
        <4>2. \A w \in Workers : wpc'[w] = wpc[w] \/ wpc'[w] = "loop"
          BY <3>1, <4>1, StartInv
        <4> QED BY <1>2, <4>2
      <3>3. \A w \in InitialWorkers : wpc'[w] \in {"exit", "none"} => Drained'
        BY <1>2, <1>3, <2>2, PoolAssumption DEF Start, startLocked, TypeOK
      <3>4. ~resultsClosed /\ \A s \in Closers : spc[s] \notin {"close", "wait", "drain", "results"}
        BY <1>2, <3>1
      <3> QED BY <2>1, <3>1, <3>2, <3>3, <3>4 DEF GracefulInv
    <2>3. ASSUME UNCHANGED <<started, wpc, tasks, sub>>, closed => closed', tasksClosed => tasksClosed',
                 tasksClosed' => closed',
                 \A s \in Closers : /\ spc'[s] = "close" => closed'
                                    /\ spc'[s] \in {"wait", "drain", "results"} => tasksClosed',
                 resultsClosed' \/ (\E s \in Closers : spc'[s] = "results")
                    => tasksClosed' /\ \A w \in Workers : wpc[w] = "none"
          PROVE  GracefulInv'
      <3>1. Drained => Drained'
        BY <2>3 DEF Drained
      <3>2. \A t \in Tasks : sub'[t] = "send" \/ t \in Accepted' => started'
        BY <1>2, <2>3 DEF Accepted
      <3>3. started' => \A w \in InitialWorkers : wpc'[w] \in {"exit", "none"} => Drained'
        BY <1>2, <2>3, <3>1
      <3> QED BY <1>2, <2>1, <2>3, <3>2, <3>3 DEF GracefulInv
    <2>4. ASSUME NEW s \in Closers, Shutdown(s) PROVE GracefulInv'
      <3>1. UNCHANGED <<started, wpc, tasks, sub>>
        BY <2>4 DEF Shutdown, StopCancels, ShutdownBegins, ShutdownAgain, CloseTasks,
           ShutdownTimesOut, WorkersGone, CloseResults, RestUnchanged, workers, submits, channels, flags
      <3>2. /\ closed => closed'
            /\ tasksClosed => tasksClosed'
            /\ tasksClosed' => closed'
        BY <1>2, <2>4 DEF Shutdown, StopCancels, ShutdownBegins, ShutdownAgain, CloseTasks,
           ShutdownTimesOut, WorkersGone, CloseResults, CloserAt, channels, flags
      <3>3. \E p \in {"stop", "close", "wait", "drain", "results", "done"} :
              /\ spc' = [spc EXCEPT ![s] = p]
              /\ p = "close" => closed'
              /\ p \in {"wait", "drain", "results"} => tasksClosed'
        BY <1>2, <2>4 DEF Shutdown, StopCancels, ShutdownBegins, ShutdownAgain, CloseTasks,
           ShutdownTimesOut, WorkersGone, CloseResults, CloserAt, channels, flags
      <3>4. /\ spc'[s] = "close" => closed'
            /\ spc'[s] \in {"wait", "drain", "results"} => tasksClosed'
            /\ \A c \in Closers \ {s} : spc'[c] = spc[c]
        BY <1>3, <3>3 DEF TypeOK
      <3>5. resultsClosed' \/ spc'[s] = "results"
              => tasksClosed' /\ \A w \in Workers : wpc[w] = "none"
        BY <1>2, <1>3, <2>4, NobodyLive
        DEF Shutdown, StopCancels, ShutdownBegins, ShutdownAgain, CloseTasks,
            ShutdownTimesOut, WorkersGone, CloseResults, CloserAt, flags, channels, TypeOK
      <3>6. \A c \in Closers : /\ spc'[c] = "close" => closed'
                               /\ spc'[c] \in {"wait", "drain", "results"} => tasksClosed'
        BY <1>2, <3>2, <3>4
      <3>7. resultsClosed' \/ (\E c \in Closers : spc'[c] = "results")
              => tasksClosed' /\ \A w \in Workers : wpc[w] = "none"
        BY <1>2, <3>2, <3>4, <3>5
      <3> QED BY <2>3, <3>1, <3>2, <3>6, <3>7
    <2>5. CASE (\E d \in Drainers : WaitForDrain(d)) \/ UNCHANGED vars
      <3>1. UNCHANGED <<started, wpc, tasks, sub, closed, tasksClosed, resultsClosed, spc>>
        BY <2>5 DEF WaitForDrain, DrainBegins, DrainSeesEmpty, DrainReadsActive, DrainGivesUp,
           DrainFrame, vars, flags, workers, channels, submits
      <3> QED BY <1>2, <2>3, <3>1
    <2> QED BY <1>6, <2>2, <2>4, <2>5 DEF OtherStep
  <1> QED BY <1>4, <1>5, <1>6, NextSplit

\* A new pool has accepted nothing.
LEMMA GracefulInit == Init => GracefulInv
  BY DEF Init, GracefulInv, Accepted

\* Once p.results is closed the queue is empty and every worker gone.
LEMMA GracefulImplies ==
  ASSUME IndInv, GracefulInv, InitialWorkers # {}
  PROVE  GracefulRunsAll
  <1> SUFFICES ASSUME resultsClosed, ~ctxDone, Resizers = {}, NEW t \in Accepted
               PROVE  executed[t] = 1
    BY DEF GracefulRunsAll
  <1>1. /\ started /\ Copies(t) = 1 /\ t \in Tasks
        /\ \A w \in Workers : wpc[w] = "none"
        /\ \A w \in InitialWorkers : wpc[w] \in {"exit", "none"} => Drained
    BY DEF GracefulInv, Accepted
  <1>2. tasks = <<>>
    BY <1>1, PoolAssumption DEF Drained
  <1>3. Queued(t) = {} /\ InHands(t) = {}
    BY <1>1, <1>2 DEF Queued, InHands
  <1>4. executed[t] \in Nat
    BY <1>1 DEF IndInv, TypeOK
  <1> QED BY <1>1, <1>3, <1>4, FS_EmptySet DEF Copies

(***************************************************************************)
(* Batches on the pool                                                     *)
(***************************************************************************)
\* A step with a batch is one of the pool, one of SubmitBatchWait that leaves
\* the pool alone, or one of the collector on p.results.
LEMMA BatchSplit ==
  ASSUME [BatchNext]_allvars
  PROVE  \/ [Next]_vars /\ UNCHANGED bvars
         \/ BatchBegins \/ BatchSubmitted \/ RangeTakes \/ RangeCancelled \/ RangeEnds
         \/ BatchTakes \/ BatchOther \/ BatchPutBack \/ BatchCancelled \/ BatchPanics
  <1>1. BatchSubmits => Next /\ UNCHANGED bvars
    <2> SUFFICES ASSUME BatchSubmits PROVE Next /\ UNCHANGED bvars
      OBVIOUS
    <2>1. PICK i \in DOMAIN Batch : SubmitCheck(Batch[i]) \/ SubmitClosed(Batch[i])
      BY DEF BatchSubmits
    <2>2. Batch[i] \in Tasks
      BY BatchAssumption, ElementOfSeq
    <2> QED BY <2>1, <2>2 DEF BatchSubmits, Next, Submit
  <1>2. PoolStep => Next /\ UNCHANGED bvars
    BY DEF PoolStep, Next
  <1>3. ASSUME NEW s \in Closers, DeferredStop(s) PROVE Next /\ UNCHANGED bvars
    BY <1>3 DEF DeferredStop, Next, Shutdown
  <1>4. BatchFinished \/ UNCHANGED allvars => UNCHANGED <<vars, bvars>>
    BY DEF BatchFinished, allvars
  <1> QED BY <1>1, <1>2, <1>3, <1>4 DEF BatchNext, Collector, BatchWait

\* A step that changes nothing of the pool but p.results.
OnlyResults ==
  UNCHANGED <<flags, tasks, tasksClosed, resultsClosed, workers, submits, resizes, spc, drains>>

\* A step that changes only p.results keeps the tasks and moves results.
LEMMA OnlyResultsKeeps ==
  ASSUME OnlyResults, IndInv,
         results' \in Seq(Tasks), Len(results') <= QueueSize,
         panicked' \in {"nobody", "submit", "wait", "worker", "result"}
  PROVE  /\ IndInv'
         /\ AtMostOnce => AtMostOnce'
         /\ GracefulInv => GracefulInv'
         /\ Accepted' = Accepted
         /\ \A t \in Tasks : /\ executed'[t] = executed[t]
                             /\ ResultCopies(t)' = ResultCopies(t) + Occurs(t, results') - Occurs(t, results)
  <1>1. UNCHANGED <<started, closed, ctxDone, tasks, tasksClosed, resultsClosed, sem, active,
                    executed, wpc, wtask, queued, sub, got, rpc, left, resizeMu, spc, dpc, pending>>
    BY DEF OnlyResults, flags, workers, submits, resizes, drains
  <1>2. TypeOK'
    BY <1>1 DEF IndInv, TypeOK
  <1>3. InHandOK' /\ TokensOK' /\ StartedOK'
    <2>1. TokensOK'
      BY <1>1, SameWorkers DEF IndInv
    <2> QED BY <1>1, <2>1 DEF IndInv, InHandOK, StartedOK
  <1>4. Accepted' = Accepted
    BY <1>1 DEF Accepted
  <1>5. \A t \in Tasks : /\ Copies(t)' = Copies(t)
                         /\ Cardinality(Holders(t))' = Cardinality(Holders(t))
                         /\ Cardinality(Finishing(t))' = Cardinality(Finishing(t))
                         /\ One(sub[t] = "served")' = One(sub[t] = "served")
    BY <1>1 DEF Copies, Queued, InHands, Holders, Finishing
  <1>6. AtMostOnce => AtMostOnce'
    BY <1>4, <1>5 DEF AtMostOnce
  <1>7. GracefulInv => GracefulInv'
    <2>1. Drained' = Drained /\ \A t \in Accepted : t \in Tasks
      BY <1>1 DEF Drained, Accepted
    <2> QED BY <1>1, <1>4, <1>5, <2>1 DEF GracefulInv
  <1>8. ASSUME NEW t \in Tasks
        PROVE  ResultCopies(t)' = ResultCopies(t) + Occurs(t, results') - Occurs(t, results)
    <2>1. CountsOK(t) /\ CountsOK(t)'
      BY <1>2, Counts, CountsNext DEF AllCounted, IndInv
    <2>2. Occurs(t, results)' = Occurs(t, results') /\ One(sub[t] = "served") \in Nat
      BY DEF Occurs, One
    <2> QED BY SMTT(30), <1>5, <2>1, <2>2 DEF CountsOK
  <1> QED BY <1>1, <1>2, <1>3, <1>4, <1>6, <1>7, <1>8 DEF IndInv

\* What the collector takes from p.results or puts back, and what becomes of
\* the result.
LEMMA CollectorStep ==
  ASSUME IndInv, BatchTypeOK, HeldOK,
         BatchTakes \/ BatchOther \/ BatchPutBack \/ BatchCancelled \/ BatchPanics
  PROVE  /\ OnlyResults /\ UNCHANGED <<private, mpc, output>>
         /\ results' \in Seq(Tasks) /\ Len(results') <= QueueSize
         /\ panicked' \in {"nobody", "wait"} /\ (panicked' = "nobody" => panicked = "nobody")
         /\ BatchTypeOK' /\ HeldOK'
  <1>0. TypeOK
    BY DEF IndInv
  <1>1. CASE BatchTakes
    <2>1. results # <<>> /\ results' = Tail(results) /\ CollectFrame
      BY <1>1 DEF BatchTakes
    <2>2. Head(results) \in Tasks /\ results' \in Seq(Tasks) /\ Len(results') <= QueueSize
      BY <1>0, <2>1, ReceiveType DEF TypeOK
    <2>3. resultChan' \in Seq(Tasks)
      BY <1>1, <2>2, AppendProperties DEF BatchTakes, BatchTypeOK
    <2>4. BatchTypeOK' /\ HeldOK'
      BY <1>1, <2>1, <2>3 DEF BatchTakes, BatchTypeOK, HeldOK, CollectFrame
    <2> QED BY <2>1, <2>2, <2>4 DEF CollectFrame, OnlyResults, NoPanic
  <1>2. CASE BatchOther
    <2>1. CollectFrame
      BY <1>2 DEF BatchOther
    <2>2. /\ results' \in Seq(Tasks) /\ Len(results') <= QueueSize
          /\ bgot' \in Tasks \/ (bgot' = Zero /\ resultsClosed)
      <3>1. CASE results # <<>> /\ bgot' = Head(results) /\ results' = Tail(results)
        BY <1>0, <3>1, ReceiveType DEF TypeOK
      <3>2. CASE bgot' = Zero /\ UNCHANGED results /\ resultsClosed
        BY <1>0, <3>2 DEF TypeOK
      <3> QED BY <1>2, <3>1, <3>2 DEF BatchOther
    <2>3. BatchTypeOK' /\ HeldOK'
      BY <1>2, <2>1, <2>2 DEF BatchOther, BatchTypeOK, HeldOK, CollectFrame
    <2> QED BY <2>1, <2>2, <2>3 DEF CollectFrame, OnlyResults, NoPanic
  <1>3. CASE BatchPutBack
    <2>1. CollectFrame /\ bgot \in Tasks /\ results' = PutOrDrop(results, bgot)
      BY <1>3 DEF BatchPutBack, HeldOK
    <2>2. results' \in Seq(Tasks) /\ Len(results') <= QueueSize
      BY <1>0, <2>1, PutOrDropType DEF TypeOK
    <2>3. BatchTypeOK' /\ HeldOK'
      BY <1>3, <2>1 DEF BatchPutBack, BatchTypeOK, HeldOK, CollectFrame
    <2> QED BY <2>1, <2>2, <2>3 DEF CollectFrame, OnlyResults, NoPanic
  <1>4. CASE BatchCancelled
    BY <1>0, <1>4 DEF BatchCancelled, BatchTypeOK, HeldOK, CollectFrame, OnlyResults, NoPanic, TypeOK
  <1>5. CASE BatchPanics
    BY <1>0, <1>5 DEF BatchPanics, Panic, BatchTypeOK, HeldOK, OnlyResults, TypeOK, bvars, channels
  <1> QED BY <1>1, <1>2, <1>3, <1>4, <1>5

\* The steps of SubmitBatchWait, which leave the pool alone.
LEMMA WaitStep ==
  ASSUME BatchTypeOK, HeldOK,
         BatchBegins \/ BatchSubmitted \/ RangeTakes \/ RangeCancelled \/ RangeEnds
  PROVE  UNCHANGED vars /\ BatchTypeOK' /\ HeldOK'
  <1>1. UNCHANGED <<vars, bgot, collected>>
    BY DEF BatchBegins, BatchSubmitted, RangeTakes, RangeCancelled, RangeEnds
  <1>2. resultChan' \in Seq(Tasks) /\ output' \in Seq(Tasks)
    <2>1. CASE resultChan # <<>>
      <3>1. Head(resultChan) \in Tasks /\ Tail(resultChan) \in Seq(Tasks)
        BY <2>1, HeadTailProperties DEF BatchTypeOK
      <3>2. Append(output, Head(resultChan)) \in Seq(Tasks)
        BY <3>1, AppendProperties DEF BatchTypeOK
      <3> QED BY <3>1, <3>2
          DEF BatchTypeOK, BatchBegins, BatchSubmitted, RangeTakes, RangeCancelled, RangeEnds
    <2>2. CASE resultChan = <<>>
      BY <2>2 DEF BatchTypeOK, BatchBegins, BatchSubmitted, RangeTakes, RangeCancelled, RangeEnds
    <2> QED BY <2>1, <2>2
  <1>3. BatchTypeOK'
    BY <1>1, <1>2 DEF BatchTypeOK, BatchBegins, BatchSubmitted, RangeTakes, RangeCancelled, RangeEnds
  <1>4. UNCHANGED resultsClosed
    BY <1>1 DEF vars, channels
  <1>5. HeldOK'
    BY <1>1, <1>4 DEF HeldOK, BatchBegins, BatchSubmitted, RangeTakes, RangeCancelled, RangeEnds
  <1> QED BY <1>1, <1>3, <1>5

\* The pool's steps do not touch what the collector holds.
LEMMA PoolKeepsHeld ==
  ASSUME BatchTypeOK, HeldOK, [Next]_vars, UNCHANGED bvars
  PROVE  BatchTypeOK' /\ HeldOK'
  <1>1. UNCHANGED <<private, bpc, bgot, collected, resultChan, mpc, output>>
    BY DEF bvars
  <1> QED BY <1>1, FlagsStay DEF BatchTypeOK, HeldOK

(***************************************************************************)
(* Results are neither duplicated nor lost.                                *)
(***************************************************************************)
AccountedOK(t) ==
  /\ AllCopies(t) = ResultCopies(t) + Occurs(t, resultChan) + Occurs(t, output) + One(bgot = t)
  /\ CountsOK(t) /\ ResultCopies(t) \in Nat
  /\ Occurs(t, resultChan) \in Nat /\ Occurs(t, output) \in Nat /\ One(bgot = t) \in Nat

AllAccounted == TypeOK /\ BatchTypeOK => \A t \in Tasks : AccountedOK(t)

\* Where a batch has results, written as a sum of counts.
LEMMA Accounts == AllAccounted
  <1> SUFFICES ASSUME TypeOK, BatchTypeOK, NEW t \in Tasks PROVE AccountedOK(t)
    BY DEF AllAccounted
  <1>1. CountsOK(t)
    BY Counts DEF AllCounted
  <1>2. Occurs(t, resultChan) \in Nat /\ Occurs(t, output) \in Nat
    BY OccursType DEF BatchTypeOK
  <1>3. One(bgot = t) \in Nat /\ One(sub[t] = "served") \in Nat
    BY DEF One
  <1>4. ResultCopies(t) \in Nat
    BY <1>1, <1>3 DEF CountsOK
  <1> QED BY <1>1, <1>2, <1>3, <1>4 DEF AccountedOK, AllCopies, One

\* The same in the next state.
LEMMA AccountsNext == AllAccounted'
  BY Accounts, PTL

\* A result that is somewhere is there once: its task ran once.
LEMMA ResultOnce ==
  ASSUME TypeOK, BatchTypeOK, AtMostOnce, ResultsConserved, NEW t \in Tasks
  PROVE  AllCopies(t) <= 1
  <1>1. CountsOK(t) /\ AllCopies(t) \in Nat
    BY Accounts DEF AllAccounted, AccountedOK
  <1>2. Copies(t) <= 1 /\ AllCopies(t) <= executed[t]
    BY <1>1 DEF AtMostOnce, ResultsConserved, CountsOK
  <1> QED BY <1>1, <1>2 DEF CountsOK

\* So it is at most once in p.results, and not there if somebody holds it.
LEMMA ResultPlace ==
  ASSUME TypeOK, BatchTypeOK, AtMostOnce, ResultsConserved, NEW t \in Tasks
  PROVE  /\ Occurs(t, results) + Cardinality(Holders(t)) + Cardinality(Finishing(t))
              + One(bgot = t) <= 1
         /\ Occurs(t, results) \in Nat /\ Cardinality(Holders(t)) \in Nat
         /\ Cardinality(Finishing(t)) \in Nat /\ One(bgot = t) \in Nat
         /\ Occurs(t, output) <= 1
  <1> DEFINE r == Occurs(t, results)         h == Cardinality(Holders(t))
             f == Cardinality(Finishing(t))  s == One(sub[t] = "served")
             c == Occurs(t, resultChan)      o == Occurs(t, output)
             b == One(bgot = t)
  <1>1. /\ r \in Nat /\ h \in Nat /\ f \in Nat /\ s \in Nat
        /\ c \in Nat /\ o \in Nat /\ b \in Nat
    BY Accounts DEF AllAccounted, AccountedOK, CountsOK, One
  <1>2. AllCopies(t) = (r + h + f + s) + c + o + b
    BY Accounts DEF AllAccounted, AccountedOK, CountsOK
  <1>3. AllCopies(t) <= 1
    BY ResultOnce
  <1> HIDE DEF r, h, f, s, c, o, b
  <1>4. r + h + f + b <= 1 /\ o <= 1
    BY <1>1, <1>2, <1>3
  <1> QED BY <1>1, <1>4 DEF r, h, f, s, o, b

\* What occurs at most once is in one place.
LEMMA OccursOnce ==
  ASSUME NEW S, NEW s \in Seq(S), NEW i \in DOMAIN s, NEW j \in DOMAIN s, s[i] = s[j],
         Occurs(s[i], s) <= 1
  PROVE  i = j
  <1> DEFINE A == {k \in DOMAIN s : s[k] = s[i]}
  <1>1. IsFiniteSet(A) /\ Cardinality(A) \in Nat /\ Cardinality(A) <= 1
    BY OccursType DEF Occurs
  <1>2. i \in A /\ j \in A
    OBVIOUS
  <1> HIDE DEF A
  <1>3. Cardinality(A) = 1
    BY <1>1, <1>2, FS_EmptySet
  <1>4. PICK x : A = {x}
    BY <1>1, <1>3, FS_Singleton
  <1> QED BY <1>2, <1>4

\* What occurs nowhere is in no place.
LEMMA OccursNone ==
  ASSUME NEW S, NEW s \in Seq(S), NEW t
  PROVE  Occurs(t, s) = 0 <=> \A i \in DOMAIN s : s[i] # t
  <1> DEFINE A == {k \in DOMAIN s : s[k] = t}
  <1>1. IsFiniteSet(A)
    BY OccursType
  <1>2. Cardinality(A) = 0 <=> A = {}
    BY <1>1, FS_EmptySet
  <1> QED BY <1>2 DEF Occurs

\* Who holds a result finds room for it in p.results, if that is made large
\* enough for all results.
LEMMA RoomFor ==
  ASSUME TypeOK, BatchTypeOK, AtMostOnce, ResultsConserved, RoomForAll,
         NEW x \in Tasks, Finishing(x) # {} \/ Holders(x) # {} \/ bgot = x
  PROVE  Room(results)
  <1>1. /\ Occurs(x, results) + Cardinality(Holders(x)) + Cardinality(Finishing(x))
             + One(bgot = x) <= 1
        /\ Occurs(x, results) \in Nat /\ Cardinality(Holders(x)) \in Nat
        /\ Cardinality(Finishing(x)) \in Nat /\ One(bgot = x) \in Nat
    BY ResultPlace
  <1>2. /\ Finishing(x) # {} => Cardinality(Finishing(x)) >= 1
        /\ Holders(x) # {} => Cardinality(Holders(x)) >= 1
        /\ bgot = x => One(bgot = x) >= 1
    <2>1. Finishing(x) \in SUBSET Workers /\ Holders(x) \in SUBSET Tasks
      BY DEF Finishing, Holders
    <2>2. IsFiniteSet(Finishing(x)) /\ IsFiniteSet(Holders(x))
      BY <2>1, PoolAssumption, FS_Subset
    <2> QED BY <1>1, <2>2, FS_EmptySet DEF One
  <1>3. Occurs(x, results) = 0
    BY <1>1, <1>2
  <1>4. results \in Seq(Tasks) /\ Len(results) \in Nat /\ DOMAIN results = 1..Len(results)
    BY LenProperties DEF TypeOK
  <1>5. \A i \in 1..Len(results) : results[i] \in Tasks \ {x}
    BY <1>3, <1>4, OccursNone, ElementOfSeq
  <1>6. \A i, j \in 1..Len(results) : results[i] = results[j] => i = j
    <2> SUFFICES ASSUME NEW i \in 1..Len(results), NEW j \in 1..Len(results),
                        results[i] = results[j]
                 PROVE  i = j
      OBVIOUS
    <2> DEFINE y == results[i]
    <2>1. y \in Tasks
      BY <1>5
    <2>2. /\ Occurs(y, results) + Cardinality(Holders(y)) + Cardinality(Finishing(y))
               + One(bgot = y) <= 1
          /\ Occurs(y, results) \in Nat /\ Cardinality(Holders(y)) \in Nat
          /\ Cardinality(Finishing(y)) \in Nat /\ One(bgot = y) \in Nat
      BY <2>1, ResultPlace
    <2>3. Occurs(y, results) <= 1
      BY <2>2
    <2> QED BY <1>4, <2>3, OccursOnce
  <1>7. results \in Injection(1..Len(results), Tasks \ {x})
    <2>1. results \in [1..Len(results) -> Tasks \ {x}]
      BY <1>4, <1>5
    <2> QED BY <1>6, <2>1 DEF Injection, IsInjective
  <1>8. /\ IsFiniteSet(Tasks \ {x}) /\ Cardinality(Tasks \ {x}) = Cardinality(Tasks) - 1
        /\ Cardinality(Tasks) \in Nat
    BY PoolAssumption, FS_RemoveElement, FS_CardinalityType
  <1>9. Cardinality(1..Len(results)) <= Cardinality(Tasks \ {x})
    BY <1>7, <1>8, FS_Injection
  <1>10. Cardinality(1..Len(results)) = Len(results)
    BY <1>4, FS_Interval
  <1> QED BY <1>4, <1>8, <1>9, <1>10, PoolAssumption DEF Room, RoomForAll

\* Every step moves a result or drops it where p.results may be full.
LEMMA ConservedNext ==
  ASSUME IndInv, IndInv', AtMostOnce, BatchTypeOK, BatchTypeOK', HeldOK, ResultsConserved,
         CollectedOK, [BatchNext]_allvars
  PROVE  ResultsConserved'
  <1> SUFFICES ASSUME NEW t \in Tasks
               PROVE  /\ AllCopies(t)' <= executed'[t]
                      /\ RoomForAll /\ panicked' = "nobody" /\ mpc' # "left"
                           => AllCopies(t)' = executed'[t]
    BY DEF ResultsConserved, RoomForAll
  <1> DEFINE n  == AllCopies(t)           n1  == AllCopies(t)'
             p  == ResultCopies(t)        p1  == ResultCopies(t)'
             c  == Occurs(t, resultChan)  c1  == Occurs(t, resultChan)'
             o  == Occurs(t, output)      o1  == Occurs(t, output)'
             b  == One(bgot = t)          b1  == One(bgot = t)'
             r  == Occurs(t, results)     r1  == Occurs(t, results')
             e  == executed[t]            e1  == executed'[t]
             Full == RoomForAll
  <1>1. TypeOK /\ TypeOK' /\ t # NoTask /\ t # Zero
    BY PoolAssumption DEF IndInv
  <1>2. /\ n = p + c + o + b /\ p \in Nat /\ c \in Nat /\ o \in Nat /\ b \in Nat /\ e \in Nat /\ r \in Nat
        /\ n1 = p1 + c1 + o1 + b1 /\ p1 \in Nat /\ c1 \in Nat /\ o1 \in Nat /\ b1 \in Nat /\ e1 \in Nat
    BY <1>1, Accounts, AccountsNext DEF AllAccounted, AccountedOK, CountsOK
  <1>3. n <= e /\ (Full /\ panicked = "nobody" /\ mpc # "left" => n = e)
    BY DEF ResultsConserved, RoomForAll
  <1> SUFFICES n1 <= e1 /\ (Full /\ panicked' = "nobody" /\ mpc' # "left" => n1 = e1)
    OBVIOUS
  <1>4. ASSUME UNCHANGED resultChan PROVE c1 = c
    BY <1>4 DEF Occurs
  <1>5. ASSUME UNCHANGED output PROVE o1 = o
    BY <1>5 DEF Occurs
  <1>6. ASSUME UNCHANGED bgot PROVE b1 = b
    BY <1>6
  \* It is enough that a step loses nothing, or is one that may.
  <1>7. ASSUME p1 + c1 + o1 + b1 - e1 <= p + c + o + b - e,
               Full /\ panicked' = "nobody" /\ mpc' # "left" =>
                 /\ p1 + c1 + o1 + b1 - e1 = p + c + o + b - e
                 /\ panicked = "nobody" /\ mpc # "left"
        PROVE  n1 <= e1 /\ (Full /\ panicked' = "nobody" /\ mpc' # "left" => n1 = e1)
    <2> HIDE DEF n, n1, p, p1, c, c1, o, o1, b, b1, e, e1, Full
    <2> QED BY <1>2, <1>3, <1>7
  <1>8. ASSUME [Next]_vars, UNCHANGED bvars
        PROVE  n1 <= e1 /\ (Full /\ panicked' = "nobody" /\ mpc' # "left" => n1 = e1)
    <2>1. c1 = c /\ o1 = o /\ b1 = b /\ UNCHANGED mpc
      BY <1>4, <1>5, <1>6, <1>8 DEF bvars
    <2>2. panicked' = "nobody" => panicked = "nobody"
      BY <1>8, FlagsStay
    <2>3. p1 - e1 <= p - e /\ (Full => p1 - e1 = p - e)
      <3>1. ASSUME NEW u \in Tasks, Submit(u) PROVE p1 - e1 <= p - e /\ (Full => p1 - e1 = p - e)
        <4>1. e1 = e /\ p1 <= p /\ (Room(results) \/ got[u] \notin Tasks => p1 = p)
          BY <3>1, SubmitCounts
        <4>2. Full /\ got[u] \in Tasks => Room(results)
          <5> SUFFICES ASSUME Full, got[u] \in Tasks PROVE Room(results)
            OBVIOUS
          <5>1. Holders(got[u]) # {}
            BY DEF Holders
          <5> QED BY <1>1, <5>1, RoomFor
        <4> HIDE DEF p, p1, e, e1, Full
        <4> QED BY <1>2, <4>1, <4>2
      <3>2. ASSUME NEW w \in Workers, Worker(w) PROVE p1 - e1 <= p - e /\ (Full => p1 - e1 = p - e)
        <4>1. p1 - e1 <= p - e /\ (Room(results) \/ wpc[w] # "send" => p1 - e1 = p - e)
          BY <3>2, WorkerCounts
        <4>2. Full /\ wpc[w] = "send" => Room(results)
          <5> SUFFICES ASSUME Full, wpc[w] = "send" PROVE Room(results)
            OBVIOUS
          <5>1. wtask[w] \in Tasks /\ Finishing(wtask[w]) # {}
            BY DEF Finishing, IndInv, InHandOK
          <5> QED BY <1>1, <5>1, RoomFor
        <4> HIDE DEF p, p1, e, e1, Full
        <4> QED BY <1>2, <4>1, <4>2
      <3>3. ASSUME OtherStep PROVE p1 - e1 <= p - e /\ (Full => p1 - e1 = p - e)
        <4>1. e1 = e /\ p1 = p
          BY <3>3, OtherCounts
        <4> HIDE DEF p, p1, e, e1, Full
        <4> QED BY <1>2, <4>1
      <3> QED BY <1>8, <3>1, <3>2, <3>3, NextSplit
    <2> HIDE DEF n, n1, p, p1, c, c1, o, o1, b, b1, e, e1, Full
    <2> QED BY <1>2, <1>7, <2>1, <2>2, <2>3
  <1>9. ASSUME UNCHANGED vars PROVE p1 = p /\ e1 = e /\ UNCHANGED panicked
    <2>1. p1 = p /\ e1 = e
      BY <1>9, OtherCounts DEF OtherStep
    <2> QED BY <1>9, <2>1 DEF vars
  <1>10. ASSUME BatchBegins \/ BatchSubmitted \/ RangeEnds
         PROVE  n1 <= e1 /\ (Full /\ panicked' = "nobody" /\ mpc' # "left" => n1 = e1)
    <2>1. UNCHANGED <<vars, resultChan, output, bgot>> /\ (mpc = "left" => mpc' = "left")
      BY <1>10 DEF BatchBegins, BatchSubmitted, RangeEnds, CollectedOK
    <2>2. p1 = p /\ e1 = e /\ c1 = c /\ o1 = o /\ b1 = b /\ UNCHANGED panicked
      BY <1>4, <1>5, <1>6, <1>9, <2>1
    <2> HIDE DEF n, n1, p, p1, c, c1, o, o1, b, b1, e, e1, Full
    <2> QED BY <1>2, <1>7, <2>1, <2>2
  <1>11. ASSUME RangeTakes \/ RangeCancelled
         PROVE  n1 <= e1 /\ (Full /\ panicked' = "nobody" /\ mpc' # "left" => n1 = e1)
    <2>1. /\ UNCHANGED <<vars, bgot>> /\ mpc = "range"
          /\ resultChan # <<>> /\ resultChan' = Tail(resultChan)
          /\ \/ output' = Append(output, Head(resultChan))
             \/ UNCHANGED output /\ mpc' = "left"
      BY <1>11 DEF RangeTakes, RangeCancelled
    <2>2. p1 = p /\ e1 = e /\ b1 = b /\ UNCHANGED panicked
      BY <1>6, <1>9, <2>1
    <2>3. c1 = c - One(Head(resultChan) = t)
      <3>1. Occurs(t, Tail(resultChan)) = c - One(Head(resultChan) = t)
        BY <2>1, OccursTail DEF BatchTypeOK
      <3> QED BY <2>1, <3>1 DEF Occurs
    <2>4. o1 = o + One(Head(resultChan) = t) \/ (o1 = o /\ mpc' = "left")
      <3>1. Head(resultChan) \in Tasks
        BY <2>1, HeadTailProperties DEF BatchTypeOK
      <3>2. Occurs(t, Append(output, Head(resultChan))) = o + One(Head(resultChan) = t)
        BY <3>1, OccursAppend DEF BatchTypeOK
      <3> QED BY <1>5, <2>1, <3>2 DEF Occurs
    <2>5. One(Head(resultChan) = t) \in Nat
      BY DEF One
    <2> HIDE DEF n, n1, p, p1, c, c1, o, o1, b, b1, e, e1, Full
    <2>6. /\ p1 + c1 + o1 + b1 - e1 <= p + c + o + b - e
          /\ mpc' # "left" => p1 + c1 + o1 + b1 - e1 = p + c + o + b - e
      BY <1>2, <2>2, <2>3, <2>4, <2>5
    <2> QED BY <1>7, <2>1, <2>2, <2>6
  <1>12. ASSUME BatchTakes \/ BatchOther \/ BatchPutBack \/ BatchCancelled \/ BatchPanics
         PROVE  n1 <= e1 /\ (Full /\ panicked' = "nobody" /\ mpc' # "left" => n1 = e1)
    <2>1. /\ OnlyResults /\ UNCHANGED <<private, mpc, output>>
          /\ results' \in Seq(Tasks) /\ Len(results') <= QueueSize
          /\ panicked' \in {"nobody", "wait"} /\ (panicked' = "nobody" => panicked = "nobody")
      BY <1>12, CollectorStep
    <2>2. e1 = e /\ p1 = p + r1 - r /\ r1 \in Nat
      BY <2>1, OnlyResultsKeeps, OccursType
    <2>3. o1 = o
      BY <1>5, <2>1
    <2>4. c1 + b1 + r1 <= c + b + r /\ (Full => c1 + b1 + r1 = c + b + r)
      <3>1. ASSUME BatchTakes PROVE c1 + b1 + r1 = c + b + r
        <4>1. /\ results # <<>> /\ results' = Tail(results) /\ UNCHANGED bgot
              /\ resultChan' = Append(resultChan, Head(results))
          BY <3>1 DEF BatchTakes
        <4>2. Head(results) \in Tasks
          BY <1>1, <4>1, HeadTailProperties DEF TypeOK
        <4>3. r1 = r - One(Head(results) = t)
          BY <1>1, <4>1, OccursTail DEF TypeOK
        <4>4. c1 = c + One(Head(results) = t)
          <5>1. Occurs(t, Append(resultChan, Head(results))) = c + One(Head(results) = t)
            BY <4>2, OccursAppend DEF BatchTypeOK
          <5> QED BY <4>1, <5>1 DEF Occurs
        <4>5. b1 = b /\ One(Head(results) = t) \in Nat
          BY <1>6, <4>1 DEF One
        <4> HIDE DEF c, c1, b, b1, r, r1
        <4> QED BY <1>2, <2>2, <4>3, <4>4, <4>5
      <3>2. ASSUME BatchOther PROVE c1 + b1 + r1 = c + b + r
        <4>1. UNCHANGED resultChan /\ bgot = NoTask
          BY <3>2 DEF BatchOther, HeldOK
        <4>2. c1 = c /\ b = 0
          BY <1>1, <1>4, <4>1 DEF One
        <4>3. r1 = r - b1
          <5>1. CASE results # <<>> /\ bgot' = Head(results) /\ results' = Tail(results)
            BY <1>1, <5>1, OccursTail DEF TypeOK
          <5>2. CASE bgot' = Zero /\ UNCHANGED results
            <6>1. r1 = r /\ b1 = 0
              BY <1>1, <5>2 DEF One
            <6> HIDE DEF r, r1, b1
            <6> QED BY <1>2, <6>1
          <5> QED BY <3>2, <5>1, <5>2 DEF BatchOther
        <4> HIDE DEF c, c1, b, b1, r, r1
        <4> QED BY <1>2, <2>2, <4>2, <4>3
      <3>3. ASSUME BatchPutBack PROVE c1 + b1 + r1 <= c + b + r /\ (Full => c1 + b1 + r1 = c + b + r)
        <4>1. /\ UNCHANGED resultChan /\ bgot \in Tasks /\ bgot' = NoTask
              /\ results' = PutOrDrop(results, bgot)
          BY <3>3 DEF BatchPutBack, HeldOK
        <4>2. c1 = c /\ b1 = 0
          BY <1>1, <1>4, <4>1 DEF One
        <4>3. r1 = IF Room(results) THEN r + b ELSE r
          BY <1>1, <4>1, OccursAppend DEF TypeOK, PutOrDrop
        <4>4. Full => Room(results)
          BY <1>1, <4>1, RoomFor
        <4> HIDE DEF c, c1, b, b1, r, r1, Full
        <4> QED BY <1>2, <2>2, <4>2, <4>3, <4>4
      <3>4. ASSUME BatchCancelled \/ BatchPanics PROVE c1 + b1 + r1 = c + b + r
        <4>1. UNCHANGED <<results, bgot, resultChan>>
          BY <3>4 DEF BatchCancelled, BatchPanics, Panic, channels, bvars
        <4>2. c1 = c /\ b1 = b /\ r1 = r
          BY <1>4, <1>6, <4>1
        <4> HIDE DEF c, c1, b, b1, r, r1
        <4> QED BY <1>2, <4>2
      <3> HIDE DEF c, c1, b, b1, r, r1, Full
      <3> QED BY <1>2, <2>2, <1>12, <3>1, <3>2, <3>3, <3>4
    <2> HIDE DEF n, n1, p, p1, c, c1, o, o1, b, b1, e, e1, r, r1, Full
    <2> QED BY <1>2, <1>7, <2>1, <2>2, <2>3, <2>4
  <1> HIDE DEF n, n1, e, e1, Full
  <1> QED BY <1>8, <1>10, <1>11, <1>12, BatchSplit

(***************************************************************************)
(* The collector                                                           *)
(***************************************************************************)
\* The tasks of a batch are submitted with Submit; once accepted or refused
\* they stay so.
LEMMA BatchTasks ==
  ASSUME IndInv, CollectedOK, [Next]_vars, NEW t \in Tasks, InBatch(t)
  PROVE  /\ sub'[t] \in {"new", "send", "accepted", "rejected"}
         /\ Decided(t) => sub'[t] = sub[t]
  <1>1. t \notin WaitTasks
    <2>1. PICK i \in DOMAIN Batch : Batch[i] = t
      BY DEF InBatch
    <2> QED BY <2>1, BatchAssumption, ElementOfSeq
  <1>2. TypeOK /\ sub[t] \in {"new", "send", "accepted", "rejected"}
    BY DEF IndInv, CollectedOK
  <1>3. ASSUME NEW u \in Tasks, Submit(u)
        PROVE  /\ sub'[t] \in {"new", "send", "accepted", "rejected"}
               /\ Decided(t) => sub'[t] = sub[t]
    <2>1. CASE u = t
      <3>1. \/ UNCHANGED sub
            \/ sub[t] \in {"new", "send"} /\ \E p \in {"send", "accepted", "rejected"} : Becomes(t, p)
        BY <1>1, <1>2, <1>3, <2>1
        DEF Submit, SubmitCheck, SubmitClosed, SubmitSend, SubmitReject, Refuse, SubmitPanics,
            WaitGivesUp, WaitServed, WaitOther, WaitPutBack, WaitPanics, Panic, submits
      <3> QED BY <1>2, <3>1 DEF Becomes, TypeOK, Decided
    <2>2. CASE u # t
      <3>1. UNCHANGED sub \/ \E p : Becomes(u, p)
        BY <1>3 DEF Submit, SubmitCheck, SubmitClosed, SubmitSend, SubmitReject, Refuse, SubmitPanics,
            WaitGivesUp, WaitServed, WaitOther, WaitPutBack, WaitPanics, Panic, submits
      <3>2. sub'[t] = sub[t]
        BY <1>2, <2>2, <3>1 DEF Becomes, TypeOK
      <3> QED BY <1>2, <3>2
    <2> QED BY <2>1, <2>2
  <1>4. ASSUME NEW w \in Workers, Worker(w) PROVE UNCHANGED sub
    BY <1>4, WorkerKeepsSub
  <1>5. CASE OtherStep
    <2>1. UNCHANGED sub
      BY <1>5 DEF OtherStep, Start, Resize, ResizeCheck, ResizeLock, ResizeStarts, ResizeStops,
         ResizeReturns, ResizeFrame, Shutdown, StopCancels, ShutdownBegins, ShutdownAgain, CloseTasks,
         ShutdownTimesOut, WorkersGone, CloseResults, RestUnchanged, WaitForDrain, DrainBegins,
         DrainSeesEmpty, DrainReadsActive, DrainGivesUp, DrainFrame, vars, submits
    <2> QED BY <1>2, <2>1
  <1> QED BY <1>2, <1>3, <1>4, <1>5, NextSplit

\* The collector counts what it passes on.
LEMMA CollectedNext ==
  ASSUME IndInv, BatchTypeOK, BatchTypeOK', HeldOK, CollectedOK, [BatchNext]_allvars
  PROVE  CollectedOK'
  <1>0. /\ \A t \in Tasks : InBatch(t) => sub[t] \in {"new", "send", "accepted", "rejected"}
        /\ bpc \in {"collect", "putback", "closed"} => \A i \in DOMAIN Batch : Decided(Batch[i])
        /\ \A i \in DOMAIN resultChan : resultChan[i] \in submitted
        /\ \A i \in DOMAIN output : output[i] \in submitted
        /\ bpc \in {"idle", "submit"} => collected = 0
        /\ bpc = "idle" => mpc = "idle"
        /\ mpc # "left" => collected = Len(resultChan) + Len(output)
        /\ bpc = "closed" /\ ~ctxDone => collected = Cardinality(submitted)
        /\ mpc = "returned" => bpc = "closed" /\ resultChan = <<>>
    BY DEF CollectedOK
  <1>1. ASSUME [Next]_vars, UNCHANGED bvars PROVE CollectedOK'
    <2>1. /\ UNCHANGED <<private, bpc, bgot, collected, resultChan, mpc, output>>
          /\ ctxDone => ctxDone'
      BY <1>1, FlagsStay DEF bvars
    <2>2. \A t \in Tasks : InBatch(t) => /\ sub'[t] \in {"new", "send", "accepted", "rejected"}
                                         /\ Decided(t) => sub'[t] = sub[t]
      BY <1>1, BatchTasks
    <2>3. \A i \in DOMAIN Batch : Batch[i] \in Tasks /\ InBatch(Batch[i])
      BY BatchAssumption, ElementOfSeq DEF InBatch
    <2>4. submitted \subseteq submitted'
      BY <2>2 DEF submitted, Decided
    <2>5. \A i \in DOMAIN Batch : Decided(Batch[i]) => Decided(Batch[i])'
      BY <2>2, <2>3 DEF Decided
    <2>6. ASSUME bpc \in {"collect", "putback", "closed"} PROVE submitted' = submitted
      <3>1. \A t \in Tasks : InBatch(t) => sub'[t] = sub[t]
        BY <1>0, <2>2, <2>6 DEF InBatch
      <3> QED BY <3>1 DEF submitted
    <2> QED BY <1>0, <2>1, <2>2, <2>4, <2>5, <2>6 DEF CollectedOK
  \* The other steps leave the submissions alone.
  <1>2. ASSUME UNCHANGED <<sub, ctxDone>>
        PROVE  /\ submitted' = submitted
               /\ \A i \in DOMAIN Batch : Decided(Batch[i])' = Decided(Batch[i])
    BY <1>2 DEF submitted, Decided
  <1>3. CASE BatchBegins
    <2>1. UNCHANGED <<sub, ctxDone>>
      BY <1>3 DEF BatchBegins, vars, flags, submits
    <2> QED BY <1>0, <1>2, <1>3, <2>1 DEF CollectedOK, BatchBegins
  <1>4. CASE BatchSubmitted
    <2>1. UNCHANGED <<sub, ctxDone>> /\ Cardinality({}) = 0
      BY <1>4, FS_EmptySet DEF BatchSubmitted, vars, flags, submits
    <2> QED BY <1>0, <1>2, <1>4, <2>1 DEF CollectedOK, BatchSubmitted
  <1>5. CASE RangeTakes \/ RangeCancelled
    <2>1. /\ UNCHANGED <<sub, ctxDone, bpc, collected>> /\ mpc = "range"
          /\ resultChan # <<>> /\ resultChan' = Tail(resultChan)
          /\ \/ output' = Append(output, Head(resultChan)) /\ UNCHANGED mpc
             \/ UNCHANGED output /\ mpc' = "left"
      BY <1>5 DEF RangeTakes, RangeCancelled, vars, flags, submits
    <2>2. /\ Len(Tail(resultChan)) = Len(resultChan) - 1 /\ Len(resultChan) \in Nat
          /\ \A i \in DOMAIN Tail(resultChan) : Tail(resultChan)[i] \in submitted
          /\ Head(resultChan) \in submitted
      <3>1. resultChan \in Seq(submitted)
        BY <1>0, LenProperties DEF BatchTypeOK
      <3> QED BY <2>1, <3>1, HeadTailProperties, LenProperties, ElementOfSeq
    <2>3. /\ Len(Append(output, Head(resultChan))) = Len(output) + 1 /\ Len(output) \in Nat
          /\ \A i \in DOMAIN Append(output, Head(resultChan)) :
               Append(output, Head(resultChan))[i] \in submitted
      <3>1. output \in Seq(submitted)
        BY <1>0, LenProperties DEF BatchTypeOK
      <3> QED BY <2>2, <3>1, AppendProperties, LenProperties, ElementOfSeq
    <2>4. mpc' # "left" => collected' = Len(resultChan') + Len(output')
      BY <1>0, <2>1, <2>2, <2>3
    <2> QED BY <1>0, <1>2, <2>1, <2>2, <2>3, <2>4 DEF CollectedOK
  <1>6. CASE RangeEnds
    <2>1. UNCHANGED <<sub, ctxDone>>
      BY <1>6 DEF RangeEnds, vars, flags, submits
    <2> QED BY <1>0, <1>2, <1>6, <2>1 DEF CollectedOK, RangeEnds
  <1>7. CASE BatchTakes
    <2>1. /\ UNCHANGED <<sub, ctxDone, mpc, output>> /\ bpc = "collect"
          /\ Head(results) \in submitted /\ resultChan' = Append(resultChan, Head(results))
          /\ collected' = collected + 1
          /\ bpc' = IF collected' = Cardinality(submitted) THEN "closed" ELSE "collect"
      BY <1>7 DEF BatchTakes, Ours, CollectFrame, flags, submits
    <2>2. /\ Len(resultChan') = Len(resultChan) + 1 /\ Len(resultChan) \in Nat
          /\ \A i \in DOMAIN resultChan' : resultChan'[i] \in submitted
      <3>1. resultChan \in Seq(submitted)
        BY <1>0, LenProperties DEF BatchTypeOK
      <3> QED BY <2>1, <3>1, AppendProperties, LenProperties, ElementOfSeq
    <2>3. Len(output) \in Nat
      BY LenProperties DEF BatchTypeOK
    <2>4. mpc' # "left" => collected' = Len(resultChan') + Len(output')
      BY <1>0, <2>1, <2>2, <2>3
    <2> QED BY <1>0, <1>2, <2>1, <2>2, <2>4 DEF CollectedOK
  <1>8. CASE BatchOther \/ BatchPutBack \/ BatchCancelled \/ BatchPanics
    <2>1. /\ UNCHANGED <<sub, ctxDone, mpc, output, resultChan, collected>>
          /\ bpc \in {"collect", "putback"} /\ bpc' \in {"collect", "putback", "closed"}
          /\ bpc' = "closed" => ctxDone
      BY <1>8 DEF BatchOther, BatchPutBack, BatchCancelled, BatchPanics, CollectFrame, Panic, bvars,
         flags, submits
    <2> QED BY <1>0, <1>2, <2>1 DEF CollectedOK
  <1> QED BY <1>1, <1>3, <1>4, <1>5, <1>6, <1>7, <1>8, BatchSplit

\* A batch of which as many results arrived as tasks were accepted, none
\* twice and none of another, is complete.
LEMMA Complete ==
  ASSUME BatchInv
  PROVE  BatchComplete
  <1> SUFFICES ASSUME mpc = "returned", ~ctxDone, NEW t \in Tasks
               PROVE  Occurs(t, output) = IF t \in submitted THEN 1 ELSE 0
    BY DEF BatchComplete
  <1>1. /\ TypeOK /\ BatchTypeOK /\ AtMostOnce /\ ResultsConserved /\ CollectedOK
    BY DEF BatchInv, IndInv
  <1>2. output \in Seq(Tasks) /\ Len(output) \in Nat /\ DOMAIN output = 1..Len(output)
    BY <1>1, LenProperties DEF BatchTypeOK
  <1>3. Len(output) = Cardinality(submitted) /\ \A i \in DOMAIN output : output[i] \in submitted
    <2>1. Len(resultChan) = 0 /\ mpc # "left" /\ bpc = "closed"
      BY <1>1 DEF CollectedOK
    <2> QED BY <1>1, <1>2, <2>1 DEF CollectedOK
  <1>4. \A i, j \in 1..Len(output) : output[i] = output[j] => i = j
    <2> SUFFICES ASSUME NEW i \in 1..Len(output), NEW j \in 1..Len(output), output[i] = output[j]
                 PROVE  i = j
      OBVIOUS
    <2>1. output[i] \in Tasks
      BY <1>2
    <2>2. Occurs(output[i], output) <= 1
      BY <1>1, <2>1, ResultPlace
    <2> QED BY <1>2, <2>2, OccursOnce
  <1>5. submitted \in SUBSET Tasks /\ IsFiniteSet(submitted)
    <2>1. submitted \in SUBSET Tasks
      BY DEF submitted
    <2> QED BY <2>1, PoolAssumption, FS_Subset
  <1>6. output \in Injection(1..Len(output), submitted)
    <2>1. output \in [1..Len(output) -> submitted]
      BY <1>2, <1>3
    <2> QED BY <1>4, <2>1 DEF Injection, IsInjective
  <1>7. Cardinality(1..Len(output)) = Cardinality(submitted)
    BY <1>2, <1>3, FS_Interval
  <1>8. output \in Surjection(1..Len(output), submitted)
    BY <1>5, <1>6, <1>7, FS_Injection
  <1>9. t \in submitted => \E i \in DOMAIN output : output[i] = t
    BY <1>2, <1>8 DEF Surjection
  <1>10. Occurs(t, output) \in Nat /\ Occurs(t, output) <= 1
    BY <1>1, <1>2, OccursType, ResultPlace
  <1>11. Occurs(t, output) = 0 <=> \A i \in DOMAIN output : output[i] # t
    BY <1>2, OccursNone
  <1> QED BY <1>3, <1>9, <1>10, <1>11

\* The invariants hold of a new pool before its batch.
LEMMA BatchInitInv == BatchInit => BatchInv /\ GracefulInv
  <1> SUFFICES ASSUME BatchInit PROVE BatchInv /\ GracefulInv
    OBVIOUS
  <1>1. Init /\ IndInv /\ AtMostOnce /\ GracefulInv
    BY InitInv, OnceInit, GracefulInit DEF BatchInit
  <1>2. BatchTypeOK /\ HeldOK
    BY DEF BatchInit, BatchTypeOK, HeldOK
  <1>3. submitted = {} /\ Cardinality(submitted) = 0
    BY FS_EmptySet DEF submitted, BatchInit, Init
  <1>4. CollectedOK
    BY <1>3 DEF BatchInit, Init, CollectedOK
  <1>5. ASSUME NEW t \in Tasks PROVE AllCopies(t) = 0 /\ executed[t] = 0
    <2>1. /\ {i \in DOMAIN results : results[i] = t} = {} /\ Holders(t) = {} /\ Finishing(t) = {}
          /\ sub[t] # "served" /\ executed[t] = 0 /\ bgot # t
      BY PoolAssumption DEF BatchInit, Init, Holders, Finishing
    <2>2. Occurs(t, resultChan) = 0 /\ Occurs(t, output) = 0
      <3>1. {i \in DOMAIN <<>> : <<>>[i] = t} = {}
        OBVIOUS
      <3> QED BY <3>1, FS_EmptySet DEF Occurs, BatchInit
    <2> QED BY <2>1, <2>2, FS_EmptySet DEF AllCopies, ResultCopies
  <1>6. ResultsConserved
    BY <1>5 DEF ResultsConserved, RoomForAll
  <1> QED BY <1>1, <1>2, <1>4, <1>6 DEF BatchInv

\* Every step of a pool with a batch preserves the invariants.
LEMMA BatchNextInv ==
  ASSUME BatchInv, GracefulInv, [BatchNext]_allvars
  PROVE  BatchInv' /\ GracefulInv'
  <1>1. IndInv /\ AtMostOnce /\ BatchTypeOK /\ HeldOK /\ ResultsConserved /\ CollectedOK
    BY DEF BatchInv
  <1>2. IndInv' /\ AtMostOnce' /\ GracefulInv' /\ BatchTypeOK' /\ HeldOK'
    <2>1. CASE [Next]_vars /\ UNCHANGED bvars
      <3>1. IndInv'
        BY <1>1, <2>1, NextInv
      <3> QED BY <1>1, <2>1, <3>1, OnceNext, GracefulNext, PoolKeepsHeld
    <2>2. CASE BatchBegins \/ BatchSubmitted \/ RangeTakes \/ RangeCancelled \/ RangeEnds
      <3>1. UNCHANGED vars /\ BatchTypeOK' /\ HeldOK'
        BY <1>1, <2>2, WaitStep
      <3>2. IndInv'
        BY <1>1, <3>1, NextInv
      <3> QED BY <1>1, <3>1, <3>2, OnceNext, GracefulNext
    <2>3. CASE BatchTakes \/ BatchOther \/ BatchPutBack \/ BatchCancelled \/ BatchPanics
      <3>1. /\ OnlyResults /\ results' \in Seq(Tasks) /\ Len(results') <= QueueSize
            /\ panicked' \in {"nobody", "wait"} /\ BatchTypeOK' /\ HeldOK'
        BY <1>1, <2>3, CollectorStep
      <3> QED BY <1>1, <3>1, OnlyResultsKeeps
    <2> QED BY <2>1, <2>2, <2>3, BatchSplit
  <1>3. ResultsConserved' /\ CollectedOK'
    BY <1>1, <1>2, ConservedNext, CollectedNext
  <1> QED BY <1>2, <1>3 DEF BatchInv

(***************************************************************************)
(* Theorems about tasks, results and batches                               *)
(***************************************************************************)
\* The inductive invariant of a pool that is shared with a batch or private
\* to one: tokens, tasks and results are accounted for at every step.
THEOREM BatchInvariance == BatchSpec => [](BatchInv /\ GracefulInv)
  <1>1. BatchInit => BatchInv /\ GracefulInv
    BY BatchInitInv
  <1>2. BatchInv /\ GracefulInv /\ [BatchNext]_allvars => BatchInv' /\ GracefulInv'
    BY BatchNextInv
  <1> QED BY <1>1, <1>2, PTL DEF BatchSpec

\* With a batch on it, too, a pool runs no more tasks at once than it was
\* made with workers, and every token of p.sem has a holder.
THEOREM BatchBounded == BatchSpec => []ConcurrencyBound
  <1>1. BatchInv => ConcurrencyBound
    BY BoundedBy DEF BatchInv
  <1> QED BY <1>1, BatchInvariance, PTL

\* However Submit, SubmitWait, batches, workers, Resize and Shutdown interleave,
\* a task that Submit accepted is never duplicated and runs at most once, and
\* one that it refused never runs.
THEOREM RunsAtMostOnce == BatchSpec => []AtMostOnce
  <1>1. BatchInv => AtMostOnce
    BY DEF BatchInv
  <1> QED BY <1>1, BatchInvariance, PTL

\* A pool with at least one worker that is neither resized nor cancelled has
\* run every task it accepted when Shutdown closes p.results.
THEOREM GracefulShutdown ==
  ASSUME InitialWorkers # {}
  PROVE  BatchSpec => []GracefulRunsAll
  <1>1. BatchInv /\ GracefulInv => GracefulRunsAll
    BY GracefulImplies DEF BatchInv
  <1> QED BY <1>1, BatchInvariance, PTL

\* Goroutines that take each other's results from p.results and put them back
\* never duplicate one, and lose none if p.results has room for all.
THEOREM ConservesResults == BatchSpec => []ResultsConserved
  <1>1. BatchInv => ResultsConserved
    BY DEF BatchInv
  <1> QED BY <1>1, BatchInvariance, PTL

\* SubmitBatchWait returns without an error, in a pool that is not cancelled,
\* exactly the results of the tasks that were accepted, each once, whoever
\* else takes results from p.results.
THEOREM CompletesBatch == BatchSpec => []BatchComplete
  <1>1. BatchInv => BatchComplete
    BY Complete
  <1> QED BY <1>1, BatchInvariance, PTL

(***************************************************************************)
(* Orderly use of a pool with a batch on it                                *)
(***************************************************************************)
LEMMA UndisturbedNext ==
  ASSUME CollectedOK, UndisturbedInv, [BatchNext]_allvars, Orderly, ~MayGiveUp
  PROVE  UndisturbedInv'
  <1>0. /\ mpc # "left"
        /\ (\E s \in Closers : spc[s] # "idle") => bpc \in {"idle", "closed"}
    BY DEF UndisturbedInv
  <1>1. ASSUME UNCHANGED spc, UNCHANGED bvars PROVE UndisturbedInv'
    BY <1>0, <1>1 DEF UndisturbedInv, bvars
  <1>2. CASE BatchBegins \/ BatchSubmitted \/ RangeTakes \/ RangeEnds \/ RangeCancelled
    <2>1. UNCHANGED spc /\ mpc' # "left"
      BY <1>0, <1>2 DEF BatchBegins, BatchSubmitted, RangeTakes, RangeEnds, RangeCancelled, vars
    <2>2. (\E s \in Closers : spc[s] # "idle") => UNCHANGED bpc
      BY <1>0, <1>2 DEF BatchBegins, BatchSubmitted, RangeTakes, RangeEnds, RangeCancelled, Open
    <2> QED BY <1>0, <2>1, <2>2 DEF UndisturbedInv
  <1>3. CASE BatchTakes \/ BatchOther \/ BatchPutBack \/ BatchCancelled \/ BatchPanics
    <2>1. UNCHANGED <<spc, mpc>> /\ bpc \in {"collect", "putback"}
      BY <1>3 DEF BatchTakes, BatchOther, BatchPutBack, BatchCancelled, BatchPanics, CollectFrame,
         Panic, bvars
    <2> QED BY <1>0, <2>1 DEF UndisturbedInv
  <1>4. CASE BatchSubmits
    <2>1. UNCHANGED spc /\ UNCHANGED bvars
      BY <1>4 DEF BatchSubmits, SubmitCheck, SubmitClosed, SubmitFrame
    <2> QED BY <1>1, <2>1
  <1>5. ASSUME UNCHANGED bvars, bpc \in {"idle", "closed"} PROVE UndisturbedInv'
    BY <1>0, <1>5 DEF UndisturbedInv, bvars
  <1>6. ASSUME NEW s \in Closers, DeferredStop(s) PROVE UndisturbedInv'
    <2>1. UNCHANGED bvars /\ bpc = "closed"
      BY <1>0, <1>6 DEF DeferredStop, CollectedOK
    <2> QED BY <1>5, <2>1
  <1>7. CASE PoolStep
    <2>1. ASSUME NEW s \in Closers, private => spc[s] \notin {"idle", "stop"},
                 Orderly /\ ~private => bpc \in {"idle", "closed"}
          PROVE  UndisturbedInv'
      BY <1>0, <1>5, <1>7, <2>1 DEF PoolStep
    <2>2. ASSUME NEW t \in Tasks, Submit(t) PROVE UNCHANGED spc
      BY <2>2 DEF Submit, SubmitCheck, SubmitClosed, SubmitSend, SubmitReject, SubmitPanics,
         WaitGivesUp, WaitServed, WaitOther, WaitPutBack, WaitPanics, SubmitFrame, Panic
    <2>3. ASSUME NEW w \in Workers, Worker(w) PROVE UNCHANGED spc
      BY <2>3, WorkerKeepsSub
    <2>4. CASE Start \/ (\E r \in Resizers : Resize(r)) \/ (\E d \in Drainers : WaitForDrain(d))
      <3>1. UNCHANGED spc
        BY <2>4 DEF Start, Resize, ResizeCheck, ResizeLock, ResizeStarts, ResizeStops,
           ResizeReturns, ResizeFrame, WaitForDrain, DrainBegins, DrainSeesEmpty, DrainReadsActive,
           DrainGivesUp, DrainFrame
      <3> QED BY <1>1, <1>7, <3>1 DEF PoolStep
    <2> QED BY <1>1, <1>7, <2>1, <2>2, <2>3, <2>4 DEF PoolStep
  <1>8. CASE BatchFinished \/ UNCHANGED allvars
    BY <1>1, <1>8 DEF BatchFinished, allvars, vars
  <1> QED BY <1>2, <1>3, <1>4, <1>6, <1>7, <1>8 DEF BatchNext, Collector, BatchWait

\* Every step of an orderly pool with a batch preserves its invariant.
LEMMA OrderlyBatchNext ==
  ASSUME IndInv, BatchTypeOK, HeldOK, OrderlyInv, UndisturbedInv, [BatchNext]_allvars,
         Orderly, ~MayGiveUp
  PROVE  OrderlyInv'
  <1> SUFFICES ASSUME WaitTasks = {}, Resizers = {} PROVE OrderlyInv'
    BY DEF OrderlyInv
  <1>1. ASSUME UNCHANGED vars PROVE OrderlyInv'
    BY <1>1 DEF OrderlyInv, vars, flags, channels, workers, submits
  <1>2. CASE [Next]_vars
    BY <1>1, <1>2, OrderlyNext DEF IndInv
  <1>3. CASE BatchBegins \/ BatchSubmitted \/ RangeTakes \/ RangeCancelled \/ RangeEnds
    BY <1>1, <1>3, WaitStep
  <1>4. CASE BatchTakes \/ BatchOther \/ BatchPutBack \/ BatchCancelled \/ BatchPanics
    <2>1. ~BatchPanics
      BY DEF BatchPanics, OrderlyInv, UndisturbedInv
    <2>2. UNCHANGED <<closed, tasksClosed, resultsClosed, wpc, sub, spc, panicked>>
      BY <1>4, <2>1 DEF BatchTakes, BatchOther, BatchPutBack, BatchCancelled, CollectFrame, NoPanic,
         flags, workers, submits
    <2> QED BY <2>2 DEF OrderlyInv
  <1> QED BY <1>2, <1>3, <1>4, BatchSplit

\* Clients that use Submit and batches only, never resize, do not cancel their
\* contexts, and call Shutdown or Stop when their submissions and batches have
\* ended never see a send on a closed channel; nor does a Map that is not
\* cancelled, which Stops its private pool when its batch is collected.
THEOREM OrderlyBatchSafe ==
  ASSUME ~MayGiveUp
  PROVE  BatchSpec => []OrderlyNeverPanics
  <1>1. BatchInit => OrderlyInv /\ UndisturbedInv
    BY DEF BatchInit, Init, OrderlyInv, UndisturbedInv
  <1>2. BatchInv /\ OrderlyInv /\ UndisturbedInv /\ [BatchNext]_allvars => OrderlyInv' /\ UndisturbedInv'
    <2>1. CASE Orderly
      BY <2>1, UndisturbedNext, OrderlyBatchNext DEF BatchInv
    <2>2. CASE ~Orderly
      BY <2>2 DEF OrderlyInv, UndisturbedInv
    <2> QED BY <2>1, <2>2
  <1>3. OrderlyInv => OrderlyNeverPanics
    BY DEF OrderlyInv, OrderlyNeverPanics
  <1> QED BY <1>1, <1>2, <1>3, BatchInvariance, PTL DEF BatchSpec
=============================================================================
