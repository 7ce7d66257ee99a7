------------------------------ MODULE PoolBatch ------------------------------
(***************************************************************************)
(* SubmitBatch, SubmitBatchWait, Map and ParallelExecute of                *)
(* pkg/pool/pool.go, on top of the worker pool.                            *)
(*                                                                         *)
(* One batch is submitted, by one call of SubmitBatchWait.  Its collector  *)
(* goroutine submits the tasks one by one, takes their results from        *)
(* p.results and passes them on; the caller ranges over the channel it     *)
(* gets.  The pool is shared with the clients of WorkerPool, or it is the  *)
(* private one of Map and ParallelExecute, which use it for the batch      *)
(* alone and Stop it in a deferred call.                                   *)
(***************************************************************************)
EXTENDS WorkerPool

CONSTANT Batch      \* the tasks of the batch, in order

ASSUME BatchAssumption ==
  /\ Batch \in Seq(Tasks \ WaitTasks)
  /\ \A i, j \in DOMAIN Batch : Batch[i] = Batch[j] => i = j

VARIABLES
  private,       \* the pool was made by Map or ParallelExecute
  bpc, bgot,     \* the collector, and a result it is about to put back
  collected,     \* its counter
  resultChan,    \* the channel between the two
  mpc, output    \* SubmitBatchWait, and the results it has appended

bvars == <<private, bpc, bgot, collected, resultChan, mpc, output>>
allvars == <<vars, bvars>>

BatchInit ==
  /\ Init
  /\ private \in BOOLEAN
  /\ bpc = "idle" /\ bgot = NoTask /\ collected = 0
  /\ resultChan = <<>>
  /\ mpc = "idle" /\ output = <<>>

InBatch(t) == \E i \in DOMAIN Batch : Batch[i] = t

\* taskIDs: the tasks of the batch that Submit accepted.
submitted == {t \in Tasks : InBatch(t) /\ sub[t] = "accepted"}

Decided(t) == sub[t] \notin {"new", "send"}

-----------------------------------------------------------------------------
\* SubmitBatchWait calls SubmitBatch, which starts the collector.
BatchBegins ==
  /\ bpc = "idle" /\ Open
  /\ bpc' = "submit" /\ mpc' = "range"
  /\ UNCHANGED <<vars, private, bgot, collected, resultChan, output>>

\* The next task of the batch is passed to Submit, once the one before it
\* is accepted or refused.
BatchSubmits ==
  /\ bpc = "submit"
  /\ \E i \in DOMAIN Batch :
       /\ \A j \in 1..(i - 1) : Decided(Batch[j])
       /\ SubmitCheck(Batch[i]) \/ SubmitClosed(Batch[i])
  /\ UNCHANGED bvars

\* A batch of which nothing was accepted ends at once.
BatchSubmitted ==
  /\ bpc = "submit"
  /\ \A i \in DOMAIN Batch : Decided(Batch[i])
  /\ bpc' = IF submitted = {} THEN "closed" ELSE "collect"
  /\ UNCHANGED <<vars, private, bgot, collected, resultChan, mpc, output>>

\* What a step of the collector on p.results leaves alone.
CollectFrame ==
  /\ NoPanic
  /\ UNCHANGED <<flags, tasks, tasksClosed, resultsClosed, workers, submits, resizes, spc, drains>>
  /\ UNCHANGED <<private, mpc, output>>

\* Mutants: every result, or none, is taken for one of the batch.
Ours_Any(t)   == TRUE
Ours_Never(t) == FALSE

\* taskIDs[result.TaskID]
Ours(t) == t \in submitted

\* Mutant: the result is passed on and left in p.results.
BatchTakes_Peeks ==
  /\ bpc = "collect" /\ collected < 2
  /\ results # <<>> /\ Ours(Head(results))
  /\ resultChan' = Append(resultChan, Head(results))
  /\ collected' = collected + 1
  /\ UNCHANGED <<results, bpc, bgot>>
  /\ CollectFrame

\* A result of the batch is passed on, and the last one ends the collector.
BatchTakes ==
  /\ bpc = "collect"
  /\ results # <<>> /\ Ours(Head(results))
  /\ results' = Tail(results)
  /\ resultChan' = Append(resultChan, Head(results))
  /\ collected' = collected + 1
  /\ bpc' = IF collected' = Cardinality(submitted) THEN "closed" ELSE "collect"
  /\ UNCHANGED bgot
  /\ CollectFrame

\* Another one, or the zero Result of a closed channel, is to be put back.
BatchOther ==
  /\ bpc = "collect"
  /\ \/ /\ results # <<>> /\ ~Ours(Head(results))
        /\ bgot' = Head(results) /\ results' = Tail(results)
     \/ /\ results = <<>> /\ resultsClosed
        /\ bgot' = Zero /\ UNCHANGED results
  /\ bpc' = "putback"
  /\ UNCHANGED <<collected, resultChan>>
  /\ CollectFrame

\* Mutant: the results of others are not put back.
BatchPutBack_Drops ==
  /\ bpc = "putback"
  /\ bgot' = NoTask /\ bpc' = "collect"
  /\ UNCHANGED <<results, collected, resultChan>>
  /\ CollectFrame

\* A full channel drops it.
BatchPutBack ==
  /\ bpc = "putback" /\ ~resultsClosed
  /\ results' = PutOrDrop(results, bgot)
  /\ bgot' = NoTask /\ bpc' = "collect"
  /\ UNCHANGED <<collected, resultChan>>
  /\ CollectFrame

BatchPanics == bpc = "putback" /\ resultsClosed /\ Panic("wait") /\ UNCHANGED bvars

\* case <-p.ctx.Done(): the collector returns what it has.
BatchCancelled ==
  /\ bpc = "collect" /\ ctxDone
  /\ bpc' = "closed"
  /\ UNCHANGED <<results, bgot, collected, resultChan>>
  /\ CollectFrame

\* SubmitBatchWait appends a result ...
RangeTakes ==
  /\ mpc = "range" /\ resultChan # <<>>
  /\ output' = Append(output, Head(resultChan))
  /\ resultChan' = Tail(resultChan)
  /\ UNCHANGED <<vars, private, bpc, bgot, collected, mpc>>

\* ... or, if its context is done when one arrives, drops it and returns.
RangeCancelled ==
  /\ MayGiveUp
  /\ mpc = "range" /\ resultChan # <<>>
  /\ mpc' = "left"
  /\ resultChan' = Tail(resultChan)
  /\ UNCHANGED <<vars, private, bpc, bgot, collected, output>>

\* The channel is closed and empty.
RangeEnds ==
  /\ mpc = "range" /\ resultChan = <<>> /\ bpc = "closed"
  /\ mpc' = "returned"
  /\ UNCHANGED <<vars, private, bpc, bgot, collected, resultChan, output>>

\* Map and ParallelExecute: the one deferred p.Stop().
DeferredStop(s) ==
  /\ mpc \in {"returned", "left"}
  /\ \A q \in Closers \ {s} : spc[q] = "idle"
  /\ StopCancels(s) \/ (spc[s] = "stop" /\ ShutdownBegins(s))
  /\ UNCHANGED bvars

\* The other goroutines of the pool.  Nobody else submits the batch or uses a
\* private pool; clients of a shared one begin a Shutdown before a batch is
\* collected only if they are not orderly.
PoolStep ==
  /\ \/ \E t \in Tasks : (InBatch(t) => sub[t] # "new") /\ (private => InBatch(t)) /\ Submit(t)
     \/ \E w \in Workers : Worker(w)
     \/ \E s \in Closers : /\ private => spc[s] \notin {"idle", "stop"}
                           /\ Orderly /\ ~private => bpc \in {"idle", "closed"}
                           /\ Shutdown(s)
     \/ /\ ~private
        /\ \/ Start
           \/ \E r \in Resizers : Resize(r)
           \/ \E d \in Drainers : WaitForDrain(d)
  /\ UNCHANGED bvars

\* Everything asked for is done, or the program has panicked.
BatchFinished ==
  /\ \/ panicked # "nobody"
     \/ /\ mpc \in {"idle", "returned", "left"} /\ bpc \in {"idle", "closed"}
        /\ \A t \in WaitTasks : sub[t] \notin {"send", "await", "putback"}
        /\ \A w \in Workers : wpc[w] \in {"none", "loop"}
        /\ private /\ mpc # "idle" /\ Closers # {} => \E s \in Closers : spc[s] = "done"
  /\ UNCHANGED allvars

Collector ==
  \/ BatchSubmits \/ BatchSubmitted \/ BatchTakes \/ BatchOther \/ BatchPutBack
  \/ BatchPanics \/ BatchCancelled

BatchWait == BatchBegins \/ RangeTakes \/ RangeCancelled \/ RangeEnds

BatchNext ==
  \/ Collector \/ BatchWait \/ PoolStep \/ BatchFinished
  \/ private /\ \E s \in Closers : DeferredStop(s)

BatchSpec == BatchInit /\ [][BatchNext]_allvars

(***************************************************************************)
(* Fairness: that of the pool, the same for the collector as for           *)
(* SubmitWait, and Map goes on to its deferred Stop.                       *)
(***************************************************************************)
FairBatchSpec ==
  /\ BatchSpec /\ Fairness
  /\ WF_allvars(BatchSubmits \/ BatchSubmitted \/ BatchOther \/ BatchPutBack \/ BatchPanics)
  /\ SF_allvars(BatchTakes) /\ SF_allvars(BatchCancelled)
  /\ WF_allvars(RangeTakes \/ RangeEnds)
  /\ \A s \in Closers : WF_allvars(private /\ DeferredStop(s))

-----------------------------------------------------------------------------
(***************************************************************************)
(* Properties                                                              *)
(***************************************************************************)
Occurs(t, list) == Cardinality({i \in DOMAIN list : list[i] = t})

\* Where the Result of a task is, in the pool or on its way through a batch.
AllCopies(t) ==
  ResultCopies(t) + Occurs(t, resultChan) + Occurs(t, output) + (IF bgot = t THEN 1 ELSE 0)

\* No result is dropped: p.results has room for all of them.
RoomForAll == QueueSize >= Cardinality(Tasks)

\* SubmitWait calls and a batch that take each other's results and put them
\* back never duplicate one, and lose none as long as p.results has room for
\* all and SubmitBatchWait is not cancelled.
ResultsConserved ==
  \A t \in Tasks :
    /\ AllCopies(t) <= executed[t]
    /\ RoomForAll /\ panicked = "nobody" /\ mpc # "left"
         => AllCopies(t) = executed[t]

\* SubmitBatchWait that returns no error has the result of every task that
\* was accepted, each once, and no other, unless the pool was cancelled.
BatchComplete ==
  mpc = "returned" /\ ~ctxDone =>
    \A t \in Tasks : Occurs(t, output) = IF t \in submitted THEN 1 ELSE 0

\* Who takes results from p.results and puts those of others back.
Waiting(t) == sub[t] \in {"await", "putback"}
Collecting == bpc \in {"collect", "putback"}

\* SubmitBatchWait returns as long as p.results has room for all results,
\* unless a SubmitWait competes with it for ever.
BatchReturns ==
  RoomForAll /\ (\A t \in WaitTasks : <>[]~Waiting(t))
    => mpc = "range" ~> (mpc # "range" \/ panicked # "nobody")

\* SubmitWait gets its result, also if its own context is never cancelled, as
\* long as p.results has room for all results and the pool is not resized,
\* unless a batch or another SubmitWait competes with it for ever or the pool
\* is shut down.
WaitersServedBesideBatch ==
  RoomForAll /\ InitialWorkers # {} /\ Resizers = {} =>
    \A t \in WaitTasks :
      <>[]~Collecting /\ (\A u \in WaitTasks \ {t} : <>[]~Waiting(u)) =>
        sub[t] = "await" ~> (sub[t] \in {"served", "gaveup"} \/ closed \/ ctxDone)

(***************************************************************************)
(* Inductive invariants, for the proofs                                    *)
(***************************************************************************)
BatchTypeOK ==
  /\ bpc \in {"idle", "submit", "collect", "putback", "closed"}
  /\ bgot \in Tasks \cup {NoTask, Zero}
  /\ collected \in Nat
  /\ resultChan \in Seq(Tasks) /\ output \in Seq(Tasks)
  /\ mpc \in {"idle", "range", "left", "returned"}

\* Only a collector that is about to put a result back holds one.
HeldOK == IF bpc = "putback" THEN bgot \in Tasks \/ resultsClosed ELSE bgot = NoTask

\* The collector passes on results of the batch alone, and ends, in a pool
\* that is not cancelled, when it has passed on as many as were accepted.
CollectedOK ==
  /\ \A t \in Tasks : InBatch(t) => sub[t] \in {"new", "send", "accepted", "rejected"}
  /\ bpc \in {"collect", "putback", "closed"} => \A i \in DOMAIN Batch : Decided(Batch[i])
  /\ \A i \in DOMAIN resultChan : resultChan[i] \in submitted
  /\ \A i \in DOMAIN output : output[i] \in submitted
  /\ bpc \in {"idle", "submit"} => collected = 0
  /\ bpc = "idle" => mpc = "idle"
  /\ mpc # "left" => collected = Len(resultChan) + Len(output)
  /\ bpc = "closed" /\ ~ctxDone => collected = Cardinality(submitted)
  /\ mpc = "returned" => bpc = "closed" /\ resultChan = <<>>

\* Of orderly clients whose contexts are not cancelled, a Shutdown begins only
\* when no collector is at work, and none begins to work after that.
UndisturbedInv ==
  Orderly /\ ~MayGiveUp =>
    /\ mpc # "left"
    /\ (\E s \in Closers : spc[s] # "idle") => bpc \in {"idle", "closed"}

BatchInv == /\ IndInv /\ AtMostOnce /\ BatchTypeOK /\ HeldOK
            /\ ResultsConserved /\ CollectedOK

(***************************************************************************)
(* What the documentation says and the code does not do.                   *)
(***************************************************************************)
\* SubmitBatchWait and SubmitWait wait for their results, also beside each
\* other: one that holds the other's result puts it back and may take it
\* again before the other looks, for ever.
CompetitorsServed ==
  /\ mpc = "range" ~> (mpc # "range" \/ panicked # "nobody")
  /\ \A t \in WaitTasks : sub[t] = "await" ~> (sub[t] \in {"served", "gaveup"} \/ closed \/ ctxDone)

\* API_REFERENCE: Map "returns results in order"; output[i] is what fn
\* returned for items[i].
MapInOrder ==
  private /\ mpc = "returned" /\ ~ctxDone =>
    \A i \in DOMAIN output : output[i] = Batch[i]

\* Map and ParallelExecute return the context's error when they are
\* cancelled, and never bring the program down.
MapNeverPanics == private => panicked = "nobody"

\* SubmitBatchWait "submits multiple tasks and waits for all results": it
\* reports no success when a task of the batch was refused.
BatchAllOrError ==
  mpc = "returned" /\ ~ctxDone => Len(output) = Len(Batch)
=============================================================================
