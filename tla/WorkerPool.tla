----------------------------- MODULE WorkerPool -----------------------------
(***************************************************************************)
(* The worker pool of pkg/pool/pool.go: Start, Submit, SubmitWait, the     *)
(* worker goroutines, Resize, WaitForDrain, Shutdown and Stop.             *)
(*                                                                         *)
(* A goroutine's step ends where another goroutine can observe or disturb  *)
(* it: at every channel operation, atomic counter and critical section.    *)
(* p.mu protects single steps only, so it is not a variable.               *)
(*                                                                         *)
(* A task is submitted once, by a goroutine of its own: Submit, or         *)
(* SubmitWait for the tasks in WaitTasks.  A task stands for its ID and    *)
(* its Result, since only Result.TaskID decides anything.  A worker's      *)
(* callbacks OnError and OnComplete change nothing of the pool.            *)
(*                                                                         *)
(* A send on a closed channel panics in a goroutine of the pool's user or  *)
(* of the pool itself and ends the program: panicked records who did it.   *)
(***************************************************************************)
EXTENDS Integers, Sequences, FiniteSets

CONSTANTS
  Tasks,            \* the tasks submitted
  WaitTasks,        \* the tasks submitted with SubmitWait
  Workers,          \* identities for worker goroutines, reused
  InitialWorkers,   \* the workers Start starts: config.Workers many
  QueueSize,        \* config.QueueSize
  Resizers,         \* goroutines that call Resize
  Sizes,            \* the sizes they ask for
  Closers,          \* goroutines that call Shutdown or Stop
  MayCancel,        \* whether Stop is called or Shutdown times out
  MayGiveUp,        \* whether SubmitWait's context may be cancelled
  Drainers,         \* goroutines that call WaitForDrain
  Orderly,          \* whether nobody submits or resizes once a Shutdown starts
  NoTask, Zero, Nobody

ASSUME PoolAssumption ==
  /\ IsFiniteSet(Workers)
  /\ IsFiniteSet(Tasks)
  /\ WaitTasks \subseteq Tasks
  /\ InitialWorkers \subseteq Workers
  /\ QueueSize \in Nat \ {0}
  /\ Sizes \subseteq Int /\ \A n \in Sizes : n <= Cardinality(Workers)
  /\ MayCancel \in BOOLEAN /\ MayGiveUp \in BOOLEAN /\ Orderly \in BOOLEAN
  /\ NoTask \notin Tasks /\ Zero \notin Tasks /\ NoTask # Zero
  /\ Nobody \notin Resizers

VARIABLES
  started, closed, ctxDone,     \* p.started, p.closed, p.ctx is done
  tasks, tasksClosed,           \* the channel p.tasks
  results, resultsClosed,       \* the channel p.results
  sem,                          \* the number of tokens in p.sem
  active, queued,               \* metrics.ActiveWorkers, metrics.QueuedTasks
  executed,                     \* how often each task ran: TaskCount per task
  wpc, wtask,                   \* each worker's place and task
  sub, got,                     \* each task's Submit or SubmitWait, result in hand
  rpc, left, resizeMu,          \* each Resize, its workers to start or stop
  spc,                          \* each Shutdown or Stop
  dpc, pending,                 \* each WaitForDrain, tasks queued when it began
  panicked                      \* who sent on a closed channel

flags     == <<started, closed, ctxDone>>
channels  == <<tasks, tasksClosed, results, resultsClosed>>
workers   == <<sem, active, executed, wpc, wtask>>
submits   == <<queued, sub, got>>
resizes   == <<rpc, left, resizeMu>>
drains    == <<dpc, pending>>
vars == <<flags, channels, workers, submits, resizes, spc, drains, panicked>>

\* cap(p.sem): fixed by NewWorkerPool, Resize does not change it.
semCap == Cardinality(InitialWorkers)

WorkerPlaces ==
  {"none", "loop", "sem", "putback", "acquired", "run", "release", "uncount", "send", "exit"}

TypeOK ==
  /\ started \in BOOLEAN /\ closed \in BOOLEAN /\ ctxDone \in BOOLEAN
  /\ tasks \in Seq(Tasks) /\ Len(tasks) <= QueueSize /\ tasksClosed \in BOOLEAN
  /\ results \in Seq(Tasks) /\ Len(results) <= QueueSize /\ resultsClosed \in BOOLEAN
  /\ sem \in Nat /\ active \in Int /\ queued \in Int
  /\ executed \in [Tasks -> Nat]
  /\ wpc \in [Workers -> WorkerPlaces]
  /\ wtask \in [Workers -> Tasks \cup {NoTask}]
  /\ sub \in [Tasks -> {"new", "send", "await", "putback", "accepted", "rejected",
                        "served", "gaveup"}]
  /\ got \in [Tasks -> Tasks \cup {NoTask, Zero}]
  /\ rpc \in [Resizers -> {"idle", "lock", "grow", "shrink", "done"}]
  /\ left \in [Resizers -> Int]
  /\ resizeMu \in Resizers \cup {Nobody}
  /\ spc \in [Closers -> {"idle", "stop", "close", "wait", "drain", "results", "done"}]
  /\ dpc \in [Drainers -> {"idle", "tick", "empty", "drained", "gaveup"}]
  /\ pending \in [Drainers -> SUBSET Tasks]
  /\ panicked \in {"nobody", "submit", "wait", "worker", "result"}

Init ==
  /\ started = FALSE /\ closed = FALSE /\ ctxDone = FALSE
  /\ tasks = <<>> /\ tasksClosed = FALSE
  /\ results = <<>> /\ resultsClosed = FALSE
  /\ sem = 0 /\ active = 0 /\ queued = 0
  /\ executed = [t \in Tasks |-> 0]
  /\ wpc = [w \in Workers |-> "none"]
  /\ wtask = [w \in Workers |-> NoTask]
  /\ sub = [t \in Tasks |-> "new"]
  /\ got = [t \in Tasks |-> NoTask]
  /\ rpc = [r \in Resizers |-> "idle"]
  /\ left = [r \in Resizers |-> 0]
  /\ resizeMu = Nobody
  /\ spc = [s \in Closers |-> "idle"]
  /\ dpc = [d \in Drainers |-> "idle"]
  /\ pending = [d \in Drainers |-> {}]
  /\ panicked = "nobody"

-----------------------------------------------------------------------------
(***************************************************************************)
(* Channels and panics                                                     *)
(***************************************************************************)
\* p.tasks and p.results are made with room for config.QueueSize values.
Room(ch) == Len(ch) < QueueSize

\* A send in a select with a default: a full channel drops the value.
PutOrDrop(ch, x) == IF Room(ch) THEN Append(ch, x) ELSE ch

\* Mutant: p.sem is made one larger than config.Workers.
SemFree_OneMore == sem <= semCap

SemFree == sem < semCap

\* The program goes on, or a goroutine sends on a closed channel and ends it.
NoPanic == panicked = "nobody" /\ UNCHANGED panicked

Panic(who) ==
  /\ panicked = "nobody"
  /\ panicked' = who
  /\ UNCHANGED <<flags, channels, workers, submits, resizes, spc, drains>>

-----------------------------------------------------------------------------
(***************************************************************************)
(* Start, Submit and SubmitWait                                            *)
(***************************************************************************)
\* startLocked: the first call starts config.Workers workers.
startLocked ==
  /\ IF started \/ closed
     THEN UNCHANGED <<started, wpc>>
     ELSE /\ started' = TRUE
          /\ wpc' = [w \in Workers |-> IF w \in InitialWorkers THEN "loop" ELSE wpc[w]]
  /\ UNCHANGED <<closed, ctxDone, sem, active, executed, wtask>>

Start ==
  /\ ~started /\ ~closed
  /\ startLocked
  /\ NoPanic /\ UNCHANGED <<channels, submits, resizes, spc, drains>>

\* Orderly clients have finished submitting and resizing when a Shutdown
\* begins, and begin nothing afterwards.
Quiet == /\ \A t \in Tasks : sub[t] # "send"
         /\ \A r \in Resizers : rpc[r] \in {"idle", "done"}

Open == Orderly => \A s \in Closers : spc[s] = "idle"

Becomes(t, place) == sub' = [sub EXCEPT ![t] = place]

\* What a step of Submit or SubmitWait after the check leaves alone.
SubmitFrame == NoPanic /\ UNCHANGED <<flags, workers, resizes, spc, drains>>

\* Submit up to the send: the flags are checked under p.mu, the lock is
\* released, and the task is counted as queued.
SubmitCheck(t) ==
  /\ sub[t] = "new" /\ Open
  /\ ~closed
  /\ startLocked
  /\ queued' = queued + 1
  /\ Becomes(t, "send")
  /\ NoPanic /\ UNCHANGED <<channels, got, resizes, spc, drains>>

\* "pool is closed"
SubmitClosed(t) ==
  /\ sub[t] = "new"
  /\ closed
  /\ Becomes(t, "rejected")
  /\ UNCHANGED <<channels, queued, got>>
  /\ SubmitFrame

\* case p.tasks <- task.  SubmitWait goes on to wait for its result.
SubmitSend(t) ==
  /\ sub[t] = "send"
  /\ ~tasksClosed /\ Room(tasks)
  /\ tasks' = Append(tasks, t)
  /\ Becomes(t, IF t \in WaitTasks THEN "await" ELSE "accepted")
  /\ UNCHANGED <<tasksClosed, results, resultsClosed, queued, got>>
  /\ SubmitFrame

Refuse(t) == queued' = queued - 1 /\ Becomes(t, "rejected")

\* case <-p.ctx.Done(), or default: the queue is full.
SubmitReject(t) ==
  /\ sub[t] = "send"
  /\ ctxDone \/ (~tasksClosed /\ ~Room(tasks))
  /\ Refuse(t)
  /\ UNCHANGED <<channels, got>>
  /\ SubmitFrame

\* The select may choose the send on the closed channel.
SubmitPanics(t) == sub[t] = "send" /\ tasksClosed /\ Panic("submit")

\* SubmitWait: case <-ctx.Done().
WaitGivesUp(t) ==
  /\ MayGiveUp
  /\ sub[t] = "await"
  /\ Becomes(t, "gaveup")
  /\ UNCHANGED <<channels, queued, got>>
  /\ SubmitFrame

\* SubmitWait receives a result: its own, and it returns.
WaitServed(t) ==
  /\ sub[t] = "await"
  /\ results # <<>> /\ Head(results) = t
  /\ results' = Tail(results)
  /\ Becomes(t, "served")
  /\ UNCHANGED <<tasks, tasksClosed, resultsClosed, queued, got>>
  /\ SubmitFrame

\* ... or another task's, or the zero Result of a closed channel, which
\* matches no task.
WaitOther(t) ==
  /\ sub[t] = "await"
  /\ \/ /\ results # <<>> /\ Head(results) # t
        /\ got' = [got EXCEPT ![t] = Head(results)]
        /\ results' = Tail(results)
     \/ /\ results = <<>> /\ resultsClosed
        /\ got' = [got EXCEPT ![t] = Zero]
        /\ UNCHANGED results
  /\ Becomes(t, "putback")
  /\ UNCHANGED <<tasks, tasksClosed, resultsClosed, queued>>
  /\ SubmitFrame

\* It puts a result that is not its own back, or drops it when the channel
\* is full, and waits again.
WaitPutBack(t) ==
  /\ sub[t] = "putback"
  /\ ~resultsClosed
  /\ results' = PutOrDrop(results, got[t])
  /\ got' = [got EXCEPT ![t] = NoTask]
  /\ Becomes(t, "await")
  /\ UNCHANGED <<tasks, tasksClosed, resultsClosed, queued>>
  /\ SubmitFrame

WaitPanics(t) == sub[t] = "putback" /\ resultsClosed /\ Panic("wait")

-----------------------------------------------------------------------------
(***************************************************************************)
(* The worker                                                              *)
(***************************************************************************)
Goto(w, place) == wpc' = [wpc EXCEPT ![w] = place]

WorkerFrame == NoPanic /\ UNCHANGED <<flags, submits, resizes, spc, drains>>

\* case <-p.ctx.Done(), in the outer select or while waiting for p.sem; in
\* the latter case the task in hand is dropped.
WorkerCancelled(w) ==
  /\ wpc[w] \in {"loop", "sem"}
  /\ ctxDone
  /\ Goto(w, "exit")
  /\ wtask' = [wtask EXCEPT ![w] = NoTask]
  /\ UNCHANGED <<channels, sem, active, executed>>
  /\ WorkerFrame

\* case task, ok := <-p.tasks
WorkerTakes(w) ==
  /\ wpc[w] = "loop"
  /\ tasks # <<>>
  /\ wtask' = [wtask EXCEPT ![w] = Head(tasks)]
  /\ tasks' = Tail(tasks)
  /\ Goto(w, "sem")
  /\ UNCHANGED <<tasksClosed, results, resultsClosed, sem, active, executed>>
  /\ WorkerFrame

\* Mutants: a worker leaves when the channel is closed but not yet drained,
\* or never notices.
Drained_Early   == tasksClosed
Drained_Ignored == FALSE

\* !ok: p.tasks is closed and every task has been received.
Drained == tasks = <<>> /\ tasksClosed

WorkerEnds(w) ==
  /\ wpc[w] = "loop"
  /\ Drained
  /\ Goto(w, "exit")
  /\ UNCHANGED <<channels, sem, active, executed, wtask>>
  /\ WorkerFrame

\* case p.sem <- struct{}{}
SemAcquire(w) ==
  /\ wpc[w] = "sem"
  /\ SemFree
  /\ sem' = sem + 1
  /\ Goto(w, "acquired")
  /\ UNCHANGED <<channels, active, executed, wtask>>
  /\ WorkerFrame

CountActive(w) ==
  /\ wpc[w] = "acquired"
  /\ active' = active + 1
  /\ Goto(w, "run")
  /\ UNCHANGED <<channels, sem, executed, wtask>>
  /\ WorkerFrame

\* Mutant: a task that failed is tried again by the worker.
ExecuteTask_Retries(w) ==
  /\ wpc[w] = "run" /\ executed[wtask[w]] < 2
  /\ executed' = [executed EXCEPT ![wtask[w]] = @ + 1]
  /\ Goto(w, "run") \/ Goto(w, "release")
  /\ UNCHANGED <<channels, sem, active, wtask>>
  /\ WorkerFrame

\* executeTask: the task returns a value or an error, or panics and is
\* recovered; all three are counted and make a Result.
ExecuteTask(w) ==
  /\ wpc[w] = "run"
  /\ executed' = [executed EXCEPT ![wtask[w]] = @ + 1]
  /\ Goto(w, "release")
  /\ UNCHANGED <<channels, sem, active, wtask>>
  /\ WorkerFrame

\* <-p.sem
SemRelease(w) ==
  /\ wpc[w] = "release"
  /\ sem' = sem - 1
  /\ Goto(w, "uncount")
  /\ UNCHANGED <<channels, active, executed, wtask>>
  /\ WorkerFrame

\* Mutant: ActiveWorkers is not counted down.
UncountActive_Forgotten(w) ==
  /\ wpc[w] = "uncount"
  /\ Goto(w, "send")
  /\ UNCHANGED <<channels, sem, active, executed, wtask>>
  /\ WorkerFrame

UncountActive(w) ==
  /\ wpc[w] = "uncount"
  /\ active' = active - 1
  /\ Goto(w, "send")
  /\ UNCHANGED <<channels, sem, executed, wtask>>
  /\ WorkerFrame

\* The result is sent, or dropped when p.results is full.  The callbacks
\* OnError and OnComplete change nothing of the pool.
SendResult(w) ==
  /\ wpc[w] = "send"
  /\ ~resultsClosed
  /\ results' = PutOrDrop(results, wtask[w])
  /\ wtask' = [wtask EXCEPT ![w] = NoTask]
  /\ Goto(w, "loop")
  /\ UNCHANGED <<tasks, tasksClosed, resultsClosed, sem, active, executed>>
  /\ WorkerFrame

SendResultPanics(w) == wpc[w] = "send" /\ resultsClosed /\ Panic("result")

\* A worker stopped while it waited for p.sem puts its task back, or drops
\* it when the queue is full.
WorkerPutBack(w) ==
  /\ wpc[w] = "putback"
  /\ ~tasksClosed
  /\ tasks' = PutOrDrop(tasks, wtask[w])
  /\ wtask' = [wtask EXCEPT ![w] = NoTask]
  /\ Goto(w, "exit")
  /\ UNCHANGED <<tasksClosed, results, resultsClosed, sem, active, executed>>
  /\ WorkerFrame

PutBackPanics(w) == wpc[w] = "putback" /\ tasksClosed /\ Panic("worker")

\* The deferred function: workerCount-- and p.wg.Done().
WorkerExits(w) ==
  /\ wpc[w] = "exit"
  /\ Goto(w, "none")
  /\ UNCHANGED <<channels, sem, active, executed, wtask>>
  /\ WorkerFrame

-----------------------------------------------------------------------------
(***************************************************************************)
(* Resize                                                                  *)
(***************************************************************************)
\* The workers that p.workerCount and p.wg count.
Live == {w \in Workers : wpc[w] # "none"}

workerCount == Cardinality(Live)

ResizeFrame == NoPanic /\ UNCHANGED <<flags, channels, submits, spc, drains>>

\* The pool runs: checked under p.mu, which is then released.  Otherwise,
\* and for a size that is not positive, Resize returns an error.
ResizeCheck(r, n) ==
  /\ rpc[r] = "idle"
  /\ Open
  /\ n > 0 /\ started /\ ~closed
  /\ rpc' = [rpc EXCEPT ![r] = "lock"]
  /\ left' = [left EXCEPT ![r] = n]
  /\ UNCHANGED <<workers, resizeMu>>
  /\ ResizeFrame

\* With p.resizeMu held: how many workers to start or to stop.
ResizeLock(r) ==
  /\ rpc[r] = "lock"
  /\ resizeMu = Nobody
  /\ resizeMu' = r
  /\ IF left[r] > workerCount
     THEN /\ rpc' = [rpc EXCEPT ![r] = "grow"]
          /\ left' = [left EXCEPT ![r] = left[r] - workerCount]
     ELSE /\ rpc' = [rpc EXCEPT ![r] = "shrink"]
          /\ left' = [left EXCEPT ![r] = workerCount - left[r]]
  /\ UNCHANGED workers
  /\ ResizeFrame

\* One more worker goroutine.
ResizeStarts(r, w) ==
  /\ rpc[r] = "grow" /\ left[r] > 0
  /\ wpc[w] = "none"
  /\ Goto(w, "loop")
  /\ left' = [left EXCEPT ![r] = @ - 1]
  /\ UNCHANGED <<sem, active, executed, wtask, rpc, resizeMu>>
  /\ ResizeFrame

\* p.stopWorkers is unbuffered: Resize's send meets a worker's receive in
\* one of its two selects.
ResizeStops(r, w) ==
  /\ rpc[r] = "shrink" /\ left[r] > 0
  /\ \/ wpc[w] = "loop" /\ Goto(w, "exit")
     \/ wpc[w] = "sem"  /\ Goto(w, "putback")
  /\ left' = [left EXCEPT ![r] = @ - 1]
  /\ UNCHANGED <<sem, active, executed, wtask, rpc, resizeMu>>
  /\ ResizeFrame

\* Resize returns: all started or stopped, or the context is done.
ResizeReturns(r) ==
  /\ rpc[r] \in {"grow", "shrink"}
  /\ left[r] = 0 \/ (rpc[r] = "shrink" /\ ctxDone)
  /\ rpc' = [rpc EXCEPT ![r] = "done"]
  /\ left' = [left EXCEPT ![r] = 0]
  /\ resizeMu' = Nobody
  /\ UNCHANGED workers
  /\ ResizeFrame

-----------------------------------------------------------------------------
(***************************************************************************)
(* Shutdown, Stop and WaitForDrain                                         *)
(***************************************************************************)
CloserAt(s, from, to) == spc[s] = from /\ spc' = [spc EXCEPT ![s] = to]

RestUnchanged == NoPanic /\ UNCHANGED <<workers, submits, resizes, drains>>

\* Stop: p.cancel(), then Shutdown(0).
StopCancels(s) ==
  /\ MayCancel
  /\ Orderly => Quiet
  /\ CloserAt(s, "idle", "stop")
  /\ ctxDone' = TRUE
  /\ UNCHANGED <<started, closed, channels>>
  /\ RestUnchanged

\* Shutdown sets p.closed, once.
ShutdownBegins(s) ==
  /\ Orderly => Quiet
  /\ ~closed
  /\ CloserAt(s, "idle", "close") \/ CloserAt(s, "stop", "close")
  /\ closed' = TRUE
  /\ UNCHANGED <<started, ctxDone, channels>>
  /\ RestUnchanged

\* A second Shutdown returns at once.
ShutdownAgain(s) ==
  /\ closed
  /\ CloserAt(s, "idle", "done") \/ CloserAt(s, "stop", "done")
  /\ UNCHANGED <<flags, channels>>
  /\ RestUnchanged

\* close(p.tasks)
CloseTasks(s) ==
  /\ CloserAt(s, "close", "wait")
  /\ tasksClosed' = TRUE
  /\ UNCHANGED <<flags, tasks, results, resultsClosed>>
  /\ RestUnchanged

\* time.After(timeout): the pool's context is cancelled.
ShutdownTimesOut(s) ==
  /\ MayCancel
  /\ CloserAt(s, "wait", "drain")
  /\ ctxDone' = TRUE
  /\ UNCHANGED <<started, closed, channels>>
  /\ RestUnchanged

\* Mutant: after the timeout Shutdown does not wait for the workers.
WorkersGone_TimeoutSkips(s) ==
  /\ workerCount = 0 \/ spc[s] = "drain"
  /\ CloserAt(s, "wait", "results") \/ CloserAt(s, "drain", "results")
  /\ UNCHANGED <<flags, channels>>
  /\ RestUnchanged

\* <-done: p.wg.Wait() returned.
WorkersGone(s) ==
  /\ workerCount = 0
  /\ CloserAt(s, "wait", "results") \/ CloserAt(s, "drain", "results")
  /\ UNCHANGED <<flags, channels>>
  /\ RestUnchanged

\* close(p.results)
CloseResults(s) ==
  /\ CloserAt(s, "results", "done")
  /\ resultsClosed' = TRUE
  /\ UNCHANGED <<flags, tasks, tasksClosed, results>>
  /\ RestUnchanged

Accepted == {t \in Tasks : sub[t] \notin {"new", "send", "rejected"}}

DrainFrame == NoPanic /\ UNCHANGED <<flags, channels, workers, submits, resizes, spc>>

DrainAt(d, from, to) == dpc[d] = from /\ dpc' = [dpc EXCEPT ![d] = to]

DrainBegins(d) ==
  /\ DrainAt(d, "idle", "tick")
  /\ pending' = [pending EXCEPT ![d] = Accepted]
  /\ DrainFrame

\* A tick finds the queue empty ...
DrainSeesEmpty(d) ==
  /\ tasks = <<>>
  /\ DrainAt(d, "tick", "empty")
  /\ DrainFrame /\ UNCHANGED pending

\* ... and then reads ActiveWorkers: zero and WaitForDrain returns, or it
\* waits for the next tick.
DrainReadsActive(d) ==
  /\ DrainAt(d, "empty", IF active = 0 THEN "drained" ELSE "tick")
  /\ DrainFrame /\ UNCHANGED pending

\* case <-ctx.Done()
DrainGivesUp(d) ==
  /\ MayGiveUp
  /\ DrainAt(d, "tick", "gaveup")
  /\ DrainFrame /\ UNCHANGED pending

-----------------------------------------------------------------------------
Submit(t) ==
  \/ SubmitCheck(t) \/ SubmitClosed(t) \/ SubmitSend(t) \/ SubmitReject(t) \/ SubmitPanics(t)
  \/ WaitGivesUp(t) \/ WaitServed(t) \/ WaitOther(t) \/ WaitPutBack(t) \/ WaitPanics(t)

Worker(w) ==
  \/ WorkerCancelled(w) \/ WorkerTakes(w) \/ WorkerEnds(w) \/ SemAcquire(w)
  \/ CountActive(w) \/ ExecuteTask(w) \/ SemRelease(w) \/ UncountActive(w)
  \/ SendResult(w) \/ SendResultPanics(w) \/ WorkerPutBack(w) \/ PutBackPanics(w)
  \/ WorkerExits(w)

Resize(r) ==
  \/ \E n \in Sizes : ResizeCheck(r, n)
  \/ ResizeLock(r)
  \/ \E w \in Workers : ResizeStarts(r, w) \/ ResizeStops(r, w)
  \/ ResizeReturns(r)

Shutdown(s) ==
  \/ StopCancels(s) \/ ShutdownBegins(s) \/ ShutdownAgain(s) \/ CloseTasks(s)
  \/ ShutdownTimesOut(s) \/ WorkersGone(s) \/ CloseResults(s)

WaitForDrain(d) ==
  DrainBegins(d) \/ DrainSeesEmpty(d) \/ DrainReadsActive(d) \/ DrainGivesUp(d)

\* Everything the clients asked for is done, or the program has panicked.
Finished ==
  /\ \/ panicked # "nobody"
     \/ /\ \A t \in Tasks : sub[t] \notin {"new", "send", "await", "putback"}
        /\ \A w \in Workers : wpc[w] \in {"none", "loop"}
        /\ \A r \in Resizers : rpc[r] \in {"idle", "done"}
        /\ \A s \in Closers : spc[s] = "done"
        /\ tasks = <<>> \/ ctxDone
  /\ UNCHANGED vars

Next ==
  \/ Start
  \/ \E t \in Tasks : Submit(t)
  \/ \E w \in Workers : Worker(w)
  \/ \E r \in Resizers : Resize(r)
  \/ \E s \in Closers : Shutdown(s)
  \/ \E d \in Drainers : WaitForDrain(d)
  \/ Finished

Spec == Init /\ [][Next]_vars

(***************************************************************************)
(* Fairness.  The Go scheduler runs every runnable goroutine; tasks return *)
(* (TaskTimeout cancels their context); a goroutine blocked on a channel   *)
(* is queued in FIFO order, so that one that waits for a token of p.sem or *)
(* for p.resizeMu gets it: strong fairness.  Nothing makes a client begin  *)
(* a call, cancel a context or let a timeout expire.                       *)
(***************************************************************************)
Fairness ==
  /\ \A t \in Tasks : WF_vars(SubmitSend(t) \/ SubmitReject(t))
  /\ \A t \in Tasks : SF_vars(WaitServed(t)) /\ WF_vars(WaitOther(t) \/ WaitPutBack(t))
  /\ \A w \in Workers : WF_vars(Worker(w)) /\ SF_vars(SemAcquire(w))
  /\ \A r \in Resizers :
       /\ SF_vars(ResizeLock(r))
       /\ SF_vars(\E w \in Workers : ResizeStops(r, w))
       /\ WF_vars((\E w \in Workers : ResizeStarts(r, w)) \/ ResizeReturns(r))
  /\ \A d \in Drainers : WF_vars(DrainSeesEmpty(d) \/ DrainReadsActive(d))
  /\ \A s \in Closers : WF_vars(CloseTasks(s) \/ WorkersGone(s) \/ CloseResults(s))

FairSpec == Spec /\ Fairness

-----------------------------------------------------------------------------
(***************************************************************************)
(* Properties                                                              *)
(***************************************************************************)
\* The workers that hold a token of p.sem.
Holding == {w \in Workers : wpc[w] \in {"acquired", "run", "release"}}

\* Workers inside executeTask.
Running == {w \in Workers : wpc[w] = "run"}

\* However often the pool is resized, no more tasks run at once than the
\* number of workers the pool was made with, and every token of p.sem has a
\* worker that will give it back.
ConcurrencyBound == Cardinality(Running) <= semCap /\ sem = Cardinality(Holding)

\* Where a task is before it has run: in the queue, or in a worker's hands.
Queued(t)  == {i \in DOMAIN tasks : tasks[i] = t}
InHands(t) == {w \in Workers : /\ wpc[w] \in {"sem", "putback", "acquired", "run"}
                               /\ wtask[w] = t}

Copies(t) == Cardinality(Queued(t)) + Cardinality(InHands(t)) + executed[t]

\* A submitted task is never duplicated: put back, cancelled or drained, it
\* runs at most once, and a task that Submit refused never runs.
AtMostOnce ==
  \A t \in Tasks : Copies(t) <= IF t \in Accepted THEN 1 ELSE 0

\* A graceful Shutdown of a pool that is not resized has run every task that
\* was accepted when it closes p.results.  A pool made without workers does
\* not satisfy it.
GracefulRunsAll ==
  resultsClosed /\ ~ctxDone /\ Resizers = {} => \A t \in Accepted : executed[t] = 1

\* If clients stop submitting before they shut the pool down, never resize
\* it and none is in SubmitWait, no goroutine sends on a closed channel:
\* every worker is gone before p.results is closed, also after a timeout.
OrderlyNeverPanics ==
  Orderly /\ WaitTasks = {} /\ Resizers = {} => panicked = "nobody"

\* Where the Result of a task is: in p.results, in the hands of a worker or
\* of another task's SubmitWait, or returned by its own SubmitWait.
Finishing(t) == {w \in Workers : /\ wpc[w] \in {"release", "uncount", "send"}
                                 /\ wtask[w] = t}
Holders(t)   == {u \in Tasks : got[u] = t}

ResultCopies(t) ==
  Cardinality({i \in DOMAIN results : results[i] = t})
    + Cardinality(Holders(t)) + Cardinality(Finishing(t))
    + (IF sub[t] = "served" THEN 1 ELSE 0)

\* Every task that Submit accepted eventually runs, in a pool that was made
\* with workers and is not resized, unless the pool's context is cancelled or
\* a send on a closed channel ends the program.
EveryTaskRuns ==
  InitialWorkers # {} /\ Resizers = {} =>
    \A t \in Tasks : t \in Accepted ~> (executed[t] > 0 \/ ctxDone \/ panicked # "nobody")

\* Shutdown returns once the running tasks have, whether it timed out or
\* not.
ShutdownReturns == \A s \in Closers : spc[s] = "close" ~> spc[s] = "done"

\* WaitForDrain returns once no more tasks come, also if its own context is
\* never cancelled, unless the pool's is, which leaves tasks in the queue for
\* ever.
DrainReturns ==
  \A d \in Drainers : dpc[d] = "tick" ~> (dpc[d] \in {"drained", "gaveup"} \/ ctxDone)

(***************************************************************************)
(* Inductive invariants, for the proofs                                    *)
(***************************************************************************)
\* Whoever may send a task or a result has one in hand, and no SubmitWait
\* that is not about to put a result back does.
InHandOK ==
  /\ \A w \in Workers :
       wpc[w] \in {"sem", "putback", "acquired", "run", "release", "uncount", "send"}
         => wtask[w] \in Tasks
  /\ \A t \in Tasks : IF sub[t] = "putback" THEN got[t] \in Tasks \/ resultsClosed
                                            ELSE got[t] = NoTask

\* The tokens of p.sem are those of the workers that hold one, and no more
\* than it has room for.
TokensOK == sem = Cardinality(Holding) /\ sem <= semCap

\* Workers exist, and Resize gets beyond its check, only in a started pool.
StartedOK ==
  /\ ~started => \A w \in Workers : wpc[w] = "none"
  /\ \A r \in Resizers : rpc[r] # "idle" => started

\* Inductive, and implies ConcurrencyBound: the tokens that the code of
\* worker takes and gives back are accounted for at every step.
IndInv == TypeOK /\ InHandOK /\ TokensOK /\ StartedOK

\* In an orderly pool: nobody is between Submit's check and its send once a
\* Shutdown has begun, and no worker is left once p.wg.Wait() has returned.
OrderlyInv ==
  Orderly /\ WaitTasks = {} /\ Resizers = {} =>
    /\ closed => \E s \in Closers : spc[s] # "idle"
    /\ (\E s \in Closers : spc[s] # "idle") => \A t \in Tasks : sub[t] # "send"
    /\ \A s \in Closers : spc[s] \in {"close", "wait", "drain", "results"} => closed
    /\ tasksClosed \/ resultsClosed => closed
    /\ resultsClosed \/ (\E s \in Closers : spc[s] = "results")
         => \A w \in Workers : wpc[w] = "none"
    /\ \A w \in Workers : wpc[w] # "putback"
    /\ \A t \in Tasks : sub[t] \notin {"await", "putback"}
    /\ panicked = "nobody"

\* In a pool that is neither resized nor cancelled: an accepted task stays in
\* the queue or in a worker's hands until it runs, and no worker that Start
\* started leaves before the queue is closed and empty.
GracefulInv ==
  Resizers = {} /\ ~ctxDone =>
    /\ \A t \in Accepted : Copies(t) = 1
    /\ \A t \in Tasks : sub[t] = "send" \/ t \in Accepted => started
    /\ \A w \in Workers : wpc[w] # "putback"
    /\ started => \A w \in InitialWorkers : wpc[w] \in {"exit", "none"} => Drained
    /\ tasksClosed => closed
    /\ \A s \in Closers : /\ spc[s] = "close" => closed
                          /\ spc[s] \in {"wait", "drain", "results"} => tasksClosed
    /\ resultsClosed \/ (\E s \in Closers : spc[s] = "results")
         => tasksClosed /\ \A w \in Workers : wpc[w] = "none"

(***************************************************************************)
(* What the documentation says and the code does not do.                   *)
(***************************************************************************)
\* README: Submit "returns an error" once the pool is stopped.
SubmitNeverPanics == panicked # "submit"

\* SubmitWait returns a result or an error, also when the pool is shut down.
SubmitWaitNeverPanics == panicked # "wait"

\* A worker that Resize stops can "put task back before stopping", even when
\* the pool is shut down after that Resize has returned.
PutBackNeverPanics == panicked # "worker"

\* A worker that Resize starts sends its result on an open channel, also when
\* a Shutdown goes on between the check of p.closed and p.resizeMu.
ResultNeverPanics == panicked # "result"

\* WaitForDrain "waits until all queued tasks are processed".
DrainedMeansProcessed ==
  \A d \in Drainers : dpc[d] = "drained" => \A t \in pending[d] : executed[t] > 0

\* Resize "returns error if pool is not running", and otherwise adjusts the
\* number of workers: it returns.
ResizeTerminates == \A r \in Resizers : rpc[r] = "lock" ~> rpc[r] = "done"

\* QueuedTasks is the "number of tasks submitted but not yet started".
QueuedTasksExact ==
  (\A t \in Tasks : sub[t] # "send")
    => queued = Cardinality({t \in Accepted : executed[t] = 0})
=============================================================================
