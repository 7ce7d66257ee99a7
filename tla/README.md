# TLA+ models of digital.vasic.concurrency

The repository is a Go library of concurrency primitives. Each package is a
component with its own state; they are mostly independent of each other, and
the concurrency is in how an application's goroutines call them. This directory
holds TLA+ modules of the components whose interleavings are hard to test, TLC
configurations that check them on small instances, and TLAPS proofs for all
instances.

Run a check with `tlc -config <run>.cfg <MC module>` and a proof with
`tlapm <Module>_proof.tla`.

## Inventory

| Component | State | Operations | What is hard | What makes it correct |
|---|---|---|---|---|
| `pkg/semaphore` | `current`, the list of waiters, each with a `ready` channel, one mutex | `Acquire`, `TryAcquire`, `Release`, `notifyWaiters` | cancellation racing the grant; wake-ups; int64 sums; over-release | never more than `maxWeight` owned; no waiter lost or woken twice; no missed wake-up; every waiter served |
| `pkg/breaker` | `state`, `failures`, `successes`, `halfOpenAllowed`, `lastFailure` | `Execute` (two critical sections around `fn`), `State`, `Reset` | results that arrive in a later state; panics in `fn`; lazy transitions; boundary configurations | opens at `MaxFailures`; HalfOpen is no dead end; recovers by itself; follows the documented life cycle |
| `pkg/pool` | channels `tasks`, `results`, `sem`, `stopWorkers`; flags `started`, `closed`; a context; worker count; metrics | `Start`, `Submit`, `SubmitWait`, `SubmitBatch`, `Resize`, `Shutdown`, `Stop`, `WaitForDrain`, `ParallelExecute`, `Map` | sends racing `close`; workers stopped with a task in hand; one results channel shared by all waiters; timeouts; stale worker counts | bounded concurrency; each accepted task runs once; nothing lost by a graceful shutdown; no send on a closed channel; calls return |
| `pkg/queue` | a heap of items with sequence numbers, one mutex | `Push`, `Pop`, `Peek` | FIFO among equal priorities through sifts | implements a stable priority queue |
| `pkg/limiter` | tokens and a time stamp; a list of time stamps; one mutex each | `Allow`, `Wait` of `TokenBucket` and `SlidingWindow` | fractions of tokens over many refills; `Allow` reading the clock twice; `Wait` retrying without a queue on a count that is stale | never more than the rate allows in any interval; whoever goes on waiting sees requests let through |
| `pkg/bulkhead` | a channel of permits | `Execute` | timeout and cancellation racing a permit; nested calls | permits conserved; at most `MaxConcurrent` inside |
| `pkg/retry` | none (a loop and its attempt, error and delay) | `Do`, `DoWithCallbacks`, `ExponentialBackoff` | early ends, cancellation between attempts, delay arithmetic | at most `MaxAttempts`; gives up for the right reason; returns |
| `pkg/safe` | a map or a slice, one RWMutex | read, write and read-modify-write calls, iteration | callbacks under the lock, which may panic or call back; slices that share an array | atomic read-modify-write; nothing exposed to or taken over from a client; calls return |
| `pkg/monitor` | latest sample, cancel function, a collector goroutine per `Start` | `Start`, `Stop`, `Latest` | double `Start`, samples after `Stop`, failing probes | `Stop` ends the collector; collection goes on through errors; `Latest` does not go back |
| `pkg/lazyloader` | a cache of chunks, one mutex | `GetChunk`, `Clear`, `GetLines` | loader errors and panics, two misses at once, the last chunk | a chunk is loaded at most once per `Clear` and holds the lines asked for |
| `pkg/gin` | none of its own | middleware around `TryAcquire`/`Release` | panics in handlers; other users of the semaphore | a slot comes back for each taken; requests starve nobody |
| `challenges/runner`, `scripts` | none | command line, shell | nothing concurrent | not modelled |

Interactions: `pkg/gin` calls the semaphore it is given, which others may use too
(`SemaphoreMiddleware` composes them); `ParallelExecute` and `Map` make a private pool
and call `SubmitBatchWait` on it, and batches share a pool's results channel with
`SubmitWait` (`PoolBatch`); retrying calls of a bulkhead is how an application combines
those two (`RetryBulkhead`); everything else interacts only through the application.
The complete list of hazards, each with its line and the
properties that cover it, is in `PROJECT.json`.

## Modules

| Module | Contents |
|---|---|
| `Semaphore` | the weighted semaphore |
| `SemaphoreMiddleware` | extends it: HTTP requests and weighted callers on one semaphore |
| `CircuitBreaker` | the breaker |
| `BreakerLifeCycle` | abstract: the diagram of docs/ARCHITECTURE.md, for one caller |
| `WorkerPool` | the pool |
| `PoolBatch` | extends it: a batch on a shared pool, or on the private one of `Map` |
| `PriorityQueue` | the heap, one step per swap |
| `StablePriorityQueue` | abstract: what the doc comment of `PriorityQueue` promises |
| `Bulkhead` | the bulkhead |
| `Retry` | the retry loop, cut where it calls `fn` and where it waits |
| `RetryBulkhead` | composes the two: `fn` calls `Execute` |
| `RateLimiter` | the token bucket and the sliding window |
| `Monitor` | the resource monitor |
| `Guarded` | the RWMutex, and operations that run under it |
| `SafeStore`, `SafeSlice`, `LazyLoader` | the data and the operations of each container, over `Guarded` |
| `Containers` | goroutines that share one of the three |
| `MC...` | instances for TLC |
| `..._proof` | proofs about the module of that name, and about those it extends or composes: `SemaphoreMiddleware_proof` has those about `Semaphore`, `RetryBulkhead_proof` about `Bulkhead` and `Retry`, `Containers_proof` about the lock and the three containers; `WorkerPool_proof` has those about `PoolBatch` too |

Each module ends with its properties.

A *mutant* (`Name_What`) is a version of a definition with a plausible bug. It is
used by no specification. Substituted for the definition it mutates, it makes
the property it is paired with in `PROJECT.json` fail: the property can see that
bug.

### Semaphore

A caller is a goroutine with at most one acquisition at a time. A waiter is
represented by its caller, `waiters` by the sequence of callers, a closed `ready`
channel by membership in `ready`. Each critical section of `s.mu` is one action,
except that `notifyWaiters` takes one action per loop iteration with the lock held
(`mu`, `scan`): a caller it wakes returns without the lock while the loop goes on.
`ctx.Done()` and `ready` are alternatives of the same select, so `SelectDone` is
possible also for a caller that has been granted its weight. int64 sums are
wrapped at `MaxInt`. Callers release what they hold, in one or several calls;
with `OverRelease` they release anything.

### CircuitBreaker

`Execute` is two actions, one on each side of `fn`; `pc` remembers the branch taken
before `fn`, because the code after `fn` belongs to that branch whatever the state
is by then. `time.Since(lastFailure)` is the counter `elapsed`, which `Tick` advances
up to `Timeout`; only `elapsed >= Timeout` is ever asked. `fn` fails, succeeds or
(with `MayPanic`) panics and is recovered by the caller; from `Heal` on it succeeds.
`State` and `Reset` may be called by anyone at any time.

### WorkerPool

Each channel operation, atomic counter and critical section is one action. `p.mu`
protects single steps only and is no variable; `p.resizeMu` is held across steps.
`p.wg` and `workerCount` are the set `Live`: a worker counts until its deferred function
has run. `p.stopWorkers` is unbuffered, so a send and a receive are one joint
action (`ResizeStops`). A send on a closed channel is an action that sets `panicked`,
which ends the program (`NoPanic` guards every other action). A task is its ID and
also its `Result`: the code distinguishes results by `TaskID` only. Values, errors,
durations, callbacks and the counters nobody reads back (completed, failed,
panicked, latency) are left out; `executed` counts the runs per task. `Resize`
stores the new size in `config.Workers`, which nothing reads once the pool has
started. `QueueSize` is positive: with 0 the channels would be unbuffered.
`Orderly` restricts the clients: none submits or resizes once a `Shutdown` or `Stop`
has begun, and none begins while a `Submit` or `Resize` is under way.

### SemaphoreMiddleware

A request is a goroutine of `net/http`, reused. It calls `TryAcquire(1)`, and either is
answered 503 or is in its handler; `HandlerEnds` stands for a return and for a panic,
and `DeferredRelease` follows either. The other callers are those of `Semaphore`. The
variable `cancelled` remembers whether a context ever ended an `Acquire`: weight granted
to a cancelled caller stays in `s.current` for good, so exact accounting and the
absence of missed wake-ups are claimed until then (`ExactUntilCancelled`,
`WakesUntilCancelled`).

### PoolBatch

One `SubmitBatchWait` call: its collector goroutine submits the tasks of `Batch`, takes
results from `p.results`, passes its own on to `resultChan` and puts others back; the
caller ranges over that channel. `private` says whether the pool is the one that `Map` or
`ParallelExecute` made: then nobody else uses it, and a deferred `Stop` follows. The zero
`Result` received from a closed channel is `Zero`. Orderly clients begin no `Shutdown`
before the batch is collected.

### PriorityQueue

Every call holds `pq.mu`, so that only the order of calls matters; still, each swap of
`container/heap` is a step (`SiftUp`, `SiftDown`, with `op` and `pos` the loop under way),
which needs no recursion and lets the invariant say what a sift leaves out of
order. A value is represented by its sequence number: the code never looks at
one. `StablePriorityQueue` knows no heap: it holds a set of entries and returns the
oldest of the highest priority. The mapping takes the set of the heap's items;
Push takes effect when it appends, Pop when it removes the last item.

### Bulkhead

`depth` counts the permits a goroutine holds, because `fn` may call `Execute` again on the
same bulkhead. `FnEnds` stands for a return and for a panic: the deferred send
(`PutBack`) follows either. `config.QueueSize` is stored and reported, and limits
nothing.

### Retry and RetryBulkhead

`Retry` is one goroutine's loop per client: `attempt`, `lastErr`, the `delay` it waits for, and
what `Do` returned and `onFinalError` was told (`returned`, `reported`). An error is transient,
or a `RetryableError` that says it is not retryable. Delays are integers in tenths of
the shortest one, so that the jitter, taken at its two extremes, is a whole number.
`RetryBulkhead` calls `Execute` as the `fn` of `Do`: an attempt ends when the outermost `Execute`
does, with the service's outcome once the permit is back, with `ctx.Err()`, or with the
bulkhead's timeout error; the latter two are transient to `Do`.

### RateLimiter

Time is kept as ages that `Tick` advances and that stop where no comparison can tell
more of it; a token is `Unit` units, so that a tick may add a fraction of one. A critical
section is one step, except `Allow` of the window, which is cut between its two readings of
the clock: time may pass while it holds the lock. `Wait` is `Allow`, the second critical
section that computes the deficit (bucket only, from a count others may have changed,
without a refill), and the sleep. `recent[w]` is a history: how many requests the last `w`
ticks admitted.

### Monitor

A call of `Start` names the context it makes and the collector it starts. `m.cancel` is
unprotected, so `Start` and `Stop` are called by one goroutine at a time; the collectors
run beside them. A snapshot's `CollectedAt` is only compared: `older` says, of each
running getter and of the published snapshot, which running getters read the clock before it. A probe whose context is done may fail
and leaves its figures out; that is no error. `Paired` clients call `Start` again only after
`Stop`.

### Guarded, SafeStore, SafeSlice, LazyLoader, Containers

`Guarded` is the lock as package `sync` documents it (a blocked `Lock` keeps new readers
out, `Unlock` lets waiting readers in). A critical section without client code is one
step; one with a callback begins and ends in two, and the callback returns, panics, or
calls the same object and is stuck. `SafeStore` has the map, `SafeSlice` the arrays with
the slices that share them (`append` and `Delete` write in place, `Snapshot` and `Replace`
copy), `LazyLoader` the chunks, each the set of its line numbers, with the arithmetic of
`New` and `NewStringLoader`. `Containers` picks one of the three at the start.

## Runs that pass

| Run | Bounds | What it shows |
|---|---|---|
| `Middleware` | 3 callers, all cancellable, and 1 request; maximum 2, weights 0..3; fair | the limit and the list are sound; exact accounting and no missed wake-up until a cancellation; waiters are served beside requests; a request's slot comes back |
| `BreakerSafety` | 3 callers, 2 failures, 2 probes, `Reset`; fair | threshold, late failures bounded, no dead end; recovers and stays closed |
| `BreakerSequential` | 1 caller, 5 failures, 3 probes, `fn` may panic | implements `BreakerLifeCycle` |
| `PoolOrderly` | 3 tasks, two of them a batch, 2 workers, queue of 2, two `Shutdown`/`Stop` with timeouts, or a private pool; orderly, fair | graceful shutdown runs all, no panic; accepted tasks run and `Shutdown` returns |
| `PoolDisorder` | a `SubmitWait` and a batch of 1, 1 worker growing to 2, queue of 1, 2 `Resize`, a `Shutdown`/`Stop`, all cancellable; no order | the concurrency bound, at most once, and results never duplicated survive any race |
| `PoolBatch` | a batch of 2 and a `SubmitWait`, 1 worker, queue of 3, a `WaitForDrain`; or a private pool; fair | results taken and put back are neither lost nor duplicated; the batch is complete; batch, waiter and `WaitForDrain` return |
| `QueueStable` | 7 pushes, 3 priorities | `Push`, `Pop` and `Peek` implement `StablePriorityQueue` |
| `RetryBulkhead` | 2 clients, 2 permits, calls nested twice, 3 attempts, delays capped at the second; fair | permits conserved; `Do` gives up only when it must; every `Do` returns although nested calls jam the bulkhead |
| `Limiter` | 3 callers, capacity 2 and 2/3 token per tick, or 2 requests in 3 ticks; fair | no interval admits too many; whoever goes on waiting sees requests let through |
| `MonitorRestart` | 3 `Start` calls, 2 probes, failing getters, expiring contexts; fair | `Stop` reaches the collector and ends it; collection survives errors; `Latest` goes back only around a restart |
| `Containers` | 3 goroutines; 2 keys; 3 arrays of at most 2 elements, 1 client that keeps its slice; 1, 2 or 4 lines in chunks of 1, 2 or 3; fair | callbacks see and change one state; no array is shared with a client; one load per `Clear`; chunks hold the right lines; calls return unless a callback calls back |

Why the bounds are enough to be interesting: three callers are the least for a
waiter behind a waiter behind a holder; weights 0..3 with maximum 2 cover the
free, the fitting, the full and the refused case. Two failures and two probes
make both the counting and the last step of it happen, and three callers let
two stale results meet a third call. A queue of 1 or 2 with as many or more tasks
makes it full; two workers, two `Resize` calls and sizes 0, 1, 2 cover refusal, growth,
shrinking and a no-op. Seven pushes fill a heap of three levels, with ties. Two
clients that nest calls can hold both permits and wait for each other; delays of 10
and 15 make the cap bite. A rate of 2/3 leaves a remainder at each refill, and a
horizon beyond the window sees requests enter and leave it. Three `Start` calls
leave two collectors that were stopped in the middle of a getter beside a third.
Three goroutines are a holder, a blocked writer and a reader kept out by it.
The state spaces are finite without further constraints: a task is submitted
once, each `Resize`, `Shutdown`, `WaitForDrain` and `Start` identity makes one call, and
`Horizon` bounds the history of the limiter.

Deadlock is checked except where the code may really stop: in `PoolDisorder` a
`Resize` or a `SubmitWait` may block for ever, in `Containers` a callback that calls
back does.

### Fairness

* Semaphore and middleware: a runnable goroutine runs (weak fairness); `sync.Mutex`
  hands over in FIFO order to a goroutine that has starved for 1 ms, so a goroutine
  that wants the lock again and again gets it (strong fairness for the locking
  steps); a holder releases, as the documentation demands of callers, and handlers
  return. Nobody need call `Acquire` and no context need be cancelled.
* Breaker: time passes, `fn` returns, the application goes on calling `Execute`.
* Pool: runnable goroutines run; tasks return; blocked channel operations are
  served in FIFO order, so one that is possible again and again happens (strong
  fairness for `p.sem`, `p.results`, `p.stopWorkers` and `p.resizeMu`); the ticker of
  `WaitForDrain` ticks; the collector of a batch is treated like `SubmitWait`, and
  `Map` goes on to its deferred `Stop`. Timeouts, cancellations and calls are not forced.
* Bulkhead and retry: timers fire (`New` makes `Timeout` positive); a service ends,
  however many nested calls it makes (strong fairness); the deferred send goes on,
  delays end. Contexts need not be cancelled.
* Limiter: time passes, timers fire, a goroutine in `Wait` gets the mutex (strong).
* Monitor: the getter returns (`CPUSampleTime` bounds it), the ticker ticks, and a
  `select` that finds `ctx.Done()` ready again and again chooses it, as it chooses at
  random (strong fairness for the loop's end).
* Containers: callbacks return or panic; a goroutine in `Lock` is not starved (strong).

## Where code and documentation disagree

The run `PoolSubmitRace` ends in a violation of `SubmitNeverPanics`: `Submit` panics when
`Shutdown` closes the queue between its check and its send, and `README.md:199` says that it
"returns an error"; `PROJECT.json` quotes the line.

The modules state more that the documentation says or a reader may expect, and that
TLC refutes when it is put in place of the properties of the configuration named
here (as an `INVARIANT`, or as a `PROPERTY` where marked P), with the constants changed
as said:

| Property | Configuration | Shows |
|---|---|---|
| `BackToZero` | `Middleware` | cancellation racing the grant leaks the weight (the comment in the semaphore's `stress_test.go` says it is "always back at 0") |
| `HeadBlockedOnlyWhenFull` | `Middleware` | a cancelled waiter wakes nobody: the next one sleeps although its weight is free ("blocks until weight units are available", `semaphore.go:34`) |
| `OverReleaseHarmless` | `Middleware`, `OverRelease = TRUE` | over-release does not panic (`README.md:203` says it does) and frees what others hold |
| `CurrentInRange` | `Middleware`, `MaxInt = 2`, equal to `MaxWeight` | `current+weight` wraps near the largest int64 |
| `BusyOnlyAtCapacity` (P) | `Middleware` | a request is refused although a slot is free, because a heavier caller waits (`gin.go:13`: "server is at capacity") |
| `StaleProbeKeepsClosed` (P) | `BreakerSafety` | a late failing probe reopens a closed breaker (`README.md:201`: "they don't reopen") |
| `Recovers` (P) | `BreakerSafety`, `MayPanic = TRUE`, `MayReset = FALSE` | a panicking probe leaves the breaker half-open for ever |
| `OpenForTimeout` (P) | `BreakerSafety` | a late successful probe closes a breaker that has just opened (`USER_GUIDE.md:309`) |
| `SubmitWaitNeverPanics` | `PoolDisorder` | `SubmitWait` puts the zero result of the closed channel back into it |
| `PutBackNeverPanics` | `PoolDisorder` | a worker stopped by `Resize` puts its task back into the closed queue |
| `ResultNeverPanics` | `PoolDisorder` | a `Resize` that passed its check before `Shutdown` closed the pool starts a worker after it has waited for all, and that worker sends on the closed `p.results` |
| `ResizeTerminates` (P) | `PoolDisorder` with `FairBatchSpec`, no closers, three workers, all initial, `Sizes = {1}` | a second `Resize` waits for workers that have already been told to stop |
| `GracefulRunsAll` | `PoolOrderly`, `InitialWorkers = {}` | a pool made with zero workers, which `NewWorkerPool` does not refuse, accepts tasks and shuts down gracefully without running them |
| `QueuedTasksExact` | `PoolOrderly` | `QueuedTasks` never goes down when a task starts (`API_REFERENCE.md:134`) |
| `DrainedMeansProcessed` | `PoolBatch` | `WaitForDrain` returns before a task in a worker's hands has run (`pool.go:527`) |
| `CompetitorsServed` (P) | `PoolBatch` | a batch and a `SubmitWait` may take each other's results and put them back for ever |
| `BatchAllOrError` | `PoolBatch`, `QueueSize = 1` | a task of the batch that `Submit` refused is left out without an error |
| none: deadlock | `PoolBatch`, `QueueSize = 1` | a result dropped by a full `p.results` leaves its waiter blocked |
| `MapInOrder` | `PoolBatch`, two workers, both initial | `Map` returns results in the order of completion (`API_REFERENCE.md:206`: "in order") |
| `MapNeverPanics` | `PoolBatch`, `Closers = {s1}`, `MayCancel = TRUE` | a cancelled `Map` stops its pool under its collector, which then sends on the closed channel |
| `EveryWaiterServed` (P) | `Limiter` | a `Wait` may lose every token to others |
| `ReportsAttempts` | `RetryBulkhead` | `onFinalError` is told `MaxAttempts` also when the loop ended early |
| `DelayCapped` | `RetryBulkhead` | jitter is added after the cap (`courses/lesson-04.md:26`: "capped at `MaxDelay`") |
| `LatestIsNewest`, `SnapshotComplete` | `MonitorRestart` | a collector stopped in its getter publishes an older snapshot over a newer one; failed probes leave figures zero without an error |
| `StopIsImmediate` (P) | `MonitorRestart` | a stopped collector stores once more |
| `StopReachesAll` | `MonitorRestart`, `Paired = FALSE` | after two `Start` calls, also by one goroutine, `Stop` stops only the second collector |
| `CallbacksReturn` (P) | `Containers` | a callback that calls the object it runs under blocks for ever |

One disagreement is a restriction of a model and not a run. `docs/ARCHITECTURE.md:8` and
`docs/website/faq.md:5` say that all exported methods are safe for concurrent use; `Start` and
`Stop` of the monitor write and read `m.cancel` without a lock (`monitor.go:170`,
`monitor.go:187`), which is a data race when two goroutines call them at once. `Monitor` has
one goroutine at a time call them, and claims nothing about such calls.

## Proofs

Every theorem holds for any finite sets of goroutines and any values of the
constants that satisfy the named assumptions of the module.

**Semaphore** (`SemaphoreMiddleware_proof`), under `SafeUse`: twice the maximum fits in int64,
and nobody releases more than it holds (without either the theorems are false, as
`CurrentInRange` and `OverReleaseHarmless` above show).
`CapacityRespected` is not inductive: a grant is safe only because the waiter
granted holds nothing and is granted once. `IndInv` adds that a blocked caller is
listed exactly once (`WaitersConsistent`), that it waits for a positive weight and
holds none (`WaitingWeights`), who owns the lock and where its loop is
(`LockOwner`), and that the first waiter does not fit once the loop has passed it
(`HeadSkipped`), from which `NoSleepOnIdle` follows. The weight owned is the
cardinality of a set of units (`UnitsOf`), so that granting and releasing are facts
about unions and differences of finite sets. Theorems: `Invariance`, `TypeCorrect`,
`Capacity`, `ListConsistent`, `NobodySleepsOnIdle`.

**SemaphoreMiddleware** (`SemaphoreMiddleware_proof`): every step of requests and callers is
a step of `Semaphore` or leaves it alone (`StepOfSemaphore`), so `MiddlewareSpec` implements
`Semaphore`'s `Spec` (`MiddlewareUsesSemaphore`) and inherits its theorems
(`MiddlewareCapacity`). `ExactUntil` and `WakesUntil` prove that until a cancellation
`s.current` is exactly what is owned and the first waiter does not fit while the lock is
free; that needs, in addition, that no caller is on its way out of a cancelled
`Acquire`, and `IndInv`.

**CircuitBreaker** (`CircuitBreaker_proof`): `IndInv` is the conjunction of the safety
invariants; each needs the others (late failures are bounded because the callers
inside `fn` are counted, no dead end because the budget exists only in HalfOpen).
The boundary configurations (`MaxFailures` or `HalfOpenRequests` not positive, an `fn`
that panics) are instances of the theorems.
Theorems: `Invariance`, `TypeCorrect`, `OpensInTime`, `LateFailuresBounded`, `NoDeadEnd`;
`StaysOpen`, which lists all that may end an Open period and so says how far
`OpenForTimeout` can fail; and `Refinement`: if calls of `Execute` do not overlap and nobody
calls `Reset` (`Sequential`), `Spec` implements `BreakerLifeCycle`. The mapping is the identity on
the state and the counters; what the steps need beyond `IndInv` is that a lone caller
returns to the state that let it through (`SeesOwnState`).

**WorkerPool** (`WorkerPool_proof`): `IndInv` adds to the types that whoever may send
has a task or result in hand (`InHandOK`), that the tokens of `p.sem` are those of
the workers that hold one (`TokensOK`), and that workers exist only in a started
pool (`StartedOK`, needed because `Start` overwrites the workers' places).
Theorems: `Invariance`, `TypeCorrect`, `Bounded` (`ConcurrencyBound`, for every client
behaviour, orderly or not), and `OrderlyInvariance`, `OrderlySafe`
(`OrderlyNeverPanics`): once a `Shutdown` has begun nobody is about to send a task,
and once `p.wg.Wait()` has returned there is no worker, nor will there be.

**PoolBatch** (`WorkerPool_proof`): the theorems about tasks and results are about `BatchSpec`,
whose other clients may do all that those of `WorkerPool` may.

* `RunsAtMostOnce`: the copies of a task, in the sender's hand, in the queue, with the
  workers, and its past runs, are at most one in all. Each step moves a copy from one
  place to another, which changes two counts by one each (`CountChange`, `MoveCount`); in
  a channel the count is the cardinality of a set of positions, which a send adds one to
  and a receive shifts down (`OccursAppend`, `OccursTail`).
* `ConservesResults`: the same for the copies of a result, in `p.results`, in the hands of
  workers, of `SubmitWait` and of the collector, in `resultChan` and in the caller's list
  (`WorkerCounts`, `SubmitCounts`, `OtherCounts`). None is dropped where `p.results` has room for
  every task, since each is in it at most once (`RoomFor`).
* `CompletesBatch`: `CollectedOK` says that the collector passes on results of its batch
  only and how many; with each at most once (`ResultsConserved`), as many results as accepted
  tasks are all of them.
* `GracefulShutdown`, for a pool made with at least one worker: `GracefulInv` says that an
  accepted task stays in the queue or with a worker until it runs, and that a worker that
  `Start` started leaves only when the queue is closed and empty. A pool of zero workers does
  not satisfy it, see the table above.
* `OrderlyBatchSafe`, for contexts that are not cancelled: `UndisturbedInv` says that no
  collector is at work when a `Shutdown` begins. With cancelled contexts it is false, as
  `MapNeverPanics` above shows.
* `BatchBounded` and `BatchInvariance`, the conjunction `BatchInv` of all of these.

**PriorityQueue** (`PriorityQueue_proof`): `IndInv` says that the heap is in order between
calls, that `Push` leaves only the item at `pos` out of order with its parent
(`UpOrder`) and `Pop` only the item at `pos` with its children (`DownOrder`), each together
with the relation between the grandparent and the grandchildren that a swap
needs; that the item waiting at the end is the best (`LastIsBest`); and that numbers
are unique (`Numbered`). That the root of a heap is the best item is an induction
along the path to the root, done with the least place where it fails
(`LeastNat`, from the well-foundedness of `<`). Theorems: `Invariance`, `TypeCorrect`,
and `Refinement`: `Spec` implements `StablePriorityQueue`.

**Bulkhead** (`RetryBulkhead_proof`): `IndInv` adds to `PermitsConserved` that a goroutine in the
deferred send holds a permit. Theorems: `Invariance`, `TypeCorrect`, `Conserved`,
`PutBackSafe`.

**RetryBulkhead** (`RetryBulkhead_proof`): likewise every step is one of `Bulkhead`
(`RetryUsesBulkhead`), which gives `RetryConserves`; `LoopInv` adds to `GivesUpRightly` that a `Do`
under way has returned nothing, and is inductive (`GivesUpOnlyRightly`).

**RateLimiter** (`RateLimiter_proof`): `BucketRate` is not inductive, because it forgets what
is left in the bucket. `BucketInv` says that what the last `w` ticks admitted plus what is
left was paid for by a full bucket and the ticks up to the last refill, and that
nothing was admitted since that refill; an admission moves one token from one side to
the other, a tick shifts the history. `WindowInv` says that the stamps at most `w` old are the
last `recent[w]` ones, so that `cleanup` drops none that counts. Both with `MuInv`: only the
window's `Allow` is cut in two. Theorems: `Invariance`, `BucketSound`, `WindowSound`.

**Monitor** (`Monitor_proof`): `IndInv` adds to the invariants that `older` relates running
getters only (`OlderAreRunning`) and that contexts stay done (`DoneGrows`). Theorems:
`Invariance`, `StopReaches` (`Controlled`), `BackOnlyAroundStop` (`OlderOnlyAroundStop`), and
`CompleteUntilDone`: figures are missing only of probes that watch a context that is done,
which is how far `SnapshotComplete` can fail.

**Containers** (`Containers_proof`): `LockInv` says who holds the RWMutex at each stage, so that
a step that writes finds no callback running (`NobodySees`) and any other leaves what the
callbacks were shown (`StillSees`). `SliceInv` says that headers lie within their arrays and
no two share one; that an array can always be allocated is `MemoryAssumption`, and that one
is then free is the pigeonhole lemma `Spare`. `LoaderInv` says that a cached chunk is what
`load` computes and that the chunk a load is for is not cached while it runs. Theorems:
`Invariance`, `CallbacksSeeCurrent`, `NeverExposed`, `StaysInBounds`, `LoadedOnce`, and
`ChunksAgree`, which is the arithmetic of the rounded-up division for every size.

Every safety property that a passing run checks is thus stated by a theorem. Only
model-checked are the liveness properties, because the prover does not handle
fairness: `SomeWaiterServedAmongRequests`, `LightestServedAmongRequests`, `SlotComesBack`, `Recovers`,
`EveryTaskRuns`, `ShutdownReturns`, `DrainReturns`, `BatchReturns`, `WaitersServedBesideBatch`, `DoReturns`,
`WaitersAdvance`, `StopHalts`, `KeepsCollecting`, `CallsReturn`; and, of course, the refutations above.

## Not modelled

* `challenges/runner`, a command that calls the packages one after the other on fixtures
  and prints a report, and `scripts`: no state and no logic to check.
* Readers of the channel `Results()` returns: what they take is lost to `SubmitWait`.
* Rounding of float64 in the token bucket and the backoff; the figures that
  `GetSystemResources` gets from gopsutil.
* A chunk size of zero (division by zero in `NewStringLoader`), and clients that write
  into the slice `GetLines` returns.
* Several `SubmitWait` calls or batches that compete for ever: modelled, and shown by
  `CompetitorsServed`, but the liveness claims exclude it.
* The moment between the two atomic steps of a worker's deferred function: `WorkerExits` counts
  the worker down in `workerCount` and in `p.wg` at once.
* Calls of the monitor's `Start` and `Stop` that overlap, see above.
* Getters that only read (`Metrics`, `GetStats`, `Failures`, `Current`, `Len`, ...).

## Plan

1. Proofs: safety facts behind the liveness properties (that a goroutine they speak of is
   never at a place from which no step of its own leads on); action properties of the pool and the
   semaphore, on the pattern of `StaysOpen`.
2. A reader of `Results()` beside `SubmitWait`.
