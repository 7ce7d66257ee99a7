------------------------- MODULE SemaphoreMiddleware -------------------------
(***************************************************************************)
(* The Gin middleware of pkg/gin/gin.go over the semaphore it is given.    *)
(*                                                                         *)
(* A request runs the handler that SemaphoreMiddleware returns in the      *)
(* goroutine net/http made for it: TryAcquire(1), c.Next() and the         *)
(* deferred Release(1).  The other callers use the same semaphore          *)
(* directly, with any weights, and may be cancelled; the variable          *)
(* cancelled remembers whether one ever was, because weight granted to a   *)
(* cancelled caller stays in s.current.                                    *)
(***************************************************************************)
EXTENDS Semaphore

CONSTANT Requests    \* the goroutines that serve HTTP requests, reused

ASSUME RequestsAssumption ==
  Requests \subseteq Callers /\ Requests \cap Cancellable = {} /\ 1 \in Weights

VARIABLES
  req,         \* where each request is in the middleware
  cancelled    \* some caller's select took the case <-ctx.Done()

mvars == <<vars, req, cancelled>>

MiddlewareInit ==
  /\ Init
  /\ req = [r \in Requests |-> "idle"]
  /\ cancelled = FALSE

Moves(r, from, to) == req[r] = from /\ req' = [req EXCEPT ![r] = to]

-----------------------------------------------------------------------------
\* sem.TryAcquire(1) returned true: c.Next() runs the handlers behind.
Admit(r) == AcquireNow(r, 1) /\ Moves(r, "idle", "handling")

\* AbortWithStatusJSON(503): nothing was acquired and nothing is deferred.
TooBusy(r) == req[r] = "idle" /\ TryAcquireFail(r, 1) /\ UNCHANGED req

\* Mutant: Release is called after c.Next() instead of deferred, so that a
\* handler that panics skips it.
HandlerEnds_NotDeferred(r) ==
  /\ Moves(r, "handling", "deferred") \/ Moves(r, "handling", "idle")
  /\ UNCHANGED vars

\* c.Next() returns, or panics (gin recovers further up): the deferred
\* function runs next in both cases.
HandlerEnds(r) == Moves(r, "handling", "deferred") /\ UNCHANGED vars

\* defer sem.Release(1): its notifyWaiters follows with the lock held.
DeferredRelease(r) == Release(r, 1) /\ Moves(r, "deferred", "idle")

Serve(r) ==
  \/ Admit(r) \/ TooBusy(r) \/ HandlerEnds(r) \/ DeferredRelease(r)
  \/ Notify(r) /\ UNCHANGED req

\* A step of the semaphore in which no request moves and nobody is cancelled.
Aside == UNCHANGED <<req, cancelled>>

MiddlewareNext ==
  \/ \E r \in Requests : Serve(r) /\ UNCHANGED cancelled
  \/ \E c \in Callers \ Requests :
       \/ (Call(c) \/ SelectReady(c) \/ RemoveWaiter(c) \/ ReleaseSome(c) \/ Notify(c)) /\ Aside
       \/ SelectDone(c) /\ cancelled' = TRUE /\ UNCHANGED req

(***************************************************************************)
(* Fairness.  The Go scheduler runs every runnable goroutine, and          *)
(* sync.Mutex hands itself over in FIFO order once a waiter has starved    *)
(* for 1ms, so a goroutine that needs s.mu again and again gets it: strong *)
(* fairness for the steps that lock, weak fairness for the others.  That a *)
(* holder releases is the callers' documented duty (defer s.Release), and  *)
(* handlers return.  Nothing makes a caller start a call or be cancelled.  *)
(***************************************************************************)
MiddlewareSpec ==
  /\ MiddlewareInit /\ [][MiddlewareNext]_mvars
  /\ \A c \in Callers : WF_mvars(Notify(c) /\ Aside)
  /\ \A c \in Callers \ Requests :
       /\ WF_mvars(SelectReady(c) /\ Aside)
       /\ SF_mvars(RemoveWaiter(c) /\ Aside)
       /\ SF_mvars(held[c] > 0 /\ Release(c, held[c]) /\ Aside)
  /\ \A r \in Requests :
       /\ WF_mvars(HandlerEnds(r) /\ UNCHANGED cancelled)
       /\ SF_mvars(DeferredRelease(r) /\ UNCHANGED cancelled)

-----------------------------------------------------------------------------
(***************************************************************************)
(* Properties                                                              *)
(***************************************************************************)
\* As long as no waiting caller was cancelled, s.current is exactly the
\* weight that requests in their handlers and other callers own: no refused,
\* finished or panicking request changes it in the end.
ExactUntilCancelled == ~cancelled => current = Cardinality(OwnedUnits)

\* As long as no waiting caller was cancelled, the first waiter does not fit
\* whenever the lock is free: requests passing through never leave it asleep
\* although its weight is there.
WakesUntilCancelled ==
  ~cancelled /\ mu = Nobody /\ waiters # <<>> => ~Fits(want[Head(waiters)])

\* A caller that blocks in Acquire with the lightest weight in use gets it,
\* however many requests keep coming, unless a cancellation has lost weight:
\* TryAcquire never overtakes a waiter.
LightestServedAmongRequests ==
  \A c \in Callers \ Requests :
    (pc[c] = "select" /\ \A w \in Weights : w > 0 => want[c] <= w) ~> (held[c] > 0 \/ cancelled)

\* Callers blocked in Acquire never all wait for ever while requests are
\* served, unless a cancellation has lost weight.
SomeWaiterServedAmongRequests == (waiters # <<>>) ~> (ready # {} \/ cancelled)

\* A request that was admitted gives its slot back, whether its handler
\* returned or panicked, also when its Release has to wait for the lock.
SlotComesBack == \A r \in Requests : req[r] = "handling" ~> (req[r] = "idle" /\ held[r] = 0)

\* SemaphoreMiddleware's comment: "When the semaphore cannot be acquired
\* (server is at capacity), requests receive a 503".  Violated by the code:
\* TryAcquire also refuses while a heavier caller waits, with slots free.
BusyOnlyAtCapacity ==
  [][\A r \in Requests : TooBusy(r) => current >= maxWeight]_mvars
=============================================================================
