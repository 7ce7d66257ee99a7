--------------------------- MODULE CircuitBreaker ---------------------------
(***************************************************************************)
(* The circuit breaker of pkg/breaker/breaker.go.                          *)
(*                                                                         *)
(* Callers share one CircuitBreaker and call Execute, State and Reset.     *)
(* Execute locks cb.mu twice, before and after fn, and runs fn unlocked:   *)
(* each critical section is one step, so that the state may change in any  *)
(* way while a caller is inside fn.  What Execute does after fn depends on *)
(* the state it saw BEFORE fn, which pc remembers.                         *)
(*                                                                         *)
(* Time: elapsed is time.Since(cb.lastFailure), counted up to Timeout,     *)
(* where it stops since only elapsed >= Timeout is ever asked.             *)
(*                                                                         *)
(* fn is the environment: it returns an error or nil, or panics.  Once the *)
(* protected service is healthy (Heal) every fn returns nil.               *)
(***************************************************************************)
EXTENDS Integers, FiniteSets

CONSTANTS
  Callers,            \* the goroutines that share the breaker
  MaxFailures,        \* Config.MaxFailures
  Timeout,            \* Config.Timeout, in ticks
  HalfOpenRequests,   \* Config.HalfOpenRequests
  MayPanic,           \* whether fn may panic
  MayReset            \* whether Reset is called

ASSUME BreakerAssumption ==
  /\ IsFiniteSet(Callers)
  /\ MaxFailures \in Int
  /\ Timeout \in Nat
  /\ HalfOpenRequests \in Int
  /\ MayPanic \in BOOLEAN
  /\ MayReset \in BOOLEAN

\* New: fewer than one probe becomes one.
halfOpenRequests == IF HalfOpenRequests <= 0 THEN 1 ELSE HalfOpenRequests

VARIABLES
  state,             \* cb.state
  failures,          \* cb.failures
  successes,         \* cb.successes
  halfOpenAllowed,   \* cb.halfOpenAllowed
  elapsed,           \* time.Since(cb.lastFailure), up to Timeout
  pc,                \* "idle", or in fn: "closed" or "probe", by the state seen
  healthy            \* environment: fn only returns nil from now on

vars == <<state, failures, successes, halfOpenAllowed, elapsed, pc, healthy>>

TypeOK ==
  /\ state \in {"Closed", "Open", "HalfOpen"}
  /\ failures \in Nat
  /\ successes \in Nat
  /\ halfOpenAllowed \in 0..halfOpenRequests
  /\ elapsed \in 0..Timeout
  /\ pc \in [Callers -> {"idle", "closed", "probe"}]
  /\ healthy \in BOOLEAN

\* lastFailure is the zero time: long ago.
Init ==
  /\ state = "Closed"
  /\ failures = 0
  /\ successes = 0
  /\ halfOpenAllowed = 0
  /\ elapsed = Timeout
  /\ pc = [c \in Callers |-> "idle"]
  /\ healthy = FALSE

-----------------------------------------------------------------------------
(***************************************************************************)
(* The transitions.  toOpen and toHalfOpen leave failures alone.           *)
(***************************************************************************)
toOpen ==
  /\ state' = "Open"
  /\ elapsed' = 0
  /\ successes' = 0
  /\ halfOpenAllowed' = 0

toHalfOpen ==
  /\ state' = "HalfOpen"
  /\ successes' = 0
  /\ halfOpenAllowed' = halfOpenRequests
  /\ UNCHANGED <<failures, elapsed>>

\* Mutant: the failure count survives the closing.
toClosed_KeepsFailures ==
  /\ state' = "Closed"
  /\ successes' = 0
  /\ halfOpenAllowed' = 0
  /\ UNCHANGED <<failures, elapsed>>

toClosed ==
  /\ state' = "Closed"
  /\ failures' = 0
  /\ successes' = 0
  /\ halfOpenAllowed' = 0
  /\ UNCHANGED elapsed

\* checkStateTransition would move to HalfOpen.
TimeoutElapsed == state = "Open" /\ elapsed >= Timeout

-----------------------------------------------------------------------------
(***************************************************************************)
(* Execute, up to the call of fn                                           *)
(***************************************************************************)
\* Closed: fn is called.
ExecuteClosed(c) ==
  /\ pc[c] = "idle"
  /\ state = "Closed"
  /\ pc' = [pc EXCEPT ![c] = "closed"]
  /\ UNCHANGED <<state, failures, successes, halfOpenAllowed, elapsed, healthy>>

\* HalfOpen with probes left: one is used and fn is called.
ExecuteProbe(c) ==
  /\ pc[c] = "idle"
  /\ state = "HalfOpen"
  /\ halfOpenAllowed > 0
  /\ halfOpenAllowed' = halfOpenAllowed - 1
  /\ pc' = [pc EXCEPT ![c] = "probe"]
  /\ UNCHANGED <<state, failures, successes, elapsed, healthy>>

\* Mutant: the probe that starts the half-open period is counted twice.
ExecuteFirstProbe_Twice(c) ==
  /\ pc[c] = "idle"
  /\ TimeoutElapsed
  /\ state' = "HalfOpen"
  /\ successes' = 0
  /\ halfOpenAllowed' = halfOpenRequests - 2
  /\ pc' = [pc EXCEPT ![c] = "probe"]
  /\ UNCHANGED <<failures, elapsed, healthy>>

\* Open for Timeout: checkStateTransition moves to HalfOpen, and since that
\* allows at least one probe, this call is the first.
ExecuteFirstProbe(c) ==
  /\ pc[c] = "idle"
  /\ TimeoutElapsed
  /\ state' = "HalfOpen"
  /\ successes' = 0
  /\ halfOpenAllowed' = halfOpenRequests - 1
  /\ pc' = [pc EXCEPT ![c] = "probe"]
  /\ UNCHANGED <<failures, elapsed, healthy>>

\* Open, or HalfOpen without probes left: "circuit breaker is open".
ExecuteReject(c) ==
  /\ pc[c] = "idle"
  /\ \/ state = "Open" /\ ~TimeoutElapsed
     \/ state = "HalfOpen" /\ halfOpenAllowed <= 0
  /\ UNCHANGED vars

-----------------------------------------------------------------------------
(***************************************************************************)
(* Execute, after fn returned                                              *)
(***************************************************************************)
Leave(c) == pc' = [pc EXCEPT ![c] = "idle"] /\ UNCHANGED healthy

\* Mutant: off by one, the breaker opens one failure late.
ClosedFails_Late(c) ==
  /\ pc[c] = "closed"
  /\ ~healthy
  /\ failures' = failures + 1
  /\ IF failures' > MaxFailures
     THEN toOpen
     ELSE elapsed' = 0 /\ UNCHANGED <<state, successes, halfOpenAllowed>>
  /\ Leave(c)

\* fn was called in Closed and failed: one more failure, at MaxFailures the
\* breaker opens, whatever its state is by now.
ClosedFails(c) ==
  /\ pc[c] = "closed"
  /\ ~healthy
  /\ failures' = failures + 1
  /\ IF failures' >= MaxFailures
     THEN toOpen
     ELSE elapsed' = 0 /\ UNCHANGED <<state, successes, halfOpenAllowed>>
  /\ Leave(c)

\* fn was called in Closed and succeeded.
ClosedSucceeds(c) ==
  /\ pc[c] = "closed"
  /\ failures' = 0
  /\ UNCHANGED <<state, successes, halfOpenAllowed, elapsed>>
  /\ Leave(c)

\* fn was called as a probe and failed: the breaker opens, whatever its
\* state is by now.
ProbeFails(c) ==
  /\ pc[c] = "probe"
  /\ ~healthy
  /\ toOpen
  /\ UNCHANGED failures
  /\ Leave(c)

\* Mutant: the last successful probe does not close the breaker.
ProbeSucceeds_NeverCloses(c) ==
  /\ pc[c] = "probe"
  /\ IF successes + 1 > halfOpenRequests
     THEN toClosed
     ELSE successes' = successes + 1 /\ UNCHANGED <<state, failures, halfOpenAllowed, elapsed>>
  /\ Leave(c)

\* fn was called as a probe and succeeded: HalfOpenRequests successes close
\* the breaker, whatever its state is by now.
ProbeSucceeds(c) ==
  /\ pc[c] = "probe"
  /\ IF successes + 1 >= halfOpenRequests
     THEN toClosed
     ELSE successes' = successes + 1 /\ UNCHANGED <<state, failures, halfOpenAllowed, elapsed>>
  /\ Leave(c)

\* fn panicked and the caller recovers: the second critical section is never
\* reached, nothing is recorded.
Panics(c) ==
  /\ MayPanic
  /\ pc[c] # "idle"
  /\ ~healthy
  /\ UNCHANGED <<state, failures, successes, halfOpenAllowed, elapsed>>
  /\ Leave(c)

-----------------------------------------------------------------------------
(***************************************************************************)
(* State, Reset and the environment                                        *)
(***************************************************************************)
\* State() also makes the lazy transition; Failures() only reads.
State ==
  /\ TimeoutElapsed
  /\ toHalfOpen
  /\ UNCHANGED <<pc, healthy>>

Reset ==
  /\ MayReset
  /\ toClosed
  /\ UNCHANGED <<pc, healthy>>

Tick ==
  /\ elapsed < Timeout
  /\ elapsed' = elapsed + 1
  /\ UNCHANGED <<state, failures, successes, halfOpenAllowed, pc, healthy>>

Heal ==
  /\ ~healthy
  /\ healthy' = TRUE
  /\ UNCHANGED <<state, failures, successes, halfOpenAllowed, elapsed, pc>>

-----------------------------------------------------------------------------
Begin(c) ==
  ExecuteClosed(c) \/ ExecuteProbe(c) \/ ExecuteFirstProbe(c) \/ ExecuteReject(c)

End(c) ==
  \/ ClosedFails(c) \/ ClosedSucceeds(c)
  \/ ProbeFails(c)  \/ ProbeSucceeds(c)
  \/ Panics(c)

Next ==
  \/ \E c \in Callers : Begin(c) \/ End(c)
  \/ State \/ Reset \/ Tick \/ Heal

Spec == Init /\ [][Next]_vars

(***************************************************************************)
(* Fairness: time passes, fn returns, and the application keeps calling    *)
(* Execute.  Nobody has to call State or Reset, and the service need not   *)
(* ever become healthy.                                                    *)
(***************************************************************************)
FairSpec ==
  /\ Spec
  /\ WF_vars(Tick)
  /\ \A c \in Callers : WF_vars(Begin(c)) /\ WF_vars(End(c))

-----------------------------------------------------------------------------
(***************************************************************************)
(* Properties                                                              *)
(***************************************************************************)
\* The number of failures that opens a closed breaker (1 when MaxFailures is
\* not positive: the comparison follows the increment).
Threshold == IF MaxFailures <= 1 THEN 1 ELSE MaxFailures

InFn(kind) == {c \in Callers : pc[c] = kind}

\* Whatever stale calls return late, a breaker that is Closed has counted
\* fewer failures than the threshold: it opens with the failure that
\* reaches it.
ClosedBelowThreshold == state = "Closed" => failures < Threshold

\* Calls that were let through while Closed may still fail when the breaker
\* is no longer Closed, and each is counted: the count exceeds the threshold
\* by less than the number of callers, and cannot grow for ever.
FailuresBounded ==
  failures + Cardinality(InFn("closed")) < Threshold + Cardinality(Callers)

\* HalfOpen is never a dead end: as long as no fn panics, the probes still
\* allowed, the ones in flight and the successes so far suffice to close the
\* breaker.
HalfOpenNotStuck ==
  ~MayPanic /\ state = "HalfOpen" =>
    halfOpenAllowed + Cardinality(InFn("probe")) + successes >= halfOpenRequests

\* The budget of probes exists in HalfOpen only, and no stale probe leaves
\* the breaker with enough successes but not closed.
ProbeBudget ==
  /\ state # "HalfOpen" => halfOpenAllowed = 0
  /\ successes < halfOpenRequests

\* The inductive invariant of the specification.
IndInv ==
  /\ TypeOK
  /\ ClosedBelowThreshold
  /\ FailuresBounded
  /\ ProbeBudget
  /\ HalfOpenNotStuck

\* The breaker recovers by itself: from any state, once the service is
\* healthy and is called, the breaker is Closed and stays so.
Recovers == healthy ~> [](state = "Closed")

\* The counts a caller observes, as the life cycle keeps them.
LifeCycle ==
  INSTANCE BreakerLifeCycle
    WITH Failing <- Threshold, Probes <- halfOpenRequests,
         phase  <- state,
         streak <- IF state = "Closed" THEN failures ELSE 0,
         passed <- IF state = "HalfOpen" THEN successes ELSE 0

\* Used by one goroutine at a time, the breaker follows the documented life
\* cycle: it implements the abstract specification.
FollowsLifeCycle == LifeCycle!Spec

\* README: probes that finish after the close "don't reopen" the breaker.
StaleProbeKeepsClosed ==
  [][\A c \in Callers :
       pc[c] = "probe" /\ pc'[c] = "idle" /\ state = "Closed" => state' = "Closed"]_vars

\* The documented life cycle: an Open breaker stays Open for Timeout, unless
\* it is reset.
OpenForTimeout ==
  [][state = "Open" /\ state' # "Open" => elapsed >= Timeout \/ Reset]_vars
=============================================================================
