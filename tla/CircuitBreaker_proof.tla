------------------------ MODULE CircuitBreaker_proof ------------------------
(***************************************************************************)
(* Proofs about the circuit breaker, for any number of callers and any     *)
(* configuration.                                                          *)
(***************************************************************************)
EXTENDS CircuitBreaker, FiniteSetTheorems, TLAPS

\* The thresholds that the code works with are positive, whatever the
\* configuration says.
LEMMA ConfigType ==
  /\ halfOpenRequests \in Nat /\ halfOpenRequests >= 1
  /\ Threshold \in Nat /\ Threshold >= 1
  /\ Threshold >= MaxFailures
  /\ Cardinality(Callers) \in Nat
  <1>1. Cardinality(Callers) \in Nat
    BY BreakerAssumption, FS_CardinalityType
  <1> QED BY <1>1, BreakerAssumption DEF halfOpenRequests, Threshold

(***************************************************************************)
(* The number of callers inside fn.                                        *)
(***************************************************************************)
LEMMA InFnFinite ==
  ASSUME NEW k
  PROVE  /\ IsFiniteSet(InFn(k))
         /\ Cardinality(InFn(k)) \in Nat
         /\ Cardinality(InFn(k)) <= Cardinality(Callers)
  <1>1. InFn(k) \in SUBSET Callers
    BY DEF InFn
  <1>2. IsFiniteSet(InFn(k)) /\ Cardinality(InFn(k)) <= Cardinality(Callers)
    BY <1>1, BreakerAssumption, FS_Subset
  <1> QED BY <1>2, FS_CardinalityType

\* A caller that calls fn is one more of its kind.
LEMMA EnterFn ==
  ASSUME TypeOK, NEW c \in Callers, NEW k \in {"closed", "probe"}, pc[c] = "idle",
         pc' = [pc EXCEPT ![c] = k]
  PROVE  /\ Cardinality(InFn(k))' = Cardinality(InFn(k)) + 1
         /\ \A m \in {"closed", "probe"} \ {k} : Cardinality(InFn(m))' = Cardinality(InFn(m))
  <1>1. InFn(k)' = InFn(k) \cup {c} /\ c \notin InFn(k)
    BY DEF InFn, TypeOK
  <1>2. Cardinality(InFn(k) \cup {c}) = Cardinality(InFn(k)) + 1
    BY <1>1, InFnFinite, FS_AddElement
  <1>3. \A m \in {"closed", "probe"} \ {k} : InFn(m)' = InFn(m)
    BY DEF InFn, TypeOK
  <1> QED BY <1>1, <1>2, <1>3

\* A caller that returns from fn is one less of its kind.
LEMMA LeaveFn ==
  ASSUME TypeOK, NEW c \in Callers, NEW k \in {"closed", "probe"}, pc[c] = k,
         pc' = [pc EXCEPT ![c] = "idle"]
  PROVE  /\ Cardinality(InFn(k))' = Cardinality(InFn(k)) - 1
         /\ \A m \in {"closed", "probe"} \ {k} : Cardinality(InFn(m))' = Cardinality(InFn(m))
  <1>1. InFn(k)' = InFn(k) \ {c} /\ c \in InFn(k)
    BY DEF InFn, TypeOK
  <1>2. Cardinality(InFn(k) \ {c}) = Cardinality(InFn(k)) - 1
    BY <1>1, InFnFinite, FS_RemoveElement
  <1>3. \A m \in {"closed", "probe"} \ {k} : InFn(m)' = InFn(m)
    BY DEF InFn, TypeOK
  <1> QED BY <1>1, <1>2, <1>3

\* Nobody enters or leaves fn.
LEMMA StayFn ==
  ASSUME UNCHANGED pc
  PROVE  \A m \in {"closed", "probe"} : Cardinality(InFn(m))' = Cardinality(InFn(m))
  BY DEF InFn

(***************************************************************************)
(* The inductive invariant.                                                *)
(***************************************************************************)
LEMMA InitInv == Init => IndInv
  <1> SUFFICES ASSUME Init PROVE IndInv
    OBVIOUS
  <1>1. InFn("closed") = {}
    BY DEF Init, InFn
  <1>2. Cardinality({}) = 0
    BY FS_EmptySet
  <1>3. FailuresBounded
    <2>1. failures + Cardinality(InFn("closed")) = 0
      BY <1>1, <1>2 DEF Init
    <2> QED BY <2>1, ConfigType DEF FailuresBounded
  <1>4. TypeOK
    <2>1. halfOpenAllowed \in 0..halfOpenRequests /\ elapsed \in 0..Timeout
      BY ConfigType, BreakerAssumption DEF Init
    <2>2. healthy \in BOOLEAN /\ state \in {"Closed", "Open", "HalfOpen"}
      BY Zenon DEF Init
    <2>3. failures \in Nat /\ successes \in Nat
      BY DEF Init
    <2>4. pc \in [Callers -> {"idle", "closed", "probe"}]
      BY DEF Init
    <2> QED BY <2>1, <2>2, <2>3, <2>4, Zenon DEF TypeOK
  <1> QED BY <1>3, <1>4, ConfigType
          DEF Init, IndInv, ClosedBelowThreshold, ProbeBudget, HalfOpenNotStuck

\* Every step preserves the invariant: each case first says how the numbers
\* of callers inside fn change, the rest is arithmetic on the counters.
LEMMA NextInv ==
  ASSUME IndInv, [Next]_vars
  PROVE  IndInv'
  <1> DEFINE cl == Cardinality(InFn("closed"))
             pr == Cardinality(InFn("probe"))
             Numbers == cl \in Nat /\ pr \in Nat /\ cl <= Cardinality(Callers)
  <1> USE ConfigType, BreakerAssumption
      DEF IndInv, TypeOK, ClosedBelowThreshold, FailuresBounded, ProbeBudget, HalfOpenNotStuck
  <1>0. Numbers /\ cl' \in Nat /\ pr' \in Nat /\ cl' <= Cardinality(Callers)
    <2>1. Numbers
      BY InFnFinite
    <2>2. InFn("closed")' \in SUBSET Callers /\ InFn("probe")' \in SUBSET Callers
      BY DEF InFn
    <2>3. /\ IsFiniteSet(InFn("closed")') /\ IsFiniteSet(InFn("probe")')
          /\ Cardinality(InFn("closed")') <= Cardinality(Callers)
      BY <2>2, FS_Subset
    <2>4. Cardinality(InFn("closed")') \in Nat /\ Cardinality(InFn("probe")') \in Nat
      BY <2>3, FS_CardinalityType
    <2> QED BY <2>1, <2>3, <2>4
  <1> HIDE DEF cl, pr
  <1>1. ASSUME NEW c \in Callers, ExecuteClosed(c)
        PROVE  IndInv'
    <2>1. cl' = cl + 1 /\ pr' = pr
      BY <1>1, EnterFn DEF ExecuteClosed, cl, pr
    <2> QED BY <1>0, <1>1, <2>1 DEF ExecuteClosed, cl, pr
  <1>2. ASSUME NEW c \in Callers, ExecuteProbe(c)
        PROVE  IndInv'
    <2>1. cl' = cl /\ pr' = pr + 1
      BY <1>2, EnterFn DEF ExecuteProbe, cl, pr
    <2> QED BY <1>0, <1>2, <2>1 DEF ExecuteProbe, cl, pr
  <1>3. ASSUME NEW c \in Callers, ExecuteFirstProbe(c)
        PROVE  IndInv'
    <2>1. cl' = cl /\ pr' = pr + 1
      BY <1>3, EnterFn DEF ExecuteFirstProbe, cl, pr
    <2> QED BY <1>0, <1>3, <2>1 DEF ExecuteFirstProbe, TimeoutElapsed, cl, pr
  <1>4. CASE UNCHANGED vars
    <2>1. cl' = cl /\ pr' = pr
      BY <1>4, StayFn DEF vars, cl, pr
    <2> QED BY <1>0, <1>4, <2>1 DEF vars, cl, pr
  <1>5. ASSUME NEW c \in Callers, ClosedFails(c)
        PROVE  IndInv'
    <2>1. cl' = cl - 1 /\ pr' = pr
      BY <1>5, LeaveFn DEF ClosedFails, Leave, cl, pr
    <2>2. CASE failures' >= MaxFailures
      BY <1>0, <1>5, <2>1, <2>2 DEF ClosedFails, Leave, toOpen, cl, pr
    <2>3. CASE ~(failures' >= MaxFailures)
      BY <1>0, <1>5, <2>1, <2>3 DEF ClosedFails, Leave, cl, pr
    <2> QED BY <2>2, <2>3
  <1>6. ASSUME NEW c \in Callers, ClosedSucceeds(c)
        PROVE  IndInv'
    <2>1. cl' = cl - 1 /\ pr' = pr
      BY <1>6, LeaveFn DEF ClosedSucceeds, Leave, cl, pr
    <2> QED BY <1>0, <1>6, <2>1 DEF ClosedSucceeds, Leave, cl, pr
  <1>7. ASSUME NEW c \in Callers, ProbeFails(c)
        PROVE  IndInv'
    <2>1. cl' = cl /\ pr' = pr - 1
      BY <1>7, LeaveFn DEF ProbeFails, Leave, cl, pr
    <2> QED BY <1>0, <1>7, <2>1 DEF ProbeFails, Leave, toOpen, cl, pr
  <1>8. ASSUME NEW c \in Callers, ProbeSucceeds(c)
        PROVE  IndInv'
    <2>1. cl' = cl /\ pr' = pr - 1
      BY <1>8, LeaveFn DEF ProbeSucceeds, Leave, cl, pr
    <2>2. CASE successes + 1 >= halfOpenRequests
      BY <1>0, <1>8, <2>1, <2>2 DEF ProbeSucceeds, Leave, toClosed, cl, pr
    <2>3. CASE ~(successes + 1 >= halfOpenRequests)
      BY <1>0, <1>8, <2>1, <2>3 DEF ProbeSucceeds, Leave, cl, pr
    <2> QED BY <2>2, <2>3
  <1>9. ASSUME NEW c \in Callers, Panics(c)
        PROVE  IndInv'
    <2>1. \/ cl' = cl - 1 /\ pr' = pr
          \/ cl' = cl /\ pr' = pr - 1
      <3>1. pc[c] = "closed" \/ pc[c] = "probe"
        BY <1>9 DEF Panics
      <3> QED BY <1>9, <3>1, LeaveFn DEF Panics, Leave, cl, pr
    <2> QED BY <1>0, <1>9, <2>1 DEF Panics, Leave, cl, pr
  <1>10. CASE State
    <2>1. cl' = cl /\ pr' = pr
      BY <1>10, StayFn DEF State, cl, pr
    <2> QED BY <1>0, <1>10, <2>1 DEF State, toHalfOpen, TimeoutElapsed, cl, pr
  <1>11. CASE Reset
    <2>1. cl' = cl /\ pr' = pr
      BY <1>11, StayFn DEF Reset, cl, pr
    <2> QED BY <1>0, <1>11, <2>1 DEF Reset, toClosed, cl, pr
  <1>12. CASE Tick
    <2>1. cl' = cl /\ pr' = pr
      BY <1>12, StayFn DEF Tick, cl, pr
    <2> QED BY <1>0, <1>12, <2>1 DEF Tick, cl, pr
  <1>13. CASE Heal
    <2>1. cl' = cl /\ pr' = pr
      BY <1>13, StayFn DEF Heal, cl, pr
    <2> QED BY <1>0, <1>13, <2>1 DEF Heal, cl, pr
  <1>14. ASSUME NEW c \in Callers, Begin(c) \/ End(c)
         PROVE  IndInv'
    BY <1>1, <1>2, <1>3, <1>4, <1>5, <1>6, <1>7, <1>8, <1>9, <1>14
       DEF Begin, End, ExecuteReject
  <1> QED BY <1>4, <1>10, <1>11, <1>12, <1>13, <1>14 DEF Next

\* The invariant holds in every reachable state, whatever the configuration,
\* the number of callers and the order in which their calls of fn return.
THEOREM Invariance == Spec => []IndInv
  <1>1. Init => IndInv
    BY InitInv
  <1>2. IndInv /\ [Next]_vars => IndInv'
    BY NextInv
  <1> QED BY <1>1, <1>2, PTL DEF Spec

\* Execute, State and Reset keep every variable in its type; in particular
\* the budget of probes never becomes negative.
THEOREM TypeCorrect == Spec => []TypeOK
  <1>1. IndInv => TypeOK
    BY DEF IndInv
  <1> QED BY <1>1, Invariance, PTL

\* A closed breaker has counted fewer failures than the threshold.
THEOREM OpensInTime == Spec => []ClosedBelowThreshold
  <1>1. IndInv => ClosedBelowThreshold
    BY DEF IndInv
  <1> QED BY <1>1, Invariance, PTL

\* Failures that arrive late exceed the threshold by a bounded number.
THEOREM LateFailuresBounded == Spec => []FailuresBounded
  <1>1. IndInv => FailuresBounded
    BY DEF IndInv
  <1> QED BY <1>1, Invariance, PTL

\* If no fn panics, a half-open breaker can always still be closed by its
\* probes.
THEOREM NoDeadEnd == Spec => []HalfOpenNotStuck
  <1>1. IndInv => HalfOpenNotStuck
    BY DEF IndInv
  <1> QED BY <1>1, Invariance, PTL

(***************************************************************************)
(* Action properties                                                       *)
(***************************************************************************)
\* A step out of Open: the first probe or State() after Timeout, Reset, or
\* a probe of an earlier period whose fn returned late.
LEMMA LeavesOpen ==
  ASSUME IndInv, [Next]_vars, state = "Open", state' # "Open"
  PROVE  elapsed >= Timeout \/ Reset \/ \E c \in Callers : ProbeSucceeds(c)
  <1>1. ASSUME NEW c \in Callers, Begin(c)
        PROVE  elapsed >= Timeout
    BY <1>1 DEF Begin, ExecuteClosed, ExecuteProbe, ExecuteFirstProbe, ExecuteReject,
                TimeoutElapsed, vars
  <1>2. ASSUME NEW c \in Callers, End(c)
        PROVE  ProbeSucceeds(c)
    BY <1>2 DEF End, ClosedFails, ClosedSucceeds, ProbeFails, Panics, toOpen
  <1> QED BY <1>1, <1>2 DEF Next, State, TimeoutElapsed, Tick, Heal, vars

\* What ends an Open period.
OpenUntil ==
  [][state = "Open" /\ state' # "Open" =>
       elapsed >= Timeout \/ Reset \/ \E c \in Callers : ProbeSucceeds(c)]_vars

\* An open breaker stays open for Timeout unless it is reset or a probe of an
\* earlier half-open period returns late: nothing else lets calls through.
THEOREM StaysOpen == Spec => OpenUntil
  <1>1. IndInv /\ [Next]_vars =>
          [state = "Open" /\ state' # "Open" =>
             elapsed >= Timeout \/ Reset \/ \E c \in Callers : ProbeSucceeds(c)]_vars
    BY LeavesOpen
  <1> QED BY <1>1, Invariance, PTL DEF Spec, OpenUntil

(***************************************************************************)
(* One goroutine at a time                                                 *)
(***************************************************************************)
\* Calls of Execute do not overlap, and nobody resets the breaker.
Sequential == (\A c, d \in Callers : c = d) /\ ~MayReset

\* Nothing moves the breaker while a lone caller is in fn: it returns to the
\* state that let it through.
SeesOwnState ==
  \A c \in Callers : /\ pc[c] = "closed" => state = "Closed"
                     /\ pc[c] = "probe"  => state = "HalfOpen"

SeqInv == IndInv /\ SeesOwnState

\* A lone caller keeps the breaker in the state it was let through in.
LEMMA SequentialInv ==
  ASSUME Sequential, SeqInv, [Next]_vars
  PROVE  SeqInv'
  <1>1. IndInv'
    BY NextInv DEF SeqInv
  <1> USE DEF SeqInv, SeesOwnState, IndInv, TypeOK, Sequential
  <1>2. ASSUME NEW c \in Callers, Begin(c)
        PROVE  SeesOwnState'
    BY <1>2 DEF Begin, ExecuteClosed, ExecuteProbe, ExecuteFirstProbe, ExecuteReject, vars
  <1>3. ASSUME NEW c \in Callers, End(c)
        PROVE  SeesOwnState'
    <2>1. \A d \in Callers : d = c
      OBVIOUS
    <2>2. pc'[c] = "idle"
      BY <1>3 DEF End, ClosedFails, ClosedSucceeds, ProbeFails, ProbeSucceeds, Panics, Leave
    <2> QED BY <2>1, <2>2
  <1>4. ASSUME State
        PROVE  SeesOwnState'
    <2>1. \A c \in Callers : pc'[c] = "idle"
      BY <1>4 DEF State, TimeoutElapsed
    <2> QED BY <2>1
  <1>5. ASSUME Tick \/ Heal \/ UNCHANGED vars
        PROVE  SeesOwnState'
    BY <1>5 DEF Tick, Heal, vars
  <1> QED BY <1>1, <1>2, <1>3, <1>4, <1>5 DEF Next, Reset

\* Every step of a breaker used by one goroutine at a time is a step of the
\* life cycle, or none.
LEMMA SequentialStep ==
  ASSUME Sequential, SeqInv, [Next]_vars
  PROVE  [LifeCycle!Next]_(LifeCycle!vars)
  <1> USE ConfigType, BreakerAssumption
      DEF SeqInv, SeesOwnState, IndInv, TypeOK, ClosedBelowThreshold, ProbeBudget
  <1>1. ASSUME NEW c \in Callers, Begin(c)
        PROVE  LifeCycle!TimeoutElapses \/ UNCHANGED LifeCycle!vars
    BY <1>1 DEF Begin, ExecuteClosed, ExecuteProbe, ExecuteFirstProbe, ExecuteReject,
                TimeoutElapsed, vars, LifeCycle!TimeoutElapses, LifeCycle!vars
  <1>2. ASSUME NEW c \in Callers, ClosedFails(c)
        PROVE  LifeCycle!CallFails
    <2>1. state = "Closed" /\ failures < Threshold /\ failures' = failures + 1
      BY <1>2 DEF ClosedFails
    <2>2. CASE failures' >= MaxFailures
      <3>1. failures + 1 = Threshold
        BY <2>1, <2>2 DEF Threshold
      <3> QED BY <1>2, <2>1, <2>2, <3>1 DEF ClosedFails, toOpen, LifeCycle!CallFails, LifeCycle!Open
    <2>3. CASE ~(failures' >= MaxFailures)
      <3>1. failures + 1 < Threshold
        BY <2>1, <2>3 DEF Threshold
      <3> QED BY <1>2, <2>1, <2>3, <3>1 DEF ClosedFails, LifeCycle!CallFails
    <2> QED BY <2>2, <2>3
  <1>3. ASSUME NEW c \in Callers, ClosedSucceeds(c)
        PROVE  LifeCycle!CallSucceeds
    BY <1>3 DEF ClosedSucceeds, LifeCycle!CallSucceeds, LifeCycle!Closed
  <1>4. ASSUME NEW c \in Callers, ProbeFails(c)
        PROVE  LifeCycle!ProbeFails
    BY <1>4 DEF ProbeFails, toOpen, LifeCycle!ProbeFails, LifeCycle!Open
  <1>5. ASSUME NEW c \in Callers, ProbeSucceeds(c)
        PROVE  LifeCycle!ProbeSucceeds
    <2>1. state = "HalfOpen" /\ successes < halfOpenRequests
      BY <1>5 DEF ProbeSucceeds
    <2>2. CASE successes + 1 >= halfOpenRequests
      BY <1>5, <2>1, <2>2 DEF ProbeSucceeds, toClosed, LifeCycle!ProbeSucceeds, LifeCycle!Closed
    <2>3. CASE ~(successes + 1 >= halfOpenRequests)
      BY <1>5, <2>1, <2>3 DEF ProbeSucceeds, LifeCycle!ProbeSucceeds
    <2> QED BY <2>2, <2>3
  <1>6. ASSUME State
        PROVE  LifeCycle!TimeoutElapses
    BY <1>6 DEF State, TimeoutElapsed, toHalfOpen, LifeCycle!TimeoutElapses
  <1>7. ASSUME (\E c \in Callers : Panics(c)) \/ Tick \/ Heal \/ UNCHANGED vars
        PROVE  UNCHANGED LifeCycle!vars
    BY <1>7 DEF Panics, Tick, Heal, vars, LifeCycle!vars
  <1> QED BY <1>1, <1>2, <1>3, <1>4, <1>5, <1>6, <1>7
          DEF Next, End, Reset, Sequential, LifeCycle!Next

\* Used by one goroutine at a time and never reset, the breaker implements
\* the documented life cycle, for any configuration and with panics.
THEOREM Refinement ==
  ASSUME Sequential
  PROVE  Spec => FollowsLifeCycle
  <1>1. Init => SeqInv
    BY InitInv DEF Init, SeqInv, SeesOwnState
  <1>2. SeqInv /\ [Next]_vars => SeqInv'
    BY SequentialInv
  <1>3. Init => LifeCycle!Init
    BY DEF Init, LifeCycle!Init
  <1>4. SeqInv /\ [Next]_vars => [LifeCycle!Next]_(LifeCycle!vars)
    BY SequentialStep
  <1> QED BY <1>1, <1>2, <1>3, <1>4, PTL DEF Spec, FollowsLifeCycle, LifeCycle!Spec
=============================================================================
