------------------------- MODULE RetryBulkhead_proof -------------------------
(***************************************************************************)
(* Proofs about the bulkhead, and about clients that retry calls of one,   *)
(* for any number of goroutines, permits, attempts and nested calls.       *)
(***************************************************************************)
EXTENDS RetryBulkhead, FiniteSetTheorems, TLAPS

\* New never makes a bulkhead without permits.
LEMMA MaxType == maxConcurrent \in Nat /\ maxConcurrent > 0
  BY BulkheadAssumption DEF maxConcurrent

\* The calls under way are finitely many.
LEMMA InsideFinite == IsFiniteSet(Inside) /\ Cardinality(Inside) \in Nat
<1>1. IsFiniteSet(1 .. MaxDepth)
  BY BulkheadAssumption, FS_Interval
<1>2. IsFiniteSet(Callers \X (1 .. MaxDepth))
  BY <1>1, BulkheadAssumption, FS_Product
<1>3. Inside \subseteq Callers \X (1 .. MaxDepth)
  BY DEF Inside
<1> QED BY <1>2, <1>3, FS_Subset, FS_CardinalityType

\* A goroutine that receives a permit begins one more call of fn.
LEMMA Enter ==
  ASSUME TypeOK, NEW c \in Callers, depth[c] < MaxDepth,
         depth' = [depth EXCEPT ![c] = @ + 1]
  PROVE  Cardinality(Inside') = Cardinality(Inside) + 1
<1> DEFINE e == <<c, depth[c] + 1>>
<1>1. Inside' = Inside \cup {e}
  BY BulkheadAssumption DEF Inside, TypeOK
<1>2. e \notin Inside
  BY DEF Inside, TypeOK
<1> HIDE DEF e
<1> QED BY <1>1, <1>2, InsideFinite, FS_AddElement

\* One that sends it back ends one.
LEMMA Leave ==
  ASSUME TypeOK, NEW c \in Callers, depth[c] > 0,
         depth' = [depth EXCEPT ![c] = @ - 1]
  PROVE  Cardinality(Inside') = Cardinality(Inside) - 1
<1> DEFINE e == <<c, depth[c]>>
<1>1. Inside' = Inside \ {e}
  BY BulkheadAssumption DEF Inside, TypeOK
<1>2. e \in Inside
  BY DEF Inside, TypeOK
<1> HIDE DEF e
<1> QED BY <1>1, <1>2, InsideFinite, FS_RemoveElement

\* No call under way means no permit is missing.
LEMMA Start == Init => Cardinality(Inside) = 0
<1> SUFFICES ASSUME Init PROVE Cardinality(Inside) = 0
  OBVIOUS
<1>1. Inside = {}
  BY BulkheadAssumption DEF Init, Inside
<1> QED BY <1>1, FS_EmptySet

\* Every step of Execute preserves the invariant: permits are received and
\* sent back one by one, by those who hold them.
THEOREM Invariance == Spec => []IndInv
<1> USE MaxType
<1>1. Init => IndInv
  <2> SUFFICES ASSUME Init PROVE IndInv
    OBVIOUS
  <2>1. Cardinality(Inside) = 0
    BY Start
  <2>2. TypeOK
    BY BulkheadAssumption DEF Init, TypeOK, prefilled
  <2>3. PermitsConserved
    BY <2>1 DEF Init, PermitsConserved, prefilled
  <2> QED BY <2>2, <2>3 DEF Init, IndInv
<1>2. IndInv /\ [Next]_vars => IndInv'
  <2> SUFFICES ASSUME IndInv, [Next]_vars PROVE IndInv'
    OBVIOUS
  <2> USE DEF IndInv, TypeOK
  <2>1. ASSUME NEW c \in Callers, SelectPermit(c) PROVE IndInv'
    <3>1. depth[c] < MaxDepth /\ Cardinality(Inside') = Cardinality(Inside) + 1
      BY <2>1, Enter DEF SelectPermit
    <3>2. TypeOK'
      BY <2>1, <3>1, BulkheadAssumption DEF SelectPermit
    <3>3. PermitsConserved'
      BY <2>1, <3>1, InsideFinite DEF SelectPermit, PermitsConserved, maxConcurrent
    <3> QED BY <2>1, <3>2, <3>3 DEF SelectPermit
  <2>2. ASSUME NEW c \in Callers, PutBack(c) PROVE IndInv'
    <3>1. depth[c] > 0 /\ Cardinality(Inside') = Cardinality(Inside) - 1
      BY <2>2, Leave DEF PutBack
    <3>2. TypeOK'
      BY <2>2, <3>1, BulkheadAssumption DEF PutBack
    <3>3. PermitsConserved'
      BY <2>2, <3>1, InsideFinite DEF PutBack, PermitsConserved, maxConcurrent
    <3> QED BY <2>2, <3>1, <3>2, <3>3, BulkheadAssumption DEF PutBack
  <2>3. ASSUME NEW c \in Callers,
               Execute(c) \/ SelectDone(c) \/ SelectTimeout(c) \/ FnEnds(c)
        PROVE  IndInv'
    <3>1. UNCHANGED <<permits, depth>>
      BY <2>3 DEF Execute, SelectDone, SelectTimeout, FnEnds
    <3>2. PermitsConserved'
      BY <3>1 DEF PermitsConserved, Inside, maxConcurrent
    <3> QED BY <2>3, <3>1, <3>2 DEF Execute, SelectDone, SelectTimeout, FnEnds
  <2>4. CASE UNCHANGED vars
    BY <2>4 DEF vars, PermitsConserved, Inside, maxConcurrent
  <2> QED BY <2>1, <2>2, <2>3, <2>4 DEF Next
<1> QED BY <1>1, <1>2, PTL DEF Spec

\* The state of Bulkhead has its type: the channel never overflows.
THEOREM TypeCorrect == Spec => []TypeOK
  BY Invariance, PTL DEF IndInv

\* No permit is lost or made: at most maxConcurrent calls of fn run at once.
THEOREM Conserved == Spec => []PermitsConserved
  BY Invariance, PTL DEF IndInv

\* The deferred send of Execute never blocks.
THEOREM PutBackSafe == Spec => []PutBackNeverBlocks
<1>1. IndInv => PutBackNeverBlocks
  <2> SUFFICES ASSUME IndInv, NEW c \in Callers, phase[c] = "deferred"
               PROVE  depth[c] > 0 /\ permits < maxConcurrent
    BY DEF PutBackNeverBlocks
  <2>1. depth[c] \in 1 .. MaxDepth
    BY BulkheadAssumption DEF IndInv, TypeOK
  <2>2. <<c, 1>> \in Inside
    BY <2>1, BulkheadAssumption DEF Inside
  <2>3. Cardinality(Inside) > 0
    BY <2>2, InsideFinite, FS_EmptySet
  <2> QED BY <2>1, <2>3, MaxType, InsideFinite DEF IndInv, TypeOK, PermitsConserved
<1> QED BY <1>1, Invariance, PTL

\* Every step of the clients is a step of the bulkhead, or leaves it alone.
LEMMA StepOfBulkhead ==
  ASSUME [RBNext]_rvars
  PROVE  [Next]_vars
  <1>1. CASE UNCHANGED rvars
    BY <1>1 DEF rvars
  <1>2. ASSUME NEW c \in Callers,
               \/ DoCalls(c) \/ Retries(c) \/ Nests(c) \/ TimesOut(c) \/ Cancelled(c)
               \/ Finishes(c) \/ Inner(c)
        PROVE  Next
    BY <1>2 DEF DoCalls, Retries, Nests, TimesOut, Cancelled, GivesUp, Finishes, Inner, Next
  <1>3. ASSUME NEW c \in Callers, Outer(c)
        PROVE  UNCHANGED vars
    BY <1>3 DEF Outer
  <1> QED BY <1>1, <1>2, <1>3 DEF RBNext

\* Retrying clients use the bulkhead as any others.
THEOREM RetryUsesBulkhead == RBSpec => Spec
  <1>1. RBInit => Init
    BY DEF RBInit
  <1>2. [RBNext]_rvars => [Next]_vars
    BY StepOfBulkhead
  <1> QED BY <1>1, <1>2, PTL DEF RBSpec, Spec

\* However often calls of Execute are retried, nested, cancelled or time out,
\* no permit is lost or made.
THEOREM RetryConserves == RBSpec => []PermitsConserved
  BY Conserved, RetryUsesBulkhead, PTL

(***************************************************************************)
(* The loop of Do                                                          *)
(***************************************************************************)
LEMMA MaxAttemptsType == maxAttempts \in Nat /\ maxAttempts > 0
  BY RetryAssumption DEF maxAttempts

\* A Do that is under way has returned nothing, and the parts of the loop
\* agree on where it is.
LoopInv ==
  /\ loop \in [Clients -> {"idle", "fn", "delay"}]
  /\ attempt \in [Clients -> Nat]
  /\ lastErr \in [Clients -> {"nil", "transient", "permanent"}]
  /\ returned \in [Clients -> {"nothing", "nil", "transient", "permanent", "ctx", "panic"}]
  /\ expired \subseteq Clients
  /\ \A c \in Clients : loop[c] # "idle" => returned[c] = "nothing"
  /\ GivesUpRightly

\* At first no Do is under way.
LEMMA LoopInit ==
  ASSUME RetryInit
  PROVE  LoopInv
  BY MaxAttemptsType DEF RetryInit, LoopInv, GivesUpRightly

\* Each step of the loop keeps it.
LEMMA LoopStep ==
  ASSUME LoopInv, NEW c \in Clients,
         \/ DoBegins(c) \/ FnSucceeds(c) \/ FnPanics(c)
         \/ \E err \in {"transient", "permanent"} : FnFailsFinally(c, err) \/ FnFails(c, err)
         \/ DelayOver(c) \/ DelayCancelled(c) \/ CtxExpires(c)
  PROVE  LoopInv'
  <1> USE MaxAttemptsType DEF LoopInv, GivesUpRightly, At, Returns
  <1>1. CASE DoBegins(c)
    BY <1>1 DEF DoBegins
  <1>2. CASE FnSucceeds(c)
    BY <1>2 DEF FnSucceeds
  <1>3. CASE FnPanics(c)
    BY <1>3 DEF FnPanics
  <1>4. ASSUME NEW err \in {"transient", "permanent"}, FnFailsFinally(c, err)
        PROVE  LoopInv'
    BY <1>4 DEF FnFailsFinally, Exhausted
  <1>5. ASSUME NEW err \in {"transient", "permanent"}, FnFails(c, err)
        PROVE  LoopInv'
    BY <1>5 DEF FnFails, Exhausted
  <1>6. CASE DelayOver(c)
    BY <1>6 DEF DelayOver
  <1>7. CASE DelayCancelled(c)
    BY <1>7 DEF DelayCancelled
  <1>8. CASE CtxExpires(c)
    BY <1>8 DEF CtxExpires
  <1> QED BY <1>1, <1>2, <1>3, <1>4, <1>5, <1>6, <1>7, <1>8

\* Do returns an error of fn only after the last attempt or an error that is
\* not retryable, and ctx.Err() only when the context is done and an attempt
\* was left.
THEOREM GivesUpOnlyRightly == RBSpec => []GivesUpRightly
  <1>1. RBInit => LoopInv
    BY LoopInit DEF RBInit
  <1>2. LoopInv /\ [RBNext]_rvars => LoopInv'
    <2> SUFFICES ASSUME LoopInv, [RBNext]_rvars
                 PROVE  LoopInv'
      OBVIOUS
    <2>1. CASE UNCHANGED retry
      BY <2>1 DEF retry, LoopInv, GivesUpRightly
    <2>2. CASE UNCHANGED rvars
      BY <2>1, <2>2 DEF rvars
    <2>3. ASSUME NEW c \in Callers,
                 \/ DoCalls(c) \/ Retries(c) \/ Nests(c) \/ TimesOut(c) \/ Cancelled(c)
                 \/ Finishes(c) \/ Inner(c) \/ Outer(c)
          PROVE  LoopInv'
      <3>1. c \in Clients
        BY RetryBulkheadAssumption
      <3>2. CASE Fails(c)
        BY <3>1, <3>2, LoopStep DEF Fails
      <3>3. CASE \/ DoBegins(c) \/ FnSucceeds(c) \/ FnPanics(c)
                 \/ FnFailsFinally(c, "permanent")
                 \/ DelayOver(c) \/ DelayCancelled(c) \/ CtxExpires(c)
        BY <3>1, <3>3, LoopStep
      <3> QED BY <2>1, <2>3, <3>2, <3>3
              DEF DoCalls, Retries, Nests, TimesOut, Cancelled, GivesUp, Finishes, Inner, Outer
    <2> QED BY <2>2, <2>3 DEF RBNext
  <1>3. LoopInv => GivesUpRightly
    BY DEF LoopInv
  <1> QED BY <1>1, <1>2, <1>3, PTL DEF RBSpec
=============================================================================
