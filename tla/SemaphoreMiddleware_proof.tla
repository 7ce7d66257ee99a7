--------------------- MODULE SemaphoreMiddleware_proof ---------------------
(***************************************************************************)
(* Proofs about the semaphore, and about the middleware and the callers it *)
(* shares it with, for any number of both, any maximum and any weights.    *)
(***************************************************************************)
EXTENDS SemaphoreMiddleware, FiniteSetTheorems, SequenceTheorems, TLAPS

(***************************************************************************)
(* Removing one element of a sequence, as both Acquire (cancelled) and     *)
(* notifyWaiters do with append(s[:i], s[i+1:]...).                        *)
(***************************************************************************)
\* RemoveAt drops exactly position i and shifts the rest by one.
LEMMA RemoveAtFacts ==
  ASSUME NEW S, NEW s \in Seq(S), NEW i \in 1..Len(s)
  PROVE  /\ RemoveAt(s, i) \in Seq(S)
         /\ Len(RemoveAt(s, i)) = Len(s) - 1
         /\ \A j \in 1..(Len(s) - 1) :
              RemoveAt(s, i)[j] = IF j < i THEN s[j] ELSE s[j + 1]
  <1> DEFINE a == SubSeq(s, 1, i - 1)
             b == SubSeq(s, i + 1, Len(s))
  <1>1. /\ a \in Seq(S)
        /\ Len(a) = i - 1
        /\ \A j \in 1..(i - 1) : a[j] = s[j]
    <2>1. \A j \in 1..(i - 1) : s[j] \in S
      OBVIOUS
    <2> QED BY <2>1, SubSeqProperties
  <1>2. /\ b \in Seq(S)
        /\ Len(b) = Len(s) - i
        /\ \A j \in 1..(Len(s) - i) : b[j] = s[i + j]
    <2>1. \A j \in (i + 1)..Len(s) : s[j] \in S
      OBVIOUS
    <2>2. /\ b \in Seq(S)
          /\ Len(b) = IF i + 1 <= Len(s) THEN Len(s) - (i + 1) + 1 ELSE 0
          /\ \A j \in 1..(Len(s) - (i + 1) + 1) : b[j] = s[(i + 1) + j - 1]
      BY <2>1, SubSeqProperties
    <2> HIDE DEF b
    <2> QED BY <2>2
  <1> HIDE DEF a, b
  <1>3. /\ a \o b \in Seq(S)
        /\ Len(a \o b) = Len(a) + Len(b)
        /\ \A j \in 1..(Len(a) + Len(b)) :
             (a \o b)[j] = IF j <= Len(a) THEN a[j] ELSE b[j - Len(a)]
    BY <1>1, <1>2, ConcatProperties
  <1>4. RemoveAt(s, i) = a \o b
    BY DEF RemoveAt, a, b
  <1>5. Len(a \o b) = Len(s) - 1
    BY <1>1, <1>2, <1>3
  <1>6. ASSUME NEW j \in 1..(Len(s) - 1)
        PROVE  (a \o b)[j] = IF j < i THEN s[j] ELSE s[j + 1]
    <2>1. CASE j < i
      BY <1>1, <1>2, <1>3, <2>1
    <2>2. CASE j >= i
      <3>1. (a \o b)[j] = b[j - (i - 1)]
        BY <1>1, <1>2, <1>3, <2>2
      <3>2. b[j - (i - 1)] = s[i + (j - (i - 1))]
        BY <1>2, <2>2
      <3> QED BY <3>1, <3>2, <2>2
    <2>3. j \in Int /\ i \in Int
      OBVIOUS
    <2>4. j < i \/ j >= i
      BY <2>3
    <2> QED BY <2>1, <2>2, <2>4
  <1> QED BY <1>3, <1>4, <1>5, <1>6

\* The elements of s with one position removed, when s repeats none.
LEMMA RemoveAtSet ==
  ASSUME NEW S, NEW s \in Seq(S), NEW i \in 1..Len(s),
         \A j, k \in 1..Len(s) : s[j] = s[k] => j = k
  PROVE  /\ ToSet(RemoveAt(s, i)) = ToSet(s) \ {s[i]}
         /\ \A j, k \in 1..(Len(s) - 1) :
              RemoveAt(s, i)[j] = RemoveAt(s, i)[k] => j = k
  <1> DEFINE r == RemoveAt(s, i)
  <1>1. /\ r \in Seq(S)
        /\ Len(r) = Len(s) - 1
        /\ \A j \in 1..(Len(s) - 1) : r[j] = IF j < i THEN s[j] ELSE s[j + 1]
    BY RemoveAtFacts
  <1> HIDE DEF r
  <1>2. ASSUME NEW j \in 1..Len(s), j # i
        PROVE  \E k \in 1..Len(r) : r[k] = s[j]
    <2>1. CASE j < i
      BY <2>1, <1>1
    <2>2. CASE j > i
      <3>1. /\ j - 1 \in 1..Len(r)
            /\ r[j - 1] = s[j]
        BY <2>2, <1>1
      <3> QED BY <3>1
    <2> QED BY <1>2, <2>1, <2>2
  <1>3. ASSUME NEW j \in 1..Len(r)
        PROVE  \E k \in 1..Len(s) : k # i /\ r[j] = s[k]
    BY <1>1
  <1>4. DOMAIN r = 1..Len(r) /\ DOMAIN s = 1..Len(s)
    BY <1>1
  <1>5. ToSet(r) = ToSet(s) \ {s[i]}
    <2>1. ASSUME NEW x PROVE x \in ToSet(r) <=> \E k \in 1..Len(r) : r[k] = x
      BY <1>4, Zenon DEF ToSet
    <2>2. ASSUME NEW x PROVE x \in ToSet(s) <=> \E k \in 1..Len(s) : s[k] = x
      BY <1>4, Zenon DEF ToSet
    <2>3. ASSUME NEW x \in ToSet(r) PROVE x \in ToSet(s) /\ x # s[i]
      BY <2>1, <2>2, <1>3
    <2>4. ASSUME NEW x \in ToSet(s), x # s[i] PROVE x \in ToSet(r)
      <3>1. PICK j \in 1..Len(s) : s[j] = x
        BY <2>2, <2>4
      <3> QED BY <3>1, <2>4, <1>2, <2>1
    <2> QED BY <2>3, <2>4
  <1>6. ASSUME NEW j \in 1..(Len(s) - 1), NEW k \in 1..(Len(s) - 1), r[j] = r[k]
        PROVE  j = k
    BY <1>1, <1>6
  <1> QED BY <1>5, <1>6 DEF r

(***************************************************************************)
(* Weights as sets of units.                                               *)
(***************************************************************************)
\* The number of units of one caller between two weights.
LEMMA UnitColumn ==
  ASSUME NEW c, NEW a \in Nat, NEW b \in Nat, a <= b
  PROVE  /\ IsFiniteSet({c} \X ((a + 1)..b))
         /\ Cardinality({c} \X ((a + 1)..b)) = b - a
  <1>1. IsFiniteSet({c}) /\ Cardinality({c}) = 1
    BY FS_Singleton
  <1>2. IsFiniteSet((a + 1)..b) /\ Cardinality((a + 1)..b) = b - a
    <2>1. a + 1 \in Int /\ b \in Int
      OBVIOUS
    <2>2. /\ IsFiniteSet((a + 1)..b)
          /\ Cardinality((a + 1)..b) = IF a + 1 > b THEN 0 ELSE b - (a + 1) + 1
      BY <2>1, FS_Interval
    <2> QED BY <2>2
  <1>3. /\ IsFiniteSet({c} \X ((a + 1)..b))
        /\ Cardinality({c} \X ((a + 1)..b)) = 1 * Cardinality((a + 1)..b)
    BY <1>1, <1>2, FS_Product
  <1> QED BY <1>2, <1>3

\* New makes the maximum positive.
LEMMA MaxWeightType == maxWeight \in Nat /\ maxWeight > 0
  BY WeightAssumption DEF maxWeight

\* There are finitely many units.
LEMMA UnitsFinite ==
  ASSUME NEW f \in [Callers -> 0..maxWeight]
  PROVE  IsFiniteSet(UnitsOf(f)) /\ Cardinality(UnitsOf(f)) \in Nat
  <1>1. IsFiniteSet(1..maxWeight)
    BY MaxWeightType, FS_Interval
  <1>2. IsFiniteSet(Callers \X (1..maxWeight))
    BY <1>1, CallersAssumption, FS_Product
  <1>3. UnitsOf(f) \in SUBSET (Callers \X (1..maxWeight))
    BY DEF UnitsOf
  <1> QED BY <1>2, <1>3, FS_Subset, FS_CardinalityType

\* Raising one caller's weight from a to b adds b - a units.
LEMMA UnitsGrow ==
  ASSUME NEW f \in [Callers -> 0..maxWeight], NEW c \in Callers,
         NEW b \in 0..maxWeight, f[c] <= b
  PROVE  Cardinality(UnitsOf([f EXCEPT ![c] = b]))
           = Cardinality(UnitsOf(f)) + (b - f[c])
  <1> DEFINE g == [f EXCEPT ![c] = b]
             col == {c} \X ((f[c] + 1)..b)
  <1>1. f[c] \in Nat /\ b \in Nat
    BY MaxWeightType
  <1>2. IsFiniteSet(col) /\ Cardinality(col) = b - f[c]
    BY <1>1, UnitColumn
  <1>3. UnitsOf(g) = UnitsOf(f) \cup col
    <2>1. ASSUME NEW d \in Callers, NEW n \in 1..maxWeight
          PROVE  n <= g[d] <=> (n <= f[d] \/ (d = c /\ n \in (f[c] + 1)..b))
      BY MaxWeightType, <1>1
    <2>2. \A u \in col : u \in Callers \X (1..maxWeight)
      BY <1>1, MaxWeightType
    <2> HIDE DEF g
    <2> QED BY <2>1, <2>2 DEF UnitsOf
  <1>4. UnitsOf(f) \cap col = {}
    BY <1>1, MaxWeightType DEF UnitsOf
  <1>5. IsFiniteSet(UnitsOf(f)) /\ Cardinality(UnitsOf(f)) \in Nat
    BY UnitsFinite
  <1>6. Cardinality(UnitsOf(f) \cup col)
          = Cardinality(UnitsOf(f)) + Cardinality(col) - Cardinality(UnitsOf(f) \cap col)
    BY <1>2, <1>5, FS_Union
  <1>7. Cardinality(UnitsOf(f) \cap col) = 0
    BY <1>4, FS_EmptySet
  <1> HIDE DEF g, col
  <1>8. Cardinality(UnitsOf(g)) = Cardinality(UnitsOf(f)) + (b - f[c])
    BY <1>1, <1>2, <1>3, <1>5, <1>6, <1>7
  <1> QED BY <1>8 DEF g

\* Lowering one caller's weight from a to b removes a - b units.
LEMMA UnitsShrink ==
  ASSUME NEW f \in [Callers -> 0..maxWeight], NEW c \in Callers,
         NEW b \in 0..maxWeight, b <= f[c]
  PROVE  Cardinality(UnitsOf([f EXCEPT ![c] = b]))
           = Cardinality(UnitsOf(f)) - (f[c] - b)
  <1> DEFINE g == [f EXCEPT ![c] = b]
  <1>1. /\ g \in [Callers -> 0..maxWeight]
        /\ g[c] = b
        /\ f = [g EXCEPT ![c] = f[c]]
        /\ f[c] \in 0..maxWeight
    OBVIOUS
  <1> HIDE DEF g
  <1>2. Cardinality(UnitsOf([g EXCEPT ![c] = f[c]])) = Cardinality(UnitsOf(g)) + (f[c] - g[c])
    BY <1>1, UnitsGrow
  <1>3. Cardinality(UnitsOf(f)) \in Nat /\ Cardinality(UnitsOf(g)) \in Nat
    BY <1>1, UnitsFinite
  <1>4. Cardinality(UnitsOf(g)) = Cardinality(UnitsOf(f)) - (f[c] - b)
    <2> DEFINE n == Cardinality(UnitsOf(f))
               m == Cardinality(UnitsOf(g))
               a == f[c]
    <2>1. a \in Int /\ b \in Int /\ n \in Int /\ m \in Int
      BY <1>1, <1>3, MaxWeightType
    <2>2. n = m + (a - b)
      BY <1>1, <1>2
    <2> HIDE DEF n, m, a
    <2>3. m = n - (a - b)
      BY <2>1, <2>2
    <2> QED BY <2>3 DEF n, m, a
  <1> QED BY <1>4 DEF g

(***************************************************************************)
(* The inductive invariant.                                                *)
(***************************************************************************)
\* What the bounds need of the constants and the callers: s.current + weight
\* does not overflow int64, and nobody releases weight it does not hold.
SafeUse == 2 * maxWeight <= MaxInt /\ ~OverRelease

\* Under SafeUse no sum that the code computes overflows.
LEMMA NoWrap ==
  ASSUME SafeUse, NEW x \in -maxWeight..(2 * maxWeight)
  PROVE  Wrap(x) = x
  BY MaxWeightType, WeightAssumption DEF SafeUse, Wrap

\* Nobody owns more than the maximum.
LEMMA OwnedType ==
  ASSUME TypeOK
  PROVE  Owned \in [Callers -> 0..maxWeight]
  BY DEF TypeOK, Owned

\* s.current stays between 0 and the maximum.
LEMMA CurrentType ==
  ASSUME TypeOK, CapacityRespected
  PROVE  current \in 0..maxWeight /\ Cardinality(OwnedUnits) \in Nat
  <1>1. Cardinality(OwnedUnits) \in Nat
    BY OwnedType, UnitsFinite DEF OwnedUnits
  <1> QED BY <1>1, MaxWeightType DEF TypeOK, CapacityRespected

\* The units after a step are those of the weights after it.
LEMMA UnitsNext == OwnedUnits = UnitsOf(Owned) /\ OwnedUnits' = UnitsOf(Owned')
  BY DEF OwnedUnits, UnitsOf

\* The invariant holds of a new semaphore.
LEMMA InitInv == Init => IndInv
  <1> SUFFICES ASSUME Init PROVE IndInv
    OBVIOUS
  <1>1. TypeOK
    BY MaxWeightType DEF Init, TypeOK
  <1>2. WaitersConsistent
    BY DEF Init, WaitersConsistent, ToSet
  <1>3. LockOwner /\ WaitingWeights /\ HeadSkipped /\ NoSleepOnIdle
    BY CallersAssumption DEF Init, LockOwner, WaitingWeights, HeadSkipped, NoSleepOnIdle
  <1>4. CapacityRespected
    <2>1. \A c \in Callers : Owned[c] = 0
      BY DEF Init, Owned
    <2>2. OwnedUnits = {}
      BY <2>1, MaxWeightType DEF OwnedUnits, UnitsOf
    <2>3. Cardinality({}) = 0
      BY FS_EmptySet
    <2> QED BY <2>2, <2>3, MaxWeightType DEF Init, CapacityRespected
  <1> QED BY <1>1, <1>2, <1>3, <1>4 DEF IndInv

\* A step that only returns from a call preserves the invariant.
LEMMA ReturnInv ==
  ASSUME IndInv, UNCHANGED <<current, waiters, ready, mu, scan, pc, want, held>>,
         outcome' \in [Callers -> {"none", "ok", "err"}]
  PROVE  IndInv'
  <1> USE DEF IndInv
  <1>1. TypeOK'
    BY DEF TypeOK
  <1>2. WaitersConsistent' /\ LockOwner' /\ WaitingWeights' /\ HeadSkipped' /\ NoSleepOnIdle'
    BY DEF WaitersConsistent, LockOwner, WaitingWeights, HeadSkipped, NoSleepOnIdle
  <1>3. CapacityRespected'
    BY DEF CapacityRespected, OwnedUnits, UnitsOf, Owned
  <1> QED BY <1>1, <1>2, <1>3

\* Acquire or TryAcquire that succeeds at once takes exactly its weight.
LEMMA AcquireNowInv ==
  ASSUME IndInv, SafeUse, NEW c \in Callers, NEW w \in Int, AcquireNow(c, w)
  PROVE  IndInv' /\ current' = current + w
                 /\ Cardinality(OwnedUnits') = Cardinality(OwnedUnits) + w
  <1> USE DEF IndInv
  <1>1. /\ current \in 0..maxWeight
        /\ w \in 1..maxWeight
        /\ current' = current + w
        /\ current' <= maxWeight
    <2>1. current \in 0..maxWeight
      BY CurrentType
    <2>2. w \in 1..maxWeight /\ Wrap(current + w) <= maxWeight /\ current' = Wrap(current + w)
      BY DEF AcquireNow, Admissible, Fits
    <2>3. current + w \in -maxWeight..(2 * maxWeight)
      BY <2>1, <2>2, MaxWeightType
    <2>4. Wrap(current + w) = current + w
      BY <2>3, NoWrap
    <2> QED BY <2>1, <2>2, <2>4
  <1>2. TypeOK'
    BY <1>1, MaxWeightType DEF TypeOK, AcquireNow, Admissible
  <1>3. WaitersConsistent'
    BY DEF AcquireNow, WaitersConsistent
  <1>4. LockOwner' /\ WaitingWeights' /\ HeadSkipped' /\ NoSleepOnIdle'
    BY DEF AcquireNow, MayCall, TypeOK, LockOwner, WaitingWeights, HeadSkipped, NoSleepOnIdle
  <1>5. CapacityRespected' /\ Cardinality(OwnedUnits') = Cardinality(OwnedUnits) + w
    <2>1. Owned \in [Callers -> 0..maxWeight] /\ Owned[c] = 0
      BY OwnedType DEF Owned, AcquireNow, Admissible, MayCall
    <2>2. Owned' = [Owned EXCEPT ![c] = w]
      BY DEF Owned, AcquireNow, Admissible, MayCall, TypeOK
    <2>3. Cardinality(OwnedUnits') = Cardinality(OwnedUnits) + (w - Owned[c])
      <3>1. w \in 0..maxWeight /\ Owned[c] <= w
        BY <1>1, <2>1, MaxWeightType
      <3> QED BY <2>1, <2>2, <3>1, UnitsGrow, UnitsNext
    <2>4. Cardinality(OwnedUnits) \in Nat /\ Cardinality(OwnedUnits) <= current
      BY CurrentType DEF CapacityRespected
    <2> QED BY <1>1, <2>1, <2>3, <2>4, MaxWeightType DEF CapacityRespected
  <1> QED BY <1>1, <1>2, <1>3, <1>4, <1>5

\* A caller that goes to the end of the list owns nothing yet.
LEMMA AcquireEnqueueInv ==
  ASSUME IndInv, SafeUse, NEW c \in Callers, NEW w \in Int, AcquireEnqueue(c, w)
  PROVE  IndInv' /\ OwnedUnits' = OwnedUnits
  <1> USE DEF IndInv
  <1>1. /\ pc[c] = "idle" /\ held[c] = 0 /\ mu = Nobody
        /\ w \in 1..maxWeight
        /\ waiters' = Append(waiters, c)
        /\ want' = [want EXCEPT ![c] = w]
        /\ pc' = [pc EXCEPT ![c] = "select"]
        /\ UNCHANGED <<current, ready, mu, scan, held>>
    BY DEF AcquireEnqueue, Admissible, MayCall
  <1>2. current \in 0..maxWeight
    BY CurrentType
  <1>3. c \notin ToSet(waiters) /\ c \notin ready
    BY <1>1 DEF WaitersConsistent
  <1>4. /\ waiters \in Seq(Callers)
        /\ waiters' \in Seq(Callers)
        /\ Len(waiters') = Len(waiters) + 1
        /\ waiters'[Len(waiters) + 1] = c
        /\ \A i \in 1..Len(waiters) : waiters'[i] = waiters[i]
    BY <1>1 DEF TypeOK
  <1>5. \A i \in 1..Len(waiters) : waiters[i] \in ToSet(waiters)
    BY <1>4 DEF ToSet
  <1>6. TypeOK'
    BY <1>1, <1>4, MaxWeightType DEF TypeOK, AcquireEnqueue, Admissible
  <1>7. WaitersConsistent'
    <2>1. ToSet(waiters') = ToSet(waiters) \cup {c}
      BY <1>4 DEF ToSet
    <2>2. \A i, j \in 1..Len(waiters') : waiters'[i] = waiters'[j] => i = j
      BY <1>3, <1>4, <1>5 DEF WaitersConsistent
    <2>3. \A d \in Callers :
            /\ d \in ToSet(waiters') <=> pc'[d] \in {"select", "cancel"} /\ d \notin ready
            /\ d \in ready => pc'[d] \in {"select", "cancel"}
      BY <1>1, <1>3, <2>1 DEF WaitersConsistent, TypeOK
    <2> QED BY <1>1, <1>4, <2>2, <2>3 DEF WaitersConsistent, ToSet
  <1>8. LockOwner' /\ WaitingWeights' /\ HeadSkipped'
    BY <1>1, <1>4, CallersAssumption DEF LockOwner, WaitingWeights, HeadSkipped, TypeOK
  <1>9. NoSleepOnIdle'
    <2>1. CASE waiters = <<>>
      <3>1. Wrap(current + w) > maxWeight
        BY <2>1, <1>1, <1>2, NoWrap, MaxWeightType DEF AcquireEnqueue, Fits
      <3>2. current + w > maxWeight
        BY <3>1, <1>1, <1>2, NoWrap, MaxWeightType
      <3> QED BY <3>2, <1>1, <1>2, MaxWeightType DEF NoSleepOnIdle
    <2>2. CASE waiters # <<>>
      BY <2>2, <1>1 DEF NoSleepOnIdle
    <2> QED BY <2>1, <2>2
  <1>10. CapacityRespected' /\ OwnedUnits' = OwnedUnits
    <2>1. Owned' = Owned
      BY <1>1, <1>3 DEF Owned, TypeOK
    <2> QED BY <2>1, <1>1, UnitsNext DEF CapacityRespected
  <1> QED BY <1>6, <1>7, <1>8, <1>9, <1>10

\* A woken caller holds what it already owned.
LEMMA SelectReadyInv ==
  ASSUME IndInv, NEW c \in Callers, SelectReady(c)
  PROVE  IndInv' /\ OwnedUnits' = OwnedUnits
  <1> USE DEF IndInv
  <1>1. /\ pc[c] = "select" /\ c \in ready
        /\ ready' = ready \ {c}
        /\ held' = [held EXCEPT ![c] = want[c]]
        /\ want' = [want EXCEPT ![c] = 0]
        /\ pc' = [pc EXCEPT ![c] = "idle"]
        /\ UNCHANGED <<current, waiters, mu, scan>>
    BY DEF SelectReady
  <1>2. c \notin ToSet(waiters)
    BY <1>1 DEF WaitersConsistent
  <1>3. TypeOK'
    BY <1>1, MaxWeightType DEF TypeOK, SelectReady
  <1>4. WaitersConsistent'
    BY <1>1, <1>2 DEF WaitersConsistent, TypeOK
  <1>5. LockOwner' /\ WaitingWeights' /\ NoSleepOnIdle'
    BY <1>1 DEF LockOwner, WaitingWeights, NoSleepOnIdle, TypeOK
  <1>6. HeadSkipped'
    <2> SUFFICES ASSUME mu # Nobody, scan > 1
                 PROVE  current + want'[waiters[1]] > maxWeight
      BY <1>1 DEF HeadSkipped
    <2>1. waiters \in Seq(Callers) /\ scan \in 1..(Len(waiters) + 1)
      BY DEF TypeOK, LockOwner
    <2>2. 1 \in DOMAIN waiters /\ waiters[1] \in Callers
      BY <2>1
    <2>3. waiters[1] \in ToSet(waiters)
      BY <2>2 DEF ToSet
    <2> QED BY <1>1, <1>2, <2>2, <2>3 DEF HeadSkipped, TypeOK
  <1>7. CapacityRespected' /\ OwnedUnits' = OwnedUnits
    <2>1. Owned' = Owned
      BY <1>1 DEF Owned, TypeOK
    <2> QED BY <2>1, <1>1, UnitsNext DEF CapacityRespected
  <1> QED BY <1>3, <1>4, <1>5, <1>6, <1>7

\* A cancelled caller goes to remove itself, woken or not.
LEMMA SelectDoneInv ==
  ASSUME IndInv, NEW c \in Callers, SelectDone(c)
  PROVE  IndInv'
  <1> USE DEF IndInv
  <1>1. /\ pc[c] = "select"
        /\ pc' = [pc EXCEPT ![c] = "cancel"]
        /\ UNCHANGED <<current, waiters, ready, mu, scan, want, held, outcome>>
    BY DEF SelectDone
  <1>2. TypeOK'
    BY <1>1 DEF TypeOK
  <1>3. WaitersConsistent'
    BY <1>1 DEF WaitersConsistent, TypeOK
  <1>4. LockOwner' /\ WaitingWeights' /\ HeadSkipped' /\ NoSleepOnIdle'
    BY <1>1 DEF LockOwner, WaitingWeights, HeadSkipped, NoSleepOnIdle, TypeOK
  <1>5. CapacityRespected'
    <2>1. held[c] = 0
      BY <1>1 DEF WaitingWeights
    <2>2. Owned \in [Callers -> 0..maxWeight]
      BY OwnedType
    <2>3. Owned' = [Owned EXCEPT ![c] = 0]
      BY <1>1, <2>1 DEF Owned, TypeOK
    <2>4. 0 \in 0..maxWeight /\ Owned[c] \in 0..maxWeight
      BY <2>2, MaxWeightType
    <2>5. Cardinality(OwnedUnits') = Cardinality(OwnedUnits) - (Owned[c] - 0)
      <3>1. 0 <= Owned[c]
        BY <2>4, MaxWeightType
      <3> QED BY <2>2, <2>3, <2>4, <3>1, UnitsShrink, UnitsNext
    <2>6. Cardinality(OwnedUnits) \in Nat /\ current \in 0..maxWeight
      BY CurrentType
    <2> QED BY <1>1, <2>4, <2>5, <2>6, MaxWeightType DEF CapacityRespected
  <1> QED BY <1>2, <1>3, <1>4, <1>5

\* A cancelled caller leaves the list, if it is still there.
LEMMA RemoveWaiterInv ==
  ASSUME IndInv, NEW c \in Callers, RemoveWaiter(c)
  PROVE  IndInv'
  <1> USE DEF IndInv
  <1>1. /\ pc[c] = "cancel" /\ mu = Nobody
        /\ ready' = ready \ {c}
        /\ want' = [want EXCEPT ![c] = 0]
        /\ pc' = [pc EXCEPT ![c] = "idle"]
        /\ UNCHANGED <<current, mu, scan, held>>
    BY DEF RemoveWaiter
  <1>2. /\ waiters \in Seq(Callers)
        /\ \A i, j \in 1..Len(waiters) : waiters[i] = waiters[j] => i = j
    BY DEF TypeOK, WaitersConsistent
  <1>3. /\ waiters' \in Seq(Callers)
        /\ ToSet(waiters') = ToSet(waiters) \ {c}
        /\ \A i, j \in 1..Len(waiters') : waiters'[i] = waiters'[j] => i = j
        /\ waiters' # <<>> => waiters # <<>>
    <2>1. CASE c \notin ToSet(waiters) /\ UNCHANGED waiters
      BY <1>2, <2>1
    <2>2. ASSUME NEW i \in DOMAIN waiters, waiters[i] = c, waiters' = RemoveAt(waiters, i)
          PROVE  <1>3!1 /\ <1>3!2 /\ <1>3!3 /\ <1>3!4
      <3>1. i \in 1..Len(waiters)
        BY <1>2
      <3>2. waiters' \in Seq(Callers) /\ Len(waiters') = Len(waiters) - 1
        BY <1>2, <2>2, <3>1, RemoveAtFacts
      <3>3. /\ ToSet(waiters') = ToSet(waiters) \ {c}
            /\ \A j, k \in 1..(Len(waiters) - 1) : waiters'[j] = waiters'[k] => j = k
        BY <1>2, <2>2, <3>1, RemoveAtSet
      <3>4. waiters # <<>>
        BY <3>1, <1>2
      <3> QED BY <3>2, <3>3, <3>4
    <2> QED BY <2>1, <2>2 DEF RemoveWaiter
  <1>4. TypeOK'
    BY <1>1, <1>3, MaxWeightType DEF TypeOK, RemoveWaiter
  <1>5. WaitersConsistent'
    <2>1. \A d \in Callers :
            /\ d \in ToSet(waiters') <=> pc'[d] \in {"select", "cancel"} /\ d \notin ready'
            /\ d \in ready' => pc'[d] \in {"select", "cancel"}
      BY <1>1, <1>3 DEF WaitersConsistent, TypeOK
    <2> QED BY <1>3, <2>1 DEF WaitersConsistent, ToSet
  <1>6. LockOwner' /\ WaitingWeights' /\ HeadSkipped' /\ NoSleepOnIdle'
    BY <1>1, <1>3, CallersAssumption
       DEF LockOwner, WaitingWeights, HeadSkipped, NoSleepOnIdle, TypeOK
  <1>7. CapacityRespected'
    <2>1. Owned' = Owned
      BY <1>1 DEF Owned, TypeOK
    <2> QED BY <2>1, <1>1, UnitsNext DEF CapacityRespected
  <1> QED BY <1>4, <1>5, <1>6, <1>7

\* Release gives back exactly its weight and starts the loop.
LEMMA ReleaseInv ==
  ASSUME IndInv, SafeUse, NEW c \in Callers, NEW w \in 1..maxWeight, Release(c, w)
  PROVE  IndInv' /\ current' = current - w
                 /\ Cardinality(OwnedUnits') = Cardinality(OwnedUnits) - w
  <1> USE DEF IndInv
  <1>1. /\ pc[c] = "idle" /\ mu = Nobody
        /\ w <= held[c]
        /\ current' = Clamp(Wrap(current - w))
        /\ held' = [held EXCEPT ![c] = Clamp(@ - w)]
        /\ mu' = c /\ scan' = 1
        /\ pc' = [pc EXCEPT ![c] = "notify"]
        /\ UNCHANGED <<waiters, ready, want, outcome>>
    BY DEF Release, SafeUse
  <1>2. /\ current \in 0..maxWeight
        /\ Cardinality(OwnedUnits) \in Nat
        /\ Cardinality(OwnedUnits) <= current
    BY CurrentType DEF CapacityRespected
  <1>3. held[c] \in 0..maxWeight
    BY DEF TypeOK
  <1>4. held[c] - w \in 0..maxWeight /\ held' = [held EXCEPT ![c] = held[c] - w]
    <2>1. held[c] - w \in 0..maxWeight
      BY <1>1, <1>3, MaxWeightType
    <2>2. Clamp(held[c] - w) = held[c] - w
      BY <2>1, MaxWeightType DEF Clamp
    <2> QED BY <1>1, <2>1, <2>2
  <1>5. Wrap(current - w) = current - w
    <2>1. current - w \in -maxWeight..(2 * maxWeight)
      BY <1>2, MaxWeightType
    <2> QED BY <2>1, NoWrap
  <1>6. Cardinality(OwnedUnits') = Cardinality(OwnedUnits) - w
    <2>1. Owned \in [Callers -> 0..maxWeight] /\ Owned[c] = held[c]
      BY <1>1, OwnedType DEF Owned
    <2>2. Owned' = [Owned EXCEPT ![c] = held[c] - w]
      BY <1>1, <1>4 DEF Owned, TypeOK
    <2>3. held[c] - w <= Owned[c]
      BY <2>1, <1>3, MaxWeightType
    <2>4. Cardinality(OwnedUnits') = Cardinality(OwnedUnits) - (Owned[c] - (held[c] - w))
      BY <2>1, <2>2, <2>3, <1>4, UnitsShrink, UnitsNext
    <2>5. Owned[c] - (held[c] - w) = w
      BY <2>1, <1>3, MaxWeightType
    <2> QED BY <2>4, <2>5
  <1>7. Cardinality(OwnedUnits') \in Nat
    <2>1. Owned' \in [Callers -> 0..maxWeight]
      BY <1>1, <1>4 DEF Owned, TypeOK
    <2> QED BY <2>1, UnitsFinite, UnitsNext
  <1>8. current' = current - w /\ current' \in 0..maxWeight
    BY <1>1, <1>2, <1>5, <1>6, <1>7, MaxWeightType DEF Clamp
  <1>9. TypeOK'
    BY <1>1, <1>4, <1>8, MaxWeightType DEF TypeOK
  <1>10. WaitersConsistent'
    BY <1>1 DEF WaitersConsistent, TypeOK
  <1>11. LockOwner'
    <2>1. waiters \in Seq(Callers)
      BY DEF TypeOK
    <2> QED BY <2>1, <1>1, CallersAssumption DEF LockOwner, TypeOK
  <1>12. WaitingWeights' /\ HeadSkipped' /\ NoSleepOnIdle'
    BY <1>1, CallersAssumption DEF WaitingWeights, HeadSkipped, NoSleepOnIdle, TypeOK
  <1>13. CapacityRespected'
    BY <1>2, <1>6, <1>7, <1>8, MaxWeightType DEF CapacityRespected
  <1> QED BY <1>6, <1>8, <1>9, <1>10, <1>11, <1>12, <1>13

\* notifyWaiters counts the weight of the waiter it wakes, which from then on
\* owns it unless it has been cancelled.
LEMMA NotifyGrantInv ==
  ASSUME IndInv, SafeUse, NEW c \in Callers, NotifyGrant(c)
  PROVE  /\ IndInv'
         /\ current' = current + want[waiters[scan]]
         /\ pc[waiters[scan]] = "select" =>
              Cardinality(OwnedUnits') = Cardinality(OwnedUnits) + want[waiters[scan]]
  <1> USE DEF IndInv
  <1> DEFINE d == waiters[scan]
  <1>1. /\ pc[c] = "notify" /\ scan <= Len(waiters)
        /\ Wrap(current + want[d]) <= maxWeight
        /\ current' = Wrap(current + want[d])
        /\ ready' = ready \cup {d}
        /\ waiters' = RemoveAt(waiters, scan)
        /\ UNCHANGED <<mu, scan, pc, want, held, outcome>>
    BY DEF NotifyGrant, Fits
  <1>2. /\ waiters \in Seq(Callers)
        /\ mu = c /\ mu # Nobody
        /\ scan \in 1..Len(waiters)
        /\ \A i, j \in 1..Len(waiters) : waiters[i] = waiters[j] => i = j
    <2>1. waiters \in Seq(Callers) /\ DOMAIN waiters = 1..Len(waiters)
      BY DEF TypeOK
    <2>2. mu = c /\ mu # Nobody
      BY <1>1, CallersAssumption DEF LockOwner
    <2>3. scan \in 1..(Len(waiters) + 1)
      BY <2>2 DEF LockOwner
    <2>4. \A i, j \in DOMAIN waiters : waiters[i] = waiters[j] => i = j
      BY DEF WaitersConsistent
    <2> QED BY <1>1, <2>1, <2>2, <2>3, <2>4
  <1>3. d \in Callers /\ d \in ToSet(waiters)
    BY <1>2 DEF ToSet
  <1>4. pc[d] \in {"select", "cancel"} /\ d \notin ready /\ want[d] \in 1..maxWeight /\ held[d] = 0
    BY <1>3, MaxWeightType DEF WaitersConsistent, WaitingWeights, TypeOK
  <1> HIDE DEF d
  <1>5. /\ current \in 0..maxWeight
        /\ Cardinality(OwnedUnits) \in Nat
        /\ Cardinality(OwnedUnits) <= current
    BY CurrentType DEF CapacityRespected
  <1>6. current' = current + want[d] /\ current' \in 0..maxWeight
    <2>1. current + want[d] \in -maxWeight..(2 * maxWeight)
      BY <1>4, <1>5, MaxWeightType
    <2>2. Wrap(current + want[d]) = current + want[d]
      BY <2>1, NoWrap
    <2> QED BY <2>2, <1>1, <1>4, <1>5, MaxWeightType
  <1>7. /\ waiters' \in Seq(Callers)
        /\ Len(waiters') = Len(waiters) - 1
        /\ \A j \in 1..(Len(waiters) - 1) :
             waiters'[j] = IF j < scan THEN waiters[j] ELSE waiters[j + 1]
    BY <1>1, <1>2, RemoveAtFacts
  <1>8. /\ ToSet(waiters') = ToSet(waiters) \ {d}
        /\ \A j, k \in 1..(Len(waiters) - 1) : waiters'[j] = waiters'[k] => j = k
    BY <1>1, <1>2, RemoveAtSet DEF d
  <1>9. TypeOK'
    <2>1. current' \in Int /\ waiters' \in Seq(Callers) /\ ready' \subseteq Callers
      BY <1>1, <1>3, <1>6, <1>7, MaxWeightType DEF TypeOK
    <2> QED BY <1>1, <2>1 DEF TypeOK
  <1>10. WaitersConsistent'
    <2>1. \A e \in Callers :
            /\ e \in ToSet(waiters') <=> pc'[e] \in {"select", "cancel"} /\ e \notin ready'
            /\ e \in ready' => pc'[e] \in {"select", "cancel"}
      BY <1>1, <1>3, <1>4, <1>8 DEF WaitersConsistent
    <2> QED BY <1>7, <1>8, <2>1 DEF WaitersConsistent, ToSet
  <1>11. LockOwner' /\ WaitingWeights' /\ NoSleepOnIdle'
    BY <1>1, <1>2, <1>7 DEF LockOwner, WaitingWeights, NoSleepOnIdle
  <1>12. HeadSkipped'
    <2> SUFFICES ASSUME scan > 1 PROVE current' + want[waiters'[1]] > maxWeight
      BY <1>1 DEF HeadSkipped
    <2>1. waiters'[1] = waiters[1]
      BY <1>2, <1>7
    <2>2. current + want[waiters[1]] > maxWeight
      BY <1>2 DEF HeadSkipped
    <2>3. want[waiters[1]] \in 0..maxWeight
      BY <1>2 DEF TypeOK
    <2> QED BY <2>1, <2>2, <2>3, <1>4, <1>5, <1>6, MaxWeightType
  <1>13. /\ CapacityRespected'
         /\ pc[d] = "select" => Cardinality(OwnedUnits') = Cardinality(OwnedUnits) + want[d]
    <2>1. Owned \in [Callers -> 0..maxWeight] /\ Owned[d] = 0
      BY <1>3, <1>4, OwnedType DEF Owned
    <2>2. CASE pc[d] = "select"
      <3>1. Owned' = [Owned EXCEPT ![d] = want[d]]
        BY <1>1, <1>3, <1>4, <2>2 DEF Owned, TypeOK
      <3>2. want[d] \in 0..maxWeight /\ Owned[d] <= want[d]
        BY <1>4, <2>1, MaxWeightType
      <3>3. Cardinality(OwnedUnits') = Cardinality(OwnedUnits) + (want[d] - Owned[d])
        BY <1>3, <2>1, <3>1, <3>2, UnitsGrow, UnitsNext
      <3>4. Cardinality(OwnedUnits') = Cardinality(OwnedUnits) + want[d]
        BY <3>3, <2>1, <1>4, <1>5, MaxWeightType
      <3> QED BY <3>4, <2>2, <1>4, <1>5, <1>6, MaxWeightType DEF CapacityRespected
    <2>3. CASE pc[d] = "cancel"
      <3>1. Owned' = Owned
        BY <1>1, <1>3, <1>4, <2>3 DEF Owned, TypeOK
      <3> QED BY <3>1, <2>3, <1>4, <1>5, <1>6, MaxWeightType, UnitsNext DEF CapacityRespected
    <2> QED BY <2>2, <2>3, <1>4
  <1> QED BY <1>6, <1>9, <1>10, <1>11, <1>12, <1>13 DEF d

\* notifyWaiters passes a waiter that does not fit.
LEMMA NotifySkipInv ==
  ASSUME IndInv, SafeUse, NEW c \in Callers, NotifySkip(c)
  PROVE  IndInv' /\ OwnedUnits' = OwnedUnits
  <1> USE DEF IndInv
  <1>1. /\ pc[c] = "notify" /\ scan <= Len(waiters)
        /\ Wrap(current + want[waiters[scan]]) > maxWeight
        /\ scan' = scan + 1
        /\ UNCHANGED <<current, waiters, ready, mu, pc, want, held, outcome>>
    <2>1. ~(Wrap(current + want[waiters[scan]]) <= maxWeight)
      BY DEF NotifySkip, Fits
    <2>2. scan \in 1..(Len(waiters) + 1) /\ waiters \in Seq(Callers) /\ scan <= Len(waiters)
      BY CallersAssumption DEF NotifySkip, LockOwner, TypeOK
    <2>3. want[waiters[scan]] \in Int /\ current \in Int
      BY <2>2, MaxWeightType DEF TypeOK
    <2>4. Wrap(current + want[waiters[scan]]) \in Int
      BY <2>3, WeightAssumption DEF Wrap
    <2> QED BY <2>1, <2>4, MaxWeightType DEF NotifySkip
  <1>2. /\ waiters \in Seq(Callers) /\ mu # Nobody
        /\ scan \in 1..Len(waiters)
    BY <1>1, CallersAssumption DEF TypeOK, LockOwner
  <1>3. current \in 0..maxWeight /\ want[waiters[scan]] \in 0..maxWeight
    BY <1>2, CurrentType DEF TypeOK
  <1>4. TypeOK'
    <2>1. scan' \in Nat
      BY <1>1, <1>2
    <2>2. UNCHANGED <<current, waiters, ready, mu, pc, want, held, outcome>>
      BY <1>1
    <2> QED BY <2>1, <2>2 DEF TypeOK
  <1>5. WaitersConsistent' /\ WaitingWeights' /\ NoSleepOnIdle'
    BY <1>1 DEF WaitersConsistent, WaitingWeights, NoSleepOnIdle
  <1>6. LockOwner'
    BY <1>1, <1>2 DEF LockOwner
  <1>7. HeadSkipped'
    <2>1. CASE scan = 1
      <3>1. current + want[waiters[scan]] \in -maxWeight..(2 * maxWeight)
        BY <1>3, MaxWeightType
      <3>2. current + want[waiters[scan]] > maxWeight
        BY <3>1, <1>1, NoWrap
      <3> QED BY <3>2, <2>1, <1>1 DEF HeadSkipped
    <2>2. CASE scan > 1
      BY <2>2, <1>1, <1>2 DEF HeadSkipped
    <2> QED BY <2>1, <2>2, <1>2
  <1>8. CapacityRespected' /\ OwnedUnits' = OwnedUnits
    <2>1. Owned' = Owned
      BY <1>1 DEF Owned
    <2> QED BY <2>1, <1>1, UnitsNext DEF CapacityRespected
  <1> QED BY <1>4, <1>5, <1>6, <1>7, <1>8

\* notifyWaiters ends and the lock is released.
LEMMA NotifyDoneInv ==
  ASSUME IndInv, NEW c \in Callers, NotifyDone(c)
  PROVE  IndInv' /\ OwnedUnits' = OwnedUnits
  <1> USE DEF IndInv
  <1>1. /\ pc[c] = "notify" /\ scan > Len(waiters)
        /\ mu' = Nobody /\ scan' = 0
        /\ pc' = [pc EXCEPT ![c] = "idle"]
        /\ UNCHANGED <<current, waiters, ready, want, held, outcome>>
    BY DEF NotifyDone
  <1>2. waiters \in Seq(Callers) /\ mu = c /\ mu # Nobody /\ scan \in 1..(Len(waiters) + 1)
    BY <1>1, CallersAssumption DEF TypeOK, LockOwner
  <1>3. TypeOK'
    BY <1>1 DEF TypeOK
  <1>4. WaitersConsistent' /\ WaitingWeights' /\ HeadSkipped'
    BY <1>1 DEF WaitersConsistent, WaitingWeights, HeadSkipped, TypeOK
  <1>5. LockOwner'
    BY <1>1, <1>2, CallersAssumption DEF LockOwner, TypeOK
  <1>6. NoSleepOnIdle'
    <2> SUFFICES ASSUME waiters # <<>> PROVE current > 0
      BY <1>1 DEF NoSleepOnIdle
    <2>1. Len(waiters) >= 1 /\ scan > 1
      BY <1>1, <1>2
    <2>2. current + want[waiters[1]] > maxWeight
      BY <2>1, <1>2 DEF HeadSkipped
    <2>3. want[waiters[1]] \in 0..maxWeight /\ current \in Int
      BY <2>1, <1>2 DEF TypeOK
    <2> QED BY <2>2, <2>3, MaxWeightType
  <1>7. CapacityRespected' /\ OwnedUnits' = OwnedUnits
    <2>1. Owned' = Owned
      BY <1>1 DEF Owned, TypeOK
    <2> QED BY <2>1, <1>1, UnitsNext DEF CapacityRespected
  <1> QED BY <1>3, <1>4, <1>5, <1>6, <1>7

\* A stuttering step.
LEMMA UnchangedInv ==
  ASSUME IndInv, UNCHANGED vars
  PROVE  IndInv' /\ OwnedUnits' = OwnedUnits
  <1>1. outcome' \in [Callers -> {"none", "ok", "err"}]
    BY DEF vars, IndInv, TypeOK
  <1>2. IndInv'
    BY <1>1, ReturnInv DEF vars
  <1> QED BY <1>2, UnitsNext DEF vars, Owned

\* The two actions in which a call returns without touching the semaphore.
LEMMA ReturnStep ==
  ASSUME IndInv, NEW c \in Callers, NEW w \in Int,
         AcquireUnlocked(c, w) \/ TryAcquireFail(c, w)
  PROVE  /\ IndInv'
         /\ OwnedUnits' = OwnedUnits
         /\ UNCHANGED <<current, waiters, ready, mu, scan, pc, want, held>>
  <1>1. Return(c, "ok") \/ Return(c, "err")
    BY DEF AcquireUnlocked, TryAcquireFail
  <1>2. /\ UNCHANGED <<current, waiters, ready, mu, scan, pc, want, held>>
        /\ outcome' \in [Callers -> {"none", "ok", "err"}]
    BY <1>1 DEF Return, IndInv, TypeOK
  <1> QED BY <1>2, ReturnInv, UnitsNext DEF Owned

\* Every step, of any caller, preserves the inductive invariant.
LEMMA NextInv ==
  ASSUME SafeUse, IndInv, [Next]_vars
  PROVE  IndInv'
  <1>1. ASSUME NEW c \in Callers, Call(c)
        PROVE  IndInv'
    <2>1. PICK w \in Weights : \/ AcquireUnlocked(c, w) \/ AcquireNow(c, w)
                               \/ AcquireEnqueue(c, w) \/ TryAcquireFail(c, w)
      BY <1>1 DEF Call
    <2>2. w \in Int
      BY WeightAssumption
    <2> QED BY <2>1, <2>2, ReturnStep, AcquireNowInv, AcquireEnqueueInv
  <1>2. ASSUME NEW c \in Callers, Wait(c)
        PROVE  IndInv'
    BY <1>2, SelectReadyInv, SelectDoneInv, RemoveWaiterInv DEF Wait
  <1>3. ASSUME NEW c \in Callers, ReleaseSome(c)
        PROVE  IndInv'
    BY <1>3, ReleaseInv DEF ReleaseSome
  <1>4. ASSUME NEW c \in Callers, Notify(c)
        PROVE  IndInv'
    BY <1>4, NotifyGrantInv, NotifySkipInv, NotifyDoneInv DEF Notify
  <1>5. CASE UNCHANGED vars
    BY <1>5, UnchangedInv
  <1> QED BY <1>1, <1>2, <1>3, <1>4, <1>5 DEF Next

\* The inductive invariant holds in every reachable state, for any number of
\* callers, maximum and weights, with or without cancellation.
THEOREM Invariance ==
  ASSUME SafeUse
  PROVE  Spec => []IndInv
  <1>1. Init => IndInv
    BY InitInv
  <1>2. IndInv /\ [Next]_vars => IndInv'
    BY NextInv
  <1> QED BY <1>1, <1>2, PTL DEF Spec

\* New, Acquire, TryAcquire and Release keep every variable in its type.
THEOREM TypeCorrect ==
  ASSUME SafeUse
  PROVE  Spec => []TypeOK
  <1>1. IndInv => TypeOK
    BY DEF IndInv
  <1> QED BY <1>1, Invariance, PTL

\* Callers never own more than maxWeight units in total.
THEOREM Capacity ==
  ASSUME SafeUse
  PROVE  Spec => []CapacityRespected
  <1>1. IndInv => CapacityRespected
    BY DEF IndInv
  <1> QED BY <1>1, Invariance, PTL

\* notifyWaiters closes every ready channel at most once, and a blocked
\* caller is listed exactly while its channel is open.
THEOREM ListConsistent ==
  ASSUME SafeUse
  PROVE  Spec => []WaitersConsistent
  <1>1. IndInv => WaitersConsistent
    BY DEF IndInv
  <1> QED BY <1>1, Invariance, PTL

\* Nobody is left waiting on a semaphore that counts no weight as taken.
THEOREM NobodySleepsOnIdle ==
  ASSUME SafeUse
  PROVE  Spec => []NoSleepOnIdle
  <1>1. IndInv => NoSleepOnIdle
    BY DEF IndInv
  <1> QED BY <1>1, Invariance, PTL

\* Every step of requests and callers is a step of the semaphore, or leaves
\* it alone.
LEMMA StepOfSemaphore ==
  ASSUME [MiddlewareNext]_mvars
  PROVE  [Next]_vars
  <1>1. ASSUME NEW r \in Requests, Serve(r)
        PROVE  [Next]_vars
    <2>1. r \in Callers /\ 1 \in Weights /\ 1 \in 1..maxWeight
      BY RequestsAssumption, MaxWeightType
    <2>2. CASE AcquireNow(r, 1) \/ TryAcquireFail(r, 1)
      BY <2>1, <2>2 DEF Next, Call
    <2>3. CASE Release(r, 1)
      BY <2>1, <2>3 DEF Next, ReleaseSome
    <2>4. CASE Notify(r)
      BY <2>1, <2>4 DEF Next
    <2> QED BY <1>1, <2>2, <2>3, <2>4
            DEF Serve, Admit, TooBusy, HandlerEnds, DeferredRelease
  <1>2. CASE UNCHANGED mvars
    BY <1>2 DEF mvars
  <1> QED BY <1>1, <1>2 DEF MiddlewareNext, Next, Wait

\* The middleware uses the semaphore as any other caller: its behaviours are
\* behaviours of the semaphore.
THEOREM MiddlewareUsesSemaphore == MiddlewareSpec => Spec
  <1>1. MiddlewareInit => Init
    BY DEF MiddlewareInit
  <1>2. [MiddlewareNext]_mvars => [Next]_vars
    BY StepOfSemaphore
  <1> QED BY <1>1, <1>2, PTL DEF MiddlewareSpec, Spec

\* Requests in their handlers and other callers together never own more than
\* maxWeight.
THEOREM MiddlewareCapacity ==
  ASSUME SafeUse
  PROVE  MiddlewareSpec => []CapacityRespected
  BY Capacity, MiddlewareUsesSemaphore, PTL

(***************************************************************************)
(* Until a caller is cancelled                                             *)
(***************************************************************************)
\* What a cancellation breaks, as an inductive invariant on top of IndInv.
ExactInv ==
  /\ \A c \in Callers : pc[c] # "cancel"
  /\ current = Cardinality(OwnedUnits)
  /\ HeadBlockedOnlyWhenFull

\* A new semaphore counts nothing and nobody waits.
LEMMA ExactInit ==
  ASSUME Init
  PROVE  ExactInv
  <1>1. \A c \in Callers : Owned[c] = 0
    BY DEF Init, Owned
  <1>2. OwnedUnits = {}
    BY <1>1, MaxWeightType DEF OwnedUnits, UnitsOf
  <1>3. Cardinality({}) = 0
    BY FS_EmptySet
  <1> QED BY <1>2, <1>3 DEF Init, ExactInv, HeadBlockedOnlyWhenFull

\* The first waiter, where there is one, is a caller blocked with its channel
\* open.
LEMMA HeadFacts ==
  ASSUME IndInv, waiters # <<>>
  PROVE  /\ Head(waiters) = waiters[1]
         /\ waiters[1] \in Callers
         /\ waiters[1] \notin ready
         /\ Len(waiters) >= 1
  <1>1. waiters \in Seq(Callers)
    BY DEF IndInv, TypeOK
  <1>2. Len(waiters) >= 1 /\ 1 \in DOMAIN waiters /\ waiters[1] \in Callers
    BY <1>1
  <1>3. waiters[1] \in ToSet(waiters)
    BY <1>2 DEF ToSet
  <1> QED BY <1>1, <1>2, <1>3 DEF IndInv, WaitersConsistent

\* A step after which nobody is cancelled keeps the count exact and the first
\* waiter justly asleep.
LEMMA ExactNext ==
  ASSUME SafeUse, IndInv, ExactInv, [Next]_vars,
         \A c \in Callers : pc'[c] # "cancel"
  PROVE  ExactInv'
  <1> USE DEF ExactInv, HeadBlockedOnlyWhenFull
  <1>0. /\ Cardinality(OwnedUnits) \in Nat /\ current \in 0..maxWeight
        /\ current = Cardinality(OwnedUnits)
    BY CurrentType DEF IndInv
  <1>1. ASSUME NEW c \in Callers, NEW w \in Int,
               AcquireUnlocked(c, w) \/ TryAcquireFail(c, w)
        PROVE  ExactInv'
    BY <1>1, ReturnStep DEF Fits
  <1>2. ASSUME NEW c \in Callers, NEW w \in Int, AcquireNow(c, w)
        PROVE  ExactInv'
    <2>1. current' = current + w /\ Cardinality(OwnedUnits') = Cardinality(OwnedUnits) + w
      BY <1>2, AcquireNowInv
    <2> QED BY <2>1, <1>0, <1>2 DEF AcquireNow
  <1>3. ASSUME NEW c \in Callers, NEW w \in Int, AcquireEnqueue(c, w)
        PROVE  ExactInv'
    <2>1. /\ OwnedUnits' = OwnedUnits
          /\ UNCHANGED <<current, mu>>
          /\ \A d \in Callers : pc'[d] # "cancel"
      BY <1>3, AcquireEnqueueInv DEF AcquireEnqueue, Admissible, IndInv, TypeOK
    <2>2. HeadBlockedOnlyWhenFull'
      <3>1. CASE waiters = <<>>
        <4>1. Head(waiters') = c /\ want'[c] = w
          BY <1>3, <3>1 DEF AcquireEnqueue, Admissible, IndInv, TypeOK
        <4>2. ~(Wrap(current + w) <= maxWeight)
          BY <1>3, <3>1 DEF AcquireEnqueue, Fits
        <4> QED BY <2>1, <4>1, <4>2 DEF Fits
      <3>2. CASE waiters # <<>>
        <4>1. Head(waiters) = waiters[1] /\ waiters[1] \in Callers /\ Len(waiters) >= 1
              /\ waiters \in Seq(Callers)
          BY <3>2, HeadFacts DEF IndInv, TypeOK
        <4>2. Head(waiters') = waiters[1]
          BY <4>1, <1>3 DEF AcquireEnqueue
        <4>3. waiters[1] # c
          <5>1. waiters[1] \in ToSet(waiters)
            BY <4>1 DEF ToSet
          <5> QED BY <5>1, <4>1, <1>3 DEF IndInv, WaitersConsistent, AcquireEnqueue, MayCall
        <4>4. want'[waiters[1]] = want[waiters[1]]
          BY <4>1, <4>3, <1>3 DEF AcquireEnqueue, IndInv, TypeOK
        <4>5. mu = Nobody
          BY <1>3 DEF AcquireEnqueue
        <4> QED BY <2>1, <3>2, <4>1, <4>2, <4>4, <4>5 DEF Fits
      <3> QED BY <3>1, <3>2
    <2> QED BY <2>1, <2>2
  <1>4. ASSUME NEW c \in Callers, SelectReady(c)
        PROVE  ExactInv'
    <2>1. OwnedUnits' = OwnedUnits
      BY <1>4, SelectReadyInv
    <2>2. /\ UNCHANGED <<current, waiters, mu>>
          /\ c \in ready
          /\ \A d \in Callers : pc'[d] # "cancel"
          /\ \A d \in Callers : d # c => want'[d] = want[d]
      BY <1>4 DEF SelectReady, IndInv, TypeOK
    <2> QED BY <2>1, <2>2, HeadFacts DEF Fits
  <1>5. ASSUME NEW c \in Callers, SelectDone(c) \/ RemoveWaiter(c)
        PROVE  FALSE
    BY <1>5 DEF SelectDone, RemoveWaiter, IndInv, TypeOK
  <1>6. ASSUME NEW c \in Callers, NEW w \in 1..maxWeight, Release(c, w)
        PROVE  ExactInv'
    <2>1. /\ current' = current - w
          /\ Cardinality(OwnedUnits') = Cardinality(OwnedUnits) - w
      BY <1>6, ReleaseInv
    <2>2. mu' # Nobody /\ \A d \in Callers : pc'[d] # "cancel"
      BY <1>6, CallersAssumption DEF Release, IndInv, TypeOK
    <2> QED BY <2>1, <2>2, <1>0
  <1>7. ASSUME NEW c \in Callers, NotifyGrant(c)
        PROVE  ExactInv'
    <2> DEFINE d == waiters[scan]
    <2>1. /\ mu # Nobody /\ UNCHANGED <<mu, pc>>
          /\ waiters \in Seq(Callers) /\ scan \in 1..Len(waiters)
      BY <1>7, CallersAssumption DEF NotifyGrant, IndInv, LockOwner, TypeOK
    <2>2. d \in Callers /\ d \in ToSet(waiters)
      BY <2>1 DEF ToSet
    <2>3. pc[d] = "select"
      BY <2>2 DEF IndInv, WaitersConsistent
    <2>4. current' = current + want[d] /\ Cardinality(OwnedUnits') = Cardinality(OwnedUnits) + want[d]
      BY <1>7, <2>3, NotifyGrantInv
    <2> QED BY <2>1, <2>4, <1>0
  <1>8. ASSUME NEW c \in Callers, NotifySkip(c)
        PROVE  ExactInv'
    <2>1. OwnedUnits' = OwnedUnits
      BY <1>8, NotifySkipInv
    <2>2. mu # Nobody /\ UNCHANGED <<current, mu, pc>>
      BY <1>8, CallersAssumption DEF NotifySkip, IndInv, LockOwner
    <2> QED BY <2>1, <2>2
  <1>9. ASSUME NEW c \in Callers, NotifyDone(c)
        PROVE  ExactInv'
    <2>1. OwnedUnits' = OwnedUnits
      BY <1>9, NotifyDoneInv
    <2>2. /\ mu # Nobody /\ scan > Len(waiters)
          /\ UNCHANGED <<current, waiters, want>>
          /\ \A d \in Callers : pc'[d] # "cancel"
      BY <1>9, CallersAssumption DEF NotifyDone, IndInv, LockOwner, TypeOK
    <2>3. ASSUME waiters # <<>>
          PROVE  ~(Wrap(current + want[Head(waiters)]) <= maxWeight)
      <3>1. Head(waiters) = waiters[1] /\ waiters[1] \in Callers /\ Len(waiters) >= 1
        BY <2>3, HeadFacts
      <3>2. current + want[waiters[1]] > maxWeight
        BY <2>2, <3>1 DEF IndInv, HeadSkipped, TypeOK
      <3>3. want[waiters[1]] \in 0..maxWeight
        BY <3>1 DEF IndInv, TypeOK
      <3>4. current + want[waiters[1]] \in -maxWeight..(2 * maxWeight)
        BY <3>3, <1>0, MaxWeightType
      <3> QED BY <3>1, <3>2, <3>4, NoWrap, MaxWeightType
    <2> QED BY <2>1, <2>2, <2>3 DEF Fits
  <1>10. CASE UNCHANGED vars
    BY <1>10, UnchangedInv DEF vars, Fits
  <1>11. ASSUME NEW c \in Callers, Call(c)
         PROVE  ExactInv'
    <2>1. PICK w \in Weights : \/ AcquireUnlocked(c, w) \/ AcquireNow(c, w)
                               \/ AcquireEnqueue(c, w) \/ TryAcquireFail(c, w)
      BY <1>11 DEF Call
    <2>2. w \in Int
      BY WeightAssumption
    <2> QED BY <2>1, <2>2, <1>1, <1>2, <1>3
  <1> QED BY <1>4, <1>5, <1>6, <1>7, <1>8, <1>9, <1>10, <1>11
          DEF Next, Wait, ReleaseSome, Notify

\* Only the case <-ctx.Done() of a select brings a caller to its removal from
\* the list.
LEMMA NobodyCancelled ==
  ASSUME TypeOK, \A c \in Callers : pc[c] # "cancel",
         [MiddlewareNext]_mvars, ~cancelled'
  PROVE  ~cancelled /\ \A c \in Callers : pc'[c] # "cancel"
  <1> USE DEF TypeOK
  <1>1. ASSUME NEW c \in Callers, NEW w \in Int,
               \/ AcquireUnlocked(c, w) \/ AcquireNow(c, w)
               \/ AcquireEnqueue(c, w) \/ TryAcquireFail(c, w)
        PROVE  \A d \in Callers : pc'[d] # "cancel"
    BY <1>1 DEF AcquireUnlocked, AcquireNow, AcquireEnqueue, TryAcquireFail, Return
  <1>2. ASSUME NEW c \in Callers, NEW w \in Int, Release(c, w)
        PROVE  \A d \in Callers : pc'[d] # "cancel"
    BY <1>2 DEF Release
  <1>3. ASSUME NEW c \in Callers, SelectReady(c) \/ RemoveWaiter(c) \/ Notify(c)
        PROVE  \A d \in Callers : pc'[d] # "cancel"
    BY <1>3 DEF SelectReady, RemoveWaiter, Notify, NotifyGrant, NotifySkip, NotifyDone
  <1>4. ASSUME NEW r \in Requests, Serve(r), UNCHANGED cancelled
        PROVE  ~cancelled /\ \A d \in Callers : pc'[d] # "cancel"
    <2>1. r \in Callers /\ 1 \in Int
      BY RequestsAssumption
    <2>2. CASE HandlerEnds(r)
      BY <1>4, <2>2 DEF HandlerEnds, vars
    <2> QED BY <1>1, <1>2, <1>3, <1>4, <2>1, <2>2 DEF Serve, Admit, TooBusy, DeferredRelease
  <1>5. ASSUME NEW c \in Callers,
               Call(c) \/ SelectReady(c) \/ RemoveWaiter(c) \/ ReleaseSome(c) \/ Notify(c),
               Aside
        PROVE  ~cancelled /\ \A d \in Callers : pc'[d] # "cancel"
    <2>1. CASE Call(c)
      BY <1>1, <1>5, <2>1, WeightAssumption DEF Call, Aside
    <2>2. CASE ReleaseSome(c)
      BY <1>2, <1>5, <2>2, MaxWeightType DEF ReleaseSome, Aside
    <2> QED BY <1>3, <1>5, <2>1, <2>2 DEF Aside
  <1>6. CASE UNCHANGED mvars
    BY <1>6 DEF mvars, vars
  <1> QED BY <1>4, <1>5, <1>6 DEF MiddlewareNext

\* What holds of the semaphore whatever is cancelled, and until something is.
MInv == IndInv /\ (~cancelled => ExactInv)

\* MInv holds of requests and callers together.
LEMMA MiddlewareInvariance ==
  ASSUME SafeUse
  PROVE  MiddlewareSpec => []MInv
  <1>1. MiddlewareInit => MInv
    BY InitInv, ExactInit DEF MiddlewareInit, MInv
  <1>2. MInv /\ [MiddlewareNext]_mvars => MInv'
    <2> SUFFICES ASSUME MInv, [MiddlewareNext]_mvars
                 PROVE  MInv'
      OBVIOUS
    <2> USE DEF MInv
    <2>1. [Next]_vars
      BY StepOfSemaphore
    <2>2. IndInv'
      BY <2>1, NextInv
    <2>3. ASSUME ~cancelled'
          PROVE  ExactInv'
      <3>1. ~cancelled
        BY <2>3 DEF MiddlewareNext, Aside, mvars
      <3>2. ExactInv
        BY <3>1
      <3>3. \A c \in Callers : pc'[c] # "cancel"
        BY <2>3, <3>2, NobodyCancelled DEF ExactInv, IndInv
      <3> QED BY <2>1, <3>2, <3>3, ExactNext
    <2> QED BY <2>2, <2>3
  <1> QED BY <1>1, <1>2, PTL DEF MiddlewareSpec

\* As long as no caller is cancelled, s.current is exactly what requests and
\* callers own.
THEOREM ExactUntil ==
  ASSUME SafeUse
  PROVE  MiddlewareSpec => []ExactUntilCancelled
  <1>1. MInv => ExactUntilCancelled
    BY DEF MInv, ExactInv, ExactUntilCancelled
  <1> QED BY <1>1, MiddlewareInvariance, PTL

\* As long as no caller is cancelled, the first waiter does not fit whenever
\* the lock is free: whoever freed its weight has woken it.
THEOREM WakesUntil ==
  ASSUME SafeUse
  PROVE  MiddlewareSpec => []WakesUntilCancelled
  <1>1. MInv => WakesUntilCancelled
    BY DEF MInv, ExactInv, HeadBlockedOnlyWhenFull, WakesUntilCancelled
  <1> QED BY <1>1, MiddlewareInvariance, PTL
=============================================================================
