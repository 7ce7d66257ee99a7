------------------------- MODULE RateLimiter_proof -------------------------
(***************************************************************************)
(* Proofs about the rate limiters: no interval admits more than the bucket *)
(* or the window allows, for any number of callers, any capacity, rate,    *)
(* fraction of a token and window.                                         *)
(***************************************************************************)
EXTENDS RateLimiter, TLAPS

-----------------------------------------------------------------------------
(***************************************************************************)
(* Arithmetic                                                              *)
(***************************************************************************)
\* The product of naturals is a natural.
LEMMA Product ==
  ASSUME NEW a \in Nat, NEW b \in Nat
  PROVE  a * b \in Nat
  OBVIOUS

\* The pay for an interval is the pay up to a moment and the pay after it.
LEMMA Split ==
  ASSUME NEW w \in Int, NEW s \in Int, NEW r \in Int
  PROVE  w * r = (w - s) * r + s * r
  OBVIOUS

\* One more request costs one more unit of pay.
LEMMA OneMore ==
  ASSUME NEW n \in Int, NEW u \in Int
  PROVE  (n + 1) * u = n * u + u
  OBVIOUS

\* The capacity of the bucket in units.
LEMMA FullNat == Full \in Nat
  BY LimiterAssumption, Product DEF Full

\* refill neither empties the bucket nor overflows it, and adds no more than
\* the elapsed time pays for.
LEMMA RefillBounds ==
  ASSUME TypeOK
  PROVE  /\ refill \in 0 .. Full
         /\ refill <= tokens + sinceRefill * Rate
  <1>1. sinceRefill * Rate \in Nat
    BY LimiterAssumption, Product DEF TypeOK
  <1>2. tokens \in 0 .. Full
    BY DEF TypeOK
  <1> QED BY <1>1, <1>2, FullNat DEF refill

-----------------------------------------------------------------------------
(***************************************************************************)
(* Types                                                                   *)
(***************************************************************************)
\* The durations that Wait sleeps for are naturals.
LEMMA WaitNat ==
  ASSUME TypeOK
  PROVE  BucketWait \in Nat /\ WindowWait \in Nat
  <1>1. WindowWait \in Nat
    BY LimiterAssumption DEF WindowWait
  <1>2. tokens \in Nat /\ Unit \in Nat /\ Rate \in Nat
    BY FullNat, LimiterAssumption DEF TypeOK
  <1>3. ASSUME NEW d \in Nat, Rate # 0 PROVE d \div Rate \in Nat
    BY <1>2, <1>3
  <1> QED BY <1>1, <1>2, <1>3, LimiterAssumption DEF BucketWait

\* Allow and Wait keep the types, among them that the tokens stay between
\* none and the capacity.
LEMMA TypeNext ==
  ASSUME TypeOK, Next
  PROVE  TypeOK'
  <1> USE LimiterAssumption, FullNat
  <1>1. ASSUME NEW c \in Callers, Allowed(c)
        PROVE  pc' \in [Callers -> {"idle", "allow", "deficit", "sleep"}]
               /\ recent' \in [0 .. Horizon -> Nat]
    BY <1>1 DEF Allowed, TypeOK
  <1>2. ASSUME NEW c \in Callers, NEW next \in {"deficit", "sleep"}, Denied(c, next)
        PROVE  pc' \in [Callers -> {"idle", "allow", "deficit", "sleep"}]
               /\ recent' \in [0 .. Horizon -> Nat]
    BY <1>2 DEF Denied, TypeOK
  <1>3. ASSUME NEW c \in Callers, BucketAllow(c) PROVE TypeOK'
    <2>1. tokens' \in 0 .. Full
      BY <1>3, RefillBounds DEF BucketAllow
    <2>2. pc' \in [Callers -> {"idle", "allow", "deficit", "sleep"}]
          /\ recent' \in [0 .. Horizon -> Nat]
      BY <1>1, <1>2, <1>3 DEF BucketAllow
    <2> QED BY <1>3, <2>1, <2>2 DEF BucketAllow, TypeOK, window
  <1>4. ASSUME NEW c \in Callers, cleanup(c) PROVE TypeOK'
    <2>1. PICK i \in 0 .. Len(stamps) : stamps' = SubSeq(stamps, i + 1, Len(stamps))
      BY <1>4 DEF cleanup
    <2>2. stamps' \in Seq(0 .. WindowSize + 1)
      BY SMTT(30), <2>1 DEF TypeOK
    <2> QED BY <1>4, <2>2 DEF cleanup, TypeOK, bucket
  <1>5. ASSUME NEW c \in Callers, WindowAllow(c) PROVE TypeOK'
    <2>1. pc' \in [Callers -> {"idle", "allow", "deficit", "sleep"}]
          /\ recent' \in [0 .. Horizon -> Nat]
      BY <1>1, <1>2, <1>5 DEF WindowAllow
    <2>2. stamps' \in Seq(0 .. WindowSize + 1)
      <3>1. 0 \in 0 .. WindowSize + 1 /\ stamps \in Seq(0 .. WindowSize + 1)
        BY DEF TypeOK
      <3>2. Append(stamps, 0) \in Seq(0 .. WindowSize + 1)
        BY <3>1
      <3>3. stamps' \in {stamps, Append(stamps, 0)}
        BY <1>5 DEF WindowAllow
      <3> QED BY <3>1, <3>2, <3>3
    <2>3. remain' \in [Callers -> Nat]
      BY <1>5, WaitNat DEF WindowAllow, TypeOK
    <2> QED BY <1>5, <2>1, <2>2, <2>3 DEF WindowAllow, TypeOK, bucket
  <1>6. ASSUME NEW c \in Callers, Wait(c) \/ Deficit(c) \/ Retry(c) \/ WaitCancelled(c)
        PROVE  TypeOK'
    <2>1. UNCHANGED <<impl, tokens, sinceRefill, stamps, mu, recent>>
      BY <1>6 DEF Wait, Deficit, Retry, WaitCancelled, bucket, window
    <2>2. pc' \in [Callers -> {"idle", "allow", "deficit", "sleep"}]
      BY <1>6 DEF Wait, Deficit, Retry, WaitCancelled, TypeOK
    <2>3. remain' \in [Callers -> Nat]
      <3>1. remain \in [Callers -> Nat] /\ BucketWait \in Nat
        BY WaitNat DEF TypeOK
      <3>2. \/ remain' = remain
            \/ remain' = [remain EXCEPT ![c] = BucketWait]
            \/ remain' = [remain EXCEPT ![c] = 0]
        BY <1>6 DEF Wait, Deficit, Retry, WaitCancelled
      <3> QED BY <3>1, <3>2
    <2> QED BY <2>1, <2>2, <2>3 DEF TypeOK
  <1>7. ASSUME Tick PROVE TypeOK'
    <2>1. stamps' \in Seq(0 .. WindowSize + 1)
      BY SMTT(30), <1>7 DEF Tick, TypeOK
    <2>2. recent' \in [0 .. Horizon -> Nat]
      BY <1>7 DEF Tick, TypeOK
    <2>3. remain' \in [Callers -> Nat]
      BY <1>7 DEF Tick, TypeOK
    <2>4. sinceRefill' \in Nat
      BY <1>7 DEF Tick, TypeOK
    <2> QED BY <1>7, <2>1, <2>2, <2>3, <2>4 DEF Tick, TypeOK
  <1> QED BY <1>3, <1>4, <1>5, <1>6, <1>7 DEF Next, Allow

-----------------------------------------------------------------------------
(***************************************************************************)
(* The token bucket                                                        *)
(***************************************************************************)
\* Every step keeps the account of what was admitted and what is left.
LEMMA BucketNext ==
  ASSUME TypeOK, BucketInv, MuInv, Next, impl = "bucket"
  PROVE  BucketInv'
  <1> USE LimiterAssumption, FullNat
  <1>0. /\ sinceRefill \in Nat /\ tokens \in 0 .. Full /\ Rate \in Nat /\ Unit \in Nat
        /\ recent \in [0 .. Horizon -> Nat]
    BY DEF TypeOK
  <1>1. ASSUME NEW c \in Callers, BucketAllow(c) PROVE BucketInv'
    <2> SUFFICES ASSUME NEW w \in 0 .. Horizon
                 PROVE  recent'[w] * Unit + tokens' <= Full + (w - 0) * Rate
      BY <1>1 DEF BucketAllow, BucketInv
    <2> DEFINE n == recent[w] * Unit
               paid == sinceRefill * Rate
    <2>1. n \in Nat /\ w * Rate \in Nat /\ paid \in Nat
      BY <1>0, Product
    <2>2. recent[w] * Unit + refill <= Full + w * Rate
      <3>1. CASE w < sinceRefill
        <4>1. recent[w] = 0
          BY <3>1 DEF BucketInv
        <4> QED BY <2>1, <4>1, RefillBounds
      <3>2. CASE w >= sinceRefill
        <4>1. n + tokens <= Full + (w - sinceRefill) * Rate
          BY <1>0, <3>2 DEF BucketInv
        <4>2. w * Rate = (w - sinceRefill) * Rate + paid
          BY <1>0, Split
        <4>3. (w - sinceRefill) * Rate \in Nat
          BY <1>0, <3>2, Product
        <4>4. refill <= tokens + paid /\ refill \in 0 .. Full
          BY RefillBounds
        <4> HIDE DEF n, paid
        <4>5. n + refill <= Full + w * Rate
          BY <1>0, <2>1, <4>1, <4>2, <4>3, <4>4
        <4> QED BY <4>5 DEF n
      <3> QED BY <1>0, <3>1, <3>2
    <2>3. CASE refill >= Unit /\ tokens' = refill - Unit /\ Allowed(c)
      <3>1. recent'[w] = recent[w] + 1
        BY <2>3 DEF Allowed
      <3>2. recent'[w] * Unit = n + Unit
        BY <1>0, <3>1, OneMore
      <3>3. refill \in Nat
        BY RefillBounds
      <3> HIDE DEF n
      <3>4. n + refill <= Full + w * Rate
        BY <2>2 DEF n
      <3> QED BY <1>0, <2>1, <2>3, <3>2, <3>3, <3>4
    <2>4. CASE tokens' = refill /\ Denied(c, "deficit")
      BY <2>2, <2>4 DEF Denied
    <2> QED BY <1>1, <2>3, <2>4 DEF BucketAllow
  <1>2. ASSUME Tick PROVE BucketInv'
    <2> SUFFICES ASSUME NEW w \in 0 .. Horizon
                 PROVE  IF w < sinceRefill' THEN recent'[w] = 0
                        ELSE recent'[w] * Unit + tokens
                               <= Full + (w - sinceRefill') * Rate
      BY <1>2 DEF Tick, BucketInv
    <2>1. recent'[w] = IF w = 0 THEN 0 ELSE recent[w - 1]
      BY <1>2 DEF Tick
    <2>2. sinceRefill' \in {sinceRefill, sinceRefill + 1}
      BY <1>2 DEF Tick
    <2>3. PICK s \in Nat : s = sinceRefill' /\ s \in {sinceRefill, sinceRefill + 1}
      BY <1>0, <2>2
    <2> DEFINE k == w - s
               pay == k * Rate
    <2>4. CASE w = 0 \/ w - 1 < sinceRefill
      <3>1. recent'[w] = 0
        BY <1>0, <2>1, <2>4 DEF BucketInv
      <3>2. ASSUME w >= s PROVE recent'[w] * Unit + tokens <= Full + pay
        <4>1. k \in Nat
          BY <3>2
        <4>2. pay \in Nat
          BY <1>0, <4>1, Product
        <4>3. recent'[w] * Unit = 0
          BY <1>0, <3>1
        <4> HIDE DEF pay
        <4> QED BY <1>0, <4>2, <4>3
      <3> QED BY <2>3, <3>1, <3>2
    <2>5. CASE w > 0 /\ w - 1 >= sinceRefill
      <3> DEFINE n == recent[w - 1] * Unit
                 q == (w - 1) - sinceRefill
                 before == q * Rate
      <3>1. n + tokens <= Full + before
        BY <1>0, <2>5 DEF BucketInv
      <3>2. q \in Nat /\ n \in Nat /\ before \in Nat
        BY <1>0, <2>5, Product
      <3>3. k = q \/ k = q + 1
        <4>1. CASE s = sinceRefill
          BY <1>0, <4>1
        <4>2. CASE s = sinceRefill + 1
          BY <1>0, <4>2
        <4> QED BY <2>3, <4>1, <4>2
      <3>4. pay = before \/ pay = before + Rate
        <4>1. (q + 1) * Rate = q * Rate + Rate
          BY <1>0, <3>2, OneMore
        <4> HIDE DEF q, k
        <4> QED BY <3>3, <4>1
      <3>5. recent'[w] = recent[w - 1] /\ w >= s
        BY <1>0, <2>1, <2>3, <2>5
      <3>6. recent'[w] * Unit = n
        BY <3>5
      <3> HIDE DEF n, before, pay
      <3>7. n + tokens <= Full + pay
        BY <1>0, <3>1, <3>2, <3>4
      <3>8. recent'[w] * Unit + tokens <= Full + pay
        BY <3>6, <3>7
      <3> QED BY <2>3, <3>5, <3>8 DEF pay
    <2> QED BY <1>0, <2>4, <2>5
  <1>3. ASSUME NEW c \in Callers, cleanup(c) \/ WindowAllow(c) PROVE BucketInv'
    BY <1>3 DEF cleanup, WindowAllow, MuInv
  <1>4. ASSUME NEW c \in Callers, Wait(c) \/ Deficit(c) \/ Retry(c) \/ WaitCancelled(c)
        PROVE  BucketInv'
    BY <1>4 DEF Wait, Deficit, Retry, WaitCancelled, BucketInv, bucket
  <1> QED BY <1>1, <1>2, <1>3, <1>4 DEF Next, Allow

-----------------------------------------------------------------------------
(***************************************************************************)
(* The sliding window                                                      *)
(***************************************************************************)
\* Every step keeps the stamps in step with the requests of the last ticks.
LEMMA WindowNext ==
  ASSUME TypeOK, WindowInv, Next, impl = "window"
  PROVE  WindowInv'
  <1> USE LimiterAssumption
  <1>0. /\ stamps \in Seq(0 .. WindowSize + 1) /\ Len(stamps) \in Nat
        /\ \A i \in 1 .. Len(stamps) : stamps[i] \in 0 .. WindowSize + 1
        /\ \A w \in 0 .. WindowSize : recent[w] \in Nat
        /\ Len(stamps) <= MaxRequests
    BY DEF TypeOK, WindowInv
  <1>1. ASSUME NEW c \in Callers, BucketAllow(c) PROVE WindowInv'
    BY <1>1 DEF BucketAllow
  <1>2. ASSUME NEW c \in Callers, cleanup(c) PROVE WindowInv'
    <2>1. PICK d \in 0 .. Len(stamps) :
            /\ \A j \in 1 .. d : Expired(stamps[j])
            /\ stamps' = SubSeq(stamps, d + 1, Len(stamps))
      BY <1>2 DEF cleanup
    <2>2. Len(stamps') = Len(stamps) - d
      BY <1>0, <2>1
    <2>3. \A i \in 1 .. Len(stamps') : stamps'[i] = stamps[i + d]
      BY <1>0, <2>1, <2>2
    <2>4. recent' = recent
      BY <1>2 DEF cleanup
    <2>5. ASSUME NEW w \in 0 .. WindowSize
          PROVE  /\ recent'[w] <= Len(stamps')
                 /\ \A i \in 1 .. Len(stamps') :
                      stamps'[i] <= w <=> i > Len(stamps') - recent'[w]
      <3>1. /\ recent[w] <= Len(stamps)
            /\ \A i \in 1 .. Len(stamps) : stamps[i] <= w <=> i > Len(stamps) - recent[w]
        BY DEF WindowInv
      <3>2. d > 0 => ~(stamps[d] <= w)
        BY <1>0, <2>1 DEF Expired
      <3>3. d <= Len(stamps) - recent[w]
        BY <1>0, <3>1, <3>2
      <3>4. recent'[w] <= Len(stamps')
        BY <1>0, <2>2, <2>4, <3>3
      <3>5. ASSUME NEW i \in 1 .. Len(stamps')
            PROVE  stamps'[i] <= w <=> i > Len(stamps') - recent'[w]
        <4>1. i + d \in 1 .. Len(stamps)
          BY <1>0, <2>2
        <4>2. stamps'[i] = stamps[i + d]
          BY <2>3
        <4>3. stamps[i + d] <= w <=> i + d > Len(stamps) - recent[w]
          BY <3>1, <4>1
        <4>4. i \in Int /\ d \in Int /\ recent[w] \in Int /\ Len(stamps) \in Int
          BY <1>0, <2>2
        <4>5. i + d > Len(stamps) - recent[w] <=> i > (Len(stamps) - d) - recent[w]
          BY <4>4
        <4> QED BY <2>2, <2>4, <4>2, <4>3, <4>5
      <3> QED BY <3>4, <3>5
    <2> QED BY <1>0, <2>2, <2>5 DEF WindowInv
  <1>3. ASSUME NEW c \in Callers, WindowAllow(c) PROVE WindowInv'
    <2>1. CASE Len(stamps) < MaxRequests /\ stamps' = Append(stamps, 0) /\ Allowed(c)
      <3>1. /\ Len(stamps') = Len(stamps) + 1
            /\ stamps'[Len(stamps) + 1] = 0
            /\ \A i \in 1 .. Len(stamps) : stamps'[i] = stamps[i]
        BY <1>0, <2>1
      <3>2. ASSUME NEW w \in 0 .. WindowSize
            PROVE  /\ recent'[w] <= Len(stamps')
                   /\ \A i \in 1 .. Len(stamps') :
                        stamps'[i] <= w <=> i > Len(stamps') - recent'[w]
        <4>1. recent'[w] = recent[w] + 1
          BY <2>1 DEF Allowed
        <4>2. /\ recent[w] <= Len(stamps)
              /\ \A i \in 1 .. Len(stamps) :
                   stamps[i] <= w <=> i > Len(stamps) - recent[w]
          BY DEF WindowInv
        <4>3. recent'[w] <= Len(stamps')
          BY <1>0, <3>1, <4>1, <4>2
        <4>4. Len(stamps') - recent'[w] = Len(stamps) - recent[w]
          <5>1. recent[w] \in Int /\ Len(stamps) \in Int
            BY <1>0
          <5>2. (Len(stamps) + 1) - (recent[w] + 1) = Len(stamps) - recent[w]
            BY <5>1
          <5> QED BY <3>1, <4>1, <5>2
        <4>5. ASSUME NEW i \in 1 .. Len(stamps)
              PROVE  stamps'[i] <= w <=> i > Len(stamps') - recent'[w]
          <5>1. stamps'[i] = stamps[i]
            BY <3>1
          <5>2. stamps[i] <= w <=> i > Len(stamps) - recent[w]
            BY <4>2
          <5> QED BY <4>4, <5>1, <5>2
        <4>6. stamps'[Len(stamps) + 1] <= w /\ Len(stamps) + 1 > Len(stamps') - recent'[w]
          BY <1>0, <3>1, <4>4
        <4>7. ASSUME NEW i \in 1 .. Len(stamps')
              PROVE  i \in 1 .. Len(stamps) \/ i = Len(stamps) + 1
          BY <1>0, <3>1
        <4> QED BY <4>3, <4>5, <4>6, <4>7
      <3> QED BY <1>0, <2>1, <3>1, <3>2 DEF WindowInv
    <2>2. CASE UNCHANGED <<stamps, recent>>
      BY <2>2 DEF WindowInv
    <2> QED BY <1>3, <2>1, <2>2 DEF WindowAllow, Denied
  <1>4. ASSUME NEW c \in Callers, Wait(c) \/ Deficit(c) \/ Retry(c) \/ WaitCancelled(c)
        PROVE  WindowInv'
    BY <1>4 DEF Wait, Deficit, Retry, WaitCancelled, WindowInv, window
  <1>5. ASSUME Tick PROVE WindowInv'
    <2>1. /\ Len(stamps') = Len(stamps)
          /\ \A i \in 1 .. Len(stamps) :
               stamps'[i] = IF stamps[i] <= WindowSize THEN stamps[i] + 1 ELSE stamps[i]
      BY <1>0, <1>5 DEF Tick
    <2>2. ASSUME NEW w \in 0 .. WindowSize
          PROVE  /\ recent'[w] <= Len(stamps')
                 /\ \A i \in 1 .. Len(stamps') :
                      stamps'[i] <= w <=> i > Len(stamps') - recent'[w]
      <3>1. recent'[w] = IF w = 0 THEN 0 ELSE recent[w - 1]
        BY <1>5 DEF Tick
      <3>2. CASE w = 0
        BY <1>0, <2>1, <3>1, <3>2
      <3>3. CASE w > 0
        <4>1. w - 1 \in 0 .. WindowSize
          BY <3>3
        <4>2. /\ recent[w - 1] <= Len(stamps)
              /\ \A i \in 1 .. Len(stamps) :
                   stamps[i] <= w - 1 <=> i > Len(stamps) - recent[w - 1]
          BY <4>1 DEF WindowInv
        <4>3. \A i \in 1 .. Len(stamps) : stamps'[i] <= w <=> stamps[i] <= w - 1
          BY <1>0, <2>1, <3>3
        <4> QED BY <2>1, <3>1, <3>3, <4>2, <4>3
      <3> QED BY <3>2, <3>3
    <2> QED BY <1>0, <2>1, <2>2 DEF WindowInv
  <1> QED BY <1>1, <1>2, <1>3, <1>4, <1>5 DEF Next, Allow

-----------------------------------------------------------------------------
(***************************************************************************)
(* Theorems                                                                *)
(***************************************************************************)
\* The limiter keeps its implementation, and a bucket's lock is not held
\* between steps.
LEMMA KindNext ==
  ASSUME MuInv, Next
  PROVE  impl' = impl /\ MuInv'
  <1>1. impl' = impl
    BY DEF Next, Allow, BucketAllow, cleanup, WindowAllow, Wait, Deficit, Retry,
           WaitCancelled, Tick
  <1>2. ASSUME impl = "bucket" PROVE mu' = Nobody
    BY <1>2, LimiterAssumption
       DEF MuInv, Next, Allow, BucketAllow, cleanup, WindowAllow, Wait, Deficit, Retry,
           WaitCancelled, Tick, window
  <1> QED BY <1>1, <1>2 DEF MuInv

\* The inductive invariant of Allow and Wait, of either limiter.
THEOREM Invariance == Spec => []IndInv
  <1>1. Init => IndInv
    <2> SUFFICES ASSUME Init PROVE IndInv
      OBVIOUS
    <2> USE LimiterAssumption, FullNat
    <2>1. TypeOK
      BY DEF Init, TypeOK
    <2>2. BucketInv
      <3> SUFFICES ASSUME NEW w \in 0 .. Horizon
                   PROVE  0 * Unit + Full <= Full + (w - 0) * Rate
        BY DEF Init, BucketInv
      <3>1. w * Rate \in Nat /\ 0 * Unit = 0 /\ w - 0 = w
        BY Product
      <3> QED BY <3>1
    <2>3. WindowInv /\ MuInv
      BY DEF Init, WindowInv, MuInv
    <2> QED BY <2>1, <2>2, <2>3 DEF IndInv
  <1>2. IndInv /\ [Next]_vars => IndInv'
    <2> SUFFICES ASSUME IndInv, [Next]_vars PROVE IndInv'
      OBVIOUS
    <2>1. CASE Next
      <3>1. TypeOK' /\ impl' = impl /\ MuInv'
        BY <2>1, TypeNext, KindNext DEF IndInv
      <3>2. BucketInv'
        BY <2>1, <3>1, BucketNext DEF IndInv, BucketInv
      <3>3. WindowInv'
        BY <2>1, <3>1, WindowNext DEF IndInv, WindowInv
      <3> QED BY <3>1, <3>2, <3>3 DEF IndInv
    <2>2. CASE UNCHANGED vars
      BY <2>2 DEF IndInv, TypeOK, BucketInv, WindowInv, MuInv, vars, bucket, window
    <2> QED BY <2>1, <2>2
  <1> QED BY <1>1, <1>2, PTL DEF Spec

\* However Allow and Wait calls interleave, the token bucket admits in no
\* interval more than a full bucket and the rate of that interval pay for.
THEOREM BucketSound == Spec => []BucketRate
  <1>1. IndInv => BucketRate
    <2> SUFFICES ASSUME IndInv, impl = "bucket", NEW w \in 0 .. Horizon
                 PROVE  recent[w] * Unit <= Full + w * Rate
      BY DEF BucketRate
    <2> USE LimiterAssumption, FullNat
    <2>1. /\ sinceRefill \in Nat /\ tokens \in Nat /\ Rate \in Nat /\ Unit \in Nat
          /\ recent[w] \in Nat /\ w \in Nat
      BY DEF IndInv, TypeOK
    <2> DEFINE n == recent[w] * Unit
               all == w * Rate
               paid == sinceRefill * Rate
               later == (w - sinceRefill) * Rate
    <2>2. n \in Nat /\ all \in Nat /\ paid \in Nat
      BY <2>1, Product
    <2>3. CASE w < sinceRefill
      <3>1. recent[w] = 0
        BY <2>3 DEF IndInv, BucketInv
      <3>2. n = 0
        BY <2>1, <3>1
      <3> HIDE DEF n, all
      <3>3. n <= Full + all
        BY <2>2, <3>2
      <3> QED BY <3>3 DEF n, all
    <2>4. CASE w >= sinceRefill
      <3>1. n + tokens <= Full + later
        BY <2>1, <2>4 DEF IndInv, BucketInv
      <3>2. all = later + paid
        BY <2>1, Split
      <3>3. later \in Nat
        BY <2>1, <2>4, Product
      <3> HIDE DEF n, all, later, paid
      <3>4. n <= Full + all
        BY <2>1, <2>2, <3>1, <3>2, <3>3
      <3> QED BY <3>4 DEF n, all
    <2> QED BY <2>1, <2>3, <2>4
  <1> QED BY <1>1, Invariance, PTL

\* The sliding window admits no more than MaxRequests in any interval as
\* long as the window, although Allow reads the clock twice.
THEOREM WindowSound == Spec => []WindowLimit
  <1>1. IndInv => WindowLimit
    <2> SUFFICES ASSUME IndInv, impl = "window" PROVE recent[WindowSize] <= MaxRequests
      BY DEF WindowLimit
    <2>1. WindowSize \in 0 .. WindowSize /\ WindowSize \in 0 .. Horizon
      BY LimiterAssumption
    <2>2. recent[WindowSize] <= Len(stamps) /\ Len(stamps) <= MaxRequests
      BY <2>1 DEF IndInv, WindowInv
    <2>3. recent[WindowSize] \in Nat /\ Len(stamps) \in Nat
      BY <2>1 DEF IndInv, TypeOK
    <2> QED BY <2>2, <2>3, LimiterAssumption
  <1> QED BY <1>1, Invariance, PTL
=============================================================================
