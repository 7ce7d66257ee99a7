-------------------------- MODULE Containers_proof --------------------------
(***************************************************************************)
(* Proofs about the lock-protected containers, for any number of           *)
(* goroutines, any keys, elements, lines and chunk sizes.                  *)
(***************************************************************************)
EXTENDS Containers, FiniteSetTheorems, FunctionTheorems, SequenceTheorems, TLAPS

(***************************************************************************)
(* The lock                                                                *)
(***************************************************************************)
\* The goroutines whose callback runs, or has called back.
Inside == {g \in Goroutines : stage[g] \in {"reading", "writing", "stuck"}}

LockInv ==
  /\ writer \in Goroutines \cup {Nobody}
  /\ readers \subseteq Goroutines
  /\ stage \in [Goroutines -> {"idle", "rlock", "lock", "reading", "writing", "stuck"}]
  /\ shown = [g \in Goroutines |-> shown[g]]
  /\ writer # Nobody => readers = {}
  /\ \A g \in Goroutines :
       /\ stage[g] = "writing" => writer = g
       /\ stage[g] = "reading" => g \in readers
       /\ stage[g] = "stuck"   => writer = g \/ g \in readers
       /\ g \in readers        => stage[g] \in {"rlock", "reading", "stuck"}

\* At first the lock is free and no callback runs.
LEMMA LockInit ==
  ASSUME GuardInit
  PROVE  LockInv /\ Inside = {}
  BY DEF GuardInit, LockInv, Inside

\* Calling an operation, or back from a callback, starts no callback.
LEMMA CallStep ==
  ASSUME LockInv, NEW g \in Goroutines, CallRead(g) \/ CallWrite(g) \/ CallsBack(g)
  PROVE  LockInv' /\ Inside' = Inside /\ shown' = shown
  <1> USE GuardedAssumption DEF LockInv, Inside, Moves
  <1>1. CASE CallRead(g)
    BY <1>1 DEF CallRead
  <1>2. CASE CallWrite(g)
    BY <1>2 DEF CallWrite
  <1>3. CASE CallsBack(g)
    BY <1>3 DEF CallsBack
  <1> QED BY <1>1, <1>2, <1>3

\* A read without a callback changes nothing that callbacks see.
LEMMA ReadOnceStep ==
  ASSUME LockInv, NEW g \in Goroutines, ReadOnce(g)
  PROVE  LockInv' /\ Inside' = Inside /\ shown' = shown
  BY GuardedAssumption DEF LockInv, Inside, Moves, ReadOnce

\* Whoever gets the write lock is alone.
LEMMA WriteAlone ==
  ASSUME LockInv, NEW g \in Goroutines, MayWrite(g)
  PROVE  Inside = {}
  BY GuardedAssumption DEF LockInv, Inside, MayWrite

\* A write without a callback leaves no callback running.
LEMMA WriteOnceStep ==
  ASSUME LockInv, NEW g \in Goroutines, WriteOnce(g)
  PROVE  LockInv' /\ Inside' = {}
  <1>1. Inside = {}
    BY WriteAlone DEF WriteOnce
  <1>2. Inside' = {}
    BY <1>1 DEF Inside, WriteOnce, Moves, LockInv
  <1>3. LockInv'
    BY <1>1, <1>2, GuardedAssumption
       DEF LockInv, Inside, Moves, WriteOnce, MayWrite, waitingReaders
  <1> QED BY <1>2, <1>3

\* A callback under RLock is shown the data, beside the ones that run.
LEMMA ReadBeginsStep ==
  ASSUME LockInv, NEW g \in Goroutines, NEW data, ReadBegins(g, data)
  PROVE  /\ LockInv' /\ Inside' = Inside \cup {g}
         /\ shown'[g] = data
         /\ \A h \in Goroutines \ {g} : shown'[h] = shown[h]
  BY GuardedAssumption DEF LockInv, Inside, Moves, ReadBegins

\* A callback under Lock is shown the data, and runs alone.
LEMMA WriteBeginsStep ==
  ASSUME LockInv, NEW g \in Goroutines, NEW data, WriteBegins(g, data)
  PROVE  LockInv' /\ Inside' = {g} /\ shown'[g] = data
  <1>1. Inside = {}
    BY WriteAlone DEF WriteBegins
  <1>2. Inside' = {g} /\ shown'[g] = data
    BY <1>1 DEF Inside, WriteBegins, Moves, LockInv
  <1>3. LockInv'
    BY <1>1, <1>2, GuardedAssumption DEF LockInv, Inside, Moves, WriteBegins, MayWrite
  <1> QED BY <1>2, <1>3

\* A callback that ends leaves the others as they were.
LEMMA ReadEndsStep ==
  ASSUME LockInv, NEW g \in Goroutines, ReadEnds(g)
  PROVE  /\ LockInv' /\ Inside' \subseteq Inside \ {g}
         /\ \A h \in Goroutines \ {g} : shown'[h] = shown[h]
  BY GuardedAssumption DEF LockInv, Inside, Moves, ReadEnds

\* A goroutine in a callback under the write lock was alone.
LEMMA WriteEndsStep ==
  ASSUME LockInv, NEW g \in Goroutines, WriteEnds(g)
  PROVE  LockInv' /\ Inside' = {}
  <1>1. writer = g /\ readers = {} /\ Inside = {g}
    BY GuardedAssumption DEF LockInv, Inside, Moves, WriteEnds
  <1>2. Inside' = {}
    BY <1>1 DEF Inside, WriteEnds, Moves, LockInv
  <1>3. LockInv'
    BY <1>1, <1>2, GuardedAssumption
       DEF LockInv, Inside, Moves, WriteEnds, waitingReaders
  <1> QED BY <1>2, <1>3
-----------------------------------------------------------------------------
(***************************************************************************)
(* The slice                                                               *)
(***************************************************************************)
\* Slice headers lie within their arrays: no index is out of range.
InBounds ==
  /\ s.len <= Len(heap[s.arr])
  /\ \A g \in Clients : own[g].len <= Len(heap[own[g].arr])

SliceInv ==
  /\ heap \in [Arrays -> Seq(Elements)]
  /\ s \in [arr : Arrays, len : Nat]
  /\ own \in [Clients -> [arr : Arrays, len : Nat]]
  /\ InBounds
  /\ NotExposed

\* A function on a finite set cannot reach every value of a larger set.
LEMMA Spare ==
  ASSUME NEW D, NEW R, IsFiniteSet(D), NEW f \in [D -> R],
         IsFiniteSet(R), Cardinality(R) > Cardinality(D)
  PROVE  \E r \in R : \A d \in D : f[d] # r
  <1> SUFFICES ASSUME \A r \in R : \E d \in D : f[d] = r
               PROVE  FALSE
    OBVIOUS
  <1>1. f \in Surjection(D, R)
    BY DEF Surjection
  <1>2. Cardinality(R) <= Cardinality(D)
    BY <1>1, FS_Surjection
  <1>3. Cardinality(R) \in Nat /\ Cardinality(D) \in Nat
    BY FS_CardinalityType
  <1> QED BY <1>2, <1>3

\* There is an array to allocate.
LEMMA FreshArray ==
  ASSUME SliceInv
  PROVE  /\ Fresh \in Arrays
         /\ Fresh # s.arr
         /\ \A g \in Clients : Fresh # own[g].arr
  <1> DEFINE Rest == Arrays \ {s.arr}
             f == [g \in Clients |-> own[g].arr]
  <1>1. /\ IsFiniteSet(Rest) /\ Cardinality(Rest) = Cardinality(Arrays) - 1
        /\ Cardinality(Arrays) \in Nat /\ Cardinality(Clients) \in Nat
    BY MemoryAssumption, FS_RemoveElement, FS_CardinalityType DEF SliceInv
  <1>2. Cardinality(Rest) > Cardinality(Clients)
    BY <1>1, MemoryAssumption
  <1>3. f \in [Clients -> Rest]
    BY DEF SliceInv, NotExposed
  <1>4. \E r \in Rest : \A g \in Clients : f[g] # r
    <2> HIDE DEF f, Rest
    <2> QED BY <1>1, <1>2, <1>3, MemoryAssumption, Spare
  <1>5. \E a \in Arrays : a # s.arr /\ \A g \in Clients : a # own[g].arr
    BY <1>4
  <1> QED BY <1>5 DEF Fresh

\* Distinct arrays for the clients, beside the one of s.s.
LEMMA ApartArrays ==
  ASSUME NEW a \in Arrays
  PROVE  \E f \in [Clients -> Arrays \ {a}] : \A g, h \in Clients : f[g] = f[h] => g = h
  <1> DEFINE n == Cardinality(Clients)
             k == Cardinality(Arrays \ {a})
  <1>1. /\ IsFiniteSet(Arrays \ {a}) /\ k = Cardinality(Arrays) - 1
        /\ Cardinality(Arrays) \in Nat /\ n \in Nat
    BY MemoryAssumption, FS_RemoveElement, FS_CardinalityType
  <1>2. n \in Nat /\ k \in Nat /\ n <= k
    BY <1>1, MemoryAssumption, FS_CardinalityType
  <1>3. ExistsBijection(1..n, Clients) /\ ExistsBijection(1..k, Arrays \ {a})
    BY <1>1, MemoryAssumption, FS_CardinalityType
  <1> HIDE DEF n, k
  <1>4. PICK b \in Bijection(1..n, Clients) : TRUE
    BY <1>3 DEF ExistsBijection
  <1>5. PICK c \in Bijection(1..k, Arrays \ {a}) : TRUE
    BY <1>3 DEF ExistsBijection
  <1>6. PICK inv \in [Clients -> 1..n] : \A g \in Clients : b[inv[g]] = g
    <2>1. \A g \in Clients : \E i \in 1..n : b[i] = g
      BY <1>4 DEF Bijection, Surjection
    <2> DEFINE u == [g \in Clients |-> CHOOSE i \in 1..n : b[i] = g]
    <2>2. u \in [Clients -> 1..n] /\ \A g \in Clients : b[u[g]] = g
      BY <2>1
    <2> HIDE DEF u
    <2> QED BY <2>2
  <1> DEFINE f == [g \in Clients |-> c[inv[g]]]
  <1>7. 1..n \subseteq 1..k
    BY <1>2
  <1>8. f \in [Clients -> Arrays \ {a}]
    BY <1>5, <1>6, <1>7 DEF Bijection, Injection
  <1>9. ASSUME NEW g \in Clients, NEW h \in Clients, f[g] = f[h]
        PROVE  g = h
    <2>1. inv[g] \in 1..k /\ inv[h] \in 1..k /\ c[inv[g]] = c[inv[h]]
      BY <1>6, <1>7, <1>9
    <2>2. inv[g] = inv[h]
      BY <1>5, <2>1 DEF Bijection, Injection, IsInjective
    <2> QED BY <1>6, <2>2
  <1> HIDE DEF f
  <1> QED BY <1>8, <1>9

\* The lists that clients pass are sequences of elements.
LEMMA ListsAreSeqs == Lists \subseteq Seq(Elements)
  <1> SUFFICES ASSUME NEW list \in Lists
               PROVE  list \in Seq(Elements)
    OBVIOUS
  <1>1. PICK n \in 0..MaxLen : list \in [1..n -> Elements]
    BY DEF Lists
  <1>2. n \in Nat
    BY SliceAssumption
  <1> QED BY <1>1, <1>2

\* NewSlice, with an empty slice for each client.
LEMMA SliceInitInv ==
  ASSUME SliceInit
  PROVE  SliceInv
  <1> DEFINE a == CHOOSE a \in Arrays : TRUE
             Apart(f) == \A g, h \in Clients : f[g] = f[h] => g = h
             f == CHOOSE f \in [Clients -> Arrays \ {a}] : Apart(f)
  <1>1. a \in Arrays
    <2>1. Arrays # {}
      BY MemoryAssumption, FS_EmptySet, FS_CardinalityType
    <2> QED BY <2>1
  <1>2. f \in [Clients -> Arrays \ {a}] /\ Apart(f)
    <2> HIDE DEF a
    <2> QED BY <1>1, ApartArrays
  <1>3. PICK init \in Lists :
          /\ heap = [b \in Arrays |-> IF b = a THEN init ELSE <<>>]
          /\ s = [arr |-> a, len |-> Len(init)]
          /\ own = [g \in Clients |-> [arr |-> f[g], len |-> 0]]
    BY DEF SliceInit
  <1> HIDE DEF a, f
  <1>4. init \in Seq(Elements) /\ Len(init) \in Nat
    BY ListsAreSeqs
  <1>5. heap \in [Arrays -> Seq(Elements)]
    BY <1>3, <1>4
  <1>6. /\ s \in [arr : Arrays, len : Nat]
        /\ own \in [Clients -> [arr : Arrays, len : Nat]]
    BY <1>1, <1>2, <1>3, <1>4
  <1>7. InBounds
    <2>1. \A g \in Clients : heap[own[g].arr] = <<>> /\ own[g].len = 0
      BY <1>2, <1>3
    <2> QED BY <1>1, <1>3, <1>4, <2>1 DEF InBounds
  <1>8. NotExposed
    BY <1>2, <1>3 DEF NotExposed
  <1> QED BY <1>5, <1>6, <1>7, <1>8 DEF SliceInv
\* What a header shows of its array.
LEMMA ContentsType ==
  ASSUME SliceInv, NEW h \in [arr : Arrays, len : Nat], h.len <= Len(heap[h.arr])
  PROVE  Contents(h) \in Seq(Elements) /\ Len(Contents(h)) = h.len
  <1>1. heap[h.arr] \in Seq(Elements) /\ h.len \in Nat
    BY DEF SliceInv
  <1>2. \A i \in 1..h.len : heap[h.arr][i] \in Elements
    BY <1>1
  <1> QED BY <1>1, <1>2, SubSeqProperties DEF Contents

\* Writing an array that no other slice refers to leaves the others alone.
LEMMA MovedInv ==
  ASSUME SliceInv, NEW list \in Seq(Elements), NEW n \in Nat, n <= Len(list),
         Moved(list, n), UNCHANGED own
  PROVE  SliceInv'
  <1>1. /\ Fresh \in Arrays /\ Fresh # s.arr
        /\ \A g \in Clients : Fresh # own[g].arr
    BY FreshArray
  <1>2. <<>> \in Seq(Elements)
    OBVIOUS
  <1>3. /\ heap' \in [Arrays -> Seq(Elements)]
        /\ heap'[Fresh] = list
        /\ \A a \in Arrays \ {Fresh, s.arr} : heap'[a] = heap[a]
        /\ s' = [arr |-> Fresh, len |-> n]
    BY <1>1, <1>2 DEF Moved, SliceInv
  <1>4. \A g \in Clients : own[g].arr \in Arrays \ {Fresh, s.arr}
    BY <1>1 DEF SliceInv, NotExposed
  <1>5. InBounds'
    BY <1>3, <1>4 DEF SliceInv, InBounds
  <1>6. NotExposed'
    BY <1>1, <1>3 DEF SliceInv, NotExposed
  <1> QED BY <1>1, <1>3, <1>5, <1>6 DEF SliceInv

\* Writing the array of s.s in place, without making it shorter.
LEMMA InPlaceInv ==
  ASSUME SliceInv, NEW list \in Seq(Elements), NEW n \in Nat, n <= Len(list),
         heap' = [heap EXCEPT ![s.arr] = list],
         s' = [arr |-> s.arr, len |-> n], UNCHANGED own
  PROVE  SliceInv'
  <1>1. s.arr \in Arrays /\ \A g \in Clients : own[g].arr \in Arrays \ {s.arr}
    BY DEF SliceInv, NotExposed
  <1>2. /\ heap' \in [Arrays -> Seq(Elements)]
        /\ heap'[s.arr] = list
        /\ \A a \in Arrays \ {s.arr} : heap'[a] = heap[a]
    BY <1>1 DEF SliceInv
  <1>3. InBounds'
    BY <1>1, <1>2 DEF SliceInv, InBounds
  <1>4. NotExposed'
    BY DEF SliceInv, NotExposed
  <1> QED BY <1>1, <1>2, <1>3, <1>4 DEF SliceInv

\* What a write leaves of an array, what it writes, and the rest.
LEMMA ThreePieces ==
  \A p, q, r \in Seq(Elements) :
    p \o q \o r \in Seq(Elements) /\ Len(p \o q \o r) = Len(p) + Len(q) + Len(r)
  <1> TAKE p, q, r \in Seq(Elements)
  <1> DEFINE pq == p \o q
  <1>1. pq \in Seq(Elements) /\ Len(pq) = Len(p) + Len(q)
    BY ConcatProperties
  <1> HIDE DEF pq
  <1>2. pq \o r \in Seq(Elements) /\ Len(pq \o r) = Len(pq) + Len(r)
    BY <1>1, ConcatProperties
  <1> QED BY <1>1, <1>2 DEF pq

\* append keeps the elements within the array, or moves them.
LEMMA AppendInv ==
  ASSUME SliceInv, NEW vs \in Seq(Elements), append(vs), UNCHANGED own
  PROVE  SliceInv'
  <1> DEFINE n == s.len + Len(vs)
             old == heap[s.arr]
  <1>0. /\ old \in Seq(Elements) /\ Len(old) \in Nat /\ s.len \in Nat /\ Len(vs) \in Nat
        /\ s.len <= Len(old) /\ s \in [arr : Arrays, len : Nat] /\ n \in Nat
        /\ s = [arr |-> s.arr, len |-> s.len]
    BY DEF SliceInv, InBounds
  <1>1. CASE n <= Len(old)
    <2> DEFINE a == SubSeq(old, 1, s.len)
               b == SubSeq(old, n + 1, Len(old))
    <2>1. a \in Seq(Elements) /\ Len(a) = s.len
      <3>1. \A i \in 1..s.len : old[i] \in Elements
        BY <1>0
      <3> HIDE DEF old
      <3> QED BY <1>0, <3>1, SubSeqProperties
    <2>2. b \in Seq(Elements) /\ Len(b) = Len(old) - n
      <3>1. \A i \in (n + 1)..Len(old) : old[i] \in Elements
        BY <1>0
      <3> HIDE DEF old, n
      <3> QED BY <1>0, <1>1, <3>1, SubSeqProperties
    <2> HIDE DEF a, b
    <2>3. a \o vs \o b \in Seq(Elements) /\ Len(a \o vs \o b) = Len(a) + Len(vs) + Len(b)
      BY <2>1, <2>2, ThreePieces, Zenon
    <2>4. Len(a \o vs \o b) = Len(old)
      BY <1>0, <2>1, <2>2, <2>3
    <2>5. heap' = [heap EXCEPT ![s.arr] = a \o vs \o b]
      BY <1>0, <1>1 DEF append, a, b
    <2>6. s' = [arr |-> s.arr, len |-> n]
      BY <1>0, <1>1 DEF append
    <2> HIDE DEF old, n
    <2> QED BY <1>0, <1>1, <2>3, <2>4, <2>5, <2>6, InPlaceInv
  <1>2. CASE ~(n <= Len(old))
    <2>1. PICK spare \in {<<>>} \cup {vs} : Moved(Contents(s) \o vs \o spare, n)
      BY <1>2, Zenon DEF append
    <2>2. spare \in Seq(Elements) /\ Len(spare) \in Nat
      <3>1. CASE spare = <<>>
        BY <3>1
      <3>2. CASE spare = vs
        BY <1>0, <3>2
      <3> QED BY <2>1, <3>1, <3>2, Zenon
    <2>3. Contents(s) \in Seq(Elements) /\ Len(Contents(s)) = s.len
      BY <1>0, ContentsType
    <2>4. /\ Contents(s) \o vs \o spare \in Seq(Elements)
          /\ Len(Contents(s) \o vs \o spare) = Len(Contents(s)) + Len(vs) + Len(spare)
      BY <2>2, <2>3, ThreePieces, Zenon
    <2>5. n <= Len(Contents(s) \o vs \o spare)
      BY <1>0, <2>2, <2>3, <2>4
    <2> HIDE DEF n
    <2> QED BY <1>0, <2>1, <2>4, <2>5, MovedInv
  <1> QED BY <1>1, <1>2

\* UpdateAt and Delete write within the array.
LEMMA EditInv ==
  ASSUME SliceInv, NEW g \in Goroutines, EditEnds(g)
  PROVE  SliceInv'
  <1> DEFINE old == heap[s.arr]
  <1>0. /\ old \in Seq(Elements) /\ Len(old) \in Nat /\ s.len \in Nat
        /\ s.len <= Len(old) /\ s \in [arr : Arrays, len : Nat]
        /\ s = [arr |-> s.arr, len |-> s.len] /\ heap \in [Arrays -> Seq(Elements)]
    BY DEF SliceInv, InBounds
  <1>1. ASSUME NEW i \in 1..s.len, NEW v \in Elements,
               heap' = [heap EXCEPT ![s.arr][i] = v], UNCHANGED <<s, own>>
        PROVE  SliceInv'
    <2>1. /\ [old EXCEPT ![i] = v] \in Seq(Elements)
          /\ Len([old EXCEPT ![i] = v]) = Len(old)
      <3>1. i \in 1..Len(old)
        BY <1>0
      <3> HIDE DEF old
      <3> QED BY <1>0, <3>1, ExceptSeq
    <2>2. heap' = [heap EXCEPT ![s.arr] = [old EXCEPT ![i] = v]]
      BY <1>0, <1>1
    <2>3. s' = [arr |-> s.arr, len |-> s.len] /\ own' = own
      BY <1>0, <1>1
    <2> QED BY <1>0, <2>1, <2>2, <2>3, InPlaceInv
  <1>2. ASSUME NEW i \in 1..s.len,
               heap' = [heap EXCEPT ![s.arr] =
                          [j \in DOMAIN @ |-> IF j \in i..(s.len - 1) THEN @[j + 1] ELSE @[j]]],
               s' = [s EXCEPT !.len = @ - 1], UNCHANGED own
        PROVE  SliceInv'
    <2> DEFINE new == [j \in DOMAIN old |-> IF j \in i..(s.len - 1) THEN old[j + 1] ELSE old[j]]
    <2>1. new \in Seq(Elements) /\ Len(new) = Len(old)
      <3>1. DOMAIN old = 1..Len(old)
        BY <1>0
      <3>2. \A j \in 1..Len(old) :
              (IF j \in i..(s.len - 1) THEN old[j + 1] ELSE old[j]) \in Elements
        BY <1>0
      <3>3. new \in [1..Len(old) -> Elements]
        BY <3>1, <3>2
      <3> QED BY <1>0, <3>3
    <2>2. heap' = [heap EXCEPT ![s.arr] = new]
      BY <1>0, <1>2
    <2>3. s' = [arr |-> s.arr, len |-> s.len - 1] /\ s.len - 1 \in Nat
      BY <1>0, <1>2
    <2>4. s.len - 1 <= Len(new)
      BY <1>0, <2>1
    <2> HIDE DEF new
    <2> QED BY <1>2, <2>1, <2>2, <2>3, <2>4, InPlaceInv
  <1>3. CASE UNCHANGED <<heap, s, own>>
    BY <1>3 DEF SliceInv, InBounds, NotExposed
  <1> QED BY <1>1, <1>2, <1>3 DEF EditEnds

\* Snapshot gives its client an array of its own, and leaves s.s alone.
LEMMA SnapshotInv ==
  ASSUME SliceInv, NEW g \in Clients, Snapshot(g)
  PROVE  SliceInv' /\ Contents(s)' = Contents(s)
  <1>1. /\ Fresh \in Arrays /\ Fresh # s.arr
        /\ \A h \in Clients : Fresh # own[h].arr
    BY FreshArray
  <1>2. Contents(s) \in Seq(Elements) /\ Len(Contents(s)) = s.len
    BY ContentsType DEF SliceInv, InBounds
  <1>3. <<>> \in Seq(Elements)
    OBVIOUS
  <1>4. /\ heap' \in [Arrays -> Seq(Elements)]
        /\ heap'[Fresh] = Contents(s)
        /\ \A a \in Arrays \ {Fresh, own[g].arr} : heap'[a] = heap[a]
        /\ own' = [own EXCEPT ![g] = [arr |-> Fresh, len |-> s.len]]
        /\ s' = s
    BY <1>1, <1>2, <1>3 DEF Snapshot, SliceInv
  <1>5. s.arr \in Arrays \ {Fresh, own[g].arr}
    BY <1>1 DEF SliceInv, NotExposed
  <1>6. /\ own'[g] = [arr |-> Fresh, len |-> s.len]
        /\ \A h \in Clients \ {g} : /\ own'[h] = own[h]
                                    /\ own[h].arr \in Arrays \ {Fresh, own[g].arr}
    BY <1>1, <1>4 DEF SliceInv, NotExposed
  <1>7. own' \in [Clients -> [arr : Arrays, len : Nat]]
    BY <1>1, <1>4 DEF SliceInv
  <1>8. InBounds'
    BY <1>2, <1>4, <1>5, <1>6 DEF SliceInv, InBounds
  <1>9. NotExposed'
    BY <1>1, <1>4, <1>6 DEF SliceInv, NotExposed
  <1> QED BY <1>4, <1>5, <1>7, <1>8, <1>9 DEF SliceInv, Contents

\* What a client writes into its own slice does not reach s.s.
LEMMA ClientWritesInv ==
  ASSUME SliceInv, NEW g \in Clients, ClientWrites(g)
  PROVE  SliceInv' /\ Contents(s)' = Contents(s)
  <1> DEFINE a == own[g].arr
             old == heap[a]
  <1>0. /\ a \in Arrays /\ old \in Seq(Elements) /\ Len(old) \in Nat
        /\ own[g].len \in Nat /\ own[g].len <= Len(old)
        /\ s.arr \in Arrays \ {a} /\ heap \in [Arrays -> Seq(Elements)]
    BY DEF SliceInv, InBounds, NotExposed
  <1>1. PICK i \in 1..own[g].len, v \in Elements : heap' = [heap EXCEPT ![a][i] = v]
    BY DEF ClientWrites
  <1>2. /\ [old EXCEPT ![i] = v] \in Seq(Elements)
        /\ Len([old EXCEPT ![i] = v]) = Len(old)
    <2>1. i \in 1..Len(old)
      BY <1>0
    <2> HIDE DEF old
    <2> QED BY <1>0, <2>1, ExceptSeq
  <1>3. /\ heap' \in [Arrays -> Seq(Elements)]
        /\ Len(heap'[a]) = Len(heap[a])
        /\ \A b \in Arrays \ {a} : heap'[b] = heap[b]
    <2>1. heap' = [heap EXCEPT ![a] = [old EXCEPT ![i] = v]]
      BY <1>0, <1>1
    <2> QED BY <1>0, <1>2, <2>1
  <1>4. UNCHANGED <<s, own>>
    BY DEF ClientWrites
  <1>5. \A b \in Arrays : Len(heap'[b]) = Len(heap[b])
    BY <1>3
  <1>6. InBounds'
    BY <1>4, <1>5 DEF SliceInv, InBounds
  <1>7. heap'[s.arr] = heap[s.arr]
    BY <1>0, <1>3
  <1> QED BY <1>3, <1>4, <1>6, <1>7 DEF SliceInv, NotExposed, Contents
-----------------------------------------------------------------------------
(***************************************************************************)
(* The loader                                                              *)
(***************************************************************************)
\* Division as Go's, of numbers that are not negative.
LEMMA Division ==
  ASSUME NEW a \in Nat, NEW c \in Nat \ {0}
  PROVE  /\ a \div c \in Nat
         /\ (a \div c) * c <= a
         /\ a < (a \div c) * c + c
  <1>1. a \div c \in Int /\ a % c \in 0..(c - 1)
    OBVIOUS
  <1>2. a = c * (a \div c) + (a % c)
    OBVIOUS
  <1> QED BY <1>1, <1>2

\* Multiples of the chunk size: what the provers need to be told.
LEMMA Multiples ==
  ASSUME NEW i \in Int, NEW j \in Int, NEW c \in Nat
  PROVE  /\ (i + 1) * c = i * c + c
         /\ i <= j => i * c <= j * c
         /\ i * c < j * c => i < j
  OBVIOUS

LoaderConfig == nlines \in LineCounts /\ chunkSize \in ChunkSizes

\* The numbers of lines and the chunk sizes considered are positive.
LEMMA ConfigPositive ==
  ASSUME LoaderConfig
  PROVE  nlines \in Nat \ {0} /\ chunkSize \in Nat \ {0}
  BY LoaderAssumption DEF LoaderConfig

\* Every chunk starts within the lines, and the last one ends behind them.
LEMMA ChunkBounds ==
  ASSUME LoaderConfig
  PROVE  /\ totalChunks \in Nat
         /\ nlines <= totalChunks * chunkSize
         /\ \A i \in Indices : /\ i \in Nat
                               /\ i * chunkSize \in 0..(nlines - 1)
                               /\ (i + 1) * chunkSize = i * chunkSize + chunkSize
  <1> DEFINE n == nlines
             c == chunkSize
             t == totalChunks
  <1>1. n \in Nat \ {0} /\ c \in Nat \ {0}
    BY ConfigPositive
  <1>2. n + c - 1 \in Nat
    BY <1>1
  <1>3. t \in Nat /\ t * c <= n + c - 1 /\ n + c - 1 < t * c + c
    BY <1>1, <1>2, Division DEF totalChunks
  <1> HIDE DEF n, c, t
  <1>4. ASSUME NEW i \in 0..(t - 1)
        PROVE  i \in Nat /\ i * c \in 0..(n - 1) /\ (i + 1) * c = i * c + c
    <2>1. i \in Nat /\ i + 1 \in Int /\ i + 1 <= t
      BY <1>3
    <2>2. (i + 1) * c = i * c + c /\ (i + 1) * c <= t * c
      BY <1>1, <1>3, <2>1, Multiples
    <2>3. i * c \in Nat
      BY <1>1, <2>1
    <2>4. t * c \in Nat
      BY <1>1, <1>3
    <2> QED BY <1>1, <1>3, <2>1, <2>2, <2>3, <2>4
  <1>5. n <= t * c
    <2>1. t * c \in Nat
      BY <1>1, <1>3
    <2> QED BY <1>1, <1>3, <2>1
  <1> QED BY <1>3, <1>4, <1>5 DEF n, c, t, Indices

\* What loadFn makes of a chunk is what GetLines returns for its lines.
LEMMA LoadIsGetLines ==
  ASSUME LoaderConfig, NEW i \in Indices
  PROVE  /\ GetLines(i * chunkSize, (i + 1) * chunkSize) = load(i)
         /\ load(i) \in SUBSET (0..(nlines - 1))
         /\ load(i) # NoChunk
  <1>1. nlines \in Nat \ {0} /\ chunkSize \in Nat \ {0}
    BY ConfigPositive
  <1> DEFINE a == i * chunkSize
             b == (i + 1) * chunkSize
  <1>2. a \in 0..(nlines - 1) /\ b = a + chunkSize
    BY ChunkBounds
  <1> HIDE DEF a, b
  <1>3. GetLines(a, b) = Lines(a, b)
    BY <1>1, <1>2 DEF GetLines
  <1>4. Lines(a, b) \in SUBSET (0..(nlines - 1))
    BY <1>1, <1>2 DEF Lines
  <1>5. Lines(a, b) # NoChunk
    BY <1>4, LoaderAssumption DEF LoaderConfig
  <1> QED BY <1>3, <1>4, <1>5 DEF a, b, load

\* The chunks are all the lines.
LEMMA AllLines ==
  ASSUME LoaderConfig
  PROVE  UNION {GetLines(i * chunkSize, (i + 1) * chunkSize) : i \in Indices} = 0..(nlines - 1)
  <1>1. nlines \in Nat \ {0} /\ chunkSize \in Nat \ {0}
    BY ConfigPositive
  <1>2. \A i \in Indices :
          GetLines(i * chunkSize, (i + 1) * chunkSize) \subseteq 0..(nlines - 1)
    BY LoadIsGetLines
  <1>3. ASSUME NEW k \in 0..(nlines - 1)
        PROVE  \E i \in Indices : k \in GetLines(i * chunkSize, (i + 1) * chunkSize)
    <2> DEFINE i == k \div chunkSize
    <2>1. k \in Nat
      BY <1>1
    <2>2. i \in Nat /\ i * chunkSize <= k /\ k < i * chunkSize + chunkSize
      BY <1>1, <2>1, Division
    <2> HIDE DEF i
    <2>3. totalChunks \in Nat /\ nlines <= totalChunks * chunkSize
      BY ChunkBounds
    <2> DEFINE ic == i * chunkSize
               tc == totalChunks * chunkSize
    <2>4. ic \in Nat /\ tc \in Nat
      BY <1>1, <2>2, <2>3
    <2>5. ic <= k /\ k < ic + chunkSize /\ nlines <= tc
      BY <2>2, <2>3
    <2>6. i < totalChunks
      <3>1. ic < tc
        <4> HIDE DEF ic, tc
        <4> QED BY <1>1, <2>1, <2>4, <2>5
      <3> QED BY <1>1, <2>2, <2>3, <3>1, Multiples
    <2>7. i \in Indices
      BY <2>2, <2>3, <2>6 DEF Indices
    <2>8. (i + 1) * chunkSize = ic + chunkSize
      BY <1>1, <2>2, Multiples
    <2>9. k \in load(i)
      <3> HIDE DEF ic
      <3>1. k \in Lines(ic, ic + chunkSize)
        BY <1>1, <2>1, <2>4, <2>5 DEF Lines
      <3> QED BY <2>8, <3>1 DEF load, ic
    <2> QED BY <2>7, <2>9, LoadIsGetLines
  <1> QED BY <1>2, <1>3

\* The chunk that a load is for is not cached as long as it runs.
LoadsWanted ==
  kind = "loader" =>
    \A g \in Goroutines :
      stage[g] = "writing" => wanted[g] \in Indices /\ chunks[wanted[g]] = NoChunk

LoaderInv ==
  /\ LoaderConfig
  /\ chunks = [i \in Indices |-> chunks[i]]
  /\ loads = [i \in Indices |-> loads[i]]
  /\ wanted \in [Goroutines -> Int]
  /\ \A i \in Indices : chunks[i] \in {NoChunk, load(i)}
  /\ LoadedOncePerClear
  /\ LoadsWanted

\* A new loader has cached nothing.
LEMMA LoaderInitInv ==
  ASSUME LoaderInit, Inside = {}
  PROVE  LoaderInv
  <1>1. LoadsWanted
    BY DEF Inside, LoadsWanted
  <1> QED BY <1>1 DEF LoaderInit, LoaderInv, LoaderConfig, LoadedOncePerClear

\* EXCEPT, spelled out for functions of any range.
LEMMA Overridden ==
  ASSUME NEW D, NEW f, f = [i \in D |-> f[i]], NEW w \in D, NEW v
  PROVE  [f EXCEPT ![w] = v] = [i \in D |-> IF i = w THEN v ELSE f[i]]
  OBVIOUS

\* Every operation of the loader preserves the loader's invariant.
LEMMA LoaderStepInv ==
  ASSUME LockInv, LoaderInv, NEW g \in Goroutines, LoaderOp(g), UNCHANGED kind, kind = "loader"
  PROVE  LoaderInv'
  <1>0. /\ nlines' = nlines /\ chunkSize' = chunkSize
        /\ totalChunks' = totalChunks /\ Indices' = Indices
        /\ \A i : load(i)' = load(i)
    <2>1. nlines' = nlines /\ chunkSize' = chunkSize
      BY DEF LoaderOp, GetCached, LoadBegins, LoadSucceeds, LoadFails, LoaderClear, loader
    <2> QED BY <2>1 DEF totalChunks, Indices, load, Lines
  <1>1. CASE GetCached(g)
    <2>1. Inside' = {}
      BY <1>1, WriteOnceStep DEF GetCached
    <2>2. LoadsWanted'
      BY <2>1 DEF Inside, LoadsWanted
    <2> QED BY <1>0, <1>1, <2>2 DEF GetCached, loader, LoaderInv, LoaderConfig, LoadedOncePerClear
  <1>2. CASE LoadBegins(g)
    <2>1. Inside' = {g}
      BY <1>2, WriteBeginsStep DEF LoadBegins
    <2>2. PICK i \in Indices : chunks[i] = NoChunk /\ wanted' = [wanted EXCEPT ![g] = i]
      BY <1>2 DEF LoadBegins
    <2>3. i \in Int
      BY ChunkBounds DEF LoaderInv
    <2>4. LoadsWanted'
      BY <1>0, <1>2, <2>1, <2>2 DEF Inside, LoadsWanted, LoadBegins, LoaderInv
    <2> QED BY <1>0, <1>2, <2>2, <2>3, <2>4 DEF LoadBegins, LoaderInv, LoaderConfig, LoadedOncePerClear
  <1>3. CASE LoadSucceeds(g)
    <2> DEFINE w == wanted[g]
    <2>1. Inside' = {} /\ stage[g] = "writing"
      BY <1>3, WriteEndsStep DEF LoadSucceeds, WriteEnds, Moves
    <2>2. LoadsWanted'
      BY <2>1 DEF Inside, LoadsWanted
    <2>3. w \in Indices /\ chunks[w] = NoChunk
      BY <2>1 DEF LoaderInv, LoadsWanted
    <2>4. load(w) # NoChunk
      BY <2>3, LoadIsGetLines DEF LoaderInv
    <2>5. /\ chunks' = [chunks EXCEPT ![w] = load(w)]
          /\ loads' = [loads EXCEPT ![w] = loads[w] + 1]
          /\ loads[w] = 0
      BY <1>3, <2>3 DEF LoadSucceeds, LoaderInv, LoadedOncePerClear
    <2>6. wanted' \in [Goroutines -> Int]
      BY <1>3 DEF LoadSucceeds, LoaderInv
    <2> HIDE DEF w
    <2>7. /\ chunks' = [i \in Indices |-> chunks'[i]]
          /\ loads' = [i \in Indices |-> loads'[i]]
          /\ chunks'[w] = load(w) /\ loads'[w] = 1
          /\ \A i \in Indices \ {w} : chunks'[i] = chunks[i] /\ loads'[i] = loads[i]
      <3>1. loads' = [loads EXCEPT ![w] = 1]
        BY <2>5
      <3>2. /\ chunks' = [i \in Indices |-> IF i = w THEN load(w) ELSE chunks[i]]
            /\ loads' = [i \in Indices |-> IF i = w THEN 1 ELSE loads[i]]
        BY <2>3, <2>5, <3>1, Overridden DEF LoaderInv
      <3> QED BY <2>3, <3>2
    <2>8. LoadedOncePerClear'
      BY <1>0, <2>3, <2>4, <2>7 DEF LoaderInv, LoadedOncePerClear
    <2> QED BY <1>0, <2>2, <2>6, <2>7, <2>8 DEF LoaderInv, LoaderConfig
  <1>4. CASE LoadFails(g)
    <2>1. Inside' = {}
      BY <1>4, WriteEndsStep DEF LoadFails
    <2>2. LoadsWanted'
      BY <2>1 DEF Inside, LoadsWanted
    <2>3. wanted' \in [Goroutines -> Int]
      BY <1>4 DEF LoadFails, LoaderInv
    <2> QED BY <1>0, <1>4, <2>2, <2>3 DEF LoadFails, LoaderInv, LoaderConfig, LoadedOncePerClear
  <1>5. CASE LoaderClear(g)
    <2>1. Inside' = {}
      BY <1>5, WriteOnceStep DEF LoaderClear
    <2>2. LoadsWanted'
      BY <2>1 DEF Inside, LoadsWanted
    <2> QED BY <1>0, <1>5, <2>2 DEF LoaderClear, LoaderInv, LoaderConfig, LoadedOncePerClear
  <1> QED BY <1>1, <1>2, <1>3, <1>4, <1>5 DEF LoaderOp
-----------------------------------------------------------------------------
(***************************************************************************)
(* All of them                                                             *)
(***************************************************************************)
IndInv ==
  /\ kind \in {"store", "slice", "loader"}
  /\ LockInv
  /\ SliceInv
  /\ LoaderInv
  /\ CallbackSeesCurrent

\* The invariant holds of a new container.
LEMMA InitInv ==
  ASSUME Init
  PROVE  IndInv
  <1>1. LockInv /\ Inside = {}
    BY LockInit DEF Init
  <1>2. SliceInv
    BY SliceInitInv DEF Init
  <1>3. LoaderInv
    BY <1>1, LoaderInitInv DEF Init
  <1>4. CallbackSeesCurrent
    BY <1>1 DEF Inside, CallbackSeesCurrent
  <1> QED BY <1>1, <1>2, <1>3, <1>4 DEF Init, IndInv

\* The data a callback was shown is the data as long as nobody changes it.
LEMMA StillSees ==
  ASSUME CallbackSeesCurrent, Data' = Data,
         Inside' \subseteq Inside, \A h \in Inside' : shown'[h] = shown[h]
  PROVE  CallbackSeesCurrent'
  BY DEF CallbackSeesCurrent, Inside

\* A step that leaves no callback running disturbs none.
LEMMA NobodySees ==
  ASSUME Inside' = {}
  PROVE  CallbackSeesCurrent'
  BY DEF CallbackSeesCurrent, Inside

\* What a callback is shown when it is called.
LEMMA BeginsToSee ==
  ASSUME CallbackSeesCurrent, NEW g \in Goroutines, shown'[g] = Data',
         \/ Inside' = {g}
         \/ /\ Inside' \subseteq Inside \cup {g} /\ Data' = Data
            /\ \A h \in Goroutines \ {g} : shown'[h] = shown[h]
  PROVE  CallbackSeesCurrent'
  BY DEF CallbackSeesCurrent, Inside

\* The data of a container is its map, its slice's elements or its chunks.
LEMMA SameData ==
  ASSUME kind \in {"store", "slice", "loader"}, kind' = kind,
         kind = "store" => m' = m,
         kind = "slice" => Contents(s)' = Contents(s),
         kind = "loader" => chunks' = chunks
  PROVE  Data' = Data
  BY DEF Data

\* A step that leaves the slices alone preserves their invariant.
LEMMA SameSlices ==
  ASSUME SliceInv, UNCHANGED slices
  PROVE  SliceInv' /\ Contents(s)' = Contents(s)
  BY DEF SliceInv, InBounds, NotExposed, slices, Contents

\* A step that leaves the cache alone preserves its invariant.
LEMMA SameLoader ==
  ASSUME LoaderInv, UNCHANGED loader, LoadsWanted'
  PROVE  LoaderInv'
  <1>1. Indices' = Indices /\ \A i : load(i)' = load(i)
    BY DEF loader, Indices, totalChunks, load, Lines
  <1> QED BY <1>1 DEF LoaderInv, LoaderConfig, LoadedOncePerClear, loader

\* Calling an operation, or back, changes no data.
LEMMA CallsInv ==
  ASSUME IndInv, NEW g \in Goroutines, Calls(g)
  PROVE  IndInv'
  <1>1. CallRead(g) \/ CallWrite(g) \/ CallsBack(g)
    BY DEF Calls
  <1>2. LockInv' /\ Inside' = Inside /\ shown' = shown
    BY <1>1, CallStep DEF IndInv
  <1>3. UNCHANGED <<m, slices, loader, kind>>
    BY DEF Calls
  <1>4. SliceInv' /\ Contents(s)' = Contents(s)
    BY <1>3, SameSlices DEF IndInv
  <1>5. \A h \in Goroutines : stage'[h] = "writing" => stage[h] = "writing"
    BY <1>1 DEF CallRead, CallWrite, CallsBack, Moves, IndInv, LockInv
  <1>6. LoadsWanted'
    BY <1>3, <1>5 DEF LoadsWanted, IndInv, LoaderInv, loader, Indices, totalChunks
  <1>7. LoaderInv'
    BY <1>3, <1>6, SameLoader DEF IndInv
  <1>8. Data' = Data
    BY <1>3, <1>4, SameData DEF IndInv, loader
  <1>9. CallbackSeesCurrent'
    BY <1>2, <1>8, StillSees DEF IndInv
  <1> QED BY <1>2, <1>3, <1>4, <1>7, <1>9 DEF IndInv

\* The operations of a Store that write it find no callback running.
LEMMA StoreInv ==
  ASSUME IndInv, NEW g \in Goroutines, kind = "store", kind' = kind, StoreOp(g)
  PROVE  LockInv' /\ CallbackSeesCurrent'
  <1> USE DEF IndInv
  <1>0. Data = m /\ Data' = m'
    BY DEF Data
  <1>1. CASE Put(g) \/ PutIfAbsent(g) \/ StoreDelete(g) \/ StoreClear(g)
    <2>1. WriteOnce(g)
      BY <1>1 DEF Put, PutIfAbsent, StoreDelete, StoreClear
    <2> QED BY <2>1, WriteOnceStep, NobodySees
  <1>2. CASE StoreRead(g)
    <2>1. LockInv' /\ Inside' = Inside /\ shown' = shown
      BY <1>2, ReadOnceStep DEF StoreRead
    <2> QED BY <1>0, <1>2, <2>1, StillSees DEF StoreRead
  <1>3. CASE UpdateBegins(g)
    <2>1. WriteBegins(g, m')
      BY <1>3 DEF UpdateBegins
    <2>2. LockInv' /\ Inside' = {g} /\ shown'[g] = m'
      BY <2>1, WriteBeginsStep
    <2> QED BY <1>0, <2>2, BeginsToSee
  <1>4. CASE UpdateEnds(g)
    BY <1>4, WriteEndsStep, NobodySees DEF UpdateEnds
  <1>5. CASE RangeBegins(g)
    <2>1. /\ LockInv' /\ Inside' = Inside \cup {g}
          /\ shown'[g] = m
          /\ \A h \in Goroutines \ {g} : shown'[h] = shown[h]
      BY <1>5, ReadBeginsStep DEF RangeBegins
    <2>2. m' = m
      BY <1>5 DEF RangeBegins
    <2> QED BY <1>0, <2>1, <2>2, BeginsToSee
  <1>6. CASE RangeEnds(g)
    <2>1. /\ LockInv' /\ Inside' \subseteq Inside \ {g}
          /\ \A h \in Goroutines \ {g} : shown'[h] = shown[h]
      BY <1>6, ReadEndsStep DEF RangeEnds
    <2>2. \A h \in Inside' : shown'[h] = shown[h]
      BY <2>1 DEF Inside
    <2> QED BY <1>0, <1>6, <2>1, <2>2, StillSees DEF RangeEnds
  <1> QED BY <1>1, <1>2, <1>3, <1>4, <1>5, <1>6 DEF StoreOp

\* The operations of a Slice that write s.s find no callback running, and the
\* ones that run beside callbacks write other arrays.
LEMMA SliceStepInv ==
  ASSUME IndInv, NEW g \in Goroutines, kind = "slice", kind' = kind, SliceOp(g)
  PROVE  LockInv' /\ SliceInv' /\ CallbackSeesCurrent'
  <1> USE DEF IndInv
  <1>0. Data = Contents(s) /\ Data' = Contents(s)'
    BY DEF Data
  <1>1. CASE SliceAppend(g)
    <2>1. PICK vs \in Lists : append(vs)
      BY <1>1 DEF SliceAppend
    <2>2. SliceInv'
      BY <1>1, <2>1, ListsAreSeqs, AppendInv DEF SliceAppend
    <2> QED BY <1>1, <2>2, WriteOnceStep, NobodySees DEF SliceAppend
  <1>2. CASE SliceClear(g)
    <2>1. <<>> \in Seq(Elements) /\ 0 \in Nat /\ 0 <= Len(<<>>)
      OBVIOUS
    <2>2. SliceInv'
      BY <1>2, <2>1, MovedInv DEF SliceClear
    <2> QED BY <1>2, <2>2, WriteOnceStep, NobodySees DEF SliceClear
  <1>3. CASE SliceRead(g)
    <2>1. LockInv' /\ Inside' = Inside /\ shown' = shown
      BY <1>3, ReadOnceStep DEF SliceRead
    <2>2. SliceInv' /\ Contents(s)' = Contents(s)
      BY <1>3, SameSlices DEF SliceRead
    <2> QED BY <1>0, <2>1, <2>2, StillSees
  <1>4. CASE EditBegins(g)
    <2>1. SliceInv' /\ Contents(s)' = Contents(s)
      BY <1>4, SameSlices DEF EditBegins
    <2>2. LockInv' /\ Inside' = {g} /\ shown'[g] = Contents(s)
      BY <1>4, WriteBeginsStep DEF EditBegins
    <2> QED BY <1>0, <2>1, <2>2, BeginsToSee
  <1>5. CASE EditEnds(g)
    <2>1. SliceInv'
      BY <1>5, EditInv
    <2> QED BY <1>5, <2>1, WriteEndsStep, NobodySees DEF EditEnds
  <1>6. CASE VisitBegins(g)
    <2>1. SliceInv' /\ Contents(s)' = Contents(s)
      BY <1>6, SameSlices DEF VisitBegins
    <2>2. /\ LockInv' /\ Inside' = Inside \cup {g}
          /\ shown'[g] = Contents(s)
          /\ \A h \in Goroutines \ {g} : shown'[h] = shown[h]
      BY <1>6, ReadBeginsStep DEF VisitBegins
    <2> QED BY <1>0, <2>1, <2>2, BeginsToSee
  <1>7. CASE VisitEnds(g)
    <2>1. SliceInv' /\ Contents(s)' = Contents(s)
      BY <1>7, SameSlices DEF VisitEnds
    <2>2. /\ LockInv' /\ Inside' \subseteq Inside \ {g}
          /\ \A h \in Goroutines \ {g} : shown'[h] = shown[h]
      BY <1>7, ReadEndsStep DEF VisitEnds
    <2>3. \A h \in Inside' : shown'[h] = shown[h]
      BY <2>2 DEF Inside
    <2> QED BY <1>0, <2>1, <2>2, <2>3, StillSees
  <1>8. CASE g \in Clients /\ SliceReplace(g)
    <2>1. /\ own[g] \in [arr : Arrays, len : Nat]
          /\ own[g].len <= Len(heap[own[g].arr])
      BY <1>8 DEF SliceInv, InBounds
    <2>2. Contents(own[g]) \in Seq(Elements) /\ Len(Contents(own[g])) = own[g].len
      BY <2>1, ContentsType
    <2>3. own[g].len \in Nat /\ own[g].len <= Len(Contents(own[g]))
      BY <2>1, <2>2
    <2>4. SliceInv'
      BY <1>8, <2>2, <2>3, MovedInv DEF SliceReplace
    <2> QED BY <1>8, <2>4, WriteOnceStep, NobodySees DEF SliceReplace
  <1>9. CASE g \in Clients /\ Snapshot(g)
    <2>1. LockInv' /\ Inside' = Inside /\ shown' = shown
      BY <1>9, ReadOnceStep DEF Snapshot
    <2>2. SliceInv' /\ Contents(s)' = Contents(s)
      BY <1>9, SnapshotInv
    <2> QED BY <1>0, <2>1, <2>2, StillSees
  <1>10. CASE g \in Clients /\ ClientWrites(g)
    <2>1. LockInv' /\ Inside' = Inside /\ shown' = shown
      BY <1>10 DEF ClientWrites, guard, LockInv, Inside
    <2>2. SliceInv' /\ Contents(s)' = Contents(s)
      BY <1>10, ClientWritesInv
    <2> QED BY <1>0, <2>1, <2>2, StillSees
  <1> QED BY <1>1, <1>2, <1>3, <1>4, <1>5, <1>6, <1>7, <1>8, <1>9, <1>10 DEF SliceOp

\* loadFn runs alone.
LEMMA LoaderSees ==
  ASSUME IndInv, NEW g \in Goroutines, kind = "loader", kind' = kind, LoaderOp(g)
  PROVE  LockInv' /\ CallbackSeesCurrent'
  <1> USE DEF IndInv
  <1>1. CASE GetCached(g) \/ LoaderClear(g)
    BY <1>1, WriteOnceStep, NobodySees DEF GetCached, LoaderClear
  <1>2. CASE LoadBegins(g)
    <2>1. LockInv' /\ Inside' = {g} /\ shown'[g] = chunks
      BY <1>2, WriteBeginsStep DEF LoadBegins
    <2>2. Data' = chunks
      BY <1>2 DEF LoadBegins, Data
    <2> QED BY <2>1, <2>2, BeginsToSee
  <1>3. CASE LoadSucceeds(g) \/ LoadFails(g)
    BY <1>3, WriteEndsStep, NobodySees DEF LoadSucceeds, LoadFails
  <1> QED BY <1>1, <1>2, <1>3 DEF LoaderOp

\* Every step preserves the invariant.
LEMMA NextInv ==
  ASSUME IndInv, [Next]_vars
  PROVE  IndInv'
  <1>1. ASSUME NEW g \in Goroutines, Calls(g)
        PROVE  IndInv'
    BY <1>1, CallsInv
  <1>2. ASSUME NEW g \in Goroutines, kind = "store", StoreOp(g), UNCHANGED <<slices, loader, kind>>
        PROVE  IndInv'
    <2>1. LockInv' /\ CallbackSeesCurrent'
      BY <1>2, StoreInv
    <2>2. LoadsWanted'
      BY <1>2 DEF LoadsWanted
    <2> QED BY <1>2, <2>1, <2>2, SameSlices, SameLoader DEF IndInv
  <1>3. ASSUME NEW g \in Goroutines, kind = "slice", SliceOp(g), UNCHANGED <<m, loader, kind>>
        PROVE  IndInv'
    <2>1. LockInv' /\ SliceInv' /\ CallbackSeesCurrent'
      BY <1>3, SliceStepInv
    <2>2. LoadsWanted'
      BY <1>3 DEF LoadsWanted
    <2> QED BY <1>3, <2>1, <2>2, SameLoader DEF IndInv
  <1>4. ASSUME NEW g \in Goroutines, kind = "loader", LoaderOp(g), UNCHANGED <<m, slices, kind>>
        PROVE  IndInv'
    <2>1. LockInv' /\ CallbackSeesCurrent'
      BY <1>4, LoaderSees
    <2>2. LoaderInv'
      BY <1>4, LoaderStepInv DEF IndInv
    <2> QED BY <1>4, <2>1, <2>2, SameSlices DEF IndInv
  <1>5. CASE UNCHANGED vars
    <2>1. LockInv' /\ Inside' = Inside /\ shown' = shown
      BY <1>5 DEF vars, guard, LockInv, Inside, IndInv
    <2>2. SliceInv' /\ Contents(s)' = Contents(s)
      BY <1>5, SameSlices DEF IndInv, vars
    <2>3. Data' = Data
      BY <1>5, <2>2, SameData DEF IndInv, vars, loader
    <2>4. LoadsWanted'
      BY <1>5 DEF IndInv, LoaderInv, LoadsWanted, vars, guard, loader, Indices, totalChunks
    <2> QED BY <1>5, <2>1, <2>2, <2>3, <2>4, StillSees, SameLoader DEF IndInv, vars
  <1> QED BY <1>1, <1>2, <1>3, <1>4, <1>5 DEF Next, Proceeds

\* The invariant of the containers holds, whoever calls what.
THEOREM Invariance == Spec => []IndInv
  <1>1. Init => IndInv
    BY InitInv
  <1>2. IndInv /\ [Next]_vars => IndInv'
    BY NextInv
  <1> QED BY <1>1, <1>2, PTL DEF Spec

\* While a callback of Update, UpdateAt, Delete, Range or GetChunk runs, the
\* data is as it was shown: read-modify-write is atomic, iterations see one
\* state.
THEOREM CallbacksSeeCurrent == Spec => []CallbackSeesCurrent
  <1>1. IndInv => CallbackSeesCurrent
    BY DEF IndInv
  <1> QED BY <1>1, Invariance, PTL

\* No client holds a slice of the array that Append and Delete write.
THEOREM NeverExposed == Spec => []NotExposed
  <1>1. IndInv => NotExposed
    BY DEF IndInv, SliceInv
  <1> QED BY <1>1, Invariance, PTL

\* Append, Delete, UpdateAt, Replace and Snapshot stay within their arrays.
THEOREM StaysInBounds == Spec => []InBounds
  <1>1. IndInv => InBounds
    BY DEF IndInv, SliceInv
  <1> QED BY <1>1, Invariance, PTL

\* A chunk is loaded at most once between two Clears.
THEOREM LoadedOnce == Spec => []LoadedOncePerClear
  <1>1. IndInv => LoadedOncePerClear
    BY DEF IndInv, LoaderInv
  <1> QED BY <1>1, Invariance, PTL

\* For any number of lines and any chunk size, the cached chunks are what
\* GetLines returns, and all chunks together are the lines.
THEOREM ChunksAgree == Spec => []ChunksAgreeWithLines
  <1>1. IndInv => ChunksAgreeWithLines
    BY LoadIsGetLines, AllLines DEF IndInv, LoaderInv, ChunksAgreeWithLines
  <1> QED BY <1>1, Invariance, PTL
=============================================================================
