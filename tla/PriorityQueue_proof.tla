------------------------ MODULE PriorityQueue_proof ------------------------
(***************************************************************************)
(* Proofs about PriorityQueue, for any priorities and any number of        *)
(* pushes: the heap is never out of order by more than the one place a     *)
(* sift is working on, the root of a heap comes before all other items,    *)
(* and therefore the queue implements StablePriorityQueue.                 *)
(***************************************************************************)
EXTENDS PriorityQueue, TLAPS, WellFoundedInduction, SequenceTheorems

-----------------------------------------------------------------------------
(***************************************************************************)
(* Arithmetic and order                                                    *)
(***************************************************************************)
\* An element with nothing below it, in a relation that holds of every two
\* naturals in order, is the least.
LEMMA NoLesser ==
  ASSUME NEW R, NEW T \in SUBSET Nat,
         \E x \in T : \A y \in T : ~(<<y, x>> \in R),
         \A x, y \in Nat : y < x => <<y, x>> \in R
  PROVE  \E x \in T : \A y \in T : x <= y
<1>1. PICK x \in T : \A y \in T : ~(<<y, x>> \in R)
  OBVIOUS
<1>2. \A y \in T : ~(y < x)
  BY <1>1, Zenon
<1>3. \A y \in T : x <= y
  BY <1>2
<1> QED BY <1>3

\* A set of naturals has a least element: the form of induction used for the
\* paths of the heap.
LEMMA LeastNat ==
  ASSUME NEW T \in SUBSET Nat, T # {}
  PROVE  \E x \in T : \A y \in T : x <= y
<1> DEFINE R == OpToRel(<, Nat)
<1>1. IsWellFoundedOn(R, Nat)
  BY NatLessThanWellFounded
<1>2. \A x, y \in Nat : y < x => <<y, x>> \in R
  BY DEF OpToRel
<1> HIDE DEF R
<1>3. \E x \in T : \A y \in T : ~(<<y, x>> \in R)
  BY <1>1, WFMin
<1> QED BY <1>2, <1>3, NoLesser, Zenon

\* The parent of a place lies before it; a place is a parent of two.
LEMMA ParentFacts ==
  /\ \A k \in Nat : k >= 2 => Parent(k) \in Nat /\ 1 <= Parent(k) /\ Parent(k) < k
  /\ \A i, k \in Nat : Parent(k) = i <=> (k = 2 * i \/ k = 2 * i + 1)
  BY DEF Parent

\* Priorities and sequence numbers are integers.
LEMMA ItemFields == ASSUME NEW x \in Item PROVE x.priority \in Int /\ x.seq \in Int
<1>1. x.priority \in Priorities /\ x.seq \in 1 .. MaxSeq
  BY DEF Item
<1>2. x.priority \in Int
  BY <1>1, QueueAssumption, Zenon
<1>3. x.seq \in Int
  BY <1>1, QueueAssumption
<1> QED BY <1>2, <1>3

\* Less is a strict total order up to equality of priority and number; its
\* negation is transitive.
LEMMA LessFacts ==
  ASSUME NEW a \in Item, NEW b \in Item, NEW c \in Item
  PROVE  /\ ~Less(a, a)
         /\ Less(a, b) => ~Less(b, a)
         /\ ~Less(a, b) /\ ~Less(b, c) => ~Less(a, c)
<1>1. /\ a.priority \in Int /\ b.priority \in Int /\ c.priority \in Int
      /\ a.seq \in Int /\ b.seq \in Int /\ c.seq \in Int
  BY ItemFields
<1> QED BY <1>1 DEF Less

\* In a heap the first item comes before all others: the least place where
\* this failed would have a parent where it holds.
LEMMA RootIsBest ==
  ASSUME NEW h \in Seq(Item), h # <<>>,
         \A k \in 2 .. Len(h) : ~Less(h[k], h[Parent(k)])
  PROVE  \A k \in 1 .. Len(h) : ~Less(h[k], h[1])
<1> DEFINE T == {k \in 1 .. Len(h) : Less(h[k], h[1])}
<1>0. \A k \in 1 .. Len(h) : h[k] \in Item
  OBVIOUS
<1>1. SUFFICES ASSUME T # {} PROVE FALSE
  OBVIOUS
<1>2. T \in SUBSET Nat
  OBVIOUS
<1>3. PICK k \in T : \A y \in T : k <= y
  <2> HIDE DEF T
  <2> QED BY <1>1, <1>2, LeastNat
<1>4. k # 1
  BY <1>0, <1>3, LessFacts
<1>5. Parent(k) \in 1 .. Len(h) /\ Parent(k) < k
  BY <1>3, <1>4, ParentFacts
<1>6. ~Less(h[Parent(k)], h[1])
  BY <1>3, <1>5
<1>7. ~Less(h[k], h[Parent(k)])
  BY <1>3, <1>4
<1> QED
  <2>1. h[k] \in Item /\ h[Parent(k)] \in Item /\ h[1] \in Item
    BY <1>0, <1>3, <1>5
  <2> QED BY <1>3, <1>6, <1>7, <2>1, LessFacts

-----------------------------------------------------------------------------
(***************************************************************************)
(* The inductive invariant                                                 *)
(***************************************************************************)
\* Every place of the heap holds an item.
LEMMA ItemsTyped == TypeOK => \A k \in 1 .. Len(items) : items[k] \in Item
  BY DEF TypeOK

\* Push appends an item with a number of its own, which only its place in
\* the heap may be wrong for.
LEMMA PushStep == ASSUME IndInv, NEW p \in Priorities, Push(p) PROVE IndInv'
<1> DEFINE x == [priority |-> p, seq |-> seq + 1]
<1> USE DEF IndInv, Push, innerPush
<1>1. x \in Item
  BY QueueAssumption DEF TypeOK, Item
<1>2. items' = Append(items, x)
  OBVIOUS
<1>3. /\ items' \in Seq(Item) /\ Len(items') = Len(items) + 1
      /\ \A k \in 1 .. Len(items) : items'[k] = items[k]
      /\ items'[Len(items) + 1] = x
  <2> HIDE DEF x
  <2> QED BY <1>1, <1>2 DEF TypeOK
<1> HIDE DEF x
<1>4. TypeOK'
  BY <1>3, QueueAssumption DEF TypeOK
<1>5. HeapOrder' /\ DownOrder' /\ LastIsBest'
  BY DEF HeapOrder, DownOrder, LastIsBest
<1>6. UpOrder'
  <2>1. pos' \in 1 .. Len(items')
    BY <1>3 DEF TypeOK
  <2>2. ASSUME NEW k \in 2 .. Len(items'), k # pos' PROVE Ordered(k)'
    <3>1. k \in 2 .. Len(items) /\ Parent(k) \in 1 .. Len(items)
      BY <1>3, <2>2, ParentFacts DEF TypeOK
    <3>2. Ordered(k)
      BY <3>1 DEF HeapOrder
    <3>3. items'[k] = items[k] /\ items'[Parent(k)] = items[Parent(k)]
      BY <1>3, <3>1
    <3> QED BY <3>2, <3>3 DEF Ordered
  <2>3. ASSUME NEW k \in 2 .. Len(items'), Parent(k) = pos' PROVE FALSE
    BY <1>3, <2>3, ParentFacts DEF TypeOK
  <2> QED BY <2>1, <2>2, <2>3 DEF UpOrder, Parent
<1>7. Numbered'
  <2>1. x.seq = seq + 1
    BY DEF x
  <2>2. \A k \in 1 .. Len(items) : items[k].seq \in Int /\ items[k].seq <= seq
    BY ItemsTyped, QueueAssumption DEF Numbered, Item
  <2>3. \A k \in 1 .. Len(items') : k \in 1 .. Len(items) \/ k = Len(items) + 1
    BY <1>3 DEF TypeOK
  <2>4. \A k \in 1 .. Len(items') : items'[k].seq <= seq'
    BY <1>3, <2>1, <2>2, <2>3 DEF TypeOK
  <2>5. ASSUME NEW j \in 1 .. Len(items'), NEW k \in 1 .. Len(items'),
               items'[j].seq = items'[k].seq
        PROVE  j = k
    <3>1. CASE j \in 1 .. Len(items) /\ k \in 1 .. Len(items)
      BY <1>3, <2>5, <3>1 DEF Numbered
    <3>2. CASE j = Len(items) + 1 /\ k \in 1 .. Len(items)
      BY <1>3, <2>1, <2>2, <2>5, <3>2 DEF TypeOK
    <3>3. CASE k = Len(items) + 1 /\ j \in 1 .. Len(items)
      BY <1>3, <2>1, <2>2, <2>5, <3>3 DEF TypeOK
    <3> QED BY <2>3, <3>1, <3>2, <3>3
  <2> QED BY <2>4, <2>5 DEF Numbered
<1> QED BY <1>4, <1>5, <1>6, <1>7 DEF IndInv

\* innerHeap.Pop keeps all items but the last.
LEMMA FrontFacts ==
  ASSUME TypeOK, items # <<>>
  PROVE  /\ innerPop(items) \in Seq(Item)
         /\ Len(innerPop(items)) = Len(items) - 1
         /\ \A k \in 1 .. Len(items) - 1 : innerPop(items)[k] = items[k]
<1> DEFINE n == Len(items) - 1
<1>1. n \in Nat /\ \A k \in 1 .. n : items[k] \in Item
  BY DEF TypeOK
<1> HIDE DEF n
<1>2. /\ SubSeq(items, 1, n) \in Seq(Item)
      /\ Len(SubSeq(items, 1, n)) = IF 1 <= n THEN n - 1 + 1 ELSE 0
      /\ \A k \in 1 .. n - 1 + 1 : SubSeq(items, 1, n)[k] = items[1 + k - 1]
  BY <1>1, SubSeqProperties
<1>3. Len(SubSeq(items, 1, n)) = n /\ \A k \in 1 .. n : SubSeq(items, 1, n)[k] = items[k]
  BY <1>1, <1>2
<1> QED BY <1>2, <1>3 DEF innerPop, n

\* A step that swaps two items keeps them typed and numbered.
LEMMA SwapKeeps ==
  ASSUME TypeOK, Numbered, NEW i \in 1 .. Len(items), NEW j \in 1 .. Len(items),
         items' = Swap(items, i, j), seq' = seq
  PROVE  /\ items' \in Seq(Item) /\ Len(items') = Len(items)
         /\ \A k \in 1 .. Len(items) :
              items'[k] = IF k = j THEN items[i] ELSE IF k = i THEN items[j] ELSE items[k]
         /\ Numbered'
<1>1. /\ items' \in Seq(Item) /\ Len(items') = Len(items)
      /\ \A k \in 1 .. Len(items) :
           items'[k] = IF k = j THEN items[i] ELSE IF k = i THEN items[j] ELSE items[k]
  BY DEF TypeOK, Swap
<1>2. \A k \in 1 .. Len(items') : items'[k].seq <= seq'
  BY <1>1 DEF Numbered
<1>3. \A k, l \in 1 .. Len(items') : items'[k].seq = items'[l].seq => k = l
  BY <1>1 DEF Numbered
<1> QED BY <1>1, <1>2, <1>3 DEF Numbered

\* A swap with the parent moves the one place that may be out of order up.
LEMMA SiftUpStep == ASSUME IndInv, SiftUp PROVE IndInv'
<1> DEFINE q == Parent(pos)
           n == Len(items)
<1> USE DEF IndInv, SiftUp
<1>0. n \in Nat /\ pos \in 2 .. n /\ q \in 1 .. n /\ q < pos /\ q \in Nat /\ pos \in Nat
  BY ParentFacts DEF TypeOK, UpOrder
<1>1. /\ items' \in Seq(Item) /\ Len(items') = n
      /\ \A k \in 1 .. n :
           items'[k] = IF k = q THEN items[pos] ELSE IF k = pos THEN items[q] ELSE items[k]
      /\ Numbered'
  BY <1>0, SwapKeeps
<1>2. TypeOK' /\ HeapOrder' /\ DownOrder' /\ LastIsBest'
  BY <1>0, <1>1 DEF TypeOK, HeapOrder, DownOrder, LastIsBest
<1>3. \A k \in 1 .. n : items[k] \in Item
  BY ItemsTyped
<1>4. /\ \A k \in 2 .. n : k # pos => ~Less(items[k], items[Parent(k)])
      /\ \A k \in 2 .. n : Parent(k) = pos => ~Less(items[k], items[q])
      /\ Less(items[pos], items[q]) /\ ~Less(items[q], items[pos])
  BY <1>0, <1>3, LessFacts DEF UpOrder, Ordered
<1>5. \A k \in 2 .. n : Parent(k) \in 1 .. n /\ Parent(k) < k
  BY <1>0, ParentFacts
<1> HIDE DEF q, n
<1>6. ASSUME NEW k \in 2 .. n, k # q PROVE ~Less(items'[k], items'[Parent(k)])
  <2>1. CASE k = pos
    BY <1>0, <1>1, <1>4, <2>1 DEF q
  <2>2. CASE Parent(k) = pos
    <3>1. items'[k] = items[k] /\ items'[Parent(k)] = items[q]
      BY <1>0, <1>1, <1>5, <1>6, <2>2
    <3> QED BY <1>4, <2>2, <3>1
  <2>3. CASE Parent(k) = q /\ k # pos
    <3>1. items'[k] = items[k] /\ items'[Parent(k)] = items[pos]
      BY <1>0, <1>1, <1>6, <2>3
    <3>2. ~Less(items[k], items[q]) /\ ~Less(items[q], items[pos])
      BY <1>4, <2>3
    <3>3. items[k] \in Item /\ items[q] \in Item /\ items[pos] \in Item
      BY <1>0, <1>3
    <3> QED BY <3>1, <3>2, <3>3, LessFacts
  <2>4. CASE k # pos /\ Parent(k) # pos /\ Parent(k) # q
    <3>1. items'[k] = items[k] /\ items'[Parent(k)] = items[Parent(k)]
      BY <1>0, <1>1, <1>5, <1>6, <2>4
    <3> QED BY <1>4, <2>4, <3>1
  <2> QED BY <2>1, <2>2, <2>3, <2>4
<1>7. ASSUME NEW k \in 2 .. n, Parent(k) = q, q > 1
      PROVE  ~Less(items'[k], items'[Parent(q)])
  <2>1. q \in 2 .. n /\ Parent(q) \in 1 .. n /\ Parent(q) < q
    BY <1>0, <1>5, <1>7
  <2>2. items'[Parent(q)] = items[Parent(q)]
    BY <1>0, <1>1, <2>1
  <2>3. ~Less(items[q], items[Parent(q)])
    BY <1>0, <1>4, <2>1
  <2>4. CASE k = pos
    BY <1>0, <1>1, <2>2, <2>3, <2>4
  <2>5. CASE k # pos
    <3>1. items'[k] = items[k]
      BY <1>0, <1>1, <1>5, <1>7, <2>5
    <3>2. ~Less(items[k], items[q])
      BY <1>4, <1>7, <2>5
    <3>3. items[k] \in Item /\ items[q] \in Item /\ items[Parent(q)] \in Item
      BY <1>0, <1>3, <2>1
    <3> QED BY <2>2, <2>3, <3>1, <3>2, <3>3, LessFacts
  <2> QED BY <2>4, <2>5
<1>8. UpOrder'
  BY <1>0, <1>1, <1>6, <1>7 DEF UpOrder, Ordered, Parent, q
<1> QED BY <1>1, <1>2, <1>8

\* The lesser child of pos: a place in the heap, after which its sibling
\* comes.
LEMMA ChildFacts ==
  ASSUME TypeOK, NEW n \in Nat, n < Len(items), pos >= 1, 2 * pos <= n
  PROVE  /\ Child(pos, n) \in 2 .. n /\ Parent(Child(pos, n)) = pos
         /\ \A k \in 2 .. n : Parent(k) = pos => ~Less(items[k], items[Child(pos, n)])
<1>0. pos \in Nat /\ Len(items) \in Nat
  BY DEF TypeOK
<1>1. Child(pos, n) \in 2 .. n /\ Parent(Child(pos, n)) = pos
  BY <1>0, ParentFacts DEF Child
<1>2. ASSUME NEW k \in 2 .. n, Parent(k) = pos
      PROVE  ~Less(items[k], items[Child(pos, n)])
  <2>1. k = 2 * pos \/ k = 2 * pos + 1
    BY <1>0, <1>2, ParentFacts
  <2>2. items[k] \in Item /\ items[2 * pos] \in Item
    BY <1>0, ItemsTyped
  <2>3. CASE 2 * pos + 1 <= n /\ Less(items[2 * pos + 1], items[2 * pos])
    <3>1. Child(pos, n) = 2 * pos + 1
      BY <2>3 DEF Child
    <3>2. items[2 * pos + 1] \in Item
      BY <1>0, <2>3, ItemsTyped
    <3> QED BY <2>1, <2>2, <2>3, <3>1, <3>2, LessFacts
  <2>4. CASE ~(2 * pos + 1 <= n /\ Less(items[2 * pos + 1], items[2 * pos]))
    <3>1. Child(pos, n) = 2 * pos
      BY <2>4 DEF Child
    <3>2. k = 2 * pos + 1 => 2 * pos + 1 <= n
      BY <1>0
    <3> QED BY <2>1, <2>2, <2>4, <3>1, <3>2, LessFacts
  <2> QED BY <2>3, <2>4
<1> QED BY <1>1, <1>2

\* A swap with the lesser child moves the one place that may be out of order
\* down, and leaves the last item alone.
LEMMA SiftDownStep == ASSUME IndInv, SiftDown PROVE IndInv'
<1> DEFINE m == Len(items)
           n == Len(items) - 1
           c == Child(pos, n)
<1> USE DEF IndInv, SiftDown
<1>0. m \in Nat /\ n \in Nat /\ n = m - 1 /\ pos \in Nat /\ pos \in 1 .. n /\ 2 * pos <= n
  BY DEF TypeOK, DownOrder, MustSink
<1>1. /\ c \in 2 .. n /\ Parent(c) = pos
      /\ \A k \in 2 .. n : Parent(k) = pos => ~Less(items[k], items[c])
  BY <1>0, ChildFacts
<1>2. Less(items[c], items[pos]) /\ items' = Swap(items, pos, c) /\ pos' = c /\ seq' = seq
  BY DEF MustSink
<1>3. \A k \in 1 .. m : items[k] \in Item
  BY ItemsTyped
<1>4. /\ \A k \in 2 .. n : Parent(k) # pos => ~Less(items[k], items[Parent(k)])
      /\ \A k \in 2 .. n : Parent(k) = pos /\ pos > 1 => ~Less(items[k], items[Parent(pos)])
  BY DEF DownOrder, Ordered
<1>5. \A k \in 2 .. n : Parent(k) \in 1 .. n /\ Parent(k) < k
  BY <1>0, ParentFacts
<1>6. \A k \in 1 .. m : ~Less(items[k], items[m])
  BY DEF LastIsBest
<1> HIDE DEF m, n, c
<1>7. /\ items' \in Seq(Item) /\ Len(items') = m
      /\ \A k \in 1 .. m :
           items'[k] = IF k = c THEN items[pos] ELSE IF k = pos THEN items[c] ELSE items[k]
      /\ Numbered'
  <2>1. pos \in 1 .. Len(items) /\ c \in 1 .. Len(items)
    BY <1>0, <1>1 DEF m
  <2> QED BY <1>2, <2>1, SwapKeeps DEF m
<1>8. TypeOK' /\ HeapOrder' /\ UpOrder'
  BY <1>0, <1>1, <1>2, <1>7 DEF TypeOK, HeapOrder, UpOrder
<1>9. ASSUME NEW k \in 2 .. n, Parent(k) # c PROVE ~Less(items'[k], items'[Parent(k)])
  <2>0. /\ items'[c] = items[pos] /\ items'[pos] = items[c] /\ c # pos
        /\ \A l \in 1 .. n : l # c /\ l # pos => items'[l] = items[l]
    BY <1>0, <1>1, <1>5, <1>7
  <2>1. CASE k = c
    <3>1. items[c] \in Item /\ items[pos] \in Item
      BY <1>0, <1>1, <1>3
    <3> QED BY <1>1, <1>2, <2>0, <2>1, <3>1, LessFacts
  <2>2. CASE k = pos
    <3>1. items'[Parent(k)] = items[Parent(pos)]
      BY <1>0, <1>5, <1>9, <2>0, <2>2
    <3> QED BY <1>0, <1>1, <1>4, <2>0, <2>2, <3>1
  <2>3. CASE Parent(k) = pos /\ k # c /\ k # pos
    BY <1>0, <1>1, <1>9, <2>0, <2>3
  <2>4. CASE Parent(k) # pos /\ k # c /\ k # pos
    <3>1. items'[k] = items[k] /\ items'[Parent(k)] = items[Parent(k)]
      BY <1>0, <1>5, <1>9, <2>0, <2>4
    <3> QED BY <1>4, <2>4, <3>1
  <2> QED BY <2>1, <2>2, <2>3, <2>4
<1>10. ASSUME NEW k \in 2 .. n, Parent(k) = c PROVE ~Less(items'[k], items'[pos])
  <2>1. c # pos /\ k # c /\ k # pos
    BY <1>0, <1>1, <1>5, <1>10
  <2>2. items'[k] = items[k] /\ items'[pos] = items[c]
    BY <1>0, <1>7, <2>1
  <2> QED BY <1>4, <1>10, <2>1, <2>2
<1>11. DownOrder'
  <2>1. Len(items') - 1 = n /\ items' # <<>> /\ pos' \in 1 .. Len(items') - 1
    BY <1>0, <1>1, <1>2, <1>7
  <2> QED BY <1>1, <1>2, <1>9, <1>10, <2>1 DEF DownOrder, Ordered, Parent
<1>12. LastIsBest'
  <2>1. items'[m] = items[m]
    BY <1>0, <1>1, <1>7
  <2>2. \A k \in 1 .. m : ~Less(items'[k], items'[m])
    BY <1>0, <1>1, <1>6, <1>7, <2>1
  <2> QED BY <1>7, <2>2 DEF LastIsBest
<1> QED BY <1>7, <1>8, <1>11, <1>12

\* Push returns when the item is not less than its parent: a heap.
LEMMA PushReturnsStep == ASSUME IndInv, PushReturns PROVE IndInv'
<1> USE DEF IndInv, PushReturns
<1>1. TypeOK' /\ UpOrder' /\ DownOrder' /\ LastIsBest' /\ Numbered'
  BY DEF TypeOK, UpOrder, DownOrder, LastIsBest, Numbered
<1>2. \A k \in 2 .. Len(items) : ~Less(items[k], items[Parent(k)])
  BY DEF UpOrder, Ordered, TypeOK
<1>3. HeapOrder'
  BY <1>2 DEF HeapOrder, Ordered
<1> QED BY <1>1, <1>3

\* heap.Pop moves the first item, the best, to the end.
LEMMA PopStep == ASSUME IndInv, Pop PROVE IndInv'
<1> DEFINE m == Len(items)
<1> USE DEF IndInv, Pop
<1>0. m \in Nat /\ m >= 1
  BY DEF TypeOK
<1>1. /\ items' \in Seq(Item) /\ Len(items') = m
      /\ \A k \in 1 .. m :
           items'[k] = IF k = m THEN items[1] ELSE IF k = 1 THEN items[m] ELSE items[k]
      /\ Numbered'
  <2>1. 1 \in 1 .. Len(items) /\ Len(items) \in 1 .. Len(items)
    BY <1>0
  <2> QED BY <2>1, SwapKeeps
<1>2. TypeOK' /\ HeapOrder' /\ UpOrder'
  BY <1>1 DEF TypeOK, HeapOrder, UpOrder
<1>3. \A k \in 2 .. m : ~Less(items[k], items[Parent(k)])
  BY DEF HeapOrder, Ordered
<1>4. \A k \in 1 .. m : ~Less(items[k], items[1])
  BY <1>3, RootIsBest DEF TypeOK
<1>5. \A k \in 2 .. m : Parent(k) \in 1 .. m /\ Parent(k) < k
  BY <1>0, ParentFacts
<1> HIDE DEF m
<1>6. LastIsBest'
  <2>1. items'[m] = items[1]
    BY <1>0, <1>1
  <2>2. \A k \in 1 .. m : ~Less(items'[k], items'[m])
    BY <1>0, <1>1, <1>4, <2>1
  <2> QED BY <1>1, <2>2 DEF LastIsBest
<1>7. ASSUME NEW k \in 2 .. m - 1, Parent(k) # 1 PROVE ~Less(items'[k], items'[Parent(k)])
  <2>1. items'[k] = items[k] /\ items'[Parent(k)] = items[Parent(k)]
    BY <1>0, <1>1, <1>5, <1>7
  <2> QED BY <1>0, <1>3, <2>1
<1>8. DownOrder'
  <2>1. items' # <<>> /\ pos' = 1
    BY <1>0, <1>1
  <2> QED BY <1>1, <1>7, <2>1 DEF DownOrder, Ordered, Parent
<1> QED BY <1>1, <1>2, <1>6, <1>8

\* Pop returns when the item at pos is not greater than its children: what
\* is left is a heap.
LEMMA PopReturnsStep == ASSUME IndInv, PopReturns PROVE IndInv'
<1> DEFINE n == Len(items) - 1
<1> USE DEF IndInv, PopReturns, innerPop
<1>0. n \in Nat /\ n < Len(items) /\ pos \in Nat /\ pos >= 1 /\ Len(items) \in 1 .. Len(items)
  BY DEF TypeOK, DownOrder
<1>1. /\ items' \in Seq(Item) /\ Len(items') = n
      /\ \A k \in 1 .. n : items'[k] = items[k]
  BY <1>0, FrontFacts DEF DownOrder
<1>2. TypeOK'
  <2>1. items[Len(items)] \in Item
    BY <1>0, ItemsTyped
  <2>2. items[Len(items)].seq \in Nat
    BY <2>1, QueueAssumption DEF Item
  <2> QED BY <1>1, <2>2 DEF TypeOK
<1>3. UpOrder' /\ DownOrder' /\ LastIsBest'
  BY DEF UpOrder, DownOrder, LastIsBest
<1>4. Numbered'
  BY <1>0, <1>1 DEF Numbered
<1>5. ASSUME NEW k \in 2 .. n PROVE ~Less(items[k], items[Parent(k)])
  <2>1. CASE Parent(k) # pos
    BY <2>1 DEF DownOrder, Ordered
  <2>2. CASE Parent(k) = pos
    <3>1. 2 * pos <= n
      BY <1>0, <2>2, ParentFacts
    <3>2. Child(pos, n) \in 2 .. n /\ ~Less(items[k], items[Child(pos, n)])
      BY <1>0, <2>2, <3>1, ChildFacts
    <3>3. ~Less(items[Child(pos, n)], items[pos])
      BY <3>1 DEF MustSink
    <3>4. items[k] \in Item /\ items[Child(pos, n)] \in Item /\ items[pos] \in Item
      BY <1>0, <3>1, <3>2, ItemsTyped
    <3> QED BY <2>2, <3>2, <3>3, <3>4, LessFacts
  <2> QED BY <2>1, <2>2
<1>6. HeapOrder'
  <2>1. \A k \in 2 .. n : Parent(k) \in 1 .. n
    BY <1>0, ParentFacts
  <2>2. \A k \in 2 .. n : ~Less(items'[k], items'[Parent(k)])
    BY <1>0, <1>1, <1>5, <2>1
  <2> QED BY <1>1, <2>2 DEF HeapOrder, Ordered, Parent
<1> QED BY <1>2, <1>3, <1>4, <1>6

\* The heap of PriorityQueue is in order between calls, whatever the calls:
\* IndInv holds in every reachable state.
THEOREM Invariance == Spec => []IndInv
<1>1. Init => IndInv
  BY QueueAssumption DEF Init, IndInv, TypeOK, HeapOrder, UpOrder, DownOrder, LastIsBest, Numbered
<1>2. IndInv /\ [Next]_vars => IndInv'
  <2> SUFFICES ASSUME IndInv, [Next]_vars PROVE IndInv'
    OBVIOUS
  <2>1. CASE \E p \in Priorities : Push(p)
    BY <2>1, PushStep
  <2>2. CASE SiftUp
    BY <2>2, SiftUpStep
  <2>3. CASE PushReturns
    BY <2>3, PushReturnsStep
  <2>4. CASE Pop
    BY <2>4, PopStep
  <2>5. CASE SiftDown
    BY <2>5, SiftDownStep
  <2>6. CASE PopReturns
    BY <2>6, PopReturnsStep
  <2>7. CASE Peek
    <3>1. items[1].seq \in Nat
      <4>1. items[1] \in Item
        BY <2>7 DEF IndInv, TypeOK, Peek
      <4> QED BY <4>1, QueueAssumption DEF Item
    <3> QED BY <2>7, <3>1 DEF Peek, IndInv, TypeOK, HeapOrder, UpOrder, DownOrder,
                              LastIsBest, Numbered, Ordered
  <2>8. CASE Empty
    BY <2>8 DEF Empty, IndInv, TypeOK, HeapOrder, UpOrder, DownOrder, LastIsBest, Numbered, Ordered
  <2>9. CASE UNCHANGED vars
    BY <2>9 DEF vars, IndInv, TypeOK, HeapOrder, UpOrder, DownOrder, LastIsBest, Numbered, Ordered
  <2> QED BY <2>1, <2>2, <2>3, <2>4, <2>5, <2>6, <2>7, <2>8, <2>9 DEF Next
<1> QED BY <1>1, <1>2, PTL DEF Spec

\* The state of PriorityQueue has its type.
THEOREM TypeCorrect == Spec => []TypeOK
  BY Invariance, PTL DEF IndInv

-----------------------------------------------------------------------------
(***************************************************************************)
(* The queue implements StablePriorityQueue                                *)
(***************************************************************************)
\* The item all others come after is the oldest of the highest priority.
LEMMA BestIsNext ==
  ASSUME TypeOK, NEW i \in 1 .. Len(items),
         \A k \in 1 .. Len(items) : ~Less(items[k], items[i])
  PROVE  Abstract!IsNext(items[i])
<1> DEFINE C == {items[k] : k \in 1 .. Len(items)}
           e == items[i]
<1>1. e \in C /\ \A f \in C : f \in Item /\ ~Less(f, e)
  BY ItemsTyped
<1>2. \A f \in C : f.priority \in Int /\ f.seq \in Int
  BY <1>1, ItemFields
<1> HIDE DEF C, e
<1>3. \A f \in C : f.priority <= e.priority
  BY <1>1, <1>2 DEF Less
<1>4. \A f \in C : e.priority <= f.priority => e.seq <= f.seq
  BY <1>1, <1>2 DEF Less
<1> QED BY <1>1, <1>3, <1>4 DEF Abstract!IsNext, Abstract!Highest, C, e

\* A swap keeps the contents.
LEMMA SwapContents ==
  ASSUME TypeOK, NEW i \in 1 .. Len(items), NEW j \in 1 .. Len(items),
         Numbered, items' = Swap(items, i, j), seq' = seq
  PROVE  {items[k] : k \in 1 .. Len(items)}' = {items[k] : k \in 1 .. Len(items)}
<1>1. /\ Len(items') = Len(items)
      /\ \A k \in 1 .. Len(items) :
           items'[k] = IF k = j THEN items[i] ELSE IF k = i THEN items[j] ELSE items[k]
  BY SwapKeeps
<1>2. \A k \in 1 .. Len(items) : \E l \in 1 .. Len(items) : items'[k] = items[l]
  BY <1>1
<1>3. \A k \in 1 .. Len(items) : \E l \in 1 .. Len(items) : items[k] = items'[l]
  BY <1>1
<1> DEFINE C == {items[k] : k \in 1 .. Len(items)}
           D == {items'[k] : k \in 1 .. Len(items)}
<1>4. ASSUME NEW x \in D PROVE x \in C
  <2>1. PICK k \in 1 .. Len(items) : x = items'[k]
    BY <1>4
  <2>2. PICK l \in 1 .. Len(items) : x = items[l]
    BY <1>2, <2>1
  <2> QED BY <2>2
<1>5. ASSUME NEW x \in C PROVE x \in D
  <2>1. PICK k \in 1 .. Len(items) : x = items[k]
    BY <1>5
  <2>2. PICK l \in 1 .. Len(items) : x = items'[l]
    BY <1>3, <2>1
  <2> QED BY <2>2
<1>6. D = C
  <2> HIDE DEF C, D
  <2> QED BY <1>4, <1>5
<1> QED BY <1>1, <1>6

\* "Items with higher priority are dequeued first.  Items with equal priority
\* are dequeued in FIFO order": every step of PriorityQueue is a step of that
\* queue or none.
THEOREM Refinement == Spec => Stable
<1>1. Init => Abstract!Init
  BY DEF Init, Abstract!Init
<1>2. IndInv /\ [Next]_vars => [Abstract!Next]_Abstract!vars
  <2> SUFFICES ASSUME IndInv, [Next]_vars PROVE [Abstract!Next]_Abstract!vars
    OBVIOUS
  <2> DEFINE C == {items[k] : k \in 1 .. Len(items)}
  <2> USE DEF IndInv
  <2>1. ASSUME NEW p \in Priorities, Push(p) PROVE Abstract!Push(p)
    <3> DEFINE x == [priority |-> p, seq |-> seq + 1]
    <3>0. x \in Item
      BY QueueAssumption, <2>1 DEF TypeOK, Item, Push
    <3>1. items' = Append(items, x)
      BY <2>1 DEF Push, innerPush
    <3> HIDE DEF x
    <3>2. /\ Len(items') = Len(items) + 1 /\ Len(items) \in Nat
          /\ \A k \in 1 .. Len(items) : items'[k] = items[k]
          /\ items'[Len(items) + 1] = x
      BY <3>0, <3>1 DEF TypeOK
    <3>3. C' = C \cup {x}
      BY <3>2
    <3> QED BY <2>1, <3>3 DEF Push, Abstract!Push, x
  <2>2. ASSUME SiftUp PROVE UNCHANGED Abstract!vars
    <3>1. pos \in 1 .. Len(items) /\ Parent(pos) \in 1 .. Len(items)
      BY <2>2, ParentFacts DEF SiftUp, TypeOK, UpOrder
    <3>2. C' = C
      BY <2>2, <3>1, SwapContents DEF SiftUp
    <3> QED BY <2>2, <3>2 DEF SiftUp, Abstract!vars
  <2>3. ASSUME SiftDown PROVE UNCHANGED Abstract!vars
    <3> DEFINE n == Len(items) - 1
    <3>1. pos \in 1 .. Len(items) /\ n \in Nat /\ n < Len(items) /\ 2 * pos <= n
      BY <2>3 DEF SiftDown, MustSink, TypeOK, DownOrder
    <3>2. Child(pos, n) \in 1 .. Len(items)
      <4>1. Child(pos, n) \in 2 .. n
        BY <3>1, ChildFacts
      <4> QED BY <3>1, <4>1
    <3>3. C' = C
      BY <2>3, <3>1, <3>2, SwapContents DEF SiftDown
    <3> QED BY <2>3, <3>3 DEF SiftDown, Abstract!vars
  <2>4. ASSUME Pop PROVE UNCHANGED Abstract!vars
    <3>1. 1 \in 1 .. Len(items) /\ Len(items) \in 1 .. Len(items)
      BY <2>4 DEF Pop, TypeOK
    <3>2. C' = C
      BY <2>4, <3>1, SwapContents DEF Pop
    <3> QED BY <2>4, <3>2 DEF Pop, Abstract!vars
  <2>5. ASSUME PopReturns PROVE \E e \in C : Abstract!Pop(e)
    <3> DEFINE m == Len(items)
               e == items[m]
    <3>1. m \in 1 .. m /\ e \in C
      BY <2>5 DEF PopReturns, TypeOK, DownOrder
    <3>2. Abstract!IsNext(e)
      BY <2>5, <3>1, BestIsNext DEF PopReturns, LastIsBest
    <3>3. Len(items') = m - 1 /\ \A k \in 1 .. m - 1 : items'[k] = items[k]
      BY <2>5, FrontFacts DEF PopReturns, DownOrder
    <3>4. \A k \in 1 .. m - 1 : items[k] # items[m]
      BY <3>1 DEF Numbered
    <3>5. C' = C \ {e}
      BY <3>1, <3>3, <3>4
    <3> QED BY <2>5, <3>1, <3>2, <3>5 DEF PopReturns, Abstract!Pop
  <2>6. ASSUME Peek PROVE \E e \in C : Abstract!Peek(e)
    <3>1. 1 \in 1 .. Len(items) /\ items[1] \in C
      BY <2>6 DEF Peek, TypeOK
    <3>2. \A k \in 2 .. Len(items) : ~Less(items[k], items[Parent(k)])
      BY <2>6 DEF Peek, HeapOrder, Ordered
    <3>3. \A k \in 1 .. Len(items) : ~Less(items[k], items[1])
      BY <2>6, <3>2, RootIsBest DEF Peek, TypeOK
    <3>4. Abstract!IsNext(items[1])
      BY <3>1, <3>3, BestIsNext
    <3> QED BY <2>6, <3>1, <3>4 DEF Peek, Abstract!Peek
  <2>7. ASSUME Empty PROVE Abstract!Empty
    BY <2>7 DEF Empty, Abstract!Empty
  <2>8. ASSUME PushReturns \/ UNCHANGED vars PROVE UNCHANGED Abstract!vars
    BY <2>8 DEF PushReturns, vars, Abstract!vars
  <2> QED
    BY <2>1, <2>2, <2>3, <2>4, <2>5, <2>6, <2>7, <2>8 DEF Next, Abstract!Next
<1> QED BY <1>1, <1>2, Invariance, PTL DEF Spec, Stable, Abstract!Spec
=============================================================================
