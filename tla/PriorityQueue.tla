--------------------------- MODULE PriorityQueue ---------------------------
(***************************************************************************)
(* The priority queue of pkg/queue/queue.go: a binary heap of items, kept  *)
(* by container/heap, under one mutex.                                     *)
(*                                                                         *)
(* Push and Pop hold pq.mu throughout.  Each swap of the heap's sift loops *)
(* is a step of its own, with op and pos the loop under way; the calls of  *)
(* other goroutines wait for the lock (op = "idle").                       *)
(*                                                                         *)
(* items is 1-based here.  The value pushed n-th is represented by n, its  *)
(* seq: the code never looks at a value.  item.index is written and never  *)
(* read, and left out; Len and IsEmpty only read.                          *)
(***************************************************************************)
EXTENDS Integers, Sequences

CONSTANTS
  Priorities,   \* the priorities used; Priority is any int
  MaxSeq,       \* how many values are pushed at most; seq is a uint64
  None          \* Pop and Peek return false

ASSUME QueueAssumption ==
  /\ Priorities \subseteq Int
  /\ MaxSeq \in Nat
  /\ None \notin Nat

VARIABLES
  items,   \* pq.h.items
  seq,     \* pq.seq
  op,      \* the sift loop under way, if any: who holds pq.mu
  pos,     \* its position
  out      \* what the last Pop or Peek returned

vars == <<items, seq, op, pos, out>>

Item == [priority : Priorities, seq : 1 .. MaxSeq]

TypeOK ==
  /\ items \in Seq(Item)
  /\ seq \in 0 .. MaxSeq
  /\ op \in {"idle", "up", "down"}
  /\ pos \in Nat
  /\ out \in Nat \cup {None}

Init == items = <<>> /\ seq = 0 /\ op = "idle" /\ pos = 0 /\ out = None

-----------------------------------------------------------------------------
(***************************************************************************)
(* innerHeap                                                               *)
(***************************************************************************)
\* Mutant: equal priorities are not ordered.
Less_PriorityOnly(a, b) == a.priority > b.priority

\* Higher priority first; if equal, earlier insertion first.
Less(a, b) ==
  \/ a.priority > b.priority
  \/ a.priority = b.priority /\ a.seq < b.seq

Swap(h, i, j) == [h EXCEPT ![i] = h[j], ![j] = h[i]]

\* innerHeap.Push and innerHeap.Pop work at the end of the slice.
innerPush(h, x) == Append(h, x)
innerPop(h)     == SubSeq(h, 1, Len(h) - 1)

-----------------------------------------------------------------------------
(***************************************************************************)
(* container/heap                                                          *)
(***************************************************************************)
Parent(j) == j \div 2

\* up: one swap with the parent, while the item at pos is less.
SiftUp ==
  /\ op = "up"
  /\ pos > 1 /\ Less(items[pos], items[Parent(pos)])
  /\ items' = Swap(items, pos, Parent(pos))
  /\ pos' = Parent(pos)
  /\ UNCHANGED <<seq, op, out>>

\* down: the lesser of the two children of i, of which the second may be
\* missing, in a heap of n items.
Child(i, n) ==
  IF 2 * i + 1 <= n /\ Less(items[2 * i + 1], items[2 * i]) THEN 2 * i + 1 ELSE 2 * i

\* down works on all items but the last, which heap.Pop has put there.
MustSink == LET n == Len(items) - 1
            IN  2 * pos <= n /\ Less(items[Child(pos, n)], items[pos])

\* One swap with the lesser child, while that is less.
SiftDown ==
  /\ op = "down"
  /\ MustSink
  /\ LET c == Child(pos, Len(items) - 1)
     IN  items' = Swap(items, pos, c) /\ pos' = c
  /\ UNCHANGED <<seq, op, out>>

-----------------------------------------------------------------------------
(***************************************************************************)
(* PriorityQueue                                                           *)
(***************************************************************************)

\* Push: the item is numbered and appended, and sifted up.
Push(p) ==
  /\ op = "idle" /\ seq < MaxSeq
  /\ seq' = seq + 1
  /\ items' = innerPush(items, [priority |-> p, seq |-> seq'])
  /\ op' = "up"
  /\ pos' = Len(items) + 1
  /\ UNCHANGED out

PushReturns ==
  /\ op = "up"
  /\ ~(pos > 1 /\ Less(items[pos], items[Parent(pos)]))
  /\ op' = "idle"
  /\ UNCHANGED <<items, seq, pos, out>>

\* heap.Pop swaps the first and the last item and sifts the new first down.
Pop ==
  /\ op = "idle" /\ items # <<>>
  /\ items' = Swap(items, 1, Len(items))
  /\ op' = "down"
  /\ pos' = 1
  /\ UNCHANGED <<seq, out>>

\* It then removes the last item, whose value Pop returns.
PopReturns ==
  /\ op = "down"
  /\ ~MustSink
  /\ out' = items[Len(items)].seq
  /\ items' = innerPop(items)
  /\ op' = "idle"
  /\ UNCHANGED <<seq, pos>>

Peek ==
  /\ op = "idle" /\ items # <<>>
  /\ out' = items[1].seq
  /\ UNCHANGED <<items, seq, op, pos>>

\* Pop and Peek of an empty queue.
Empty ==
  /\ op = "idle" /\ items = <<>>
  /\ out' = None
  /\ UNCHANGED <<items, seq, op, pos>>

Next ==
  \/ \E p \in Priorities : Push(p)
  \/ SiftUp \/ PushReturns
  \/ Pop \/ SiftDown \/ PopReturns
  \/ Peek \/ Empty

Spec == Init /\ [][Next]_vars

-----------------------------------------------------------------------------
(***************************************************************************)
(* Properties                                                              *)
(***************************************************************************)
\* The heap order between an item and its parent.
Ordered(k) == ~Less(items[k], items[Parent(k)])

\* Between calls no item is less than its parent: Push and Pop leave a heap
\* behind, whatever the calls before.
HeapOrder == op = "idle" => \A k \in 2 .. Len(items) : Ordered(k)

\* While Push sifts up, only the item at pos may be less than its parent,
\* and its children are not less than its parent.
UpOrder ==
  op = "up" =>
    /\ pos \in 1 .. Len(items)
    /\ \A k \in 2 .. Len(items) : k # pos => Ordered(k)
    /\ \A k \in 2 .. Len(items) :
         Parent(k) = pos /\ pos > 1 => ~Less(items[k], items[Parent(pos)])

\* While Pop sifts down, only the children of pos may be less than their
\* parent, and they are not less than the parent of pos.
DownOrder ==
  op = "down" =>
    /\ items # <<>>
    /\ pos = 1 \/ pos \in 1 .. Len(items) - 1
    /\ \A k \in 2 .. Len(items) - 1 : Parent(k) # pos => Ordered(k)
    /\ \A k \in 2 .. Len(items) - 1 :
         Parent(k) = pos /\ pos > 1 => ~Less(items[k], items[Parent(pos)])

\* The item that Pop has moved to the end, and is about to return, is the
\* one all others come after.
LastIsBest ==
  op = "down" => \A k \in 1 .. Len(items) : ~Less(items[k], items[Len(items)])

\* Every push has its own number, no greater than the counter.
Numbered ==
  /\ \A k \in 1 .. Len(items) : items[k].seq <= seq
  /\ \A j, k \in 1 .. Len(items) : items[j].seq = items[k].seq => j = k

\* Inductive: the heap with at most one place out of order during a sift of
\* container/heap, and the numbers that Push gives out.
IndInv == TypeOK /\ HeapOrder /\ UpOrder /\ DownOrder /\ LastIsBest /\ Numbered

Abstract == INSTANCE StablePriorityQueue
  WITH contents <- {items[k] : k \in 1 .. Len(items)}, pushed <- seq

\* "Items with higher priority are dequeued first.  Items with equal priority
\* are dequeued in FIFO order": Push, Pop and Peek implement that queue.
Stable == Abstract!Spec
=============================================================================
