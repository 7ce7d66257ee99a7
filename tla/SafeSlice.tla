------------------------------ MODULE SafeSlice ------------------------------
(***************************************************************************)
(* The generic slice of pkg/safe/slice.go.                                 *)
(*                                                                         *)
(* A Go slice is a window on an array that other slices may share, and     *)
(* append and Delete write the array in place.  heap holds the arrays, s   *)
(* is s.s, and own is the slice that each client holds: the result of its  *)
(* last Snapshot, or the one it passed to Replace.  An array nobody refers *)
(* to is garbage and empty.                                                *)
(***************************************************************************)
EXTENDS Guarded, Naturals, Sequences, FiniteSets

CONSTANTS
  Arrays,      \* arrays in memory
  Elements,    \* the values stored
  MaxLen,      \* bound on the length of an array
  Clients      \* the goroutines that keep slices of their own

ASSUME SliceAssumption == MaxLen \in Nat /\ Clients \subseteq Goroutines

\* Memory does not run out: beside s.s and the slices of the clients there is
\* always an array to allocate.
ASSUME MemoryAssumption ==
  /\ IsFiniteSet(Clients) /\ IsFiniteSet(Arrays)
  /\ Cardinality(Arrays) > Cardinality(Clients) + 1

VARIABLES heap, s, own

slices == <<heap, s, own>>

\* The elements of a slice header.
Contents(h) == SubSeq(heap[h.arr], 1, h.len)

\* An array that no slice refers to.
Fresh == CHOOSE a \in Arrays : a # s.arr /\ \A g \in Clients : a # own[g].arr

Lists == UNION {[1..n -> Elements] : n \in 0..MaxLen}

\* NewSlice copies its arguments; each client starts with an empty slice.
SliceInit ==
  LET a == CHOOSE a \in Arrays : TRUE
      f == CHOOSE f \in [Clients -> Arrays \ {a}] : \A g, h \in Clients : f[g] = f[h] => g = h
  IN \E init \in Lists :
       /\ heap = [b \in Arrays |-> IF b = a THEN init ELSE <<>>]
       /\ s = [arr |-> a, len |-> Len(init)]
       /\ own = [g \in Clients |-> [arr |-> f[g], len |-> 0]]

-----------------------------------------------------------------------------
\* s.s becomes a slice of a new array; its old one is garbage.
Moved(list, len) ==
  /\ s' = [arr |-> Fresh, len |-> len]
  /\ heap' = [heap EXCEPT ![Fresh] = list, ![s.arr] = <<>>]

\* append: in place while the capacity lasts, else in a new array, which the
\* runtime may make larger than needed.
append(vs) ==
  LET n == s.len + Len(vs) IN
  /\ n <= MaxLen
  /\ IF n <= Len(heap[s.arr])
     THEN /\ heap' = [heap EXCEPT ![s.arr] =
                        SubSeq(@, 1, s.len) \o vs \o SubSeq(@, n + 1, Len(@))]
          /\ s' = [s EXCEPT !.len = n]
     ELSE \E spare \in {<<>>} \cup {vs} :
            Len(spare) <= MaxLen - n /\ Moved(Contents(s) \o vs \o spare, n)

\* Append and AppendAll
SliceAppend(g) ==
  WriteOnce(g) /\ UNCHANGED own /\ \E vs \in Lists : vs # <<>> /\ append(vs)

\* Clear: s.s = nil
SliceClear(g) == WriteOnce(g) /\ Moved(<<>>, 0) /\ UNCHANGED own

\* Mutant: Replace keeps the caller's slice, as its comment suggests.
SliceReplace_Keeps(g) ==
  /\ WriteOnce(g)
  /\ s' = own[g]
  /\ heap' = [heap EXCEPT ![s.arr] = <<>>]
  /\ UNCHANGED own

\* Replace copies its argument before it takes the lock.
SliceReplace(g) == WriteOnce(g) /\ Moved(Contents(own[g]), own[g].len) /\ UNCHANGED own

\* UpdateAt and Delete call pred, and UpdateAt calls fn, under the lock.
EditBegins(g) == WriteBegins(g, Contents(s)) /\ UNCHANGED slices

\* UpdateAt writes the first match in place, Delete shifts the elements
\* behind it; no match or a panic changes nothing.
EditEnds(g) ==
  /\ WriteEnds(g)
  /\ \/ \E i \in 1..s.len :
          \/ \E v \in Elements : heap' = [heap EXCEPT ![s.arr][i] = v] /\ UNCHANGED s
          \/ /\ heap' = [heap EXCEPT ![s.arr] =
                           [j \in DOMAIN @ |-> IF j \in i..(s.len - 1) THEN @[j + 1] ELSE @[j]]]
             /\ s' = [s EXCEPT !.len = @ - 1]
     \/ UNCHANGED <<heap, s>>
  /\ UNCHANGED own

\* Len and At
SliceRead(g) == ReadOnce(g) /\ UNCHANGED slices

\* Snapshot copies into a new array; the client drops its old slice.
Snapshot(g) ==
  /\ ReadOnce(g)
  /\ own' = [own EXCEPT ![g] = [arr |-> Fresh, len |-> s.len]]
  /\ heap' = [heap EXCEPT ![Fresh] = Contents(s), ![own[g].arr] = <<>>]
  /\ UNCHANGED s

\* Range, Find and FindIndex call fn or pred under the read lock.
VisitBegins(g) == ReadBegins(g, Contents(s)) /\ UNCHANGED slices

VisitEnds(g) == ReadEnds(g) /\ UNCHANGED slices

\* A client writes its own slice without a lock.
ClientWrites(g) ==
  /\ stage[g] = "idle"
  /\ \E i \in 1..own[g].len, v \in Elements : heap' = [heap EXCEPT ![own[g].arr][i] = v]
  /\ UNCHANGED <<guard, s, own>>

SliceOp(g) ==
  \/ SliceAppend(g) \/ SliceClear(g) \/ SliceRead(g)
  \/ EditBegins(g) \/ EditEnds(g) \/ VisitBegins(g) \/ VisitEnds(g)
  \/ g \in Clients /\ (SliceReplace(g) \/ Snapshot(g) \/ ClientWrites(g))

(***************************************************************************)
(* Properties                                                              *)
(***************************************************************************)
\* "Callers cannot obtain an unlocked reference to the underlying
\* collection": no slice that Snapshot returned or Replace was given shares
\* an array with s.s, or with another client's, although append and Delete
\* write in place.
NotExposed ==
  \A g \in Clients :
    own[g].arr # s.arr /\ \A h \in Clients : own[g].arr = own[h].arr => g = h
=============================================================================
