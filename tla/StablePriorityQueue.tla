------------------------ MODULE StablePriorityQueue ------------------------
(***************************************************************************)
(* What PriorityQueue promises: "Items with higher priority are dequeued   *)
(* first.  Items with equal priority are dequeued in FIFO order."          *)
(*                                                                         *)
(* The values are uninterpreted: the code never looks at one, so the value *)
(* pushed n-th is represented by n.                                        *)
(***************************************************************************)
EXTENDS Integers

CONSTANTS Priorities, MaxSeq, None

VARIABLES
  contents,   \* the entries not yet popped
  pushed,     \* how many values have been pushed
  out         \* what the last Pop or Peek returned

vars == <<contents, pushed, out>>

Init == contents = {} /\ pushed = 0 /\ out = None

\* The entries of the highest priority present.
Highest == {e \in contents : \A f \in contents : f.priority <= e.priority}

\* Of these, the one pushed first.
IsNext(e) == e \in Highest /\ \A f \in Highest : e.seq <= f.seq

Push(p) ==
  /\ pushed < MaxSeq
  /\ pushed' = pushed + 1
  /\ contents' = contents \cup {[priority |-> p, seq |-> pushed + 1]}
  /\ UNCHANGED out

Pop(e) ==
  /\ IsNext(e)
  /\ contents' = contents \ {e}
  /\ out' = e.seq
  /\ UNCHANGED pushed

Peek(e) == IsNext(e) /\ out' = e.seq /\ UNCHANGED <<contents, pushed>>

\* Pop and Peek of an empty queue return false.
Empty == contents = {} /\ out' = None /\ UNCHANGED <<contents, pushed>>

Next ==
  \/ \E p \in Priorities : Push(p)
  \/ \E e \in contents : Pop(e) \/ Peek(e)
  \/ Empty

Spec == Init /\ [][Next]_vars
=============================================================================
