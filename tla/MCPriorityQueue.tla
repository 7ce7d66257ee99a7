-------------------------- MODULE MCPriorityQueue --------------------------
(***************************************************************************)
(* Small instances of the priority queue for TLC.                          *)
(***************************************************************************)
EXTENDS PriorityQueue
=============================================================================
