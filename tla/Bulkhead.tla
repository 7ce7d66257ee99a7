------------------------------ MODULE Bulkhead ------------------------------
(***************************************************************************)
(* The bulkhead of pkg/bulkhead/bulkhead.go: a channel of permits.         *)
(*                                                                         *)
(* Execute receives a permit, calls fn and sends the permit back in a      *)
(* deferred function; or it returns because its context is done or its     *)
(* timer has fired.  fn is the client's and may itself call Execute, so a  *)
(* goroutine may hold several permits, up to MaxDepth.  fn returns or      *)
(* panics: the deferred send follows either way.  GetStats only reads, and *)
(* nothing else reads config.QueueSize.                                    *)
(***************************************************************************)
EXTENDS Integers, FiniteSets

CONSTANTS
  Callers,         \* the goroutines that call Execute
  MaxConcurrent,   \* config.MaxConcurrent
  MaxDepth,        \* how deeply calls of Execute are nested at most
  MayCancel        \* whether contexts are cancelled

ASSUME BulkheadAssumption ==
  /\ IsFiniteSet(Callers)
  /\ MaxConcurrent \in Int
  /\ MaxDepth \in Nat
  /\ MayCancel \in BOOLEAN

VARIABLES
  permits,   \* len(b.semaphore)
  depth,     \* how many permits each goroutine holds
  phase      \* each goroutine: running code of the client, in the select of
             \* Execute, or in the deferred send

vars == <<permits, depth, phase>>

\* New: 10 unless configured, the capacity of the channel.
maxConcurrent == IF MaxConcurrent <= 0 THEN 10 ELSE MaxConcurrent

\* New fills the channel with permits.
prefilled == maxConcurrent

TypeOK ==
  /\ permits \in 0 .. maxConcurrent
  /\ depth \in [Callers -> 0 .. MaxDepth]
  /\ phase \in [Callers -> {"client", "select", "deferred"}]

Init ==
  /\ permits = prefilled
  /\ depth = [c \in Callers |-> 0]
  /\ phase = [c \in Callers |-> "client"]

-----------------------------------------------------------------------------
\* A goroutine calls Execute, perhaps from within fn.
Execute(c) ==
  /\ phase[c] = "client" /\ depth[c] < MaxDepth
  /\ phase' = [phase EXCEPT ![c] = "select"]
  /\ UNCHANGED <<permits, depth>>

\* case <-b.semaphore: fn begins.
SelectPermit(c) ==
  /\ phase[c] = "select" /\ permits > 0
  /\ permits' = permits - 1
  /\ depth' = [depth EXCEPT ![c] = @ + 1]
  /\ phase' = [phase EXCEPT ![c] = "client"]

\* case <-ctx.Done()
SelectDone(c) ==
  /\ MayCancel
  /\ phase[c] = "select"
  /\ phase' = [phase EXCEPT ![c] = "client"]
  /\ UNCHANGED <<permits, depth>>

\* case <-time.After(b.config.Timeout)
SelectTimeout(c) ==
  /\ phase[c] = "select"
  /\ phase' = [phase EXCEPT ![c] = "client"]
  /\ UNCHANGED <<permits, depth>>

\* Mutant: the permit is sent back after fn, not in a deferred function, so
\* that a panic skips it.
FnEnds_PanicSkips(c) ==
  /\ phase[c] = "client" /\ depth[c] > 0
  /\ \/ phase' = [phase EXCEPT ![c] = "deferred"] /\ UNCHANGED depth
     \/ depth' = [depth EXCEPT ![c] = @ - 1] /\ UNCHANGED phase
  /\ UNCHANGED permits

\* fn returns or panics, and the deferred function runs.
FnEnds(c) ==
  /\ phase[c] = "client" /\ depth[c] > 0
  /\ phase' = [phase EXCEPT ![c] = "deferred"]
  /\ UNCHANGED <<permits, depth>>

\* b.semaphore <- struct{}{}, which would block on a full channel.
PutBack(c) ==
  /\ phase[c] = "deferred"
  /\ permits < maxConcurrent
  /\ permits' = permits + 1
  /\ depth' = [depth EXCEPT ![c] = @ - 1]
  /\ phase' = [phase EXCEPT ![c] = "client"]

Next ==
  \E c \in Callers :
    \/ Execute(c) \/ SelectPermit(c) \/ SelectDone(c) \/ SelectTimeout(c)
    \/ FnEnds(c) \/ PutBack(c)

Spec == Init /\ [][Next]_vars

-----------------------------------------------------------------------------
(***************************************************************************)
(* Properties                                                              *)
(***************************************************************************)
\* The calls of fn under way.
Inside == {call \in Callers \X (1 .. MaxDepth) : call[2] <= depth[call[1]]}

\* No permit is lost or made, whether fn returns, panics or nests calls and
\* whichever case the select takes: those in the channel and those of the
\* calls under way are maxConcurrent.  So no more calls than that run.
PermitsConserved == permits + Cardinality(Inside) = maxConcurrent

\* The deferred send of Execute finds room in the channel.
PutBackNeverBlocks ==
  \A c \in Callers : phase[c] = "deferred" => depth[c] > 0 /\ permits < maxConcurrent

\* Inductive: a goroutine in the deferred function of Execute still holds
\* the permit it is about to send.
IndInv ==
  /\ TypeOK
  /\ PermitsConserved
  /\ \A c \in Callers : phase[c] = "deferred" => depth[c] > 0
  /\ \A c \in Callers : phase[c] = "select" => depth[c] < MaxDepth
=============================================================================
