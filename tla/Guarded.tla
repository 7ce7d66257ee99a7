------------------------------- MODULE Guarded -------------------------------
(***************************************************************************)
(* sync.RWMutex as the containers of pkg/safe and the cache of             *)
(* pkg/lazyloader use it (a sync.Mutex is one that nobody read-locks).     *)
(*                                                                         *)
(* A goroutine calls an operation, gets the lock, and runs its critical    *)
(* section.  A section that runs no code of the client is one step; one    *)
(* that calls a callback begins and ends in two, and others may run in     *)
(* between.  The lock is as package sync documents it: a blocked Lock      *)
(* keeps new readers out, and Unlock lets all waiting readers in before    *)
(* the next writer.  Unlock is deferred, so that a callback that panics    *)
(* ends its section like one that returns.                                 *)
(***************************************************************************)
CONSTANTS
  Goroutines,
  Nobody

ASSUME GuardedAssumption == Nobody \notin Goroutines

VARIABLES
  writer,     \* the goroutine inside Lock .. Unlock while a callback runs
  readers,    \* the goroutines inside RLock .. RUnlock
  stage,      \* where each goroutine is
  shown       \* the data that each running callback was given

guard == <<writer, readers, stage, shown>>

GuardInit ==
  /\ writer = Nobody /\ readers = {}
  /\ stage = [g \in Goroutines |-> "idle"]
  /\ shown = [g \in Goroutines |-> Nobody]

Moves(g, from, to) == stage[g] = from /\ stage' = [stage EXCEPT ![g] = to]

\* Goroutines that have called Lock and wait.
pending == {g \in Goroutines : stage[g] \in {"lock", "stuck"}}

\* The readers that an Unlock lets in.
waitingReaders == {g \in Goroutines : stage[g] = "rlock"}

-----------------------------------------------------------------------------
\* An operation that reads is called; RLock returns unless a writer is in or
\* waits.
CallRead(g) ==
  /\ Moves(g, "idle", "rlock")
  /\ readers' = IF writer = Nobody /\ pending = {} THEN readers \cup {g} ELSE readers
  /\ UNCHANGED <<writer, shown>>

\* An operation that writes is called and waits for the lock.
CallWrite(g) == Moves(g, "idle", "lock") /\ UNCHANGED <<writer, readers, shown>>

MayWrite(g) == stage[g] = "lock" /\ writer = Nobody /\ readers = {}

\* A critical section without a callback.
ReadOnce(g) ==
  /\ g \in readers
  /\ Moves(g, "rlock", "idle")
  /\ readers' = readers \ {g}
  /\ UNCHANGED <<writer, shown>>

WriteOnce(g) ==
  /\ MayWrite(g)
  /\ Moves(g, "lock", "idle")
  /\ readers' = waitingReaders
  /\ UNCHANGED <<writer, shown>>

\* A critical section with a callback, up to the call.
ReadBegins(g, data) ==
  /\ g \in readers
  /\ Moves(g, "rlock", "reading")
  /\ shown' = [shown EXCEPT ![g] = data]
  /\ UNCHANGED <<writer, readers>>

WriteBegins(g, data) ==
  /\ MayWrite(g)
  /\ Moves(g, "lock", "writing")
  /\ writer' = g
  /\ shown' = [shown EXCEPT ![g] = data]
  /\ UNCHANGED readers

\* Mutant: the read lock is not released when the callback stops the
\* iteration, because RUnlock is not deferred.
ReadEnds_Keeps(g) ==
  /\ Moves(g, "reading", "idle")
  /\ shown' = [shown EXCEPT ![g] = Nobody]
  /\ UNCHANGED <<writer, readers>>

\* The rest of it, after the callback has returned or panicked.
ReadEnds(g) ==
  /\ Moves(g, "reading", "idle")
  /\ readers' = readers \ {g}
  /\ shown' = [shown EXCEPT ![g] = Nobody]
  /\ UNCHANGED writer

WriteEnds(g) ==
  /\ Moves(g, "writing", "idle")
  /\ writer' = Nobody
  /\ readers' = waitingReaders
  /\ shown' = [shown EXCEPT ![g] = Nobody]

\* A callback calls the container it runs under.  It blocks for ever, except
\* when it reads under the read lock and no writer waits.
CallsBack(g) ==
  /\ Moves(g, "writing", "stuck") \/ Moves(g, "reading", "stuck")
  /\ UNCHANGED <<writer, readers, shown>>
=============================================================================
