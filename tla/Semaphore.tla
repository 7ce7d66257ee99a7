----------------------------- MODULE Semaphore -----------------------------
(***************************************************************************)
(* The weighted semaphore of pkg/semaphore/semaphore.go.                   *)
(*                                                                         *)
(* Goroutines (Callers) call Acquire, TryAcquire and Release on one shared *)
(* Semaphore.  A critical section of s.mu is one step, except Release:     *)
(* its notifyWaiters loop takes one step per iteration with s.mu held,     *)
(* because a woken waiter returns from its select, which takes no lock,    *)
(* while the loop still runs.  A waiter struct is represented by its       *)
(* caller: a caller blocks in at most one Acquire, so the caller           *)
(* identifies the waiter's ready channel, and want holds its weight.       *)
(*                                                                         *)
(* Callers follow the documented usage: acquire, then release what was     *)
(* acquired (in one or several calls).  With OverRelease they may also     *)
(* release weight they do not hold.  A caller holds one acquisition at a   *)
(* time; a goroutine with several is several callers.                      *)
(***************************************************************************)
EXTENDS Integers, Sequences, FiniteSets, SequencesExt

CONSTANTS
  Callers,       \* the goroutines that share the semaphore
  MaxWeight,     \* the argument of New
  MaxInt,        \* the largest int64
  Weights,       \* the weights callers pass to Acquire and TryAcquire
  Cancellable,   \* the callers whose context may be cancelled
  OverRelease,   \* whether callers may release more than they hold
  Nobody         \* no owner: s.mu is free

ASSUME CallersAssumption ==
  /\ IsFiniteSet(Callers)
  /\ Nobody \notin Callers
  /\ Cancellable \subseteq Callers

ASSUME WeightAssumption ==
  /\ MaxWeight \in Int
  /\ MaxInt \in Nat \ {0}
  /\ MaxWeight <= MaxInt
  /\ Weights \subseteq Int
  /\ OverRelease \in BOOLEAN

\* New: a maximum that is not positive becomes 1.
maxWeight == IF MaxWeight <= 0 THEN 1 ELSE MaxWeight

\* int64 arithmetic wraps around at both ends of its range.
Wrap(x) == IF x > MaxInt THEN x - 2 * (MaxInt + 1)
           ELSE IF x < -(MaxInt + 1) THEN x + 2 * (MaxInt + 1) ELSE x

VARIABLES
  current,   \* s.current
  waiters,   \* s.waiters, as the sequence of the blocked callers
  ready,     \* the callers whose waiter's ready channel is closed
  mu,        \* the owner of s.mu between two steps
  scan,      \* 1 + the index i of notifyWaiters' loop, 0 outside the loop
  pc,        \* where each caller is
  want,      \* the weight each caller is blocked for
  held,      \* the weight each caller acquired and has not released
  outcome    \* what each caller's last Acquire or TryAcquire returned

vars == <<current, waiters, ready, mu, scan, pc, want, held, outcome>>

TypeOK ==
  /\ current \in Int
  /\ waiters \in Seq(Callers)
  /\ ready \subseteq Callers
  /\ mu \in Callers \cup {Nobody}
  /\ scan \in Nat
  /\ pc \in [Callers -> {"idle", "select", "cancel", "notify"}]
  /\ want \in [Callers -> 0..maxWeight]
  /\ held \in [Callers -> 0..maxWeight]
  /\ outcome \in [Callers -> {"none", "ok", "err"}]

Init ==
  /\ current = 0
  /\ waiters = <<>>
  /\ ready = {}
  /\ mu = Nobody
  /\ scan = 0
  /\ pc = [c \in Callers |-> "idle"]
  /\ want = [c \in Callers |-> 0]
  /\ held = [c \in Callers |-> 0]
  /\ outcome = [c \in Callers |-> "none"]

-----------------------------------------------------------------------------
(***************************************************************************)
(* Acquire and TryAcquire                                                  *)
(***************************************************************************)
\* A caller that holds nothing and is in no call may start one.
MayCall(c) == pc[c] = "idle" /\ held[c] = 0

\* The call returns without touching the semaphore.
Return(c, result) ==
  /\ outcome' = [outcome EXCEPT ![c] = result]
  /\ UNCHANGED <<current, waiters, ready, mu, scan, pc, want, held>>

\* A weight that is not positive is granted without a lock, one above the
\* maximum is refused without a lock: the first lines of both calls.
AcquireUnlocked(c, w) ==
  /\ MayCall(c)
  /\ \/ w <= 0 /\ Return(c, "ok")
     \/ w > maxWeight /\ Return(c, "err")

\* The weights that get past those checks.
Admissible(w) == w \in 1..maxWeight

\* Mutant: the comparison with the limit is off by one.
Fits_OffByOne(w) == Wrap(current + w) <= maxWeight + 1

\* s.current+weight <= s.maxWeight
Fits(w) == Wrap(current + w) <= maxWeight

\* Acquire and TryAcquire take the weight at once only when nobody waits.
AcquireNow(c, w) ==
  /\ MayCall(c)
  /\ mu = Nobody
  /\ Admissible(w)
  /\ Fits(w)
  /\ waiters = <<>>
  /\ current' = Wrap(current + w)
  /\ held' = [held EXCEPT ![c] = w]
  /\ outcome' = [outcome EXCEPT ![c] = "ok"]
  /\ UNCHANGED <<waiters, ready, mu, scan, pc, want>>

\* Acquire queues behind the waiters and enters its select.
AcquireEnqueue(c, w) ==
  /\ MayCall(c)
  /\ mu = Nobody
  /\ Admissible(w)
  /\ ~(Fits(w) /\ waiters = <<>>)
  /\ waiters' = Append(waiters, c)
  /\ want' = [want EXCEPT ![c] = w]
  /\ pc' = [pc EXCEPT ![c] = "select"]
  /\ outcome' = [outcome EXCEPT ![c] = "none"]
  /\ UNCHANGED <<current, ready, mu, scan, held>>

\* TryAcquire returns false instead.
TryAcquireFail(c, w) ==
  /\ MayCall(c)
  /\ mu = Nobody
  /\ Admissible(w)
  /\ ~(Fits(w) /\ waiters = <<>>)
  /\ Return(c, "err")

\* case <-w.ready: the caller holds its weight.
SelectReady(c) ==
  /\ pc[c] = "select"
  /\ c \in ready
  /\ ready' = ready \ {c}
  /\ held' = [held EXCEPT ![c] = want[c]]
  /\ want' = [want EXCEPT ![c] = 0]
  /\ pc' = [pc EXCEPT ![c] = "idle"]
  /\ outcome' = [outcome EXCEPT ![c] = "ok"]
  /\ UNCHANGED <<current, waiters, mu, scan>>

\* case <-ctx.Done(): the context is done, and select may take this case
\* even when ready is closed too.
SelectDone(c) ==
  /\ pc[c] = "select"
  /\ c \in Cancellable
  /\ pc' = [pc EXCEPT ![c] = "cancel"]
  /\ UNCHANGED <<current, waiters, ready, mu, scan, want, held, outcome>>

\* Mutant: the cancelled caller forgets to leave the waiter list.
RemoveWaiter_Stays(c) ==
  /\ pc[c] = "cancel"
  /\ mu = Nobody
  /\ UNCHANGED waiters
  /\ ready' = ready \ {c}
  /\ want' = [want EXCEPT ![c] = 0]
  /\ pc' = [pc EXCEPT ![c] = "idle"]
  /\ outcome' = [outcome EXCEPT ![c] = "err"]
  /\ UNCHANGED <<current, mu, scan, held>>

\* The cancelled caller removes itself, if it is still listed, and returns
\* ctx.Err().  Weight that notifyWaiters already granted it stays in
\* s.current, and no other waiter is notified.
RemoveWaiter(c) ==
  /\ pc[c] = "cancel"
  /\ mu = Nobody
  /\ \/ /\ c \notin ToSet(waiters)
        /\ UNCHANGED waiters
     \/ \E i \in DOMAIN waiters :
          /\ waiters[i] = c
          /\ waiters' = RemoveAt(waiters, i)
  /\ ready' = ready \ {c}
  /\ want' = [want EXCEPT ![c] = 0]
  /\ pc' = [pc EXCEPT ![c] = "idle"]
  /\ outcome' = [outcome EXCEPT ![c] = "err"]
  /\ UNCHANGED <<current, mu, scan, held>>

-----------------------------------------------------------------------------
(***************************************************************************)
(* Release and notifyWaiters                                               *)
(***************************************************************************)
Clamp(x) == IF x < 0 THEN 0 ELSE x

\* Mutant: Release never wakes the waiters.
Release_NoNotify(c, w) ==
  /\ pc[c] = "idle"
  /\ mu = Nobody
  /\ w > 0
  /\ w <= held[c] \/ OverRelease
  /\ current' = Clamp(Wrap(current - w))
  /\ held' = [held EXCEPT ![c] = Clamp(@ - w)]
  /\ UNCHANGED <<waiters, ready, mu, scan, pc, want, outcome>>

\* Release gives the weight back, down to zero, and enters notifyWaiters
\* with the lock held.  Release of a weight <= 0 changes nothing.
Release(c, w) ==
  /\ pc[c] = "idle"
  /\ mu = Nobody
  /\ w > 0
  /\ w <= held[c] \/ OverRelease
  /\ current' = Clamp(Wrap(current - w))
  /\ held' = [held EXCEPT ![c] = Clamp(@ - w)]
  /\ mu' = c
  /\ scan' = 1
  /\ pc' = [pc EXCEPT ![c] = "notify"]
  /\ UNCHANGED <<waiters, ready, want, outcome>>

\* Mutant: the granted weight is not added to s.current.
NotifyGrant_Uncounted(c) ==
  /\ pc[c] = "notify"
  /\ scan <= Len(waiters)
  /\ Fits(want[waiters[scan]])
  /\ ready' = ready \cup {waiters[scan]}
  /\ waiters' = RemoveAt(waiters, scan)
  /\ UNCHANGED <<current, mu, scan, pc, want, held, outcome>>

\* Mutant: the index advances although the waiter was removed.
NotifyGrant_Advances(c) ==
  /\ pc[c] = "notify"
  /\ scan <= Len(waiters)
  /\ Fits(want[waiters[scan]])
  /\ current' = Wrap(current + want[waiters[scan]])
  /\ ready' = ready \cup {waiters[scan]}
  /\ waiters' = RemoveAt(waiters, scan)
  /\ scan' = scan + 1
  /\ UNCHANGED <<mu, pc, want, held, outcome>>

\* One iteration that wakes the waiter at the index: its weight is taken,
\* its channel closed and it leaves the list, so that the index does not
\* move.
NotifyGrant(c) ==
  /\ pc[c] = "notify"
  /\ scan <= Len(waiters)
  /\ Fits(want[waiters[scan]])
  /\ current' = Wrap(current + want[waiters[scan]])
  /\ ready' = ready \cup {waiters[scan]}
  /\ waiters' = RemoveAt(waiters, scan)
  /\ UNCHANGED <<mu, scan, pc, want, held, outcome>>

\* One iteration that skips a waiter that does not fit.
NotifySkip(c) ==
  /\ pc[c] = "notify"
  /\ scan <= Len(waiters)
  /\ ~Fits(want[waiters[scan]])
  /\ scan' = scan + 1
  /\ UNCHANGED <<current, waiters, ready, mu, pc, want, held, outcome>>

\* The loop ends and Release unlocks s.mu.
NotifyDone(c) ==
  /\ pc[c] = "notify"
  /\ scan > Len(waiters)
  /\ mu' = Nobody
  /\ scan' = 0
  /\ pc' = [pc EXCEPT ![c] = "idle"]
  /\ UNCHANGED <<current, waiters, ready, want, held, outcome>>

-----------------------------------------------------------------------------
Call(c) ==
  \E w \in Weights : \/ AcquireUnlocked(c, w)
                     \/ AcquireNow(c, w)
                     \/ AcquireEnqueue(c, w)
                     \/ TryAcquireFail(c, w)

Wait(c) == SelectReady(c) \/ SelectDone(c) \/ RemoveWaiter(c)

Notify(c) == NotifyGrant(c) \/ NotifySkip(c) \/ NotifyDone(c)

ReleaseSome(c) == \E w \in 1..maxWeight : Release(c, w)

Next == \E c \in Callers : Call(c) \/ Wait(c) \/ ReleaseSome(c) \/ Notify(c)

Spec == Init /\ [][Next]_vars

-----------------------------------------------------------------------------
(***************************************************************************)
(* Properties                                                              *)
(***************************************************************************)
\* The weight each caller owns: what it holds, or what notifyWaiters granted
\* it while it has not yet returned from its select.
Owned ==
  [c \in Callers |-> IF pc[c] = "select" /\ c \in ready THEN want[c] ELSE held[c]]

\* A weight per caller as a set of units, so that its size is the total.
UnitsOf(f) == {u \in Callers \X (1..maxWeight) : u[2] <= f[u[1]]}

OwnedUnits == UnitsOf(Owned)

\* Acquire, TryAcquire and Release, in any interleaving, never let callers
\* own more than maxWeight in total: every owned unit is counted in
\* s.current, and s.current stays between 0 and the maximum.
CapacityRespected ==
  /\ Cardinality(OwnedUnits) <= current
  /\ current <= maxWeight

\* A blocked caller is in the waiter list exactly once until its channel is
\* closed and not at all afterwards, so that notifyWaiters closes no ready
\* channel twice (which would panic) and never loses a waiter.
WaitersConsistent ==
  /\ \A i, j \in DOMAIN waiters : waiters[i] = waiters[j] => i = j
  /\ \A c \in Callers :
       /\ c \in ToSet(waiters) <=> pc[c] \in {"select", "cancel"} /\ c \notin ready
       /\ c \in ready => pc[c] \in {"select", "cancel"}

\* Whenever the lock is free and callers wait, s.current is positive: no one
\* sleeps in Acquire on a semaphore that counts no weight as taken.
NoSleepOnIdle == mu = Nobody /\ waiters # <<>> => current > 0

\* s.mu is held between two steps exactly by the caller in notifyWaiters,
\* whose index stays within one of the list.
LockOwner ==
  /\ \A c \in Callers : pc[c] = "notify" <=> mu = c
  /\ mu = Nobody => scan = 0
  /\ mu # Nobody => scan \in 1..(Len(waiters) + 1)

\* A caller that waits, or was just woken, waits for a positive weight and
\* holds nothing.
WaitingWeights ==
  \A c \in Callers : pc[c] \in {"select", "cancel"} => want[c] > 0 /\ held[c] = 0

\* Once notifyWaiters has passed the first waiter, that waiter does not fit.
HeadSkipped ==
  mu # Nobody /\ scan > 1 => current + want[waiters[1]] > maxWeight

\* The inductive invariant of the specification: the bounds on s.current hold
\* in every interleaving because of how the list, the lock and the owned
\* weights are related.
IndInv ==
  /\ TypeOK
  /\ WaitersConsistent
  /\ LockOwner
  /\ WaitingWeights
  /\ HeadSkipped
  /\ NoSleepOnIdle
  /\ CapacityRespected

\* Acquire's comment says it "blocks until weight units are available": the
\* first waiter is never left blocked while its weight is available.
HeadBlockedOnlyWhenFull ==
  mu = Nobody /\ waiters # <<>> => ~Fits(want[Head(waiters)])

\* The stress test of the package says that s.Current() is back at 0 when
\* every caller has released, "under any legal interleaving".
BackToZero ==
  (\A c \in Callers : pc[c] = "idle" /\ held[c] = 0) => current = 0

\* The stress test also says that Current() stays within 0..maxWeight.
CurrentInRange == current \in 0..maxWeight

\* The README says that a Release of more than s.current panics, so a
\* release can never free weight that another caller still owns.
OverReleaseHarmless == Cardinality(OwnedUnits) <= current
=============================================================================
