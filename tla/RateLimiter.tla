---------------------------- MODULE RateLimiter ----------------------------
(***************************************************************************)
(* The rate limiters of pkg/limiter/limiter.go: TokenBucket and            *)
(* SlidingWindow behind the interface RateLimiter, whose Wait loops are    *)
(* alike.  Init decides which of the two the callers share.                *)
(*                                                                         *)
(* Time is kept as ages, which Tick advances: how long ago the bucket was  *)
(* refilled, how old each time stamp is, how long each caller still        *)
(* sleeps.  An age stops where no comparison in the code can tell it from  *)
(* a greater one.  A token is Unit units, so that Rate units per tick may  *)
(* be any fraction of a token; rounding of float64 is left out.            *)
(*                                                                         *)
(* A critical section of mu is one step, except Allow of the window, which *)
(* reads the clock twice: for the cutoff and for the new time stamp.       *)
(***************************************************************************)
EXTENDS Integers, Sequences

CONSTANTS
  Callers,       \* the goroutines that share the limiter
  Capacity,      \* TokenBucketConfig.Capacity
  Rate,          \* TokenBucketConfig.Rate, in units per tick
  Unit,          \* the units of one token
  WindowSize,    \* SlidingWindowConfig.WindowSize, in ticks
  MaxRequests,   \* SlidingWindowConfig.MaxRequests
  MinWait,       \* time.Millisecond, in ticks
  NoRateWait,    \* 100 * time.Millisecond, in ticks
  Horizon,       \* how far back admitted requests are remembered
  MayCancel,     \* whether contexts are cancelled
  Nobody

ASSUME LimiterAssumption ==
  /\ Capacity \in Nat /\ Rate \in Nat /\ Unit \in Nat \ {0}
  /\ WindowSize \in Nat /\ MaxRequests \in Nat
  /\ MinWait \in Nat \ {0} /\ NoRateWait \in Nat \ {0}
  /\ Horizon \in Nat /\ WindowSize <= Horizon
  /\ MayCancel \in BOOLEAN
  /\ Nobody \notin Callers

VARIABLES
  impl,          \* "bucket" or "window"
  tokens,        \* tb.tokens, in units
  sinceRefill,   \* now - tb.lastTime
  stamps,        \* sw.timestamps, as ages
  mu,            \* who is between the two readings of the clock in Allow
  pc,            \* each caller: in no call, or where in Wait
  remain,        \* what is left of each caller's time.After
  recent         \* recent[w]: how many requests the last w ticks admitted

bucket == <<tokens, sinceRefill>>
window == <<stamps, mu>>
vars == <<impl, bucket, window, pc, remain, recent>>

Full == Capacity * Unit

TypeOK ==
  /\ impl \in {"bucket", "window"}
  /\ tokens \in 0 .. Full
  /\ sinceRefill \in Nat
  /\ stamps \in Seq(0 .. WindowSize + 1)
  /\ mu \in Callers \cup {Nobody}
  /\ pc \in [Callers -> {"idle", "allow", "deficit", "sleep"}]
  /\ remain \in [Callers -> Nat]
  /\ recent \in [0 .. Horizon -> Nat]

\* NewTokenBucket, full, or NewSlidingWindow, empty.
Init ==
  /\ impl \in {"bucket", "window"}
  /\ tokens = Full
  /\ sinceRefill = 0
  /\ stamps = <<>>
  /\ mu = Nobody
  /\ pc = [c \in Callers |-> "idle"]
  /\ remain = [c \in Callers |-> 0]
  /\ recent = [w \in 0 .. Horizon |-> 0]

-----------------------------------------------------------------------------
(***************************************************************************)
(* Allow, called by itself or by the loop of Wait                          *)
(***************************************************************************)
\* A caller that calls Allow, or a Wait that begins or goes round its loop.
Calls(c) == pc[c] \in {"idle", "allow"}

\* Allow returns true, and so does a Wait it was called from.
Allowed(c) ==
  /\ pc' = [pc EXCEPT ![c] = "idle"]
  /\ recent' = [w \in 0 .. Horizon |-> recent[w] + 1]

\* Allow returns false, and a Wait it was called from goes on.
Denied(c, next) ==
  /\ pc' = [pc EXCEPT ![c] = IF @ = "allow" THEN next ELSE @]
  /\ UNCHANGED recent

\* Mutants: the bucket overflows; only whole tokens are added, although the
\* time is counted as used.
refill_Overflows == tokens + sinceRefill * Rate
refill_Whole ==
  LET t == tokens + ((sinceRefill * Rate) \div Unit) * Unit
  IN  IF t > Full THEN Full ELSE t

\* refill: the tokens of the elapsed time, up to the capacity.
refill ==
  LET t == tokens + sinceRefill * Rate
  IN  IF t > Full THEN Full ELSE t

BucketAllow(c) ==
  /\ impl = "bucket" /\ Calls(c)
  /\ sinceRefill' = 0
  /\ \/ refill >= Unit /\ tokens' = refill - Unit /\ Allowed(c)
     \/ refill < Unit  /\ tokens' = refill        /\ Denied(c, "deficit")
  /\ UNCHANGED <<impl, window, remain>>

\* Mutant: a request exactly WindowSize old is no longer counted.
Expired_Early(age) == age >= WindowSize

\* timestamps[i].Before(cutoff)
Expired(age) == age > WindowSize

\* Allow of the window up to its second reading of the clock: cleanup drops
\* the stamps before the first one that is inside the window.
cleanup(c) ==
  /\ impl = "window" /\ Calls(c) /\ mu = Nobody
  /\ \E i \in 0 .. Len(stamps) :
       /\ \A j \in 1 .. i : Expired(stamps[j])
       /\ i < Len(stamps) => ~Expired(stamps[i + 1])
       /\ stamps' = SubSeq(stamps, i + 1, Len(stamps))
  /\ mu' = c
  /\ UNCHANGED <<impl, bucket, pc, remain, recent>>

\* windowSize / 10, at least a millisecond.
WindowWait ==
  IF WindowSize \div 10 < MinWait THEN MinWait ELSE WindowSize \div 10

\* The rest of Allow; a Wait that is denied goes to sleep.
WindowAllow(c) ==
  /\ mu = c
  /\ mu' = Nobody
  /\ \/ /\ Len(stamps) < MaxRequests
        /\ stamps' = Append(stamps, 0)
        /\ Allowed(c)
        /\ UNCHANGED remain
     \/ /\ Len(stamps) >= MaxRequests
        /\ Denied(c, "sleep")
        /\ remain' = [remain EXCEPT ![c] = WindowWait]
        /\ UNCHANGED stamps
  /\ UNCHANGED <<impl, bucket>>

-----------------------------------------------------------------------------
(***************************************************************************)
(* Wait                                                                    *)
(***************************************************************************)
Wait(c) ==
  /\ pc[c] = "idle" /\ mu # c
  /\ pc' = [pc EXCEPT ![c] = "allow"]
  /\ UNCHANGED <<impl, bucket, window, remain, recent>>

\* How long the deficit takes to come in, truncated as time.Duration is, and
\* at least a millisecond.
BucketWait ==
  LET deficit == IF Unit - tokens < 0 THEN 0 ELSE Unit - tokens
  IN  IF Rate = 0 THEN NoRateWait
      ELSE IF deficit \div Rate < MinWait THEN MinWait ELSE deficit \div Rate

\* The bucket's Wait locks again: tokens may have come or gone since Allow,
\* and the time since the last refill is not looked at.
Deficit(c) ==
  /\ pc[c] = "deficit"
  /\ remain' = [remain EXCEPT ![c] = BucketWait]
  /\ pc' = [pc EXCEPT ![c] = "sleep"]
  /\ UNCHANGED <<impl, bucket, window, recent>>

\* case <-time.After(waitDur)
Retry(c) ==
  /\ pc[c] = "sleep" /\ remain[c] = 0
  /\ pc' = [pc EXCEPT ![c] = "allow"]
  /\ UNCHANGED <<impl, bucket, window, remain, recent>>

\* case <-ctx.Done()
WaitCancelled(c) ==
  /\ MayCancel
  /\ pc[c] = "sleep"
  /\ pc' = [pc EXCEPT ![c] = "idle"]
  /\ remain' = [remain EXCEPT ![c] = 0]
  /\ UNCHANGED <<impl, bucket, window, recent>>

-----------------------------------------------------------------------------
\* Time passes.  Once it would have filled an empty bucket, or a stamp is
\* outside the window, more of it makes no difference.
Tick ==
  /\ sinceRefill' =
       IF Rate = 0 \/ sinceRefill * Rate >= Full THEN sinceRefill ELSE sinceRefill + 1
  /\ stamps' = [i \in 1 .. Len(stamps) |->
                  IF stamps[i] <= WindowSize THEN stamps[i] + 1 ELSE stamps[i]]
  /\ remain' = [c \in Callers |-> IF remain[c] = 0 THEN 0 ELSE remain[c] - 1]
  /\ recent' = [w \in 0 .. Horizon |-> IF w = 0 THEN 0 ELSE recent[w - 1]]
  /\ UNCHANGED <<impl, tokens, mu, pc>>

Allow(c) == BucketAllow(c) \/ cleanup(c) \/ WindowAllow(c)

Next ==
  \/ \E c \in Callers :
       Allow(c) \/ Wait(c) \/ Deficit(c) \/ Retry(c) \/ WaitCancelled(c)
  \/ Tick

Spec == Init /\ [][Next]_vars

(***************************************************************************)
(* Fairness: time passes, timers fire, a goroutine inside Wait runs and    *)
(* gets the mutex (sync.Mutex does not starve: strong fairness).  Nobody   *)
(* need call Allow or Wait.                                                *)
(***************************************************************************)
Fairness ==
  /\ WF_vars(Tick)
  /\ \A c \in Callers :
       /\ SF_vars(pc[c] = "allow" /\ (BucketAllow(c) \/ cleanup(c)))
       /\ WF_vars(WindowAllow(c) \/ Deficit(c) \/ Retry(c))

FairSpec == Spec /\ Fairness

-----------------------------------------------------------------------------
(***************************************************************************)
(* Properties                                                              *)
(***************************************************************************)
\* However Allow and Wait calls interleave and whatever fractions of tokens
\* the refills add, no interval of w ticks sees more requests let through
\* than a full bucket and the rate of w ticks pay for.
BucketRate ==
  impl = "bucket" => \A w \in 0 .. Horizon : recent[w] * Unit <= Full + w * Rate

\* No interval as long as the window, both ends included, sees more than
\* MaxRequests requests let through, although Allow reads the clock twice.
WindowLimit == impl = "window" => recent[WindowSize] <= MaxRequests

\* Wait keeps no queue and a caller may lose every token to others, but the
\* limiter never jams: whoever goes on waiting sees requests, its own or those
\* of others, let through again and again, whatever is refilled, cleaned up and
\* slept for in between.
WaitersAdvance ==
  Capacity > 0 /\ Rate > 0 /\ MaxRequests > 0 =>
    \A c \in Callers : pc[c] # "idle" ~> (recent[0] > 0 \/ pc[c] = "idle")

\* Wait "blocks until a single event is allowed".
EveryWaiterServed ==
  \A c \in Callers : pc[c] = "sleep" ~> pc[c] = "idle"

(***************************************************************************)
(* Inductive invariant, for the proofs                                     *)
(***************************************************************************)
\* What was admitted and what is left in the bucket was paid for, and no
\* request was admitted since the last refill.
BucketInv ==
  impl = "bucket" => \A w \in 0 .. Horizon :
    IF w < sinceRefill THEN recent[w] = 0
    ELSE recent[w] * Unit + tokens <= Full + (w - sinceRefill) * Rate

\* The stamps at most w old are the last ones, one for each request admitted
\* in the last w ticks, and cleanup leaves no more than MaxRequests.
WindowInv ==
  impl = "window" =>
    /\ \A w \in 0 .. WindowSize :
         /\ recent[w] <= Len(stamps)
         /\ \A i \in 1 .. Len(stamps) : stamps[i] <= w <=> i > Len(stamps) - recent[w]
    /\ Len(stamps) <= MaxRequests

\* Only Allow of the window is cut in two.
MuInv == impl = "bucket" => mu = Nobody

IndInv == TypeOK /\ BucketInv /\ WindowInv /\ MuInv
=============================================================================
