------------------------------- MODULE Retry -------------------------------
(***************************************************************************)
(* Do and DoWithCallbacks of pkg/retry/retry.go, and ExponentialBackoff,   *)
(* which calls them with the configuration it keeps.                       *)
(*                                                                         *)
(* The actions are one goroutine's loop, cut where it calls fn and where   *)
(* it waits; a module that says what fn is composes them.  An error of fn  *)
(* is transient, or a RetryableError that says it is not retryable.  Times *)
(* are in units of a tenth of the shortest delay, so that a jitter of ten  *)
(* per cent is a whole number of them.                                     *)
(***************************************************************************)
EXTENDS Integers

CONSTANTS
  Clients,         \* the goroutines that call Do
  MaxAttempts,     \* cfg.MaxAttempts
  InitialDelay,    \* cfg.InitialDelay, positive
  MaxDelay,        \* cfg.MaxDelay, positive
  BackoffFactor    \* cfg.BackoffFactor, positive

ASSUME RetryAssumption ==
  /\ MaxAttempts \in Int
  /\ {InitialDelay, MaxDelay, BackoffFactor} \subseteq Nat \ {0}

VARIABLES
  loop,       \* where each goroutine is in the loop
  attempt,    \* its loop variable
  lastErr,    \* its lastErr, "nil" if fn has not failed
  delay,      \* the delay it waits for, 0 if it waits for none
  expired,    \* the goroutines whose context is done
  returned,   \* what each goroutine's last Do returned
  reported    \* the attempt number its onFinalError was called with, or 0

retry == <<loop, attempt, lastErr, delay, expired, returned, reported>>

\* Three attempts unless configured.
maxAttempts == IF MaxAttempts <= 0 THEN 3 ELSE MaxAttempts

RetryInit ==
  /\ loop = [c \in Clients |-> "idle"]
  /\ attempt = [c \in Clients |-> 0]
  /\ lastErr = [c \in Clients |-> "nil"]
  /\ delay = [c \in Clients |-> 0]
  /\ expired = {}
  /\ returned = [c \in Clients |-> "nothing"]
  /\ reported = [c \in Clients |-> 0]

-----------------------------------------------------------------------------
\* calculateDelay before the jitter; the jitter adds up to ten per cent.
baseDelay(n) ==
  LET grown == InitialDelay * BackoffFactor^n
  IN  IF grown > MaxDelay THEN MaxDelay ELSE grown

calculateDelay(n) == {baseDelay(n), baseDelay(n) + baseDelay(n) \div 10}

At(c, from, to) == loop[c] = from /\ loop' = [loop EXCEPT ![c] = to]

Returns(c, what) == returned' = [returned EXCEPT ![c] = what]

\* Do is called and calls fn(0).
DoBegins(c) ==
  /\ At(c, "idle", "fn")
  /\ attempt' = [attempt EXCEPT ![c] = 0]
  /\ lastErr' = [lastErr EXCEPT ![c] = "nil"]
  /\ expired' = expired \ {c}
  /\ reported' = [reported EXCEPT ![c] = 0]
  /\ Returns(c, "nothing")
  /\ UNCHANGED delay

\* err == nil: return nil.
FnSucceeds(c) ==
  /\ At(c, "fn", "idle")
  /\ Returns(c, "nil")
  /\ UNCHANGED <<attempt, lastErr, delay, expired, reported>>

\* Mutant: the attempt after the last one is waited for.
Exhausted_OneMore(c) == attempt[c] = maxAttempts

\* attempt == cfg.MaxAttempts-1
Exhausted(c) == attempt[c] = maxAttempts - 1

\* fn failed for the last time or for good: onFinalError is told MaxAttempts,
\* and Do returns lastErr.
FnFailsFinally(c, err) ==
  /\ err = "permanent" \/ Exhausted(c)
  /\ At(c, "fn", "idle")
  /\ lastErr' = [lastErr EXCEPT ![c] = err]
  /\ reported' = [reported EXCEPT ![c] = maxAttempts]
  /\ Returns(c, err)
  /\ UNCHANGED <<attempt, delay, expired>>

\* fn failed: onRetry is called and the select waits for the delay.
FnFails(c, err) ==
  /\ err # "permanent" /\ ~Exhausted(c)
  /\ At(c, "fn", "delay")
  /\ lastErr' = [lastErr EXCEPT ![c] = err]
  /\ \E d \in calculateDelay(attempt[c]) : delay' = [delay EXCEPT ![c] = d]
  /\ UNCHANGED <<attempt, expired, returned, reported>>

\* fn panics through Do.
FnPanics(c) ==
  /\ At(c, "fn", "idle")
  /\ Returns(c, "panic")
  /\ UNCHANGED <<attempt, lastErr, delay, expired, reported>>

\* Mutant: the loop variable is not advanced.
DelayOver_SameAttempt(c) ==
  /\ At(c, "delay", "fn")
  /\ delay' = [delay EXCEPT ![c] = 0]
  /\ UNCHANGED <<attempt, lastErr, expired, returned, reported>>

\* case <-time.After(delay): fn is called again.
DelayOver(c) ==
  /\ At(c, "delay", "fn")
  /\ attempt' = [attempt EXCEPT ![c] = @ + 1]
  /\ delay' = [delay EXCEPT ![c] = 0]
  /\ UNCHANGED <<lastErr, expired, returned, reported>>

\* case <-ctx.Done(): return ctx.Err().
DelayCancelled(c) ==
  /\ c \in expired
  /\ At(c, "delay", "idle")
  /\ delay' = [delay EXCEPT ![c] = 0]
  /\ Returns(c, "ctx")
  /\ UNCHANGED <<attempt, lastErr, expired, reported>>

\* The context is cancelled, or its deadline passes.
CtxExpires(c) ==
  /\ loop[c] # "idle"
  /\ expired' = expired \cup {c}
  /\ UNCHANGED <<loop, attempt, lastErr, delay, returned, reported>>

(***************************************************************************)
(* Properties                                                              *)
(***************************************************************************)
\* Do gives up only when it must: with an error of fn after maxAttempts
\* calls or after an error that is not retryable, with ctx.Err() only if the
\* context is done and an attempt is left; and it never exceeds maxAttempts.
GivesUpRightly ==
  \A c \in Clients :
    /\ attempt[c] < maxAttempts
    /\ returned[c] = "transient" => attempt[c] = maxAttempts - 1 /\ lastErr[c] = "transient"
    /\ returned[c] = "permanent" => lastErr[c] = "permanent"
    /\ returned[c] = "ctx" => c \in expired /\ attempt[c] < maxAttempts - 1
    /\ loop[c] = "delay" => lastErr[c] = "transient" /\ attempt[c] < maxAttempts - 1

(***************************************************************************)
(* What the documentation says and the code does not do.                   *)
(***************************************************************************)
\* lesson-04: the backoff is "capped at MaxDelay".
DelayCapped == \A c \in Clients : delay[c] <= MaxDelay

\* onFinalError(attempt, err) is told how often fn was called.
ReportsAttempts == \A c \in Clients : reported[c] \in {0, attempt[c] + 1}
=============================================================================
