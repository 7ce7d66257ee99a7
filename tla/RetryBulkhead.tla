---------------------------- MODULE RetryBulkhead ----------------------------
(***************************************************************************)
(* Clients that retry calls of a shared bulkhead: retry.Do with an fn that *)
(* returns b.Execute(ctx, service) for the same context.                   *)
(*                                                                         *)
(* The attempt of Do ends when the outermost Execute returns: with what    *)
(* the service returned once the permit is back, with ctx.Err(), or with   *)
(* the timeout error of the bulkhead.  Both of the latter are transient to *)
(* Do, which looks only for a RetryableError.                              *)
(***************************************************************************)
EXTENDS Bulkhead, Retry

ASSUME RetryBulkheadAssumption == Clients = Callers

rvars == <<vars, retry>>

RBInit == Init /\ RetryInit

\* fn(attempt) calls Execute; so may the service, within its own call.
DoCalls(c) == DoBegins(c) /\ Execute(c)
Retries(c) == DelayOver(c) /\ Execute(c)
Nests(c)   == depth[c] > 0 /\ Execute(c) /\ UNCHANGED retry

\* Do goes on with a transient error of its attempt.
Fails(c) == FnFailsFinally(c, "transient") \/ FnFails(c, "transient")

\* A select of Execute gives up: that ends the attempt, or only a nested call.
GivesUp(c, case) == case /\ IF depth[c] = 0 THEN Fails(c) ELSE UNCHANGED retry

TimesOut(c) == GivesUp(c, SelectTimeout(c))
Cancelled(c) == c \in expired /\ GivesUp(c, SelectDone(c))

\* The deferred function has put the permit back, and Execute returns what
\* the service did, or panics like it.
Finishes(c) ==
  /\ PutBack(c)
  /\ \/ depth[c] > 1 /\ UNCHANGED retry
     \/ /\ depth[c] = 1
        /\ \/ FnSucceeds(c) \/ FnPanics(c) \/ Fails(c)
           \/ FnFailsFinally(c, "permanent")

\* Steps inside one of the two.
Inner(c) == (SelectPermit(c) \/ FnEnds(c)) /\ UNCHANGED retry
Outer(c) == (DelayCancelled(c) \/ CtxExpires(c)) /\ UNCHANGED vars

RBNext ==
  \E c \in Callers :
    \/ DoCalls(c) \/ Retries(c) \/ Nests(c) \/ TimesOut(c) \/ Cancelled(c)
    \/ Finishes(c) \/ Inner(c) \/ Outer(c)

(***************************************************************************)
(* Fairness.  Timers fire (New makes config.Timeout positive), runnable    *)
(* goroutines run, and a service makes finitely many nested calls and      *)
(* ends.  Nothing makes a client call Do or a context expire.              *)
(***************************************************************************)
RBSpec ==
  /\ RBInit /\ [][RBNext]_rvars
  /\ \A c \in Callers :
       /\ WF_rvars((SelectPermit(c) /\ UNCHANGED retry) \/ TimesOut(c))
       /\ \A d \in 1..MaxDepth : SF_rvars(depth[c] = d /\ FnEnds(c) /\ UNCHANGED retry)
       /\ WF_rvars(Finishes(c))
       /\ WF_rvars(Retries(c) \/ (DelayCancelled(c) /\ UNCHANGED vars))

-----------------------------------------------------------------------------
(***************************************************************************)
(* Properties                                                              *)
(***************************************************************************)
\* Every Do returns, also on a bulkhead that stays full and with a context
\* that never ends: timeouts and attempts are bounded.
DoReturns == \A c \in Callers : loop[c] = "fn" ~> loop[c] = "idle"
=============================================================================
