------------------------------- MODULE Monitor -------------------------------
(***************************************************************************)
(* The resource monitor of pkg/monitor/monitor.go: Start with its first    *)
(* collection, the collectLoop goroutine, Stop and the getter.             *)
(*                                                                         *)
(* A call of Start is named by its identity, which also names the context  *)
(* it makes and the goroutine it starts.  Start and Stop are called by one *)
(* goroutine at a time, because they use m.cancel without a lock; the      *)
(* collectors run beside them.  Clients that are Paired call Start again   *)
(* only after Stop, or after a Start that failed.                          *)
(*                                                                         *)
(* A snapshot's CollectedAt is compared, never computed with: older[x] are *)
(* the running getters that read the clock before x did, where x is the    *)
(* running getter of a collector or the Published snapshot.                *)
(***************************************************************************)

CONSTANTS
  Starts,         \* calls of Start
  Probes,         \* what the getter asks the system: CPU, memory, disk, load
  CtxProbes,      \* the probes that fail once the context is done
  GetterFails,    \* whether the injected getter may return an error
  ParentDone,     \* whether the context passed to Start may be cancelled
  Paired,         \* whether Start is called only on a stopped monitor
  Published, NoStart

ASSUME MonitorAssumption ==
  /\ CtxProbes \subseteq Probes
  /\ {GetterFails, ParentDone, Paired} \subseteq BOOLEAN
  /\ Published \notin Starts /\ NoStart \notin Starts /\ Published # NoStart

VARIABLES
  valid,      \* config.CollectInterval is positive: fixed by New
  cancel,     \* m.cancel: the Start whose context it cancels
  stopped,    \* the contexts cancelled by m.cancel
  expired,    \* the contexts whose parent is cancelled
  spc,        \* where each Start and its collector is
  older,      \* which running getters have an earlier CollectedAt
  latest      \* m.latest: who collected it, and the probes whose figures it has

vars == <<valid, cancel, stopped, expired, spc, older, latest>>

TypeOK ==
  /\ valid \in BOOLEAN
  /\ cancel \in Starts \cup {NoStart}
  /\ stopped \subseteq Starts /\ expired \subseteq Starts
  /\ spc \in [Starts -> {"idle", "first", "failed", "loop", "collect", "ended"}]
  /\ older \in [Starts \cup {Published} -> SUBSET Starts]
  /\ latest \in [by : Starts \cup {NoStart}, has : SUBSET Probes]

\* New
Init ==
  /\ valid \in BOOLEAN
  /\ cancel = NoStart
  /\ stopped = {} /\ expired = {}
  /\ spc = [s \in Starts |-> "idle"]
  /\ older = [x \in Starts \cup {Published} |-> {}]
  /\ latest = [by |-> NoStart, has |-> {}]

-----------------------------------------------------------------------------
\* ctx.Done() of the context that Start made.
done == stopped \cup expired

Moves(s, from, to) == spc[s] \in from /\ spc' = [spc EXCEPT ![s] = to]

\* The collectors whose getter is running.
Getting == {s \in Starts : spc[s] \in {"first", "collect"}}

\* time.Now() in the getter of s: later than in every one that is running.
ReadsClock(s) == older' = [older EXCEPT ![s] = Getting]

\* The getter of s is no longer running.
Returned(s) == [x \in DOMAIN older |-> IF x = s THEN {} ELSE older[x] \ {s}]

\* Nobody is inside Start, and a paired client's last Start was stopped or
\* returned an error.
MayStart ==
  /\ \A s \in Starts : spc[s] # "first"
  /\ Paired => \A s \in Starts : cancel = s => s \in done \/ spc[s] = "failed"

\* Mutant: ctx, cancel := context.WithCancel(ctx) shadows m.cancel.
StartBegins_Shadows(s) ==
  /\ MayStart /\ valid
  /\ Moves(s, {"idle"}, "first")
  /\ ReadsClock(s)
  /\ UNCHANGED <<valid, cancel, stopped, expired, latest>>

\* Start makes its context and calls the getter, which reads the clock.
StartBegins(s) ==
  /\ MayStart /\ valid
  /\ Moves(s, {"idle"}, "first")
  /\ cancel' = s
  /\ ReadsClock(s)
  /\ UNCHANGED <<valid, stopped, expired, latest>>

\* "collect interval must be positive"
StartRefused(s) ==
  /\ MayStart /\ ~valid
  /\ Moves(s, {"idle"}, "failed")
  /\ UNCHANGED <<valid, cancel, stopped, expired, older, latest>>

\* "initial collection failed": m.cancel stays, no loop is started.
FirstFails(s) ==
  /\ GetterFails
  /\ Moves(s, {"first"}, "failed")
  /\ older' = Returned(s)
  /\ UNCHANGED <<valid, cancel, stopped, expired, latest>>

\* GetSystemResources asks every probe; one that fails leaves its figures
\* zero, and no failure is an error.  Probes that sample over time fail when
\* the context is done meanwhile.
Figures(s) == {ok \in SUBSET Probes : Probes \ ok \subseteq IF s \in done THEN CtxProbes ELSE {}}

\* The snapshot is stored under m.mu, whatever is there, and Start starts
\* the loop, or the loop goes on.
Stores(s) ==
  /\ Moves(s, {"first", "collect"}, "loop")
  /\ latest' \in [by : {s}, has : Figures(s)]
  /\ older' = [Returned(s) EXCEPT ![Published] = older[s]]
  /\ UNCHANGED <<valid, cancel, stopped, expired>>

\* case <-ticker.C: the loop calls the getter, also when ctx is done too.
Tick(s) ==
  /\ Moves(s, {"loop"}, "collect")
  /\ ReadsClock(s)
  /\ UNCHANGED <<valid, cancel, stopped, expired, latest>>

\* Mutant: the loop returns when the getter fails.
CollectFails_Returns(s) ==
  /\ GetterFails
  /\ Moves(s, {"collect"}, "ended")
  /\ older' = Returned(s)
  /\ UNCHANGED <<valid, cancel, stopped, expired, latest>>

\* The getter returns an error: continue.
CollectFails(s) ==
  /\ GetterFails
  /\ Moves(s, {"collect"}, "loop")
  /\ older' = Returned(s)
  /\ UNCHANGED <<valid, cancel, stopped, expired, latest>>

\* Mutant: the loop watches the context that was passed to Start.
LoopEnds_Parent(s) ==
  /\ s \in expired
  /\ Moves(s, {"loop"}, "ended")
  /\ UNCHANGED <<valid, cancel, stopped, expired, older, latest>>

\* case <-ctx.Done(): return.
LoopEnds(s) ==
  /\ s \in done
  /\ Moves(s, {"loop"}, "ended")
  /\ UNCHANGED <<valid, cancel, stopped, expired, older, latest>>

\* Mutant: Stop forgets the function instead of calling it.
Stop_Forgets ==
  /\ \A s \in Starts : spc[s] # "first"
  /\ cancel # NoStart
  /\ cancel' = NoStart
  /\ UNCHANGED <<valid, stopped, expired, spc, older, latest>>

\* m.cancel(), if there is one.
Stop ==
  /\ \A s \in Starts : spc[s] # "first"
  /\ cancel # NoStart
  /\ stopped' = stopped \cup {cancel}
  /\ UNCHANGED <<valid, cancel, expired, spc, older, latest>>

\* The owner of the context passed to Start cancels it.
Expire(s) ==
  /\ ParentDone
  /\ expired' = expired \cup {s}
  /\ UNCHANGED <<valid, cancel, stopped, spc, older, latest>>

Collector(s) == Stores(s) \/ Tick(s) \/ CollectFails(s) \/ LoopEnds(s)

Next ==
  \/ Stop
  \/ \E s \in Starts :
       StartBegins(s) \/ StartRefused(s) \/ FirstFails(s) \/ Collector(s) \/ Expire(s)

(***************************************************************************)
(* Fairness.  The getter returns (CPUSampleTime bounds it), the ticker     *)
(* ticks, and a select that finds ctx.Done() ready again and again chooses *)
(* it in the end, since it chooses at random: strong fairness for the      *)
(* loop's end.  Nothing makes a client call Start or Stop.                 *)
(***************************************************************************)
Spec ==
  /\ Init /\ [][Next]_vars
  /\ \A s \in Starts :
       /\ WF_vars(Stores(s) \/ FirstFails(s) \/ CollectFails(s))
       /\ WF_vars(Tick(s))
       /\ SF_vars(LoopEnds(s))

-----------------------------------------------------------------------------
(***************************************************************************)
(* Properties                                                              *)
(***************************************************************************)
Running(s) == spc[s] \in {"first", "loop", "collect"}

\* On a monitor that is stopped before it is started again, Stop always
\* reaches the collector: one whose context is not done is the one that
\* m.cancel cancels.
Controlled == Paired => \A s \in Starts : Running(s) /\ s \notin done => cancel = s

\* Latest goes back in time only around a restart: a snapshot older than the
\* published one can still arrive only if it, or the published one, is from a
\* collector whose context is done.
OlderOnlyAroundStop ==
  Paired => \A s \in older[Published] : s \in done \/ latest.by \in done

\* Once its context is done, by Stop or by the caller's context, a collector
\* ends.
StopHalts == \A s \in Starts : (Running(s) /\ s \in done) ~> ~Running(s)

\* A Start that succeeded goes on collecting for ever until its context is
\* done, whatever errors the getter returns.
KeepsCollecting ==
  \A s \in Starts :
    \/ []<>(spc[s] = "collect")
    \/ <>[](s \in done \/ spc[s] \in {"idle", "first", "failed"})

(***************************************************************************)
(* What the documentation says and the code does not do.                   *)
(***************************************************************************)
\* Latest "returns the most recently collected resource snapshot".
LatestIsNewest == older[Published] = {}

\* Stop "halts background collection", also when Start was called twice.
StopReachesAll == \A s \in Starts : Running(s) /\ s \notin done => cancel = s

\* Stop "halts background collection": nothing is stored after it.
StopIsImmediate == [][\A s \in stopped : ~Stores(s)]_vars

\* A snapshot has the figures of every probe that did not fail by itself.
SnapshotComplete == latest.by # NoStart => latest.has = Probes
=============================================================================
