---------------------------- MODULE Monitor_proof ----------------------------
(***************************************************************************)
(* Proofs about the resource monitor, for any number of calls of Start,    *)
(* any probes, and getters and contexts that may or may not fail.          *)
(***************************************************************************)
EXTENDS Monitor, TLAPS

\* older relates running getters only, and none to itself.
OlderAreRunning == \A x \in Starts \cup {Published} : older[x] \subseteq Getting \ {x}

\* A snapshot lacks figures only if its context was done while the probes
\* that watch it were asked.
LacksOnlyWhenDone ==
  latest.by # NoStart /\ latest.has # Probes =>
    latest.by \in done /\ Probes \ latest.has \subseteq CtxProbes

IndInv ==
  /\ TypeOK
  /\ OlderAreRunning
  /\ Controlled
  /\ OlderOnlyAroundStop
  /\ LacksOnlyWhenDone

\* The invariant holds of a new monitor.
LEMMA InitInv ==
  ASSUME Init
  PROVE  IndInv
  <1>1. TypeOK
    <2>1. valid \in BOOLEAN
      BY DEF Init
    <2>2. /\ cancel \in Starts \cup {NoStart}
          /\ stopped \subseteq Starts /\ expired \subseteq Starts
          /\ spc \in [Starts -> {"idle", "first", "failed", "loop", "collect", "ended"}]
          /\ older \in [Starts \cup {Published} -> SUBSET Starts]
          /\ latest \in [by : Starts \cup {NoStart}, has : SUBSET Probes]
      BY DEF Init
    <2> QED BY <2>1, <2>2, Zenon DEF TypeOK
  <1>2. OlderAreRunning /\ OlderOnlyAroundStop
    BY DEF Init, OlderAreRunning, OlderOnlyAroundStop
  <1>3. Controlled /\ LacksOnlyWhenDone
    BY DEF Init, Controlled, Running, LacksOnlyWhenDone
  <1> QED BY <1>1, <1>2, <1>3 DEF IndInv

\* Contexts stay done.
LEMMA DoneGrows ==
  ASSUME [Next]_vars
  PROVE  done \subseteq done'
  BY DEF Next, Stop, StartBegins, StartRefused, FirstFails, Collector, Stores, Tick,
         CollectFails, LoopEnds, Expire, vars, done

\* Every step preserves the types.
LEMMA NextType ==
  ASSUME TypeOK, [Next]_vars
  PROVE  TypeOK'
  <1> USE DEF TypeOK, Moves, ReadsClock, Returned
  <1>1. ASSUME NEW s \in Starts, StartBegins(s) \/ Tick(s)
        PROVE  TypeOK'
    <2>1. Getting \in SUBSET Starts
      BY DEF Getting
    <2> QED BY <1>1, <2>1 DEF StartBegins, Tick
  <1>2. ASSUME NEW s \in Starts, StartRefused(s) \/ LoopEnds(s) \/ Expire(s)
        PROVE  TypeOK'
    BY <1>2 DEF StartRefused, LoopEnds, Expire
  <1>3. ASSUME NEW s \in Starts, FirstFails(s) \/ CollectFails(s)
        PROVE  TypeOK'
    BY <1>3 DEF FirstFails, CollectFails
  <1>4. ASSUME NEW s \in Starts, Stores(s)
        PROVE  TypeOK'
    <2>1. latest' \in [by : Starts \cup {NoStart}, has : SUBSET Probes]
      BY <1>4 DEF Stores, Figures
    <2> QED BY <1>4, <2>1 DEF Stores
  <1>5. CASE Stop
    BY <1>5 DEF Stop
  <1>6. CASE UNCHANGED vars
    BY <1>6 DEF vars
  <1> QED BY <1>1, <1>2, <1>3, <1>4, <1>5, <1>6 DEF Next, Collector

\* A getter that starts is later than all that run, one that ends
\* is forgotten.
LEMMA NextOlder ==
  ASSUME TypeOK, OlderAreRunning, [Next]_vars
  PROVE  OlderAreRunning'
  <1> USE MonitorAssumption DEF TypeOK, OlderAreRunning, Getting, Moves, ReadsClock, Returned
  <1>1. ASSUME NEW s \in Starts, StartBegins(s) \/ Tick(s)
        PROVE  OlderAreRunning'
    BY <1>1 DEF StartBegins, Tick
  <1>2. ASSUME NEW s \in Starts, StartRefused(s) \/ LoopEnds(s) \/ Expire(s)
        PROVE  OlderAreRunning'
    BY <1>2 DEF StartRefused, LoopEnds, Expire
  <1>3. ASSUME NEW s \in Starts, FirstFails(s) \/ CollectFails(s)
        PROVE  OlderAreRunning'
    BY <1>3 DEF FirstFails, CollectFails
  <1>4. ASSUME NEW s \in Starts, Stores(s)
        PROVE  OlderAreRunning'
    BY <1>4 DEF Stores
  <1>5. CASE Stop \/ UNCHANGED vars
    BY <1>5 DEF Stop, vars
  <1> QED BY <1>1, <1>2, <1>3, <1>4, <1>5 DEF Next, Collector

\* A paired Start finds every collector stopped or ended, and takes over
\* m.cancel.
LEMMA NextControlled ==
  ASSUME TypeOK, Controlled, [Next]_vars
  PROVE  Controlled'
  <1> USE MonitorAssumption DEF TypeOK, Controlled, Running, Moves, done
  <1>1. ASSUME NEW s \in Starts, StartBegins(s)
        PROVE  Controlled'
    <2>1. Paired => \A t \in Starts : Running(t) => t \in done
      BY <1>1 DEF StartBegins, MayStart
    <2> QED BY <1>1, <2>1 DEF StartBegins
  <1>2. ASSUME NEW s \in Starts, StartRefused(s) \/ FirstFails(s) \/ Collector(s) \/ Expire(s)
        PROVE  Controlled'
    BY <1>2 DEF StartRefused, FirstFails, Collector, Stores, Tick, CollectFails, LoopEnds, Expire
  <1>3. CASE Stop \/ UNCHANGED vars
    BY <1>3 DEF Stop, vars
  <1> QED BY <1>1, <1>2, <1>3 DEF Next

\* Of two getters that run at once, one has its context done: whichever
\* snapshot is stored, the other can be older only around that Stop.
LEMMA NextOlderOnly ==
  ASSUME IndInv, [Next]_vars
  PROVE  OlderOnlyAroundStop'
  <1> SUFFICES ASSUME Paired, NEW t \in older'[Published], t \notin done'
               PROVE  (latest.by \in done)'
    BY DEF OlderOnlyAroundStop
  <1> USE MonitorAssumption DEF IndInv, TypeOK
  <1>0. /\ t \notin done
        /\ t \in older[Published] => latest.by \in done
    BY DoneGrows DEF OlderOnlyAroundStop
  <1>1. ASSUME NEW s \in Starts, Stores(s)
        PROVE  (latest.by \in done)'
    <2>1. t \in older[s] /\ latest'.by = s /\ done' = done
      BY <1>1 DEF Stores, Returned, done
    <2>2. t \in Getting \ {s} /\ s \in Getting
      BY <1>1, <2>1 DEF OlderAreRunning, Stores, Moves, Getting
    <2>3. Running(t) /\ Running(s) /\ t # s /\ t \in Starts
      BY <2>2 DEF Getting, Running
    <2>4. s \in done
      BY <1>0, <2>3 DEF Controlled
    <2> QED BY <2>1, <2>4
  <1>2. ASSUME NEW s \in Starts,
               \/ StartBegins(s) \/ StartRefused(s) \/ FirstFails(s)
               \/ Tick(s) \/ CollectFails(s) \/ LoopEnds(s) \/ Expire(s)
        PROVE  t \in older[Published] /\ latest' = latest
    BY <1>2 DEF StartBegins, StartRefused, FirstFails, Tick, CollectFails, LoopEnds, Expire,
                ReadsClock, Returned
  <1>3. CASE Stop \/ UNCHANGED vars
    <2>1. t \in older[Published] /\ latest' = latest
      BY <1>3 DEF Stop, vars
    <2> QED BY <1>0, <2>1, DoneGrows
  <1> QED BY <1>0, <1>1, <1>2, <1>3, DoneGrows DEF Next, Collector

\* A snapshot is stored with all figures unless its context is done.
LEMMA NextLacks ==
  ASSUME IndInv, [Next]_vars
  PROVE  LacksOnlyWhenDone'
  <1>1. ASSUME NEW s \in Starts, Stores(s)
        PROVE  LacksOnlyWhenDone'
    <2>1. PICK ok \in Figures(s) : latest' = [by |-> s, has |-> ok]
      BY <1>1 DEF Stores
    <2>2. done' = done
      BY <1>1 DEF Stores, done
    <2>3. ok # Probes => s \in done /\ Probes \ ok \subseteq CtxProbes
      BY <2>1 DEF Figures
    <2> QED BY <2>1, <2>2, <2>3 DEF LacksOnlyWhenDone
  <1>2. CASE UNCHANGED latest
    BY <1>2, DoneGrows DEF IndInv, LacksOnlyWhenDone
  <1> QED BY <1>1, <1>2
          DEF Next, Collector, StartBegins, StartRefused, FirstFails, Tick, CollectFails,
              LoopEnds, Expire, Stop, vars

\* The invariant holds whatever the clients, the getter and the contexts do.
THEOREM Invariance == Spec => []IndInv
  <1>1. Init => IndInv
    BY InitInv
  <1>2. IndInv /\ [Next]_vars => IndInv'
    BY NextType, NextOlder, NextControlled, NextOlderOnly, NextLacks DEF IndInv
  <1> QED BY <1>1, <1>2, PTL DEF Spec

\* If Start is called only on a stopped monitor, Stop reaches every collector
\* that still runs: none is left behind with nobody to cancel it.
THEOREM StopReaches == Spec => []Controlled
  <1>1. IndInv => Controlled
    BY DEF IndInv
  <1> QED BY <1>1, Invariance, PTL

\* Latest goes back in time only around a Stop, however long a getter takes.
THEOREM BackOnlyAroundStop == Spec => []OlderOnlyAroundStop
  <1>1. IndInv => OlderOnlyAroundStop
    BY DEF IndInv
  <1> QED BY <1>1, Invariance, PTL

\* Latest lacks only figures of probes that watch a context that is done.
THEOREM CompleteUntilDone == Spec => []LacksOnlyWhenDone
  <1>1. IndInv => LacksOnlyWhenDone
    BY DEF IndInv
  <1> QED BY <1>1, Invariance, PTL
=============================================================================
