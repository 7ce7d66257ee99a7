------------------------------ MODULE SafeStore ------------------------------
(***************************************************************************)
(* The generic map of pkg/safe/store.go.  Every operation runs under       *)
(* s.mu; Update calls its callback under the write lock and Range under    *)
(* the read lock.                                                          *)
(***************************************************************************)
EXTENDS Guarded

CONSTANTS
  Keys, Values,
  Absent,      \* a key has no entry
  NilMap       \* the map of a zero Store before its first write

ASSUME StoreAssumption == Absent \notin Values /\ NilMap \notin [Keys -> Values \cup {Absent}]

VARIABLE m     \* s.m

empty == [k \in Keys |-> Absent]

\* A zero Store, NewStore or NewStoreFromMap.
StoreInit == m \in [Keys -> Values \cup {Absent}] \cup {NilMap}

lazyInit == IF m = NilMap THEN empty ELSE m

-----------------------------------------------------------------------------
\* Mutant: Put takes the read lock.
Put_ReadLock(g) ==
  /\ ReadOnce(g)
  /\ \E k \in Keys, v \in Values : m' = [lazyInit EXCEPT ![k] = v]

Put(g) ==
  /\ WriteOnce(g)
  /\ \E k \in Keys, v \in Values : m' = [lazyInit EXCEPT ![k] = v]

\* An existing entry is returned and kept.
PutIfAbsent(g) ==
  /\ WriteOnce(g)
  /\ \E k \in Keys, v \in Values :
       m' = [lazyInit EXCEPT ![k] = IF @ = Absent THEN v ELSE @]

\* Only a key that is present is deleted, so that a nil map is left alone.
StoreDelete(g) ==
  /\ WriteOnce(g)
  /\ \E k \in Keys : m' = IF m = NilMap THEN m ELSE [m EXCEPT ![k] = Absent]

StoreClear(g) == WriteOnce(g) /\ m' = empty

\* Get, GetOrDefault, Has, Len, Snapshot, Keys and Values: what they return
\* is a copy.
StoreRead(g) == ReadOnce(g) /\ UNCHANGED m

\* Update reads the entry and calls fn ...
UpdateBegins(g) == m' = lazyInit /\ WriteBegins(g, m')

\* ... and stores or deletes it as fn says; a panic of fn leaves it alone.
UpdateEnds(g) ==
  /\ WriteEnds(g)
  /\ \/ \E k \in Keys, next \in Values \cup {Absent} : m' = [m EXCEPT ![k] = next]
     \/ UNCHANGED m

\* Range calls fn for each entry, until fn returns false or panics.
RangeBegins(g) == ReadBegins(g, m) /\ UNCHANGED m

RangeEnds(g) == ReadEnds(g) /\ UNCHANGED m

StoreOp(g) ==
  \/ Put(g) \/ PutIfAbsent(g) \/ StoreDelete(g) \/ StoreClear(g) \/ StoreRead(g)
  \/ UpdateBegins(g) \/ UpdateEnds(g) \/ RangeBegins(g) \/ RangeEnds(g)
=============================================================================
