------------------------------ MODULE ChronoMap ------------------------------
(***************************************************************************)
(* base/ChronoMap.hpp: the value of every key as a function of time, built *)
(* from consecutive time blocks [start, end) that may be put in any order. *)
(* A block that does not continue the map waits in futureData.             *)
(*                                                                         *)
(* Every method holds dataReadyMutex, so each is an operator on the map.   *)
(* `data' holds the entries <<key, start, value>> of the code's map of     *)
(* maps, `futureData' the waiting blocks (at most one per start).          *)
(***************************************************************************)
EXTENDS Integers, FiniteSets, Sequences

CONSTANTS Key, Value,
          NoValue           \* nullopt

ASSUME NoValueAssumption == NoValue \notin Value

Empty == [data |-> {}, expirationTime |-> 0, futureData |-> {}, fatal |-> FALSE]

\* A block's new values: a function from some of the keys.
Block(startTime, endTime, changes) ==
  [start |-> startTime, end |-> endTime, changes |-> changes]

EntriesOf(map, key) == {e \in map.data : e.key = key}

\* data[key].rbegin()->second
LastValue(map, key) ==
  (CHOOSE e \in EntriesOf(map, key) : \A f \in EntriesOf(map, key) : f.start <= e.start).value

Get(map, timestamp, key) ==
  LET past == {e \in EntriesOf(map, key) : e.start <= timestamp}
  IN IF timestamp >= map.expirationTime \/ past = {} THEN NoValue
     ELSE (CHOOSE e \in past : \A f \in past : f.start <= e.start).value

GetAll(map, timestamp) == [k \in Key |-> Get(map, timestamp, k)]

\* The keys of `state' whose value differs from the last one recorded.
GetChanges(map, state) ==
  LET changed == {k \in DOMAIN state : EntriesOf(map, k) = {} \/ LastValue(map, k) # state[k]}
  IN [k \in changed |-> state[k]]

\* Wrong variant: every change starts the key's history anew, as for a new key.
ForgetfulAppend(map, b) ==
  LET changes == GetChanges(map, b.changes)
  IN [map EXCEPT
       !.data = {e \in @ : e.key \notin DOMAIN changes}
                  \cup {[key |-> k, start |-> b.start, value |-> changes[k]] : k \in DOMAIN changes},
       !.expirationTime = b.end]

\* One level of addNextTimeBlock(): its two fatal checks, its entries, the new expiration time.
Append1(map, b) ==
  LET changes == GetChanges(map, b.changes)
  IN [map EXCEPT
       !.fatal = @ \/ map.expirationTime # b.start \/ (map.data = {} /\ b.start # 0),
       !.data = @ \cup {[key |-> k, start |-> b.start, value |-> changes[k]] : k \in DOMAIN changes},
       !.expirationTime = b.end]

\* Wrong variant: the future blocks are never looked at again.
DrainNever(map) == map

\* The recursive call: the first future block, when it starts where the map ends.
DrainOne(map) ==
  LET first == CHOOSE b \in map.futureData : \A c \in map.futureData : b.start <= c.start
  IN IF map.futureData # {} /\ first.start = map.expirationTime
     THEN Append1([map EXCEPT !.futureData = @ \ {first}], first)
     ELSE map

AddNextTimeBlock(map, b) ==
  LET drained[i \in 0..Cardinality(map.futureData)] ==
        IF i = 0 THEN Append1(map, b) ELSE DrainOne(drained[i - 1])
  IN drained[Cardinality(map.futureData)]

\* Wrong variant: a block that starts later is appended at once.
EagerPut(map, b) ==
  IF b.start < map.expirationTime THEN map ELSE AddNextTimeBlock(map, b)

Put(map, b) ==
  IF b.start < 0 THEN [map EXCEPT !.fatal = TRUE]
  ELSE IF b.start < map.expirationTime THEN map
  ELSE IF b.start >= b.end THEN [map EXCEPT !.fatal = TRUE]
  ELSE IF b.start = map.expirationTime THEN AddNextTimeBlock(map, b)
  ELSE IF \E c \in map.futureData : c.start = b.start THEN map
  ELSE [map EXCEPT !.futureData = @ \cup {b}]

\* MyPeer::update(): the blocks of a received window, one after the other.
PutAll(map, window) ==
  LET after[i \in 0..Len(window)] == IF i = 0 THEN map ELSE Put(after[i - 1], window[i])
  IN after[Len(window)]
=============================================================================
