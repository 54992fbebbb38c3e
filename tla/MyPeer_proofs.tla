---------------------------- MODULE MyPeer_proofs ----------------------------
(***************************************************************************)
(* Proofs about MyPeer and ChronoMap, for any peers, states, timestamps    *)
(* and window size: the maps never die, every replica is its owner's map   *)
(* as far as it goes, what was recorded stays, nothing is stranded in      *)
(* futureData, a peer that shuts down has flushed, and reads agree.        *)
(*                                                                         *)
(* The two recursive functions of ChronoMap, the recursive call of         *)
(* addNextTimeBlock() and the loop over a window, are treated by induction *)
(* in the form of sets: see Induction, DrainedIs and PutAllIs.             *)
(***************************************************************************)
EXTENDS MyPeer, WellFoundedInduction, FiniteSetTheorems, SequenceTheorems, TLAPS

-----------------------------------------------------------------------------
(* Induction.                                                               *)

\* Every non-empty set of natural numbers has a least element.
LEMMA LeastNumber ==
  ASSUME NEW T \in SUBSET Nat, T # {}
  PROVE  \E m \in T : \A k \in T : m <= k
<1> DEFINE R == OpToRel(<, Nat)
<1>1. IsWellFoundedOn(R, Nat) BY NatLessThanWellFounded
<1>2. \A x, y \in Nat : <<x, y>> \in R <=> x < y BY DEF OpToRel
<1> HIDE DEF R
<1>3. PICK x \in T : \A y \in T : ~(<<y, x>> \in R) BY <1>1, WFMin
<1>4. x \in Nat /\ \A y \in T : y \in Nat /\ ~(y < x) BY <1>2, <1>3
<1> QED BY <1>4

\* A set with 0, and with i + 1 whenever it has an i < n, has n.
LEMMA Induction ==
  ASSUME NEW n \in Nat, NEW T, 0 \in T,
         \A i \in Nat : i < n /\ i \in T => i + 1 \in T
  PROVE  n \in T
<1> DEFINE Out == {i \in Nat : i <= n /\ i \notin T}
<1> SUFFICES ASSUME n \notin T PROVE FALSE OBVIOUS
<1>1. Out \in SUBSET Nat /\ Out # {} OBVIOUS
<1> HIDE DEF Out
<1>2. PICK m \in Out : \A k \in Out : m <= k BY <1>1, LeastNumber
<1>3. m \in Nat /\ m <= n /\ m \notin T BY <1>2 DEF Out
<1>4. m # 0 BY <1>3
<1>5. m - 1 \in Nat /\ m - 1 < n /\ m - 1 \notin Out BY <1>2, <1>3, <1>4
<1>6. m - 1 \in T BY <1>3, <1>5 DEF Out
<1>7. (m - 1) + 1 \in T BY <1>5, <1>6
<1>8. (m - 1) + 1 = m BY <1>3
<1> QED BY <1>3, <1>7, <1>8

\* What addNextTimeBlock() computes: the block, then as many steps as there are future blocks.
LEMMA DrainedIs ==
  ASSUME NEW map, NEW b, NEW n \in Nat, n = Cardinality(map.futureData)
  PROVE  \E f : /\ f[0] = Append1(map, b)
                /\ \A i \in Nat : i < n => f[i + 1] = DrainOne(f[i])
                /\ AddNextTimeBlock(map, b) = f[n]
<1> DEFINE a == Append1(map, b)
           Solves(f, m) == f = [i \in 0..m |-> IF i = 0 THEN a ELSE DrainOne(f[i - 1])]
           T == {m \in Nat : \E f : Solves(f, m)}
<1> HIDE DEF a
<1>1. 0 \in T
  <2>1. Solves([i \in 0..0 |-> a], 0) OBVIOUS
  <2> QED BY <2>1
<1>2. ASSUME NEW m \in Nat, m \in T PROVE m + 1 \in T
  <2>1. PICK f : Solves(f, m) BY <1>2
  <2> DEFINE g == [i \in 0..(m + 1) |-> IF i <= m THEN f[i] ELSE DrainOne(f[m])]
  <2>2. \A i \in 0..m : f[i] = IF i = 0 THEN a ELSE DrainOne(f[i - 1]) BY <2>1
  <2>3. ASSUME NEW i \in 0..(m + 1) PROVE g[i] = IF i = 0 THEN a ELSE DrainOne(g[i - 1])
    <3>1. CASE i <= m
      <4>1. g[i] = f[i] BY <3>1
      <4>2. i # 0 => g[i - 1] = f[i - 1] BY <3>1
      <4> QED BY <2>2, <3>1, <4>1, <4>2
    <3>2. CASE i = m + 1
      <4>1. g[i - 1] = f[m] BY <3>2
      <4> QED BY <3>2, <4>1
    <3> QED BY <3>1, <3>2
  <2>4. g = [i \in 0..(m + 1) |-> g[i]] OBVIOUS
  <2> HIDE DEF g
  <2>5. Solves(g, m + 1) BY <2>3, <2>4
  <2> QED BY <2>5
<1>3. n \in T
  <2> HIDE DEF T
  <2> QED BY <1>1, <1>2, Induction
<1> DEFINE d == CHOOSE f : Solves(f, n)
<1>4. Solves(d, n) BY <1>3
<1>5. AddNextTimeBlock(map, b) = d[n] BY DEF AddNextTimeBlock, a
<1> HIDE DEF d
<1>6. d[0] = a BY <1>4
<1>7. \A i \in Nat : i < n => d[i + 1] = DrainOne(d[i])
  <2> SUFFICES ASSUME NEW i \in Nat, i < n PROVE d[i + 1] = DrainOne(d[i]) OBVIOUS
  <2>1. i + 1 \in 0..n /\ i + 1 # 0 /\ (i + 1) - 1 = i OBVIOUS
  <2>2. \A j \in 0..n : d[j] = IF j = 0 THEN a ELSE DrainOne(d[j - 1]) BY <1>4
  <2> QED BY <2>1, <2>2
<1> QED BY <1>5, <1>6, <1>7 DEF a

\* What update() makes of a window: the map, then one put() after the other.
LEMMA PutAllIs ==
  ASSUME NEW map, NEW window, NEW n \in Nat, n = Len(window)
  PROVE  \E f : /\ f[0] = map
                /\ \A i \in Nat : i < n => f[i + 1] = Put(f[i], window[i + 1])
                /\ PutAll(map, window) = f[n]
<1> DEFINE Solves(f, m) == f = [i \in 0..m |-> IF i = 0 THEN map ELSE Put(f[i - 1], window[i])]
           T == {m \in Nat : \E f : Solves(f, m)}
<1>1. 0 \in T
  <2>1. Solves([i \in 0..0 |-> map], 0) OBVIOUS
  <2> QED BY <2>1
<1>2. ASSUME NEW m \in Nat, m \in T PROVE m + 1 \in T
  <2>1. PICK f : Solves(f, m) BY <1>2
  <2> DEFINE g == [i \in 0..(m + 1) |-> IF i <= m THEN f[i] ELSE Put(f[m], window[m + 1])]
  <2>2. \A i \in 0..m : f[i] = IF i = 0 THEN map ELSE Put(f[i - 1], window[i]) BY <2>1
  <2>3. ASSUME NEW i \in 0..(m + 1) PROVE g[i] = IF i = 0 THEN map ELSE Put(g[i - 1], window[i])
    <3>1. CASE i <= m
      <4>1. g[i] = f[i] BY <3>1
      <4>2. i # 0 => g[i - 1] = f[i - 1] BY <3>1
      <4> QED BY <2>2, <3>1, <4>1, <4>2
    <3>2. CASE i = m + 1
      <4>1. g[i - 1] = f[m] BY <3>2
      <4> QED BY <3>2, <4>1
    <3> QED BY <3>1, <3>2
  <2>4. g = [i \in 0..(m + 1) |-> g[i]] OBVIOUS
  <2> HIDE DEF g
  <2>5. Solves(g, m + 1) BY <2>3, <2>4
  <2> QED BY <2>5
<1>3. n \in T
  <2> HIDE DEF T
  <2> QED BY <1>1, <1>2, Induction
<1> DEFINE d == CHOOSE f : Solves(f, n)
<1>4. Solves(d, n) BY <1>3
<1>5. PutAll(map, window) = d[n] BY DEF PutAll
<1> HIDE DEF d
<1>6. d[0] = map BY <1>4
<1>7. \A i \in Nat : i < n => d[i + 1] = Put(d[i], window[i + 1])
  <2> SUFFICES ASSUME NEW i \in Nat, i < n PROVE d[i + 1] = Put(d[i], window[i + 1]) OBVIOUS
  <2>1. i + 1 \in 0..n /\ i + 1 # 0 /\ (i + 1) - 1 = i OBVIOUS
  <2>2. \A j \in 0..n : d[j] = IF j = 0 THEN map ELSE Put(d[j - 1], window[j]) BY <1>4
  <2> QED BY <2>1, <2>2
<1> QED BY <1>5, <1>6, <1>7

-----------------------------------------------------------------------------
(* ChronoMap.                                                               *)

\* A replica in the middle of addNextTimeBlock(): the first future block may be due.
Growing(own, blocks, map) ==
  /\ IsMap(map)
  /\ map.expirationTime <= own.expirationTime
  /\ map.data = Upto(own, map.expirationTime).data
  /\ \A b \in blocks : b.end <= map.expirationTime \/ map.expirationTime <= b.start
  /\ IsFiniteSet(map.futureData) /\ map.futureData \subseteq blocks
  /\ \A b \in map.futureData : map.expirationTime <= b.start

\* The entry at time 0 that keeps addNextTimeBlock() from dying.
HasFirst(own) == own.expirationTime = 0 \/ \E e \in own.data : e.start = 0

\* What a step of the map may not do to what it has.
Grows(own, blocks, map, new) ==
  /\ map.expirationTime <= new.expirationTime
  /\ \A b \in blocks : Has(map, b) => Has(new, b)
  /\ HasFirst(own) /\ ~map.fatal => ~new.fatal

\* The changes depend on the entries only.
LEMMA ChangesOfData ==
  ASSUME NEW map, NEW other, map.data = other.data, NEW state
  PROVE  GetChanges(map, state) = GetChanges(other, state)
BY DEF GetChanges, EntriesOf, LastValue

\* Upto() takes entries away and nothing else.
LEMMA UptoData ==
  ASSUME NEW map, IsMap(map), NEW t
  PROVE  /\ Upto(map, t).data = {e \in map.data : e.start < t}
         /\ Upto(map, t).expirationTime = map.expirationTime
BY DEF Upto, IsMap

\* Adding the block that continues the map gives the owner's map up to the end of the block.
LEMMA AppendKeeps ==
  ASSUME NEW own, NEW blocks, History(own, blocks),
         NEW map, Growing(own, blocks, map),
         NEW b \in blocks, b.start = map.expirationTime, b \notin map.futureData
  PROVE  /\ Growing(own, blocks, Append1(map, b))
         /\ Append1(map, b).expirationTime = b.end
         /\ Append1(map, b).futureData = map.futureData
         /\ map.expirationTime < b.end
         /\ HasFirst(own) /\ ~map.fatal => ~Append1(map, b).fatal
<1> DEFINE new == Append1(map, b)
           changes == GetChanges(map, b.changes)
<1>1. Genuine(own, b) /\ IsMap(own) /\ IsMap(map) BY DEF History, Growing
<1>2. changes = b.changes
  <2>1. map.data = Upto(own, b.start).data BY DEF Growing
  <2> QED BY <1>1, <2>1, ChangesOfData DEF Genuine
<1>3. new = [data |-> map.data \cup Entries(b), expirationTime |-> b.end,
             futureData |-> map.futureData,
             fatal |-> map.fatal \/ map.expirationTime # b.start \/ (map.data = {} /\ b.start # 0)]
  <2> HIDE DEF changes
  <2>1. new = [map EXCEPT
                !.fatal = @ \/ map.expirationTime # b.start \/ (map.data = {} /\ b.start # 0),
                !.data = @ \cup {[key |-> k, start |-> b.start, value |-> changes[k]] : k \in DOMAIN changes},
                !.expirationTime = b.end]
    BY DEF Append1, changes
  <2>2. {[key |-> k, start |-> b.start, value |-> changes[k]] : k \in DOMAIN changes} = Entries(b)
    BY <1>2 DEF Entries
  <2> QED BY <1>1, <2>1, <2>2 DEF IsMap
<1>4. b.start \in Nat /\ b.end \in Nat /\ b.start < b.end /\ b.end <= own.expirationTime
  BY <1>1 DEF Genuine
<1>5. new.data = Upto(own, b.end).data
  <2>1. Upto(own, b.end).data = Upto(own, b.start).data \cup Entries(b) BY <1>1 DEF Genuine
  <2> QED BY <1>3, <2>1 DEF Growing
<1>6. IsMap(new)
  <2>1. \A e \in new.data : e \in own.data /\ e.start < b.end BY <1>1, <1>5, UptoData
  <2> QED BY <1>1, <1>3, <1>4, <2>1 DEF IsMap
<1>7. ASSUME NEW c \in blocks, c # b
      PROVE  Apart(b, c) /\ c.start \in Nat /\ c.end \in Nat /\ c.start < c.end
  BY <1>7 DEF History, Genuine, Apart
<1>8. \A c \in blocks : c.end <= new.expirationTime \/ new.expirationTime <= c.start
  BY <1>3, <1>4, <1>7 DEF Apart
<1>9. \A c \in new.futureData : c \in blocks /\ new.expirationTime <= c.start
  <2> SUFFICES ASSUME NEW c \in map.futureData PROVE c \in blocks /\ b.end <= c.start BY <1>3
  <2>1. c \in blocks /\ c # b /\ b.start <= c.start BY DEF Growing
  <2> QED BY <1>4, <1>7, <2>1 DEF Apart
<1>10. HasFirst(own) /\ ~map.fatal => ~new.fatal
  <2> SUFFICES ASSUME HasFirst(own), map.data = {}, b.start # 0 PROVE FALSE
    <3>1. map.fatal \in BOOLEAN /\ map.expirationTime = b.start BY <1>1 DEF IsMap
    <3>2. new.fatal = (map.fatal \/ (map.data = {} /\ b.start # 0)) BY <1>3, <3>1
    <3> HIDE DEF new
    <3> QED BY <3>1, <3>2
  <2>1. PICK e \in own.data : e.start = 0 BY <1>1, <1>4 DEF HasFirst, IsMap
  <2>2. Upto(own, b.start).data = {x \in own.data : x.start < b.start} BY <1>1, UptoData
  <2>3. e \in Upto(own, b.start).data BY <1>4, <2>1, <2>2
  <2> QED BY <2>3 DEF Growing
<1> HIDE DEF new
<1>11. Growing(own, blocks, new)
  BY <1>3, <1>4, <1>5, <1>6, <1>8, <1>9 DEF Growing
<1> QED BY <1>3, <1>4, <1>10, <1>11 DEF new

\* One recursive call of addNextTimeBlock(): it adds a waiting block, or no block is due.
LEMMA DrainOneKeeps ==
  ASSUME NEW own, NEW blocks, History(own, blocks),
         NEW map, Growing(own, blocks, map)
  PROVE  /\ Growing(own, blocks, DrainOne(map))
         /\ Grows(own, blocks, map, DrainOne(map))
         /\ \/ DrainOne(map) = map /\ Replica(own, blocks, map)
            \/ /\ map.futureData # {}
               /\ Cardinality(DrainOne(map).futureData) = Cardinality(map.futureData) - 1
<1> DEFINE first == CHOOSE b \in map.futureData : \A c \in map.futureData : b.start <= c.start
           Due == map.futureData # {} /\ first.start = map.expirationTime
           rest == [map EXCEPT !.futureData = @ \ {first}]
<1>1. DrainOne(map) = IF Due THEN Append1(rest, first) ELSE map BY DEF DrainOne
<1>2. \A b \in blocks : b.start \in Nat /\ b.end \in Nat /\ b.start < b.end
  BY DEF History, Genuine
<1>3. map.futureData # {} => /\ first \in map.futureData
                             /\ \A c \in map.futureData : first.start <= c.start
  <2> SUFFICES ASSUME map.futureData # {}
               PROVE  \E b \in map.futureData : \A c \in map.futureData : b.start <= c.start
    OBVIOUS
  <2> DEFINE starts == {b.start : b \in map.futureData}
  <2>1. starts \in SUBSET Nat /\ starts # {} BY <1>2 DEF Growing
  <2> HIDE DEF starts
  <2>2. PICK m \in starts : \A k \in starts : m <= k BY <2>1, LeastNumber
  <2> QED BY <2>2 DEF starts
<1> HIDE DEF first
<1>4. CASE Due
  <2>1. first \in map.futureData /\ first \in blocks BY <1>3, <1>4 DEF Growing
  <2>2. rest = [data |-> map.data, expirationTime |-> map.expirationTime,
                futureData |-> map.futureData \ {first}, fatal |-> map.fatal]
    <3>1. map = [data |-> map.data, expirationTime |-> map.expirationTime,
                 futureData |-> map.futureData, fatal |-> map.fatal]
      BY DEF Growing, IsMap
    <3> QED BY <3>1
  <2>3. IsFiniteSet(rest.futureData)
        /\ Cardinality(rest.futureData) = Cardinality(map.futureData) - 1
    BY <2>1, <2>2, FS_RemoveElement DEF Growing
  <2> HIDE DEF rest
  <2>4. Growing(own, blocks, rest) BY <2>2, <2>3 DEF Growing, IsMap
  <2> DEFINE new == Append1(rest, first)
  <2>5. /\ Growing(own, blocks, new) /\ new.expirationTime = first.end
        /\ new.futureData = rest.futureData /\ map.expirationTime < first.end
        /\ HasFirst(own) /\ ~rest.fatal => ~new.fatal
    <3>1. /\ first.start = rest.expirationTime /\ first \notin rest.futureData
          /\ rest.expirationTime = map.expirationTime
      BY <1>4, <2>2
    <3> QED BY <2>1, <2>4, <3>1, AppendKeeps
  <2> HIDE DEF new
  <2>6. \A b \in blocks : Has(map, b) => Has(new, b)
    <3> SUFFICES ASSUME NEW b \in blocks, Has(map, b) PROVE Has(new, b) OBVIOUS
    <3>1. map.expirationTime \in Nat /\ first.end \in Nat /\ b.end \in Nat
      BY <1>2, <2>1 DEF Growing, IsMap
    <3>2. CASE b.end <= map.expirationTime BY <2>5, <3>1, <3>2 DEF Has
    <3>3. CASE b = first BY <2>5, <3>1, <3>3 DEF Has
    <3>4. CASE b \in map.futureData /\ b # first BY <2>2, <2>5, <3>4 DEF Has
    <3> QED BY <3>2, <3>3, <3>4 DEF Has
  <2>7. map.expirationTime <= new.expirationTime
    BY <1>2, <2>1, <2>5 DEF Growing, IsMap
  <2>8. Grows(own, blocks, map, new) BY <2>2, <2>5, <2>6, <2>7 DEF Grows
  <2>9. DrainOne(map) = new BY <1>1, <1>4 DEF new
  <2> QED BY <1>4, <2>3, <2>5, <2>8, <2>9
<1>5. CASE ~Due
  <2>1. DrainOne(map) = map BY <1>1, <1>5
  <2>2. \A b \in map.futureData : map.expirationTime < b.start
    <3> SUFFICES ASSUME NEW b \in map.futureData PROVE map.expirationTime < b.start OBVIOUS
    <3>1. /\ first.start <= b.start /\ first.start # map.expirationTime
          /\ map.expirationTime <= first.start /\ first \in blocks /\ b \in blocks
      BY <1>3, <1>5 DEF Growing
    <3>2. first.start \in Nat /\ b.start \in Nat /\ map.expirationTime \in Nat
      BY <1>2, <3>1 DEF Growing, IsMap
    <3> QED BY <3>1, <3>2
  <2>3. Replica(own, blocks, map) BY <2>2 DEF Growing, Replica
  <2>4. Grows(own, blocks, map, map) BY DEF Grows, Growing, IsMap
  <2> QED BY <2>1, <2>3, <2>4
<1> QED BY <1>4, <1>5

\* addNextTimeBlock() adds the block and every waiting block that continues it.
LEMMA AddNextKeeps ==
  ASSUME NEW own, NEW blocks, History(own, blocks),
         NEW map, Replica(own, blocks, map),
         NEW b \in blocks, b.start = map.expirationTime
  PROVE  /\ Replica(own, blocks, AddNextTimeBlock(map, b))
         /\ Grows(own, blocks, map, AddNextTimeBlock(map, b))
         /\ Has(AddNextTimeBlock(map, b), b)
<1> DEFINE n == Cardinality(map.futureData)
<1>1. n \in Nat BY FS_CardinalityType DEF Replica
<1>2. PICK f : /\ f[0] = Append1(map, b)
               /\ \A i \in Nat : i < n => f[i + 1] = DrainOne(f[i])
               /\ AddNextTimeBlock(map, b) = f[n]
  BY <1>1, DrainedIs
<1>3. \A c \in blocks : c.start \in Nat /\ c.end \in Nat /\ c.start < c.end
  BY DEF History, Genuine
<1>4. Growing(own, blocks, map) /\ b \notin map.futureData
  <2>1. map.expirationTime \in Nat /\ \A c \in map.futureData : map.expirationTime < c.start
    BY DEF Replica, IsMap
  <2>2. b \notin map.futureData BY <1>3, <2>1
  <2>3. \A c \in map.futureData : map.expirationTime <= c.start BY <1>3, <2>1 DEF Replica
  <2> QED BY <2>2, <2>3 DEF Replica, Growing
<1> HIDE DEF n
<1> DEFINE Good(m, i) == /\ Growing(own, blocks, m)
                         /\ Grows(own, blocks, map, m) /\ Has(m, b)
                         /\ Replica(own, blocks, m) \/ Cardinality(m.futureData) = n - i
           T == {i \in 0..n : Good(f[i], i)}
<1>5. 0 \in T
  <2> DEFINE new == Append1(map, b)
  <2>1. /\ Growing(own, blocks, new) /\ new.expirationTime = b.end
        /\ new.futureData = map.futureData /\ map.expirationTime < b.end
        /\ HasFirst(own) /\ ~map.fatal => ~new.fatal
    BY <1>4, AppendKeeps
  <2> HIDE DEF new
  <2>2. map.expirationTime \in Nat /\ b.end \in Nat BY <1>3, <1>4 DEF Growing, IsMap
  <2>3. Has(new, b) BY <2>1, <2>2 DEF Has
  <2>4. \A c \in blocks : Has(map, c) => Has(new, c) BY <1>3, <2>1, <2>2 DEF Has
  <2>5. Grows(own, blocks, map, new) BY <2>1, <2>2, <2>4 DEF Grows
  <2>6. Cardinality(new.futureData) = n - 0 BY <1>1, <2>1 DEF n
  <2>7. Good(new, 0) BY <2>1, <2>3, <2>5, <2>6
  <2> QED BY <1>1, <1>2, <2>7 DEF new
<1>6. ASSUME NEW i \in Nat, i < n, i \in T PROVE i + 1 \in T
  <2> DEFINE m == f[i]
             new == DrainOne(m)
  <2>1. Good(m, i) BY <1>6
  <2>2. f[i + 1] = new /\ i + 1 \in 0..n BY <1>1, <1>2, <1>6
  <2> HIDE DEF m
  <2>3. /\ Growing(own, blocks, new) /\ Grows(own, blocks, m, new)
        /\ \/ new = m /\ Replica(own, blocks, m)
           \/ /\ m.futureData # {}
              /\ Cardinality(new.futureData) = Cardinality(m.futureData) - 1
    BY <2>1, DrainOneKeeps
  <2>4. Replica(own, blocks, m) => new = m
    <3> DEFINE first == CHOOSE c \in m.futureData : \A d \in m.futureData : c.start <= d.start
    <3> SUFFICES ASSUME Replica(own, blocks, m), m.futureData # {}, first.start = m.expirationTime
                 PROVE  FALSE
      BY DEF DrainOne
    <3>1. first \in m.futureData
      <4> DEFINE starts == {c.start : c \in m.futureData}
      <4>1. starts \in SUBSET Nat /\ starts # {} BY <1>3 DEF Replica
      <4> HIDE DEF starts
      <4>2. PICK k \in starts : \A j \in starts : k <= j BY <4>1, LeastNumber
      <4>3. \E c \in m.futureData : \A d \in m.futureData : c.start <= d.start
        BY <4>2 DEF starts
      <4> QED BY <4>3
    <3> HIDE DEF first
    <3>2. m.expirationTime < first.start /\ m.expirationTime \in Nat BY <3>1 DEF Replica, IsMap
    <3> QED BY <3>2
  <2> HIDE DEF new
  <2>5. Grows(own, blocks, map, new) /\ Has(new, b)
    <3>1. map.expirationTime \in Nat /\ m.expirationTime \in Nat /\ new.expirationTime \in Nat
      BY <1>4, <2>1, <2>3 DEF Growing, IsMap
    <3> QED BY <2>1, <2>3, <3>1 DEF Grows
  <2>6. Replica(own, blocks, new) \/ Cardinality(new.futureData) = n - (i + 1)
    <3>1. CASE Replica(own, blocks, m) BY <2>4, <3>1
    <3>2. CASE ~Replica(own, blocks, m)
      <4>1. Cardinality(new.futureData) = (n - i) - 1 BY <2>1, <2>3, <3>2
      <4> QED BY <1>1, <4>1
    <3> QED BY <3>1, <3>2
  <2>7. Good(new, i + 1) BY <2>3, <2>5, <2>6
  <2> QED BY <2>2, <2>7
<1>7. n \in T
  <2> HIDE DEF T
  <2> QED BY <1>1, <1>5, <1>6, Induction
<1> DEFINE last == f[n]
<1>8. Good(last, n) BY <1>7
<1> HIDE DEF last
<1>9. Replica(own, blocks, last)
  <2> SUFFICES ASSUME Cardinality(last.futureData) = n - n PROVE Replica(own, blocks, last)
    BY <1>8
  <2>1. last.futureData = {} BY <1>1, <1>8, FS_EmptySet DEF Growing
  <2> QED BY <1>8, <2>1 DEF Growing, Replica
<1> QED BY <1>2, <1>8, <1>9 DEF last

\* put() of any block of the owner, new or old, early or late.
LEMMA PutKeeps ==
  ASSUME NEW own, NEW blocks, History(own, blocks),
         NEW map, Replica(own, blocks, map), NEW b \in blocks
  PROVE  /\ Replica(own, blocks, Put(map, b))
         /\ Grows(own, blocks, map, Put(map, b))
         /\ Has(Put(map, b), b)
<1>1. \A c \in blocks : c.start \in Nat /\ c.end \in Nat /\ c.start < c.end
  BY DEF History, Genuine
<1>2. map.expirationTime \in Nat BY DEF Replica, IsMap
<1>3. Grows(own, blocks, map, map) BY <1>2 DEF Grows
<1>4. CASE b.start < map.expirationTime
  <2>1. Put(map, b) = map BY <1>1, <1>2, <1>4 DEF Put
  <2>2. Has(map, b) BY <1>1, <1>2, <1>4 DEF Replica, Has
  <2> QED BY <1>3, <2>1, <2>2
<1>5. CASE b.start = map.expirationTime
  <2>1. Put(map, b) = AddNextTimeBlock(map, b) BY <1>1, <1>2, <1>5 DEF Put
  <2> QED BY <1>5, <2>1, AddNextKeeps
<1>6. CASE b.start > map.expirationTime /\ \E c \in map.futureData : c.start = b.start
  <2>1. Put(map, b) = map BY <1>1, <1>2, <1>6 DEF Put
  <2>2. PICK c \in map.futureData : c.start = b.start BY <1>6
  <2>3. c = b BY <1>1, <2>2 DEF Replica, History, Apart
  <2> QED BY <1>3, <2>1, <2>2, <2>3 DEF Has
<1>7. CASE b.start > map.expirationTime /\ ~\E c \in map.futureData : c.start = b.start
  <2> DEFINE new == [map EXCEPT !.futureData = @ \cup {b}]
  <2>1. Put(map, b) = new BY <1>1, <1>2, <1>7 DEF Put
  <2>2. new = [data |-> map.data, expirationTime |-> map.expirationTime,
               futureData |-> map.futureData \cup {b}, fatal |-> map.fatal]
    <3>1. map = [data |-> map.data, expirationTime |-> map.expirationTime,
                 futureData |-> map.futureData, fatal |-> map.fatal]
      BY DEF Replica, IsMap
    <3> QED BY <3>1
  <2> HIDE DEF new
  <2>3. IsFiniteSet(new.futureData) BY <2>2, FS_AddElement DEF Replica
  <2>4. Replica(own, blocks, new) BY <1>1, <1>2, <1>7, <2>2, <2>3 DEF Replica, IsMap
  <2>5. Grows(own, blocks, map, new) BY <1>2, <2>2 DEF Grows, Has
  <2> QED BY <2>1, <2>2, <2>4, <2>5 DEF Has
<1> QED BY <1>1, <1>2, <1>4, <1>5, <1>6, <1>7

\* A whole window of blocks of the owner.
LEMMA PutAllKeeps ==
  ASSUME NEW own, NEW blocks, History(own, blocks),
         NEW map, Replica(own, blocks, map),
         NEW window, IsWindow(window), InWindow(window) \subseteq blocks
  PROVE  /\ Replica(own, blocks, PutAll(map, window))
         /\ Grows(own, blocks, map, PutAll(map, window))
         /\ \A b \in InWindow(window) : Has(PutAll(map, window), b)
<1> DEFINE n == Len(window)
<1>1. n \in Nat /\ n = Len(window) /\ DOMAIN window = 1..n BY LenProperties DEF IsWindow
<1> HIDE DEF n
<1>2. PICK f : /\ f[0] = map
               /\ \A i \in Nat : i < n => f[i + 1] = Put(f[i], window[i + 1])
               /\ PutAll(map, window) = f[n]
  BY <1>1, PutAllIs
<1> DEFINE Good(m, i) == /\ Replica(own, blocks, m) /\ Grows(own, blocks, map, m)
                         /\ \A j \in 1..i : Has(m, window[j])
           T == {i \in 0..n : Good(f[i], i)}
<1>3. 0 \in T
  <2>1. Grows(own, blocks, map, map) BY DEF Grows, Replica, IsMap
  <2> QED BY <1>1, <1>2, <2>1
<1>4. ASSUME NEW i \in Nat, i < n, i \in T PROVE i + 1 \in T
  <2> DEFINE m == f[i]
             b == window[i + 1]
             new == Put(m, b)
  <2>1. Good(m, i) BY <1>4
  <2>2. f[i + 1] = new /\ i + 1 \in 0..n BY <1>1, <1>2, <1>4
  <2>3. \A j \in 1..(i + 1) : window[j] \in blocks BY <1>1, <1>4 DEF InWindow
  <2>4. b \in blocks BY <2>3
  <2> HIDE DEF m, b
  <2>5. Replica(own, blocks, new) /\ Grows(own, blocks, m, new) /\ Has(new, b)
    BY <2>1, <2>4, PutKeeps
  <2> HIDE DEF new
  <2>6. Grows(own, blocks, map, new)
    <3>1. map.expirationTime \in Nat /\ m.expirationTime \in Nat /\ new.expirationTime \in Nat
      BY <2>1, <2>5 DEF Replica, IsMap
    <3> QED BY <2>1, <2>5, <3>1 DEF Grows
  <2>7. ASSUME NEW j \in 1..(i + 1) PROVE Has(new, window[j])
    <3>1. CASE j = i + 1 BY <2>5, <3>1 DEF b
    <3>2. CASE j \in 1..i BY <2>1, <2>3, <2>5, <3>2 DEF Grows
    <3> QED BY <3>1, <3>2
  <2>8. Good(new, i + 1) BY <2>5, <2>6, <2>7
  <2> QED BY <2>2, <2>8
<1>5. n \in T
  <2> HIDE DEF T
  <2> QED BY <1>1, <1>3, <1>4, Induction
<1> DEFINE last == f[n]
<1>6. Good(last, n) BY <1>5
<1> HIDE DEF last
<1>7. \A b \in InWindow(window) : Has(last, b) BY <1>1, <1>6 DEF InWindow
<1> QED BY <1>2, <1>6, <1>7 DEF last

\* The owner's map has got the block b, and the replicas are replicas still.
Extended(own, blocks, t, state, b, new) ==
  /\ History(new, blocks \cup {b})
  /\ new.expirationTime = t
  /\ own.data = Upto(new, own.expirationTime).data
  /\ \A map : Replica(own, blocks, map) => Replica(new, blocks \cup {b}, map)
  /\ HasFirst(own) /\ ~own.fatal => ~new.fatal
  /\ HasFirst(own) /\ DOMAIN state # {} => HasFirst(new)

\* The owner's own put(): the new block is the end of its history, the replicas stay replicas.
LEMMA OwnPutKeeps ==
  ASSUME NEW own, NEW blocks, History(own, blocks),
         NEW t \in Nat, t > own.expirationTime, NEW state,
         NEW b, b = Block(own.expirationTime, t, GetChanges(own, state)),
         NEW new, new = Put(own, b)
  PROVE  Extended(own, blocks, t, state, b, new)
<1> DEFINE e0 == own.expirationTime
           changes == GetChanges(own, state)
<1>1. IsMap(own) /\ own.futureData = {} /\ e0 \in Nat BY DEF History, IsMap
<1>2. b.start = e0 /\ b.end = t /\ b.changes = changes /\ b = Block(b.start, b.end, b.changes)
  BY DEF Block
<1>3. new = Append1(own, b)
  <2>1. Cardinality(own.futureData) = 0 BY <1>1, FS_EmptySet
  <2>2. PICK f : f[0] = Append1(own, b) /\ AddNextTimeBlock(own, b) = f[0]
    BY <2>1, DrainedIs
  <2>3. Put(own, b) = AddNextTimeBlock(own, b) BY <1>1, <1>2 DEF Put
  <2> QED BY <2>2, <2>3
<1>4. GetChanges(own, changes) = changes
  BY DEF GetChanges
<1>5. new = [data |-> own.data \cup Entries(b), expirationTime |-> t, futureData |-> {},
             fatal |-> own.fatal \/ (own.data = {} /\ e0 # 0)]
  <2> DEFINE again == GetChanges(own, b.changes)
  <2>1. own = [data |-> own.data, expirationTime |-> e0, futureData |-> {}, fatal |-> own.fatal]
        /\ own.fatal \in BOOLEAN
    BY <1>1 DEF IsMap
  <2>2. again = b.changes BY <1>2, <1>4
  <2> HIDE DEF again
  <2> DEFINE dead == own.fatal \/ own.expirationTime # b.start \/ (own.data = {} /\ b.start # 0)
             more == {[key |-> k, start |-> b.start, value |-> again[k]] : k \in DOMAIN again}
  <2>3. new = [own EXCEPT !.fatal = dead, !.data = own.data \cup more, !.expirationTime = b.end]
    BY <1>3 DEF Append1, again
  <2>4. more = Entries(b) BY <2>2 DEF Entries
  <2>5. dead = (own.fatal \/ (own.data = {} /\ e0 # 0)) BY <1>2, <2>1
  <2> HIDE DEF dead, more
  <2>6. new = [data |-> own.data \cup more, expirationTime |-> b.end, futureData |-> {},
               fatal |-> dead]
    <3> DEFINE data == own.data \cup more
    <3>1. IsMap(own) /\ own.futureData = {} BY <1>1
    <3>2. new = [own EXCEPT !.fatal = dead, !.data = data, !.expirationTime = b.end] BY <2>3
    <3> HIDE DEF data
    <3>3. new = [data |-> data, expirationTime |-> b.end, futureData |-> own.futureData,
                 fatal |-> dead]
      BY <3>1, <3>2 DEF IsMap
    <3> QED BY <3>1, <3>3 DEF data
  <2> QED BY <1>2, <2>4, <2>5, <2>6
<1>6. /\ \A e \in own.data : e.start \in Nat /\ e.start < e0
      /\ \A e \in Entries(b) : e.start = e0
  BY <1>1, <1>2 DEF IsMap, Entries
<1>7. IsMap(new) BY <1>1, <1>5, <1>6 DEF IsMap
<1>8. ASSUME NEW s \in Nat, s <= e0 PROVE Upto(new, s).data = Upto(own, s).data
  <2>1. Upto(new, s).data = {e \in new.data : e.start < s} BY <1>7, UptoData
  <2>2. Upto(own, s).data = {e \in own.data : e.start < s} BY <1>1, UptoData
  <2>3. new.data = own.data \cup Entries(b) BY <1>5
  <2>4. \A e \in Entries(b) : ~(e.start < s) BY <1>1, <1>6, <1>8
  <2> QED BY <2>1, <2>2, <2>3, <2>4
<1>9. own.data = Upto(new, e0).data
  <2>1. Upto(own, e0).data = {e \in own.data : e.start < e0} BY <1>1, UptoData
  <2>2. {e \in own.data : e.start < e0} = own.data BY <1>6
  <2>3. Upto(new, e0).data = Upto(own, e0).data BY <1>1, <1>8
  <2> QED BY <2>1, <2>2, <2>3
<1> HIDE DEF changes
<1>10. Genuine(new, b)
  <2>1. Upto(new, t).data = new.data
    <3>1. Upto(new, t).data = {e \in new.data : e.start < t} BY <1>7, UptoData
    <3>2. \A e \in new.data : e.start < t BY <1>5, <1>7 DEF IsMap
    <3> QED BY <3>1, <3>2
  <2>2. Upto(new, b.end).data = Upto(new, b.start).data \cup Entries(b)
    <3>1. Upto(new, b.end).data = own.data \cup Entries(b) BY <1>2, <1>5, <2>1
    <3>2. Upto(new, b.start).data = own.data BY <1>2, <1>9
    <3> QED BY <3>1, <3>2
  <2>3. GetChanges(Upto(new, b.start), b.changes) = b.changes
    BY <1>2, <1>4, <1>9, ChangesOfData
  <2> QED BY <1>1, <1>2, <1>5, <2>2, <2>3 DEF Genuine
<1>11. ASSUME NEW c \in blocks PROVE Genuine(new, c) /\ Apart(b, c) /\ Apart(c, b)
  <2>1. Genuine(own, c) BY DEF History
  <2>2. /\ c.start \in Nat /\ c.end \in Nat /\ c.start < c.end /\ c.end <= e0
        /\ c = Block(c.start, c.end, c.changes)
    BY <2>1 DEF Genuine
  <2>3. Upto(new, c.start).data = Upto(own, c.start).data /\ Upto(new, c.end).data = Upto(own, c.end).data
    BY <1>1, <1>8, <2>2
  <2>4. Upto(new, c.end).data = Upto(new, c.start).data \cup Entries(c) BY <2>1, <2>3 DEF Genuine
  <2>5. GetChanges(Upto(new, c.start), c.changes) = c.changes
    BY <2>1, <2>3, ChangesOfData DEF Genuine
  <2>6. c.end <= new.expirationTime BY <1>1, <1>5, <2>2
  <2> QED BY <1>2, <2>2, <2>4, <2>5, <2>6 DEF Genuine, Apart
<1>12. History(new, blocks \cup {b})
  <2>1. \A c, d \in blocks : c = d \/ Apart(c, d) BY DEF History
  <2> QED BY <1>5, <1>7, <1>10, <1>11, <2>1, SMTT(30) DEF History
<1>13. ASSUME NEW map, Replica(own, blocks, map) PROVE Replica(new, blocks \cup {b}, map)
  <2>1. map.expirationTime \in Nat /\ map.expirationTime <= e0 BY <1>13 DEF Replica, IsMap
  <2>2. map.expirationTime <= new.expirationTime BY <1>1, <1>5, <2>1
  <2>3. map.data = Upto(new, map.expirationTime).data BY <1>8, <1>13, <2>1 DEF Replica
  <2>4. map.expirationTime <= b.start BY <1>2, <2>1
  <2> QED BY <1>13, <2>2, <2>3, <2>4 DEF Replica
<1>14. HasFirst(own) /\ ~own.fatal => ~new.fatal
  <2> SUFFICES ASSUME HasFirst(own), ~own.fatal PROVE ~(own.data = {} /\ e0 # 0)
    BY <1>1, <1>5 DEF IsMap
  <2> QED BY DEF HasFirst
<1>15. HasFirst(own) /\ DOMAIN state # {} => HasFirst(new)
  <2>1. CASE \E e \in own.data : e.start = 0 BY <1>5, <2>1 DEF HasFirst
  <2>2. CASE own.expirationTime = 0 /\ DOMAIN state # {}
    <3>1. own.data = {} BY <1>6, <2>2
    <3>2. PICK k \in DOMAIN state : TRUE BY <2>2
    <3>3. k \in DOMAIN changes BY <3>1 DEF changes, GetChanges, EntriesOf
    <3>4. [key |-> k, start |-> b.start, value |-> b.changes[k]] \in Entries(b)
      BY <1>2, <3>3 DEF Entries
    <3>5. [key |-> k, start |-> b.start, value |-> b.changes[k]].start = 0 BY <1>2, <2>2
    <3> QED BY <1>5, <3>4, <3>5 DEF HasFirst
  <2> QED BY <2>1, <2>2 DEF HasFirst
<1>16. new.expirationTime = t BY <1>5
<1> QED BY <1>9, <1>12, <1>13, <1>14, <1>15, <1>16 DEF Extended

\* Maps with the same entries before t say the same of every earlier time.
LEMMA SameHistory ==
  ASSUME NEW map, NEW own, IsMap(map), IsMap(own),
         map.expirationTime <= own.expirationTime,
         map.data = Upto(own, map.expirationTime).data,
         NEW t \in Nat, t < map.expirationTime
  PROVE  GetAll(map, t) = GetAll(own, t)
<1>1. map.data = {e \in own.data : e.start < map.expirationTime} BY UptoData
<1>2. map.expirationTime \in Nat /\ own.expirationTime \in Nat /\ \A e \in own.data : e.start \in Nat
  BY DEF IsMap
<1>3. ~(t >= map.expirationTime) /\ ~(t >= own.expirationTime) BY <1>2
<1>4. ASSUME NEW k \in Key PROVE Get(map, t, k) = Get(own, t, k)
  <2> DEFINE Past(m) == {e \in EntriesOf(m, k) : e.start <= t}
             Newest(past) == (CHOOSE e \in past : \A f \in past : f.start <= e.start).value
  <2>1. Past(map) = Past(own) BY <1>1, <1>2 DEF EntriesOf
  <2>2. Get(map, t, k) = IF Past(map) = {} THEN NoValue ELSE Newest(Past(map)) BY <1>3 DEF Get
  <2>3. Get(own, t, k) = IF Past(own) = {} THEN NoValue ELSE Newest(Past(own)) BY <1>3 DEF Get
  <2> HIDE DEF Past, Newest
  <2> QED BY <2>1, <2>2, <2>3
<1> QED BY <1>4 DEF GetAll

-----------------------------------------------------------------------------
(* The send buffer.                                                         *)

\* The buffer keeps the newest block, and the message has the buffer's blocks and no other.
LEMMA BufferKeeps ==
  ASSUME NEW buf, IsWindow(buf), Len(buf) <= Window, NEW b,
         NEW new, new = KeepLast(Append(buf, b))
  PROVE  /\ IsWindow(new) /\ Len(new) <= Window
         /\ b \in InWindow(new) /\ InWindow(new) \subseteq InWindow(buf) \cup {b}
         /\ IsWindow(Padded(new)) /\ InWindow(Padded(new)) = InWindow(new)
<1> DEFINE S == InWindow(buf) \cup {b}
           long == Append(buf, b)
           n == Len(buf)
<1>0. Window \in Nat /\ Window >= 1 BY BoundsAssumption
<1>1. buf \in Seq(S) /\ b \in S /\ n \in Nat BY SeqMonotonic, LenProperties DEF IsWindow
<1>2. long \in Seq(S) /\ Len(long) = n + 1 /\ long[n + 1] = b
  BY <1>1, AppendProperties
<1>3. /\ new \in Seq(S) /\ Len(new) \in Nat /\ Len(new) >= 1 /\ Len(new) <= Window
      /\ new[Len(new)] = b
  <2> HIDE DEF long, S
  <2>1. CASE n + 1 > Window
    <3>1. new = Tail(long) /\ long # <<>> BY <1>1, <1>2, <2>1, EmptySeq DEF KeepLast, long
    <3>2. new \in Seq(S) /\ Len(new) = n
      BY <1>1, <1>2, <3>1, HeadTailProperties
    <3>3. \A i \in 1..n : new[i] = long[i + 1] BY <1>1, <1>2, <3>1, HeadTailProperties
    <3> QED BY <1>0, <1>1, <1>2, <2>1, <3>2, <3>3
  <2>2. CASE ~(n + 1 > Window)
    <3>1. new = long BY <1>1, <1>2, <2>2 DEF KeepLast, long
    <3> QED BY <1>0, <1>1, <1>2, <2>2, <3>1
  <2> QED BY <2>1, <2>2
<1>4. new \in [1..Len(new) -> S] /\ DOMAIN new = 1..Len(new) BY <1>3, LenProperties
<1>5. InWindow(new) \subseteq S /\ b \in InWindow(new) BY <1>3, <1>4 DEF InWindow
<1> DEFINE m == Len(new)
           R == InWindow(new)
<1>6. IsWindow(new)
  <2>1. new \in [1..m -> R] BY <1>4 DEF InWindow
  <2>2. m \in Nat BY <1>3
  <2> HIDE DEF m, R
  <2>3. new \in Seq(R) BY <2>1, <2>2, SeqDef
  <2> QED BY <2>3 DEF IsWindow, R
<1>7. \A i \in 1..Window : Padded(new)[i] = IF i <= m THEN new[i] ELSE new[m] BY DEF Padded
<1>8. Padded(new) \in [1..Window -> R] /\ DOMAIN Padded(new) = 1..Window
  <2>1. DOMAIN Padded(new) = 1..Window /\ Padded(new) = [i \in 1..Window |-> Padded(new)[i]]
    BY DEF Padded
  <2>2. \A i \in 1..Window : Padded(new)[i] \in R
    BY <1>0, <1>3, <1>4, <1>7 DEF InWindow
  <2> QED BY <2>1, <2>2
<1>9. InWindow(Padded(new)) = R
  <2>1. InWindow(Padded(new)) \subseteq R BY <1>8 DEF InWindow
  <2>2. ASSUME NEW c \in R PROVE c \in InWindow(Padded(new))
    <3>1. PICK i \in 1..m : c = new[i] BY <1>4 DEF InWindow
    <3>2. i \in 1..Window /\ Padded(new)[i] = c BY <1>0, <1>3, <1>7, <3>1
    <3> QED BY <1>8, <3>2 DEF InWindow
  <2> QED BY <2>1, <2>2
<1>10. IsWindow(Padded(new))
  <2> HIDE DEF R
  <2>1. Padded(new) \in Seq(R) BY <1>0, <1>8, SeqDef
  <2> QED BY <1>9, <2>1 DEF IsWindow
<1> QED BY <1>3, <1>5, <1>6, <1>9, <1>10

-----------------------------------------------------------------------------
(* Replication: every step keeps it.                                        *)

\* How the maps may change in a step.
MapsGrow ==
  \A p, q \in Peer :
    /\ chrono[q][p].expirationTime <= chrono'[q][p].expirationTime
    /\ q = p => chrono[p][p].data = Upto(chrono'[p][p], chrono[p][p].expirationTime).data
    /\ chrono'[p][p] = chrono[p][p] \/ phase[p] = "running"

\* A peer and another one are the ends of a channel.
LEMMA ChannelIs ==
  ASSUME NEW p \in Peer, NEW q \in Others(p)
  PROVE  /\ q \in Peer /\ p # q /\ p \in Others(q)
         /\ <<p, q>> \in Channel
BY DEF Others, Channel

\* A map has no entry at or after its end.
LEMMA UptoAll ==
  ASSUME NEW map, IsMap(map)
  PROVE  map.data = Upto(map, map.expirationTime).data
<1>1. Upto(map, map.expirationTime).data = {e \in map.data : e.start < map.expirationTime}
  BY UptoData
<1> QED BY <1>1 DEF IsMap

\* Steps that leave the maps, the buffers and the blocks under way as they are.
LEMMA SameSchedule ==
  ASSUME Replication, UNCHANGED <<chrono, lastSendBuffer>>,
         \A p \in Peer : \A q \in Others(p) : Scheduled(p, q)' = Scheduled(p, q),
         \A p \in Peer : \A q \in Others(p) : \A r \in answered'[<<p, q>>] :
           r \in answered[<<p, q>>] \/ InWindow(r.window) = {}
  PROVE  Replication' /\ MapsGrow
<1>1. \A p \in Peer : Made(p)' = Made(p) BY DEF Made
<1>2. ASSUME NEW p \in Peer, NEW q \in Others(p) PROVE Consecutive(p, q)'
  <2>1. Consecutive(p, q) /\ Scheduled(p, q)' = Scheduled(p, q) BY DEF Replication
  <2> QED BY <2>1 DEF Consecutive
<1>3. \A p \in Peer : \A q \in Others(p) : \A r \in answered'[<<p, q>>] :
        \A b \in InWindow(r.window) : Has(chrono'[q][p], b)
  BY DEF Replication
<1>4. Replication' BY <1>1, <1>2, <1>3 DEF Replication
<1>5. ASSUME NEW p \in Peer, NEW q \in Peer
      PROVE  /\ chrono[q][p].expirationTime \in Nat
             /\ chrono[p][p].data = Upto(chrono[p][p], chrono[p][p].expirationTime).data
  <2>1. IsMap(chrono[p][p]) /\ IsMap(chrono[q][p])
    BY DEF Replication, History, Replica, Others
  <2> QED BY <2>1, UptoAll DEF IsMap
<1>6. \A p, q \in Peer : chrono[q][p].expirationTime <= chrono'[q][p].expirationTime BY <1>5
<1>7. MapsGrow BY <1>5, <1>6 DEF MapsGrow
<1> QED BY <1>4, <1>7

\* updateState(): the new block is the next one for everybody.
LEMMA UpdateStateKeeps ==
  ASSUME RpcShape, SendShape, Replication,
         NEW p \in Peer, NEW timestamp \in 1..MaxTime[p], NEW state,
         UpdateState(p, timestamp, state)
  PROVE  RpcShape' /\ SendShape' /\ Replication' /\ MapsGrow
<1> DEFINE own == chrono[p][p]
           b == Block(own.expirationTime, timestamp, GetChanges(own, state))
           new == Put(own, b)
           buffer == KeepLast(Append(lastSendBuffer[p], b))
           msg == InputMsg(timestamp, Padded(buffer))
<1>1. /\ phase[p] = "running" /\ sending[p].to = {}
      /\ timestamp \in Nat /\ timestamp > own.expirationTime
      /\ chrono' = [chrono EXCEPT ![p][p] = new]
      /\ lastSendBuffer' = [lastSendBuffer EXCEPT ![p] = buffer]
      /\ sending' = [sending EXCEPT ![p] = [to |-> Others(p), msg |-> msg]]
      /\ UNCHANGED rpcVars
  BY BoundsAssumption DEF UpdateState, GameThreadFree
<1>2. /\ IsWindow(buffer) /\ Len(buffer) <= Window
      /\ b \in InWindow(buffer) /\ InWindow(buffer) \subseteq InWindow(lastSendBuffer[p]) \cup {b}
      /\ IsWindow(Padded(buffer)) /\ InWindow(Padded(buffer)) = InWindow(buffer)
  BY BufferKeeps DEF SendShape
<1>3. b.start = own.expirationTime /\ b.end = timestamp BY DEF Block
<1>4. /\ History(new, Made(p) \cup {b})
      /\ new.expirationTime = timestamp
      /\ own.data = Upto(new, own.expirationTime).data
      /\ \A map : Replica(own, Made(p), map) => Replica(new, Made(p) \cup {b}, map)
  <2>1. History(own, Made(p)) BY DEF Replication
  <2>2. b = Block(own.expirationTime, timestamp, GetChanges(own, state)) /\ new = Put(own, b)
    OBVIOUS
  <2>3. timestamp \in Nat /\ timestamp > own.expirationTime BY <1>1
  <2> HIDE DEF own, b, new
  <2>4. Extended(own, Made(p), timestamp, state, b, new) BY <2>1, <2>2, <2>3, OwnPutKeeps
  <2> QED BY <2>4 DEF Extended
<1>5. msg.window = Padded(buffer) /\ msg.kind = "INPUT" BY DEF InputMsg
<1>6. own.expirationTime \in Nat BY DEF Replication, History, IsMap
<1> HIDE DEF new, buffer, b, msg
<1>7. RpcShape' BY <1>1 DEF RpcShape, rpcVars
<1>8. SendShape'
  <2>1. \A r \in Peer : r # p => sending'[r] = sending[r] /\ lastSendBuffer'[r] = lastSendBuffer[r]
    BY <1>1 DEF SendShape
  <2>2. sending'[p] = [to |-> Others(p), msg |-> msg] /\ lastSendBuffer'[p] = buffer
    BY <1>1 DEF SendShape
  <2>3. DOMAIN sending' = Peer /\ DOMAIN lastSendBuffer' = Peer BY <1>1 DEF SendShape
  <2>4. IsMessage(msg) BY <1>2, <1>5 DEF IsMessage
  <2>5. \A r \in Peer : r # p =>
           /\ IsWindow(lastSendBuffer'[r]) /\ Len(lastSendBuffer'[r]) <= Window
           /\ sending'[r] = [to |-> sending'[r].to, msg |-> sending'[r].msg]
           /\ sending'[r].to \subseteq Others(r)
           /\ IsMessage(sending'[r].msg)
    BY <2>1 DEF SendShape
  <2>6. /\ IsWindow(lastSendBuffer'[p]) /\ Len(lastSendBuffer'[p]) <= Window
        /\ sending'[p] = [to |-> sending'[p].to, msg |-> sending'[p].msg]
        /\ sending'[p].to \subseteq Others(p)
        /\ IsMessage(sending'[p].msg)
    BY <1>2, <2>2, <2>4
  <2> QED BY <2>3, <2>5, <2>6 DEF SendShape
<1>9. ASSUME NEW r \in Peer, NEW q \in Others(r), r # p
      PROVE  Scheduled(r, q)' = Scheduled(r, q)
  BY <1>1, <1>9 DEF Scheduled, Issued, rpcVars, SendShape
<1>10. ASSUME NEW q \in Others(p)
       PROVE  /\ Scheduled(p, q)' = Scheduled(p, q) \cup {b}
              /\ InWindow(lastSendBuffer'[p]) \subseteq Scheduled(p, q) \cup {b}
  <2>1. Scheduled(p, q) = Issued(p, q) /\ Issued(p, q)' = Issued(p, q)
    BY <1>1 DEF Scheduled, Issued, rpcVars
  <2>2. Scheduled(p, q)' = Issued(p, q) \cup InWindow(buffer)
    BY <1>1, <1>2, <1>5, <2>1 DEF Scheduled, SendShape
  <2>3. InWindow(lastSendBuffer[p]) \subseteq Scheduled(p, q) BY DEF Replication, Consecutive
  <2>4. lastSendBuffer'[p] = buffer BY <1>1 DEF SendShape
  <2> QED BY <1>2, <2>1, <2>2, <2>3, <2>4
<1>11. ASSUME NEW r \in Peer, r # p PROVE Made(r)' = Made(r)
  BY <1>1, <1>9, <1>11 DEF Made, SendShape
<1>12. /\ Made(p)' \subseteq Made(p) \cup {b}
       /\ Others(p) # {} => Made(p)' = Made(p) \cup {b}
  <2>1. lastSendBuffer'[p] = buffer BY <1>1 DEF SendShape
  <2>2. Made(p)' = InWindow(buffer) \cup UNION {Scheduled(p, q)' : q \in Others(p)}
    BY <2>1 DEF Made
  <2>3. ASSUME NEW q \in Others(p) PROVE InWindow(lastSendBuffer[p]) \subseteq Scheduled(p, q)
    BY DEF Replication, Consecutive
  <2>4. Made(p)' \subseteq Made(p) \cup {b} BY <1>2, <1>10, <2>2 DEF Made
  <2>5. ASSUME NEW q \in Others(p) PROVE Made(p) \cup {b} \subseteq Made(p)'
    BY <1>10, <2>2, <2>3, <2>5 DEF Made
  <2> QED BY <2>4, <2>5
<1>13. /\ chrono'[p][p] = new
       /\ \A q, r \in Peer : q # p \/ r # p => chrono'[q][r] = chrono[q][r]
       /\ DOMAIN chrono' = Peer /\ \A q \in Peer : DOMAIN chrono'[q] = Peer
  BY <1>1 DEF Replication
<1>14. \A r \in Peer : History(chrono'[r][r], Made(r)')
  <2>1. ASSUME NEW r \in Peer, r # p PROVE History(chrono'[r][r], Made(r)')
    BY <1>11, <1>13, <2>1 DEF Replication
  <2>2. History(chrono'[p][p], Made(p)') BY <1>4, <1>12, <1>13 DEF History
  <2> QED BY <2>1, <2>2
<1>15. ASSUME NEW r \in Peer, NEW q \in Others(r)
       PROVE  Replica(chrono'[r][r], Made(r)', chrono'[q][r])
  <2>0. q \in Peer /\ q # r BY DEF Others
  <2>1. CASE r # p BY <1>11, <1>13, <2>0, <2>1 DEF Replication
  <2>2. CASE r = p
    <3>1. Replica(own, Made(p), chrono[q][p]) BY <2>2 DEF Replication
    <3> QED BY <1>4, <1>12, <1>13, <2>0, <2>2, <3>1
  <2> QED BY <2>1, <2>2
<1>16. ASSUME NEW r \in Peer, NEW q \in Others(r) PROVE Consecutive(r, q)'
  <2>0. q \in Peer /\ q # r BY DEF Others
  <2>1. CASE r # p
    <3>1. lastSendBuffer'[r] = lastSendBuffer[r] BY <1>1, <2>1 DEF SendShape
    <3>2. Consecutive(r, q) /\ Scheduled(r, q)' = Scheduled(r, q) BY <1>9, <2>1 DEF Replication
    <3>3. chrono'[r][r] = chrono[r][r] BY <1>13, <2>1
    <3> QED BY <3>1, <3>2, <3>3 DEF Consecutive
  <2>2. CASE r = p
    <3>1. Consecutive(p, q) BY <2>2 DEF Replication
    <3>2. /\ Scheduled(p, q)' = Scheduled(p, q) \cup {b}
          /\ InWindow(lastSendBuffer'[p]) \subseteq Scheduled(p, q)'
      BY <1>10, <2>2
    <3>3. \A c \in Scheduled(p, q)' : c.start = 0 \/ \E d \in Scheduled(p, q)' : d.end = c.start
      BY <1>3, <3>1, <3>2 DEF Consecutive
    <3>4. \E c \in Scheduled(p, q)' : c.end = chrono'[p][p].expirationTime
      BY <1>3, <1>4, <1>13, <3>2
    <3> QED BY <2>2, <3>2, <3>3, <3>4 DEF Consecutive
  <2> QED BY <2>1, <2>2
<1>17. \A r \in Peer : \A q \in Others(r) : \A m \in answered'[<<r, q>>] :
         \A c \in InWindow(m.window) : Has(chrono'[q][r], c)
  BY <1>1, <1>13 DEF Replication, rpcVars, Others
<1>18. Replication' BY <1>13, <1>14, <1>15, <1>16, <1>17 DEF Replication
<1>19. ASSUME NEW r \in Peer, NEW q \in Peer
       PROVE  /\ chrono[q][r].expirationTime \in Nat
              /\ chrono[r][r].data = Upto(chrono[r][r], chrono[r][r].expirationTime).data
  <2>1. IsMap(chrono[r][r]) /\ IsMap(chrono[q][r])
    BY DEF Replication, History, Replica, Others
  <2> QED BY <2>1, UptoAll DEF IsMap
<1>20. MapsGrow BY <1>1, <1>4, <1>6, <1>13, <1>19 DEF MapsGrow
<1> QED BY <1>7, <1>8, <1>18, <1>20

\* One more connection is sent the message: the blocks for it were scheduled, and are issued now.
LEMMA SendNextKeeps ==
  ASSUME RpcShape, SendShape, Replication, NEW p \in Peer, NEW q \in Peer, SendNext(p, q)
  PROVE  RpcShape' /\ SendShape' /\ Replication' /\ MapsGrow
<1> DEFINE msg == sending[p].msg
           skip == msg.kind = "SHUTDOWN" /\ q \in peerDown[p]
<1>1. q \in Others(p) /\ <<p, q>> \in Channel BY ChannelIs DEF SendNext, SendShape
<1>2. /\ q \in sending[p].to
      /\ sending' = [sending EXCEPT ![p].to = @ \ {q}]
      /\ UNCHANGED <<executed, answered, completed, chrono, lastSendBuffer>>
      /\ requested' = IF skip THEN requested
                      ELSE [requested EXCEPT ![<<p, q>>] = @ \cup {msg}]
  BY DEF SendNext, Rpc!Issue, rpcVars
<1>3. IsMessage(msg) BY DEF SendShape
<1>4. /\ sending'[p].to = sending[p].to \ {q} /\ sending'[p].msg = msg
      /\ sending'[p] = [to |-> sending'[p].to, msg |-> sending'[p].msg]
      /\ DOMAIN sending' = Peer
      /\ \A r \in Peer : r # p => sending'[r] = sending[r]
  <2>1. sending[p] = [to |-> sending[p].to, msg |-> msg] /\ DOMAIN sending = Peer BY DEF SendShape
  <2>2. sending'[p] = [sending[p] EXCEPT !.to = @ \ {q}] BY <1>2, <2>1
  <2>3. sending'[p] = [to |-> sending[p].to \ {q}, msg |-> msg] BY <2>1, <2>2
  <2> QED BY <1>2, <2>1, <2>3
<1> HIDE DEF msg
<1>5. /\ DOMAIN requested' = Channel
      /\ \A c \in Channel : c # <<p, q>> => requested'[c] = requested[c]
      /\ requested'[<<p, q>>] = IF skip THEN requested[<<p, q>>] ELSE requested[<<p, q>>] \cup {msg}
  BY <1>1, <1>2 DEF RpcShape
<1>6. RpcShape'
  <2>1. \A c \in Channel : requested[c] \subseteq requested'[c] BY <1>5
  <2>2. \A c \in Channel : \A r \in requested'[c] : IsMessage(r) BY <1>3, <1>5 DEF RpcShape
  <2>3. \A c \in Channel : /\ completed[c] \subseteq answered[c] /\ answered[c] \subseteq executed[c]
                           /\ executed[c] \subseteq requested'[c]
    BY <2>1 DEF RpcShape
  <2> QED BY <1>2, <1>5, <2>2, <2>3 DEF RpcShape
<1>7. SendShape'
  <2>1. \A r \in Peer :
          /\ sending'[r] = [to |-> sending'[r].to, msg |-> sending'[r].msg]
          /\ sending'[r].to \subseteq Others(r)
          /\ IsMessage(sending'[r].msg)
    BY <1>3, <1>4 DEF SendShape
  <2> QED BY <1>2, <1>4, <2>1 DEF SendShape
<1>8. ASSUME NEW r \in Peer, NEW x \in Others(r) PROVE Scheduled(r, x)' = Scheduled(r, x)
  <2>1. <<r, x>> \in Channel BY ChannelIs
  <2>2. CASE r # p
    <3>1. requested'[<<r, x>>] = requested[<<r, x>>] /\ sending'[r] = sending[r]
      BY <1>4, <1>5, <2>1, <2>2
    <3> QED BY <3>1 DEF Scheduled, Issued
  <2>3. CASE r = p /\ x # q
    <3>1. requested'[<<r, x>>] = requested[<<r, x>>] BY <1>5, <2>1, <2>3
    <3>2. (x \in sending'[p].to <=> x \in sending[p].to) /\ sending'[p].msg = msg
      BY <1>4, <2>3
    <3> QED BY <2>3, <3>1, <3>2 DEF Scheduled, Issued, msg
  <2>4. CASE r = p /\ x = q
    <3>1. Scheduled(p, q) = Issued(p, q) \cup InWindow(msg.window) BY <1>2 DEF Scheduled, msg
    <3>2. Scheduled(p, q)' = Issued(p, q)' BY <1>4 DEF Scheduled
    <3>3. CASE skip
      <4>1. InWindow(msg.window) = {} BY <1>3, <3>3 DEF IsMessage, InWindow
      <4>2. Issued(p, q)' = Issued(p, q) BY <1>5, <3>3 DEF Issued
      <4> QED BY <2>4, <3>1, <3>2, <4>1, <4>2
    <3>4. CASE ~skip
      <4>1. requested'[<<p, q>>] = requested[<<p, q>>] \cup {msg} BY <1>5, <3>4
      <4>2. Issued(p, q)' = Issued(p, q) \cup InWindow(msg.window) BY <4>1 DEF Issued
      <4> QED BY <2>4, <3>1, <3>2, <4>2
    <3> QED BY <3>3, <3>4
  <2> QED BY <2>2, <2>3, <2>4
<1>9. Replication' /\ MapsGrow BY <1>2, <1>8, SameSchedule
<1> QED BY <1>6, <1>7, <1>9

\* A request is handed over; a SHUTDOWN is answered at once, and has no blocks.
LEMMA DeliverKeeps ==
  ASSUME RpcShape, SendShape, Replication, NEW p \in Peer, NEW q \in Others(p), Deliver(p, q)
  PROVE  RpcShape' /\ SendShape' /\ Replication' /\ MapsGrow
<1>1. <<p, q>> \in Channel BY ChannelIs
<1>2. UNCHANGED <<chrono, lastSendBuffer, sending, requested, completed>>
  BY DEF Deliver, Rpc!ExecuteAndAnswer, Rpc!Execute
<1>3. PICK r \in requested[<<p, q>>] :
        /\ executed' = [executed EXCEPT ![<<p, q>>] = @ \cup {r}]
        /\ answered' = IF r.kind = "SHUTDOWN" THEN [answered EXCEPT ![<<p, q>>] = @ \cup {r}]
                       ELSE answered
  BY DEF Deliver, Rpc!ExecuteAndAnswer, Rpc!Execute
<1>4. /\ DOMAIN executed' = Channel /\ DOMAIN answered' = Channel
      /\ \A c \in Channel : c # <<p, q>> => executed'[c] = executed[c] /\ answered'[c] = answered[c]
      /\ executed'[<<p, q>>] = executed[<<p, q>>] \cup {r}
      /\ answered'[<<p, q>>] = IF r.kind = "SHUTDOWN" THEN answered[<<p, q>>] \cup {r}
                               ELSE answered[<<p, q>>]
  BY <1>1, <1>3 DEF RpcShape
<1>5. RpcShape'
  <2>1. \A c \in Channel : /\ completed[c] \subseteq answered'[c]
                           /\ answered'[c] \subseteq executed'[c]
                           /\ executed'[c] \subseteq requested[c]
    BY <1>4 DEF RpcShape
  <2> QED BY <1>2, <1>4, <2>1 DEF RpcShape
<1>6. SendShape' BY <1>2 DEF SendShape
<1>7. r.kind = "SHUTDOWN" => InWindow(r.window) = {}
  BY <1>1, <1>3 DEF RpcShape, IsMessage, InWindow
<1>8. \A x \in Peer : \A y \in Others(x) : \A m \in answered'[<<x, y>>] :
        m \in answered[<<x, y>>] \/ InWindow(m.window) = {}
  BY <1>4, <1>7, ChannelIs
<1>9. \A x \in Peer : \A y \in Others(x) : Scheduled(x, y)' = Scheduled(x, y)
  BY <1>2 DEF Scheduled, Issued
<1>10. Replication' /\ MapsGrow BY <1>2, <1>8, <1>9, SameSchedule
<1> QED BY <1>5, <1>6, <1>10

\* The issuer learns of an answer.
LEMMA CompleteKeeps ==
  ASSUME RpcShape, SendShape, Replication, NEW p \in Peer, NEW q \in Others(p), Complete(p, q)
  PROVE  RpcShape' /\ SendShape' /\ Replication' /\ MapsGrow
<1>1. <<p, q>> \in Channel BY ChannelIs
<1>2. UNCHANGED <<chrono, lastSendBuffer, sending, requested, executed, answered>>
  BY DEF Complete, Rpc!Complete
<1>3. PICK r \in answered[<<p, q>>] : completed' = [completed EXCEPT ![<<p, q>>] = @ \cup {r}]
  BY DEF Complete, Rpc!Complete
<1>4. RpcShape' BY <1>1, <1>2, <1>3 DEF RpcShape
<1>5. SendShape' BY <1>2 DEF SendShape
<1>6. \A x \in Peer : \A y \in Others(x) : Scheduled(x, y)' = Scheduled(x, y)
  BY <1>2 DEF Scheduled, Issued
<1>7. Replication' /\ MapsGrow BY <1>2, <1>6, SameSchedule
<1> QED BY <1>4, <1>5, <1>7

\* update() puts the blocks of a request and answers it.
LEMMA UpdateKeeps ==
  ASSUME RpcShape, SendShape, Replication, NEW p \in Peer, NEW q \in Others(p), Update(p, q)
  PROVE  RpcShape' /\ SendShape' /\ Replication' /\ MapsGrow
<1>1. <<p, q>> \in Channel /\ q \in Peer /\ q # p BY ChannelIs
<1>2. UNCHANGED <<lastSendBuffer, sending, requested, executed, completed>>
  BY DEF Update, Rpc!Answer
<1>3. PICK r \in executed[<<p, q>>] :
        /\ chrono' = [chrono EXCEPT ![q][p] = PutAll(@, r.window)]
        /\ answered' = [answered EXCEPT ![<<p, q>>] = @ \cup {r}]
  BY DEF Update, Rpc!Answer
<1> DEFINE own == chrono[p][p]
           map == chrono[q][p]
           new == PutAll(map, r.window)
<1>4. /\ DOMAIN answered' = Channel
      /\ \A c \in Channel : c # <<p, q>> => answered'[c] = answered[c]
      /\ answered'[<<p, q>>] = answered[<<p, q>>] \cup {r}
  BY <1>1, <1>3 DEF RpcShape
<1>5. RpcShape'
  <2>1. \A c \in Channel : /\ completed[c] \subseteq answered'[c]
                           /\ answered'[c] \subseteq executed[c]
    BY <1>3, <1>4 DEF RpcShape
  <2> QED BY <1>2, <1>4, <2>1 DEF RpcShape
<1>6. SendShape' BY <1>2 DEF SendShape
<1>7. IsWindow(r.window) /\ InWindow(r.window) \subseteq Made(p)
  <2>1. r \in requested[<<p, q>>] /\ IsMessage(r) BY <1>1, <1>3 DEF RpcShape
  <2>2. InWindow(r.window) \subseteq Scheduled(p, q) BY <2>1 DEF Scheduled, Issued
  <2> QED BY <2>1, <2>2 DEF IsMessage, Made
<1>8. History(own, Made(p)) /\ Replica(own, Made(p), map) BY DEF Replication
<1>9. /\ chrono'[q][p] = new
      /\ \A x, y \in Peer : x # q \/ y # p => chrono'[x][y] = chrono[x][y]
      /\ DOMAIN chrono' = Peer /\ \A x \in Peer : DOMAIN chrono'[x] = Peer
  BY <1>1, <1>3 DEF Replication
<1>10. /\ Replica(own, Made(p), new) /\ Grows(own, Made(p), map, new)
       /\ \A b \in InWindow(r.window) : Has(new, b)
  <2> HIDE DEF own, map
  <2> QED BY <1>7, <1>8, PutAllKeeps
<1> HIDE DEF new
<1>11. \A x \in Peer : \A y \in Others(x) : Scheduled(x, y)' = Scheduled(x, y)
  BY <1>2 DEF Scheduled, Issued
<1>12. \A x \in Peer : Made(x)' = Made(x) BY <1>2, <1>11 DEF Made
<1>13. \A x \in Peer : chrono'[x][x] = chrono[x][x] BY <1>1, <1>9
<1>14. \A x \in Peer : History(chrono'[x][x], Made(x)') BY <1>12, <1>13 DEF Replication
<1>15. ASSUME NEW x \in Peer, NEW y \in Others(x) PROVE Consecutive(x, y)'
  <2>1. Consecutive(x, y) /\ Scheduled(x, y)' = Scheduled(x, y) BY <1>11 DEF Replication
  <2>2. chrono'[x][x] = chrono[x][x] BY <1>13
  <2> QED BY <1>2, <2>1, <2>2 DEF Consecutive
<1>16. ASSUME NEW x \in Peer, NEW y \in Others(x)
       PROVE  /\ Replica(chrono'[x][x], Made(x)', chrono'[y][x])
              /\ \A m \in answered'[<<x, y>>] : \A b \in InWindow(m.window) : Has(chrono'[y][x], b)
  <2>1. <<x, y>> \in Channel /\ y \in Peer BY ChannelIs
  <2>2. CASE x = p /\ y = q
    <3>1. Replica(chrono'[x][x], Made(x)', chrono'[y][x])
      BY <1>9, <1>10, <1>12, <1>13, <2>2
    <3>2. ASSUME NEW m \in answered[<<p, q>>], NEW b \in InWindow(m.window) PROVE Has(new, b)
      <4>1. Has(map, b) BY DEF Replication
      <4>2. m \in requested[<<p, q>>] BY <1>1 DEF RpcShape
      <4>3. b \in Scheduled(p, q) BY <4>2 DEF Scheduled, Issued
      <4>4. b \in Made(p) BY <4>3 DEF Made
      <4> QED BY <1>10, <4>1, <4>4 DEF Grows
    <3> QED BY <1>4, <1>9, <1>10, <2>2, <3>1, <3>2
  <2>3. CASE ~(x = p /\ y = q)
    <3>1. answered'[<<x, y>>] = answered[<<x, y>>] /\ chrono'[y][x] = chrono[y][x]
      BY <1>4, <1>9, <2>1, <2>3
    <3> QED BY <1>12, <1>13, <3>1 DEF Replication
  <2> QED BY <2>2, <2>3
<1>17. Replication' BY <1>9, <1>14, <1>15, <1>16 DEF Replication
<1>18. ASSUME NEW x \in Peer, NEW y \in Peer
       PROVE  /\ chrono[y][x].expirationTime \in Nat
              /\ chrono[x][x].data = Upto(chrono[x][x], chrono[x][x].expirationTime).data
  <2>1. IsMap(chrono[x][x]) /\ IsMap(chrono[y][x])
    BY DEF Replication, History, Replica, Others
  <2> QED BY <2>1, UptoAll DEF IsMap
<1>19. \A x, y \in Peer : chrono[y][x].expirationTime <= chrono'[y][x].expirationTime
  BY <1>9, <1>10, <1>18 DEF Grows
<1>20. MapsGrow BY <1>13, <1>18, <1>19 DEF MapsGrow
<1> QED BY <1>5, <1>6, <1>17, <1>20

\* shutdown() announces itself when nothing is being sent, and has no blocks to send.
LEMMA AnnounceKeeps ==
  ASSUME RpcShape, SendShape, Replication, Shutdowns, NEW p \in Peer, Announce(p)
  PROVE  RpcShape' /\ SendShape' /\ Replication' /\ MapsGrow
<1>1. /\ UNCHANGED <<chrono, lastSendBuffer, requested, executed, answered, completed>>
      /\ sending' = [sending EXCEPT ![p] = [to |-> Others(p), msg |-> ShutdownMsg]]
      /\ sending[p].to = {}
  BY DEF Announce, rpcVars, Shutdowns
<1>2. ShutdownMsg.window = <<>> /\ InWindow(<<>>) = {} /\ IsMessage(ShutdownMsg)
  <2>1. ShutdownMsg.window = <<>> BY DEF ShutdownMsg
  <2>2. InWindow(<<>>) = {} BY DEF InWindow
  <2>3. <<>> \in Seq({}) BY EmptySeq
  <2> QED BY <2>1, <2>2, <2>3 DEF IsMessage, IsWindow
<1> HIDE DEF ShutdownMsg
<1>3. /\ sending'[p] = [to |-> Others(p), msg |-> ShutdownMsg] /\ DOMAIN sending' = Peer
      /\ \A r \in Peer : r # p => sending'[r] = sending[r]
  BY <1>1 DEF SendShape
<1>4. RpcShape' BY <1>1 DEF RpcShape
<1>5. SendShape'
  <2>1. \A r \in Peer :
          /\ sending'[r] = [to |-> sending'[r].to, msg |-> sending'[r].msg]
          /\ sending'[r].to \subseteq Others(r)
          /\ IsMessage(sending'[r].msg)
    BY <1>2, <1>3 DEF SendShape
  <2> QED BY <1>1, <1>3, <2>1 DEF SendShape
<1>6. ASSUME NEW x \in Peer, NEW y \in Others(x) PROVE Scheduled(x, y)' = Scheduled(x, y)
  <2>1. Issued(x, y)' = Issued(x, y) BY <1>1 DEF Issued
  <2>2. CASE x = p
    <3>1. Scheduled(x, y)' = Issued(x, y)' BY <1>2, <1>3, <2>2 DEF Scheduled
    <3>2. Scheduled(x, y) = Issued(x, y) BY <1>1, <2>2 DEF Scheduled
    <3> QED BY <2>1, <3>1, <3>2
  <2>3. CASE x # p BY <1>3, <2>1, <2>3 DEF Scheduled
  <2> QED BY <2>2, <2>3
<1>7. Replication' /\ MapsGrow BY <1>1, <1>6, SameSchedule
<1> QED BY <1>4, <1>5, <1>7

\* The other steps touch none of it.
LEMMA QuietKeeps ==
  ASSUME RpcShape, SendShape, Replication,
         UNCHANGED <<chrono, lastSendBuffer, sending, requested, executed, answered, completed>>
  PROVE  RpcShape' /\ SendShape' /\ Replication' /\ MapsGrow
<1>1. RpcShape' BY DEF RpcShape
<1>2. SendShape' BY DEF SendShape
<1>3. \A x \in Peer : \A y \in Others(x) : Scheduled(x, y)' = Scheduled(x, y)
  BY DEF Scheduled, Issued
<1>4. Replication' /\ MapsGrow BY <1>3, SameSchedule
<1> QED BY <1>1, <1>2, <1>4

-----------------------------------------------------------------------------
(* The steps by what they leave alone.                                      *)

\* The game thread reading.
ReadStep(q) ==
  \/ \E t \in ReadTimes : GetAllInputValues(q, t) \/ GetFullState(q, t)
  \/ CheckPeer(q) \/ TakeInputs(q) \/ TimeOut(q) \/ CheckDead(q) \/ GiveUp(q)

\* The steps of a shutdown that only change its phase, and a crash.
PhaseStep(p) == BeginShutdown(p) \/ StopUpdates(p) \/ LastUpdate(p) \/ Stop(p) \/ Crash(p)

\* Next, sorted by what the steps leave alone.
LEMMA NextIs ==
  ASSUME Next
  PROVE  \/ \E p \in Peer : \E t \in 1..MaxTime[p] : \E state \in States[p] : UpdateState(p, t, state)
         \/ \E p, q \in Peer : SendNext(p, q)
         \/ \E p \in Peer : \E q \in Others(p) : Deliver(p, q) \/ Update(p, q) \/ Complete(p, q)
         \/ \E p \in Peer : Announce(p)
         \/ \E p \in Peer : PhaseStep(p)
         \/ \E p \in Peer : ReadStep(p)
<1>1. ASSUME NEW c \in Channel PROVE c[1] \in Peer /\ c[2] \in Others(c[1])
  BY DEF Channel, Others
<1>2. CASE \E c \in Channel : Deliver(c[1], c[2]) BY <1>1, <1>2
<1>3. CASE \E c \in Channel : Update(c[1], c[2]) BY <1>1, <1>3
<1>4. CASE \E c \in Channel : Complete(c[1], c[2]) BY <1>1, <1>4
<1>5. CASE \E p \in Peer : SomeUpdateState(p) BY <1>5 DEF SomeUpdateState
<1>6. CASE \E p, q \in Peer : SendNext(p, q) BY <1>6
<1>7. CASE \/ \E q \in Peer : \E t \in ReadTimes : GetAllInputValues(q, t)
           \/ \E q \in Peer : \E t \in ReadTimes : GetFullState(q, t)
           \/ \E q \in Peer : CheckPeer(q)
           \/ \E q \in Peer : TakeInputs(q)
           \/ \E q \in Peer : TimeOut(q)
           \/ \E q \in Peer : CheckDead(q)
           \/ \E q \in Peer : GiveUp(q)
  BY <1>7 DEF ReadStep
<1>8. CASE \/ \E p \in Peer : BeginShutdown(p)
           \/ \E p \in Peer : StopUpdates(p)
           \/ \E p \in Peer : LastUpdate(p)
           \/ \E p \in Peer : Stop(p)
           \/ \E p \in Peer : Crash(p)
  BY <1>8 DEF PhaseStep
<1>9. CASE \E p \in Peer : Announce(p) BY <1>9
<1> QED BY <1>2, <1>3, <1>4, <1>5, <1>6, <1>7, <1>8, <1>9 DEF Next

\* A reader only changes its own place, and the results.
LEMMA ReadStepLeaves ==
  ASSUME NEW q \in Peer, ReadStep(q)
  PROVE  UNCHANGED <<chrono, lastSendBuffer, sending, requested, executed, answered, completed,
                     peerDown, phase, crashed>>
BY DEF ReadStep, GetAllInputValues, GetFullState, BeginRead, CheckPeer, TakeInputs, TimeOut,
       CheckDead, GiveUp, rpcVars

\* A step of shutdown() between two flushes sends and receives nothing.
LEMMA PhaseStepLeaves ==
  ASSUME NEW p \in Peer, PhaseStep(p)
  PROVE  UNCHANGED <<chrono, lastSendBuffer, sending, requested, executed, answered, completed,
                     peerDown, reader, reads, results>>
BY DEF PhaseStep, BeginShutdown, StopUpdates, LastUpdate, Stop, Crash, rpcVars

\* Every step keeps the replicas replicas, and no map loses anything.
LEMMA StepReplicates ==
  ASSUME PeerIInv, [Next]_vars
  PROVE  RpcShape' /\ SendShape' /\ Replication' /\ MapsGrow
<1> USE DEF PeerIInv
<1>1. CASE UNCHANGED vars BY <1>1, QuietKeeps DEF vars, rpcVars
<1>2. CASE Next
  <2>1. ASSUME NEW p \in Peer, NEW t \in 1..MaxTime[p], NEW state \in States[p],
               UpdateState(p, t, state)
        PROVE  RpcShape' /\ SendShape' /\ Replication' /\ MapsGrow
    BY <2>1, UpdateStateKeeps
  <2>2. ASSUME NEW p \in Peer, NEW q \in Peer, SendNext(p, q)
        PROVE  RpcShape' /\ SendShape' /\ Replication' /\ MapsGrow
    BY <2>2, SendNextKeeps
  <2>3. ASSUME NEW p \in Peer, NEW q \in Others(p), Deliver(p, q) \/ Update(p, q) \/ Complete(p, q)
        PROVE  RpcShape' /\ SendShape' /\ Replication' /\ MapsGrow
    BY <2>3, DeliverKeeps, UpdateKeeps, CompleteKeeps
  <2>4. ASSUME NEW p \in Peer, Announce(p)
        PROVE  RpcShape' /\ SendShape' /\ Replication' /\ MapsGrow
    BY <2>4, AnnounceKeeps
  <2>5. ASSUME NEW p \in Peer, PhaseStep(p) \/ ReadStep(p)
        PROVE  RpcShape' /\ SendShape' /\ Replication' /\ MapsGrow
    BY <2>5, QuietKeeps, PhaseStepLeaves, ReadStepLeaves
  <2> QED BY <1>2, <2>1, <2>2, <2>3, <2>4, <2>5, NextIs
<1> QED BY <1>1, <1>2

-----------------------------------------------------------------------------
(* Shutdowns.                                                               *)

\* A phase once announced stays so; only p's own steps leave "running".
LEMMA PhaseMoves ==
  ASSUME PeerIInv, [Next]_vars, NEW p \in Peer
  PROVE  /\ Announced(p) => Announced(p)'
         /\ phase'[p] = "flushing" => phase[p] \in {"running", "flushing"}
         /\ phase'[p] = "flushing" /\ phase[p] = "running" => sending[p].to = {} /\ sending' = sending
<1> USE DEF PeerIInv, Shutdowns, Announced
<1>1. CASE UNCHANGED vars BY <1>1 DEF vars
<1>2. CASE \E r \in Peer : \E t \in 1..MaxTime[r] : \E state \in States[r] : UpdateState(r, t, state)
  BY <1>2 DEF UpdateState
<1>3. CASE \E r, q \in Peer : SendNext(r, q) BY <1>3 DEF SendNext
<1>4. CASE \E r \in Peer : \E q \in Others(r) : Deliver(r, q) \/ Update(r, q) \/ Complete(r, q)
  BY <1>4 DEF Deliver, Update, Complete
<1>5. CASE \E r \in Peer : Announce(r) BY <1>5 DEF Announce
<1>6. CASE \E r \in Peer : PhaseStep(r)
  BY <1>6 DEF PhaseStep, BeginShutdown, StopUpdates, LastUpdate, Stop, Crash, GameThreadFree
<1>7. CASE \E r \in Peer : ReadStep(r) BY <1>7, ReadStepLeaves
<1> QED BY <1>1, <1>2, <1>3, <1>4, <1>5, <1>6, <1>7, NextIs

\* Nobody hears of a shutdown that was not announced.
LEMMA ShutdownsKeep ==
  ASSUME PeerIInv, [Next]_vars
  PROVE  Shutdowns'
<1>0. RpcShape /\ SendShape /\ Shutdowns BY DEF PeerIInv
<1>1. ASSUME UNCHANGED <<sending, requested, peerDown, phase>> PROVE Shutdowns'
  BY <1>0, <1>1 DEF Shutdowns, Announced
<1>2. ASSUME NEW p \in Peer, NEW t, NEW state, UpdateState(p, t, state) PROVE Shutdowns'
  <2>1. /\ UNCHANGED <<requested, peerDown, phase>> /\ phase[p] = "running"
        /\ \A r \in Peer : r # p => sending'[r] = sending[r]
    BY <1>0, <1>2 DEF UpdateState, GameThreadFree, rpcVars, SendShape
  <2>2. sending'[p].msg.kind = "INPUT"
    BY <1>0, <1>2 DEF UpdateState, SendShape, InputMsg
  <2> QED BY <1>0, <2>1, <2>2 DEF Shutdowns, Announced
<1>3. ASSUME NEW p \in Peer, NEW q \in Peer, SendNext(p, q) PROVE Shutdowns'
  <2>1. /\ UNCHANGED <<peerDown, phase>> /\ q \in sending[p].to
        /\ sending' = [sending EXCEPT ![p].to = @ \ {q}]
        /\ requested' = requested \/ requested' = [requested EXCEPT ![<<p, q>>] = @ \cup {sending[p].msg}]
    BY <1>3 DEF SendNext, rpcVars, Rpc!Issue
  <2>2. /\ sending'[p].to = sending[p].to \ {q} /\ sending'[p].msg = sending[p].msg
        /\ \A r \in Peer : r # p => sending'[r] = sending[r]
    <3>1. sending[p] = [to |-> sending[p].to, msg |-> sending[p].msg] /\ DOMAIN sending = Peer
      BY <1>0 DEF SendShape
    <3>2. sending'[p] = [sending[p] EXCEPT !.to = @ \ {q}] BY <2>1, <3>1
    <3>3. sending'[p] = [to |-> sending[p].to \ {q}, msg |-> sending[p].msg] BY <3>1, <3>2
    <3> QED BY <2>1, <3>1, <3>3
  <2>3. sending[p].msg.kind = "SHUTDOWN" => Announced(p) BY <1>0, <2>1 DEF Shutdowns
  <2>4. ASSUME NEW x \in Peer, NEW y \in Others(x), NEW r \in requested'[<<x, y>>],
               r.kind = "SHUTDOWN"
        PROVE  Announced(x)
    <3>1. <<x, y>> \in Channel /\ DOMAIN requested = Channel BY <1>0, ChannelIs DEF RpcShape
    <3>2. r \in requested[<<x, y>>] \/ (x = p /\ r = sending[p].msg) BY <2>1, <3>1
    <3> QED BY <1>0, <2>3, <2>4, <3>2 DEF Shutdowns
  <2>5. \A x \in Peer : /\ phase'[x] = "flushing" => sending'[x].to = {}
                        /\ sending'[x].to # {} /\ sending'[x].msg.kind = "SHUTDOWN" => Announced(x)
    BY <1>0, <2>1, <2>2 DEF Shutdowns
  <2>6. \A x \in Peer : Announced(x)' = Announced(x) BY <2>1 DEF Announced
  <2>7. \A x \in Peer : \A y \in peerDown'[x] : y \in Others(x) /\ Announced(y)
    BY <1>0, <2>1 DEF Shutdowns
  <2>8. \A x \in Peer : \A y \in peerDown'[x] : y \in Peer BY <2>7 DEF Others
  <2> QED BY <1>0, <2>1, <2>4, <2>5, <2>6, <2>7, <2>8 DEF Shutdowns
<1>4. ASSUME NEW p \in Peer, NEW q \in Others(p), Deliver(p, q) PROVE Shutdowns'
  <2>1. UNCHANGED <<sending, requested, phase>>
    BY <1>4 DEF Deliver, Rpc!ExecuteAndAnswer, Rpc!Execute
  <2>2. \/ UNCHANGED peerDown
        \/ /\ \E r \in requested[<<p, q>>] : r.kind = "SHUTDOWN"
           /\ peerDown' = [peerDown EXCEPT ![q] = @ \cup {p}]
    BY <1>4 DEF Deliver
  <2>3. CASE UNCHANGED peerDown BY <1>1, <2>1, <2>3
  <2>4. CASE /\ \E r \in requested[<<p, q>>] : r.kind = "SHUTDOWN"
             /\ peerDown' = [peerDown EXCEPT ![q] = @ \cup {p}]
    <3>1. Announced(p) /\ p \in Others(q) /\ q \in Peer BY <1>0, <2>4, ChannelIs DEF Shutdowns
    <3>2. \A x \in Peer : \A y \in peerDown'[x] : y \in Others(x) /\ Announced(y)
      BY <1>0, <2>4, <3>1 DEF Shutdowns
    <3>3. \A x \in Peer : Announced(x)' = Announced(x) BY <2>1 DEF Announced
    <3>4. \A x \in Peer : \A y \in peerDown'[x] : y \in Peer BY <3>2 DEF Others
    <3>5. DOMAIN peerDown' = Peer BY <1>0, <2>4 DEF Shutdowns
    <3> QED BY <1>0, <2>1, <3>2, <3>3, <3>4, <3>5 DEF Shutdowns
  <2> QED BY <2>2, <2>3, <2>4
<1>5. ASSUME NEW p \in Peer, NEW q \in Others(p), Update(p, q) \/ Complete(p, q) PROVE Shutdowns'
  <2>1. UNCHANGED <<sending, requested, peerDown, phase>>
    BY <1>5 DEF Update, Complete, Rpc!Answer, Rpc!Complete
  <2> QED BY <1>1, <2>1
<1>6. ASSUME UNCHANGED <<requested, peerDown>>, DOMAIN phase' = Peer,
             \A x \in Peer : phase'[x] = "flushing" => sending'[x].to = {},
             \A x \in Peer : sending'[x].to # {} /\ sending'[x].msg.kind = "SHUTDOWN" => Announced(x)'
      PROVE  Shutdowns'
  <2>1. \A x \in Peer : Announced(x) => Announced(x)' BY PhaseMoves
  <2>2. \A x \in Peer : \A y \in peerDown'[x] : y \in Others(x) /\ Announced(y)'
    BY <1>0, <1>6, <2>1 DEF Shutdowns, Others
  <2> QED BY <1>0, <1>6, <2>1, <2>2 DEF Shutdowns
<1>7. ASSUME NEW p \in Peer, Announce(p) PROVE Shutdowns'
  <2>1. /\ UNCHANGED <<requested, peerDown>> /\ phase' = [phase EXCEPT ![p] = "announcing"]
        /\ \A r \in Peer : r # p => sending'[r] = sending[r]
    BY <1>0, <1>7 DEF Announce, rpcVars, SendShape
  <2>2. phase'[p] = "announcing" /\ DOMAIN phase' = Peer
        /\ \A r \in Peer : r # p => phase'[r] = phase[r]
    BY <1>0, <2>1 DEF Shutdowns
  <2> QED BY <1>0, <1>6, <2>1, <2>2 DEF Shutdowns, Announced
<1>8. ASSUME NEW p \in Peer, PhaseStep(p) PROVE Shutdowns'
  <2>1. UNCHANGED <<requested, peerDown, sending>> BY <1>8, PhaseStepLeaves
  <2>2. DOMAIN phase' = Peer
    BY <1>0, <1>8 DEF PhaseStep, BeginShutdown, StopUpdates, LastUpdate, Stop, Crash, Shutdowns
  <2>3. \A x \in Peer : phase'[x] = "flushing" => sending'[x].to = {}
    BY <1>0, <2>1, PhaseMoves DEF Shutdowns
  <2>4. \A x \in Peer : Announced(x) => Announced(x)' BY PhaseMoves
  <2>5. \A x \in Peer :
          sending'[x].to # {} /\ sending'[x].msg.kind = "SHUTDOWN" => Announced(x)'
    BY <1>0, <2>1, <2>4 DEF Shutdowns
  <2> QED BY <1>6, <2>1, <2>2, <2>3, <2>5
<1>9. ASSUME NEW p \in Peer, ReadStep(p) PROVE Shutdowns' BY <1>1, <1>9, ReadStepLeaves
<1>10. CASE UNCHANGED vars BY <1>1, <1>10 DEF vars, rpcVars
<1>11. CASE Next
  BY <1>2, <1>3, <1>4, <1>5, <1>7, <1>8, <1>9, <1>11, NextIs
<1> QED BY <1>10, <1>11

\* The invariant holds in every state, whatever the peers, the states and the bounds.
THEOREM PeerInvariance == Spec => []PeerIInv
<1>1. Init => PeerIInv
  <2> SUFFICES ASSUME Init PROVE PeerIInv OBVIOUS
  <2>1. /\ DOMAIN requested = Channel /\ DOMAIN executed = Channel
        /\ DOMAIN answered = Channel /\ DOMAIN completed = Channel
        /\ \A c \in Channel : requested[c] = {} /\ executed[c] = {} /\ answered[c] = {} /\ completed[c] = {}
    BY DEF Init, Rpc!Init
  <2>2. RpcShape BY <2>1 DEF RpcShape
  <2>3. InWindow(<<>>) = {} /\ <<>> \in Seq({}) /\ Len(<<>>) = 0 BY EmptySeq DEF InWindow
  <2>4. ShutdownMsg.window = <<>> /\ IsMessage(ShutdownMsg)
    BY <2>3 DEF ShutdownMsg, IsMessage, IsWindow
  <2>5. \A p \in Peer : sending[p] = [to |-> {}, msg |-> ShutdownMsg] /\ lastSendBuffer[p] = <<>>
    BY DEF Init, Nobody
  <2>6. SendShape
    <3>1. DOMAIN sending = Peer /\ DOMAIN lastSendBuffer = Peer BY DEF Init
    <3>2. Len(<<>>) <= Window BY <2>3, BoundsAssumption
    <3>3. IsWindow(<<>>) BY <2>3 DEF IsWindow
    <3>4. ASSUME NEW p \in Peer
          PROVE  /\ IsWindow(lastSendBuffer[p]) /\ Len(lastSendBuffer[p]) <= Window
                 /\ sending[p] = [to |-> sending[p].to, msg |-> sending[p].msg]
                 /\ sending[p].to \subseteq Others(p)
                 /\ IsMessage(sending[p].msg)
      <4>1. sending[p].to = {} /\ sending[p].msg = ShutdownMsg BY <2>5
      <4> QED BY <2>4, <2>5, <3>2, <3>3, <4>1
    <3> QED BY <3>1, <3>4 DEF SendShape
  <2>7. ASSUME NEW p \in Peer, NEW q \in Others(p) PROVE Scheduled(p, q) = {}
    <3>1. sending[p].to = {} /\ requested[<<p, q>>] = {} BY <2>1, <2>5, ChannelIs
    <3> QED BY <3>1 DEF Scheduled, Issued
  <2>8. \A p \in Peer : Made(p) = {} BY <2>3, <2>5, <2>7 DEF Made
  <2>9. \A p, q \in Peer : chrono[q][p] = Empty BY DEF Init
  <2>10. IsMap(Empty) /\ Empty.expirationTime = 0 /\ Empty.futureData = {} /\ Empty.data = {}
    BY DEF Empty, IsMap
  <2>11. History(Empty, {}) /\ Replica(Empty, {}, Empty)
    <3>1. Upto(Empty, 0).data = {} BY <2>10, UptoAll
    <3> QED BY <2>10, <3>1, FS_EmptySet DEF History, Replica
  <2>12. Replication
    <3>1. DOMAIN chrono = Peer /\ \A q \in Peer : DOMAIN chrono[q] = Peer BY DEF Init
    <3>2. \A p \in Peer : \A q \in Others(p) : Consecutive(p, q)
      BY <2>3, <2>5, <2>7, <2>9, <2>10 DEF Consecutive
    <3> QED BY <2>1, <2>8, <2>9, <2>11, <3>1, <3>2, ChannelIs DEF Replication
  <2>13. Shutdowns BY <2>1, <2>5, ChannelIs DEF Init, Shutdowns
  <2> QED BY <2>2, <2>6, <2>12, <2>13 DEF PeerIInv
<1>2. PeerIInv /\ [Next]_vars => PeerIInv' BY StepReplicates, ShutdownsKeep DEF PeerIInv
<1> QED BY <1>1, <1>2, PTL DEF Spec

\* ReplicaAgrees for every value of the constants: a replica says of every time it covers what
\* its owner's map says, whatever order the windows arrive in.
THEOREM ReplicasAgree == Spec => []ReplicaAgrees
<1>1. PeerIInv => ReplicaAgrees
  <2> SUFFICES ASSUME PeerIInv, NEW p \in Peer, NEW q \in Peer
               PROVE  /\ chrono[q][p].expirationTime <= chrono[p][p].expirationTime
                      /\ \A t \in 0..(chrono[q][p].expirationTime - 1) :
                           GetAll(chrono[q][p], t) = GetAll(chrono[p][p], t)
    BY DEF ReplicaAgrees
  <2>1. IsMap(chrono[p][p]) /\ chrono[p][p].expirationTime \in Nat
    BY DEF PeerIInv, Replication, History, IsMap
  <2>2. CASE q = p BY <2>1, <2>2
  <2>3. CASE q # p
    <3>1. Replica(chrono[p][p], Made(p), chrono[q][p]) BY <2>3 DEF PeerIInv, Replication, Others
    <3>2. /\ IsMap(chrono[q][p]) /\ chrono[q][p].expirationTime \in Nat
          /\ chrono[q][p].expirationTime <= chrono[p][p].expirationTime
          /\ chrono[q][p].data = Upto(chrono[p][p], chrono[q][p].expirationTime).data
      BY <3>1 DEF Replica, IsMap
    <3> QED BY <2>1, <3>2, SameHistory
  <2> QED BY <2>2, <2>3
<1> QED BY <1>1, PeerInvariance, PTL

\* HistoryIsFinal for every value of the constants: no step of any peer changes what a map says
\* of a time it covers.
THEOREM HistoryIsKept == Spec => HistoryIsFinal
<1> DEFINE Kept == \A p, q \in Peer :
                     /\ chrono'[q][p].expirationTime >= chrono[q][p].expirationTime
                     /\ \A t \in 0..(chrono[q][p].expirationTime - 1) :
                          GetAll(chrono'[q][p], t) = GetAll(chrono[q][p], t)
<1>1. PeerIInv /\ PeerIInv' /\ [Next]_vars => [Kept]_vars
  <2> SUFFICES ASSUME PeerIInv, PeerIInv', [Next]_vars, NEW p \in Peer, NEW q \in Peer
               PROVE  /\ chrono'[q][p].expirationTime >= chrono[q][p].expirationTime
                      /\ \A t \in 0..(chrono[q][p].expirationTime - 1) :
                           GetAll(chrono'[q][p], t) = GetAll(chrono[q][p], t)
    OBVIOUS
  <2> DEFINE own == chrono[p][p]
             map == chrono[q][p]
             nown == chrono'[p][p]
             nmap == chrono'[q][p]
             t0 == map.expirationTime
  <2>1. MapsGrow BY StepReplicates
  <2>2. /\ t0 <= nmap.expirationTime /\ own.expirationTime <= nown.expirationTime
        /\ own.data = Upto(nown, own.expirationTime).data
    BY <2>1 DEF MapsGrow
  <2>3. /\ IsMap(own) /\ IsMap(map) /\ t0 <= own.expirationTime
        /\ map.data = Upto(own, t0).data
    <3>1. CASE p = q BY <3>1, UptoAll DEF PeerIInv, Replication, History, IsMap
    <3>2. CASE p # q BY <3>2 DEF PeerIInv, Replication, History, Replica, Others
    <3> QED BY <3>1, <3>2
  <2>4. /\ IsMap(nown) /\ IsMap(nmap) /\ nmap.expirationTime <= nown.expirationTime
        /\ nmap.data = Upto(nown, nmap.expirationTime).data
    <3>1. CASE p = q BY <3>1, UptoAll DEF PeerIInv, Replication, History, IsMap
    <3>2. CASE p # q BY <3>2 DEF PeerIInv, Replication, History, Replica, Others
    <3> QED BY <3>1, <3>2
  <2> HIDE DEF own, map, nown, nmap
  <2>5. map.data = Upto(nmap, t0).data
    <3>1. /\ t0 \in Nat /\ own.expirationTime \in Nat /\ nmap.expirationTime \in Nat
          /\ \A e \in nown.data : e.start \in Nat
      BY <2>3, <2>4 DEF IsMap
    <3>2. map.data = {e \in own.data : e.start < t0} BY <2>3, UptoData
    <3>3. own.data = {e \in nown.data : e.start < own.expirationTime} BY <2>2, <2>4, UptoData
    <3>4. nmap.data = {e \in nown.data : e.start < nmap.expirationTime} BY <2>4, UptoData
    <3>5. Upto(nmap, t0).data = {e \in nmap.data : e.start < t0} BY <2>4, UptoData
    <3> QED BY <2>2, <2>3, <3>1, <3>2, <3>3, <3>4, <3>5
  <2>6. t0 \in Nat /\ nmap.expirationTime \in Nat BY <2>3, <2>4 DEF IsMap
  <2>7. \A t \in Nat : t < t0 => GetAll(map, t) = GetAll(nmap, t)
    BY <2>2, <2>3, <2>4, <2>5, SameHistory
  <2>8. t0 <= nmap.expirationTime /\ \A t \in 0..(t0 - 1) : GetAll(nmap, t) = GetAll(map, t)
    BY <2>2, <2>6, <2>7
  <2> QED BY <2>6, <2>8 DEF map, nmap
<1> QED BY <1>1, PeerInvariance, PTL DEF Spec, HistoryIsFinal

\* When everything that was sent to q is answered, nothing waits in q's replica of p's map.
LEMMA NothingWaits ==
  ASSUME PeerIInv, NEW p \in Peer, NEW q \in Others(p),
         q \notin sending[p].to, requested[<<p, q>>] \subseteq answered[<<p, q>>]
  PROVE  /\ chrono[q][p].futureData = {}
         /\ chrono[q][p].expirationTime = chrono[p][p].expirationTime
<1> DEFINE own == chrono[p][p]
           map == chrono[q][p]
           sent == Scheduled(p, q)
<1>1. History(own, Made(p)) /\ Replica(own, Made(p), map) /\ Consecutive(p, q)
  BY DEF PeerIInv, Replication
<1>2. \A b \in sent : b \in Made(p) /\ b.start \in Nat /\ b.end \in Nat /\ b.start < b.end
  BY <1>1 DEF Made, History, Genuine
<1>3. \A b \in sent : Has(map, b)
  <2> SUFFICES ASSUME NEW b \in Issued(p, q) PROVE Has(map, b) BY DEF Scheduled
  <2>1. PICK r \in requested[<<p, q>>] : b \in InWindow(r.window) BY DEF Issued
  <2>2. r \in answered[<<p, q>>] BY <2>1
  <2> QED BY <2>1, <2>2 DEF PeerIInv, Replication
<1>4. /\ map.expirationTime \in Nat /\ own.expirationTime \in Nat
      /\ map.expirationTime <= own.expirationTime
      /\ map.futureData \subseteq Made(p)
      /\ \A b \in map.futureData : map.expirationTime < b.start
      /\ \A b \in Made(p) : b.start \in Nat /\ b.end \in Nat /\ b.start < b.end
  BY <1>1 DEF Replica, History, Genuine, IsMap
<1> HIDE DEF own, map, sent
\* The least start of a waiting block of those sent would be the end of one that waits, too.
<1>5. ASSUME NEW b \in sent PROVE b \notin map.futureData
  <2> DEFINE starts == {c.start : c \in map.futureData \cap sent}
  <2> SUFFICES ASSUME starts # {} PROVE FALSE OBVIOUS
  <2>1. starts \in SUBSET Nat BY <1>4
  <2> HIDE DEF starts
  <2>2. PICK m \in starts : \A k \in starts : m <= k BY <2>1, LeastNumber
  <2>3. PICK c \in map.futureData \cap sent : c.start = m BY <2>2 DEF starts
  <2>4. c.start # 0 /\ map.expirationTime < c.start BY <1>4, <2>3
  <2>5. PICK d \in sent : d.end = c.start BY <1>1, <2>3, <2>4 DEF Consecutive, sent
  <2>6. d \in map.futureData BY <1>2, <1>3, <1>4, <2>4, <2>5 DEF Has
  <2>7. d.start \in starts BY <2>5, <2>6 DEF starts
  <2>8. c.start <= d.start BY <2>2, <2>3, <2>7
  <2> QED BY <1>2, <2>3, <2>5, <2>8
<1>6. \A b \in sent : b.end <= map.expirationTime BY <1>3, <1>5 DEF Has
<1>7. map.expirationTime = own.expirationTime
  <2>1. CASE own.expirationTime = 0 BY <1>4, <2>1
  <2>2. CASE own.expirationTime # 0
    <3>1. PICK b \in sent : b.end = own.expirationTime BY <1>1, <2>2 DEF Consecutive, sent, own
    <3> QED BY <1>4, <1>6, <3>1
  <2> QED BY <2>1, <2>2
<1>8. map.futureData = {}
  <2> SUFFICES ASSUME NEW b \in map.futureData PROVE FALSE OBVIOUS
  <2>1. b.end <= own.expirationTime BY <1>1, <1>4 DEF History, Genuine
  <2> QED BY <1>4, <1>7, <2>1
<1> QED BY <1>7, <1>8 DEF own, map

\* NothingStranded for every value of the constants: the windows may arrive in any order, and no
\* block is left behind in futureData once all are handled.
THEOREM NothingIsStranded == Spec => []NothingStranded
<1>1. PeerIInv => NothingStranded BY NothingWaits DEF NothingStranded
<1> QED BY <1>1, PeerInvariance, PTL

-----------------------------------------------------------------------------
(* The fatal checks of ChronoMap.                                           *)

\* Neither updateState() nor update() reaches a fatal check of ChronoMap.
LEMMA NoStepKills ==
  ASSUME PeerIInv, FirstInputs, MapsNeverDie, GamesHaveInputs, [Next]_vars
  PROVE  FirstInputs' /\ MapsNeverDie'
<1>0. /\ DOMAIN chrono = Peer /\ \A q \in Peer : DOMAIN chrono[q] = Peer
      /\ \A p \in Peer : HasFirst(chrono[p][p])
  BY DEF PeerIInv, Replication, FirstInputs, HasFirst
<1>1. ASSUME UNCHANGED chrono PROVE FirstInputs' /\ MapsNeverDie'
  BY <1>1 DEF FirstInputs, MapsNeverDie
<1>2. ASSUME NEW p \in Peer, NEW t \in 1..MaxTime[p], NEW state \in States[p],
             UpdateState(p, t, state)
      PROVE  FirstInputs' /\ MapsNeverDie'
  <2> DEFINE own == chrono[p][p]
             b == Block(own.expirationTime, t, GetChanges(own, state))
             new == Put(own, b)
  <2>1. /\ t \in Nat /\ t > own.expirationTime
        /\ chrono' = [chrono EXCEPT ![p][p] = new]
    BY <1>2, BoundsAssumption DEF UpdateState
  <2>2. History(own, Made(p)) BY DEF PeerIInv, Replication
  <2>3. b = Block(own.expirationTime, t, GetChanges(own, state)) /\ new = Put(own, b) OBVIOUS
  <2>4. HasFirst(own) /\ ~own.fatal /\ DOMAIN state # {}
    BY <1>0 DEF MapsNeverDie, GamesHaveInputs
  <2>5. \A q, r \in Peer : chrono'[q][r] = IF q = p /\ r = p THEN new ELSE chrono[q][r]
    BY <1>0, <2>1
  <2> HIDE DEF b, new
  <2>6. Extended(own, Made(p), t, state, b, new)
    <3>1. t > own.expirationTime BY <2>1
    <3>2. t \in Nat BY <2>1
    <3> HIDE DEF own
    <3> QED BY <2>2, <2>3, <3>1, <3>2, OwnPutKeeps
  <2>7. HasFirst(new) /\ ~new.fatal BY <2>4, <2>6 DEF Extended
  <2> QED BY <1>0, <2>5, <2>7, SMTT(30) DEF FirstInputs, HasFirst, MapsNeverDie
<1>3. ASSUME NEW p \in Peer, NEW q \in Others(p), Update(p, q)
      PROVE  FirstInputs' /\ MapsNeverDie'
  <2>1. <<p, q>> \in Channel /\ q \in Peer /\ q # p BY ChannelIs
  <2>2. PICK r \in executed[<<p, q>>] : chrono' = [chrono EXCEPT ![q][p] = PutAll(@, r.window)]
    BY <1>3 DEF Update
  <2> DEFINE own == chrono[p][p]
             map == chrono[q][p]
             new == PutAll(map, r.window)
  <2>3. \A x, y \in Peer : chrono'[x][y] = IF x = q /\ y = p THEN new ELSE chrono[x][y]
    BY <1>0, <2>1, <2>2
  <2>4. IsWindow(r.window) /\ InWindow(r.window) \subseteq Made(p)
    <3>1. r \in requested[<<p, q>>] /\ IsMessage(r) BY <2>1, <2>2 DEF PeerIInv, RpcShape
    <3>2. InWindow(r.window) \subseteq Scheduled(p, q) BY <3>1 DEF Scheduled, Issued
    <3> QED BY <3>1, <3>2 DEF IsMessage, Made
  <2>5. History(own, Made(p)) /\ Replica(own, Made(p), map) BY DEF PeerIInv, Replication
  <2>6. Grows(own, Made(p), map, new)
    <3> HIDE DEF own, map
    <3> QED BY <2>4, <2>5, PutAllKeeps
  <2> HIDE DEF new
  <2>7. ~new.fatal BY <1>0, <2>1, <2>6 DEF Grows, MapsNeverDie
  <2> QED BY <1>0, <2>1, <2>3, <2>7 DEF FirstInputs, HasFirst, MapsNeverDie
<1>4. ASSUME NEW p \in Peer, Announce(p) \/ PhaseStep(p) \/ ReadStep(p) PROVE UNCHANGED chrono
  BY <1>4, PhaseStepLeaves, ReadStepLeaves DEF Announce
<1>5. ASSUME NEW p \in Peer, NEW q \in Peer, SendNext(p, q) \/ Deliver(p, q) \/ Complete(p, q)
      PROVE  UNCHANGED chrono
  BY <1>5 DEF SendNext, Deliver, Complete
<1>6. CASE UNCHANGED vars BY <1>1, <1>6 DEF vars
<1>7. CASE Next
  <2>1. \A p \in Peer : Others(p) \subseteq Peer BY DEF Others
  <2> QED BY <1>1, <1>2, <1>3, <1>4, <1>5, <1>7, <2>1, NextIs
<1> QED BY <1>6, <1>7

\* MapsNeverDie for every value of the constants: no order of windows makes ChronoMap die, as
\* long as no game starts with an empty state.
THEOREM MapsStayAlive ==
  ASSUME GamesHaveInputs
  PROVE  Spec => []MapsNeverDie
<1>1. Init => FirstInputs /\ MapsNeverDie
  BY DEF Init, FirstInputs, MapsNeverDie, Empty
<1>2. PeerIInv /\ FirstInputs /\ MapsNeverDie /\ [Next]_vars => FirstInputs' /\ MapsNeverDie'
  BY NoStepKills
<1> QED BY <1>1, <1>2, PeerInvariance, PTL DEF Spec

-----------------------------------------------------------------------------
(* Shutting down and reading.                                               *)

\* Whoever has gone stays away, and learns nothing more.
LEMMA GoneStays ==
  ASSUME PeerIInv, [Next]_vars, NEW q \in Peer, Gone(q)
  PROVE  Gone(q)' /\ peerDown'[q] = peerDown[q]
<1> USE DEF Gone
<1>0. DOMAIN phase = Peer /\ DOMAIN peerDown = Peer BY DEF PeerIInv, Shutdowns
<1>1. CASE UNCHANGED vars BY <1>1 DEF vars
<1>2. CASE \E r \in Peer : \E t \in 1..MaxTime[r] : \E state \in States[r] : UpdateState(r, t, state)
  BY <1>2 DEF UpdateState
<1>3. CASE \E r, x \in Peer : SendNext(r, x) BY <1>3 DEF SendNext
<1>4. CASE \E r \in Peer : \E x \in Others(r) : Deliver(r, x) \/ Update(r, x) \/ Complete(r, x)
  BY <1>0, <1>4 DEF Deliver, Update, Complete
<1>5. CASE \E r \in Peer : Announce(r) BY <1>0, <1>5 DEF Announce
<1>6. CASE \E r \in Peer : PhaseStep(r)
  BY <1>0, <1>6 DEF PhaseStep, BeginShutdown, StopUpdates, LastUpdate, Stop, Crash, GameThreadFree
<1>7. CASE \E r \in Peer : ReadStep(r) BY <1>7, ReadStepLeaves
<1> QED BY <1>1, <1>2, <1>3, <1>4, <1>5, <1>6, <1>7, NextIs

\* What a peer has learnt of shutdowns it does not forget.
LEMMA DownStays ==
  ASSUME PeerIInv, [Next]_vars, NEW q \in Peer
  PROVE  peerDown[q] \subseteq peerDown'[q]
<1>0. DOMAIN peerDown = Peer BY DEF PeerIInv, Shutdowns
<1>1. CASE UNCHANGED vars BY <1>1 DEF vars
<1>2. CASE \E r \in Peer : \E t \in 1..MaxTime[r] : \E state \in States[r] : UpdateState(r, t, state)
  BY <1>2 DEF UpdateState
<1>3. CASE \E r, x \in Peer : SendNext(r, x) BY <1>3 DEF SendNext
<1>4. CASE \E r \in Peer : \E x \in Others(r) : Deliver(r, x) \/ Update(r, x) \/ Complete(r, x)
  BY <1>0, <1>4 DEF Deliver, Update, Complete
<1>5. CASE \E r \in Peer : Announce(r) BY <1>5 DEF Announce
<1>6. CASE \E r \in Peer : PhaseStep(r) BY <1>6, PhaseStepLeaves
<1>7. CASE \E r \in Peer : ReadStep(r) BY <1>7, ReadStepLeaves
<1> QED BY <1>1, <1>2, <1>3, <1>4, <1>5, <1>6, <1>7, NextIs

\* Only Announce() announces.
LEMMA AnnouncedBy ==
  ASSUME PeerIInv, [Next]_vars, NEW p \in Peer, ~Announced(p), Announced(p)'
  PROVE  Announce(p)
<1> USE DEF Announced
<1>0. DOMAIN phase = Peer BY DEF PeerIInv, Shutdowns
<1>1. CASE UNCHANGED vars BY <1>1 DEF vars
<1>2. CASE \E r \in Peer : \E t \in 1..MaxTime[r] : \E state \in States[r] : UpdateState(r, t, state)
  BY <1>2 DEF UpdateState
<1>3. CASE \E r, x \in Peer : SendNext(r, x) BY <1>3 DEF SendNext
<1>4. CASE \E r \in Peer : \E x \in Others(r) : Deliver(r, x) \/ Update(r, x) \/ Complete(r, x)
  BY <1>4 DEF Deliver, Update, Complete
<1>5. ASSUME NEW r \in Peer, Announce(r) PROVE r = p
  <2>1. phase' = [phase EXCEPT ![r] = "announcing"] BY <1>5 DEF Announce
  <2> QED BY <1>0, <2>1
<1>6. CASE \E r \in Peer : PhaseStep(r)
  BY <1>0, <1>6 DEF PhaseStep, BeginShutdown, StopUpdates, LastUpdate, Stop, Crash
<1>7. CASE \E r \in Peer : ReadStep(r) BY <1>7, ReadStepLeaves
<1> QED BY <1>1, <1>2, <1>3, <1>4, <1>5, <1>6, <1>7, NextIs

\* The announcement comes when every other peer has everything, or is gone.
LEMMA LateKeeps ==
  ASSUME PeerIInv, PeerIInv', LateForShutdown, ~SpuriousTimeouts, [Next]_vars
  PROVE  LateForShutdown'
<1> SUFFICES ASSUME NEW p \in Peer, NEW q \in Others(p), Announced(p)'
             PROVE  \/ chrono'[q][p].expirationTime = chrono'[p][p].expirationTime
                    \/ Gone(q)' /\ p \notin peerDown'[q]
  BY DEF LateForShutdown
<1>1. q \in Peer /\ <<p, q>> \in Channel BY ChannelIs
<1>2. MapsGrow BY StepReplicates
<1>3. /\ chrono[q][p].expirationTime \in Nat /\ chrono[p][p].expirationTime \in Nat
      /\ chrono'[q][p].expirationTime \in Nat
      /\ chrono'[q][p].expirationTime <= chrono'[p][p].expirationTime
  BY DEF PeerIInv, Replication, Replica, History, IsMap
<1>4. chrono[q][p].expirationTime <= chrono'[q][p].expirationTime BY <1>1, <1>2 DEF MapsGrow
<1>5. CASE Announced(p)
  <2>1. chrono'[p][p] = chrono[p][p] BY <1>2, <1>5 DEF MapsGrow, Announced
  <2>2. CASE chrono[q][p].expirationTime = chrono[p][p].expirationTime
    BY <1>3, <1>4, <2>1, <2>2
  <2>3. CASE Gone(q) /\ p \notin peerDown[q] BY <1>1, <2>3, GoneStays
  <2> QED BY <1>5, <2>2, <2>3 DEF LateForShutdown
<1>6. CASE ~Announced(p)
  <2>1. Announce(p) BY <1>6, AnnouncedBy
  <2>2. /\ ~HasWork(p) /\ phase[p] = "flushing" /\ UNCHANGED <<chrono, peerDown>>
    BY <2>1 DEF Announce
  <2>3. ~Busy(p, q) \/ MayLookDead(p, q) BY <2>2 DEF HasWork
  <2>4. CASE Gone(q)
    <3>1. p \notin peerDown[q] BY <1>1, <1>6 DEF PeerIInv, Shutdowns
    <3> QED BY <1>1, <2>4, <3>1, GoneStays
  <2>5. CASE ~Gone(q)
    <3>1. requested[<<p, q>>] \subseteq completed[<<p, q>>] BY <2>3, <2>5 DEF Busy, MayLookDead
    <3>2. requested[<<p, q>>] \subseteq answered[<<p, q>>] BY <1>1, <3>1 DEF PeerIInv, RpcShape
    <3>3. q \notin sending[p].to BY <2>2 DEF PeerIInv, Shutdowns
    <3> QED BY <2>2, <3>2, <3>3, NothingWaits
  <2> QED BY <2>4, <2>5
<1> QED BY <1>5, <1>6

\* In every state, who has not got everything of a peer that announced its shutdown is gone.
LEMMA LateInvariance ==
  ASSUME ~SpuriousTimeouts
  PROVE  Spec => []LateForShutdown
<1>1. Init => LateForShutdown BY DEF Init, LateForShutdown, Announced
<1>2. PeerIInv /\ PeerIInv' /\ LateForShutdown /\ [Next]_vars => LateForShutdown' BY LateKeeps
<1> QED BY <1>1, <1>2, PeerInvariance, PTL DEF Spec

\* A peer that knows of p's shutdown has everything p recorded.
LEMMA DownHasAll ==
  ASSUME PeerIInv, LateForShutdown, NEW q \in Peer, NEW p \in peerDown[q]
  PROVE  /\ p \in Peer /\ q \in Others(p) /\ Announced(p)
         /\ chrono[q][p].expirationTime = chrono[p][p].expirationTime
<1>1. p \in Others(q) /\ Announced(p) BY DEF PeerIInv, Shutdowns
<1>2. p \in Peer /\ q \in Others(p) BY <1>1 DEF Others
<1> QED BY <1>1, <1>2 DEF LateForShutdown

\* FlushedBeforeShutdown for every value of the constants, as long as no living peer is silent
\* for so long that its connection is taken for dead.
THEOREM ShutdownsAreFlushed ==
  ASSUME ~SpuriousTimeouts
  PROVE  Spec => []FlushedBeforeShutdown
<1>1. PeerIInv /\ LateForShutdown => FlushedBeforeShutdown
  BY DownHasAll DEF FlushedBeforeShutdown
<1> QED BY <1>1, PeerInvariance, LateInvariance, PTL

\* What a read has seen stays true of the owners' maps.
LEMMA SawStays ==
  ASSUME PeerIInv, PeerIInv', LateForShutdown, [Next]_vars,
         NEW q \in Peer, NEW read, NEW todo, Saw(chrono, peerDown[q], read, todo)
  PROVE  Saw(chrono', peerDown'[q], read, todo)
<1> DEFINE t == read.timestamp
<1>1. MapsGrow BY StepReplicates
<1>2. ASSUME NEW p \in Peer
      PROVE  /\ IsMap(chrono[p][p]) /\ IsMap(chrono'[p][p])
             /\ chrono[p][p].expirationTime \in Nat /\ chrono'[p][p].expirationTime \in Nat
             /\ chrono[p][p].expirationTime <= chrono'[p][p].expirationTime
             /\ chrono[p][p].data = Upto(chrono'[p][p], chrono[p][p].expirationTime).data
  BY <1>1 DEF PeerIInv, Replication, History, IsMap, MapsGrow
<1>3. t \in Nat BY DEF Saw
<1>4. ASSUME NEW g \in read.got
      PROVE  /\ g = [peer |-> g.peer, values |-> g.values]
             /\ g.peer \in Peer
             /\ t < chrono'[g.peer][g.peer].expirationTime
             /\ g.values = GetAll(chrono'[g.peer][g.peer], t)
  <2> DEFINE p == g.peer
  <2>1. /\ g = [peer |-> g.peer, values |-> g.values] /\ p \in Peer
        /\ t < chrono[p][p].expirationTime /\ g.values = GetAll(chrono[p][p], t)
    BY DEF Saw
  <2> HIDE DEF p, t
  <2>2. GetAll(chrono[p][p], t) = GetAll(chrono'[p][p], t)
    <3>1. t < chrono[p][p].expirationTime BY <2>1
    <3> QED BY <1>2, <1>3, <2>1, <3>1, SameHistory
  <2>3. t < chrono'[p][p].expirationTime BY <1>2, <1>3, <2>1
  <2> QED BY <2>1, <2>2, <2>3 DEF p
<1>5. ASSUME NEW p \in (Peer \ todo) \ {g.peer : g \in read.got}
      PROVE  /\ p \in peerDown'[q]
             /\ read.call = "getFullState" => chrono'[p][p].expirationTime <= t
  <2>1. p \in peerDown[q] BY DEF Saw
  <2>2. p \in peerDown'[q] BY <2>1, DownStays
  <2>3. chrono'[p][p] = chrono[p][p] BY <1>1, <2>1, DownHasAll DEF MapsGrow, Announced
  <2> QED BY <2>2, <2>3 DEF Saw
<1> QED BY <1>3, <1>4, <1>5 DEF Saw

\* The peer that is visited is one of those still to be visited.
LEMMA VisitedIs ==
  ASSUME ReadsSaw, NEW q \in Peer, Reading(q)
  PROVE  Visited(q) \in reader[q].todo /\ Visited(q) \in Peer
<1> DEFINE T == reader[q].todo
<1>1. T \in SUBSET Nat /\ T \subseteq Peer /\ T # {} BY BoundsAssumption DEF ReadsSaw, Reading
<1>2. PICK m \in T : \A k \in T : m <= k BY <1>1, LeastNumber
<1>3. Visited(q) \in T BY <1>2 DEF Visited, First
<1> QED BY <1>1, <1>3

\* A reader goes on with what it learnt of the peer it visited, or without it for a good reason.
LEMMA AdvanceKeeps ==
  ASSUME ReadsSaw, UNCHANGED <<chrono, peerDown>>, NEW q \in Peer, Reading(q),
         NEW learnt, Advance(q, learnt),
         \A g \in learnt : /\ g = [peer |-> g.peer, values |-> g.values]
                           /\ g.peer \in Peer
                           /\ reader[q].timestamp < chrono[g.peer][g.peer].expirationTime
                           /\ g.values = GetAll(chrono[g.peer][g.peer], reader[q].timestamp),
         \/ \E g \in learnt : g.peer = Visited(q)
         \/ /\ Visited(q) \in peerDown[q]
            /\ reader[q].call = "getFullState" =>
                 chrono[Visited(q)][Visited(q)].expirationTime <= reader[q].timestamp
  PROVE  ReadsSaw'
<1> DEFINE old == reader[q]
           v == Visited(q)
           new == [old EXCEPT !.todo = @ \ {v}, !.got = @ \cup learnt, !.at = "check"]
           res == [by |-> q, timestamp |-> new.timestamp, call |-> new.call, got |-> new.got]
<1>1. /\ old = [call |-> old.call, timestamp |-> old.timestamp, todo |-> old.todo, at |-> old.at,
                got |-> old.got]
      /\ old.todo \subseteq Peer /\ DOMAIN reader = Peer
      /\ Saw(chrono, peerDown[q], old, old.todo)
  BY DEF ReadsSaw
<1>2. \/ /\ new.todo # {} /\ reader' = [reader EXCEPT ![q] = new] /\ results' = results
      \/ /\ new.todo = {} /\ reader' = [reader EXCEPT ![q] = NotReading]
         /\ results' = results \cup {res}
  BY DEF Advance
<1>3. new = [call |-> old.call, timestamp |-> old.timestamp, todo |-> old.todo \ {v}, at |-> "check",
             got |-> old.got \cup learnt]
  <2> DEFINE rest == old.todo \ {v}
             all == old.got \cup learnt
  <2>1. new = [old EXCEPT !.todo = rest, !.got = all, !.at = "check"] OBVIOUS
  <2> HIDE DEF old, v, new, rest, all
  <2>2. new = [call |-> old.call, timestamp |-> old.timestamp, todo |-> rest, at |-> "check",
               got |-> all]
    BY <1>1, <2>1
  <2> QED BY <2>2 DEF rest, all
<1>4. Saw(chrono, peerDown[q], new, new.todo)
  <2>1. \A g \in new.got : /\ g = [peer |-> g.peer, values |-> g.values]
                           /\ g.peer \in Peer
                           /\ new.timestamp < chrono[g.peer][g.peer].expirationTime
                           /\ g.values = GetAll(chrono[g.peer][g.peer], new.timestamp)
    BY <1>1, <1>3 DEF Saw
  <2>2. ASSUME NEW p \in (Peer \ new.todo) \ {g.peer : g \in new.got}
        PROVE  /\ p \in peerDown[q]
               /\ new.call = "getFullState" => chrono[p][p].expirationTime <= new.timestamp
    <3>1. \A g \in old.got \cup learnt : g.peer # p BY <1>3
    <3>2. CASE p = v BY <1>3, <3>1, <3>2
    <3>3. CASE p # v
      <4>1. p \in (Peer \ old.todo) \ {g.peer : g \in old.got} BY <1>3, <3>1, <3>3
      <4> QED BY <1>1, <1>3, <4>1 DEF Saw
    <3> QED BY <3>2, <3>3
  <2>3. new.timestamp \in Nat BY <1>1, <1>3 DEF Saw
  <2> QED BY <2>1, <2>2, <2>3 DEF Saw
<1> HIDE DEF new, old, v
<1>5. new = [call |-> new.call, timestamp |-> new.timestamp, todo |-> new.todo, at |-> new.at,
             got |-> new.got]
      /\ new.todo \subseteq Peer /\ new.at = "check"
  BY <1>1, <1>3
<1>6. CASE /\ new.todo # {} /\ reader' = [reader EXCEPT ![q] = new] /\ results' = results
  <2>1. reader'[q] = new /\ DOMAIN reader' = Peer /\ \A x \in Peer : x # q => reader'[x] = reader[x]
    BY <1>1, <1>6
  <2> QED BY <1>4, <1>5, <1>6, <2>1 DEF ReadsSaw, Reading
<1>7. CASE /\ new.todo = {} /\ reader' = [reader EXCEPT ![q] = NotReading]
           /\ results' = results \cup {res}
  <2>1. /\ reader'[q] = NotReading /\ DOMAIN reader' = Peer
        /\ \A x \in Peer : x # q => reader'[x] = reader[x]
    BY <1>1, <1>7
  <2>2. Saw(chrono, peerDown[q], res, {}) BY <1>4, <1>7 DEF Saw
  <2>3. res.by = q OBVIOUS
  <2> HIDE DEF res
  <2>4. \A r \in results' : r.by \in Peer /\ Saw(chrono, peerDown[r.by], r, {})
    BY <1>7, <2>2, <2>3 DEF ReadsSaw
  <2>5. \A x \in Peer :
          /\ reader'[x] = [call |-> reader'[x].call, timestamp |-> reader'[x].timestamp,
                           todo |-> reader'[x].todo, at |-> reader'[x].at, got |-> reader'[x].got]
          /\ reader'[x].todo \subseteq Peer
          /\ reader'[x].at = "timedOut" => reader'[x].call = "getAllInputValues"
          /\ reader'[x].todo # {} => Saw(chrono, peerDown[x], reader'[x], reader'[x].todo)
    BY <2>1 DEF ReadsSaw, NotReading, Reading
  <2> QED BY <2>1, <2>4, <2>5 DEF ReadsSaw, Reading
<1> QED BY <1>2, <1>6, <1>7

\* A reader that only changes where it is in the loop.
LEMMA PlaceKeeps ==
  ASSUME ReadsSaw, UNCHANGED <<chrono, peerDown, results>>, NEW q \in Peer,
         NEW at, reader' = [reader EXCEPT ![q].at = at],
         at = "timedOut" => reader[q].call = "getAllInputValues"
  PROVE  ReadsSaw'
<1> DEFINE old == reader[q]
           new == [old EXCEPT !.at = at]
<1>1. /\ old = [call |-> old.call, timestamp |-> old.timestamp, todo |-> old.todo, at |-> old.at,
                got |-> old.got]
      /\ old.todo \subseteq Peer /\ DOMAIN reader = Peer
      /\ old.todo # {} => Saw(chrono, peerDown[q], old, old.todo)
  BY DEF ReadsSaw, Reading
<1>2. reader'[q] = new /\ DOMAIN reader' = Peer /\ \A x \in Peer : x # q => reader'[x] = reader[x]
  BY <1>1
<1> HIDE DEF old
<1>3. new = [call |-> old.call, timestamp |-> old.timestamp, todo |-> old.todo, at |-> at,
             got |-> old.got]
  BY <1>1
<1> HIDE DEF new
<1>4. new.todo # {} => Saw(chrono, peerDown[q], new, new.todo) BY <1>1, <1>3 DEF Saw
<1>5. /\ new = [call |-> new.call, timestamp |-> new.timestamp, todo |-> new.todo, at |-> new.at,
                got |-> new.got]
      /\ new.todo \subseteq Peer /\ (new.at = "timedOut" => new.call = "getAllInputValues")
  BY <1>1, <1>3 DEF old
<1> QED BY <1>2, <1>4, <1>5 DEF ReadsSaw, Reading

\* Every step of a read sees what the owners recorded.
LEMMA ReadStepKeeps ==
  ASSUME PeerIInv, LateForShutdown, ReadsSaw, NEW q \in Peer, ReadStep(q)
  PROVE  ReadsSaw'
<1> DEFINE v == Visited(q)
<1>0. UNCHANGED <<chrono, peerDown>> BY ReadStepLeaves
<1>1. ASSUME NEW t \in ReadTimes, NEW call, BeginRead(q, t, call) PROVE ReadsSaw'
  <2> DEFINE new == [call |-> call, timestamp |-> t, todo |-> Peer, at |-> "check", got |-> {}]
  <2>1. reader' = [reader EXCEPT ![q] = new] /\ UNCHANGED results BY <1>1 DEF BeginRead
  <2>2. reader'[q] = new /\ DOMAIN reader' = Peer /\ \A x \in Peer : x # q => reader'[x] = reader[x]
    BY <2>1 DEF ReadsSaw
  <2>3. Saw(chrono, peerDown[q], new, new.todo) BY BoundsAssumption DEF Saw
  <2>4. /\ new = [call |-> new.call, timestamp |-> new.timestamp, todo |-> new.todo, at |-> new.at,
                  got |-> new.got]
        /\ new.todo \subseteq Peer /\ new.at # "timedOut"
    OBVIOUS
  <2> HIDE DEF new
  <2> QED BY <1>0, <2>1, <2>2, <2>3, <2>4 DEF ReadsSaw, Reading
<1>2. ASSUME Advance(q, {}), Reading(q), v \in peerDown[q], reader[q].call # "getFullState"
      PROVE  ReadsSaw'
  BY <1>0, <1>2, AdvanceKeeps
<1>3. CASE CheckPeer(q)
  <2>1. CASE reader[q].call = "getAllInputValues" /\ v \in peerDown[q]
    BY <1>2, <1>3, <2>1 DEF CheckPeer
  <2>2. CASE ~(reader[q].call = "getAllInputValues" /\ v \in peerDown[q])
    <3>1. reader' = [reader EXCEPT ![q].at = "wait"] /\ UNCHANGED results
      BY <1>3, <2>2 DEF CheckPeer
    <3> QED BY <1>0, <3>1, PlaceKeeps
  <2> QED BY <2>1, <2>2
<1>4. CASE CheckDead(q)
  <2>1. reader[q].call = "getAllInputValues" /\ Reading(q) BY <1>4 DEF CheckDead, ReadsSaw
  <2>2. CASE v \in peerDown[q] BY <1>2, <1>4, <2>1, <2>2 DEF CheckDead
  <2>3. CASE v \notin peerDown[q]
    <3>1. reader' = [reader EXCEPT ![q].at = "wait"] /\ UNCHANGED results
      BY <1>4, <2>3 DEF CheckDead
    <3> QED BY <1>0, <3>1, PlaceKeeps
  <2> QED BY <2>2, <2>3
<1>5. CASE TimeOut(q)
  <2>1. /\ reader' = [reader EXCEPT ![q].at = "timedOut"] /\ UNCHANGED results
        /\ reader[q].call = "getAllInputValues"
    BY <1>5 DEF TimeOut
  <2> QED BY <1>0, <2>1, PlaceKeeps
<1>6. CASE TakeInputs(q)
  <2> DEFINE values == GetAll(chrono[q][v], reader[q].timestamp)
             g0 == [peer |-> v, values |-> values]
  <2>1. Reading(q) /\ Arrived(q) /\ Advance(q, {g0}) BY <1>6 DEF TakeInputs
  <2>2. v \in Peer BY <2>1, VisitedIs
  <2>3. reader[q].timestamp \in Nat BY <2>1 DEF ReadsSaw, Saw
  <2>4. /\ IsMap(chrono[v][v]) /\ IsMap(chrono[q][v])
        /\ chrono[q][v].expirationTime <= chrono[v][v].expirationTime
        /\ chrono[q][v].data = Upto(chrono[v][v], chrono[q][v].expirationTime).data
    <3> HIDE DEF v
    <3>1. CASE q = v
      <4>1. IsMap(chrono[v][v]) BY <2>2 DEF PeerIInv, Replication, History
      <4>2. chrono[v][v].expirationTime \in Nat BY <4>1 DEF IsMap
      <4> QED BY <3>1, <4>1, <4>2, UptoAll
    <3>2. CASE q # v BY <2>2, <3>2 DEF PeerIInv, Replication, History, Replica, Others
    <3> QED BY <3>1, <3>2
  <2>5. reader[q].timestamp < chrono[q][v].expirationTime BY <2>1 DEF Arrived
  <2>6. values = GetAll(chrono[v][v], reader[q].timestamp)
    <3> DEFINE t == reader[q].timestamp
               map == chrono[q][v]
               own == chrono[v][v]
    <3>1. /\ t \in Nat /\ t < map.expirationTime /\ IsMap(map) /\ IsMap(own)
          /\ map.expirationTime <= own.expirationTime
          /\ map.data = Upto(own, map.expirationTime).data
      BY <2>3, <2>4, <2>5
    <3> HIDE DEF t, map, own
    <3>2. GetAll(map, t) = GetAll(own, t) BY <3>1, SameHistory
    <3> QED BY <3>2 DEF t, map, own
  <2>7. reader[q].timestamp < chrono[v][v].expirationTime BY <2>3, <2>4, <2>5 DEF IsMap
  <2> HIDE DEF values
  <2>8. g0.peer = v /\ g0.values = values /\ g0 = [peer |-> g0.peer, values |-> g0.values] OBVIOUS
  <2> HIDE DEF g0, v
  <2>9. \A g \in {g0} : /\ g = [peer |-> g.peer, values |-> g.values]
                        /\ g.peer \in Peer
                        /\ reader[q].timestamp < chrono[g.peer][g.peer].expirationTime
                        /\ g.values = GetAll(chrono[g.peer][g.peer], reader[q].timestamp)
    BY <2>2, <2>6, <2>7, <2>8
  <2>10. \E g \in {g0} : g.peer = Visited(q) BY <2>8 DEF v
  <2> QED BY <1>0, <2>1, <2>9, <2>10, AdvanceKeeps
<1>7. CASE GiveUp(q)
  <2>1. Reading(q) /\ ~Arrived(q) /\ v \in peerDown[q] /\ Advance(q, {}) BY <1>7 DEF GiveUp
  <2>2. v \in Peer /\ chrono[q][v].expirationTime = chrono[v][v].expirationTime
    BY <2>1, DownHasAll
  <2>3. reader[q].timestamp \in Nat BY <2>1 DEF ReadsSaw, Saw
  <2>4. chrono[v][v].expirationTime \in Nat BY <2>2 DEF PeerIInv, Replication, History, IsMap
  <2>5. chrono[v][v].expirationTime <= reader[q].timestamp
    BY <2>1, <2>2, <2>3, <2>4 DEF Arrived
  <2> QED BY <1>0, <2>1, <2>5, AdvanceKeeps
<1> QED BY <1>1, <1>3, <1>4, <1>5, <1>6, <1>7 DEF ReadStep, GetAllInputValues, GetFullState

\* Every step keeps what the reads have seen.
LEMMA ReadsKeep ==
  ASSUME PeerIInv, PeerIInv', LateForShutdown, ReadsSaw, [Next]_vars
  PROVE  ReadsSaw'
<1>1. ASSUME UNCHANGED <<reader, results>> PROVE ReadsSaw'
  <2>1. \A q \in Peer : Reading(q) => Saw(chrono', peerDown'[q], reader[q], reader[q].todo)
    BY SawStays DEF ReadsSaw
  <2>2. \A r \in results : r.by \in Peer /\ Saw(chrono', peerDown'[r.by], r, {})
    BY SawStays DEF ReadsSaw
  <2> QED BY <1>1, <2>1, <2>2 DEF ReadsSaw, Reading
<1>2. CASE UNCHANGED vars BY <1>1, <1>2 DEF vars
<1>3. CASE Next
  <2>1. ASSUME NEW p \in Peer, NEW t, NEW state, UpdateState(p, t, state)
        PROVE  UNCHANGED <<reader, results>>
    BY <2>1 DEF UpdateState
  <2>2. ASSUME NEW p, NEW q,
               SendNext(p, q) \/ Deliver(p, q) \/ Update(p, q) \/ Complete(p, q)
        PROVE  UNCHANGED <<reader, results>>
    BY <2>2 DEF SendNext, Deliver, Update, Complete
  <2>3. ASSUME NEW p \in Peer, Announce(p) \/ PhaseStep(p) PROVE UNCHANGED <<reader, results>>
    BY <2>3, PhaseStepLeaves DEF Announce
  <2> QED BY <1>1, <1>3, <2>1, <2>2, <2>3, ReadStepKeeps, NextIs
<1> QED BY <1>2, <1>3

\* ReadsAgree for every value of the constants, as long as no living peer is silent for so long
\* that its connection is taken for dead: whoever reads a timestamp gets the same.
THEOREM ReadersAgree ==
  ASSUME ~SpuriousTimeouts
  PROVE  Spec => []ReadsAgree
<1>1. Init => ReadsSaw
  <2> SUFFICES ASSUME Init PROVE ReadsSaw OBVIOUS
  <2>1. DOMAIN reader = Peer /\ results = {} /\ \A q \in Peer : reader[q] = NotReading BY DEF Init
  <2> QED BY <2>1 DEF ReadsSaw, Reading, NotReading
<1>2. PeerIInv /\ PeerIInv' /\ LateForShutdown /\ ReadsSaw /\ [Next]_vars => ReadsSaw'
  BY ReadsKeep
<1>3. PeerIInv /\ ReadsSaw => ReadsAgree
  <2> SUFFICES ASSUME PeerIInv, ReadsSaw, NEW r \in results, NEW s \in results
               PROVE  /\ r.timestamp = s.timestamp =>
                           /\ \A g \in r.got, h \in s.got : g.peer = h.peer => g.values = h.values
                           /\ r.call = "getFullState" /\ s.call = "getFullState" => r.got = s.got
                      /\ Peer \ {g.peer : g \in r.got} \subseteq peerDown[r.by]
    BY DEF ReadsAgree
  <2>1. Saw(chrono, peerDown[r.by], r, {}) /\ Saw(chrono, peerDown[s.by], s, {}) BY DEF ReadsSaw
  <2>2. Peer \ {g.peer : g \in r.got} \subseteq peerDown[r.by] BY <2>1 DEF Saw
  <2>3. ASSUME r.timestamp = s.timestamp, NEW g \in r.got, NEW h \in s.got, g.peer = h.peer
        PROVE  g.values = h.values
    <3>1. /\ g.values = GetAll(chrono[g.peer][g.peer], r.timestamp)
          /\ h.values = GetAll(chrono[h.peer][h.peer], s.timestamp)
      BY <2>1 DEF Saw
    <3> QED BY <2>3, <3>1
  \* A peer that one read includes has recorded the time, so no other getFullState() leaves it out.
  <2>4. ASSUME NEW x \in results, NEW y \in results, x.timestamp = y.timestamp,
               Saw(chrono, peerDown[x.by], x, {}), Saw(chrono, peerDown[y.by], y, {}),
               y.call = "getFullState", NEW g \in x.got
        PROVE  g \in y.got
    <3>1. /\ g = [peer |-> g.peer, values |-> g.values] /\ g.peer \in Peer
          /\ x.timestamp < chrono[g.peer][g.peer].expirationTime /\ x.timestamp \in Nat
          /\ g.values = GetAll(chrono[g.peer][g.peer], x.timestamp)
      BY <2>4 DEF Saw
    <3>2. chrono[g.peer][g.peer].expirationTime \in Nat
      BY <3>1 DEF PeerIInv, Replication, History, IsMap
    <3>3. g.peer \in {h.peer : h \in y.got}
      <4> SUFFICES ASSUME g.peer \notin {h.peer : h \in y.got} PROVE FALSE OBVIOUS
      <4>1. chrono[g.peer][g.peer].expirationTime <= y.timestamp BY <2>4, <3>1 DEF Saw
      <4> QED BY <2>4, <3>1, <3>2, <4>1
    <3>4. PICK h \in y.got : h.peer = g.peer BY <3>3
    <3>5. h = [peer |-> h.peer, values |-> h.values]
          /\ h.values = GetAll(chrono[h.peer][h.peer], y.timestamp)
      BY <2>4 DEF Saw
    <3>6. h.values = g.values BY <2>4, <3>1, <3>4, <3>5
    <3> QED BY <3>1, <3>4, <3>5, <3>6
  <2>5. ASSUME r.timestamp = s.timestamp, r.call = "getFullState", s.call = "getFullState"
        PROVE  r.got = s.got
    <3>1. \A g \in r.got : g \in s.got BY <2>1, <2>4, <2>5
    <3>2. \A g \in s.got : g \in r.got BY <2>1, <2>4, <2>5
    <3> QED BY <3>1, <3>2
  <2> QED BY <2>2, <2>3, <2>5
<1> QED BY <1>1, <1>2, <1>3, PeerInvariance, LateInvariance, PTL DEF Spec

-----------------------------------------------------------------------------
(* MyPeer as a user of RpcService.                                          *)

\* A block of a game's new values, and the windows it gets into.
LEMMA WindowsOfBlocks ==
  ASSUME NEW buf \in Seq(Blocks), NEW b \in Blocks,
         NEW new, new = KeepLast(Append(buf, b)), Len(new) >= 1, Len(new) <= Window
  PROVE  new \in Seq(Blocks) /\ Padded(new) \in Seq(Blocks)
<1>1. Append(buf, b) \in Seq(Blocks) /\ Append(buf, b) # <<>> BY AppendProperties
<1>2. Tail(Append(buf, b)) \in Seq(Blocks) BY <1>1, HeadTailProperties
<1>3. new \in Seq(Blocks) BY <1>1, <1>2 DEF KeepLast
<1>4. Len(new) \in Nat /\ \A i \in 1..Len(new) : new[i] \in Blocks BY <1>3, LenProperties, ElementOfSeq
<1>5. Window \in Nat BY BoundsAssumption
<1>6. Padded(new) = [i \in 1..Window |-> Padded(new)[i]] BY DEF Padded
<1>7. \A i \in 1..Window : Padded(new)[i] \in Blocks BY <1>4, <1>5 DEF Padded
<1>8. Padded(new) \in [1..Window -> Blocks] BY <1>6, <1>7
<1>9. Padded(new) \in Seq(Blocks) BY <1>5, <1>8, SeqDef
<1> QED BY <1>3, <1>9

\* What getChanges() returns is again a function from some keys to values.
LEMMA ChangesAreChanges ==
  ASSUME NEW map, NEW state \in Changes
  PROVE  GetChanges(map, state) \in Changes
<1> DEFINE changed == {k \in DOMAIN state : EntriesOf(map, k) = {} \/ LastValue(map, k) # state[k]}
<1>1. PICK keys \in SUBSET Key : state \in [keys -> Value] BY DEF Changes
<1>2. changed \in SUBSET Key /\ \A k \in changed : state[k] \in Value BY <1>1
<1>3. GetChanges(map, state) = [k \in changed |-> state[k]] BY DEF GetChanges
<1> HIDE DEF changed
<1>4. GetChanges(map, state) \in [changed -> Value] BY <1>2, <1>3
<1> QED BY <1>2, <1>4 DEF Changes

\* Ids stay what they are while the owner's map grows.
LEMMA IdStays ==
  ASSUME NEW p \in Peer, NEW msg \in Messages, HasId(msg, chrono[p][p].expirationTime),
         MapsGrow, Replication, Replication'
  PROVE  HasId(msg, chrono'[p][p].expirationTime)
<1>1. chrono[p][p].expirationTime \in Nat BY DEF Replication, History, IsMap
<1>2. chrono'[p][p].expirationTime \in Nat BY DEF Replication, History, IsMap
<1>3. chrono[p][p].expirationTime <= chrono'[p][p].expirationTime BY DEF MapsGrow
<1>4. msg.uuid \in Nat BY DEF Messages
<1> QED BY <1>1, <1>2, <1>3, <1>4 DEF HasId

\* Steps that send nothing and begin no broadcast.
LEMMA QuietSends ==
  ASSUME PeerIInv, PeerIInv', MapsGrow, Sent, NeverSentTwice,
         UNCHANGED <<lastSendBuffer, sending, requested>>
  PROVE  Sent' /\ NeverSentTwice'
<1>1. \A p \in Peer : \A q \in Others(p) : \A r \in requested[<<p, q>>] :
        HasId(r, chrono'[p][p].expirationTime)
  BY IdStays, ChannelIs DEF PeerIInv, Sent
<1>2. \A p \in Peer : sending[p].to # {} => HasId(sending[p].msg, chrono'[p][p].expirationTime)
  BY IdStays DEF PeerIInv, Sent
<1>3. Sent' BY <1>1, <1>2 DEF Sent
<1>4. NeverSentTwice' BY DEF NeverSentTwice
<1> QED BY <1>3, <1>4

\* updateState(): the new id is later than all the ids before.
LEMMA UpdateSends ==
  ASSUME PeerIInv, PeerIInv', MapsGrow, Sent, NeverSentTwice,
         NEW p \in Peer, NEW timestamp \in 1..MaxTime[p], NEW state \in States[p],
         UpdateState(p, timestamp, state)
  PROVE  Sent' /\ NeverSentTwice'
<1> DEFINE own == chrono[p][p]
           b == Block(own.expirationTime, timestamp, GetChanges(own, state))
           new == Put(own, b)
           buffer == KeepLast(Append(lastSendBuffer[p], b))
           msg == InputMsg(timestamp, Padded(buffer))
<1>1. /\ timestamp \in Nat /\ timestamp > own.expirationTime
      /\ chrono' = [chrono EXCEPT ![p][p] = new]
      /\ lastSendBuffer' = [lastSendBuffer EXCEPT ![p] = buffer]
      /\ sending' = [sending EXCEPT ![p] = [to |-> Others(p), msg |-> msg]]
      /\ requested' = requested
  BY BoundsAssumption DEF UpdateState, GameThreadFree, rpcVars
<1>2. own.expirationTime \in Nat BY DEF PeerIInv, Replication, History, IsMap
<1>3. b \in Blocks
  <2>1. GetChanges(own, state) \in Changes BY ChangesAreChanges, GamesAssumption
  <2> QED BY <1>1, <1>2, <2>1 DEF Blocks, Block
<1>4. buffer \in Seq(Blocks) /\ Padded(buffer) \in Seq(Blocks)
  <2>1. IsWindow(lastSendBuffer[p]) /\ Len(lastSendBuffer[p]) <= Window BY DEF PeerIInv, SendShape
  <2>2. lastSendBuffer[p] \in Seq(Blocks) BY DEF Sent
  <2> HIDE DEF b
  <2>3. IsWindow(buffer) /\ Len(buffer) <= Window /\ b \in InWindow(buffer) BY <2>1, BufferKeeps
  <2>4. Len(buffer) >= 1 BY <2>3, LenProperties DEF InWindow, IsWindow
  <2> QED BY <1>3, <2>2, <2>3, <2>4, WindowsOfBlocks
<1>5. chrono'[p][p].expirationTime = timestamp
  <2>1. History(own, Made(p)) BY DEF PeerIInv, Replication
  <2>2. b = Block(own.expirationTime, timestamp, GetChanges(own, state)) /\ new = Put(own, b)
    OBVIOUS
  <2>3. chrono'[p][p] = new BY <1>1 DEF PeerIInv, Replication
  <2> HIDE DEF own, b, new
  <2>4. Extended(own, Made(p), timestamp, state, b, new) BY <1>1, <2>1, <2>2, OwnPutKeeps
  <2> QED BY <2>3, <2>4 DEF Extended
<1>6. /\ msg \in Messages /\ msg.uuid = timestamp /\ msg.kind = "INPUT" /\ msg.barrier = 0
  BY <1>1, <1>4 DEF InputMsg, Messages
<1> HIDE DEF own, b, new, buffer, msg
<1>7. HasId(msg, chrono'[p][p].expirationTime) BY <1>1, <1>5, <1>6 DEF HasId
<1>8. /\ sending'[p] = [to |-> Others(p), msg |-> msg] /\ lastSendBuffer'[p] = buffer
      /\ \A r \in Peer : r # p => sending'[r] = sending[r] /\ lastSendBuffer'[r] = lastSendBuffer[r]
  BY <1>1 DEF PeerIInv, SendShape
<1>9. \A r \in Peer : lastSendBuffer'[r] \in Seq(Blocks) /\ sending'[r].msg \in Messages
  BY <1>4, <1>6, <1>8 DEF Sent
<1>10. \A x \in Peer : \A q \in Others(x) : \A r \in requested[<<x, q>>] :
         HasId(r, chrono'[x][x].expirationTime)
  BY IdStays, ChannelIs DEF PeerIInv, Sent
<1>11. \A x \in Peer : x # p /\ sending[x].to # {} =>
         HasId(sending[x].msg, chrono'[x][x].expirationTime)
  BY IdStays DEF PeerIInv, Sent
<1>12. \A x \in Peer : sending'[x].to # {} =>
         HasId(sending'[x].msg, chrono'[x][x].expirationTime)
  BY <1>7, <1>8, <1>11
<1>13. Sent' BY <1>1, <1>9, <1>10, <1>12 DEF Sent, HasId
<1>14. ASSUME NEW x \in Peer, NEW q \in sending'[x].to, NEW r \in requested'[<<x, q>>]
       PROVE  r.uuid # sending'[x].msg.uuid /\ r.barrier <= sending'[x].msg.barrier
  <2>1. CASE x # p BY <1>1, <1>8, <2>1 DEF NeverSentTwice
  <2>2. CASE x = p
    <3>1. q \in Others(p) /\ sending'[x].msg = msg BY <1>8, <2>2
    <3>2. r \in Messages /\ HasId(r, chrono[p][p].expirationTime)
      BY <1>1, <2>2, <3>1, ChannelIs DEF Sent
    <3>3. r.uuid \in Nat /\ r.barrier = 0 BY <3>2 DEF Messages
    <3>4. r.uuid <= own.expirationTime BY <1>2, <3>2, <3>3 DEF HasId, own
    <3> QED BY <1>1, <1>2, <1>6, <3>1, <3>3, <3>4
  <2> QED BY <2>1, <2>2
<1>15. NeverSentTwice' BY <1>14 DEF NeverSentTwice
<1> QED BY <1>13, <1>15

\* One connection gets the message: it is not sent it again.
LEMMA SendNextSends ==
  ASSUME PeerIInv, PeerIInv', MapsGrow, Sent, NeverSentTwice,
         NEW p \in Peer, NEW q \in Peer, SendNext(p, q)
  PROVE  Sent' /\ NeverSentTwice'
<1>1. q \in Others(p) /\ <<p, q>> \in Channel BY ChannelIs DEF SendNext, PeerIInv, SendShape
<1>2. /\ UNCHANGED <<chrono, lastSendBuffer>> /\ q \in sending[p].to
      /\ sending' = [sending EXCEPT ![p].to = @ \ {q}]
      /\ requested' = requested \/ requested' = [requested EXCEPT ![<<p, q>>] = @ \cup {sending[p].msg}]
  BY DEF SendNext, rpcVars, Rpc!Issue
<1>3. /\ sending'[p].to = sending[p].to \ {q} /\ sending'[p].msg = sending[p].msg
      /\ \A r \in Peer : r # p => sending'[r] = sending[r]
  <2>1. sending[p] = [to |-> sending[p].to, msg |-> sending[p].msg] /\ DOMAIN sending = Peer
    BY DEF PeerIInv, SendShape
  <2>2. sending'[p] = [sending[p] EXCEPT !.to = @ \ {q}] BY <1>2, <2>1
  <2>3. sending'[p] = [to |-> sending[p].to \ {q}, msg |-> sending[p].msg] BY <2>1, <2>2
  <2> QED BY <1>2, <2>1, <2>3
<1>4. \A c \in Channel : \A r \in requested'[c] :
        r \in requested[c] \/ (c = <<p, q>> /\ r = sending[p].msg)
  BY <1>1, <1>2 DEF PeerIInv, RpcShape
<1>5. sending[p].msg \in Messages /\ HasId(sending[p].msg, chrono[p][p].expirationTime)
  BY <1>2 DEF Sent
<1>6. \A c \in Channel : requested'[c] \subseteq Messages BY <1>4, <1>5 DEF Sent
<1>7. ASSUME NEW x \in Peer, NEW y \in Others(x), NEW r \in requested'[<<x, y>>]
      PROVE  HasId(r, chrono[x][x].expirationTime)
  <2>1. r \in requested[<<x, y>>] \/ (x = p /\ r = sending[p].msg) BY <1>4, ChannelIs
  <2> QED BY <1>5, <2>1 DEF Sent
<1>8. \A x \in Peer : sending'[x].msg = sending[x].msg /\ sending'[x].to \subseteq sending[x].to
  BY <1>3
<1>9. Sent'
  <2>1. \A x \in Peer : lastSendBuffer'[x] \in Seq(Blocks) /\ sending'[x].msg \in Messages
    BY <1>2, <1>8 DEF Sent
  <2>2. ASSUME NEW x \in Peer, sending'[x].to # {}
        PROVE  HasId(sending[x].msg, chrono[x][x].expirationTime)
    BY <1>8, <2>2 DEF Sent
  <2> QED BY <1>2, <1>6, <1>7, <1>8, <2>1, <2>2 DEF Sent, HasId
<1>10. ASSUME NEW x \in Peer, NEW y \in sending'[x].to, NEW r \in requested'[<<x, y>>]
       PROVE  r.uuid # sending'[x].msg.uuid /\ r.barrier <= sending'[x].msg.barrier
  <2>1. y \in sending[x].to /\ (x # p \/ y # q) BY <1>3, <1>8
  <2>2. y \in Others(x) BY <2>1 DEF PeerIInv, SendShape
  <2>3. r \in requested[<<x, y>>] BY <1>4, <2>1, <2>2, ChannelIs
  <2> QED BY <1>8, <2>1, <2>3 DEF NeverSentTwice
<1> QED BY <1>9, <1>10 DEF NeverSentTwice

\* The shutdown is announced once: before, there were only inputs.
LEMMA AnnounceSends ==
  ASSUME PeerIInv, PeerIInv', MapsGrow, Sent, NeverSentTwice, NEW p \in Peer, Announce(p)
  PROVE  Sent' /\ NeverSentTwice'
<1>1. /\ UNCHANGED <<chrono, lastSendBuffer, requested>> /\ phase[p] = "flushing"
      /\ sending' = [sending EXCEPT ![p] = [to |-> Others(p), msg |-> ShutdownMsg]]
  BY DEF Announce, rpcVars
<1>2. /\ sending'[p].to = Others(p) /\ sending'[p].msg = ShutdownMsg
      /\ \A r \in Peer : r # p => sending'[r] = sending[r]
  BY <1>1 DEF PeerIInv, SendShape
<1>3. /\ ShutdownMsg \in Messages /\ ShutdownMsg.uuid = 0 /\ ShutdownMsg.kind = "SHUTDOWN"
      /\ ShutdownMsg.barrier = 0
  <2>1. <<>> \in Seq(Blocks) BY EmptySeq
  <2> QED BY <2>1 DEF ShutdownMsg, Messages
<1>4. Sent'
  <2>1. \A x \in Peer : lastSendBuffer'[x] \in Seq(Blocks) /\ sending'[x].msg \in Messages
    BY <1>1, <1>2, <1>3 DEF Sent
  <2>2. ASSUME NEW x \in Peer, sending'[x].to # {}
        PROVE  HasId(sending'[x].msg, chrono[x][x].expirationTime)
    BY <1>2, <1>3, <2>2 DEF Sent, HasId
  <2> QED BY <1>1, <2>1, <2>2 DEF Sent, HasId
<1>5. ASSUME NEW x \in Peer, NEW y \in sending'[x].to, NEW r \in requested'[<<x, y>>]
      PROVE  r.uuid # sending'[x].msg.uuid /\ r.barrier <= sending'[x].msg.barrier
  <2>1. CASE x # p BY <1>1, <1>2, <2>1 DEF NeverSentTwice
  <2>2. CASE x = p
    <3>1. y \in Others(p) /\ r \in requested[<<p, y>>] BY <1>1, <1>2, <2>2
    <3>2. r \in Messages /\ HasId(r, chrono[p][p].expirationTime) BY <3>1, ChannelIs DEF Sent
    <3>3. r.kind # "SHUTDOWN" BY <1>1, <3>1 DEF PeerIInv, Shutdowns, Announced
    <3>4. chrono[p][p].expirationTime \in Nat BY DEF PeerIInv, Replication, History, IsMap
    <3>5. r.uuid # 0 BY <3>2, <3>3, <3>4 DEF HasId
    <3>6. r.barrier = 0 BY <3>2 DEF Messages
    <3> QED BY <1>2, <1>3, <2>2, <3>5, <3>6
  <2> QED BY <2>1, <2>2
<1> QED BY <1>4, <1>5 DEF NeverSentTwice

\* Every step sends fresh messages.
LEMMA SendsKeep ==
  ASSUME PeerIInv, PeerIInv', Sent, NeverSentTwice, [Next]_vars
  PROVE  Sent' /\ NeverSentTwice'
<1>1. MapsGrow BY StepReplicates
<1>2. ASSUME UNCHANGED <<lastSendBuffer, sending, requested>> PROVE Sent' /\ NeverSentTwice'
  BY <1>1, <1>2, QuietSends
<1>3. CASE UNCHANGED vars BY <1>2, <1>3 DEF vars, rpcVars
<1>4. CASE Next
  <2>1. ASSUME NEW p \in Peer, NEW q \in Others(p), Deliver(p, q) \/ Update(p, q) \/ Complete(p, q)
        PROVE  UNCHANGED <<lastSendBuffer, sending, requested>>
    BY <2>1 DEF Deliver, Update, Complete, Rpc!Execute, Rpc!ExecuteAndAnswer, Rpc!Answer,
                Rpc!Complete
  <2>2. ASSUME NEW p \in Peer, PhaseStep(p) \/ ReadStep(p)
        PROVE  UNCHANGED <<lastSendBuffer, sending, requested>>
    BY <2>2, PhaseStepLeaves, ReadStepLeaves
  <2>3. ASSUME NEW p \in Peer, NEW t \in 1..MaxTime[p], NEW state \in States[p],
               UpdateState(p, t, state)
        PROVE  Sent' /\ NeverSentTwice'
    BY <1>1, <2>3, UpdateSends
  <2>4. ASSUME NEW p \in Peer, NEW q \in Peer, SendNext(p, q) PROVE Sent' /\ NeverSentTwice'
    BY <1>1, <2>4, SendNextSends
  <2>5. ASSUME NEW p \in Peer, Announce(p) PROVE Sent' /\ NeverSentTwice'
    BY <1>1, <2>5, AnnounceSends
  <2> QED BY <1>2, <1>4, <2>1, <2>2, <2>3, <2>4, <2>5, NextIs
<1> QED BY <1>3, <1>4

\* The messages that are under way have the form of Messages, in every state.
LEMMA SentInvariance == Spec => [](Sent /\ NeverSentTwice)
<1>1. Init => Sent /\ NeverSentTwice
  <2> SUFFICES ASSUME Init PROVE Sent /\ NeverSentTwice OBVIOUS
  <2>1. \A c \in Channel : requested[c] = {} BY DEF Init, Rpc!Init
  <2>2. \A p \in Peer : sending[p].to = {} /\ sending[p].msg = ShutdownMsg /\ lastSendBuffer[p] = <<>>
    BY DEF Init, Nobody
  <2>3. <<>> \in Seq(Blocks) BY EmptySeq
  <2>4. ShutdownMsg \in Messages BY <2>3 DEF ShutdownMsg, Messages
  <2>5. Sent BY <2>1, <2>2, <2>3, <2>4, ChannelIs DEF Sent
  <2>6. NeverSentTwice BY <2>2 DEF NeverSentTwice
  <2> QED BY <2>5, <2>6
<1>2. PeerIInv /\ PeerIInv' /\ Sent /\ NeverSentTwice /\ [Next]_vars => Sent' /\ NeverSentTwice'
  BY SendsKeep
<1> QED BY <1>1, <1>2, PeerInvariance, PTL DEF Spec

\* What MyPeer does with its connections, step by step: it issues, executes, answers and
\* completes requests as RpcService allows, or leaves them alone.
LEMMA StepUsesService ==
  ASSUME PeerIInv, Sent, [Next]_vars
  PROVE  [Rpc!Next]_Rpc!serviceVars
<1> DEFINE Goal == Rpc!Next \/ UNCHANGED Rpc!serviceVars
<1>1. ASSUME UNCHANGED rpcVars PROVE Goal BY <1>1 DEF rpcVars, Rpc!serviceVars
<1>2. ASSUME NEW c \in Channel, NEW r \in Messages,
             \/ Rpc!Issue(c, r) \/ Rpc!Execute(c, r) \/ Rpc!Answer(c, r)
             \/ Rpc!ExecuteAndAnswer(c, r) \/ Rpc!Complete(c, r)
      PROVE  Goal
  BY <1>2 DEF Rpc!Next
<1> HIDE DEF Goal
<1>3. ASSUME UNCHANGED vars PROVE Goal BY <1>1, <1>3 DEF vars
<1>4. ASSUME Next PROVE Goal
  <2>1. ASSUME NEW p \in Peer, NEW t, NEW state, UpdateState(p, t, state) PROVE Goal
    BY <1>1, <2>1 DEF UpdateState
  <2>2. ASSUME NEW p \in Peer, NEW q \in Peer, SendNext(p, q) PROVE Goal
    <3>1. <<p, q>> \in Channel BY <2>2, ChannelIs DEF SendNext, PeerIInv, SendShape
    <3>2. sending[p].msg \in Messages BY DEF Sent
    <3>3. UNCHANGED rpcVars \/ Rpc!Issue(<<p, q>>, sending[p].msg) BY <2>2 DEF SendNext
    <3> QED BY <1>1, <1>2, <3>1, <3>2, <3>3
  <2>3. ASSUME NEW p \in Peer, NEW q \in Others(p), Deliver(p, q) PROVE Goal
    <3>1. <<p, q>> \in Channel BY ChannelIs
    <3>2. PICK r \in requested[<<p, q>>] :
            Rpc!ExecuteAndAnswer(<<p, q>>, r) \/ Rpc!Execute(<<p, q>>, r)
      BY <2>3 DEF Deliver
    <3>3. r \in Messages BY <3>1 DEF Sent
    <3> QED BY <1>2, <3>1, <3>2, <3>3
  <2>4. ASSUME NEW p \in Peer, NEW q \in Others(p), Update(p, q) PROVE Goal
    <3>1. <<p, q>> \in Channel BY ChannelIs
    <3>2. PICK r \in executed[<<p, q>>] : Rpc!Answer(<<p, q>>, r) BY <2>4 DEF Update
    <3>3. r \in Messages BY <3>1 DEF Sent, PeerIInv, RpcShape
    <3> QED BY <1>2, <3>1, <3>2, <3>3
  <2>5. ASSUME NEW p \in Peer, NEW q \in Others(p), Complete(p, q) PROVE Goal
    <3>1. <<p, q>> \in Channel BY ChannelIs
    <3>2. PICK r \in answered[<<p, q>>] : Rpc!Complete(<<p, q>>, r) BY <2>5 DEF Complete
    <3>3. r \in Messages BY <3>1 DEF Sent, PeerIInv, RpcShape
    <3> QED BY <1>2, <3>1, <3>2, <3>3
  <2>6. ASSUME NEW p \in Peer, Announce(p) PROVE Goal BY <1>1, <2>6 DEF Announce
  <2>7. ASSUME NEW p \in Peer, PhaseStep(p) \/ ReadStep(p) PROVE Goal
    BY <1>1, <2>7, PhaseStepLeaves, ReadStepLeaves DEF rpcVars
  <2> QED BY <1>4, <2>1, <2>2, <2>3, <2>4, <2>5, <2>6, <2>7, NextIs
<1> QED BY <1>3, <1>4 DEF Goal

\* MyPeer uses its connections as RpcService lets it: with BiDirectionalRpc, which implements
\* that service, the two levels fit together.  No step of MyPeer needs more of a connection.
THEOREM UsesService == Spec => Rpc!Spec
<1>1. Init => Rpc!Init BY DEF Init
<1>2. PeerIInv /\ Sent /\ [Next]_vars => [Rpc!Next]_Rpc!serviceVars BY StepUsesService
<1> QED BY <1>1, <1>2, PeerInvariance, SentInvariance, PTL DEF Spec, Rpc!Spec
=============================================================================
