--------------------------- MODULE StunClient_proofs ---------------------------
(***************************************************************************)
(* Proofs about the STUN block of MyPeer's constructor, for any number of  *)
(* servers: StunIInv is an inductive invariant of its steps.  The results  *)
(* for the whole process are in PeerProcess_proofs.                        *)
(*                                                                         *)
(* Every handler takes at most the head of the io_service's queue and      *)
(* appends some completions; Moves says so, and the first lemmas say what  *)
(* that does to each part of the invariant.                                *)
(***************************************************************************)
EXTENDS StunClient, FiniteSetTheorems, FunctionTheorems, SequenceTheorems, TLAPS

\* The first d completions leave the queue, and add joins it.
Moves(d, add) ==
  /\ d \in {0, 1} /\ d <= Len(ready)
  /\ add \in Seq(ReadyOp)
  /\ ready' \in Seq(ReadyOp)
  /\ Len(ready') = (Len(ready) - d) + Len(add)
  /\ \A i \in 1..(Len(ready) - d) : ready'[i] = ready[i + d]
  /\ \A i \in 1..Len(add) : ready'[(Len(ready) - d) + i] = add[i]

\* The names whose completions leave with the first d, and those whose completions are in add.
TakenNames(d) == IF d = 1 /\ Counted(ready[1]) THEN {ready[1].name} ELSE {}
AddedNames(add) == {add[i].name : i \in {j \in DOMAIN add : Counted(add[j])}}

-----------------------------------------------------------------------------
(* The queue.                                                               *)

\* The ways in which the code changes the queue are moves.
LEMMA QueueMoves ==
  ASSUME ready \in Seq(ReadyOp)
  PROVE  /\ UNCHANGED ready => Moves(0, <<>>)
         /\ \A e \in ReadyOp : ready' = Append(ready, e) => Moves(0, <<e>>)
         /\ ready # <<>> => 
              /\ Head(ready) = ready[1] /\ 1 \in DOMAIN ready
              /\ ready' = Tail(ready) => Moves(1, <<>>)
              /\ \A e \in ReadyOp : ready' = Append(Tail(ready), e) => Moves(1, <<e>>)
              /\ \A add \in Seq(ReadyOp) : ready' = Tail(ready) \o add => Moves(1, add)
<1>1. UNCHANGED ready => Moves(0, <<>>) BY DEF Moves
<1>2. ASSUME NEW e \in ReadyOp, ready' = Append(ready, e) PROVE Moves(0, <<e>>)
  BY <1>2 DEF Moves
<1>3. ASSUME ready # <<>>
      PROVE /\ Head(ready) = ready[1] /\ 1 \in DOMAIN ready
            /\ Tail(ready) \in Seq(ReadyOp) /\ Len(Tail(ready)) = Len(ready) - 1
            /\ \A i \in 1..Len(ready) - 1 : Tail(ready)[i] = ready[i + 1]
  <2>1. Len(ready) \in Nat /\ Len(ready) # 0 /\ DOMAIN ready = 1..Len(ready)
    BY <1>3, EmptySeq, LenProperties
  <2>2. Head(ready) = ready[1] /\ 1 \in DOMAIN ready BY <1>3, <2>1
  <2> QED BY <1>3, <2>1, <2>2, HeadTailProperties
<1>4. ASSUME ready # <<>>, ready' = Tail(ready) PROVE Moves(1, <<>>)
  BY <1>3, <1>4 DEF Moves
<1>5. ASSUME ready # <<>>, NEW e \in ReadyOp, ready' = Append(Tail(ready), e) PROVE Moves(1, <<e>>)
  <2>1. /\ Len(ready) \in Nat /\ Len(ready) >= 1 BY <1>3, <1>5
  <2> DEFINE rest == Tail(ready)
  <2>2. /\ rest \in Seq(ReadyOp) /\ Len(rest) = Len(ready) - 1
        /\ \A i \in 1..Len(ready) - 1 : rest[i] = ready[i + 1]
    BY <1>3, <1>5
  <2>3. ready' = Append(rest, e) BY <1>5
  <2> HIDE DEF rest
  <2>4. /\ ready' \in Seq(ReadyOp) /\ Len(ready') = Len(rest) + 1
        /\ \A i \in 1..Len(rest) : ready'[i] = rest[i]
        /\ ready'[Len(rest) + 1] = e
    BY <2>2, <2>3, AppendProperties
  <2> QED BY <2>1, <2>2, <2>4 DEF Moves
<1>6. ASSUME ready # <<>>, NEW add \in Seq(ReadyOp), ready' = Tail(ready) \o add PROVE Moves(1, add)
  <2>1. /\ Len(ready) \in Nat /\ Len(ready) >= 1 BY <1>3, <1>6
  <2> DEFINE rest == Tail(ready)
  <2>2. /\ rest \in Seq(ReadyOp) /\ Len(rest) = Len(ready) - 1
        /\ \A i \in 1..Len(ready) - 1 : rest[i] = ready[i + 1]
    BY <1>3, <1>6
  <2>3. ready' = rest \o add BY <1>6
  <2> HIDE DEF rest
  <2>4. /\ ready' \in Seq(ReadyOp) /\ Len(ready') = Len(rest) + Len(add)
        /\ \A i \in 1..Len(rest) + Len(add) :
             ready'[i] = IF i <= Len(rest) THEN rest[i] ELSE add[i - Len(rest)]
    BY <2>2, <2>3, ConcatProperties
  <2>5. Len(add) \in Nat OBVIOUS
  <2>6. \A i \in 1..Len(rest) : ready'[i] = rest[i] BY <2>1, <2>2, <2>4, <2>5
  <2>7. ASSUME NEW i \in 1..Len(add) PROVE ready'[Len(rest) + i] = add[i]
    <3>1. Len(rest) + i \in 1..Len(rest) + Len(add) /\ ~(Len(rest) + i <= Len(rest))
          /\ (Len(rest) + i) - Len(rest) = i
      BY <2>1, <2>2, <2>5
    <3> QED BY <2>4, <3>1
  <2> QED BY <2>1, <2>2, <2>4, <2>6, <2>7 DEF Moves
<1> QED BY <1>1, <1>2, <1>3, <1>4, <1>5, <1>6

\* Where a completion was before a move, and where it is after it.
LEMMA MovedIndices ==
  ASSUME ready \in Seq(ReadyOp), NEW d, NEW add, Moves(d, add)
  PROVE  LET rest == Len(ready) - d IN
         /\ d \in {0, 1} /\ rest \in Nat /\ DOMAIN add = 1..Len(add) /\ DOMAIN ready = 1..Len(ready)
         /\ \A k \in DOMAIN ready' :
              \/ k <= rest /\ k + d \in DOMAIN ready /\ k + d > d /\ ready'[k] = ready[k + d]
              \/ k > rest /\ k - rest \in DOMAIN add /\ ready'[k] = add[k - rest]
         /\ \A i \in DOMAIN ready : i > d => i - d \in DOMAIN ready' /\ ready'[i - d] = ready[i]
         /\ \A i \in DOMAIN add : rest + i \in DOMAIN ready' /\ ready'[rest + i] = add[i]
<1> DEFINE rest == Len(ready) - d
<1>1. /\ d \in {0, 1} /\ rest \in Nat /\ rest + d = Len(ready) /\ Len(add) \in Nat
      /\ DOMAIN add = 1..Len(add) /\ DOMAIN ready = 1..Len(ready)
      /\ DOMAIN ready' = 1..rest + Len(add)
  BY DEF Moves
<1>2. /\ \A i \in 1..rest : ready'[i] = ready[i + d]
      /\ \A i \in 1..Len(add) : ready'[rest + i] = add[i]
  BY DEF Moves
<1> HIDE DEF rest
<1>3. ASSUME NEW k \in DOMAIN ready'
      PROVE  \/ k <= rest /\ k + d \in DOMAIN ready /\ k + d > d /\ ready'[k] = ready[k + d]
             \/ k > rest /\ k - rest \in DOMAIN add /\ ready'[k] = add[k - rest]
  <2>1. CASE k <= rest BY <1>1, <1>2, <2>1
  <2>2. CASE k > rest
    <3>1. k - rest \in 1..Len(add) /\ rest + (k - rest) = k BY <1>1, <2>2
    <3> QED BY <1>1, <1>2, <2>2, <3>1
  <2> QED BY <1>1, <2>1, <2>2
<1>4. ASSUME NEW i \in DOMAIN ready, i > d
      PROVE  i - d \in DOMAIN ready' /\ ready'[i - d] = ready[i]
  <2>1. i - d \in 1..rest /\ (i - d) + d = i BY <1>1, <1>4
  <2> QED BY <1>1, <1>2, <2>1
<1>5. ASSUME NEW i \in DOMAIN add PROVE rest + i \in DOMAIN ready' /\ ready'[rest + i] = add[i]
  <2>1. i \in 1..Len(add) /\ rest + i \in 1..rest + Len(add) BY <1>1
  <2> QED BY <1>1, <1>2, <2>1
<1> QED BY <1>1, <1>3, <1>4, <1>5 DEF rest

\* What is in the queue after a move.
LEMMA MovedKinds ==
  ASSUME ready \in Seq(ReadyOp), NEW d, NEW add, Moves(d, add), NEW kind
  PROVE  InReady(kind)' <=> \/ \E i \in DOMAIN ready : i > d /\ ready[i].kind = kind
                            \/ \E i \in DOMAIN add : add[i].kind = kind
BY MovedIndices DEF InReady

\* What a move keeps in the queue and what it brings.
LEMMA KindsKept ==
  ASSUME ready \in Seq(ReadyOp), NEW d, NEW add, Moves(d, add), NEW kind
  PROVE  /\ InReady(kind) /\ (d = 1 => ready[1].kind # kind) => InReady(kind)'
         /\ (\E i \in DOMAIN add : add[i].kind = kind) => InReady(kind)'
         /\ InReady(kind)' /\ (\A i \in DOMAIN add : add[i].kind # kind) => InReady(kind)
<1>1. d \in {0, 1} /\ DOMAIN ready = 1..Len(ready) /\ Len(ready) \in Nat BY MovedIndices
<1>2. ASSUME InReady(kind), d = 1 => ready[1].kind # kind PROVE InReady(kind)'
  <2>1. PICK i \in DOMAIN ready : ready[i].kind = kind BY <1>2 DEF InReady
  <2>2. i > d
    <3> SUFFICES ASSUME ~(i > d) PROVE FALSE OBVIOUS
    <3>1. d = 1 /\ i = 1 BY <1>1
    <3> QED BY <1>2, <2>1, <3>1
  <2> QED BY <2>1, <2>2, MovedKinds
<1>3. (\E i \in DOMAIN add : add[i].kind = kind) => InReady(kind)' BY MovedKinds
<1>4. ASSUME InReady(kind)', \A i \in DOMAIN add : add[i].kind # kind PROVE InReady(kind)
  <2>1. \E i \in DOMAIN ready : i > d /\ ready[i].kind = kind BY <1>4, MovedKinds
  <2> QED BY <2>1 DEF InReady
<1> QED BY <1>2, <1>3, <1>4

\* The types after a move.
LEMMA NamesKept ==
  ASSUME StunTypes, NEW d, NEW add, Moves(d, add),
         \A i \in DOMAIN add : add[i].kind \in {"resolved", "sent", "timer"} => add[i].name \in Servers
  PROVE  /\ ready' \in Seq(ReadyOp)
         /\ \A k \in DOMAIN ready' :
              ready'[k].kind \in {"resolved", "sent", "timer"} => ready'[k].name \in Servers
<1>1. ready \in Seq(ReadyOp) BY DEF StunTypes
<1> DEFINE rest == Len(ready) - d
<1>2. \A k \in DOMAIN ready' :
        \/ k <= rest /\ k + d \in DOMAIN ready /\ k + d > d /\ ready'[k] = ready[k + d]
        \/ k > rest /\ k - rest \in DOMAIN add /\ ready'[k] = add[k - rest]
  BY <1>1, MovedIndices
<1> QED BY <1>2 DEF StunTypes, Moves

\* Whatever is pending is a server.
LEMMA PendingAreServers == ASSUME StunTypes PROVE Pending \subseteq Servers
<1>1. ASSUME NEW i \in DOMAIN ready, Counted(ready[i]) PROVE ready[i].name \in Servers
  <2>1. ready[i] \in ReadyOp BY DEF StunTypes
  <2>2. CASE ready[i].kind = "resolved" BY <2>2 DEF StunTypes
  <2>3. CASE ready[i].kind = "handler" BY <2>1, <2>3 DEF ReadyOp
  <2> QED BY <1>1, <2>2, <2>3 DEF Counted
<1> QED BY <1>1 DEF Pending, CountedNames, StunTypes

\* A move keeps every name in one place if what is added or newly held was held or taken before.
LEMMA OnePlaceKept ==
  ASSUME ready \in Seq(ReadyOp), InOnePlace, NEW d, NEW add, Moves(d, add),
         resolving' \cap requests' = {},
         resolving' \cup requests' \subseteq resolving \cup requests \cup TakenNames(d),
         \A i \in DOMAIN add : Counted(add[i]) =>
           /\ add[i].name \notin resolving' \cup requests'
           /\ add[i].name \in resolving \cup requests \cup TakenNames(d),
         \A i, j \in DOMAIN add :
           Counted(add[i]) /\ Counted(add[j]) /\ add[i].name = add[j].name => i = j
  PROVE  /\ InOnePlace'
         /\ CountedNames' = (CountedNames \ TakenNames(d)) \cup AddedNames(add)
<1> DEFINE rest == Len(ready) - d
           held == resolving \cup requests \cup TakenNames(d)
<1>1. /\ d \in {0, 1} /\ rest \in Nat /\ DOMAIN add = 1..Len(add) /\ DOMAIN ready = 1..Len(ready)
      /\ Len(ready) \in Nat
      /\ \A k \in DOMAIN ready' :
              \/ k <= rest /\ k + d \in DOMAIN ready /\ k + d > d /\ ready'[k] = ready[k + d]
              \/ k > rest /\ k - rest \in DOMAIN add /\ ready'[k] = add[k - rest]
      /\ \A i \in DOMAIN ready : i > d => i - d \in DOMAIN ready' /\ ready'[i - d] = ready[i]
      /\ \A i \in DOMAIN add : rest + i \in DOMAIN ready' /\ ready'[rest + i] = add[i]
  BY MovedIndices
<1>2. DOMAIN ready' \subseteq Int /\ DOMAIN add \subseteq Int /\ DOMAIN ready \subseteq Int BY <1>1 DEF Moves
<1>3. \A i \in DOMAIN ready : i > d /\ Counted(ready[i]) => ready[i].name \notin held
  <2>1. ASSUME NEW i \in DOMAIN ready, i > d, Counted(ready[i]) PROVE ready[i].name \notin TakenNames(d)
    <3> SUFFICES ASSUME d = 1, Counted(ready[1]), ready[i].name = ready[1].name PROVE FALSE
      BY DEF TakenNames
    <3>1. 1 \in DOMAIN ready /\ i # 1 BY <1>1, <2>1
    <3> QED BY <2>1, <3>1 DEF InOnePlace
  <2> QED BY <2>1 DEF InOnePlace
<1> HIDE DEF rest, held
<1>4. ASSUME NEW k \in DOMAIN ready', Counted(ready'[k])
      PROVE  ready'[k].name \notin resolving' \cup requests'
  <2>1. CASE k <= rest /\ k + d \in DOMAIN ready /\ k + d > d /\ ready'[k] = ready[k + d]
    BY <1>3, <1>4, <2>1 DEF held
  <2>2. CASE k > rest /\ k - rest \in DOMAIN add /\ ready'[k] = add[k - rest]
    BY <1>4, <2>2
  <2> QED BY <1>1, <2>1, <2>2
<1>5. ASSUME NEW k \in DOMAIN ready', NEW l \in DOMAIN ready', Counted(ready'[k]), Counted(ready'[l]),
             ready'[k].name = ready'[l].name
      PROVE  k = l
  <2>1. CASE k <= rest /\ l <= rest
    <3>1. /\ k + d \in DOMAIN ready /\ ready'[k] = ready[k + d]
          /\ l + d \in DOMAIN ready /\ ready'[l] = ready[l + d]
      BY <1>1, <1>2, <2>1
    <3>2. k + d = l + d BY <1>5, <3>1 DEF InOnePlace
    <3> QED BY <1>1, <1>2, <3>2
  <2>2. CASE k > rest /\ l > rest
    <3>1. /\ k - rest \in DOMAIN add /\ ready'[k] = add[k - rest]
          /\ l - rest \in DOMAIN add /\ ready'[l] = add[l - rest]
      BY <1>1, <1>2, <2>2
    <3>2. k - rest = l - rest BY <1>5, <3>1
    <3> QED BY <1>1, <1>2, <3>2
  <2>3. ASSUME NEW a \in DOMAIN ready', NEW b \in DOMAIN ready', Counted(ready'[a]), Counted(ready'[b]),
               a <= rest, b > rest
        PROVE  ready'[a].name # ready'[b].name
    <3>1. a + d \in DOMAIN ready /\ a + d > d /\ ready'[a] = ready[a + d] BY <1>1, <1>2, <2>3
    <3>2. b - rest \in DOMAIN add /\ ready'[b] = add[b - rest] BY <1>1, <1>2, <2>3
    <3>3. ready'[a].name \notin held BY <1>3, <2>3, <3>1
    <3>4. ready'[b].name \in held BY <2>3, <3>2 DEF held
    <3> QED BY <3>3, <3>4
  <2>4. (k <= rest \/ k > rest) /\ (l <= rest \/ l > rest) BY <1>1, <1>2
  <2> QED BY <1>5, <2>1, <2>2, <2>3, <2>4
<1>6. InOnePlace' BY <1>4, <1>5 DEF InOnePlace, Counted
<1>7. ASSUME NEW n \in CountedNames' PROVE n \in (CountedNames \ TakenNames(d)) \cup AddedNames(add)
  <2>1. PICK k \in DOMAIN ready' : Counted(ready'[k]) /\ n = ready'[k].name
    BY <1>7 DEF CountedNames, Counted
  <2>2. CASE k <= rest /\ k + d \in DOMAIN ready /\ k + d > d /\ ready'[k] = ready[k + d]
    BY <1>3, <2>1, <2>2 DEF held, CountedNames
  <2>3. CASE k > rest /\ k - rest \in DOMAIN add /\ ready'[k] = add[k - rest]
    BY <2>1, <2>3 DEF AddedNames
  <2> QED BY <1>1, <2>2, <2>3
<1>8. ASSUME NEW n \in (CountedNames \ TakenNames(d)) \cup AddedNames(add) PROVE n \in CountedNames'
  <2>1. CASE n \in AddedNames(add)
    <3>1. PICK i \in DOMAIN add : Counted(add[i]) /\ n = add[i].name BY <2>1 DEF AddedNames
    <3>2. rest + i \in DOMAIN ready' /\ ready'[rest + i] = add[i] BY <1>1
    <3> QED BY <3>1, <3>2 DEF CountedNames, Counted
  <2>2. CASE n \in CountedNames \ TakenNames(d)
    <3>1. PICK i \in DOMAIN ready : Counted(ready[i]) /\ n = ready[i].name BY <2>2 DEF CountedNames
    <3>2. i > d
      <4> SUFFICES ASSUME ~(i > d) PROVE FALSE OBVIOUS
      <4>1. d = 1 /\ i = 1 BY <1>1
      <4> QED BY <2>2, <3>1, <4>1 DEF TakenNames
    <3>3. i - d \in DOMAIN ready' /\ ready'[i - d] = ready[i] BY <1>1, <3>2
    <3> QED BY <3>1, <3>3 DEF CountedNames, Counted
  <2> QED BY <1>8, <2>1, <2>2
<1> QED BY <1>6, <1>7, <1>8

\* A move keeps the resend timers in order if every request that leaves the map has its handler
\* posted and every completion of a send that is added is of a request in the map.
LEMMA TimersKept ==
  ASSUME ready \in Seq(ReadyOp), TimersCancelled, NEW d, NEW add, Moves(d, add),
         ~raced' => /\ ~raced
                    /\ armed \subseteq requests => armed' \subseteq requests'
                    /\ \A n \in requests \ requests' :
                         \E j \in DOMAIN add : add[j].kind = "handler" /\ add[j].name = n
                    /\ \A i \in DOMAIN add : add[i].kind \in {"sent", "timer"} =>
                                               (armed \subseteq requests => add[i].name \in requests')
  PROVE  TimersCancelled'
<1> DEFINE rest == Len(ready) - d
           sent(e) == e.kind \in {"sent", "timer"}
<1>1. /\ d \in {0, 1} /\ rest \in Nat /\ DOMAIN add = 1..Len(add) /\ DOMAIN ready = 1..Len(ready)
      /\ Len(ready) \in Nat
      /\ \A k \in DOMAIN ready' :
              \/ k <= rest /\ k + d \in DOMAIN ready /\ k + d > d /\ ready'[k] = ready[k + d]
              \/ k > rest /\ k - rest \in DOMAIN add /\ ready'[k] = add[k - rest]
      /\ \A i \in DOMAIN ready : i > d => i - d \in DOMAIN ready' /\ ready'[i - d] = ready[i]
      /\ \A i \in DOMAIN add : rest + i \in DOMAIN ready' /\ ready'[rest + i] = add[i]
  BY MovedIndices
<1>2. DOMAIN ready' \subseteq Int /\ DOMAIN add \subseteq Int /\ DOMAIN ready \subseteq Int BY <1>1 DEF Moves
<1> HIDE DEF rest
<1> SUFFICES ASSUME ~raced', ~raced, armed \subseteq requests, armed' \subseteq requests',
                    NEW k \in DOMAIN ready', sent(ready'[k])
             PROVE  \/ ready'[k].name \in requests'
                    \/ \E j \in DOMAIN ready' : /\ j > k /\ ready'[j].kind = "handler"
                                                /\ ready'[j].name = ready'[k].name
  BY DEF TimersCancelled
<1>3. CASE k > rest /\ k - rest \in DOMAIN add /\ ready'[k] = add[k - rest]
  BY <1>3
<1>4. CASE k <= rest /\ k + d \in DOMAIN ready /\ k + d > d /\ ready'[k] = ready[k + d]
  <2>1. CASE ready[k + d].name \in requests /\ ready[k + d].name \notin requests'
    <3>1. PICK i \in DOMAIN add : add[i].kind = "handler" /\ add[i].name = ready[k + d].name
      BY <2>1
    <3>2. rest + i \in DOMAIN ready' /\ ready'[rest + i] = add[i] /\ rest + i > k
      BY <1>1, <1>2, <1>4
    <3> QED BY <1>4, <3>1, <3>2
  <2>2. ASSUME NEW j \in DOMAIN ready, j > k + d, ready[j].kind = "handler",
               ready[j].name = ready[k + d].name
        PROVE  \E i \in DOMAIN ready' : /\ i > k /\ ready'[i].kind = "handler"
                                        /\ ready'[i].name = ready'[k].name
    <3>1. j > d /\ j - d > k BY <1>1, <1>2, <1>4, <2>2
    <3>2. j - d \in DOMAIN ready' /\ ready'[j - d] = ready[j] BY <1>1, <3>1
    <3> QED BY <1>4, <2>2, <3>1, <3>2
  <2> QED BY <1>4, <2>1, <2>2 DEF TimersCancelled
<1> QED BY <1>1, <1>3, <1>4

-----------------------------------------------------------------------------
(* Counting.                                                                *)

\* The handlers of the requests that end are posted once each.
LEMMA PostedOnceEach ==
  ASSUME NEW ns \in SUBSET Servers, NEW result \in AnyVerdict
  PROVE  LET add == Posted(ns, result) IN
         /\ add \in Seq(ReadyOp)
         /\ \A i \in DOMAIN add : add[i].kind = "handler" /\ add[i].name \in ns
         /\ \A n \in ns : \E i \in DOMAIN add : add[i].name = n
         /\ \A i, j \in DOMAIN add : add[i].name = add[j].name => i = j
<1> DEFINE len == Cardinality(ns)
           Enumerates(s) == \A n \in ns : \E i \in DOMAIN s : s[i] = n
           order == CHOOSE s \in [1..len -> ns] : Enumerates(s)
           add == [i \in 1..len |-> Finished(order[i], result)]
<1>1. IsFiniteSet(ns) /\ len \in Nat BY ServersAssumption, FS_Subset, FS_CardinalityType
<1>2. \E s \in [1..len -> ns] : Enumerates(s)
  <2>1. PICK s : s \in Bijection(1..len, ns) BY <1>1, FS_CardinalityType DEF ExistsBijection
  <2>2. s \in [1..len -> ns] BY <2>1 DEF Bijection, Injection
  <2>3. s \in Surjection(1..len, ns) BY <2>1 DEF Bijection
  <2>4. \A n \in ns : \E i \in 1..len : s[i] = n BY <2>3 DEF Surjection
  <2> QED BY <2>2, <2>4
<1>3. order \in [1..len -> ns] /\ Enumerates(order) BY <1>2
<1> HIDE DEF order
<1>4. order \in Surjection(1..len, ns) BY <1>3 DEF Surjection
<1>5. order \in Injection(1..len, ns)
  <2>1. IsFiniteSet(1..len) /\ Cardinality(1..len) = len BY <1>1, FS_Interval
  <2> HIDE DEF len
  <2>2. Cardinality(1..len) = Cardinality(ns) BY <2>1 DEF len
  <2> QED BY <1>4, <2>1, <2>2, FS_SurjSameCardinalityImpliesInj
<1> HIDE DEF len
<1>6. \A i, j \in 1..len : order[i] = order[j] => i = j
  <2> SUFFICES ASSUME NEW i \in 1..len, NEW j \in 1..len, order[i] = order[j] PROVE i = j OBVIOUS
  <2> QED BY <1>5 DEF Injection, IsInjective
<1>7. \A n \in ns : /\ Finished(n, result) \in ReadyOp /\ Finished(n, result).kind = "handler"
                    /\ Finished(n, result).name = n
  BY DEF Finished, ReadyOp
<1>8. /\ add \in Seq(ReadyOp) /\ DOMAIN add = 1..len
      /\ \A i \in 1..len : add[i] = Finished(order[i], result)
  BY <1>1, <1>3, <1>7
<1>9. Posted(ns, result) = add BY DEF Posted, order, len
<1> HIDE DEF add
<1>10. \A i \in 1..len : add[i].kind = "handler" /\ add[i].name = order[i] BY <1>3, <1>7, <1>8
<1>11. \A n \in ns : \E i \in 1..len : order[i] = n BY <1>3
<1> QED BY <1>3, <1>6, <1>8, <1>9, <1>10, <1>11

\* wait_for stays right when a name only goes from one place to another, or will not come.
LEMMA WaitsKept ==
  ASSUME WaitsForPending, UNCHANGED waitFor, Pending' \subseteq Pending, Pending \subseteq Servers,
         Pending \cup Excused \subseteq Pending' \cup Excused'
  PROVE  WaitsForPending'
<1>1. Excused' \subseteq Servers /\ Excused \subseteq Servers BY DEF Excused
<1>2. IsFiniteSet(Servers) BY ServersAssumption
<1>3. IsFiniteSet(Pending) /\ IsFiniteSet(Pending' \cup Excused')
  BY <1>1, <1>2, FS_Subset
<1>4. Cardinality(Pending') <= Cardinality(Pending)
  BY <1>3, FS_Subset
<1>5. Cardinality(Pending \cup Excused) <= Cardinality(Pending' \cup Excused')
  BY <1>3, FS_Subset
<1>6. /\ Cardinality(Pending) \in Nat /\ Cardinality(Pending') \in Nat
      /\ Cardinality(Pending \cup Excused) \in Nat /\ Cardinality(Pending' \cup Excused') \in Nat
  <2>1. IsFiniteSet(Pending') /\ IsFiniteSet(Pending \cup Excused) BY <1>1, <1>2, FS_Subset
  <2> QED BY <1>3, <2>1, FS_CardinalityType
<1> QED BY <1>4, <1>5, <1>6 DEF WaitsForPending

\* wait_for stays right when the handler of one name runs.
LEMMA WaitsCountedDown ==
  ASSUME WaitsForPending, waitFor' = waitFor - 1, UNCHANGED addr, Pending \subseteq Servers,
         NEW n \in Pending, Pending' = Pending \ {n}
  PROVE  WaitsForPending'
<1>1. Excused' = Excused /\ Excused \subseteq Servers BY DEF Excused
<1>2. IsFiniteSet(Servers) BY ServersAssumption
<1>3. IsFiniteSet(Pending) /\ IsFiniteSet(Pending \cup Excused) /\ IsFiniteSet(Pending' \cup Excused)
  BY <1>1, <1>2, FS_Subset
<1>4. Cardinality(Pending') = Cardinality(Pending) - 1 BY <1>3, FS_RemoveElement
<1>5. Cardinality(Pending \cup Excused) - 1 <= Cardinality(Pending' \cup Excused)
  <2> DEFINE whole == Pending \cup Excused
  <2>1. Cardinality(whole \ {n}) = Cardinality(whole) - 1 BY <1>3, FS_RemoveElement
  <2>2. whole \ {n} \subseteq Pending' \cup Excused OBVIOUS
  <2>3. Cardinality(whole \ {n}) <= Cardinality(Pending' \cup Excused) BY <1>3, <2>2, FS_Subset
  <2> QED BY <2>1, <2>3
<1>6. /\ Cardinality(Pending) \in Nat /\ Cardinality(Pending \cup Excused) \in Nat
      /\ Cardinality(Pending' \cup Excused) \in Nat
  BY <1>3, FS_CardinalityType
<1> QED BY <1>1, <1>4, <1>5, <1>6 DEF WaitsForPending

-----------------------------------------------------------------------------
(* The steps.                                                               *)

\* The parts of the invariant about names and what is waited for.
NamesInv == InOnePlace /\ (\A n \in resolving : addr[n] = None) /\ WaitsForPending

\* A step that neither takes nor adds a counted completion leaves the names alone.
LEMMA NamesUntouched ==
  ASSUME StunTypes, NamesInv, NEW d, NEW add, Moves(d, add), d = 1 => ~Counted(ready[1]),
         \A i \in DOMAIN add : ~Counted(add[i]), UNCHANGED <<addr, resolving, requests, waitFor>>
  PROVE  NamesInv'
<1>1. TakenNames(d) = {} /\ AddedNames(add) = {} BY DEF TakenNames, AddedNames
<1>2. InOnePlace' /\ CountedNames' = CountedNames
  <2>1. ready \in Seq(ReadyOp) BY DEF StunTypes
  <2>2. InOnePlace' /\ CountedNames' = (CountedNames \ TakenNames(d)) \cup AddedNames(add)
    BY <2>1, OnePlaceKept DEF NamesInv, InOnePlace
  <2> QED BY <1>1, <2>2
<1>3. Pending' = Pending /\ Excused' = Excused BY <1>2 DEF Pending, Excused
<1>4. WaitsForPending' BY <1>3, WaitsKept, PendingAreServers DEF NamesInv
<1> QED BY <1>2, <1>4 DEF NamesInv

\* execute() and destroy_requests(): the requests become handlers in the queue.
LEMMA NamesExecuted ==
  ASSUME StunTypes, NamesInv, NEW ns \in SUBSET requests, NEW result \in AnyVerdict, ready # <<>>,
         requests' = requests \ ns, ready' = Tail(ready) \o Posted(ns, result),
         UNCHANGED <<addr, resolving, waitFor>>,
         TakenNames(1) \subseteq ns \cup Excused
  PROVE  NamesInv'
<1> DEFINE add == Posted(ns, result)
<1>0. ready \in Seq(ReadyOp) /\ ns \subseteq Servers BY DEF StunTypes
<1>1. /\ add \in Seq(ReadyOp)
      /\ \A i \in DOMAIN add : add[i].kind = "handler" /\ add[i].name \in ns
      /\ \A n \in ns : \E i \in DOMAIN add : add[i].name = n
      /\ \A i, j \in DOMAIN add : add[i].name = add[j].name => i = j
  BY <1>0, PostedOnceEach
<1>2. Moves(1, add) BY <1>0, <1>1, QueueMoves
<1> HIDE DEF add
<1>3. AddedNames(add) = ns BY <1>1 DEF AddedNames, Counted
<1>4. InOnePlace' /\ CountedNames' = (CountedNames \ TakenNames(1)) \cup AddedNames(add)
  <2>1. resolving' \cap requests' = {} /\ \A n \in ns : n \notin resolving' \cup requests'
    BY DEF NamesInv, InOnePlace
  <2>2. InOnePlace BY DEF NamesInv
  <2>3. \A i \in DOMAIN add : /\ add[i].name \notin resolving' \cup requests'
                               /\ add[i].name \in resolving \cup requests \cup TakenNames(1)
    BY <1>1, <2>1
  <2> HIDE DEF InOnePlace
  <2> QED BY <1>0, <1>1, <1>2, <2>1, <2>2, <2>3, OnePlaceKept
<1>5. Excused' = Excused BY DEF Excused
<1>6. Pending' \subseteq Pending /\ Pending \cup Excused \subseteq Pending' \cup Excused'
  BY <1>3, <1>4, <1>5 DEF Pending
<1>7. WaitsForPending' BY <1>6, WaitsKept, PendingAreServers DEF NamesInv
<1> QED BY <1>4, <1>7 DEF NamesInv

\* A completion of the resolver is a name that is no longer being resolved.
LEMMA NamesResolved ==
  ASSUME StunTypes, NamesInv, NEW n \in Servers, NEW a \in Addresses \cup {None}, Resolve(n, a)
  PROVE  NamesInv'
<1> DEFINE e == Completion("resolved", n)
           add == <<e>>
<1>0. ready \in Seq(ReadyOp) /\ addr \in [Servers -> Addresses \cup {None}] /\ resolving \subseteq Servers
  BY DEF StunTypes
<1>1. e \in ReadyOp /\ e.kind = "resolved" /\ e.name = n BY DEF Completion, ReadyOp
<1>2. ready' = Append(ready, e) /\ n \in resolving /\ resolving' = resolving \ {n}
      /\ UNCHANGED <<requests, waitFor>> /\ addr' = [addr EXCEPT ![n] = a]
  BY DEF Resolve
<1> HIDE DEF e
<1>3. DOMAIN add = {1} /\ add[1] = e OBVIOUS
<1>4. Moves(0, add) BY <1>0, <1>1, <1>2, QueueMoves
<1> HIDE DEF add
<1>5. TakenNames(0) = {} /\ AddedNames(add) = {n} BY <1>1, <1>3 DEF TakenNames, AddedNames, Counted
<1>6. InOnePlace' /\ CountedNames' = (CountedNames \ TakenNames(0)) \cup AddedNames(add)
  <2>1. resolving' \cap requests' = {} /\ n \notin resolving' \cup requests'
    BY <1>2 DEF NamesInv, InOnePlace
  <2> QED BY <1>0, <1>1, <1>2, <1>3, <1>4, <2>1, OnePlaceKept DEF NamesInv
<1>7. Pending' = Pending BY <1>2, <1>5, <1>6 DEF Pending
<1>8. \A m \in Servers \ {n} : addr'[m] = addr[m] BY <1>0, <1>2
<1>9. \A m \in resolving : addr[m] = None BY DEF NamesInv
<1>10. \A m \in resolving' : addr'[m] = None BY <1>0, <1>2, <1>8, <1>9
<1>11. Excused \ {n} \subseteq Excused'
  <2> SUFFICES ASSUME NEW m \in Servers \ {n}, addr[m] # None,
                      NEW r \in Servers \ {m}, addr[r] = addr[m]
               PROVE  \E q \in Servers \ {m} : addr'[q] = addr'[m]
    BY <1>8 DEF Excused
  <2>1. r # n BY <1>2, <1>9
  <2> QED BY <1>8, <2>1
<1>12. WaitsForPending'
  <2>1. n \in Pending BY <1>2 DEF Pending
  <2> QED BY <1>2, <1>7, <1>11, <2>1, WaitsKept, PendingAreServers DEF NamesInv
<1> QED BY <1>6, <1>10, <1>12 DEF NamesInv

\* A name that did not resolve will never come.
LEMMA NamesUnresolved ==
  ASSUME StunTypes, NamesInv, ready # <<>>, Head(ready).kind = "resolved",
         addr[Head(ready).name] = None, ready' = Tail(ready),
         UNCHANGED <<addr, resolving, requests, waitFor>>
  PROVE  NamesInv'
<1> DEFINE n == ready[1].name
<1>0. ready \in Seq(ReadyOp) BY DEF StunTypes
<1>1. Head(ready) = ready[1] /\ 1 \in DOMAIN ready /\ Moves(1, <<>>) BY <1>0, QueueMoves
<1>2. Counted(ready[1]) /\ TakenNames(1) = {n} /\ AddedNames(<<>>) = {}
  BY <1>1 DEF Counted, TakenNames, AddedNames
<1>3. InOnePlace' /\ CountedNames' = (CountedNames \ {n}) \cup {}
  <2>1. InOnePlace' /\ CountedNames' = (CountedNames \ TakenNames(1)) \cup AddedNames(<<>>)
    BY <1>0, <1>1, OnePlaceKept DEF NamesInv, InOnePlace
  <2> QED BY <1>2, <2>1
<1>4. n \in Servers /\ addr[n] = None BY <1>1 DEF StunTypes
<1>5. Excused' = Excused /\ n \in Excused BY <1>4 DEF Excused
<1>6. Pending' \subseteq Pending /\ Pending \cup Excused \subseteq Pending' \cup Excused'
  BY <1>3, <1>5 DEF Pending
<1>7. WaitsForPending' BY <1>6, WaitsKept, PendingAreServers DEF NamesInv
<1> QED BY <1>3, <1>7 DEF NamesInv

\* reflect(): the name that was resolved is being asked.
LEMMA NamesAsked ==
  ASSUME StunTypes, NamesInv, ready # <<>>, Head(ready).kind = "resolved", Reflect(Head(ready).name),
         UNCHANGED <<addr, resolving, waitFor>>
  PROVE  NamesInv'
<1> DEFINE n == ready[1].name
           e == Completion("sent", n)
           add == <<e>>
<1>0. ready \in Seq(ReadyOp) BY DEF StunTypes
<1>1. Head(ready) = ready[1] /\ 1 \in DOMAIN ready BY <1>0, QueueMoves
<1>2. n \in Servers /\ Counted(ready[1]) BY <1>1 DEF StunTypes, Counted
<1>3. e \in ReadyOp /\ e.kind = "sent" BY <1>2 DEF Completion, ReadyOp
<1>4. ready' = Append(Tail(ready), e) /\ requests' = requests \cup {n} BY <1>1 DEF Reflect
<1> HIDE DEF e
<1>5. DOMAIN add = {1} /\ add[1] = e OBVIOUS
<1>6. Moves(1, add) BY <1>0, <1>3, <1>4, QueueMoves
<1> HIDE DEF add
<1>7. TakenNames(1) = {n} /\ AddedNames(add) = {}
  BY <1>2, <1>3, <1>5 DEF TakenNames, AddedNames, Counted
<1>8. InOnePlace' /\ CountedNames' = (CountedNames \ TakenNames(1)) \cup AddedNames(add)
  <2>1. resolving' \cap requests' = {} BY <1>1, <1>2, <1>4 DEF NamesInv, InOnePlace
  <2>2. ~Counted(add[1]) BY <1>3, <1>5 DEF Counted
  <2> QED BY <1>0, <1>4, <1>5, <1>6, <1>7, <2>1, <2>2, OnePlaceKept DEF NamesInv
<1>9. n \in CountedNames BY <1>1, <1>2 DEF CountedNames
<1>10. Pending' = Pending /\ Excused' = Excused BY <1>4, <1>7, <1>8, <1>9 DEF Pending, Excused
<1>11. WaitsForPending' BY <1>10, WaitsKept, PendingAreServers DEF NamesInv
<1> QED BY <1>8, <1>11 DEF NamesInv

\* ~StunClient() appends the cancelled receive, if there is one.
LEMMA DestroyMoves ==
  ASSUME StunTypes, ready # <<>>, Destroy(Tail(ready))
  PROVE  \E add : /\ Moves(1, add)
                  /\ \A i \in DOMAIN add : add[i].kind = "recv"
                  /\ receiving => \E i \in DOMAIN add : add[i].kind = "recv"
<1>0. ready \in Seq(ReadyOp) BY DEF StunTypes
<1>1. Failed \in ReadyOp /\ Failed.kind = "recv"
  BY DEF Failed, ReadyOp, AnyVerdict
<1>2. CASE receiving
  <2>1. ready' = Append(Tail(ready), Failed) BY <1>2 DEF Destroy
  <2> HIDE DEF Failed
  <2>2. Moves(1, <<Failed>>) BY <1>0, <1>1, <2>1, QueueMoves
  <2>3. DOMAIN <<Failed>> = {1} /\ <<Failed>>[1] = Failed OBVIOUS
  <2> DEFINE add == <<Failed>>
  <2> HIDE DEF add
  <2>4. Moves(1, add) /\ DOMAIN add = {1} /\ add[1] = Failed BY <2>2, <2>3 DEF add
  <2> QED BY <1>1, <2>4
<1>3. CASE ~receiving
  <2>1. ready' = Tail(ready) BY <1>3 DEF Destroy
  <2>2. Moves(1, <<>>) BY <1>0, <2>1, QueueMoves
  <2> QED BY <1>3, <2>2
<1> QED BY <1>2, <1>3

\* When the deadline is over, the names that did not resolve will never come.
LEMMA NamesExpired ==
  ASSUME StunTypes, NamesInv, NEW add, Moves(1, add), ~Counted(ready[1]),
         \A i \in DOMAIN add : ~Counted(add[i]), UNCHANGED <<addr, requests, waitFor>>, resolving' = {}
  PROVE  NamesInv'
<1>0. ready \in Seq(ReadyOp) BY DEF StunTypes
<1>1. TakenNames(1) = {} /\ AddedNames(add) = {} BY DEF TakenNames, AddedNames
<1>2. InOnePlace' /\ CountedNames' = (CountedNames \ TakenNames(1)) \cup AddedNames(add)
  BY <1>0, OnePlaceKept DEF NamesInv, InOnePlace
<1>3. Excused' = Excused /\ resolving \subseteq Excused BY DEF NamesInv, Excused, StunTypes
<1>4. Pending' \subseteq Pending /\ Pending \cup Excused \subseteq Pending' \cup Excused'
  BY <1>1, <1>2, <1>3 DEF Pending
<1>5. WaitsForPending' BY <1>4, WaitsKept, PendingAreServers DEF NamesInv
<1> QED BY <1>2, <1>5 DEF NamesInv

\* The handler of a name counts it down; when it was the last one, none is being resolved.
LEMMA NamesFinished ==
  ASSUME StunTypes, NamesInv, NEW add, Moves(1, add), ready[1].kind = "handler", 1 \in DOMAIN ready,
         \A i \in DOMAIN add : ~Counted(add[i]), UNCHANGED <<addr, requests>>, waitFor' = waitFor - 1,
         UNCHANGED resolving \/ (waitFor = 1 /\ resolving' = {})
  PROVE  NamesInv' /\ (waitFor = 1 => Pending' = {})
<1> DEFINE n == ready[1].name
<1>0. ready \in Seq(ReadyOp) BY DEF StunTypes
<1>1. Counted(ready[1]) /\ TakenNames(1) = {n} /\ AddedNames(add) = {}
  BY DEF TakenNames, AddedNames, Counted
<1>2. n \in CountedNames /\ n \in Pending /\ n \notin resolving \cup requests
  BY <1>1 DEF CountedNames, Pending, NamesInv, InOnePlace
<1>3. waitFor = 1 => Pending = {n}
  <2> SUFFICES ASSUME waitFor = 1 PROVE Pending \ {n} = {} BY <1>2
  <2>1. IsFiniteSet(Pending) BY PendingAreServers, ServersAssumption, FS_Subset
  <2>2. /\ IsFiniteSet(Pending \ {n}) /\ Cardinality(Pending \ {n}) = Cardinality(Pending) - 1
        /\ Cardinality(Pending \ {n}) \in Nat
    BY <1>2, <2>1, FS_RemoveElement, FS_CardinalityType
  <2>3. Cardinality(Pending) <= 1 /\ Cardinality(Pending) \in Nat
    BY <2>1, FS_CardinalityType DEF NamesInv, WaitsForPending
  <2> QED BY <2>2, <2>3, FS_EmptySet
<1>4. resolving' = resolving
  <2>1. CASE waitFor = 1 /\ resolving' = {}
    <3>1. resolving \subseteq {n} BY <1>3, <2>1 DEF Pending
    <3> QED BY <1>2, <2>1, <3>1
  <2> QED BY <2>1
<1>5. InOnePlace' /\ CountedNames' = (CountedNames \ TakenNames(1)) \cup AddedNames(add)
  BY <1>0, <1>4, OnePlaceKept DEF NamesInv, InOnePlace
<1>6. Pending' = Pending \ {n} BY <1>1, <1>2, <1>4, <1>5 DEF Pending
<1>7. WaitsForPending' BY <1>2, <1>6, WaitsCountedDown, PendingAreServers DEF NamesInv
<1> QED BY <1>3, <1>4, <1>5, <1>6, <1>7 DEF NamesInv

\* A single completion that joins the queue.
LEMMA OneJoins ==
  ASSUME ready \in Seq(ReadyOp), NEW e \in ReadyOp
  PROVE  /\ ready' = Append(ready, e) => \E add : Moves(0, add) /\ DOMAIN add = {1} /\ add[1] = e
         /\ ready # <<>> /\ ready' = Append(Tail(ready), e) =>
              \E add : Moves(1, add) /\ DOMAIN add = {1} /\ add[1] = e
<1> DEFINE add == <<e>>
<1>1. DOMAIN add = {1} /\ add[1] = e OBVIOUS
<1>2. ready' = Append(ready, e) => Moves(0, add) BY QueueMoves
<1>3. ready # <<>> /\ ready' = Append(Tail(ready), e) => Moves(1, add) BY QueueMoves
<1> HIDE DEF add
<1> QED BY <1>1, <1>2, <1>3

\* While the block runs, it has not ended for any cause.
LEMMA StillRunning == stunOutcome' = "running" => EndsForCause'
BY DEF EndsForCause, FatalNeedsCause

\* An outstanding operation completes.
LEMMA WorldKeeps ==
  ASSUME StunIInv, StunWorld
  PROVE  StunIInv'
<1>0. /\ StunTypes /\ NamesInv /\ RequestsReceived /\ DeadlineOnce /\ TimersCancelled
      /\ ready \in Seq(ReadyOp) /\ stunOutcome = "running"
  BY DEF StunIInv, StunTypes, NamesInv, StunWorld
<1> DEFINE Rest == StunTypes' /\ NamesInv' /\ RequestsReceived' /\ DeadlineOnce' /\ TimersCancelled'
                    /\ UNCHANGED stunOutcome
<1> SUFFICES Rest BY <1>0, StillRunning DEF StunIInv, NamesInv
<1>1. ASSUME NEW n \in Servers, NEW a \in Addresses \cup {None}, Resolve(n, a) PROVE Rest
  <2> DEFINE e == Completion("resolved", n)
  <2>1. e \in ReadyOp /\ e.kind = "resolved" /\ e.name = n BY DEF Completion, ReadyOp
  <2>2. ready' = Append(ready, e) BY <1>1 DEF Resolve
  <2> HIDE DEF e
  <2>3. PICK add : Moves(0, add) /\ DOMAIN add = {1} /\ add[1] = e BY <1>0, <2>1, <2>2, OneJoins
  <2>4. StunTypes'
    <3>1. /\ ready' \in Seq(ReadyOp)
          /\ \A k \in DOMAIN ready' :
               ready'[k].kind \in {"resolved", "sent", "timer"} => ready'[k].name \in Servers
      BY <1>0, <2>1, <2>3, NamesKept
    <3>2. addr' \in [Servers -> Addresses \cup {None}] BY <1>0, <1>1 DEF Resolve, StunTypes
    <3> QED BY <1>0, <1>1, <3>1, <3>2 DEF Resolve, StunTypes
  <2>5. NamesInv' BY <1>0, <1>1, NamesResolved
  <2>6. RequestsReceived'
    <3>1. InReady("recv") => InReady("recv")' BY <1>0, <2>3, KindsKept
    <3> QED BY <1>0, <1>1, <3>1 DEF Resolve, RequestsReceived
  <2>7. DeadlineOnce'
    <3>1. InReady("deadline")' => InReady("deadline") BY <1>0, <2>1, <2>3, KindsKept
    <3> QED BY <1>0, <1>1, <3>1 DEF Resolve, DeadlineOnce
  <2>8. TimersCancelled'
    BY <1>0, <1>1, <2>1, <2>3, TimersKept DEF Resolve
  <2> QED BY <1>1, <2>4, <2>5, <2>6, <2>7, <2>8 DEF Resolve
<1>2. ASSUME NEW n \in Servers, TimerExpires(n) PROVE Rest
  <2> DEFINE e == Completion("timer", n)
  <2>1. e \in ReadyOp /\ e.kind = "timer" /\ e.name = n BY DEF Completion, ReadyOp
  <2>2. ready' = Append(ready, e) /\ n \in armed /\ armed' = armed \ {n}
        /\ UNCHANGED <<addr, resolving, requests, waitFor, raced>>
    BY <1>2 DEF TimerExpires
  <2> HIDE DEF e
  <2>3. PICK add : Moves(0, add) /\ DOMAIN add = {1} /\ add[1] = e BY <1>0, <2>1, <2>2, OneJoins
  <2>4. StunTypes'
    <3>1. /\ ready' \in Seq(ReadyOp)
          /\ \A k \in DOMAIN ready' :
               ready'[k].kind \in {"resolved", "sent", "timer"} => ready'[k].name \in Servers
      BY <1>0, <2>1, <2>3, NamesKept
    <3> QED BY <1>0, <1>2, <3>1 DEF TimerExpires, StunTypes
  <2>5. NamesInv'
    <3>1. ~Counted(add[1]) BY <2>1, <2>3 DEF Counted
    <3> QED BY <1>0, <2>2, <2>3, <3>1, NamesUntouched
  <2>6. RequestsReceived'
    <3>1. InReady("recv") => InReady("recv")' BY <1>0, <2>3, KindsKept
    <3> QED BY <1>0, <1>2, <3>1 DEF TimerExpires, RequestsReceived
  <2>7. DeadlineOnce'
    <3>1. InReady("deadline")' => InReady("deadline") BY <1>0, <2>1, <2>3, KindsKept
    <3> QED BY <1>0, <1>2, <3>1 DEF TimerExpires, DeadlineOnce
  <2>8. TimersCancelled'
    BY <1>0, <2>1, <2>2, <2>3, TimersKept
  <2> QED BY <1>2, <2>4, <2>5, <2>6, <2>7, <2>8 DEF TimerExpires
<1>3. ASSUME DeadlineExpires PROVE Rest
  <2> DEFINE e == Completion("deadline", None)
  <2>1. e \in ReadyOp /\ e.kind = "deadline" BY DEF Completion, ReadyOp
  <2>2. ready' = Append(ready, e) /\ UNCHANGED <<addr, resolving, requests, waitFor, raced, armed>>
    BY <1>3 DEF DeadlineExpires
  <2> HIDE DEF e
  <2>3. PICK add : Moves(0, add) /\ DOMAIN add = {1} /\ add[1] = e BY <1>0, <2>1, <2>2, OneJoins
  <2>4. StunTypes'
    <3>1. /\ ready' \in Seq(ReadyOp)
          /\ \A k \in DOMAIN ready' :
               ready'[k].kind \in {"resolved", "sent", "timer"} => ready'[k].name \in Servers
      BY <1>0, <2>1, <2>3, NamesKept
    <3> QED BY <1>0, <1>3, <3>1 DEF DeadlineExpires, StunTypes
  <2>5. NamesInv'
    <3>1. ~Counted(add[1]) BY <2>1, <2>3 DEF Counted
    <3> QED BY <1>0, <2>2, <2>3, <3>1, NamesUntouched
  <2>6. RequestsReceived'
    <3>1. InReady("recv") => InReady("recv")' BY <1>0, <2>3, KindsKept
    <3> QED BY <1>0, <1>3, <3>1 DEF DeadlineExpires, RequestsReceived
  <2>7. DeadlineOnce' BY <1>3 DEF DeadlineExpires, DeadlineOnce
  <2>8. TimersCancelled'
    BY <1>0, <2>1, <2>2, <2>3, TimersKept
  <2> QED BY <1>3, <2>4, <2>5, <2>6, <2>7, <2>8 DEF DeadlineExpires
<1>4. ASSUME NEW e \in ReadyOp, e.kind = "recv", ready' = Append(ready, e), receiving, receiving' = FALSE,
             UNCHANGED <<addr, resolving, requests, armed, requestCount, alive, waitFor, deadline,
                         stunOutcome, disturbed, raced>>
      PROVE  Rest
  <2>3. PICK add : Moves(0, add) /\ DOMAIN add = {1} /\ add[1] = e BY <1>0, <1>4, OneJoins
  <2>4. StunTypes'
    <3>1. /\ ready' \in Seq(ReadyOp)
          /\ \A k \in DOMAIN ready' :
               ready'[k].kind \in {"resolved", "sent", "timer"} => ready'[k].name \in Servers
      BY <1>0, <1>4, <2>3, NamesKept
    <3> QED BY <1>0, <1>4, <3>1 DEF StunTypes
  <2>5. NamesInv'
    <3>1. ~Counted(add[1]) BY <1>4, <2>3 DEF Counted
    <3> QED BY <1>0, <1>4, <2>3, <3>1, NamesUntouched
  <2>6. RequestsReceived'
    <3>1. InReady("recv")' BY <1>0, <1>4, <2>3, KindsKept
    <3> QED BY <1>0, <1>4, <3>1 DEF RequestsReceived
  <2>7. DeadlineOnce'
    <3>1. InReady("deadline")' => InReady("deadline") BY <1>0, <1>4, <2>3, KindsKept
    <3> QED BY <1>0, <1>4, <3>1 DEF DeadlineOnce
  <2>8. TimersCancelled'
    BY <1>0, <1>4, <2>3, TimersKept
  <2> QED BY <1>4, <2>4, <2>5, <2>6, <2>7, <2>8
<1>5. ASSUME NEW from \in Addresses, NEW verdict \in Verdicts, PacketArrives(from, verdict) PROVE Rest
  <2>1. Received(from, verdict) \in ReadyOp /\ Received(from, verdict).kind = "recv"
    BY VerdictsAssumption DEF Received, ReadyOp, AnyVerdict
  <2> HIDE DEF Received, Rest
  <2> QED BY <1>4, <1>5, <2>1 DEF PacketArrives
<1>6. ASSUME ReceiveFails PROVE Rest
  <2>1. Failed \in ReadyOp /\ Failed.kind = "recv" BY DEF Failed, ReadyOp, AnyVerdict
  <2> HIDE DEF Failed, Rest
  <2> QED BY <1>4, <1>6, <2>1 DEF ReceiveFails
<1> QED BY <1>1, <1>2, <1>3, <1>5, <1>6 DEF StunWorld

\* The block waits as long as anything is pending.
LEMMA PendingIsWaitedFor ==
  ASSUME StunTypes, WaitsForPending, Pending # {}
  PROVE  waitFor # 0
<1>1. IsFiniteSet(Pending) BY PendingAreServers, ServersAssumption, FS_Subset
<1>2. Cardinality(Pending) \in Nat /\ Cardinality(Pending) # 0
  BY <1>1, FS_EmptySet, FS_CardinalityType
<1> QED BY <1>2 DEF WaitsForPending

\* The requests are counted: there is one if the count is not zero, and one less without one.
LEMMA RequestsCounted ==
  ASSUME StunTypes
  PROVE  /\ Cardinality(requests) \in Nat
         /\ requests # {} => Cardinality(requests) > 0
         /\ \A r \in requests : Cardinality(requests \ {r}) = Cardinality(requests) - 1
         /\ \A r \in Servers : Cardinality(requests \cup {r}) <= Cardinality(requests) + 1
<1>1. IsFiniteSet(requests) BY ServersAssumption, FS_Subset DEF StunTypes
<1>2. Cardinality(requests) \in Nat BY <1>1, FS_CardinalityType
<1>3. requests # {} => Cardinality(requests) > 0 BY <1>1, <1>2, FS_EmptySet
<1>4. \A r \in requests : Cardinality(requests \ {r}) = Cardinality(requests) - 1
  BY <1>1, FS_RemoveElement
<1>5. \A r \in Servers : Cardinality(requests \cup {r}) <= Cardinality(requests) + 1
  <2> SUFFICES ASSUME NEW r \in Servers
               PROVE  Cardinality(requests \cup {r}) <= Cardinality(requests) + 1
    OBVIOUS
  <2>1. Cardinality(requests \cup {r}) =
          IF r \in requests THEN Cardinality(requests) ELSE Cardinality(requests) + 1
    BY <1>1, FS_AddElement
  <2> QED BY <1>2, <2>1
<1> QED BY <1>2, <1>3, <1>4, <1>5

\* The parts that execute() and destroy_requests() concern, whoever calls them.
LEMMA ExecuteKeeps ==
  ASSUME StunTypes, NamesInv, TimersCancelled, DeadlineOnce, ready # <<>>,
         NEW ns \in SUBSET requests, NEW result \in AnyVerdict, Execute(ns, result),
         UNCHANGED <<addr, resolving, waitFor, raced, alive, deadline>>, {receiving', disturbed'} \subseteq BOOLEAN,
         TakenNames(1) \subseteq ns \cup Excused
  PROVE  /\ StunTypes' /\ NamesInv' /\ TimersCancelled' /\ DeadlineOnce'
         /\ InReady("recv") /\ Head(ready).kind # "recv" => InReady("recv")'
<1> DEFINE add == Posted(ns, result)
<1>0. ready \in Seq(ReadyOp) /\ ns \subseteq Servers BY DEF StunTypes
<1>1. /\ requests' = requests \ ns /\ armed' = armed \ ns /\ ready' = Tail(ready) \o add
  BY DEF Execute
<1>2. /\ add \in Seq(ReadyOp)
      /\ \A i \in DOMAIN add : add[i].kind = "handler" /\ add[i].name \in ns
      /\ \A n \in ns : \E i \in DOMAIN add : add[i].name = n
      /\ \A i, j \in DOMAIN add : add[i].name = add[j].name => i = j
  BY <1>0, PostedOnceEach
<1>3. Moves(1, add) /\ Head(ready) = ready[1] BY <1>0, <1>1, <1>2, QueueMoves
<1>4. NamesInv' BY <1>1, NamesExecuted
<1> HIDE DEF add
<1>5. StunTypes'
  <2>1. /\ ready' \in Seq(ReadyOp)
        /\ \A k \in DOMAIN ready' :
             ready'[k].kind \in {"resolved", "sent", "timer"} => ready'[k].name \in Servers
    BY <1>2, <1>3, NamesKept
  <2> QED BY <1>1, <2>1 DEF StunTypes
<1>6. TimersCancelled'
  <2>1. \A n \in requests \ requests' : \E j \in DOMAIN add : add[j].kind = "handler" /\ add[j].name = n
    BY <1>1, <1>2
  <2>2. armed \subseteq requests => armed' \subseteq requests' BY <1>1
  <2> QED BY <1>0, <1>2, <1>3, <2>1, <2>2, TimersKept
<1>7. DeadlineOnce'
  <2>1. InReady("deadline")' => InReady("deadline") BY <1>0, <1>2, <1>3, KindsKept
  <2> QED BY <2>1 DEF DeadlineOnce
<1>8. InReady("recv") /\ Head(ready).kind # "recv" => InReady("recv")' BY <1>0, <1>3, KindsKept
<1> QED BY <1>4, <1>5, <1>6, <1>7, <1>8

\* A name has been resolved.
LEMMA OnResolvedKeeps ==
  ASSUME StunIInv, OnResolved
  PROVE  StunIInv'
<1> DEFINE n == ready[1].name
<1>0. /\ StunTypes /\ NamesInv /\ RequestsReceived /\ DeadlineOnce /\ TimersCancelled
      /\ ready \in Seq(ReadyOp) /\ stunOutcome = "running" /\ ready # <<>>
      /\ Head(ready).kind = "resolved"
  BY DEF StunIInv, StunTypes, NamesInv, OnResolved, Runs
<1>1. Head(ready) = ready[1] /\ 1 \in DOMAIN ready BY <1>0, QueueMoves
<1>2. n \in Servers /\ Counted(ready[1]) /\ TakenNames(1) = {n}
  BY <1>0, <1>1 DEF StunTypes, Counted, TakenNames
<1>3. UNCHANGED <<addr, resolving, alive, waitFor, deadline, disturbed, raced>> BY DEF OnResolved
<1>4. ASSUME addr[n] = None, ready' = Tail(ready),
             UNCHANGED <<requests, armed, receiving, requestCount, stunOutcome>>
      PROVE  StunIInv'
  <2>1. NamesInv' BY <1>0, <1>1, <1>3, <1>4, NamesUnresolved
  <2>2. Moves(1, <<>>) BY <1>0, <1>4, QueueMoves
  <2>3. StunTypes'
    <3>1. /\ ready' \in Seq(ReadyOp)
          /\ \A k \in DOMAIN ready' :
               ready'[k].kind \in {"resolved", "sent", "timer"} => ready'[k].name \in Servers
      BY <1>0, <2>2, NamesKept
    <3> QED BY <1>0, <1>3, <1>4, <3>1 DEF StunTypes
  <2>4. RequestsReceived'
    <3>1. InReady("recv") => InReady("recv")' BY <1>0, <1>1, <2>2, KindsKept
    <3> QED BY <1>0, <1>3, <1>4, <3>1 DEF RequestsReceived
  <2>5. DeadlineOnce'
    <3>1. InReady("deadline")' => InReady("deadline") BY <1>0, <2>2, KindsKept
    <3> QED BY <1>0, <1>3, <3>1 DEF DeadlineOnce
  <2>6. TimersCancelled' BY <1>0, <1>3, <1>4, <2>2, TimersKept
  <2> QED BY <1>0, <1>4, <2>1, <2>3, <2>4, <2>5, <2>6, StillRunning DEF StunIInv, NamesInv
<1>5. ASSUME alive, NEW r \in Asked(addr[n]), ReflectAgain(r), UNCHANGED stunOutcome PROVE StunIInv'
  <2>1. r \in requests /\ r \in Servers /\ addr[r] = addr[n] BY <1>0 DEF Asked, StunTypes
  <2>2. TakenNames(1) \subseteq {r} \cup Excused BY <1>2, <2>1 DEF Excused
  <2>3. Error \in AnyVerdict BY DEF Error, AnyVerdict
  <2>4. Execute({r}, Error) /\ UNCHANGED <<receiving, requestCount>> BY <1>5 DEF ReflectAgain
  <2>5. {receiving', disturbed'} \subseteq BOOLEAN BY <1>0, <1>3, <2>4 DEF StunTypes
  <2> HIDE DEF Error
  <2>6. /\ StunTypes' /\ NamesInv' /\ TimersCancelled' /\ DeadlineOnce'
        /\ InReady("recv") /\ Head(ready).kind # "recv" => InReady("recv")'
    BY <1>0, <1>3, <2>1, <2>2, <2>3, <2>4, <2>5, ExecuteKeeps
  <2>7. RequestsReceived'
    <3>1. requests' = requests \ {r} BY <2>4 DEF Execute
    <3>2. /\ Cardinality(requests') = Cardinality(requests) - 1 /\ Cardinality(requests) \in Nat
      BY <1>0, <2>1, <3>1, RequestsCounted
    <3> QED BY <1>0, <1>3, <1>5, <2>4, <2>6, <3>2 DEF RequestsReceived
  <2> QED BY <1>0, <1>5, <2>6, <2>7, StillRunning DEF StunIInv, NamesInv
<1>6. ASSUME alive, Reflect(n), UNCHANGED stunOutcome PROVE StunIInv'
  <2> DEFINE e == Completion("sent", n)
  <2>1. NamesInv' BY <1>0, <1>1, <1>3, <1>6, NamesAsked
  <2>2. e \in ReadyOp /\ e.kind = "sent" /\ e.name = n BY <1>2 DEF Completion, ReadyOp
  <2>3. ready' = Append(Tail(ready), e) /\ requests' = requests \cup {n} /\ UNCHANGED armed
        /\ requestCount' = requestCount + 1 /\ receiving' = (receiving \/ requestCount = 0)
    BY <1>6 DEF Reflect
  <2> HIDE DEF e
  <2>4. PICK add : Moves(1, add) /\ DOMAIN add = {1} /\ add[1] = e BY <1>0, <2>2, <2>3, OneJoins
  <2>5. StunTypes'
    <3>1. /\ ready' \in Seq(ReadyOp)
          /\ \A k \in DOMAIN ready' :
               ready'[k].kind \in {"resolved", "sent", "timer"} => ready'[k].name \in Servers
      BY <1>0, <1>2, <2>2, <2>4, NamesKept
    <3> QED BY <1>0, <1>2, <1>3, <2>3, <3>1 DEF StunTypes
  <2>6. RequestsReceived'
    <3>1. InReady("recv") => InReady("recv")' BY <1>0, <1>1, <2>4, KindsKept
    <3>2. Cardinality(requests') <= Cardinality(requests) + 1 /\ Cardinality(requests) \in Nat
          /\ Cardinality(requests') \in Nat
      <4>1. requests' \subseteq Servers BY <2>5 DEF StunTypes
      <4>2. Cardinality(requests') \in Nat BY <4>1, ServersAssumption, FS_Subset, FS_CardinalityType
      <4> QED BY <1>0, <1>2, <2>3, <4>2, RequestsCounted
    <3>3. disturbed' = disturbed /\ alive' = alive BY <1>3
    <3>4. requestCount \in Int /\ requestCount' \in Int BY <1>0, <2>3 DEF RequestsReceived
    <3>5. ~disturbed => requestCount' >= Cardinality(requests') /\ requestCount >= 0
      BY <1>0, <1>6, <2>3, <3>2, <3>4 DEF RequestsReceived
    <3>6. ~disturbed => receiving' \/ InReady("recv")'
      <4>1. CASE requestCount = 0 BY <2>3, <4>1
      <4>2. CASE receiving BY <2>3, <4>2
      <4>3. ~disturbed /\ requestCount # 0 => receiving \/ InReady("recv")
        BY <1>0, <1>6, <3>4, <3>5 DEF RequestsReceived
      <4> QED BY <3>1, <4>1, <4>2, <4>3
    <3> QED BY <1>6, <3>3, <3>4, <3>5, <3>6 DEF RequestsReceived
  <2>7. DeadlineOnce'
    <3>1. InReady("deadline")' => InReady("deadline") BY <1>0, <2>2, <2>4, KindsKept
    <3> QED BY <1>0, <1>3, <3>1 DEF DeadlineOnce
  <2>8. TimersCancelled' BY <1>0, <1>3, <2>2, <2>3, <2>4, TimersKept
  <2> QED BY <1>0, <1>6, <2>1, <2>5, <2>6, <2>7, <2>8, StillRunning DEF StunIInv, NamesInv
<1>7. ASSUME ~alive, stunOutcome' = "undefined",
             UNCHANGED <<requests, armed, receiving, requestCount, ready>>
      PROVE  StunIInv'
  <2>1. Pending # {} BY <1>1, <1>2 DEF Pending, CountedNames
  <2>2. waitFor # 0 BY <1>0, <2>1, PendingIsWaitedFor DEF NamesInv
  <2>3. EndsForCause' BY <1>3, <1>7, <2>2 DEF EndsForCause, FatalNeedsCause
  <2>4. StunTypes' BY <1>0, <1>3, <1>7 DEF StunTypes
  <2>5. NamesInv'
    BY <1>0, <1>3, <1>7 DEF NamesInv, InOnePlace, WaitsForPending, Pending, CountedNames, Counted, Excused
  <2>6. RequestsReceived' /\ DeadlineOnce' /\ TimersCancelled'
    BY <1>0, <1>3, <1>7 DEF RequestsReceived, DeadlineOnce, TimersCancelled, InReady
  <2> QED BY <2>3, <2>4, <2>5, <2>6 DEF StunIInv, NamesInv
<1> QED BY <1>1, <1>4, <1>5, <1>6, <1>7 DEF OnResolved

\* A request has been sent, or its timer has expired.
LEMMA OnSentKeeps ==
  ASSUME StunIInv, OnSent \/ OnTimer
  PROVE  StunIInv'
<1> DEFINE n == ready[1].name
<1>0. /\ StunTypes /\ NamesInv /\ RequestsReceived /\ DeadlineOnce /\ TimersCancelled
      /\ ready \in Seq(ReadyOp) /\ stunOutcome = "running" /\ ready # <<>>
      /\ Head(ready).kind \in {"sent", "timer"}
  BY DEF StunIInv, StunTypes, NamesInv, OnSent, OnTimer, Runs
<1>1. Head(ready) = ready[1] /\ 1 \in DOMAIN ready BY <1>0, QueueMoves
<1>2. n \in Servers /\ ~Counted(ready[1]) BY <1>0, <1>1 DEF StunTypes, Counted
<1>3. ASSUME ~alive, Dangling PROVE StunIInv'
  <2>1. raced \/ Pending # {}
    BY <1>0, <1>1, SMTT(30) DEF TimersCancelled, Pending, CountedNames, Counted
  <2>2. raced \/ waitFor # 0 BY <1>0, <2>1, PendingIsWaitedFor DEF NamesInv
  <2>3. UNCHANGED stunLocals /\ stunOutcome' = "undefined" BY <1>3 DEF Dangling
  <2>4. EndsForCause' BY <1>3, <2>2, <2>3 DEF EndsForCause, FatalNeedsCause, stunLocals
  <2>5. StunTypes' BY <1>0, <2>3 DEF StunTypes, stunLocals
  <2>6. NamesInv'
    BY <1>0, <2>3 DEF NamesInv, InOnePlace, WaitsForPending, Pending, CountedNames, Counted, Excused,
                      stunLocals
  <2>7. RequestsReceived' /\ DeadlineOnce' /\ TimersCancelled'
    BY <1>0, <2>3 DEF RequestsReceived, DeadlineOnce, TimersCancelled, InReady, stunLocals
  <2> QED BY <2>4, <2>5, <2>6, <2>7 DEF StunIInv, NamesInv
<1>4. ASSUME NEW add, Moves(1, add), \A i \in DOMAIN add : add[i].kind = "sent" /\ add[i].name = n,
             raced' = (raced \/ n \notin requests), armed' \in {armed, armed \cup {n}},
             UNCHANGED <<addr, resolving, requests, receiving, requestCount, alive, waitFor,
                         deadline, stunOutcome, disturbed>>
      PROVE  StunIInv'
  <2>1. NamesInv'
    <3>1. \A i \in DOMAIN add : ~Counted(add[i]) BY <1>4 DEF Counted
    <3> QED BY <1>0, <1>2, <1>4, <3>1, NamesUntouched
  <2>2. StunTypes'
    <3>1. /\ ready' \in Seq(ReadyOp)
          /\ \A k \in DOMAIN ready' :
               ready'[k].kind \in {"resolved", "sent", "timer"} => ready'[k].name \in Servers
      BY <1>0, <1>2, <1>4, NamesKept
    <3>2. armed' \subseteq Servers BY <1>0, <1>2, <1>4 DEF StunTypes
    <3> QED BY <1>0, <1>4, <3>1, <3>2 DEF StunTypes
  <2>3. RequestsReceived'
    <3>1. InReady("recv") => InReady("recv")' BY <1>0, <1>1, <1>4, KindsKept
    <3> QED BY <1>0, <1>4, <3>1 DEF RequestsReceived
  <2>4. DeadlineOnce'
    <3>1. InReady("deadline")' => InReady("deadline") BY <1>0, <1>4, KindsKept
    <3> QED BY <1>0, <1>4, <3>1 DEF DeadlineOnce
  <2>5. TimersCancelled'
    <3>1. ~raced' => ~raced /\ n \in requests BY <1>4
    <3> QED BY <1>0, <1>4, <3>1, TimersKept
  <2> QED BY <1>0, <1>4, <2>1, <2>2, <2>3, <2>4, <2>5, StillRunning DEF StunIInv, NamesInv
<1>5. CASE OnSent
  <2>1. CASE ~alive /\ Dangling BY <1>3, <2>1
  <2>2. CASE alive
    <3>1. ready' = Tail(ready) /\ armed' = armed \cup {n} /\ raced' = (raced \/ n \notin requests)
          /\ UNCHANGED <<addr, resolving, requests, receiving, requestCount, alive, waitFor,
                         deadline, stunOutcome, disturbed>>
      BY <1>1, <1>5, <2>2 DEF OnSent
    <3>2. Moves(1, <<>>) BY <1>0, <3>1, QueueMoves
    <3> QED BY <1>4, <3>1, <3>2
  <2> QED BY <1>5, <2>1, <2>2 DEF OnSent
<1>6. CASE OnTimer
  <2>1. CASE ~alive /\ Dangling BY <1>3, <2>1
  <2>2. CASE alive
    <3> DEFINE e == Completion("sent", n)
    <3>1. ready' = Append(Tail(ready), e) /\ armed' = armed /\ raced' = (raced \/ n \notin requests)
          /\ UNCHANGED <<addr, resolving, requests, receiving, requestCount, alive, waitFor,
                         deadline, stunOutcome, disturbed>>
      BY <1>1, <1>6, <2>2 DEF OnTimer
    <3>2. e \in ReadyOp /\ e.kind = "sent" /\ e.name = n BY <1>2 DEF Completion, ReadyOp
    <3> HIDE DEF e
    <3>3. PICK add : Moves(1, add) /\ DOMAIN add = {1} /\ add[1] = e BY <1>0, <3>1, <3>2, OneJoins
    <3>4. \A i \in DOMAIN add : add[i].kind = "sent" /\ add[i].name = n BY <3>2, <3>3
    <3> QED BY <1>4, <3>1, <3>3, <3>4
  <2> QED BY <1>6, <2>1, <2>2 DEF OnTimer
<1> QED BY <1>5, <1>6

\* A packet has been received, or a receive has failed.
LEMMA OnRecvKeeps ==
  ASSUME StunIInv, OnRecv
  PROVE  StunIInv'
<1> DEFINE e == ready[1]
<1>0. /\ StunTypes /\ NamesInv /\ RequestsReceived /\ DeadlineOnce /\ TimersCancelled
      /\ ready \in Seq(ReadyOp) /\ stunOutcome = "running" /\ ready # <<>>
      /\ Head(ready).kind = "recv"
  BY DEF StunIInv, StunTypes, NamesInv, OnRecv, Runs
<1>1. Head(ready) = e /\ 1 \in DOMAIN ready BY <1>0, QueueMoves
<1>2. ~Counted(e) /\ TakenNames(1) = {} BY <1>0, <1>1 DEF Counted, TakenNames
<1>3. UNCHANGED <<addr, resolving, alive, waitFor, deadline, raced>> BY DEF OnRecv
<1>4. e.verdict \in AnyVerdict
  <2>1. e \in ReadyOp /\ e.kind = "recv" BY <1>0, <1>1
  <2> QED BY <2>1 DEF ReadyOp
<1>5. ASSUME DestroyRequests, UNCHANGED disturbed \/ disturbed' = TRUE, alive => disturbed' = TRUE
      PROVE  StunIInv'
  <2>1. Error \in AnyVerdict BY DEF Error, AnyVerdict
  <2>2. Execute(requests, Error) /\ UNCHANGED <<receiving, requestCount, stunOutcome>>
    BY <1>5 DEF DestroyRequests
  <2>3. {receiving', disturbed'} \subseteq BOOLEAN BY <1>0, <1>5, <2>2 DEF StunTypes
  <2> HIDE DEF Error
  <2>4. StunTypes' /\ NamesInv' /\ TimersCancelled' /\ DeadlineOnce'
    BY <1>0, <1>2, <1>3, <2>1, <2>2, <2>3, ExecuteKeeps
  <2>5. requests' = {} BY <2>2 DEF Execute
  <2>6. RequestsReceived' BY <1>0, <1>3, <1>5, <2>2, <2>5 DEF RequestsReceived
  <2> QED BY <1>0, <2>2, <2>4, <2>6, StillRunning DEF StunIInv, NamesInv
<1>6. ASSUME ready' = Tail(ready), UNCHANGED <<requests, armed, stunOutcome>>,
             {receiving', disturbed'} \subseteq BOOLEAN, RequestsReceived'
      PROVE  StunIInv'
  <2>1. Moves(1, <<>>) BY <1>0, <1>6, QueueMoves
  <2>2. NamesInv' BY <1>0, <1>2, <1>3, <1>6, <2>1, NamesUntouched
  <2>3. StunTypes'
    <3>1. /\ ready' \in Seq(ReadyOp)
          /\ \A k \in DOMAIN ready' :
               ready'[k].kind \in {"resolved", "sent", "timer"} => ready'[k].name \in Servers
      BY <1>0, <2>1, NamesKept
    <3> QED BY <1>0, <1>3, <1>6, <3>1 DEF StunTypes
  <2>4. DeadlineOnce'
    <3>1. InReady("deadline")' => InReady("deadline") BY <1>0, <2>1, KindsKept
    <3> QED BY <1>0, <1>3, <3>1 DEF DeadlineOnce
  <2>5. TimersCancelled' BY <1>0, <1>3, <1>6, <2>1, TimersKept
  <2> QED BY <1>0, <1>6, <2>2, <2>3, <2>4, <2>5, StillRunning DEF StunIInv, NamesInv
<1>7. ASSUME alive, KeepReceiving PROVE StunIInv'
  <2>1. /\ receiving' = TRUE /\ ready' = Tail(ready)
        /\ UNCHANGED <<requests, armed, requestCount, disturbed, stunOutcome>>
    BY <1>7 DEF KeepReceiving
  <2>2. RequestsReceived' BY <1>0, <1>3, <1>7, <2>1 DEF RequestsReceived
  <2>3. {receiving', disturbed'} \subseteq BOOLEAN BY <1>0, <2>1 DEF StunTypes
  <2> QED BY <1>6, <2>1, <2>2, <2>3
<1>8. ASSUME alive, NEW r \in Asked(e.from), Execute({r}, e.verdict), CountDown,
             UNCHANGED <<disturbed, stunOutcome>>
      PROVE  StunIInv'
  <2>1. r \in requests BY DEF Asked
  <2>2. requestCount' = requestCount - 1 /\ receiving' = (requestCount # 1) BY <1>8 DEF CountDown
  <2>3. {receiving', disturbed'} \subseteq BOOLEAN BY <1>0, <1>8, <2>2 DEF StunTypes
  <2>4. StunTypes' /\ NamesInv' /\ TimersCancelled' /\ DeadlineOnce'
    BY <1>0, <1>2, <1>3, <1>4, <1>8, <2>1, <2>3, ExecuteKeeps
  <2>5. RequestsReceived'
    <3>1. requests' = requests \ {r} BY <1>8 DEF Execute
    <3>2. /\ Cardinality(requests') = Cardinality(requests) - 1 /\ Cardinality(requests) \in Nat
      BY <1>0, <2>1, <3>1, RequestsCounted
    <3>3. requestCount \in Int /\ requestCount' \in Int BY <1>0, <2>2 DEF RequestsReceived
    <3>4. ~disturbed => requestCount' >= Cardinality(requests')
      BY <1>0, <1>8, <2>2, <3>2, <3>3 DEF RequestsReceived
    <3>5. requestCount' > 0 => receiving'
      <4>1. requestCount' > 0 => requestCount # 1 BY <2>2, <3>3
      <4> QED BY <2>2, <4>1
    <3> QED BY <1>3, <1>8, <3>3, <3>4, <3>5 DEF RequestsReceived
  <2> QED BY <1>0, <1>8, <2>4, <2>5, StillRunning DEF StunIInv, NamesInv
<1>9. ASSUME alive, ready' = Tail(ready), CountDown, disturbed' = TRUE,
             UNCHANGED <<requests, armed, stunOutcome>>
      PROVE  StunIInv'
  <2>1. requestCount' = requestCount - 1 /\ receiving' = (requestCount # 1) BY <1>9 DEF CountDown
  <2>2. requestCount' \in Int BY <1>0, <2>1 DEF RequestsReceived
  <2>3. RequestsReceived' BY <1>3, <1>9, <2>2 DEF RequestsReceived
  <2>4. {receiving', disturbed'} \subseteq BOOLEAN BY <1>9, <2>1
  <2> QED BY <1>6, <1>9, <2>3, <2>4
<1>10. ASSUME alive, stunOutcome' = "fatal", disturbed' = TRUE,
              UNCHANGED <<requests, armed, ready, requestCount, receiving>>
       PROVE  StunIInv'
  <2>1. EndsForCause' BY <1>10 DEF EndsForCause, FatalNeedsCause
  <2>2. StunTypes' BY <1>0, <1>3, <1>10 DEF StunTypes
  <2>3. NamesInv'
    BY <1>0, <1>3, <1>10 DEF NamesInv, InOnePlace, WaitsForPending, Pending, CountedNames, Counted, Excused
  <2>4. RequestsReceived' /\ DeadlineOnce' /\ TimersCancelled'
    BY <1>0, <1>3, <1>10 DEF RequestsReceived, DeadlineOnce, TimersCancelled, InReady
  <2> QED BY <2>1, <2>2, <2>3, <2>4 DEF StunIInv, NamesInv
<1>11. CASE ~alive /\ DestroyRequests /\ UNCHANGED disturbed BY <1>5, <1>11
<1>12. CASE alive /\ DestroyRequests /\ disturbed' = TRUE BY <1>5, <1>12
<1>13. CASE alive /\ OnReply(e.from, e.verdict)
  BY <1>7, <1>8, <1>9, <1>10, <1>13 DEF OnReply
<1> QED BY <1>1, <1>11, <1>12, <1>13 DEF OnRecv

\* ~StunClient(): the requests that are left will be answered by the cancelled receive.
LEMMA DestroyKeeps ==
  ASSUME StunTypes, RequestsReceived, TimersCancelled, ready # <<>>, Head(ready).kind # "recv",
         Destroy(Tail(ready)), NEW add, Moves(1, add), \A i \in DOMAIN add : add[i].kind = "recv",
         receiving => \E i \in DOMAIN add : add[i].kind = "recv",
         UNCHANGED <<addr, requests, requestCount, disturbed, raced>>, resolving' \subseteq Servers,
         deadline' \in BOOLEAN
  PROVE  StunTypes' /\ RequestsReceived' /\ TimersCancelled'
<1>0. ready \in Seq(ReadyOp) BY DEF StunTypes
<1>1. Head(ready) = ready[1] BY <1>0, QueueMoves
<1>2. alive' = FALSE /\ receiving' = FALSE /\ armed' \subseteq armed BY DEF Destroy
<1>3. StunTypes'
  <2>1. /\ ready' \in Seq(ReadyOp)
        /\ \A k \in DOMAIN ready' :
             ready'[k].kind \in {"resolved", "sent", "timer"} => ready'[k].name \in Servers
    BY NamesKept
  <2> QED BY <1>2, <2>1 DEF StunTypes
<1>4. RequestsReceived'
  <2>1. InReady("recv") => InReady("recv")' BY <1>0, <1>1, KindsKept
  <2>2. receiving => InReady("recv")' BY <1>0, KindsKept
  <2>3. ~disturbed /\ requests # {} => receiving \/ InReady("recv")
    <3>1. requests # {} => Cardinality(requests) > 0 /\ Cardinality(requests) \in Nat
      BY RequestsCounted
    <3> QED BY <3>1 DEF RequestsReceived
  <2> QED BY <1>2, <2>1, <2>2, <2>3 DEF RequestsReceived
<1>5. TimersCancelled' BY <1>0, <1>2, TimersKept
<1> QED BY <1>3, <1>4, <1>5

\* The 15 seconds are over.
LEMMA OnDeadlineKeeps ==
  ASSUME StunIInv, OnDeadline
  PROVE  StunIInv'
<1>0. /\ StunTypes /\ NamesInv /\ RequestsReceived /\ DeadlineOnce /\ TimersCancelled
      /\ ready \in Seq(ReadyOp) /\ stunOutcome = "running" /\ ready # <<>>
      /\ Head(ready).kind = "deadline"
  BY DEF StunIInv, StunTypes, NamesInv, OnDeadline, Runs
<1>1. Head(ready) = ready[1] /\ 1 \in DOMAIN ready BY <1>0, QueueMoves
<1>2. /\ Destroy(Tail(ready)) /\ resolving' = {}
      /\ UNCHANGED <<addr, requests, requestCount, waitFor, deadline, stunOutcome, disturbed, raced>>
  BY DEF OnDeadline
<1>3. PICK add : /\ Moves(1, add)
                 /\ \A i \in DOMAIN add : add[i].kind = "recv"
                 /\ receiving => \E i \in DOMAIN add : add[i].kind = "recv"
  BY <1>0, <1>2, DestroyMoves
<1>4. StunTypes' /\ RequestsReceived' /\ TimersCancelled'
  <2>1. deadline' \in BOOLEAN BY <1>0, <1>2 DEF StunTypes
  <2> QED BY <1>0, <1>2, <1>3, <2>1, DestroyKeeps
<1>5. NamesInv'
  <2>1. ~Counted(ready[1]) /\ \A i \in DOMAIN add : ~Counted(add[i]) BY <1>0, <1>1, <1>3 DEF Counted
  <2> QED BY <1>0, <1>2, <1>3, <2>1, NamesExpired
<1>6. DeadlineOnce'
  <2>1. InReady("deadline") BY <1>0, <1>1 DEF InReady
  <2> QED BY <1>0, <1>2, <2>1 DEF DeadlineOnce
<1> QED BY <1>0, <1>2, <1>4, <1>5, <1>6, StillRunning DEF StunIInv, NamesInv

\* The handler of a request runs.
LEMMA OnFinishedKeeps ==
  ASSUME StunIInv, OnFinished
  PROVE  StunIInv'
<1>0. /\ StunTypes /\ NamesInv /\ RequestsReceived /\ DeadlineOnce /\ TimersCancelled
      /\ ready \in Seq(ReadyOp) /\ stunOutcome = "running" /\ ready # <<>>
      /\ Head(ready).kind = "handler"
  BY DEF StunIInv, StunTypes, NamesInv, OnFinished, Runs
<1>1. Head(ready) = ready[1] /\ 1 \in DOMAIN ready BY <1>0, QueueMoves
<1>2. /\ waitFor' = waitFor - 1
      /\ UNCHANGED <<addr, requests, requestCount, stunOutcome, disturbed, raced>>
  BY DEF OnFinished
<1>3. CASE waitFor = 1
  <2>1. Destroy(Tail(ready)) /\ resolving' = {} /\ deadline' = FALSE BY <1>3 DEF OnFinished
  <2>2. PICK add : /\ Moves(1, add)
                   /\ \A i \in DOMAIN add : add[i].kind = "recv"
                   /\ receiving => \E i \in DOMAIN add : add[i].kind = "recv"
    BY <1>0, <2>1, DestroyMoves
  <2>3. StunTypes' /\ RequestsReceived' /\ TimersCancelled'
    BY <1>0, <1>2, <2>1, <2>2, DestroyKeeps
  <2>4. NamesInv'
    <3>1. \A i \in DOMAIN add : ~Counted(add[i]) BY <2>2 DEF Counted
    <3> QED BY <1>0, <1>1, <1>2, <1>3, <2>1, <2>2, <3>1, NamesFinished
  <2>5. DeadlineOnce' BY <2>1 DEF DeadlineOnce
  <2> QED BY <1>0, <1>2, <2>3, <2>4, <2>5, StillRunning DEF StunIInv, NamesInv
<1>4. CASE waitFor # 1
  <2>1. ready' = Tail(ready) /\ UNCHANGED <<alive, armed, receiving, resolving, deadline>>
    BY <1>4 DEF OnFinished
  <2>2. Moves(1, <<>>) BY <1>0, <2>1, QueueMoves
  <2>3. NamesInv' BY <1>0, <1>1, <1>2, <2>1, <2>2, NamesFinished
  <2>4. StunTypes'
    <3>1. /\ ready' \in Seq(ReadyOp)
          /\ \A k \in DOMAIN ready' :
               ready'[k].kind \in {"resolved", "sent", "timer"} => ready'[k].name \in Servers
      BY <1>0, <2>2, NamesKept
    <3> QED BY <1>0, <1>2, <2>1, <3>1 DEF StunTypes
  <2>5. RequestsReceived'
    <3>1. InReady("recv") => InReady("recv")' BY <1>0, <1>1, <2>2, KindsKept
    <3> QED BY <1>0, <1>2, <2>1, <3>1 DEF RequestsReceived
  <2>6. DeadlineOnce'
    <3>1. InReady("deadline")' => InReady("deadline") BY <1>0, <2>2, KindsKept
    <3> QED BY <1>0, <2>1, <3>1 DEF DeadlineOnce
  <2>7. TimersCancelled' BY <1>0, <1>2, <2>1, <2>2, TimersKept
  <2> QED BY <1>0, <1>2, <2>3, <2>4, <2>5, <2>6, <2>7, StillRunning DEF StunIInv, NamesInv
<1> QED BY <1>3, <1>4

\* The block's variables are right when it is entered,
LEMMA StunStarts ==
  ASSUME StunLocalsInit, stunOutcome \notin {"fatal", "undefined"}
  PROVE  StunIInv
<1>0. DOMAIN ready = {} /\ ready \in Seq(ReadyOp) BY DEF StunLocalsInit
<1>1. CountedNames = {} BY <1>0 DEF CountedNames
<1>2. Pending = Servers /\ Pending \cup Excused = Servers
  BY <1>1 DEF Pending, Excused, StunLocalsInit
<1>3. Cardinality(Servers) \in Nat BY ServersAssumption, FS_CardinalityType
<1>4. WaitsForPending
  <2>1. waitFor = Cardinality(Servers) BY DEF StunLocalsInit
  <2>2. Cardinality(Pending) = Cardinality(Servers) BY <1>2
  <2>3. Cardinality(Pending \cup Excused) = Cardinality(Servers) BY <1>2
  <2> QED BY <1>3, <2>1, <2>2, <2>3 DEF WaitsForPending
<1>5. InOnePlace /\ \A n \in resolving : addr[n] = None BY <1>0 DEF InOnePlace, StunLocalsInit
<1>6. StunTypes BY <1>0 DEF StunTypes, StunLocalsInit
<1>7. RequestsReceived BY FS_EmptySet DEF RequestsReceived, StunLocalsInit
<1>8. DeadlineOnce /\ TimersCancelled
  BY <1>0 DEF DeadlineOnce, TimersCancelled, InReady, StunLocalsInit
<1>9. EndsForCause BY DEF EndsForCause, FatalNeedsCause
<1> QED BY <1>4, <1>5, <1>6, <1>7, <1>8, <1>9 DEF StunIInv

\* and when it is entered again.
LEMMA StunStartsAgain ==
  ASSUME StunLocalsReset, stunOutcome' \notin {"fatal", "undefined"}
  PROVE  StunIInv'
<1>0. DOMAIN ready' = {} /\ ready' \in Seq(ReadyOp) BY DEF StunLocalsReset
<1>1. CountedNames' = {} BY <1>0 DEF CountedNames
<1>2. Pending' = Servers /\ Pending' \cup Excused' = Servers
  BY <1>1 DEF Pending, Excused, StunLocalsReset
<1>3. Cardinality(Servers) \in Nat BY ServersAssumption, FS_CardinalityType
<1>4. WaitsForPending'
  <2>1. waitFor' = Cardinality(Servers) BY DEF StunLocalsReset
  <2>2. Cardinality(Pending') = Cardinality(Servers) BY <1>2
  <2>3. Cardinality(Pending' \cup Excused') = Cardinality(Servers) BY <1>2
  <2> QED BY <1>3, <2>1, <2>2, <2>3 DEF WaitsForPending
<1>5. InOnePlace' /\ \A n \in resolving' : addr'[n] = None BY <1>0 DEF InOnePlace, StunLocalsReset
<1>6. StunTypes' BY <1>0 DEF StunTypes, StunLocalsReset
<1>7. RequestsReceived' BY FS_EmptySet DEF RequestsReceived, StunLocalsReset
<1>8. DeadlineOnce' /\ TimersCancelled'
  BY <1>0 DEF DeadlineOnce, TimersCancelled, InReady, StunLocalsReset
<1>9. EndsForCause' BY DEF EndsForCause, FatalNeedsCause
<1> QED BY <1>4, <1>5, <1>6, <1>7, <1>8, <1>9 DEF StunIInv

\* Only the outcome of the block and its variables count.
LEMMA StunUnchanged ==
  ASSUME StunIInv, UNCHANGED stunLocals, UNCHANGED stunOutcome \/ stunOutcome' = "ok" \/ EndsForCause'
  PROVE  StunIInv'
<1>1. StunTypes' BY DEF StunIInv, StunTypes, stunLocals
<1>2. NamesInv'
  BY DEF StunIInv, NamesInv, InOnePlace, WaitsForPending, Pending, CountedNames, Counted, Excused, stunLocals
<1>3. RequestsReceived' /\ DeadlineOnce' /\ TimersCancelled'
  BY DEF StunIInv, RequestsReceived, DeadlineOnce, TimersCancelled, InReady, stunLocals
<1>4. EndsForCause' BY DEF StunIInv, EndsForCause, FatalNeedsCause, stunLocals
<1> QED BY <1>1, <1>2, <1>3, <1>4 DEF StunIInv, NamesInv

\* ios.run() returns: if wait_for is not zero, some name never had to come.
LEMMA StunReturnsKeeps ==
  ASSUME StunIInv, StunReturns
  PROVE  StunIInv'
<1>0. ready = <<>> /\ resolving = {} /\ ~receiving BY DEF StunReturns
<1>1. CASE stunOutcome' = "ok" /\ StunLocalsReset BY <1>1, StunStartsAgain
<1>2. CASE waitFor # 0 /\ stunOutcome' = "fatal" /\ UNCHANGED stunLocals
  <2>1. disturbed \/ Excused # {}
    <3> SUFFICES ASSUME ~disturbed, Excused = {} PROVE FALSE OBVIOUS
    <3>1. DOMAIN ready = {} /\ ~InReady("recv") /\ CountedNames = {}
      BY <1>0 DEF InReady, CountedNames
    <3>2. requests = {}
      <4>1. requests # {} => Cardinality(requests) > 0 /\ Cardinality(requests) \in Nat
        BY RequestsCounted DEF StunIInv
      <4> QED BY <1>0, <3>1, <4>1 DEF StunIInv, RequestsReceived
    <3>3. Pending = {} /\ Pending \cup Excused = {} BY <1>0, <3>1, <3>2 DEF Pending
    <3>4. waitFor = 0 BY <3>3, FS_EmptySet DEF StunIInv, WaitsForPending
    <3> QED BY <1>2, <3>4
  <2>2. \/ disturbed
        \/ \E n \in Servers : addr[n] = None
        \/ \E n, r \in Servers : n # r /\ addr[n] = addr[r]
    BY <2>1 DEF Excused
  <2>3. EndsForCause' BY <1>2, <2>2 DEF EndsForCause, FatalNeedsCause, stunLocals
  <2> QED BY <1>2, <2>3, StunUnchanged
<1> QED BY <1>1, <1>2 DEF StunReturns

\* No step of the block breaks the invariant.
LEMMA StunStepKeeps == StunIInv /\ StunNext => StunIInv'
BY WorldKeeps, OnResolvedKeeps, OnSentKeeps, OnRecvKeeps, OnDeadlineKeeps, OnFinishedKeeps,
   StunReturnsKeeps DEF StunNext, StunRun

-----------------------------------------------------------------------------
(* The results.                                                             *)

\* What the invariant is for: a request in the map is being listened for, and the block only ends
\* badly for one of the reasons that are known.
LEMMA StunIsSafe == StunIInv => NobodyForgotten /\ FatalNeedsCause /\ UndefinedNeedsRace
<1> SUFFICES ASSUME StunIInv PROVE NobodyForgotten /\ FatalNeedsCause /\ UndefinedNeedsRace OBVIOUS
<1>1. requests # {} => Cardinality(requests) > 0 /\ Cardinality(requests) \in Nat
  BY RequestsCounted DEF StunIInv
<1>2. NobodyForgotten BY <1>1 DEF StunIInv, RequestsReceived, NobodyForgotten, InReady
<1>3. FatalNeedsCause BY DEF StunIInv, EndsForCause
<1>4. UndefinedNeedsRace BY DEF StunIInv, EndsForCause, DeadlineOnce, UndefinedNeedsRace
<1> QED BY <1>2, <1>3, <1>4

\* The STUN block by itself, for any number of servers and any packets: it forgets nobody, gives up
\* only for a cause, and uses the destroyed client only behind one of the two races.
THEOREM StunBlockIsSafe == StunSpec => [](NobodyForgotten /\ FatalNeedsCause /\ UndefinedNeedsRace)
<1>1. StunInit => StunIInv BY StunStarts DEF StunInit
<1>2. StunIInv /\ [StunNext]_stunVars => StunIInv'
  <2>1. StunIInv /\ UNCHANGED stunVars => StunIInv' BY StunUnchanged DEF stunVars
  <2> QED BY <2>1, StunStepKeeps
<1> QED BY <1>1, <1>2, StunIsSafe, PTL DEF StunSpec
=============================================================================
