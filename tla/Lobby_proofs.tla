----------------------------- MODULE Lobby_proofs -----------------------------
(***************************************************************************)
(* Proofs about Lobby, for any peers, addresses and restarts, when the     *)
(* game waits for all the peers there are: everyone is told the same, and  *)
(* everyone gets a position of its own.                                    *)
(***************************************************************************)
EXTENDS Lobby, FiniteSetTheorems, TLAPS

USE DEF Registered

-----------------------------------------------------------------------------
(* The operators.                                                           *)

\* When the game is ready, all peers are registered and have endpoints.
LEMMA ReadyMeansAll ==
  ASSUME NobodyElseJoins, TypeOK, Ready
  PROVE  Registered = Peer /\ \A p \in Peer : peerData[p] # {}
<1>1. Registered \subseteq Peer /\ IsFiniteSet(Peer) BY DEF TypeOK, NobodyElseJoins
<1>2. Cardinality(Peer) <= Cardinality(Registered)
  <2>1. IsFiniteSet(Registered) BY <1>1, FS_Subset
  <2>2. Cardinality(Registered) \in Nat /\ Cardinality(Peer) \in Nat
    BY <1>1, <2>1, FS_CardinalityType
  <2> QED BY <2>2, LobbyAssumption DEF NobodyElseJoins, Ready
<1>3. Registered = Peer
  <2>1. /\ Cardinality(Registered) <= Cardinality(Peer)
        /\ Cardinality(Peer) = Cardinality(Registered) => Peer = Registered
    BY <1>1, FS_Subset
  <2>2. Cardinality(Registered) \in Nat /\ Cardinality(Peer) \in Nat
    BY <1>1, FS_Subset, FS_CardinalityType
  <2> QED BY <1>2, <2>1, <2>2
<1> QED BY <1>3 DEF Ready

\* The places among all the players are distinct.
LEMMA PlacesDistinct ==
  ASSUME NobodyElseJoins, NEW p \in Peer, NEW q \in Peer, p # q
  PROVE  FinalPlace(p) \in Nat /\ FinalPlace(p) # FinalPlace(q)
<1> DEFINE Before(k) == {j \in Peer \ {Host} : j < k}
<1>1. \A k \in Peer : IsFiniteSet(Before(k)) /\ Cardinality(Before(k)) \in Nat
  BY FS_Subset, FS_CardinalityType DEF NobodyElseJoins
<1>2. ASSUME NEW j \in Peer \ {Host}, NEW k \in Peer, j < k
      PROVE  Cardinality(Before(j)) # Cardinality(Before(k))
  <2>1. j \in Nat /\ k \in Nat /\ \A i \in Peer : i \in Nat BY LobbyAssumption
  <2>2. ASSUME NEW i \in Before(j) PROVE i \in Before(k)
    <3>1. i \in Peer \ {Host} /\ i \in Nat /\ i < j BY <2>1
    <3> QED BY <1>2, <2>1, <3>1
  <2>3. j \in Before(k) /\ j \notin Before(j) BY <1>2, <2>1
  <2>4. Before(j) \in SUBSET Before(k) /\ Before(j) # Before(k) BY <2>2, <2>3
  <2> HIDE DEF Before
  <2> QED BY <1>1, <2>4, FS_Subset
<1>3. p \in Nat /\ q \in Nat BY LobbyAssumption
<1> HIDE DEF Before
<1>4. \A k \in Peer : FinalPlace(k) = IF k = Host THEN 0 ELSE 1 + Cardinality(Before(k))
  BY DEF FinalPlace, Before
<1>5. CASE p = Host \/ q = Host BY <1>1, <1>4, <1>5
<1>6. CASE p # Host /\ q # Host
  <2>1. Cardinality(Before(p)) # Cardinality(Before(q)) BY <1>2, <1>3, <1>6
  <2> QED BY <1>1, <1>4, <1>6, <2>1
<1> QED BY <1>5, <1>6

\* What setPeerEndpoints() does to the set of all endpoints.
LEMMA EndpointsGrow ==
  ASSUME TypeOK, NEW p \in Registered, NEW S, SetPeerEndpoints(p, S)
  PROVE  /\ Registered' = Registered
         /\ peerData' = [q \in Registered |-> peerData'[q]]
         /\ \A q \in Registered \ {p} : peerData'[q] = peerData[q]
         /\ peerData[p] \subseteq peerData'[p]
         /\ AllEndpoints' = AllEndpoints \cup S
         /\ S \subseteq AllEndpoints => peerData' = peerData
<1> DEFINE others == UNION {peerData[q] : q \in Registered \ {p}}
<1>1. peerData' = [q \in Registered |-> IF q = p THEN peerData[q] \cup (S \ others)
                                        ELSE peerData[q]]
  BY DEF SetPeerEndpoints
<1>2. AllEndpoints = others \cup peerData[p] BY DEF AllEndpoints
<1>3. AllEndpoints' = others \cup peerData'[p]
  BY <1>1 DEF AllEndpoints
<1>4. AllEndpoints' = AllEndpoints \cup S BY <1>1, <1>2, <1>3
<1>5. ASSUME S \subseteq AllEndpoints PROVE peerData' = peerData
  <2>1. peerData[p] \cup (S \ others) = peerData[p] BY <1>2, <1>5
  <2>2. \A q \in Registered : peerData'[q] = peerData[q] BY <1>1, <2>1
  <2> QED BY <1>1, <2>2 DEF TypeOK
<1> QED BY <1>1, <1>4, <1>5

-----------------------------------------------------------------------------
(* The invariant.                                                           *)

\* The server starts with its host, and nobody has been told anything.
LEMMA InitHolds == NobodyElseJoins /\ Init => IInv
<1> SUFFICES ASSUME NobodyElseJoins, Init PROVE IInv OBVIOUS
<1> USE LobbyAssumption DEF Init
<1>1. TypeOK
  <2>1. Registered = {Host} /\ peerData = [p \in Registered |-> peerData[p]] OBVIOUS
  <2>2. died \in BOOLEAN OBVIOUS
  <2>3. stage \in [Peer -> Stages] BY DEF Stages
  <2>4. view = [p \in Peer |-> view[p]] OBVIOUS
  <2>5. position \in [Peer -> Int] OBVIOUS
  <2> QED BY <2>1, <2>2, <2>3, <2>4, <2>5 DEF TypeOK
<1>2. RegisteredFirst /\ NamedFirst BY DEF RegisteredFirst, NamedFirst
<1>3. PostedOnce BY DEF PostedOnce
<1>4. ViewsCurrent /\ ViewsAgree BY DEF ViewsCurrent, ViewsAgree, IsSetUp
<1>5. PlacesFinal BY DEF PlacesFinal
<1> QED BY <1>1, <1>2, <1>3, <1>4, <1>5 DEF IInv

\* The other parts do not depend on the constants' assumption; it is the same in every state.
LEMMA PlayersStay == NobodyElseJoins => NobodyElseJoins'
BY DEF NobodyElseJoins

\* POST /api/host: when somebody has been told the name, it is the same name again.
LEMMA HostGameStep == IInv /\ HostGame => IInv'
<1> SUFFICES ASSUME IInv, HostGame PROVE IInv' OBVIOUS
<1>0. /\ NobodyElseJoins /\ TypeOK /\ RegisteredFirst /\ NamedFirst /\ PostedOnce
      /\ ViewsCurrent /\ ViewsAgree /\ PlacesFinal
  BY DEF IInv
<1>1. /\ gameName' = GameName /\ stage' = [stage EXCEPT ![Host] = "registered"]
      /\ UNCHANGED <<peerData, died, view, position, restarted>> /\ Host \in Peer
  BY LobbyAssumption DEF HostGame
<1>2. TypeOK' BY <1>0, <1>1 DEF TypeOK, Stages
<1>3. RegisteredFirst' BY <1>0, <1>1 DEF RegisteredFirst, TypeOK
<1>4. NamedFirst' BY <1>1 DEF NamedFirst
<1>5. PostedOnce' BY <1>0, <1>1 DEF PostedOnce, AllEndpoints
<1>6. \A p \in Peer : IsSetUp(p)' => IsSetUp(p) BY <1>0, <1>1 DEF IsSetUp, TypeOK
<1>7. ViewsCurrent'
  <2> SUFFICES ASSUME ~died, NEW p \in Peer, IsSetUp(p)' PROVE Ready' /\ view'[p] = GameInfo'
    BY <1>1 DEF ViewsCurrent
  <2>1. Ready /\ view[p] = GameInfo BY <1>0, <1>6 DEF ViewsCurrent
  <2>2. gameName = GameName BY <1>0, <2>1 DEF Ready, NamedFirst, TypeOK
  <2> QED BY <1>1, <2>1, <2>2 DEF Ready, GameInfo
<1>8. ViewsAgree' BY <1>0, <1>1, <1>6 DEF ViewsAgree
<1>9. PlacesFinal' BY <1>0, <1>1 DEF PlacesFinal, FinalPlace
<1> QED BY <1>0, <1>2, <1>3, <1>4, <1>5, <1>7, <1>8, <1>9, PlayersStay DEF IInv

\* POST /api/join: a new peer finds nobody set up; one that is registered already ends the server.
LEMMA JoinStep == ASSUME NEW p \in Peer PROVE IInv /\ Join(p) => IInv'
<1> SUFFICES ASSUME IInv, Join(p) PROVE IInv' OBVIOUS
<1>0. /\ NobodyElseJoins /\ TypeOK /\ RegisteredFirst /\ NamedFirst /\ PostedOnce
      /\ ViewsCurrent /\ ViewsAgree /\ PlacesFinal
  BY DEF IInv
<1>1. /\ p # Host /\ ~died /\ died' = (p \in Registered)
      /\ peerData' = [q \in Registered \cup {p} |-> IF q = p THEN {} ELSE peerData[q]]
      /\ stage' = [stage EXCEPT ![p] = "registered"]
      /\ UNCHANGED <<gameName, view, position, restarted>>
  BY DEF Join, Calls
<1>2. TypeOK' BY <1>0, <1>1 DEF TypeOK, Stages
<1>3. RegisteredFirst' BY <1>0, <1>1 DEF RegisteredFirst, TypeOK
<1>4. NamedFirst'
  <2>1. peerData'[Host] = peerData[Host] /\ stage'[Host] = stage[Host]
    BY <1>0, <1>1 DEF TypeOK
  <2> QED BY <1>0, <1>1, <2>1 DEF NamedFirst
<1>5. PostedOnce'
  <2> SUFFICES ASSUME p \notin Registered, NEW q \in Registered', peerData'[q] # {}
               PROVE  Ips[q] \subseteq AllEndpoints'
    BY <1>1 DEF PostedOnce
  <2>1. q \in Registered /\ peerData'[q] = peerData[q] BY <1>1
  <2>2. Ips[q] \subseteq AllEndpoints BY <1>0, <1>1, <2>1 DEF PostedOnce
  <2>3. AllEndpoints \subseteq AllEndpoints' BY <1>1 DEF AllEndpoints
  <2> QED BY <2>2, <2>3
<1>6. \A q \in Peer : IsSetUp(q)' => IsSetUp(q) BY <1>0, <1>1 DEF IsSetUp, TypeOK
<1>7. ViewsCurrent'
  <2> SUFFICES ASSUME p \notin Registered, NEW q \in Peer, IsSetUp(q)' PROVE FALSE
    BY <1>1 DEF ViewsCurrent
  <2>1. Ready BY <1>0, <1>1, <1>6 DEF ViewsCurrent
  <2> QED BY <1>0, <2>1, ReadyMeansAll
<1>8. ViewsAgree' BY <1>0, <1>1, <1>6 DEF ViewsAgree
<1>9. PlacesFinal' BY <1>0, <1>1 DEF PlacesFinal, FinalPlace
<1> QED BY <1>0, <1>2, <1>3, <1>4, <1>5, <1>7, <1>8, <1>9, PlayersStay DEF IInv

\* POST /api/update_endpoints: once somebody is set up, everyone has posted, and a peer that
\* posts again adds nothing.
LEMMA UpdateEndpointsStep == ASSUME NEW p \in Peer PROVE IInv /\ UpdateEndpoints(p) => IInv'
<1> SUFFICES ASSUME IInv, UpdateEndpoints(p) PROVE IInv' OBVIOUS
<1>0. /\ NobodyElseJoins /\ TypeOK /\ RegisteredFirst /\ NamedFirst /\ PostedOnce
      /\ ViewsCurrent /\ ViewsAgree /\ PlacesFinal
  BY DEF IInv
<1>1. /\ ~died /\ stage[p] = "registered" /\ SetPeerEndpoints(p, Ips[p])
      /\ stage' = [stage EXCEPT ![p] = "polling"]
      /\ UNCHANGED <<gameName, died, view, position, restarted>>
  BY DEF UpdateEndpoints, Calls
<1>2. p \in Registered BY <1>0, <1>1 DEF RegisteredFirst
<1>3. /\ Registered' = Registered
      /\ peerData' = [q \in Registered |-> peerData'[q]]
      /\ \A q \in Registered \ {p} : peerData'[q] = peerData[q]
      /\ AllEndpoints' = AllEndpoints \cup Ips[p]
      /\ Ips[p] \subseteq AllEndpoints => peerData' = peerData
  BY <1>0, <1>1, <1>2, EndpointsGrow
<1>4. TypeOK' BY <1>0, <1>1, <1>3 DEF TypeOK, Stages
<1>5. RegisteredFirst' BY <1>0, <1>1, <1>2, <1>3 DEF RegisteredFirst, TypeOK
<1>6. NamedFirst'
  <2>1. CASE p = Host BY <1>0, <1>1, <2>1 DEF NamedFirst
  <2>2. CASE p # Host
    <3>1. peerData'[Host] = peerData[Host] /\ stage'[Host] = stage[Host]
      BY <1>0, <1>1, <1>3, <2>2, LobbyAssumption DEF TypeOK
    <3> QED BY <1>0, <1>1, <3>1 DEF NamedFirst
  <2> QED BY <2>1, <2>2
<1>7. PostedOnce'
  <2> SUFFICES ASSUME NEW q \in Registered, peerData'[q] # {} PROVE Ips[q] \subseteq AllEndpoints'
    BY <1>3 DEF PostedOnce
  <2>1. CASE q = p BY <1>3, <2>1
  <2>2. CASE q # p BY <1>0, <1>1, <1>3, <2>2 DEF PostedOnce
  <2> QED BY <2>1, <2>2
<1>8. \A q \in Peer : IsSetUp(q)' => IsSetUp(q) BY <1>0, <1>1 DEF IsSetUp, TypeOK
<1>9. ViewsCurrent'
  <2> SUFFICES ASSUME NEW q \in Peer, IsSetUp(q)' PROVE Ready' /\ view'[q] = GameInfo'
    BY DEF ViewsCurrent
  <2>1. Ready /\ view[q] = GameInfo BY <1>0, <1>1, <1>8 DEF ViewsCurrent
  <2>2. peerData[p] # {} BY <1>0, <2>1, ReadyMeansAll
  <2>3. peerData' = peerData BY <1>0, <1>1, <1>2, <1>3, <2>2 DEF PostedOnce
  <2> QED BY <1>1, <2>1, <2>3 DEF Ready, GameInfo
<1>10. ViewsAgree' BY <1>0, <1>1, <1>8 DEF ViewsAgree
<1>11. PlacesFinal' BY <1>0, <1>1 DEF PlacesFinal, FinalPlace
<1> QED BY <1>0, <1>4, <1>5, <1>6, <1>7, <1>9, <1>10, <1>11, PlayersStay DEF IInv

\* checkForEndpoints(): the peer is told what the others were told.
LEMMA CheckForEndpointsStep == ASSUME NEW p \in Peer PROVE IInv /\ CheckForEndpoints(p) => IInv'
<1> SUFFICES ASSUME IInv, CheckForEndpoints(p) PROVE IInv' OBVIOUS
<1>0. /\ NobodyElseJoins /\ TypeOK /\ RegisteredFirst /\ NamedFirst /\ PostedOnce
      /\ ViewsCurrent /\ ViewsAgree /\ PlacesFinal
  BY DEF IInv
<1>1. /\ ~died /\ stage[p] = "polling" /\ Ready
      /\ view' = [view EXCEPT ![p] = GameInfo]
      /\ stage' = [stage EXCEPT ![p] = "setUp"]
      /\ UNCHANGED <<peerData, gameName, died, position, restarted>>
  BY DEF CheckForEndpoints, Calls, GameInfo
<1>2. TypeOK'
  <2>1. view' = [q \in Peer |-> view'[q]] BY <1>0, <1>1 DEF TypeOK
  <2> QED BY <1>0, <1>1, <2>1 DEF TypeOK, Stages
<1>3. RegisteredFirst' BY <1>0, <1>1 DEF RegisteredFirst, TypeOK
<1>4. NamedFirst'
  <2>1. stage'[Host] # "constructed" => stage[Host] # "constructed" BY <1>0, <1>1 DEF TypeOK
  <2> QED BY <1>0, <1>1, <2>1 DEF NamedFirst
<1>5. PostedOnce' BY <1>0, <1>1 DEF PostedOnce, AllEndpoints
<1>6. GameInfo' = GameInfo /\ Ready' BY <1>1 DEF GameInfo, Ready
<1>7. \A q \in Peer : IsSetUp(q)' => view'[q] = GameInfo
  <2> SUFFICES ASSUME NEW q \in Peer, IsSetUp(q)' PROVE view'[q] = GameInfo OBVIOUS
  <2>1. CASE q = p
    <3>1. p \in DOMAIN view BY <1>0 DEF TypeOK
    <3> QED BY <1>1, <2>1, <3>1
  <2>2. CASE q # p
    <3>1. IsSetUp(q) /\ view'[q] = view[q] BY <1>0, <1>1, <2>2 DEF IsSetUp, TypeOK
    <3> QED BY <1>0, <1>1, <3>1 DEF ViewsCurrent
  <2> QED BY <2>1, <2>2
<1>8. ViewsCurrent' BY <1>6, <1>7 DEF ViewsCurrent
<1>9. ViewsAgree'
  <2>1. GameInfo.gameName = GameName BY <1>0, <1>1 DEF Ready, NamedFirst, TypeOK, GameInfo
  <2>2. \A e \in GameInfo.endpoints : e[2] # {} BY <1>1 DEF Ready, GameInfo
  <2> QED BY <1>7, <2>1, <2>2 DEF ViewsAgree
<1>10. PlacesFinal' BY <1>0, <1>1 DEF PlacesFinal, FinalPlace
<1> QED BY <1>0, <1>2, <1>3, <1>4, <1>5, <1>8, <1>9, <1>10, PlayersStay DEF IInv

\* getInitialPosition(): a peer that is set up finds everyone registered.
LEMMA GetInitialPositionStep == ASSUME NEW p \in Peer PROVE IInv /\ GetInitialPosition(p) => IInv'
<1> SUFFICES ASSUME IInv, GetInitialPosition(p) PROVE IInv' OBVIOUS
<1>0. /\ NobodyElseJoins /\ TypeOK /\ RegisteredFirst /\ NamedFirst /\ PostedOnce
      /\ ViewsCurrent /\ ViewsAgree /\ PlacesFinal
  BY DEF IInv
<1>1. /\ ~died /\ stage[p] = "setUp" /\ position' = [position EXCEPT ![p] = PlaceOf(p)]
      /\ stage' = [stage EXCEPT ![p] = "placed"]
      /\ UNCHANGED <<peerData, gameName, died, view, restarted>>
  BY DEF GetInitialPosition, Calls
<1>2. PlaceOf(p) = FinalPlace(p)
  <2>1. Ready BY <1>0, <1>1 DEF ViewsCurrent, IsSetUp
  <2>2. Registered = Peer BY <1>0, <2>1, ReadyMeansAll
  <2> QED BY <2>2 DEF PlaceOf, FinalPlace
<1>3. FinalPlace(p) \in Int
  <2>1. IsFiniteSet({q \in Peer \ {Host} : q < p}) BY <1>0, FS_Subset DEF NobodyElseJoins
  <2>2. Cardinality({q \in Peer \ {Host} : q < p}) \in Nat BY <2>1, FS_CardinalityType
  <2> QED BY <2>2 DEF FinalPlace
<1>4. TypeOK' BY <1>0, <1>1, <1>2, <1>3 DEF TypeOK, Stages
<1>5. RegisteredFirst' BY <1>0, <1>1 DEF RegisteredFirst, TypeOK
<1>6. NamedFirst'
  <2>1. stage'[Host] # "constructed" => stage[Host] # "constructed" BY <1>0, <1>1 DEF TypeOK
  <2> QED BY <1>0, <1>1, <2>1 DEF NamedFirst
<1>7. PostedOnce' BY <1>0, <1>1 DEF PostedOnce, AllEndpoints
<1>8. \A q \in Peer : IsSetUp(q)' => IsSetUp(q) BY <1>0, <1>1 DEF IsSetUp, TypeOK
<1>9. ViewsCurrent' BY <1>0, <1>1, <1>8 DEF ViewsCurrent, Ready, GameInfo
<1>10. ViewsAgree' BY <1>0, <1>1, <1>8 DEF ViewsAgree
<1>11. PlacesFinal'
  <2>1. \A q \in Peer : position'[q] \in {-1, FinalPlace(q)}
    BY <1>0, <1>1, <1>2 DEF PlacesFinal, TypeOK
  <2> QED BY <2>1 DEF PlacesFinal, FinalPlace
<1> QED BY <1>0, <1>4, <1>5, <1>6, <1>7, <1>9, <1>10, <1>11, PlayersStay DEF IInv

\* A process that starts anew forgets what it was told; the server does not.
LEMMA RestartStep == ASSUME NEW p \in Peer PROVE IInv /\ Restart(p) => IInv'
<1> SUFFICES ASSUME IInv, Restart(p) PROVE IInv' OBVIOUS
<1>0. /\ NobodyElseJoins /\ TypeOK /\ RegisteredFirst /\ NamedFirst /\ PostedOnce
      /\ ViewsCurrent /\ ViewsAgree /\ PlacesFinal
  BY DEF IInv
<1>1. /\ stage' = [stage EXCEPT ![p] = "constructed"]
      /\ view' = [view EXCEPT ![p] = NoView] /\ position' = [position EXCEPT ![p] = -1]
      /\ UNCHANGED <<peerData, gameName, died>>
  BY DEF Restart
<1>2. TypeOK'
  <2>1. view' = [q \in Peer |-> view'[q]] BY <1>0, <1>1 DEF TypeOK
  <2> QED BY <1>0, <1>1, <2>1 DEF TypeOK, Stages
<1>3. RegisteredFirst' BY <1>0, <1>1 DEF RegisteredFirst, TypeOK
<1>4. NamedFirst'
  <2>1. stage'[Host] # "constructed" => stage[Host] # "constructed" BY <1>0, <1>1 DEF TypeOK
  <2> QED BY <1>0, <1>1, <2>1 DEF NamedFirst
<1>5. PostedOnce' BY <1>0, <1>1 DEF PostedOnce, AllEndpoints
<1>6. \A q \in Peer : IsSetUp(q)' => IsSetUp(q) /\ view'[q] = view[q]
  BY <1>0, <1>1 DEF IsSetUp, TypeOK
<1>7. ViewsCurrent' BY <1>0, <1>1, <1>6 DEF ViewsCurrent, Ready, GameInfo
<1>8. ViewsAgree' BY <1>0, <1>6 DEF ViewsAgree
<1>9. PlacesFinal' BY <1>0, <1>1 DEF PlacesFinal, FinalPlace, TypeOK
<1> QED BY <1>0, <1>2, <1>3, <1>4, <1>5, <1>7, <1>8, <1>9, PlayersStay DEF IInv

\* A step that changes nothing keeps the invariant.
LEMMA StutterStep == IInv /\ UNCHANGED vars => IInv'
BY PlayersStay DEF IInv, vars, TypeOK, RegisteredFirst, NamedFirst, PostedOnce, AllEndpoints,
   ViewsCurrent, ViewsAgree, IsSetUp, Ready, GameInfo, PlacesFinal, FinalPlace

\* The invariant holds in every behaviour of a game for all the peers there are.
THEOREM Invariance == NobodyElseJoins /\ Spec => []IInv
<1>1. IInv /\ [Next]_vars => IInv'
  BY HostGameStep, JoinStep, UpdateEndpointsStep, CheckForEndpointsStep, GetInitialPositionStep,
     RestartStep, StutterStep DEF Next
<1> QED BY <1>1, InitHolds, PTL DEF Spec

-----------------------------------------------------------------------------
(* The results.                                                             *)

\* Whatever the order of the peers' calls, whoever restarts and whichever addresses collide, the
\* peers that have been set up were all told the same.
THEOREM EveryoneIsToldTheSame == NobodyElseJoins /\ Spec => []ViewsAgree
BY Invariance, PTL DEF IInv

\* Whatever the order of the peers' calls and whoever restarts, no two players get the same
\* position, and the host gets the first one.
THEOREM EveryoneHasItsPlace == NobodyElseJoins /\ Spec => []PositionsDistinct
<1>1. IInv => PositionsDistinct
  <2> SUFFICES ASSUME IInv PROVE PositionsDistinct OBVIOUS
  <2>1. NobodyElseJoins /\ \A p \in Peer : position[p] \in {-1, FinalPlace(p)}
    BY DEF IInv, PlacesFinal
  <2>2. ASSUME NEW p \in Peer, NEW q \in Peer, p # q, position[p] # -1
        PROVE  position[p] # position[q]
    <3>1. FinalPlace(p) \in Nat /\ FinalPlace(p) # FinalPlace(q) BY <2>1, <2>2, PlacesDistinct
    <3> QED BY <2>1, <2>2, <3>1
  <2>3. position[Host] \in {-1, 0} BY <2>1, LobbyAssumption DEF FinalPlace
  <2> QED BY <2>2, <2>3 DEF PositionsDistinct
<1> QED BY <1>1, Invariance, PTL
=============================================================================
