------------------------------- MODULE Lobby -------------------------------
(***************************************************************************)
(* peer/SingleGameServer and the part of peer/MyPeer that talks to it: a   *)
(* host or a guest registers, posts its endpoints, polls until the game is *)
(* ready, sets up the peers it is told of, and then asks once more for its *)
(* position.  The HTTP server has one thread, so a request is one step;    *)
(* the peers' requests interleave.                                         *)
(***************************************************************************)
EXTENDS Integers, FiniteSets

CONSTANTS Peer,          \* the peers' ids, in their order
          Host,
          NumPlayers,
          Ips,           \* Ips[p]: getMyIps() of p
          GameName, NoName,
          Restarters     \* the peers whose process may be started again, once

ASSUME LobbyAssumption == Peer \subseteq Nat /\ Host \in Peer /\ NumPlayers \in Nat /\ GameName # NoName

VARIABLES
  peerData,      \* the endpoints of every registered peer
  gameName,
  died,          \* the server reached a LOGFATAL
  stage,         \* how far each peer's calls are
  view,          \* what checkForEndpoints() was told: the peers, their endpoints and the name
  position,
  restarted

vars == <<peerData, gameName, died, stage, view, position, restarted>>

NoView == [peers |-> {}, endpoints |-> {}, gameName |-> NoName]

\* The server registers its host; the peers' constructors have fetched the game id and the host id.
Init ==
  /\ peerData = [p \in {Host} |-> {}]
  /\ gameName = NoName
  /\ died = FALSE
  /\ stage = [p \in Peer |-> "constructed"]
  /\ view = [p \in Peer |-> NoView]
  /\ position = [p \in Peer |-> -1]
  /\ restarted = {}

Registered == DOMAIN peerData

\* p's next request to the server, which answers it if it is still alive.
Calls(p, at) == ~died /\ stage[p] = at

\* POST /api/host
HostGame ==
  /\ Calls(Host, "constructed")
  /\ gameName' = GameName
  /\ stage' = [stage EXCEPT ![Host] = "registered"]
  /\ UNCHANGED <<peerData, died, view, position, restarted>>

\* Wrong variant: a guest takes part in the game only once it has posted its endpoints.
JoinUnlisted(p) ==
  /\ p # Host
  /\ Calls(p, "constructed")
  /\ stage' = [stage EXCEPT ![p] = "registered"]
  /\ UNCHANGED <<peerData, gameName, died, view, position, restarted>>

\* POST /api/join
Join(p) ==
  /\ p # Host
  /\ Calls(p, "constructed")
  /\ died' = (p \in Registered)
  /\ peerData' = [q \in Registered \cup {p} |-> IF q = p THEN {} ELSE peerData[q]]
  /\ stage' = [stage EXCEPT ![p] = "registered"]
  /\ UNCHANGED <<gameName, view, position, restarted>>

\* An endpoint that another peer has is dropped; endpoints are never taken back.
SetPeerEndpoints(p, endpoints) ==
  LET others == UNION {peerData[q] : q \in Registered \ {p}}
  IN peerData' = [q \in Registered |-> IF q = p THEN peerData[q] \cup (endpoints \ others)
                                       ELSE peerData[q]]

\* start(): POST /api/update_endpoints
UpdateEndpoints(p) ==
  /\ Calls(p, "registered")
  /\ SetPeerEndpoints(p, Ips[p])
  /\ stage' = [stage EXCEPT ![p] = "polling"]
  /\ UNCHANGED <<gameName, died, view, position, restarted>>

\* Wrong variant: the game is ready when enough peers have registered.
ReadyWithoutEndpoints == Cardinality(Registered) >= NumPlayers

\* "ready" of GET /api/get_game_info
Ready == /\ Cardinality(Registered) >= NumPlayers
         /\ \A p \in Registered : peerData[p] # {}

\* checkForEndpoints(), when the game is ready; otherwise it asks again a second later.
CheckForEndpoints(p) ==
  /\ Calls(p, "polling")
  /\ Ready
  /\ view' = [view EXCEPT ![p] = [peers |-> Registered, gameName |-> gameName,
                                  endpoints |-> {<<q, peerData[q]>> : q \in Registered}]]
  /\ stage' = [stage EXCEPT ![p] = "setUp"]
  /\ UNCHANGED <<peerData, gameName, died, position, restarted>>

\* Wrong variant: the host takes its place in the order like everyone else.
PlaceInOrder(p) == Cardinality({q \in Registered : q < p})

PlaceOf(p) == IF p = Host THEN 0 ELSE 1 + Cardinality({q \in Registered \ {Host} : q < p})

\* getInitialPosition(): a second GET.
GetInitialPosition(p) ==
  /\ Calls(p, "setUp")
  /\ position' = [position EXCEPT ![p] = PlaceOf(p)]
  /\ stage' = [stage EXCEPT ![p] = "placed"]
  /\ UNCHANGED <<peerData, gameName, died, view, restarted>>

\* The peer's process starts anew: its state is lost, the server's is not.
Restart(p) ==
  /\ p \in Restarters \ restarted
  /\ stage[p] # "constructed"
  /\ restarted' = restarted \cup {p}
  /\ stage' = [stage EXCEPT ![p] = "constructed"]
  /\ view' = [view EXCEPT ![p] = NoView]
  /\ position' = [position EXCEPT ![p] = -1]
  /\ UNCHANGED <<peerData, gameName, died>>

Next == \/ HostGame
        \/ \E p \in Peer : Join(p)
        \/ \E p \in Peer : UpdateEndpoints(p)
        \/ \E p \in Peer : CheckForEndpoints(p)
        \/ \E p \in Peer : GetInitialPosition(p)
        \/ \E p \in Peer : Restart(p)

Spec == Init /\ [][Next]_vars

\* Every peer goes on with its calls, and polls.
FairSpec == /\ Spec
            /\ WF_vars(HostGame)
            /\ \A p \in Peer : WF_vars(\/ Join(p) \/ UpdateEndpoints(p) \/ CheckForEndpoints(p)
                                       \/ GetInitialPosition(p))

-----------------------------------------------------------------------------
(* Properties.                                                              *)

IsSetUp(p) == stage[p] \in {"setUp", "placed"}

\* All peers that have been set up know the same peers, with the same endpoints, and the name
\* the host gave the game; none of them has no endpoint (MultiEndpointHandler would die).
ViewsAgree ==
  \A p, q \in Peer : IsSetUp(p) /\ IsSetUp(q) =>
    /\ view[p] = view[q]
    /\ view[p].gameName = GameName
    /\ \A e \in view[p].endpoints : e[2] # {}

\* No two players have the same position, and the host is the first one.
PositionsDistinct ==
  /\ \A p, q \in Peer : p # q /\ position[p] # -1 => position[p] # position[q]
  /\ position[Host] \in {-1, 0}

\* Everyone gets into the game.
EveryoneIsPlaced == \A p \in Peer : <>(stage[p] = "placed")

-----------------------------------------------------------------------------
(* The inductive invariant, in parts.                                       *)

\* The lobby admits as many peers as ask; the players must be all of them.
NobodyElseJoins == IsFiniteSet(Peer) /\ Cardinality(Peer) <= NumPlayers

Stages == {"constructed", "registered", "polling", "setUp", "placed"}

TypeOK ==
  /\ Registered \subseteq Peer /\ Host \in Registered
  /\ peerData = [p \in Registered |-> peerData[p]]
  /\ died \in BOOLEAN
  /\ stage \in [Peer -> Stages]
  /\ view = [p \in Peer |-> view[p]]
  /\ position \in [Peer -> Int]

\* A peer that is past its registration is registered.
RegisteredFirst == \A p \in Peer : stage[p] # "constructed" => p \in Registered

\* The game has its name before the host's endpoints are there.
NamedFirst == stage[Host] # "constructed" \/ peerData[Host] # {} => gameName = GameName

AllEndpoints == UNION {peerData[p] : p \in Registered}

\* A peer that posts its endpoints again adds nothing, while the server lives.
PostedOnce == ~died => \A p \in Registered : peerData[p] # {} => Ips[p] \subseteq AllEndpoints

\* What get_game_info tells of the peers.
GameInfo == [peers |-> Registered, gameName |-> gameName,
             endpoints |-> {<<p, peerData[p]>> : p \in Registered}]

\* What a peer was told when it was set up is still so, while the server lives.
ViewsCurrent == ~died => \A p \in Peer : IsSetUp(p) => Ready /\ view[p] = GameInfo

\* A position is the place among all the players.
FinalPlace(p) == IF p = Host THEN 0 ELSE 1 + Cardinality({q \in Peer \ {Host} : q < p})
PlacesFinal == \A p \in Peer : position[p] \in {-1, FinalPlace(p)}

IInv == /\ NobodyElseJoins /\ TypeOK /\ RegisteredFirst /\ NamedFirst /\ PostedOnce
        /\ ViewsCurrent /\ ViewsAgree /\ PlacesFinal
=============================================================================
