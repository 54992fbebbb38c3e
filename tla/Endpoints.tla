----------------------------- MODULE Endpoints -----------------------------
(***************************************************************************)
(* base/MultiEndpointHandler and base/PortMultiplexer in one process: which*)
(* UDP endpoint each handler sends to, and which handler a packet is given *)
(* to.  checkForEndpoints() creates the handlers one after the other, bans *)
(* this process's own endpoints, and registers each one with the           *)
(* multiplexer, which bans endpoints it has seen before.                   *)
(*                                                                         *)
(* The handlers are created on the thread of NetEngine, so a packet is     *)
(* received only when every handler exists.  An endpoint may also be       *)
(* killed by a send of the game's thread, which is one step here as well.  *)
(***************************************************************************)
EXTENDS Integers, FiniteSets, Sequences

CONSTANTS Remote,         \* the other peers' ids, in their order
          Endpoint,
          NoEndpoint,     \* udp::endpoint()
          Listed,         \* Listed[r]: r's endpoints in the lobby's order
          MyIps,          \* this process's own endpoints
          Source          \* Source[r]: where packets for r's handler come from (mine too,
                          \* when that handler sends to this process itself)

ASSUME ListedAssumption ==
  /\ Remote \subseteq Nat
  /\ NoEndpoint \notin Endpoint
  /\ \A r \in Remote : Listed[r] \in Seq(Endpoint) /\ Listed[r] # <<>>   \* else the constructor dies
  /\ \A r \in Remote : Source[r] \subseteq Endpoint

\* The lobby keeps a peer's endpoints in a set<string>, and resolving an address with its port gives
\* that one endpoint.  (A first endpoint that came twice would stay among the alternatives.)
ASSUME ListedOnceAssumption ==
  \A r \in Remote : \A i, j \in 1..Len(Listed[r]) : Listed[r][i] = Listed[r][j] => i = j

VARIABLES
  handler,          \* handler[r]: the four endpoint fields of r's MultiEndpointHandler
  recipients,       \* in the order of addRecipient()
  endpointsSeen, receiveEndpoint,
  given             \* who sent the last packet, and which handler received it

vars == <<handler, recipients, endpointsSeen, receiveEndpoint, given>>

Handler == [active : Endpoint \cup {NoEndpoint}, alternative : SUBSET Endpoint,
            dead : SUBSET Endpoint, banned : SUBSET Endpoint]

SeqRange(s) == {s[i] : i \in 1..Len(s)}

NotCreated == [active |-> NoEndpoint, alternative |-> {}, dead |-> {}, banned |-> {}]

\* The constructor.
Created(endpoints) ==
  [active |-> endpoints[1],
   alternative |-> {endpoints[i] : i \in 2..Len(endpoints)},
   dead |-> {}, banned |-> {}]

AliveEndpoints(h) == h.alternative \cup {h.active}
Known(h) == AliveEndpoints(h) \cup h.dead

\* An endpoint is in one of the three places only.
Apart(h) == h.active \notin h.alternative \cup h.dead /\ h.alternative \cap h.dead = {}

\* Wrong variant: the endpoint given up is not kept among the dead ones.
KillAndForget(h) ==
  IF h.alternative # {}
  THEN {[h EXCEPT !.active = e, !.alternative = @ \ {e}] : e \in h.alternative}
  ELSE {[h EXCEPT !.active = e, !.dead = @ \ {e}] : e \in h.dead \cup {h.active}}

\* Wrong variant: with no alternatives left, the dead endpoints are not drawn from.
KillKeepsLast(h) ==
  {[h EXCEPT !.active = e, !.alternative = @ \ {e}, !.dead = @ \cup {h.active}] : e \in h.alternative}
    \cup {k \in {h} : h.alternative = {}}

\* killEndpoint(): the outcomes of its random draw.
KillEndpoint(h) ==
  LET killed == [h EXCEPT !.dead = @ \cup {h.active}]
  IN IF h.alternative # {}
     THEN {[killed EXCEPT !.active = e, !.alternative = @ \ {e}] : e \in h.alternative}
     ELSE {[killed EXCEPT !.active = e, !.dead = @ \ {e}] : e \in killed.dead}

BanEndpoint(h, ep) ==
  {[k EXCEPT !.alternative = @ \ {ep}, !.dead = @ \ {ep}, !.banned = @ \cup {ep}] :
     k \in IF h.active = ep THEN KillEndpoint(h) ELSE {h}}

\* banEndpoint() for each of a set of endpoints, in any order.
BanEndpoints(h, eps) ==
  LET outcomes[b \in SUBSET eps] ==
        IF b = {} THEN {h}
        ELSE UNION {UNION {BanEndpoint(k, e) : k \in outcomes[b \ {e}]} : e \in b}
  IN outcomes[eps]

\* addEndpoint(): an endpoint that is new becomes an alternative.
AddEndpoint(h, ep) ==
  IF ep \in h.banned \cup Known(h) THEN h ELSE [h EXCEPT !.alternative = @ \cup {ep}]

HasEndpoint(h, ep) == ep \notin h.banned /\ ep \in Known(h)

\* hasEndpointAndResurrectIfFound()'s effect on a handler that has the endpoint.
Resurrect(h, ep) ==
  IF ~HasEndpoint(h, ep) \/ ep = h.active THEN h
  ELSE [h EXCEPT !.active = ep, !.alternative = (@ \cup {h.active}) \ {ep}, !.dead = @ \ {ep}]

-----------------------------------------------------------------------------
\* A packet may have come before the handlers exist: nobody gets it, but its source is kept.
Init ==
  /\ handler = [r \in Remote |-> NotCreated]
  /\ recipients = <<>>
  /\ endpointsSeen = {}
  /\ receiveEndpoint \in (UNION {Source[r] : r \in Remote}) \cup {NoEndpoint}
  /\ given = [from |-> 0, to |-> 0]

Ready == SeqRange(recipients) = Remote

\* Wrong variant: addRecipient() bans nothing.
CreateWithoutBans(r) ==
  /\ r \notin SeqRange(recipients)
  /\ \A s \in Remote : s < r => s \in SeqRange(recipients)
  /\ LET new == Created(Listed[r]) IN
     \E h \in BanEndpoints(new, AliveEndpoints(new) \cap MyIps) :
       /\ handler' = [handler EXCEPT ![r] = h]
       /\ endpointsSeen' = endpointsSeen \cup AliveEndpoints(h)
  /\ recipients' = Append(recipients, r)
  /\ UNCHANGED <<receiveEndpoint, given>>

\* checkForEndpoints()'s loop: constructor, bans of my own endpoints, addRecipient().
CreateHandler(r) ==
  /\ r \notin SeqRange(recipients)
  /\ \A s \in Remote : s < r => s \in SeqRange(recipients)
  /\ LET new == Created(Listed[r]) IN
     \E h \in BanEndpoints(new, AliveEndpoints(new) \cap MyIps) :
       LET again == {e \in AliveEndpoints(h) : e \in endpointsSeen \/ e = receiveEndpoint}
           After(s) == IF s = r THEN {h} ELSE IF s \in SeqRange(recipients)
                       THEN BanEndpoints(handler[s], again) ELSE {handler[s]}
       IN /\ \E k \in [Remote -> UNION {After(s) : s \in Remote}] :
               (\A s \in Remote : k[s] \in After(s)) /\ handler' = k
          /\ endpointsSeen' = endpointsSeen \cup (AliveEndpoints(h) \ again)
  /\ recipients' = Append(recipients, r)
  /\ UNCHANGED <<receiveEndpoint, given>>

\* send() -> update(): nothing came back for five seconds.
Kill(r, ep) ==
  /\ Ready
  /\ \E h \in KillEndpoint(handler[r]) : h.active = ep /\ handler' = [handler EXCEPT ![r] = h]
  /\ UNCHANGED <<recipients, endpointsSeen, receiveEndpoint, given>>

Knowing(ep) == {i \in 1..Len(recipients) : HasEndpoint(handler[recipients[i]], ep)}
Allowing(ep) == {i \in 1..Len(recipients) : ep \notin handler[recipients[i]].banned}
LastOf(S) == CHOOSE i \in S : \A j \in S : j <= i
FirstOf(S) == CHOOSE i \in S : \A j \in S : i <= j

\* Wrong variant: the packet of an endpoint that is known goes to the first handler.
ReceiveFirst(r, ep) ==
  /\ Ready
  /\ ep \in Source[r]
  /\ receiveEndpoint' = ep
  /\ Knowing(ep) # {}
  /\ handler' = [s \in Remote |-> Resurrect(handler[s], ep)]
  /\ given' = [from |-> r, to |-> recipients[FirstOf(Allowing(ep))]]
  /\ UNCHANGED <<recipients, endpointsSeen>>

\* handleReceive(): every handler that knows the source sends there from now on, and the last
\* one gets the packet.  Otherwise the first one that has not banned it does, and learns it.
\* receive() returns true for every well-formed packet, so the source is never banned.
HandleReceive(r, ep) ==
  /\ Ready
  /\ ep \in Source[r]
  /\ receiveEndpoint' = ep
  /\ \/ /\ Knowing(ep) # {}
        /\ handler' = [s \in Remote |-> Resurrect(handler[s], ep)]
        /\ given' = [from |-> r, to |-> recipients[LastOf(Knowing(ep))]]
     \/ /\ Knowing(ep) = {} /\ Allowing(ep) # {}
        /\ LET s == recipients[FirstOf(Allowing(ep))]
           IN /\ handler' = [handler EXCEPT ![s] = AddEndpoint(@, ep)]
              /\ given' = [from |-> r, to |-> s]
     \/ Knowing(ep) = {} /\ Allowing(ep) = {} /\ UNCHANGED <<handler, given>>
  /\ UNCHANGED <<recipients, endpointsSeen>>

Next == \/ \E r \in Remote : CreateHandler(r)
        \/ \E r \in Remote, ep \in Endpoint : Kill(r, ep)
        \/ \E r \in Remote, ep \in Endpoint : HandleReceive(r, ep)

Spec == Init /\ [][Next]_vars

\* Peers that never answer.  Their endpoints keep being given up, and the draw is random.
Silent == {r \in Remote : Source[r] = {}}

Silence == /\ \A r \in Remote : WF_vars(CreateHandler(r))
           /\ \A r \in Silent : \A ep \in SeqRange(Listed[r]) \ MyIps : SF_vars(Kill(r, ep))

FairSpec == Spec /\ Silence

-----------------------------------------------------------------------------
(* Properties.                                                              *)

\* The fields' types; and active, alternative and dead endpoints never overlap.
TypeOK ==
  /\ handler \in [Remote -> Handler]
  /\ \A r \in Remote : Apart(handler[r])
  /\ SeqRange(recipients) \subseteq Remote /\ Len(recipients) = Cardinality(SeqRange(recipients))
  /\ receiveEndpoint \in Endpoint \cup {NoEndpoint}

\* Whether r has an endpoint that is neither mine nor listed for anyone else.
OwnEndpoint(r) ==
  SeqRange(Listed[r]) \ (MyIps \cup UNION {SeqRange(Listed[s]) : s \in Remote \ {r}}) # {}

\* A banned endpoint is never sent to again, whatever is killed, promoted or learnt later; and
\* once all handlers exist, no two send to the same endpoint, because addRecipient() takes one
\* that several peers list away from all but the last.  Both hold for the peers that have some
\* endpoint of their own.
BansHold ==
  \A r, s \in {q \in Remote : OwnEndpoint(q)} :
    /\ Known(handler[r]) \cap handler[r].banned = {}
    /\ Ready /\ r # s => Known(handler[r]) \cap Known(handler[s]) = {}

\* Giving up, promoting and banning never lose an endpoint that is not banned.
NoEndpointLost ==
  [][\A r \in Remote :
       Known(handler[r]) \ {NoEndpoint} \subseteq Known(handler'[r]) \cup handler'[r].banned]_vars

\* A packet goes to the handler of the peer that sent it, when peers send from endpoints that
\* they listed and no later peer did.  (From an endpoint nobody listed, only the first
\* handler's peer may send.)
GivenToSender == given.from = given.to

\* While a peer is silent, each of its own endpoints is tried again and again.
EveryEndpointTried ==
  \A r \in Silent : \A ep \in SeqRange(Listed[r]) \ MyIps : []<>(handler[r].active = ep)

\* The sources for which GivenToSender is meant: those that their peer lists and no later one
\* does; those that nobody lists, of the first peer; and mine, when everyone lists them.
SourcesListed ==
  \A r \in Remote : \A ep \in Source[r] :
    \/ ep \in SeqRange(Listed[r]) \ MyIps /\ \A s \in Remote : s > r => ep \notin SeqRange(Listed[s])
    \/ \A s \in Remote : ep \notin SeqRange(Listed[s]) /\ r <= s
    \/ ep \in MyIps /\ \A s \in Remote : ep \in SeqRange(Listed[s])

-----------------------------------------------------------------------------
(* The inductive invariant.                                                 *)

IsHandler(h) ==
  h = [active |-> h.active, alternative |-> h.alternative, dead |-> h.dead, banned |-> h.banned]

\* A handler that has not given up an endpoint yet.
Fresh(h) == h.dead = {} /\ h.active \notin h.alternative

Later(r) == UNION {SeqRange(Listed[s]) : s \in {q \in Remote : q > r}}

\* What r's handler has of the endpoints that r lists, and why it has banned others.
HasListed(r, h) ==
  /\ IsHandler(h)
  /\ SeqRange(Listed[r]) \subseteq Known(h) \cup h.banned
  /\ SeqRange(Listed[r]) \cap MyIps \subseteq h.banned
  /\ h.banned \subseteq (SeqRange(Listed[r]) \cap MyIps) \cup Later(r)
  /\ OwnEndpoint(r) => Known(h) \cap h.banned = {}

\* Until all exist, the handlers have only what was listed, and the multiplexer has seen that.
Starting(r, h) ==
  /\ Fresh(h)
  /\ Known(h) \subseteq SeqRange(Listed[r]) \cap (endpointsSeen \cup {receiveEndpoint})

\* The recipients are the first peers, in their order.
InOrder ==
  /\ recipients \in Seq(Remote)
  /\ \A i, j \in 1..Len(recipients) : i < j => recipients[i] < recipients[j]
  /\ \A i \in 1..Len(recipients) : \A r \in Remote :
       r < recipients[i] => r \in SeqRange(recipients)

HandlersHold ==
  /\ DOMAIN handler = Remote
  /\ \A r \in Remote :
       IF r \in SeqRange(recipients)
       THEN HasListed(r, handler[r]) /\ (Ready \/ Starting(r, handler[r]))
       ELSE handler[r] = NotCreated

\* No two handlers know the same endpoint, and one that was learnt is nobody's who lists it.
KnownOnce ==
  \A r, s \in SeqRange(recipients) :
    /\ r # s /\ OwnEndpoint(r) /\ OwnEndpoint(s) => Known(handler[r]) \cap Known(handler[s]) = {}
    /\ (Known(handler[r]) \ SeqRange(Listed[r])) \cap SeqRange(Listed[s]) \subseteq handler[s].banned
    /\ Known(handler[r]) \subseteq UNION {SeqRange(Listed[q]) : q \in Remote} \/ \A q \in Remote : r <= q

EndpointsIInv == InOrder /\ HandlersHold /\ KnownOnce
=============================================================================
