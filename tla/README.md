# Verification of we-go-all's peer-to-peer library

we-go-all lets the players of a game exchange inputs directly over UDP. Its own logic is in
`src/peer/src`: `base/` has the messaging layers and `peer/` the game peer and a small lobby
server. This directory holds TLA+ models of that logic, the TLC runs that check them on small
instances, and TLAPS proofs of the most important results for instances of any size.
Everything else in the repository (vendored libraries, game ports, build files) is left out.

## 1. The system

### Components, their state and operations

| component | state | operations | what makes it correct |
|---|---|---|---|
| `BiDirectionalRpc` (over `UdpBiDirectionalRpc`) | delayed, outgoing and one-way requests, incoming requests and replies, outgoing replies, two LRU caches of processed ids, barrier, shutdown flag, the clock's two maps | `request`, `requestOneWay`, `reply`, `barrier`, `heartbeat`, `receive`, `sendShutdown`, `initTimeShift`, reading replies | a request is executed once and in barrier order, is answered although packets are lost, and no internal fatal check is reached |
| `EncryptedMultiEndpointHandler`, `CryptoHandler` | the two session keys | `sendSessionKey`, encrypted overrides of send and receive, `readyToSend`, `readyToReceive` | what is sent can be decrypted; ready stays ready |
| `MultiEndpointHandler`, `PortMultiplexer` | active, alternative, dead and banned endpoints; recipients, endpoints seen, last source | `send`/`update`, `killEndpoint`, `banEndpoint`, `addEndpoint`, `hasEndpointAndResurrectIfFound`, `addRecipient`, `handleReceive` | packets reach the handler of their sender; every usable endpoint is tried; bans hold |
| `RpcServer` | a handler per peer | loops over them | as the callers need |
| `ChronoMap` | per key, values by time; expiration time; blocks that came too early | `put`, `get`, `getAll`, `getChanges`, `waitForExpirationTime` | blocks in any order give the owner's history |
| `MyPeer` | the ChronoMaps of all peers, the last blocks sent, shutdown flags | `updateState`, `update` (timer), `getAllInputValues`, `getFullState`, `shutdown`, `host`, `join`, `start`, `checkForEndpoints`, `initialized` | replicas agree, readers return, shutdown loses nothing and returns |
| `SingleGameServer` (lobby) | registered peers with endpoints, the game's name | five HTTP resources | all peers start the same game with distinct positions |
| `ClockSynchronizer`, `TimeHandler` | send and receive times, estimates, the time shift | `createRequest`, `receiveRequest`, `handleReply` ... | the maps stay in step with the RPC's; the ping is the round trip and the shift the difference of the clocks |
| `StunClient` | the requests by server, their timers, `_request_count`, whether it is destroyed | `reflect`, the handlers of sends, timers and receives, the destructor | every server that is asked is heard, nothing outlives the client, the answer is decoded right |
| `PortMappingHandler` | the gateway found; the router's table | discovery, `mapPort`, `unmapPort` | both protocols are forwarded, or none |
| `NetEngine` | the queue of its thread, the work object | `post`, timers, `startUdpServer`, `shutdown` | its thread ends, and uses nothing that was freed |
| `HttpClientMuxer`, `LocalIpFetcher`, `FanOutRpc`, estimators, serialisation, logging | | | not modelled, see section 6 |

### Interaction

`MyPeer`'s constructor makes the `NetEngine` (and with it the `PortMappingHandler`), runs the
STUN client in an `io_service` of its own to learn the public endpoints, asks the router to
forward its port, opens the socket and asks the lobby for the game. `start()` posts the
endpoints and sets the timer. From then on, one `NetEngine` thread runs all socket and timer callbacks of a peer; the game's thread calls
`MyPeer`. Every `BiDirectionalRpc` method holds the handler's recursive mutex, `MyPeer` has a
`peerDataMutex`. A peer registers with the lobby over HTTP, polls until the game is ready,
creates one handler per other peer, bans its own endpoints, and sends its session key. Once
all handlers are ready the game calls `updateState` and reads inputs; the 1 ms timer `update`
takes received inputs, replies, and heartbeats.

### What is hard

Packets are lost, duplicated and reordered, and every answer may cross a resend. Ids are
remembered in caches that evict. Two threads share a handler. `MyPeer` reads flags and maps at
different moments of one call, and its peers leave or die while others wait for them. Endpoint
sets change on packets and on timeouts. Completed operations cannot be cancelled any more and
find their objects destroyed. Another host changes the router between two calls, and what a
dead process left there is found by the next. The time shift changes while others stamp. The
lobby's answers are used after others have changed
it. The list, by source line, is `hazards` in `PROJECT.json`.

## 2. Modules

| module | models | composed with |
|---|---|---|
| `RpcService` | abstract: a request is issued, executed, answered and completed, in barrier order; no packets | |
| `BiDirectionalRpc` | both ends of a connection, the UDP network, the initTimeShift thread | implements `RpcService` (`ImplementsService`) |
| `SessionHandshake` | session keys on top of a simplified RPC, any number of peers | |
| `Endpoints` | the handlers of one process and its multiplexer | |
| `ChronoMap` | the data structure, as operators on records | used by `MyPeer` |
| `MyPeer` | inputs, readers, shutdown, crashes of connected peers | uses `RpcService` for its connections (`UsesService`) |
| `Lobby` | `SingleGameServer` and the lobby calls of `MyPeer` | |
| `StunClient` | the STUN client and the constructor's block around it | part of `PeerProcess` |
| `StunMessage` | how a STUN packet is decoded, against how RFC 5389 encodes it | part of `PeerProcess` |
| `PortMapping` | `PortMappingHandler` and a router | part of `PeerProcess` |
| `PeerProcess` | one process: constructor, start, NetEngine's thread, shutdown, death and relaunch | composes `StunClient`, `StunMessage` and `PortMapping` |
| `ClockSync` | the stamps and the calibration of one peer's clock | |
| `*_proofs` | inductive invariants and theorems, see section 4 | `PeerProcess_proofs` uses `StunClient_proofs` |
| `MC*` | instances for TLC | |

**`BiDirectionalRpc`.** Each variable is a map or cache of the class, for both ends; a map
keyed by `RpcId` is a set of ids, with payloads reduced to what the code branches on
(application, PING, SHUTDOWN). Each public method is one action because it holds the mutex;
`sendShutdown` reads its flag before it locks, and `initTimeShift` polls between lockings, so
each of them is two. `net` holds entries of packets; it may keep an entry for ever (duplication,
delay), deliver in any order (reordering), and `Lose` removes one. Batching of several requests
in one packet is a run of single deliveries. `LOG(FATAL)` puts the end into `fatal`. `LruPut`
evicts any older entry. `issued` and `accepted` are history variables.

**`RpcService`** has four sets per connection and one step per fact. The refinement maps
`requested` to the issued requests, `executed` to those accepted, and so on; resends,
acknowledgements, evictions and packet losses are stuttering.

**`SessionHandshake`.** `<<p, q>>` is p's handler for q. A session key is named by the handler
that made it; a packet carries the key it is encrypted with as `from`. Decryption succeeds when
that is the key held. The RPC layer is reduced to its queues. The constant `Misroute` has the
handlers to which the multiplexer gives packets whose source nobody knows: one per process, the
first one it finds, or none if all packets come from known sources. (Which one is first
depends on the ids; that it is passed over once it has banned the source is left out.)

**`Endpoints`.** Operators transform the record of a handler's endpoint sets; the random draw
of `killEndpoint` is a set of outcomes. `CreateHandler` is one turn of the loop in
`checkForEndpoints`, with the bans there and in `addRecipient`. `receiveEndpoint` starts as
anything a packet before the loop may have left. That five seconds have passed without a reply
is the nondeterministic action `Kill`. A peer's list is assumed to have no endpoint twice
(`ListedOnceAssumption`). The constructor does not check that: with a repeated first endpoint,
that endpoint would be active and an alternative at once, and stay so.

**`ChronoMap`** is a record of entries, an expiration time and blocks that came too early; the
drain of `futureData` is a bounded recursive function.

**`MyPeer`.** The connections are `RpcService`: a request arrives at the other end once, in any
order. A broadcast is one step per receiver (no lock is held across it). The readers are cut
where the code can be interrupted: the check of the shutdown flag, the wait, the time-out, the
second check. A message's id stands for the random uuid that `request` draws, which is assumed
never to repeat. `hasWork()` counts inputs and announcements; the heartbeat's PINGs, which count
in the code too, are left out. `shutdown()` is five phases. `isConnectionDead()` is a predicate on what can make
a connection silent.

**`Lobby`.** An HTTP request is one step, since the server has one thread; peers interleave
between requests. `Restart` is a process that starts anew.

**`StunClient`.** `ready` is the queue of the block's `io_service`. An outstanding resolve,
timer or receive completes by an action of the environment, which appends to `ready`; a handler
takes the head. So the hard case of asio is there: what is in `ready` can no longer be
cancelled. A request is named by its server's name; two names may resolve to one address, which
aborts the first request. `requestCount`, `waitFor` and `deadline` are the code's counters and
the 15 second timer. Using the client after its destruction ends in `"undefined"`. `disturbed`
and `raced` are history variables.

**`StunMessage`.** The two address decoders and the bit operations of the header, on 16-bit
halves of words; `^` is the sum of the bits in which two halves differ. `Verdict` is what
`on_recv` makes of a packet; the outcomes are `Verdicts` of `StunClient`. The encoding functions
are those of RFC 5389 and external. What a packet can hold is in constants: the header's method
and cookie, the addresses and ports that are mapped, and the words in front of the attribute
with the address (`Before`, in which no word looks like such an attribute) and behind it
(`After`).

**`PortMapping`.** One action per UPnP call, because the router serves others between two of
them. The router (`AddEntry`, `DeleteEntry`, its errors 713, 714 and 718) is external. Another
host may take the port or delete any entry, this peer's too; `lost` is a history variable with
the protocols whose new mapping it has deleted.

**`PeerProcess`.** `posted` is the queue of NetEngine's thread: completed receives and timers,
and the lambdas that are posted, those of `_send()` included. One `"send"` stands for all sends
posted in a row. What may post one (received packets, `checkForEndpoints`, `update`, the
broadcast of `updateState`, the announcement in `shutdown()`) does so or not, since a handler may
have nothing to say. The delayed sends of `flaky` are for tests and left out. `shutdown()` on the
game's thread is cut at every point where the other thread may run; `freedEarly` is a history
variable: something that uses the `RpcServer` was queued when it was freed. `Gone` ends the process at any
time and keeps the router's table. What a running game does is in `MyPeer`.

**`ClockSync`.** A stamp is two steps, because `currentTimeMicros()` and `getTimeShift()` lock
the `TimeHandler` separately; each synchronizer's own mutex (`MutexFree`) excludes only its own
requests. Real time is `now`, and the peer's clock differs from it by `offset`. The mean of the
ping estimator is any small number: it cancels out of the offset. `trip`, `torn` and `skew` are
history variables.

Operators marked *Wrong variant* are plausible bugs. No specification uses them: they are
substituted for the definition after them to see that the properties would notice.

## 3. Runs

| run | shows | bounds |
|---|---|---|
| `rpc_calls` | no fatal check, no double execution: every call at both ends | 2 + 1 requests: enough for a request, a resend and an interfering request at each end |
| `rpc_order` | executions in barrier order, none stranded, no replay of an awaited request after an eviction; `BiDirectionalRpc` implements `RpcService` | caches of 1 entry, 3 requests over barriers 0..2, so that evictions happen and two barriers wait at once |
| `rpc_liveness` | every request is answered (one-way ones such as SHUTDOWN too), resending stops, initTimeShift ends; with loss | 2 requests, 2 barriers, one of initTimeShift's pings |
| `peer_safety` | replicas agree with their owner, nothing stranded, no recorded input changes, no fatal check; inputs are everywhere before a shutdown is announced; complete reads agree | 3 + 1 blocks, window 2: a block can be missing from a window, arrive late, or be covered twice; 1 read each |
| `peer_liveness` | `shutdown()` returns, also when both leave or the other dies; readers return unless a process dies | 1 block and 1 read each |
| `handshake` | ready means shared, for good; nothing refused; no fatal check; the handshake ends | 2 peers, one request in all, from either side, loss, eviction of the session request |
| `endpoints` | bans hold, nothing lost, packets reach their peer's handler, no shared endpoint, a silent peer's endpoints are all tried | 4 peers, 8 endpoints: shared, own, one of ours, one nobody listed |
| `lobby_game` | one game, one view, distinct positions, everybody gets in | 4 peers, overlapping endpoints, a host that restarts |
| `process` | the constructor ends; no server that is asked is forgotten; it gives up, or uses the destroyed client, only for the listed causes; packets are decoded as RFC 5389 encodes them; mapPort() returns the port only with both protocols mapped (or deleted since by another host), and takes its first mapping back otherwise; shutdown() ends if the game becomes ready, no update follows the last one, and the freed RpcServer is used only by what was queued when it was freed (the close, a receive, a send) | 2 servers at 2 addresses, 2 launches, 2 changes by the other host, 1 failing UPnP call; packets of up to 4 attributes, 9 methods, all classes |
| `clock` | the ping is the round trip unless a stamp is torn, which cannot happen on the connection to the host; after the calibration the clocks agree, up to half of the skew of the ways and one and a half units of rounding | 2 requests to the host and 1 to another peer at once, 3 samples where the code takes 10, time up to 3, clocks behind and ahead |

Two servers are enough for the shared address, for one that answers while the other is lost,
and for a resend that crosses an answer. Only the first launch goes through the STUN block step
by step: the block depends on nothing that outlives the process. Whether a gateway was found
shows when `mapPort()` is called, and the other host acts only while `mapPort()` runs: nobody
looks at the table at other times. Three samples have a first, a middle and a last one, and
the average divides by a number that does not divide most sums.

The larger modules state a type invariant (`TypeOK`), which holds in these instances and which some
proofs build on; the runs' lists have only properties that say something about the code.

Deadlock is not checked where the system may come to rest (all bounded calls made, everyone
stopped, everyone placed); only `Endpoints` never rests.

Two runs expect a violation; each is a disagreement between the code and what the repository
says of it:

* `peer_crash_reader`: "Check if the peer is dead" asks only for an announced shutdown; a
  reader waits for ever for a peer whose process died.
* `handshake_misroute`: "We don't have any endpoint to receive this, so check the header"
  (`PortMultiplexer.cpp:80`) is followed by no such check. The first handler that has not banned
  the source gets the packet; a header names no sender, and all peers have the same id for session
  messages. In the trace a third peer's reply, from a source that nobody knows, ends the wrong
  handler's session request, and `readyToSend` ("Make sure rpc(0,1) is finished") says yes although
  the handler's own peer has no key.

More disagreements have no run of their own. Most show as an assumption of a passing one:

* Banning "my IPs" (`MyPeer.cpp:394`) leaves the banned endpoint active when it is the only one
  listed: `BansHold` speaks of peers with an endpoint of their own, and the fourth peer
  of `endpoints` is one without.
* `PeerTest.cpp:117` expects one endpoint for each of four peers that post the same one;
  `setPeerEndpoints` keeps it for the first only and the game never starts. In `lobby_game`
  every peer has one of its own.
* Positions are fetched "after everyone has connected" (`MyPeer.cpp:417`), but later guests are
  accepted: with `NumPlayers` below the number of peers, `PositionsDistinct` fails.
* A guest that restarts and joins again ends the lobby (`SingleGameServer.cpp:81`): `Restarters`
  is the host alone in `lobby_game`.
* A game with nothing to report in its first `updateState` dies in the second one
  (`ChronoMap.hpp:140` takes a map without keys for a map without blocks, although
  `empty()` goes by the expiration time): in `States` every state has a key.
* `StunClient.hpp:6` says "according to RFC5389", but `decode_attribute` does not skip an
  attribute's value: a value whose words look like a mapped address is taken for one.
  `ReadsWhatWasMapped` has only attributes that do not in front (`BodiesAssumption`).
* The failure message of the constructor asks for "at least" all servers to be running
  (`MyPeer.cpp:110`), yet silent ones do no harm: their requests are aborted after 15 seconds
  and counted, and the constructor may go on without any public endpoint. A name that does
  not resolve, or two names with one address, kill it.
* `~PortMappingHandler` unmaps `mappedExternalPorts`, which nothing fills: mappings stay in the
  router until their lease ends or the next launch finds them. A TCP mapping that conflicts
  with another host's is followed by `unmapPort()`, which deletes that host's mapping.
* `shutdown()` before `start()` waits for ever for an update that no timer makes, and so does one
  after `start()` while a player is missing, if that player never joins (`MyPeer.cpp:193-201`):
  `ShutdownEnds` speaks of games that are ready or become ready.

### Fairness

* RPC and handshake: the heartbeat timer never stops (weak fairness of resending), resending
  draws at random, and a message that is sent again and again is received in the end (strong
  fairness of receiving). Nothing makes the network deliver a given copy. The application
  replies to what it receives and reads its replies.
* `MyPeer`: the game's thread continues its calls, the `update` timer runs, and the connection
  delivers and completes while both ends live, which is what `EventuallyAnswered` shows of the
  RPC. Nothing is assumed of a crashed or stopped peer. `Announce` is weakly fair: once all
  inputs are answered, `shutdown()` sees so. The code looks once a second, and the PINGs of the
  heartbeat make `hasWork()` true for a round trip each, so it may find a PING under way and look
  again; that it does so every time is excluded here.
* `Endpoints`: a silent peer's active endpoint is given up every five seconds, and the draw is
  random (strong fairness of each outcome), for peers from which no packet arrives.
* `Lobby`: peers proceed and poll every second.
* `process`: both threads go on, timers expire and a resolver answers in some way. That the
  game's thread gets past the announcement assumes that its two flushes end, which is
  `ShutdownReturns` of `MyPeer`. Nothing is assumed of the STUN servers, the packets, the router
  or the other players, and no process has to be launched again.

The runs of `MyPeer` set `SpuriousTimeouts` to FALSE: a living
peer replies within five seconds. Without that, `shutdown()` gives up on it by design and its
last inputs may be missing there.

## 4. Proofs

Every invariant and action property of the passing runs, and the refinement, is also a theorem,
for every value of the constants that the named assumptions allow. None of them is inductive as
it stands; each proof module rests on one inductive invariant, which is stated in parts beside
the model, was checked with TLC first, and is kept by every action (one lemma per action or
kind of action).

| module | theorems (property) | hypotheses beyond the modules' assumptions |
|---|---|---|
| `BiDirectionalRpc_proofs` | `TypeCorrect` (`TypeOK`), `NeverFatal` (`NoFatal`), `ExecutedStaysHeld` (`ExecutedIsHeld`), `NoReplay` (`NoReplayWhileAwaited`), `BarriersOrderExecutions` (`BarrierOrder`), `DelayedAreReleased` (`DelayedBehindOlder`), `Implements` (`ImplementsService`) | none: any cache capacity above zero |
| | `ExecutedAtMostOnce` (`AtMostOnce`), `PongsAreFound` (`PongToBeFound`) | `CachesSuffice`: no end issues more requests than a cache holds |
| `SessionHandshake_proofs` | `ReadySharesKey` (`ReadyMeansShared`), `HandshakeSafe` (`NoFatal`), `NothingIsDropped` (`NothingDropped`), `ReadyStays` (`ReadyForGood`) | `Misroute = {}`: packets come from known sources; `handshake_misroute` violates the first one without it |
| `MyPeer_proofs` | `ReplicasAgree` (`ReplicaAgrees`), `HistoryIsKept` (`HistoryIsFinal`), `NothingIsStranded` (`NothingStranded`), `UsesService` (`Rpc!Spec`) | none |
| | `MapsStayAlive` (`MapsNeverDie`) | `GamesHaveInputs`: no state of a game is empty |
| | `ShutdownsAreFlushed` (`FlushedBeforeShutdown`), `ReadersAgree` (`ReadsAgree`) | `~SpuriousTimeouts`: living peers answer in time |
| `Endpoints_proofs` | `BansAreKept` (`BansHold`), `NoEndpointIsLost` (`NoEndpointLost`), `EndpointsAreApart` (`TypeOK`) | none |
| | `PacketsReachTheirHandler` (`GivenToSender`) | `SourcesListed`: where peers may send from |
| `Lobby_proofs` | `EveryoneIsToldTheSame` (`ViewsAgree`), `EveryoneHasItsPlace` (`PositionsDistinct`) | `NobodyElseJoins`: all peers are players |
| `StunClient_proofs`, `PeerProcess_proofs` | `NobodyIsForgotten` (`NobodyForgotten`), `FatalHasACause` (`FatalNeedsCause`), `UndefinedHasACause` (`UndefinedNeedsRace`), `UseAfterFreeIsQueued` (`UseAfterFreeWasQueued`), `UpdatesAreFinished` (`UpdatesStayFinished`), `MapsBothOrNeither` (`BothOrNeither`), `MappedAddressRead` (`ReadsWhatWasMapped`) | none |
| `ClockSync_proofs` | `ShiftIsCalibrated` (`Calibrated`), `PingsAreRoundTrips` (`PingIsRoundTrip`), `PingsArePositive` (`PingsPositive`) | none: any number of samples and requests |

The hypotheses are those that section 3 names as disagreements or as conditions of the code;
the instances of the passing runs satisfy them (`MCEndpoints`, `MCLobby` and `MCMyPeer` say so
in an `ASSUME`, `rpc_calls` and the cfgs of `MyPeer` by their constants). Of the assumptions of
the modules, some serve the proofs only: `VerdictsAssumption` (a verdict is one of the five kinds
that `on_recv` produces), `ListedOnceAssumption` (no peer lists an endpoint twice), `ReadTimes \subseteq Nat` (games read no negative times) and
`GamesAssumption` (a game reports changes of its keys).

**`BiDirectionalRpc`.** The invariant (`IInv`) ties the two ends and the network together: the
clock's maps have exactly the keys of the RPC's maps; a request that is still awaited and was
executed is in execution or its reply is still being resent (so eviction from the cache cannot
make it look new); replies in the network are only of executed requests; acknowledgements are
only of replies that were taken; and a delayed request has an older one outstanding. The last
one needs a delayed request of lowest barrier, which comes from the well-foundedness of the
natural numbers. The refinement adds `RepliesCurrent`: a reply in flight for an awaited request
is not that of an earlier execution, so taking it is a `Complete` step of a request that has
been answered. Initial states map to initial states, and each kind of step to a step of the
service or a stutter. `AtMostOnce` adds `NothingForgotten`: the cache holds a subset of what the
other end issued, which its budget bounds, so `LruPut` never evicts. The same argument at the
requesting end gives `PongsAreFound`, the safety half of `InitTimeShiftProceeds`: the thread
that polls for a ping's reply finds it although another thread may consume it first.

**`SessionHandshake`** (`HInv`). A handler holds only its partner's key; a reply to a session
request exists only if its sender holds the key, so the request stays outstanding until the
partner has the key; data is under way only from a handler whose partner can read it; and
initialized peers are ready.

**`MyPeer`** (`PeerIInv`). The blocks a peer has made cut its own map into pieces that do not
overlap (`History`), each saying what the map says of its time (`Genuine`). A replica is its
owner's map cut at its expiration time, which is never inside a block, and only later blocks
wait in `futureData` (`Replica`). The blocks scheduled for a receiver are consecutive from 0 to
the owner's last one (`Consecutive`): a window that leaves out a block the receiver has not been
sent would break this, and it is why nothing is stranded. Two operators of `ChronoMap` are
recursive functions, the drain of `futureData` and the replay of a window; `DrainedIs` and
`PutAllIs` say what they compute. For the shutdown, whoever can still hear of it has everything
(`LateForShutdown`); for the reads, a read has what the owners recorded (`ReadsSaw`).

Every step of the peers is a step of `RpcService` or leaves the connections alone
(`UsesService`). The service gives a connection at most one request of an id. In the code that
rests on random uuids, which the model takes to be distinct: it numbers the messages (`InputMsg`)
so that no number comes twice, and the lemma `SentInvariance` only says that this numbering never
keeps a message from being sent. `Implements` says that the
handlers implement the service, so what is proved of the peers needs nothing of a connection
that `BiDirectionalRpc` does not give.

**`Endpoints`** (`EndpointsIInv`). A handler has every endpoint its peer lists unless it banned
it, and has banned only endpoints of this process or of later peers (`HasListed`); until all
handlers exist they have only what was listed, and the multiplexer has seen that (`Starting`);
and an endpoint that was learnt is banned at everyone who lists it (`KnownOnce`). What banning a
set in any order computes (`AllBansKeep`) is again an induction over a recursive function. An
endpoint of its own keeps a handler from being left with a banned one (`OwnIsSpared`), which is
why `BansHold` speaks of peers that have one. `EndpointsAreApart` adds that an endpoint is in one
of a handler's three places only (`HandlersTidy`): a handler is `Fresh` until all exist, and
each later operation takes an endpoint out of one place when it puts it into another.

**`Lobby`** (`IInv`). As many peers as the game has can only be registered if everyone is, so a
poll that says the game is ready saw the final list, and the views that follow are equal.

**`StunClient`, `PeerProcess`.** `StunIInv`: every name is in exactly one place (being resolved,
asked, or among the completions), so `waitFor` and `requestCount` count what is there; every
timer whose request is gone is queued or cancelled. The step lemmas are about the queue: what
taking the head and appending completions (`Moves`) does to each part. `NetIInv`: nothing is received on a closed socket, behind the posted close the socket is
closed, there is one timer at most, and when the server was freed with nothing queued that uses
it, nothing of the kind is queued or outstanding again (`FreedInTime`): receives need the open
socket, sends come from receives, timers and the game's thread, and all three have stopped.
`MapIInv`: the router has no two entries for a port and protocol, and what `mapPort()` has added
is there or in `lost`. `MappedAddressRead`
is about data alone: the bits of a sum of powers of two are the terms of the sum, so the
exclusive or with the cookie undoes itself; the shifts of `decode_method`, `decode_class` and
`decode_plex` find the bits that the header was put together from; and the first word that
looks like an attribute with an address is the server's, because none in front of it does.

**`ClockSync`** (`IInv`). A stamp's clock and shift are those of its moment unless it was torn,
and the sums of the samples are the sum of the skews with one unit of rounding for each. The
moments of a trip are in order (`TripsInOrder`), so no ping of whole stamps is negative.

Induction over data is done with sets: the least element of a set of natural numbers
(`LeastNumber`), from the well-foundedness of `<`, gives that a set with 0 and with i + 1 for
every i < n has n (`Induction`), and the recursive functions are unfolded inside that set.

## 5. Only model-checked

Liveness under fairness, which is outside the prover's reach: `EventuallyAnswered`,
`EventuallyQuiet`, `InitTimeShiftProceeds`, `HandshakeCompletes`, `EveryEndpointTried`,
`EveryoneIsPlaced`, `ShutdownReturns`, `ReadersReturnUnlessCrash`, `ConstructorEnds`,
`ShutdownEnds`. Their safety halves are proved where they have one: `DelayedBehindOlder` and
`PongToBeFound` for the RPC, `NothingStranded` for the readers, `NobodyForgotten` for the
constructor, `NoEndpointLost` for the endpoints that are to be tried. The type invariants of
`MyPeer` and `PeerProcess` are checked by TLC; the parts of them that the theorems need are in
the inductive invariants.

## 6. Not modelled

* The clock after its calibration: `AdamOptimizer`, `SlidingWindowEstimator` and the other
  estimators are floating point. A torn stamp at the remote end is not modelled either.
* `decoder`'s reads past the packet: a length field larger than the packet is trusted. The
  transaction id of an answer is not checked by the code, so answers are told apart by source.
* Sends of the STUN client that block; its doubling of the resend time (a timer expires when
  it likes).
* `NetEngine::resolve` and `forwardPort`, the http/https fallback of `HttpClientMuxer`,
  `LocalIpFetcher`: I/O without state. `FanOutRpc`, which nothing uses. Byte encodings. The
  send rate limit other than as loss.
* The data race of `addEndpoint`/`banEndpoint` with a sending thread.
* `RpcServer::request` and `reply` by user id, which only tests use.
* Shutdown of a peer before the game is ready as the others see it: its last
  `checkForEndpoints` connects to them and tells them nothing.

## 7. Possible extensions

All safety properties of the runs are theorems. What would say more:

1. Composition of `SessionHandshake` and `Endpoints`: routing by endpoint sets instead of the
   `Misroute` constant (`PacketsReachTheirHandler` gives the condition), with two threads at one
   handler.
2. Composition of `PeerProcess` with `MyPeer` for a shutdown before the game is ready.
3. `UsesService` and `Implements` joined in one module, with the handlers of every connection in
   the place of the service.
