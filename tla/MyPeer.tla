-------------------------------- MODULE MyPeer --------------------------------
(***************************************************************************)
(* peer/MyPeer.cpp once the peers are connected: every peer owns a         *)
(* ChronoMap of its inputs, broadcasts each new time block (with the two   *)
(* before it) to the others, and keeps a replica of every other peer's     *)
(* map.  The game thread reads the inputs of all peers for a timestamp,    *)
(* and waits for those that have not arrived.  shutdown() flushes,         *)
(* announces itself, flushes again and stops.                              *)
(*                                                                         *)
(* The connections are the RpcService that BiDirectionalRpc implements:    *)
(* <<p, q>> is p's end of its connection to q, and a request reaches the   *)
(* other end once, but in any order.                                       *)
(***************************************************************************)
EXTENDS ChronoMap

CONSTANTS Peer,            \* the peers' ids, in their order
          MaxTime,         \* bound on the timestamps each peer reaches
          Window,          \* INPUT_SEND_WINDOW_SIZE
          States,          \* States[p]: what p's game passes to updateState()
          ReadTimes,       \* the timestamps the games read
          Reads,           \* bound on the calls of getAllInputValues() and getFullState()
          Quitters,        \* the peers that may call shutdown()
          Crashers,        \* the peers whose process may die
          SpuriousTimeouts \* whether a living peer can be silent for 5 seconds

ASSUME BoundsAssumption == Peer \subseteq Nat /\ Window \in Nat \ {0} /\ MaxTime \in [Peer -> Nat]
                           /\ ReadTimes \subseteq Nat

VARIABLES
  chrono,          \* chrono[q][p]: q's peerData[p]->playerInputData
  lastSendBuffer,
  sending,         \* sending[p]: the message of a broadcast() and who has not been sent it
  requested, executed, answered, completed,   \* the RpcService of all connections
  peerDown,        \* peerDown[q]: the peers whose SHUTDOWN q has received
  phase,           \* how far p's shutdown() is
  crashed,
  reader, reads,   \* the game thread inside a read, and how many it made
  results          \* what the reads returned

rpcVars == <<requested, executed, answered, completed>>
vars == <<chrono, lastSendBuffer, sending, rpcVars, peerDown, phase, crashed, reader, reads, results>>

Channel == {c \in Peer \X Peer : c[1] # c[2]}
Others(p) == Peer \ {p}

\* What a game passes to updateState(), and what of it a block records.
Changes == UNION {[keys -> Value] : keys \in SUBSET Key}

ASSUME GamesAssumption == \A p \in Peer : States[p] \subseteq Changes

Blocks == [start : Nat, end : Nat, changes : Changes]
Messages == [uuid : Nat, barrier : {0}, kind : {"INPUT", "SHUTDOWN"}, window : Seq(Blocks)]

Rpc == INSTANCE RpcService WITH Node <- Channel, Rpc <- Messages

\* The code draws a random uuid for every connection a message is sent on.  That it never draws the
\* same one twice is assumed; the timestamp stands for it here, and 0 for that of a SHUTDOWN.
InputMsg(id, window) == [uuid |-> id, barrier |-> 0, kind |-> "INPUT", window |-> window]
ShutdownMsg == [uuid |-> 0, barrier |-> 0, kind |-> "SHUTDOWN", window |-> <<>>]

Nobody == [to |-> {}, msg |-> ShutdownMsg]
NotReading == [call |-> "none", timestamp |-> 0, todo |-> {}, at |-> "check", got |-> {}]

Init ==
  /\ chrono = [q \in Peer |-> [p \in Peer |-> Empty]]
  /\ lastSendBuffer = [p \in Peer |-> <<>>]
  /\ sending = [p \in Peer |-> Nobody]
  /\ Rpc!Init
  /\ peerDown = [p \in Peer |-> {}]
  /\ phase = [p \in Peer |-> "running"]
  /\ crashed = {}
  /\ reader = [p \in Peer |-> NotReading]
  /\ reads = [p \in Peer |-> 0]
  /\ results = {}

Gone(p) == p \in crashed \/ phase[p] = "stopped"
Reading(p) == reader[p].todo # {}

\* The game thread of p is outside of every call.
GameThreadFree(p) == ~Gone(p) /\ phase[p] = "running" /\ sending[p].to = {} /\ ~Reading(p)

-----------------------------------------------------------------------------
(* Sending and receiving inputs.                                            *)

KeepLast(buffer) == IF Len(buffer) > Window THEN Tail(buffer) ELSE buffer

\* The message always has Window blocks: the newest one is repeated.
Padded(buffer) ==
  [i \in 1..Window |-> IF i <= Len(buffer) THEN buffer[i] ELSE buffer[Len(buffer)]]

\* Wrong variant: the changes that are sent are computed after the local put.
LateUpdateState(p, timestamp, state) ==
  LET mine == chrono[p][p]
      after == Put(mine, Block(mine.expirationTime, timestamp, GetChanges(mine, state)))
      block == Block(mine.expirationTime, timestamp, GetChanges(after, state))
      buffer == KeepLast(Append(lastSendBuffer[p], block))
  IN /\ GameThreadFree(p)
     /\ timestamp > mine.expirationTime
     /\ chrono' = [chrono EXCEPT ![p][p] = after]
     /\ lastSendBuffer' = [lastSendBuffer EXCEPT ![p] = buffer]
     /\ sending' = [sending EXCEPT ![p] = [to |-> Others(p),
                                           msg |-> InputMsg(timestamp, Padded(buffer))]]
     /\ UNCHANGED <<rpcVars, peerDown, phase, crashed, reader, reads, results>>

UpdateState(p, timestamp, state) ==
  LET mine == chrono[p][p]
      block == Block(mine.expirationTime, timestamp, GetChanges(mine, state))
      buffer == KeepLast(Append(lastSendBuffer[p], block))
  IN /\ GameThreadFree(p)
     /\ timestamp > mine.expirationTime
     /\ chrono' = [chrono EXCEPT ![p][p] = Put(mine, block)]
     /\ lastSendBuffer' = [lastSendBuffer EXCEPT ![p] = buffer]
     /\ sending' = [sending EXCEPT ![p] = [to |-> Others(p),
                                           msg |-> InputMsg(timestamp, Padded(buffer))]]
     /\ UNCHANGED <<rpcVars, peerDown, phase, crashed, reader, reads, results>>

\* RpcServer::broadcast() and sendShutdown(): one connection after the other, without a lock.
SendNext(p, q) ==
  /\ ~Gone(p)
  /\ q \in sending[p].to
  /\ sending' = [sending EXCEPT ![p].to = @ \ {q}]
  /\ IF sending[p].msg.kind = "SHUTDOWN" /\ q \in peerDown[p]
     THEN UNCHANGED rpcVars
     ELSE Rpc!Issue(<<p, q>>, sending[p].msg)
  /\ UNCHANGED <<chrono, lastSendBuffer, peerDown, phase, crashed, reader, reads, results>>

\* q's handler for p receives a request; SHUTDOWN it answers by itself.
Deliver(p, q) ==
  /\ ~Gone(q)
  /\ \E r \in requested[<<p, q>>] :
       IF r.kind = "SHUTDOWN"
       THEN /\ Rpc!ExecuteAndAnswer(<<p, q>>, r)
            /\ peerDown' = [peerDown EXCEPT ![q] = @ \cup {p}]
       ELSE Rpc!Execute(<<p, q>>, r) /\ UNCHANGED peerDown
  /\ UNCHANGED <<chrono, lastSendBuffer, sending, phase, crashed, reader, reads, results>>

\* q's update() takes a request of p: the blocks are put, then it replies.
Update(p, q) ==
  /\ ~Gone(q)
  /\ phase[q] # "finished"
  /\ \E r \in executed[<<p, q>>] \ answered[<<p, q>>] :
       /\ chrono' = [chrono EXCEPT ![q][p] = PutAll(@, r.window)]
       /\ Rpc!Answer(<<p, q>>, r)
  /\ UNCHANGED <<lastSendBuffer, sending, peerDown, phase, crashed, reader, reads, results>>

Complete(p, q) ==
  /\ ~Gone(p)
  /\ \E r \in answered[<<p, q>>] : Rpc!Complete(<<p, q>>, r)
  /\ UNCHANGED <<chrono, lastSendBuffer, sending, peerDown, phase, crashed, reader, reads, results>>

-----------------------------------------------------------------------------
(* Reading.  peerData is a std::map, so both readers visit the peers in the *)
(* same order everywhere.  getAllInputValues() skips a peer that has shut   *)
(* down; both wait for the inputs of the peer they visit, and give up on    *)
(* one that shuts down meanwhile.                                           *)

First(peers) == CHOOSE p \in peers : \A q \in peers : p <= q
Visited(q) == First(reader[q].todo)

\* The loop goes on to the next peer, with what was learnt of this one; after the last one it returns.
Advance(q, learnt) ==
  LET r == [reader[q] EXCEPT !.todo = @ \ {Visited(q)}, !.got = @ \cup learnt, !.at = "check"]
  IN IF r.todo # {}
     THEN reader' = [reader EXCEPT ![q] = r] /\ UNCHANGED results
     ELSE /\ reader' = [reader EXCEPT ![q] = NotReading]
          /\ results' = results \cup {[by |-> q, timestamp |-> r.timestamp, call |-> r.call,
                                      got |-> r.got]}

BeginRead(q, timestamp, call) ==
  /\ GameThreadFree(q)
  /\ reads[q] < Reads
  /\ timestamp < chrono[q][q].expirationTime
  /\ reads' = [reads EXCEPT ![q] = @ + 1]
  /\ reader' = [reader EXCEPT ![q] = [call |-> call, timestamp |-> timestamp, todo |-> Peer,
                                      at |-> "check", got |-> {}]]
  /\ UNCHANGED <<chrono, lastSendBuffer, sending, rpcVars, peerDown, phase, crashed, results>>

GetAllInputValues(q, timestamp) == BeginRead(q, timestamp, "getAllInputValues")

GetFullState(q, timestamp) == BeginRead(q, timestamp, "getFullState")

\* Wrong variant: getFullState() skips a peer that has shut down, too.
CheckPeerAlways(q) ==
  /\ ~Gone(q)
  /\ Reading(q) /\ reader[q].at = "check"
  /\ IF Visited(q) \in peerDown[q]
     THEN Advance(q, {})
     ELSE reader' = [reader EXCEPT ![q].at = "wait"] /\ UNCHANGED results
  /\ UNCHANGED <<chrono, lastSendBuffer, sending, rpcVars, peerDown, phase, crashed, reads>>

\* isPeerShutDown() at the head of getAllInputValues()'s loop; getFullState() does not ask.
CheckPeer(q) ==
  /\ ~Gone(q)
  /\ Reading(q) /\ reader[q].at = "check"
  /\ IF reader[q].call = "getAllInputValues" /\ Visited(q) \in peerDown[q]
     THEN Advance(q, {})
     ELSE reader' = [reader EXCEPT ![q].at = "wait"] /\ UNCHANGED results
  /\ UNCHANGED <<chrono, lastSendBuffer, sending, rpcVars, peerDown, phase, crashed, reads>>

Arrived(q) == reader[q].timestamp < chrono[q][Visited(q)].expirationTime

TakeInputs(q) ==
  LET values == GetAll(chrono[q][Visited(q)], reader[q].timestamp) IN
  /\ ~Gone(q)
  /\ Reading(q) /\ reader[q].at = "wait"
  /\ Arrived(q)
  /\ Advance(q, {[peer |-> Visited(q), values |-> values]})
  /\ UNCHANGED <<chrono, lastSendBuffer, sending, rpcVars, peerDown, phase, crashed, reads>>

\* waitForExpirationTime() returns false after a second; the shutdown flag is read later.
TimeOut(q) ==
  /\ ~Gone(q)
  /\ Reading(q) /\ reader[q].at = "wait" /\ reader[q].call = "getAllInputValues"
  /\ ~Arrived(q)
  /\ reader' = [reader EXCEPT ![q].at = "timedOut"]
  /\ UNCHANGED <<chrono, lastSendBuffer, sending, rpcVars, peerDown, phase, crashed, reads,
                 results>>

\* Wrong variant: after a time-out it only waits again.
WaitAgain(q) ==
  /\ ~Gone(q)
  /\ Reading(q) /\ reader[q].at = "timedOut"
  /\ reader' = [reader EXCEPT ![q].at = "wait"]
  /\ UNCHANGED <<chrono, lastSendBuffer, sending, rpcVars, peerDown, phase, crashed, reads,
                 results>>

CheckDead(q) ==
  /\ ~Gone(q)
  /\ Reading(q) /\ reader[q].at = "timedOut"
  /\ IF Visited(q) \in peerDown[q]
     THEN Advance(q, {})
     ELSE reader' = [reader EXCEPT ![q].at = "wait"] /\ UNCHANGED results
  /\ UNCHANGED <<chrono, lastSendBuffer, sending, rpcVars, peerDown, phase, crashed, reads>>

\* getFullState() tests both under peerDataMutex.
GiveUp(q) ==
  /\ ~Gone(q)
  /\ Reading(q) /\ reader[q].at = "wait" /\ reader[q].call = "getFullState"
  /\ ~Arrived(q)
  /\ Visited(q) \in peerDown[q]
  /\ Advance(q, {})
  /\ UNCHANGED <<chrono, lastSendBuffer, sending, rpcVars, peerDown, phase, crashed, reads>>

-----------------------------------------------------------------------------
(* shutdown().                                                              *)

\* Wrong variant: requests that have not been answered are not counted.
BusyReceiving(p, q) == executed[<<q, p>>] \ answered[<<q, p>>] # {}

\* BiDirectionalRpc::hasWork() of p's handler for q.  The PINGs of the heartbeat, which count as work
\* until they are answered, are left out: between two of them a connection has no work of its own.
Busy(p, q) == \/ requested[<<p, q>>] \ completed[<<p, q>>] # {}
              \/ executed[<<q, p>>] \ answered[<<q, p>>] # {}

\* Wrong variant: a silent connection is never taken for dead.
NeverDead(p, q) == FALSE

\* MultiEndpointHandler::isConnectionDead(): no reply for 5 seconds (the acknowledgement of a
\* reply starts the count again).  Heartbeats are replied to while q lives, but none is sent to
\* a peer that has announced its shutdown.
MayLookDead(p, q) ==
  \/ Gone(q)
  \/ q \in peerDown[p] /\ requested[<<p, q>>] = completed[<<p, q>>]
  \/ SpuriousTimeouts

HasWork(p) == \E q \in Others(p) : Busy(p, q) /\ ~MayLookDead(p, q)

BeginShutdown(p) ==
  /\ p \in Quitters
  /\ GameThreadFree(p)
  /\ phase' = [phase EXCEPT ![p] = "flushing"]
  /\ UNCHANGED <<chrono, lastSendBuffer, sending, rpcVars, peerDown, crashed, reader, reads, results>>

Announce(p) ==
  /\ ~Gone(p)
  /\ phase[p] = "flushing"
  /\ ~HasWork(p)
  /\ phase' = [phase EXCEPT ![p] = "announcing"]
  /\ sending' = [sending EXCEPT ![p] = [to |-> Others(p), msg |-> ShutdownMsg]]
  /\ UNCHANGED <<chrono, lastSendBuffer, rpcVars, peerDown, crashed, reader, reads, results>>

\* The second flush; shuttingDown is then seen by the next update(), which is the last.
StopUpdates(p) ==
  /\ ~Gone(p)
  /\ phase[p] = "announcing"
  /\ sending[p].to = {}
  /\ ~HasWork(p)
  /\ phase' = [phase EXCEPT ![p] = "stopping"]
  /\ UNCHANGED <<chrono, lastSendBuffer, sending, rpcVars, peerDown, crashed, reader, reads, results>>

\* The last update() empties every queue and sets updateFinished.
LastUpdate(p) ==
  /\ ~Gone(p)
  /\ phase[p] = "stopping"
  /\ \A q \in Others(p) : executed[<<q, p>>] \ answered[<<q, p>>] = {}
  /\ phase' = [phase EXCEPT ![p] = "finished"]
  /\ UNCHANGED <<chrono, lastSendBuffer, sending, rpcVars, peerDown, crashed, reader, reads, results>>

\* closeSocket() and the rest: what was received since the last update() is dropped.
Stop(p) ==
  /\ ~Gone(p)
  /\ phase[p] = "finished"
  /\ phase' = [phase EXCEPT ![p] = "stopped"]
  /\ UNCHANGED <<chrono, lastSendBuffer, sending, rpcVars, peerDown, crashed, reader, reads, results>>

Crash(p) ==
  /\ p \in Crashers
  /\ ~Gone(p)
  /\ crashed' = crashed \cup {p}
  /\ UNCHANGED <<chrono, lastSendBuffer, sending, rpcVars, peerDown, phase, reader, reads, results>>

-----------------------------------------------------------------------------
SomeUpdateState(p) ==
  \E timestamp \in 1..MaxTime[p], state \in States[p] : UpdateState(p, timestamp, state)

Next ==
  \/ \E p \in Peer : SomeUpdateState(p)
  \/ \E p, q \in Peer : SendNext(p, q)
  \/ \E c \in Channel : Deliver(c[1], c[2])
  \/ \E c \in Channel : Update(c[1], c[2])
  \/ \E c \in Channel : Complete(c[1], c[2])
  \/ \E q \in Peer : \E t \in ReadTimes : GetAllInputValues(q, t)
  \/ \E q \in Peer : \E t \in ReadTimes : GetFullState(q, t)
  \/ \E q \in Peer : CheckPeer(q)
  \/ \E q \in Peer : TakeInputs(q)
  \/ \E q \in Peer : TimeOut(q)
  \/ \E q \in Peer : CheckDead(q)
  \/ \E q \in Peer : GiveUp(q)
  \/ \E p \in Peer : BeginShutdown(p)
  \/ \E p \in Peer : Announce(p)
  \/ \E p \in Peer : StopUpdates(p)
  \/ \E p \in Peer : LastUpdate(p)
  \/ \E p \in Peer : Stop(p)
  \/ \E p \in Peer : Crash(p)

Spec == Init /\ [][Next]_vars

(***************************************************************************)
(* Fairness.  The game keeps calling updateState() until it shuts down;    *)
(* broadcasts, the update() timer and shutdown()'s polling make progress;  *)
(* the RPC service delivers and completes requests while both ends live    *)
(* (EventuallyAnswered of BiDirectionalRpc).                               *)
(***************************************************************************)
Fairness ==
  /\ \A p \in Peer : /\ WF_vars(SomeUpdateState(p))
                     /\ WF_vars(\E q \in Peer : SendNext(p, q))
                     /\ WF_vars(CheckPeer(p) \/ TimeOut(p) \/ CheckDead(p) \/ GiveUp(p))
                     /\ WF_vars(TakeInputs(p))
                     /\ WF_vars(Announce(p) \/ StopUpdates(p) \/ LastUpdate(p) \/ Stop(p))
  /\ \A c \in Channel : /\ WF_vars(~Gone(c[1]) /\ Deliver(c[1], c[2]))
                        /\ WF_vars(Update(c[1], c[2]))
                        /\ WF_vars(~Gone(c[2]) /\ Complete(c[1], c[2]))

FairSpec == Spec /\ Fairness

-----------------------------------------------------------------------------
(* Properties.                                                              *)

\* The values each variable of MyPeer, and each replicated ChronoMap, may take.
TypeOK ==
  /\ \A p, q \in Peer : /\ chrono[q][p].expirationTime \in 0..MaxTime[p]
                        /\ \A e \in chrono[q][p].data : e.key \in Key /\ e.value \in Value
  /\ \A p \in Peer : Len(lastSendBuffer[p]) <= Window /\ sending[p].to \subseteq Others(p)
  /\ peerDown \in [Peer -> SUBSET Peer]
  /\ phase \in [Peer -> {"running", "flushing", "announcing", "stopping", "finished", "stopped"}]
  /\ crashed \subseteq Peer
  /\ \A p \in Peer : reader[p].todo \subseteq Peer /\ reads[p] \in 0..Reads
  /\ \A r \in results : r.by \in Peer /\ {g.peer : g \in r.got} \subseteq Peer

\* No fatal check of ChronoMap is reached, whatever order the windows of blocks arrive in.
MapsNeverDie == \A p, q \in Peer : ~chrono[q][p].fatal

\* At every time a replica covers it holds exactly the inputs its owner recorded.
ReplicaAgrees ==
  \A p, q \in Peer :
    /\ chrono[q][p].expirationTime <= chrono[p][p].expirationTime
    /\ \A t \in 0..(chrono[q][p].expirationTime - 1) :
         GetAll(chrono[q][p], t) = GetAll(chrono[p][p], t)

\* When update() has handled everything p broadcast, no block is left in futureData and the
\* replica reaches as far as the owner's map.
NothingStranded ==
  \A p \in Peer : \A q \in Others(p) :
    q \notin sending[p].to /\ answered[<<p, q>>] = requested[<<p, q>>]
      => chrono[q][p].futureData = {} /\ chrono[q][p].expirationTime = chrono[p][p].expirationTime

\* What a map says of a time it covers never changes, and it never covers less.
HistoryIsFinal ==
  [][\A p, q \in Peer :
       /\ chrono'[q][p].expirationTime >= chrono[q][p].expirationTime
       /\ \A t \in 0..(chrono[q][p].expirationTime - 1) :
            GetAll(chrono'[q][p], t) = GetAll(chrono[q][p], t)]_vars

\* shutdown() announces itself only when its inputs are everywhere: whoever knows that p has
\* shut down has all of p's inputs.  (For connections that are not taken for dead.)
FlushedBeforeShutdown ==
  \A p, q \in Peer :
    p \in peerDown[q] => chrono[q][p].expirationTime = chrono[p][p].expirationTime

\* Two reads of the same time agree about every peer both of them include, and two
\* getFullState() also agree about which peers that is, even while peers shut down.  A peer is
\* only left out of a read once it has announced its shutdown to the reader.
ReadsAgree ==
  \A r, s \in results :
    /\ r.timestamp = s.timestamp =>
         /\ \A g \in r.got, h \in s.got : g.peer = h.peer => g.values = h.values
         /\ r.call = "getFullState" /\ s.call = "getFullState" => r.got = s.got
    /\ Peer \ {g.peer : g \in r.got} \subseteq peerDown[r.by]

\* getAllInputValues() and getFullState() return, although every peer waits for every other
\* one's inputs, and although peers shut down or die.
ReadersReturn == \A q \in Peer : Reading(q) ~> ~Reading(q)

\* The same as long as no process dies: peers that shut down release the readers that wait for
\* them, and no two peers wait for each other.
ReadersReturnUnlessCrash == \A q \in Peer : Reading(q) ~> (~Reading(q) \/ crashed # {})

\* shutdown() returns, whatever the other peers do meanwhile, and also if they die.
ShutdownReturns == \A p \in Peer : phase[p] = "flushing" ~> Gone(p)
-----------------------------------------------------------------------------
(* The inductive invariant.                                                 *)

InWindow(window) == {window[i] : i \in DOMAIN window}

\* The blocks that p has sent to q, or is about to.
Issued(p, q) == UNION {InWindow(r.window) : r \in requested[<<p, q>>]}
Scheduled(p, q) ==
  Issued(p, q) \cup IF q \in sending[p].to THEN InWindow(sending[p].msg.window) ELSE {}

Made(p) == InWindow(lastSendBuffer[p]) \cup UNION {Scheduled(p, q) : q \in Others(p)}

\* The map as it was when it reached t.
Upto(map, t) == [map EXCEPT !.data = {e \in @ : e.start < t}]

Entries(b) == {[key |-> k, start |-> b.start, value |-> b.changes[k]] : k \in DOMAIN b.changes}

\* A block is what its owner's map says from its start to its end, without repetitions.
Genuine(own, b) ==
  /\ b = Block(b.start, b.end, b.changes)
  /\ b.start \in Nat /\ b.end \in Nat /\ b.start < b.end /\ b.end <= own.expirationTime
  /\ Upto(own, b.end).data = Upto(own, b.start).data \cup Entries(b)
  /\ GetChanges(Upto(own, b.start), b.changes) = b.changes

Apart(b, c) == b.end <= c.start \/ c.end <= b.start

IsMap(map) ==
  /\ map = [data |-> map.data, expirationTime |-> map.expirationTime,
            futureData |-> map.futureData, fatal |-> map.fatal]
  /\ map.expirationTime \in Nat /\ map.fatal \in BOOLEAN
  /\ \A e \in map.data : e.start \in Nat /\ e.start < map.expirationTime

\* The blocks a peer made cut its own map into pieces that do not overlap.
History(own, blocks) ==
  /\ IsMap(own) /\ own.futureData = {}
  /\ \A b \in blocks : Genuine(own, b)
  /\ \A b, c \in blocks : b = c \/ Apart(b, c)

\* A replica is its owner's map up to the end of some block; only later blocks wait.
Replica(own, blocks, map) ==
  /\ IsMap(map)
  /\ map.expirationTime <= own.expirationTime
  /\ map.data = Upto(own, map.expirationTime).data
  /\ \A b \in blocks : b.end <= map.expirationTime \/ map.expirationTime <= b.start
  /\ IsFiniteSet(map.futureData) /\ map.futureData \subseteq blocks
  /\ \A b \in map.futureData : map.expirationTime < b.start

Has(map, b) == b.end <= map.expirationTime \/ b \in map.futureData

\* Everything p records reaches q in the end: the blocks sent to q are consecutive from 0 on, up
\* to the last one recorded.
Consecutive(p, q) ==
  /\ InWindow(lastSendBuffer[p]) \subseteq Scheduled(p, q)
  /\ \A b \in Scheduled(p, q) : b.start = 0 \/ \E c \in Scheduled(p, q) : c.end = b.start
  /\ \/ chrono[p][p].expirationTime = 0
     \/ \E b \in Scheduled(p, q) : b.end = chrono[p][p].expirationTime

IsWindow(window) == window \in Seq(InWindow(window))
IsMessage(msg) == IsWindow(msg.window) /\ (msg.kind = "SHUTDOWN" => msg.window = <<>>)

RpcShape ==
  /\ DOMAIN requested = Channel /\ DOMAIN executed = Channel
  /\ DOMAIN answered = Channel /\ DOMAIN completed = Channel
  /\ \A c \in Channel : /\ completed[c] \subseteq answered[c]
                        /\ answered[c] \subseteq executed[c]
                        /\ executed[c] \subseteq requested[c]
                        /\ \A r \in requested[c] : IsMessage(r)

SendShape ==
  /\ DOMAIN lastSendBuffer = Peer /\ DOMAIN sending = Peer
  /\ \A p \in Peer :
       /\ IsWindow(lastSendBuffer[p]) /\ Len(lastSendBuffer[p]) <= Window
       /\ sending[p] = [to |-> sending[p].to, msg |-> sending[p].msg]
       /\ sending[p].to \subseteq Others(p)
       /\ IsMessage(sending[p].msg)

\* Every map is its owner's, as far as it goes, and has what was answered.
Replication ==
  /\ DOMAIN chrono = Peer /\ \A q \in Peer : DOMAIN chrono[q] = Peer
  /\ \A p \in Peer : History(chrono[p][p], Made(p))
  /\ \A p \in Peer : \A q \in Others(p) :
       /\ Replica(chrono[p][p], Made(p), chrono[q][p])
       /\ Consecutive(p, q)
       /\ \A r \in answered[<<p, q>>] : \A b \in InWindow(r.window) : Has(chrono[q][p], b)

Announced(p) == phase[p] \notin {"running", "flushing"}

\* A peer that knows of p's shutdown, or still can, has all that p recorded.
Shutdowns ==
  /\ DOMAIN peerDown = Peer /\ DOMAIN phase = Peer
  /\ \A p \in Peer : phase[p] = "flushing" => sending[p].to = {}
  /\ \A p \in Peer : sending[p].to # {} /\ sending[p].msg.kind = "SHUTDOWN" => Announced(p)
  /\ \A p \in Peer : \A q \in Others(p) : \A r \in requested[<<p, q>>] :
       r.kind = "SHUTDOWN" => Announced(p)
  /\ \A q \in Peer : \A p \in peerDown[q] : p \in Others(q) /\ Announced(p)

LateForShutdown ==
  \A p \in Peer : \A q \in Others(p) : Announced(p) =>
    \/ chrono[q][p].expirationTime = chrono[p][p].expirationTime
    \/ Gone(q) /\ p \notin peerDown[q]

\* What a read has seen: what the owners recorded, of all peers but those known to be down.
Saw(maps, down, read, todo) ==
  /\ read.timestamp \in Nat
  /\ \A g \in read.got : /\ g = [peer |-> g.peer, values |-> g.values]
                         /\ g.peer \in Peer
                         /\ read.timestamp < maps[g.peer][g.peer].expirationTime
                         /\ g.values = GetAll(maps[g.peer][g.peer], read.timestamp)
  /\ \A p \in (Peer \ todo) \ {g.peer : g \in read.got} :
       /\ p \in down
       /\ read.call = "getFullState" => maps[p][p].expirationTime <= read.timestamp

ReadsSaw ==
  /\ DOMAIN reader = Peer
  /\ \A q \in Peer : /\ reader[q] = [call |-> reader[q].call, timestamp |-> reader[q].timestamp,
                                     todo |-> reader[q].todo, at |-> reader[q].at,
                                     got |-> reader[q].got]
                     /\ reader[q].todo \subseteq Peer
                     /\ reader[q].at = "timedOut" => reader[q].call = "getAllInputValues"
                     /\ Reading(q) => Saw(chrono, peerDown[q], reader[q], reader[q].todo)
  /\ \A r \in results : r.by \in Peer /\ Saw(chrono, peerDown[r.by], r, {})

\* The games' first states are not empty: the code's addNextTimeBlock() dies on an empty one.
GamesHaveInputs == \A p \in Peer : \A state \in States[p] : DOMAIN state # {}

FirstInputs ==
  \A p \in Peer : chrono[p][p].expirationTime = 0 \/ \E e \in chrono[p][p].data : e.start = 0

PeerIInv == RpcShape /\ SendShape /\ Replication /\ Shutdowns

-----------------------------------------------------------------------------
(* MyPeer as a user of RpcService.                                          *)

\* Which ids stand for the uuids that have been drawn (see InputMsg).
HasId(msg, now) == IF msg.kind = "SHUTDOWN" THEN msg.uuid = 0 ELSE msg.uuid \in 1..now

Sent ==
  /\ \A p \in Peer : lastSendBuffer[p] \in Seq(Blocks) /\ sending[p].msg \in Messages
  /\ \A c \in Channel : requested[c] \subseteq Messages
  /\ \A p \in Peer : \A q \in Others(p) : \A r \in requested[<<p, q>>] :
       HasId(r, chrono[p][p].expirationTime)
  /\ \A p \in Peer : sending[p].to # {} => HasId(sending[p].msg, chrono[p][p].expirationTime)

\* The guard of Rpc!Issue holds whenever there is something to send, so that SendNext leaves out
\* nothing that the code sends.  As far as ids go this is a fact about the numbers that stand for
\* the uuids, not about the code.
NeverSentTwice ==
  \A p \in Peer : \A q \in sending[p].to : \A r \in requested[<<p, q>>] :
    r.uuid # sending[p].msg.uuid /\ r.barrier <= sending[p].msg.barrier
=============================================================================
