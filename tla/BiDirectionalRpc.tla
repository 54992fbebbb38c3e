-------------------------- MODULE BiDirectionalRpc --------------------------
(***************************************************************************)
(* The request/reply engine of base/BiDirectionalRpc.{hpp,cpp}: two        *)
(* handlers, one at each end of a connection, that send each other         *)
(* requests, replies and acknowledgements over UDP and resend until they   *)
(* are answered.                                                           *)
(*                                                                         *)
(* Every public member function locks the handler's recursive mutex for    *)
(* its whole body, so each is one action.  A packet may carry a batch of   *)
(* requests or of replies; the network holds the entries of the packets,   *)
(* and receiving a packet is a run of steps, one per entry, in any order   *)
(* (receive() handles the entries one after the other).  Entries handled   *)
(* back to back are among the behaviours below, so a property of the model *)
(* holds of the batched code.                                              *)
(*                                                                         *)
(* An unordered_map keyed by RpcId is the set of its entries; payloads     *)
(* are kept only as far as the code branches on them.  LOG(FATAL) and a    *)
(* failed at() end the process: the node joins `fatal' and stops.          *)
(***************************************************************************)
EXTENDS Integers, FiniteSets

CONSTANTS Left, Right,    \* the two ends of the connection
          Uuid,           \* the values sole::uuid4() can return
          MaxBarrier,     \* bound on the calls of barrier()
          Budget,         \* Budget[n]: bound on the requests n issues
          LruCapacity,    \* capacity of the two LRU caches (128 * 1024)
          InitialPings,   \* rounds of initTimeShift() (20)
          Calls           \* the application calls a run makes

ASSUME EndsAssumption == Left # Right
ASSUME BoundsAssumption == /\ MaxBarrier \in Nat
                           /\ InitialPings \in Nat
                           /\ LruCapacity \in Nat \ {0}
                           /\ Budget \in [{Left, Right} -> Nat]

Node == {Left, Right}
Other(n) == IF n = Left THEN Right ELSE Left

Payload == {"APP", "PING", "SHUTDOWN"}
Rpc == [barrier : 0..MaxBarrier, uuid : Uuid, payload : Payload]
Message == [header : {"REQUEST", "REPLY", "ACKNOWLEDGE"}, to : Node, rpc : Rpc]

VARIABLES
  delayedRequests,      \* waiting for the requests of an older barrier
  outgoingRequests,     \* sent, not yet replied
  oneWayRequests,       \* ids whose reply the application will not read
  incomingReplies,      \* replies the application has not read
  processedReplies,     \* LRU cache of the replies it has read
  onBarrier,
  requestSendTime,      \* keys of ClockSynchronizer::requestSendTimeMap
  incomingRequests,     \* received, not yet replied
  processedRequests,    \* LRU cache of the requests replied to
  outgoingReplies,      \* replied, not yet acknowledged
  requestReceiveTime,   \* keys of ClockSynchronizer::requestReceiveTimeMap
  shuttingDown,         \* ends whose peer has announced its shutdown
  closing,              \* ends inside sendShutdown(), past its test
  pings, awaited,       \* initTimeShift(): rounds begun, the ping it polls for
  fatal,                \* ends that have died of a LOG(FATAL)
  net,                  \* entries of the packets that may still arrive
  issued, accepted      \* history: every request issued, every one executed

requesterVars == <<delayedRequests, outgoingRequests, oneWayRequests, onBarrier, issued>>
replyVars == <<incomingReplies, processedReplies>>
replierVars == <<incomingRequests, processedRequests, outgoingReplies, requestReceiveTime,
                 shuttingDown, accepted>>
threadVars == <<closing, pings, awaited>>
vars == <<requesterVars, replyVars, requestSendTime, replierVars, threadVars, fatal, net>>

-----------------------------------------------------------------------------
RequestMsg(n, r) == [header |-> "REQUEST", to |-> Other(n), rpc |-> r]
ReplyMsg(n, r)   == [header |-> "REPLY", to |-> Other(n), rpc |-> r]
AckMsg(n, r)     == [header |-> "ACKNOWLEDGE", to |-> Other(n), rpc |-> r]

Send(msgs) == net' = net \cup msgs

\* A step of n that dies when `bad' holds.
DieIf(n, bad) == fatal' = IF bad THEN fatal \cup {n} ELSE fatal

\* lru_cache::put: at capacity the oldest entry goes; which one that is, is abstracted.
LruPut(cache, r) ==
  IF Cardinality(cache \cup {r}) <= LruCapacity
  THEN {cache \cup {r}}
  ELSE {(cache \ {old}) \cup {r} : old \in cache \ {r}}

Init ==
  /\ delayedRequests = [n \in Node |-> {}]
  /\ outgoingRequests = [n \in Node |-> {}]
  /\ oneWayRequests = [n \in Node |-> {}]
  /\ incomingReplies = [n \in Node |-> {}]
  /\ processedReplies = [n \in Node |-> {}]
  /\ onBarrier = [n \in Node |-> 0]
  /\ requestSendTime = [n \in Node |-> {}]
  /\ incomingRequests = [n \in Node |-> {}]
  /\ processedRequests = [n \in Node |-> {}]
  /\ outgoingReplies = [n \in Node |-> {}]
  /\ requestReceiveTime = [n \in Node |-> {}]
  /\ shuttingDown = {}
  /\ closing = {}
  /\ pings = [n \in Node |-> 0]
  /\ awaited = [n \in Node |-> {}]
  /\ fatal = {}
  /\ net = {}
  /\ issued = [n \in Node |-> {}]
  /\ accepted = [n \in Node |-> {}]

-----------------------------------------------------------------------------
(* Issuing requests.                                                        *)

\* RpcId(onBarrier, uuid4()): a uuid this end has not used.
NewRpcs(n, payload) ==
  {r \in [barrier : {onBarrier[n]}, uuid : Uuid, payload : {payload}] :
     /\ Cardinality(issued[n]) < Budget[n]
     /\ \A q \in issued[n] : q.uuid # r.uuid}

\* createRequest() for each of rs, and a packet for each.
SendNow(n, rs) ==
  /\ requestSendTime' = [requestSendTime EXCEPT ![n] = @ \cup rs]
  /\ DieIf(n, rs \cap requestSendTime[n] # {})
  /\ Send({RequestMsg(n, r) : r \in rs})

\* Wrong variant: barriers are ignored, every request is sent at once.
RequestWithIdEager(n, r) ==
  /\ issued' = [issued EXCEPT ![n] = @ \cup {r}]
  /\ outgoingRequests' = [outgoingRequests EXCEPT ![n] = @ \cup {r}]
  /\ SendNow(n, {r})
  /\ UNCHANGED delayedRequests

\* outgoingRequests.begin() is any entry: the test looks at one of them.
RequestWithId(n, r) ==
  /\ issued' = [issued EXCEPT ![n] = @ \cup {r}]
  /\ \/ /\ \/ outgoingRequests[n] = {}
           \/ \E first \in outgoingRequests[n] : first.barrier = onBarrier[n]
        /\ outgoingRequests' = [outgoingRequests EXCEPT ![n] = @ \cup {r}]
        /\ SendNow(n, {r})
        /\ UNCHANGED delayedRequests
     \/ /\ \E first \in outgoingRequests[n] : first.barrier # onBarrier[n]
        /\ delayedRequests' = [delayedRequests EXCEPT ![n] = @ \cup {r}]
        /\ UNCHANGED <<outgoingRequests, requestSendTime, fatal, net>>

DoRequest(n, r) ==
  /\ RequestWithId(n, r)
  /\ UNCHANGED <<oneWayRequests, onBarrier, replyVars, replierVars>>

DoRequestOneWay(n, r) ==
  /\ oneWayRequests' = [oneWayRequests EXCEPT ![n] = @ \cup {r}]
  /\ RequestWithId(n, r)
  /\ UNCHANGED <<onBarrier, replyVars, replierVars>>

Request(n) ==
  /\ "request" \in Calls
  /\ \E r \in NewRpcs(n, "APP") : DoRequest(n, r)
  /\ UNCHANGED threadVars

RequestOneWay(n) ==
  /\ "requestOneWay" \in Calls
  /\ \E r \in NewRpcs(n, "APP") : DoRequestOneWay(n, r)
  /\ UNCHANGED threadVars

Barrier(n) ==
  /\ onBarrier[n] < MaxBarrier
  /\ onBarrier' = [onBarrier EXCEPT ![n] = @ + 1]
  /\ UNCHANGED <<delayedRequests, outgoingRequests, oneWayRequests, issued, replyVars,
                 requestSendTime, replierVars, threadVars, fatal, net>>

\* sendShutdown() tests shuttingDown without the lock, then issues its request:
\* the other end's SHUTDOWN may arrive in between.
SendShutdown(n) ==
  /\ "sendShutdown" \in Calls
  /\ n \notin shuttingDown \cup closing
  /\ closing' = closing \cup {n}
  /\ UNCHANGED <<requesterVars, replyVars, requestSendTime, replierVars, pings, awaited,
                 fatal, net>>

SendShutdownRequest(n) ==
  /\ n \in closing
  /\ closing' = closing \ {n}
  /\ \E r \in NewRpcs(n, "SHUTDOWN") : DoRequestOneWay(n, r)
  /\ UNCHANGED <<pings, awaited>>

-----------------------------------------------------------------------------
(* initTimeShift(): a thread that sends a PING and polls for its reply,     *)
(* InitialPings times, beside the threads that receive and consume.         *)

\* Wrong variant: the ping is a one-way request, whose reply is discarded.
InitTimeShiftPingOneWay(n) ==
  /\ pings[n] < InitialPings
  /\ awaited[n] = {}
  /\ \E r \in NewRpcs(n, "PING") : /\ DoRequestOneWay(n, r)
                                   /\ awaited' = [awaited EXCEPT ![n] = {r}]
  /\ pings' = [pings EXCEPT ![n] = @ + 1]
  /\ UNCHANGED closing

InitTimeShiftPing(n) ==
  /\ pings[n] < InitialPings
  /\ awaited[n] = {}
  /\ \E r \in NewRpcs(n, "PING") : /\ DoRequest(n, r)
                                   /\ awaited' = [awaited EXCEPT ![n] = {r}]
  /\ pings' = [pings EXCEPT ![n] = @ + 1]
  /\ UNCHANGED closing

InitTimeShiftPong(n) ==
  /\ awaited[n] # {}
  /\ awaited[n] \subseteq incomingReplies[n] \cup processedReplies[n]
  /\ awaited' = [awaited EXCEPT ![n] = {}]
  /\ UNCHANGED <<requesterVars, replyVars, requestSendTime, replierVars, closing, pings,
                 fatal, net>>

-----------------------------------------------------------------------------
(* Retransmission.  The batch is a random draw without repetition, up to   *)
(* the packet size: any non-empty subset of what is outstanding.           *)

ResendReplies(n, batch) ==
  /\ batch # {}
  /\ batch \subseteq outgoingReplies[n]
  /\ Send({ReplyMsg(n, r) : r \in batch})
  /\ DieIf(n, ~(batch \subseteq requestReceiveTime[n]))
  /\ UNCHANGED <<requesterVars, replyVars, requestSendTime, replierVars, threadVars>>

\* Wrong variant: one-way requests are sent once and never again.
ResendRequestsTwoWayOnly(n, batch) ==
  /\ outgoingReplies[n] = {}
  /\ batch # {}
  /\ batch \subseteq outgoingRequests[n] \ oneWayRequests[n]
  /\ Send({RequestMsg(n, r) : r \in batch})
  /\ UNCHANGED <<requesterVars, replyVars, requestSendTime, replierVars, threadVars, fatal>>

ResendRequests(n, batch) ==
  /\ outgoingReplies[n] = {}
  /\ batch # {}
  /\ batch \subseteq outgoingRequests[n]
  /\ Send({RequestMsg(n, r) : r \in batch})
  /\ UNCHANGED <<requesterVars, replyVars, requestSendTime, replierVars, threadVars, fatal>>

ResendRandomOutgoingMessage(n) ==
  \/ \E batch \in SUBSET outgoingReplies[n] : ResendReplies(n, batch)
  \/ \E batch \in SUBSET outgoingRequests[n] : ResendRequests(n, batch)

HeartbeatPing(n) ==
  /\ "heartbeat" \in Calls
  /\ outgoingReplies[n] = {} /\ outgoingRequests[n] = {}
  /\ n \notin shuttingDown
  /\ \E r \in NewRpcs(n, "PING") : DoRequestOneWay(n, r)
  /\ UNCHANGED threadVars

Heartbeat(n) == ResendRandomOutgoingMessage(n) \/ HeartbeatPing(n)

-----------------------------------------------------------------------------
(* The replying side.                                                       *)

\* Wrong variant: the reply is sent once and not kept for resending.
DoReplyFireAndForget(n, r, pending, times) ==
  /\ incomingRequests' = [incomingRequests EXCEPT ![n] = pending \ {r}]
  /\ \E cache \in LruPut(processedRequests[n], r) :
       processedRequests' = [processedRequests EXCEPT ![n] = cache]
  /\ requestReceiveTime' = [requestReceiveTime EXCEPT ![n] = times \ {r}]
  /\ Send({ReplyMsg(n, r)})
  /\ UNCHANGED outgoingReplies

\* reply() for r, given the entries of incomingRequests and of
\* requestReceiveTime it finds: the reply is recorded, kept and sent.
DoReply(n, r, pending, times) ==
  /\ incomingRequests' = [incomingRequests EXCEPT ![n] = pending \ {r}]
  /\ \E cache \in LruPut(processedRequests[n], r) :
       processedRequests' = [processedRequests EXCEPT ![n] = cache]
  /\ outgoingReplies' = [outgoingReplies EXCEPT ![n] = @ \cup {r}]
  /\ requestReceiveTime' = [requestReceiveTime EXCEPT ![n] = times]
  /\ Send({ReplyMsg(n, r)})

\* The application answers a request it got from getFirstIncomingRequest().
Reply(n, r) ==
  /\ r \in incomingRequests[n]
  /\ DoReply(n, r, incomingRequests[n], requestReceiveTime[n])
  /\ DieIf(n, r \notin requestReceiveTime[n])
  /\ UNCHANGED <<requesterVars, replyVars, requestSendTime, shuttingDown, accepted, threadVars>>

\* Wrong variant: requests already answered are not recognised.
KnownRequestIncomingOnly(n, r) == r \in incomingRequests[n]

\* A request that is known from the maps or the cache.
KnownRequest(n, r) == r \in incomingRequests[n] \cup processedRequests[n]

\* handleRequest(): an unknown request is taken; PING and SHUTDOWN are answered at once.
TakeRequest(n, r) ==
  /\ accepted' = [accepted EXCEPT ![n] = @ \cup {r}]
  /\ DieIf(n, r \in requestReceiveTime[n])
  /\ shuttingDown' = IF r.payload = "SHUTDOWN" THEN shuttingDown \cup {n} ELSE shuttingDown
  /\ IF r.payload \in {"PING", "SHUTDOWN"}
     THEN DoReply(n, r, incomingRequests[n] \cup {r}, requestReceiveTime[n] \cup {r})
     ELSE /\ incomingRequests' = [incomingRequests EXCEPT ![n] = @ \cup {r}]
          /\ requestReceiveTime' = [requestReceiveTime EXCEPT ![n] = @ \cup {r}]
          /\ UNCHANGED <<processedRequests, outgoingReplies, net>>

\* handleRequest(): the cache forgot the request, but its reply is still unacknowledged.
ReplyAgain(n, r) ==
  /\ Send({ReplyMsg(n, r)})
  /\ DieIf(n, r \notin requestReceiveTime[n])
  /\ UNCHANGED replierVars

HandleRequest(n, r) ==
  /\ ~KnownRequest(n, r)
  /\ IF r \in outgoingReplies[n] THEN ReplyAgain(n, r) ELSE TakeRequest(n, r)
  /\ UNCHANGED <<requesterVars, replyVars, requestSendTime, threadVars>>

\* Wrong variant: the receive time is erased, the reply is kept.
HandleAcknowledgeKeepsReply(n, r) ==
  /\ r \in outgoingReplies[n]
  /\ DieIf(n, r \notin requestReceiveTime[n])
  /\ requestReceiveTime' = [requestReceiveTime EXCEPT ![n] = @ \ {r}]
  /\ UNCHANGED <<requesterVars, replyVars, requestSendTime, incomingRequests, processedRequests,
                 outgoingReplies, shuttingDown, accepted, threadVars, net>>

\* receive(), ACKNOWLEDGE: the reply need not be kept any longer.
HandleAcknowledge(n, r) ==
  /\ r \in outgoingReplies[n]
  /\ DieIf(n, r \notin requestReceiveTime[n])
  /\ requestReceiveTime' = [requestReceiveTime EXCEPT ![n] = @ \ {r}]
  /\ outgoingReplies' = [outgoingReplies EXCEPT ![n] = @ \ {r}]
  /\ UNCHANGED <<requesterVars, replyVars, requestSendTime, incomingRequests, processedRequests,
                 shuttingDown, accepted, threadVars, net>>

-----------------------------------------------------------------------------
(* The requesting side.                                                     *)

\* Wrong variants: the next barrier is never released, or all barriers are at once.
ReleasedNever(n, remaining) == {}
ReleasedAll(n, remaining) == IF remaining # {} THEN {} ELSE delayedRequests[n]

\* tryToSendBarrier(): what leaves delayedRequests once `remaining' is outstanding.
Released(n, remaining) ==
  IF remaining # {} THEN {}
  ELSE {d \in delayedRequests[n] : \A e \in delayedRequests[n] : d.barrier <= e.barrier}

\* handleReply() for an outstanding request.
TakeReply(n, r) ==
  LET remaining == outgoingRequests[n] \ {r}
      released == Released(n, remaining)
  IN /\ r \in outgoingRequests[n]
     /\ outgoingRequests' = [outgoingRequests EXCEPT ![n] = remaining \cup released]
     /\ delayedRequests' = [delayedRequests EXCEPT ![n] = @ \ released]
     /\ DieIf(n, \/ released \cap requestSendTime[n] # {}
                 \/ r \notin requestSendTime[n])
     /\ requestSendTime' = [requestSendTime EXCEPT ![n] = (@ \cup released) \ {r}]
     /\ IF r \in oneWayRequests[n]
        THEN /\ oneWayRequests' = [oneWayRequests EXCEPT ![n] = @ \ {r}]
             /\ UNCHANGED incomingReplies
        ELSE /\ incomingReplies' = [incomingReplies EXCEPT ![n] = @ \cup {r}]
             /\ UNCHANGED oneWayRequests
     /\ Send({RequestMsg(n, q) : q \in released} \cup {AckMsg(n, r)})
     /\ UNCHANGED <<onBarrier, issued, processedReplies>>

\* Wrong variant: a repeated reply is ignored.
AcknowledgeOnce(n, r) ==
  UNCHANGED <<requesterVars, replyVars, requestSendTime, fatal, net>>

\* handleReply() for any other reply: it was received before, acknowledge it again.
AcknowledgeAgain(n, r) ==
  /\ Send({AckMsg(n, r)})
  /\ UNCHANGED <<requesterVars, replyVars, requestSendTime, fatal>>

HandleReply(n, r) ==
  /\ IF r \in incomingReplies[n] \cup processedReplies[n] \/ r \notin outgoingRequests[n]
     THEN AcknowledgeAgain(n, r)
     ELSE TakeReply(n, r)
  /\ UNCHANGED <<replierVars, threadVars>>

\* getFirstIncomingReply() (begin() is any entry) and consumeIncomingReplyWithId().
ConsumeReply(n, r) ==
  /\ r \in incomingReplies[n]
  /\ \E cache \in LruPut(processedReplies[n], r) :
       processedReplies' = [processedReplies EXCEPT ![n] = cache]
  /\ incomingReplies' = [incomingReplies EXCEPT ![n] = @ \ {r}]
  /\ UNCHANGED <<requesterVars, requestSendTime, replierVars, threadVars, fatal, net>>

-----------------------------------------------------------------------------
\* UDP, the rate limit of UdpBiDirectionalRpc::send and the `flaky' switch: a packet may vanish.
Lose(m) ==
  /\ "lose" \in Calls
  /\ m \in net
  /\ net' = net \ {m}
  /\ UNCHANGED <<requesterVars, replyVars, requestSendTime, replierVars, threadVars, fatal>>

\* receive(): an entry of a packet that has arrived.
ReceiveMsg(n, m) ==
  /\ m.to = n
  /\ \/ m.header = "REQUEST" /\ HandleRequest(n, m.rpc)
     \/ m.header = "REPLY" /\ HandleReply(n, m.rpc)
     \/ m.header = "ACKNOWLEDGE" /\ HandleAcknowledge(n, m.rpc)

Step(n) ==
  \/ Request(n) \/ RequestOneWay(n) \/ Barrier(n)
  \/ SendShutdown(n) \/ SendShutdownRequest(n)
  \/ InitTimeShiftPing(n) \/ InitTimeShiftPong(n)
  \/ Heartbeat(n)
  \/ \E m \in net : ReceiveMsg(n, m)
  \/ \E r \in incomingRequests[n] : Reply(n, r)
  \/ \E r \in incomingReplies[n] : ConsumeReply(n, r)

Next == \/ \E n \in Node : n \notin fatal /\ Step(n)
        \/ \E m \in net : Lose(m)

Spec == Init /\ [][Next]_vars

(***************************************************************************)
(* Fairness.  heartbeat() runs from a timer and draws what it resends at   *)
(* random, so an entry that stays outstanding is drawn again; the network  *)
(* may lose any packet, but not every copy of one that is resent for ever; *)
(* the application answers, and the initTimeShift() thread keeps polling.  *)
(***************************************************************************)
ResendsReply(n, u) ==
  \E batch \in SUBSET outgoingReplies[n] :
    (\E r \in batch : r.uuid = u) /\ ResendReplies(n, batch)

ResendsRequest(n, u) ==
  \E batch \in SUBSET outgoingRequests[n] :
    (\E r \in batch : r.uuid = u) /\ ResendRequests(n, batch)

Receives(n, header, u) ==
  \E m \in net : m.header = header /\ m.rpc.uuid = u /\ ReceiveMsg(n, m)

\* The ends that issue requests.
Active == {n \in Node : Budget[n] > 0}

Fairness ==
  \A n \in Active :
    /\ \A u \in Uuid : /\ WF_vars(ResendsRequest(n, u))
                       /\ WF_vars(ResendsReply(Other(n), u))
                       /\ SF_vars(Receives(Other(n), "REQUEST", u))
                       /\ SF_vars(Receives(n, "REPLY", u))
                       /\ SF_vars(Receives(Other(n), "ACKNOWLEDGE", u))
    /\ WF_vars(\E r \in incomingRequests[Other(n)] : Reply(Other(n), r))
    /\ WF_vars(InitTimeShiftPong(n))

FairSpec == Spec /\ Fairness

-----------------------------------------------------------------------------
Outstanding(n) == delayedRequests[n] \cup outgoingRequests[n]

\* Every map and set of a handler holds requests, and only messages are in flight.
TypeOK ==
  /\ delayedRequests \in [Node -> SUBSET Rpc]
  /\ outgoingRequests \in [Node -> SUBSET Rpc]
  /\ oneWayRequests \in [Node -> SUBSET Rpc]
  /\ incomingReplies \in [Node -> SUBSET Rpc]
  /\ processedReplies \in [Node -> SUBSET Rpc]
  /\ requestSendTime \in [Node -> SUBSET Rpc]
  /\ incomingRequests \in [Node -> SUBSET Rpc]
  /\ processedRequests \in [Node -> SUBSET Rpc]
  /\ outgoingReplies \in [Node -> SUBSET Rpc]
  /\ requestReceiveTime \in [Node -> SUBSET Rpc]
  /\ awaited \in [Node -> SUBSET Rpc]
  /\ issued \in [Node -> SUBSET Rpc]
  /\ accepted \in [Node -> SUBSET Rpc]
  /\ onBarrier \in [Node -> 0..MaxBarrier]
  /\ pings \in [Node -> 0..InitialPings]
  /\ shuttingDown \subseteq Node /\ closing \subseteq Node /\ fatal \subseteq Node
  /\ net \subseteq Message

\* No sequence of calls, resends, duplicates and evictions reaches one of the
\* fatal checks of ClockSynchronizer (duplicate request, unknown receive time)
\* that BiDirectionalRpc.cpp calls while it updates its own maps.
NoFatal == fatal = {}

\* A request that was executed and that its issuer still waits for is never
\* lost track of: it is being executed or its reply is still being resent,
\* even when the processedRequests cache has forgotten it.
ExecutedIsHeld ==
  \A n \in Node :
    accepted[n] \cap outgoingRequests[Other(n)] \subseteq incomingRequests[n] \cup outgoingReplies[n]

\* n executes r in this step (addIncomingRequest).
Executes(n, r) == r \in requestReceiveTime'[n] \ requestReceiveTime[n]

\* However often a request is resent, duplicated or delayed, the handler executes
\* it a second time only when its issuer has stopped waiting for it.
NoReplayWhileAwaited ==
  [][\A n \in Node : \A r \in accepted[n] : Executes(n, r) => r \notin Outstanding(Other(n))]_vars

\* While the LRU cache has not overflowed, a request is executed at most once.
AtMostOnce ==
  [][\A n \in Node : \A r \in accepted[n] : ~Executes(n, r)]_vars

\* barrier(): when a request is executed, every request its issuer made before
\* an earlier barrier has been executed, answered and forgotten by the issuer.
BarrierOrder ==
  \A n \in Node : \A r \in accepted[n] : \A q \in issued[Other(n)] :
    q.barrier < r.barrier => q \in accepted[n] /\ q \notin Outstanding(Other(n))

\* A delayed request always has an older request in front of it: the reply to
\* that one will release it, nothing else would.
DelayedBehindOlder ==
  \A n \in Node : \A d \in delayedRequests[n] :
    \E q \in outgoingRequests[n] : q.barrier < d.barrier

\* Every request gets its answer, over a network that loses packets.
EventuallyAnswered ==
  \A n \in Active : \A u \in Uuid :
    (\E r \in issued[n] : r.uuid = u) ~> (\A r \in Outstanding(n) : r.uuid # u)

\* Once the requests stop, both ends fall silent: nothing is left to resend.
EventuallyQuiet ==
  <>[](\A n \in Node : outgoingRequests[n] = {} /\ outgoingReplies[n] = {})

\* initTimeShift() gets out of its polling loop.
InitTimeShiftProceeds ==
  \A n \in Active : (awaited[n] # {}) ~> (awaited[n] = {})

-----------------------------------------------------------------------------
(* The inductive invariant, in parts.                                       *)

\* The clock's two maps mirror the handler's: what is outstanding has a send
\* time, what is being executed or waits for an acknowledgement a receive time.
ClockMapsMatch ==
  \A n \in Node : /\ requestSendTime[n] = outgoingRequests[n]
                  /\ requestReceiveTime[n] = incomingRequests[n] \cup outgoingReplies[n]

\* Outstanding requests were issued, are either sent or delayed, and no request
\* is from a barrier that has not begun.
RequestsIssued ==
  \A n \in Node : /\ Outstanding(n) \subseteq issued[n]
                  /\ delayedRequests[n] \cap outgoingRequests[n] = {}
                  /\ \A r \in issued[n] : r.barrier <= onBarrier[n]

\* The requests in flight are of one barrier, the delayed ones of later barriers.
BarriersSeparate ==
  \A n \in Node :
    /\ \A q, r \in outgoingRequests[n] : q.barrier = r.barrier
    /\ \A q \in outgoingRequests[n], d \in delayedRequests[n] : q.barrier < d.barrier
    /\ outgoingRequests[n] = {} => delayedRequests[n] = {}

\* When a request has been sent, nothing older is outstanding.
SentMeansOlderDone ==
  \A n \in Node : \A r \in issued[n] \ delayedRequests[n], q \in issued[n] :
    q.barrier < r.barrier => q \notin Outstanding(n)

\* A request that is no longer outstanding was executed.
DoneMeansExecuted ==
  \A n \in Node : issued[n] \ Outstanding(n) \subseteq accepted[Other(n)]

\* A reply that was received belongs to a request that is no longer outstanding.
RepliesDone ==
  \A n \in Node : incomingReplies[n] \cup processedReplies[n] \subseteq issued[n] \ Outstanding(n)

\* What is executed was sent, what is held was executed, and a request is either
\* being executed or replied to, never both.
ExecutedWasSent ==
  \A n \in Node : /\ accepted[n] \subseteq issued[Other(n)] \ delayedRequests[Other(n)]
                  /\ incomingRequests[n] \cup outgoingReplies[n] \subseteq accepted[n]
                  /\ incomingRequests[n] \cap outgoingReplies[n] = {}

\* A request in flight was sent, a reply in flight was executed, and an
\* acknowledgement in flight is of a request that is no longer outstanding.
MessagesTrue ==
  \A m \in net :
    /\ m.header = "REQUEST" => m.rpc \in issued[Other(m.to)] \ delayedRequests[Other(m.to)]
    /\ m.header = "REPLY" => m.rpc \in accepted[Other(m.to)]
    /\ m.header = "ACKNOWLEDGE" => m.rpc \in issued[Other(m.to)] \ Outstanding(Other(m.to))

IInv == /\ TypeOK /\ NoFatal /\ ClockMapsMatch
        /\ RequestsIssued /\ BarriersSeparate /\ SentMeansOlderDone
        /\ DoneMeansExecuted /\ RepliesDone
        /\ ExecutedWasSent /\ MessagesTrue /\ ExecutedIsHeld

\* While its issuer waits, a request that has been replied to is not being executed: the
\* reply in flight is not that of an earlier execution.
RepliesCurrent ==
  \A m \in net : m.header = "REPLY" =>
    m.rpc \notin incomingRequests[Other(m.to)] \cap outgoingRequests[m.to]

\* With caches that are large enough for everything that is issued, nothing that was executed
\* is forgotten.
CachesSuffice == \A n \in Node : Budget[n] <= LruCapacity

NothingForgotten ==
  \A n \in Node : /\ IsFiniteSet(issued[n]) /\ Cardinality(issued[n]) <= Budget[n]
                  /\ processedRequests[n] \subseteq accepted[n]
                  /\ accepted[n] \subseteq incomingRequests[n] \cup processedRequests[n]

\* The reply that initTimeShift() polls for is still to come or there to be found: it is never
\* discarded as that of a one-way request, nor forgotten by the cache after another thread has
\* consumed it.
PongToBeFound ==
  \A n \in Node : /\ oneWayRequests[n] \subseteq issued[n]
                  /\ awaited[n] \cap oneWayRequests[n] = {}
                  /\ awaited[n] \subseteq Outstanding(n) \cup incomingReplies[n]
                                         \cup processedReplies[n]

-----------------------------------------------------------------------------
(* The promise of RpcService, read off the handlers' state.                 *)

ServiceExecuted == [n \in Node |-> accepted[Other(n)]]
ServiceCompleted == [n \in Node |-> issued[n] \ Outstanding(n)]
ServiceAnswered ==
  [n \in Node |-> ServiceCompleted[n] \cup (accepted[Other(n)] \ incomingRequests[Other(n)])]

Service == INSTANCE RpcService WITH requested <- issued, executed <- ServiceExecuted,
                                    answered <- ServiceAnswered, completed <- ServiceCompleted

\* The retransmitting, deduplicating handlers implement the barrier-ordered service:
\* every step of theirs is one of its steps or is invisible to the issuers.  (What
\* is invisible is said by NoReplayWhileAwaited: with a full cache, a duplicate of a
\* request its issuer has forgotten may be executed once more.)
ImplementsService == Service!Spec
=============================================================================
