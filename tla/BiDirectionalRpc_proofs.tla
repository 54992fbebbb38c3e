----------------------- MODULE BiDirectionalRpc_proofs -----------------------
(***************************************************************************)
(* Proofs about BiDirectionalRpc, for any uuids, budgets, cache capacity   *)
(* and number of barriers.                                                 *)
(***************************************************************************)
EXTENDS BiDirectionalRpc, WellFoundedInduction, FiniteSetTheorems, TLAPS

\* Other() is an involution without fixed points on the two ends.
LEMMA OtherNode ==
  /\ \A n \in Node : Other(n) \in Node /\ Other(n) # n /\ Other(Other(n)) = n
  /\ \A n, k \in Node : k = n \/ k = Other(n)
BY EndsAssumption DEF Node, Other

\* A cache holds only what it held and what is put in it, whatever it evicts.
LEMMA LruPutSubset ==
  ASSUME NEW cache, NEW r, NEW c \in LruPut(cache, r)
  PROVE  c \subseteq cache \cup {r}
BY DEF LruPut

\* A new request has the type of a request, the current barrier, and was not issued before.
LEMMA NewRpcsFresh ==
  ASSUME NEW n \in Node, NEW p \in Payload, TypeOK, NEW r \in NewRpcs(n, p)
  PROVE  r \in Rpc /\ r.barrier = onBarrier[n] /\ r \notin issued[n]
BY DEF NewRpcs, TypeOK, Rpc

\* Barriers are numbers.
LEMMA BarrierInt ==
  ASSUME TypeOK
  PROVE  /\ \A r \in Rpc : r.barrier \in Nat
         /\ \A n \in Node : onBarrier[n] \in Nat
BY BoundsAssumption DEF TypeOK, Rpc

\* Among delayed requests there is one of the lowest barrier.
LEMMA LowestBarrier ==
  ASSUME TypeOK, NEW S \in SUBSET Rpc, S # {}
  PROVE  \E d \in S : \A e \in S : d.barrier <= e.barrier
<1> DEFINE T == {d.barrier : d \in S}
           R == OpToRel(<, Nat)
<1>1. T \subseteq Nat /\ T # {} BY BarrierInt
<1>2. IsWellFoundedOn(R, Nat) BY NatLessThanWellFounded
<1>3. \A x, y \in Nat : <<y, x>> \in R <=> y < x BY DEF OpToRel
<1> HIDE DEF R, T
<1>4. PICK x \in T : \A y \in T : ~(<<y, x>> \in R) BY <1>1, <1>2, WFMin
<1>5. \A y \in T : ~(y < x)
  <2> TAKE y \in T
  <2>1. x \in Nat /\ y \in Nat BY <1>1
  <2>2. ~(<<y, x>> \in R) BY <1>4
  <2> QED BY <1>3, <2>1, <2>2
<1>6. \A y \in T : x <= y BY <1>1, <1>5
<1> QED BY <1>6 DEF T

\* The messages the handlers build are messages.
LEMMA MsgTypes ==
  ASSUME NEW n \in Node, NEW r \in Rpc
  PROVE  RequestMsg(n, r) \in Message /\ ReplyMsg(n, r) \in Message /\ AckMsg(n, r) \in Message
BY OtherNode DEF Message, RequestMsg, ReplyMsg, AckMsg

-----------------------------------------------------------------------------
(* Type correctness.                                                        *)

\* requestWithId() and what it calls keep every map a map of requests.
LEMMA RequestType ==
  ASSUME TypeOK, NEW n \in Node, NEW r \in Rpc,
         DoRequest(n, r) \/ DoRequestOneWay(n, r),
         closing' \subseteq Node, pings' \in [Node -> 0..InitialPings],
         awaited' \in [Node -> SUBSET Rpc]
  PROVE  TypeOK'
<1>1. RequestWithId(n, r) BY DEF DoRequest, DoRequestOneWay
<1>2. UNCHANGED <<onBarrier, replyVars, replierVars>>
  BY DEF DoRequest, DoRequestOneWay
<1>3. oneWayRequests' \in [Node -> SUBSET Rpc]
  BY DEF DoRequest, DoRequestOneWay, TypeOK
<1>4. RequestMsg(n, r) \in Message BY MsgTypes
<1>5. /\ issued' \in [Node -> SUBSET Rpc]
      /\ outgoingRequests' \in [Node -> SUBSET Rpc]
      /\ delayedRequests' \in [Node -> SUBSET Rpc]
      /\ requestSendTime' \in [Node -> SUBSET Rpc]
      /\ fatal' \subseteq Node
  BY <1>1 DEF RequestWithId, SendNow, DieIf, TypeOK
<1>6. net' \subseteq Message
  BY <1>1, <1>4 DEF RequestWithId, SendNow, Send, TypeOK
<1> QED BY <1>2, <1>3, <1>5, <1>6 DEF TypeOK, replyVars, replierVars

\* The replying side keeps every map a map of requests.
LEMMA ReplierType ==
  ASSUME TypeOK, NEW n \in Node, NEW r \in Rpc,
         Reply(n, r) \/ HandleRequest(n, r) \/ HandleAcknowledge(n, r)
  PROVE  TypeOK'
<1>1. ReplyMsg(n, r) \in Message BY MsgTypes
<1>2. ASSUME NEW pending \in SUBSET Rpc, NEW times \in SUBSET Rpc,
             DoReply(n, r, pending, times)
      PROVE  /\ incomingRequests' \in [Node -> SUBSET Rpc]
             /\ processedRequests' \in [Node -> SUBSET Rpc]
             /\ outgoingReplies' \in [Node -> SUBSET Rpc]
             /\ requestReceiveTime' \in [Node -> SUBSET Rpc]
             /\ net' \subseteq Message
  <2>1. processedRequests' \in [Node -> SUBSET Rpc]
    BY <1>2, LruPutSubset DEF DoReply, TypeOK
  <2> QED BY <1>1, <1>2, <2>1 DEF DoReply, Send, TypeOK
<1>3. CASE Reply(n, r)
  <2>1. DoReply(n, r, incomingRequests[n], requestReceiveTime[n]) BY <1>3 DEF Reply
  <2>2. UNCHANGED <<requesterVars, replyVars, requestSendTime, shuttingDown, accepted, threadVars>>
        /\ fatal' \subseteq Node
    BY <1>3 DEF Reply, DieIf, TypeOK
  <2> QED BY <1>2, <2>1, <2>2 DEF TypeOK, requesterVars, replyVars, threadVars
<1>4. CASE HandleRequest(n, r)
  <2>1. UNCHANGED <<requesterVars, replyVars, requestSendTime, threadVars>>
    BY <1>4 DEF HandleRequest
  <2>2. CASE ReplyAgain(n, r)
    BY <1>1, <2>1, <2>2 DEF ReplyAgain, Send, DieIf, TypeOK, requesterVars, replyVars,
       threadVars, replierVars
  <2>3. CASE TakeRequest(n, r)
    <3>1. /\ accepted' \in [Node -> SUBSET Rpc]
          /\ shuttingDown' \subseteq Node /\ fatal' \subseteq Node
      BY <2>3 DEF TakeRequest, DieIf, TypeOK
    <3>2. /\ incomingRequests' \in [Node -> SUBSET Rpc]
          /\ processedRequests' \in [Node -> SUBSET Rpc]
          /\ outgoingReplies' \in [Node -> SUBSET Rpc]
          /\ requestReceiveTime' \in [Node -> SUBSET Rpc]
          /\ net' \subseteq Message
      <4>1. CASE r.payload \in {"PING", "SHUTDOWN"}
        <5>1. DoReply(n, r, incomingRequests[n] \cup {r}, requestReceiveTime[n] \cup {r})
          BY <2>3, <4>1 DEF TakeRequest
        <5>2. /\ incomingRequests[n] \cup {r} \in SUBSET Rpc
              /\ requestReceiveTime[n] \cup {r} \in SUBSET Rpc
          BY DEF TypeOK
        <5> QED BY <1>2, <5>1, <5>2
      <4>2. CASE r.payload \notin {"PING", "SHUTDOWN"}
        BY <2>3, <4>2 DEF TakeRequest, TypeOK
      <4> QED BY <4>1, <4>2
    <3> QED BY <2>1, <3>1, <3>2 DEF TypeOK, requesterVars, replyVars, threadVars
  <2> QED BY <1>4, <2>2, <2>3 DEF HandleRequest
<1>5. CASE HandleAcknowledge(n, r)
  BY <1>5 DEF HandleAcknowledge, DieIf, TypeOK, requesterVars, replyVars, threadVars
<1> QED BY <1>3, <1>4, <1>5

\* The requesting side keeps every map a map of requests.
LEMMA RequesterType ==
  ASSUME TypeOK, NEW n \in Node, NEW r \in Rpc,
         HandleReply(n, r) \/ ConsumeReply(n, r)
  PROVE  TypeOK'
<1>1. AckMsg(n, r) \in Message BY MsgTypes
<1>2. CASE ConsumeReply(n, r)
  <2>1. processedReplies' \in [Node -> SUBSET Rpc]
    BY <1>2, LruPutSubset DEF ConsumeReply, TypeOK
  <2> QED BY <1>2, <2>1 DEF ConsumeReply, TypeOK, requesterVars, replierVars, threadVars
<1>3. CASE HandleReply(n, r)
  <2>1. UNCHANGED <<replierVars, threadVars>> BY <1>3 DEF HandleReply
  <2>2. CASE AcknowledgeAgain(n, r)
    BY <1>1, <2>1, <2>2 DEF AcknowledgeAgain, Send, TypeOK, requesterVars, replyVars,
       replierVars, threadVars
  <2>3. CASE TakeReply(n, r)
    <3> DEFINE remaining == outgoingRequests[n] \ {r}
               released == Released(n, remaining)
    <3>1. released \subseteq delayedRequests[n] /\ remaining \subseteq Rpc
          /\ released \subseteq Rpc
      BY DEF Released, TypeOK
    <3> HIDE DEF released, remaining
    <3>2. /\ outgoingRequests' = [outgoingRequests EXCEPT ![n] = remaining \cup released]
          /\ delayedRequests' = [delayedRequests EXCEPT ![n] = @ \ released]
          /\ requestSendTime' = [requestSendTime EXCEPT ![n] = (@ \cup released) \ {r}]
          /\ net' = net \cup {RequestMsg(n, q) : q \in released} \cup {AckMsg(n, r)}
          /\ fatal' \in {fatal, fatal \cup {n}}
          /\ UNCHANGED <<onBarrier, issued, processedReplies>>
      BY <2>3 DEF TakeReply, Send, DieIf, released, remaining
    <3>3. /\ oneWayRequests' \in [Node -> SUBSET Rpc]
          /\ incomingReplies' \in [Node -> SUBSET Rpc]
      BY <2>3 DEF TakeReply, TypeOK
    <3>4. net' \subseteq Message
      BY <1>1, <3>1, <3>2, MsgTypes DEF TypeOK
    <3> QED BY <2>1, <3>1, <3>2, <3>3, <3>4 DEF TypeOK, replierVars, threadVars
  <2> QED BY <1>3, <2>2, <2>3 DEF HandleReply
<1> QED BY <1>2, <1>3

\* Every step keeps the types.
LEMMA TypeStep == TypeOK /\ [Next]_vars => TypeOK'
<1> SUFFICES ASSUME TypeOK, [Next]_vars PROVE TypeOK' OBVIOUS
<1>1. CASE UNCHANGED vars
  BY <1>1 DEF vars, requesterVars, replyVars, replierVars, threadVars, TypeOK
<1>2. ASSUME NEW m \in net, Lose(m) PROVE TypeOK'
  BY <1>2 DEF Lose, requesterVars, replyVars, replierVars, threadVars, TypeOK
<1>3. ASSUME NEW n \in Node, Step(n) PROVE TypeOK'
  <2>1. CASE Request(n)
    <3>1. PICK r \in NewRpcs(n, "APP") : DoRequest(n, r) BY <2>1 DEF Request
    <3>2. r \in Rpc BY NewRpcsFresh DEF Payload
    <3> QED BY <2>1, <3>1, <3>2, RequestType DEF Request, threadVars, TypeOK
  <2>2. CASE RequestOneWay(n)
    <3>1. PICK r \in NewRpcs(n, "APP") : DoRequestOneWay(n, r) BY <2>2 DEF RequestOneWay
    <3>2. r \in Rpc BY NewRpcsFresh DEF Payload
    <3> QED BY <2>2, <3>1, <3>2, RequestType DEF RequestOneWay, threadVars, TypeOK
  <2>3. CASE Barrier(n)
    <3>1. onBarrier' \in [Node -> 0..MaxBarrier]
      BY <2>3, BoundsAssumption DEF Barrier, TypeOK
    <3> QED BY <2>3, <3>1 DEF Barrier, replyVars, replierVars, threadVars, TypeOK
  <2>4. CASE SendShutdown(n)
    BY <2>4 DEF SendShutdown, requesterVars, replyVars, replierVars, TypeOK
  <2>5. CASE SendShutdownRequest(n)
    <3>1. PICK r \in NewRpcs(n, "SHUTDOWN") : DoRequestOneWay(n, r)
      BY <2>5 DEF SendShutdownRequest
    <3>2. r \in Rpc BY NewRpcsFresh DEF Payload
    <3> QED BY <2>5, <3>1, <3>2, RequestType DEF SendShutdownRequest, TypeOK
  <2>6. CASE InitTimeShiftPing(n)
    <3>1. PICK r \in NewRpcs(n, "PING") : /\ DoRequest(n, r)
                                          /\ awaited' = [awaited EXCEPT ![n] = {r}]
      BY <2>6 DEF InitTimeShiftPing
    <3>2. r \in Rpc BY NewRpcsFresh DEF Payload
    <3>3. pings' \in [Node -> 0..InitialPings]
      BY <2>6, BoundsAssumption DEF InitTimeShiftPing, TypeOK
    <3>4. awaited' \in [Node -> SUBSET Rpc] BY <3>1, <3>2 DEF TypeOK
    <3>5. closing' \subseteq Node BY <2>6 DEF InitTimeShiftPing, TypeOK
    <3> QED BY <3>1, <3>2, <3>3, <3>4, <3>5, RequestType
  <2>7. CASE InitTimeShiftPong(n)
    BY <2>7 DEF InitTimeShiftPong, requesterVars, replyVars, replierVars, TypeOK
  <2>8. ASSUME NEW batch \in SUBSET outgoingReplies[n], ResendReplies(n, batch) PROVE TypeOK'
    <3>1. \A r \in batch : ReplyMsg(n, r) \in Message BY <2>8, MsgTypes DEF TypeOK
    <3> QED BY <2>8, <3>1 DEF ResendReplies, Send, DieIf, requesterVars, replyVars, replierVars,
            threadVars, TypeOK
  <2>9. ASSUME NEW batch \in SUBSET outgoingRequests[n], ResendRequests(n, batch) PROVE TypeOK'
    <3>1. \A r \in batch : RequestMsg(n, r) \in Message BY <2>9, MsgTypes DEF TypeOK
    <3> QED BY <2>9, <3>1 DEF ResendRequests, Send, requesterVars, replyVars, replierVars,
            threadVars, TypeOK
  <2>10. CASE HeartbeatPing(n)
    <3>1. PICK r \in NewRpcs(n, "PING") : DoRequestOneWay(n, r) BY <2>10 DEF HeartbeatPing
    <3>2. r \in Rpc BY NewRpcsFresh DEF Payload
    <3> QED BY <2>10, <3>1, <3>2, RequestType DEF HeartbeatPing, threadVars, TypeOK
  <2>11. ASSUME NEW m \in net, ReceiveMsg(n, m) PROVE TypeOK'
    <3>1. m.rpc \in Rpc BY DEF TypeOK, Message
    <3> QED BY <2>11, <3>1, ReplierType, RequesterType DEF ReceiveMsg
  <2>12. ASSUME NEW r \in incomingRequests[n], Reply(n, r) PROVE TypeOK'
    <3>1. r \in Rpc BY DEF TypeOK
    <3> QED BY <2>12, <3>1, ReplierType
  <2>13. ASSUME NEW r \in incomingReplies[n], ConsumeReply(n, r) PROVE TypeOK'
    <3>1. r \in Rpc BY DEF TypeOK
    <3> QED BY <2>13, <3>1, RequesterType
  <2> QED BY <1>3, <2>1, <2>2, <2>3, <2>4, <2>5, <2>6, <2>7, <2>8, <2>9, <2>10, <2>11, <2>12,
             <2>13 DEF Step, Heartbeat, ResendRandomOutgoingMessage
<1> QED BY <1>1, <1>2, <1>3 DEF Next

\* Type correctness: BiDirectionalRpc's maps hold requests and the network messages, always.
THEOREM TypeCorrect == Spec => []TypeOK
<1>1. Init => TypeOK BY BoundsAssumption DEF Init, TypeOK
<1> QED BY <1>1, TypeStep, PTL DEF Spec

-----------------------------------------------------------------------------
(* The inductive invariant.                                                 *)

\* A new request keeps the invariant, whether it is sent or delayed.
LEMMA RequestInv ==
  ASSUME IInv, TypeOK', NEW n \in Node, NEW r \in Rpc,
         r.barrier = onBarrier[n], r \notin issued[n],
         RequestWithId(n, r), UNCHANGED <<onBarrier, replyVars, replierVars>>
  PROVE  IInv'
<1> USE OtherNode DEF Outstanding
<1>1. TypeOK /\ RequestsIssued /\ BarriersSeparate BY DEF IInv
<1>b. /\ \A q \in Rpc : q.barrier \in Nat
      /\ onBarrier[n] \in Nat
  BY <1>1, BarrierInt
<1>2. issued' = [issued EXCEPT ![n] = @ \cup {r}] BY DEF RequestWithId
<1>3. /\ r \notin outgoingRequests[n] /\ r \notin delayedRequests[n]
      /\ r \notin accepted[Other(n)]
  BY DEF IInv, RequestsIssued, ExecutedWasSent
<1>4. UNCHANGED <<onBarrier, incomingReplies, processedReplies, incomingRequests,
                  processedRequests, outgoingReplies, requestReceiveTime, shuttingDown, accepted>>
  BY DEF replyVars, replierVars
<1>5. CASE /\ \/ outgoingRequests[n] = {}
              \/ \E first \in outgoingRequests[n] : first.barrier = onBarrier[n]
           /\ outgoingRequests' = [outgoingRequests EXCEPT ![n] = @ \cup {r}]
           /\ SendNow(n, {r})
           /\ UNCHANGED delayedRequests
  <2>1. delayedRequests[n] = {} /\ \A q \in outgoingRequests[n] : q.barrier = r.barrier
    <3>1. CASE outgoingRequests[n] = {} BY <1>1, <3>1 DEF BarriersSeparate
    <3>2. ASSUME NEW first \in outgoingRequests[n], first.barrier = onBarrier[n]
          PROVE  delayedRequests[n] = {} /\ \A q \in outgoingRequests[n] : q.barrier = r.barrier
      <4>1. \A q \in outgoingRequests[n] : q.barrier = first.barrier
        BY <1>1 DEF BarriersSeparate
      <4>2. ASSUME NEW d \in delayedRequests[n] PROVE FALSE
        <5>1. d \in Rpc /\ first \in Rpc /\ d \in issued[n]
          BY <1>1 DEF TypeOK, RequestsIssued
        <5>2. first.barrier < d.barrier BY <1>1 DEF BarriersSeparate
        <5>3. d.barrier <= onBarrier[n] BY <1>1, <5>1 DEF RequestsIssued
        <5> QED BY <1>b, <3>2, <5>1, <5>2, <5>3
      <4> QED BY <3>2, <4>1, <4>2
    <3> QED BY <1>5, <3>1, <3>2
  <2>2. /\ requestSendTime' = [requestSendTime EXCEPT ![n] = @ \cup {r}]
        /\ net' = net \cup {RequestMsg(n, r)}
    BY <1>5 DEF SendNow, Send
  <2>3. NoFatal'
    BY <1>3, <1>5 DEF IInv, NoFatal, ClockMapsMatch, SendNow, DieIf
  <2>4. ClockMapsMatch'
    BY <1>1, <1>4, <1>5, <2>2 DEF IInv, ClockMapsMatch, TypeOK
  <2>5. RequestsIssued'
    BY <1>1, <1>b, <1>2, <1>3, <1>4, <1>5 DEF RequestsIssued, TypeOK
  <2>6. BarriersSeparate'
    BY <1>1, <1>b, <1>5, <2>1 DEF BarriersSeparate, TypeOK
  <2>7. SentMeansOlderDone'
    BY <1>1, <1>b, <1>2, <1>3, <1>5, <2>1 DEF IInv, SentMeansOlderDone, RequestsIssued, TypeOK
  <2>8. DoneMeansExecuted'
    BY <1>1, <1>2, <1>4, <1>5 DEF IInv, DoneMeansExecuted, TypeOK
  <2>9. RepliesDone'
    BY <1>1, <1>2, <1>3, <1>4, <1>5 DEF IInv, RepliesDone, TypeOK
  <2>10. ExecutedWasSent'
    BY <1>1, <1>2, <1>4, <1>5 DEF IInv, ExecutedWasSent, TypeOK
  <2>11. MessagesTrue'
    <3> SUFFICES ASSUME NEW m \in net'
                 PROVE  MessagesTrue!(m)'
      BY DEF MessagesTrue
    <3>1. CASE m \in net
      BY <1>1, <1>2, <1>3, <1>4, <1>5, <3>1 DEF IInv, MessagesTrue, TypeOK, Message
    <3>2. CASE m = RequestMsg(n, r)
      BY <1>1, <1>2, <1>3, <1>5, <3>2 DEF RequestMsg, TypeOK
    <3> QED BY <2>2, <3>1, <3>2
  <2>12. ExecutedIsHeld'
    BY <1>1, <1>3, <1>4, <1>5 DEF IInv, ExecutedIsHeld, TypeOK
  <2> QED BY <2>3, <2>4, <2>5, <2>6, <2>7, <2>8, <2>9, <2>10, <2>11, <2>12 DEF IInv
<1>6. CASE /\ \E first \in outgoingRequests[n] : first.barrier # onBarrier[n]
           /\ delayedRequests' = [delayedRequests EXCEPT ![n] = @ \cup {r}]
           /\ UNCHANGED <<outgoingRequests, requestSendTime, fatal, net>>
  <2>1. outgoingRequests[n] # {} /\ \A q \in outgoingRequests[n] : q.barrier < r.barrier
    <3>1. PICK first \in outgoingRequests[n] : first.barrier # onBarrier[n] BY <1>6
    <3>2. first \in issued[n] /\ first \in Rpc BY <1>1 DEF RequestsIssued, TypeOK
    <3>3. first.barrier < r.barrier BY <1>1, <1>b, <3>1, <3>2 DEF RequestsIssued
    <3>4. \A q \in outgoingRequests[n] : q.barrier = first.barrier
      BY <1>1 DEF BarriersSeparate
    <3> QED BY <3>3, <3>4
  <2>2. NoFatal' /\ ClockMapsMatch'
    BY <1>4, <1>6 DEF IInv, NoFatal, ClockMapsMatch
  <2>3. RequestsIssued'
    BY <1>1, <1>b, <1>2, <1>3, <1>4, <1>6 DEF RequestsIssued, TypeOK
  <2>4. BarriersSeparate'
    BY <1>1, <1>b, <1>6, <2>1 DEF BarriersSeparate, TypeOK
  <2>5. SentMeansOlderDone'
    BY <1>1, <1>b, <1>2, <1>3, <1>6 DEF IInv, SentMeansOlderDone, RequestsIssued, TypeOK
  <2>6. DoneMeansExecuted' /\ RepliesDone' /\ ExecutedWasSent' /\ ExecutedIsHeld'
    BY <1>1, <1>2, <1>3, <1>4, <1>6
    DEF IInv, DoneMeansExecuted, RepliesDone, ExecutedWasSent, ExecutedIsHeld, TypeOK
  <2>7. MessagesTrue'
    BY <1>1, <1>2, <1>3, <1>4, <1>6 DEF IInv, MessagesTrue, TypeOK, Message
  <2> QED BY <2>2, <2>3, <2>4, <2>5, <2>6, <2>7 DEF IInv
<1> QED BY <1>5, <1>6 DEF RequestWithId

\* Resending, and acknowledging or replying again, adds to the network only what is already true.
LEMMA ResendInv ==
  ASSUME IInv, TypeOK', NEW msgs, net' = net \cup msgs, NoFatal',
         UNCHANGED <<requesterVars, replyVars, requestSendTime, replierVars>>,
         \A m \in msgs : MessagesTrue!(m)
  PROVE  IInv'
<1>1. UNCHANGED <<delayedRequests, outgoingRequests, onBarrier, issued, incomingReplies,
                  processedReplies, requestSendTime, incomingRequests, processedRequests,
                  outgoingReplies, requestReceiveTime, accepted>>
  BY DEF requesterVars, replyVars, replierVars
<1>2. MessagesTrue' BY <1>1 DEF IInv, MessagesTrue, Outstanding
<1> QED BY <1>1, <1>2 DEF IInv, ClockMapsMatch, RequestsIssued, BarriersSeparate,
           SentMeansOlderDone, DoneMeansExecuted, RepliesDone, ExecutedWasSent, ExecutedIsHeld,
           Outstanding

\* Taking a reply: the request is done, and the next barrier may be released.
LEMMA TakeReplyInv ==
  ASSUME IInv, TypeOK', NEW n \in Node, NEW r \in Rpc,
         r \in accepted[Other(n)], TakeReply(n, r), UNCHANGED replierVars
  PROVE  IInv'
<1> USE OtherNode DEF Outstanding
<1> DEFINE remaining == outgoingRequests[n] \ {r}
           released == Released(n, remaining)
<1>1. TypeOK /\ RequestsIssued /\ BarriersSeparate BY DEF IInv
<1>b. \A q \in Rpc : q.barrier \in Nat BY <1>1, BarrierInt
<1>2. /\ released \subseteq delayedRequests[n]
      /\ released # {} => remaining = {}
      /\ \A d \in released, e \in delayedRequests[n] : d.barrier <= e.barrier
  BY DEF Released
<1>3. remaining = {} /\ delayedRequests[n] # {} => released # {}
  <2> SUFFICES ASSUME remaining = {}, delayedRequests[n] # {} PROVE released # {} OBVIOUS
  <2>1. delayedRequests[n] \in SUBSET Rpc BY <1>1 DEF TypeOK
  <2>2. \E d \in delayedRequests[n] : \A e \in delayedRequests[n] : d.barrier <= e.barrier
    BY <1>1, <2>1, LowestBarrier
  <2> QED BY <2>2 DEF Released
<1> HIDE DEF released
<1>4. /\ r \in outgoingRequests[n]
      /\ outgoingRequests' = [outgoingRequests EXCEPT ![n] = remaining \cup released]
      /\ delayedRequests' = [delayedRequests EXCEPT ![n] = @ \ released]
      /\ requestSendTime' = [requestSendTime EXCEPT ![n] = (@ \cup released) \ {r}]
      /\ net' = net \cup {RequestMsg(n, q) : q \in released} \cup {AckMsg(n, r)}
      /\ fatal' = IF released \cap requestSendTime[n] # {} \/ r \notin requestSendTime[n]
                  THEN fatal \cup {n} ELSE fatal
      /\ UNCHANGED <<onBarrier, issued, processedReplies>>
  BY DEF TakeReply, Send, DieIf, released
<1>5. /\ incomingReplies' \in {incomingReplies, [incomingReplies EXCEPT ![n] = @ \cup {r}]}
  BY DEF TakeReply
<1>6. UNCHANGED <<incomingRequests, outgoingReplies, requestReceiveTime, accepted>>
  BY DEF replierVars
<1>7. r \in issued[n] /\ r \notin delayedRequests[n] /\ released \cap outgoingRequests[n] = {}
  BY <1>1, <1>2, <1>4 DEF RequestsIssued
<1>8. NoFatal'
  BY <1>4, <1>7 DEF IInv, NoFatal, ClockMapsMatch
<1>9. ClockMapsMatch'
  <2>1. requestSendTime'[n] = outgoingRequests'[n]
    BY <1>1, <1>2, <1>4, <1>7 DEF IInv, ClockMapsMatch, TypeOK
  <2>2. requestSendTime'[Other(n)] = outgoingRequests'[Other(n)]
    BY <1>1, <1>4 DEF IInv, ClockMapsMatch, TypeOK
  <2> QED BY <1>6, <2>1, <2>2 DEF IInv, ClockMapsMatch
<1>10. RequestsIssued'
  BY <1>1, <1>2, <1>4, <1>7 DEF RequestsIssued, TypeOK
<1>11. BarriersSeparate'
  <2> SUFFICES ASSUME NEW k \in Node PROVE BarriersSeparate!(k)' BY DEF BarriersSeparate
  <2>1. CASE k # n BY <1>1, <1>4, <2>1 DEF BarriersSeparate, TypeOK
  <2>2. CASE k = n
    <3>1. outgoingRequests'[n] = remaining \cup released
          /\ delayedRequests'[n] = delayedRequests[n] \ released
      BY <1>1, <1>4 DEF TypeOK
    <3>2. CASE remaining # {}
      BY <1>1, <1>2, <2>2, <3>1, <3>2 DEF BarriersSeparate
    <3>3. CASE remaining = {}
      <4>1. \A q, p \in released : q.barrier = p.barrier
        BY <1>1, <1>b, <1>2, SMTT(30) DEF TypeOK
      <4>2. \A q \in released, d \in delayedRequests[n] \ released : q.barrier < d.barrier
        BY <1>1, <1>b, <1>2, <3>3 DEF TypeOK, released, Released
      <4> QED BY <1>2, <1>3, <2>2, <3>1, <3>3, <4>1, <4>2
    <3> QED BY <3>2, <3>3
  <2> QED BY <2>1, <2>2
<1>12. SentMeansOlderDone'
  <2> SUFFICES ASSUME NEW k \in Node, NEW p \in issued[k] \ delayedRequests'[k],
                      NEW q \in issued[k], q.barrier < p.barrier
               PROVE  q \notin delayedRequests'[k] \cup outgoingRequests'[k]
    BY <1>4 DEF SentMeansOlderDone
  <2>1. CASE p \notin delayedRequests[k]
    <3>1. q \notin delayedRequests[k] \cup outgoingRequests[k]
      BY <2>1 DEF IInv, SentMeansOlderDone
    <3> QED BY <1>1, <1>2, <1>4, <3>1 DEF TypeOK
  <2>2. CASE p \in delayedRequests[k]
    <3>1. k = n /\ p \in released /\ remaining = {} BY <1>1, <1>2, <1>4, <2>2 DEF TypeOK
    <3>2. q \notin delayedRequests[n]
      BY <1>1, <1>b, <1>2, <3>1 DEF TypeOK
    <3> QED BY <1>1, <1>2, <1>4, <3>1, <3>2 DEF TypeOK
  <2> QED BY <2>1, <2>2
<1>13. DoneMeansExecuted'
  BY <1>1, <1>4, <1>6 DEF IInv, DoneMeansExecuted, TypeOK
<1>14. RepliesDone'
  BY <1>1, <1>2, <1>4, <1>5, <1>7 DEF IInv, RepliesDone, TypeOK
<1>15. ExecutedWasSent'
  BY <1>1, <1>4, <1>6 DEF IInv, ExecutedWasSent, TypeOK
<1>16. MessagesTrue'
  <2> SUFFICES ASSUME NEW m \in net' PROVE MessagesTrue!(m)' BY DEF MessagesTrue
  <2>1. CASE m \in net
    BY <1>1, <1>2, <1>4, <1>6, <2>1 DEF IInv, MessagesTrue, TypeOK, Message
  <2>2. CASE m = AckMsg(n, r)
    BY <1>1, <1>2, <1>4, <1>7, <2>2 DEF AckMsg, TypeOK
  <2>3. ASSUME NEW q \in released, m = RequestMsg(n, q) PROVE MessagesTrue!(m)'
    BY <1>1, <1>2, <1>4, <2>3 DEF RequestMsg, RequestsIssued, TypeOK
  <2> QED BY <1>4, <2>1, <2>2, <2>3
<1>17. ExecutedIsHeld'
  <2> SUFFICES ASSUME NEW k \in Node, NEW q \in accepted[k], q \in outgoingRequests'[Other(k)]
               PROVE  q \in incomingRequests[k] \cup outgoingReplies[k]
    BY <1>6 DEF ExecutedIsHeld
  <2>1. q \notin delayedRequests[Other(k)] BY DEF IInv, ExecutedWasSent
  <2>2. q \in outgoingRequests[Other(k)] BY <1>1, <1>2, <1>4, <2>1 DEF TypeOK
  <2> QED BY <2>2 DEF IInv, ExecutedIsHeld
<1> QED BY <1>8, <1>9, <1>10, <1>11, <1>12, <1>13, <1>14, <1>15, <1>16, <1>17 DEF IInv

\* The replying side: executing, replying and forgetting an acknowledged reply.
LEMMA ReplierInv ==
  ASSUME IInv, TypeOK', NEW n \in Node, NEW r \in Rpc,
         \/ r \in incomingRequests[n] /\ Reply(n, r)
         \/ r \in issued[Other(n)] \ delayedRequests[Other(n)] /\ HandleRequest(n, r)
         \/ r \in issued[Other(n)] \ Outstanding(Other(n)) /\ HandleAcknowledge(n, r)
  PROVE  IInv'
<1> USE OtherNode DEF Outstanding
<1>1. TypeOK BY DEF IInv
<1>2. UNCHANGED <<requesterVars, replyVars, requestSendTime>>
  BY DEF Reply, HandleRequest, HandleAcknowledge
<1>3. UNCHANGED <<delayedRequests, outgoingRequests, onBarrier, issued, incomingReplies,
                  processedReplies, requestSendTime>>
  BY <1>2 DEF requesterVars, replyVars
<1>d. incomingRequests[n] \cap outgoingReplies[n] = {} BY DEF IInv, ExecutedWasSent
<1>4. RequestsIssued' /\ BarriersSeparate' /\ SentMeansOlderDone' /\ RepliesDone'
  BY <1>3 DEF IInv, RequestsIssued, BarriersSeparate, SentMeansOlderDone, RepliesDone
<1>5. ASSUME NEW added \in SUBSET {r}, NEW inc, NEW out,
             r \in issued[Other(n)] \ delayedRequests[Other(n)],
             accepted' = [accepted EXCEPT ![n] = @ \cup added],
             incomingRequests' = [incomingRequests EXCEPT ![n] = inc],
             outgoingReplies' = [outgoingReplies EXCEPT ![n] = out],
             requestReceiveTime' = [requestReceiveTime EXCEPT ![n] = inc \cup out],
             inc \cup out \subseteq accepted[n] \cup added, inc \cap out = {},
             (incomingRequests[n] \cup outgoingReplies[n] \cup added) \ {r} \subseteq inc \cup out,
             r \in accepted[n] \cup added,
             r \in inc \cup out \/ r \notin outgoingRequests[Other(n)],
             net' \in {net, net \cup {ReplyMsg(n, r)}},
             fatal' = fatal
      PROVE  IInv'
  <2>1. NoFatal' BY <1>5 DEF IInv, NoFatal
  <2>2. ClockMapsMatch' BY <1>1, <1>3, <1>5 DEF IInv, ClockMapsMatch, TypeOK
  <2>3. DoneMeansExecuted' BY <1>1, <1>3, <1>5 DEF IInv, DoneMeansExecuted, TypeOK
  <2>4. ExecutedWasSent' BY <1>1, <1>3, <1>5 DEF IInv, ExecutedWasSent, TypeOK
  <2>5. MessagesTrue'
    <3> SUFFICES ASSUME NEW m \in net' PROVE MessagesTrue!(m)' BY DEF MessagesTrue
    <3>1. CASE m \in net
      BY <1>1, <1>3, <1>5, <3>1 DEF IInv, MessagesTrue, TypeOK, Message
    <3>2. CASE m = ReplyMsg(n, r)
      BY <1>1, <1>5, <3>2 DEF ReplyMsg, TypeOK
    <3> QED BY <1>5, <3>1, <3>2
  <2>6. ExecutedIsHeld'
    <3>1. accepted'[n] \cap outgoingRequests[Other(n)] \subseteq inc \cup out
      BY <1>1, <1>5 DEF IInv, ExecutedIsHeld, TypeOK
    <3> QED BY <1>1, <1>3, <1>5, <3>1 DEF IInv, ExecutedIsHeld, TypeOK
  <2> QED BY <1>4, <2>1, <2>2, <2>3, <2>4, <2>5, <2>6 DEF IInv
<1>6. CASE r \in incomingRequests[n] /\ Reply(n, r)
  <2>1. r \in accepted[n] /\ r \in issued[Other(n)] \ delayedRequests[Other(n)]
    BY <1>6 DEF IInv, ExecutedWasSent
  <2>2. requestReceiveTime[n] = incomingRequests[n] \cup outgoingReplies[n]
    BY DEF IInv, ClockMapsMatch
  <2>3. /\ incomingRequests' = [incomingRequests EXCEPT ![n] = incomingRequests[n] \ {r}]
        /\ outgoingReplies' = [outgoingReplies EXCEPT ![n] = outgoingReplies[n] \cup {r}]
        /\ requestReceiveTime' = [requestReceiveTime EXCEPT ![n] = requestReceiveTime[n]]
        /\ net' = net \cup {ReplyMsg(n, r)}
        /\ fatal' = fatal
        /\ accepted' = accepted
    BY <1>6, <2>2 DEF Reply, DoReply, Send, DieIf
  <2>4. /\ requestReceiveTime[n] = (incomingRequests[n] \ {r}) \cup (outgoingReplies[n] \cup {r})
        /\ accepted' = [accepted EXCEPT ![n] = @ \cup {}]
        /\ incomingRequests[n] \cup outgoingReplies[n] \subseteq accepted[n]
    BY <1>1, <1>6, <2>2, <2>3 DEF IInv, ExecutedWasSent, TypeOK
  <2> DEFINE inc == incomingRequests[n] \ {r}
             out == outgoingReplies[n] \cup {r}
             added == {}
  <2>8. /\ added \in SUBSET {r} /\ r \in accepted[n] \cup added
        /\ inc \cup out \subseteq accepted[n] \cup added /\ inc \cap out = {}
        /\ (incomingRequests[n] \cup outgoingReplies[n] \cup added) \ {r} \subseteq inc \cup out
        /\ r \in inc \cup out \/ r \notin outgoingRequests[Other(n)]
    BY <1>d, <1>6, <2>1, <2>4
  <2>9. /\ accepted' = [accepted EXCEPT ![n] = @ \cup added]
        /\ incomingRequests' = [incomingRequests EXCEPT ![n] = inc]
        /\ outgoingReplies' = [outgoingReplies EXCEPT ![n] = out]
        /\ requestReceiveTime' = [requestReceiveTime EXCEPT ![n] = inc \cup out]
        /\ net' \in {net, net \cup {ReplyMsg(n, r)}} /\ fatal' = fatal
    BY <2>3, <2>4
  <2>10. r \in issued[Other(n)] \ delayedRequests[Other(n)] BY <2>1
  <2> HIDE DEF inc, out, added
  <2> QED BY <1>5, <2>8, <2>9, <2>10
<1>7. CASE r \in issued[Other(n)] \ delayedRequests[Other(n)] /\ HandleRequest(n, r)
  <2>1. requestReceiveTime[n] = incomingRequests[n] \cup outgoingReplies[n]
        /\ incomingRequests[n] \cup outgoingReplies[n] \subseteq accepted[n]
    BY DEF IInv, ClockMapsMatch, ExecutedWasSent
  <2>2. r \notin incomingRequests[n] BY <1>7 DEF HandleRequest, KnownRequest
  <2>3. CASE r \in outgoingReplies[n]
    <3>1. /\ net' = net \cup {ReplyMsg(n, r)} /\ fatal' = fatal
          /\ UNCHANGED <<incomingRequests, outgoingReplies, requestReceiveTime, accepted>>
      BY <1>7, <2>1, <2>3 DEF HandleRequest, ReplyAgain, Send, DieIf, replierVars
    <3>2. /\ accepted' = [accepted EXCEPT ![n] = @ \cup {}]
          /\ incomingRequests' = [incomingRequests EXCEPT ![n] = incomingRequests[n]]
          /\ outgoingReplies' = [outgoingReplies EXCEPT ![n] = outgoingReplies[n]]
          /\ requestReceiveTime' =
               [requestReceiveTime EXCEPT ![n] = incomingRequests[n] \cup outgoingReplies[n]]
      BY <1>1, <2>1, <3>1 DEF TypeOK
    <3> DEFINE inc == incomingRequests[n]
               out == outgoingReplies[n]
               added == {}
    <3>8. /\ added \in SUBSET {r} /\ r \in accepted[n] \cup added
          /\ inc \cup out \subseteq accepted[n] \cup added /\ inc \cap out = {}
          /\ (incomingRequests[n] \cup outgoingReplies[n] \cup added) \ {r} \subseteq inc \cup out
          /\ r \in inc \cup out \/ r \notin outgoingRequests[Other(n)]
      BY <1>d, <2>1, <2>3
    <3>9. /\ accepted' = [accepted EXCEPT ![n] = @ \cup added]
          /\ incomingRequests' = [incomingRequests EXCEPT ![n] = inc]
          /\ outgoingReplies' = [outgoingReplies EXCEPT ![n] = out]
          /\ requestReceiveTime' = [requestReceiveTime EXCEPT ![n] = inc \cup out]
          /\ net' \in {net, net \cup {ReplyMsg(n, r)}} /\ fatal' = fatal
      BY <3>1, <3>2
    <3>10. r \in issued[Other(n)] \ delayedRequests[Other(n)] BY <1>7
    <3> HIDE DEF inc, out, added
    <3> QED BY <1>5, <3>8, <3>9, <3>10
  <2>4. CASE r \notin outgoingReplies[n]
    <3>1. TakeRequest(n, r) BY <1>7, <2>4 DEF HandleRequest
    <3>2. fatal' = fatal /\ accepted' = [accepted EXCEPT ![n] = @ \cup {r}]
      BY <2>1, <2>2, <2>4, <3>1 DEF TakeRequest, DieIf
    <3>3. CASE r.payload \in {"PING", "SHUTDOWN"}
      <4>1. /\ incomingRequests' =
                 [incomingRequests EXCEPT ![n] = incomingRequests[n]]
            /\ outgoingReplies' = [outgoingReplies EXCEPT ![n] = outgoingReplies[n] \cup {r}]
            /\ requestReceiveTime' =
                 [requestReceiveTime EXCEPT ![n] = requestReceiveTime[n] \cup {r}]
            /\ net' = net \cup {ReplyMsg(n, r)}
        <5>1. (incomingRequests[n] \cup {r}) \ {r} = incomingRequests[n] BY <2>2
        <5> QED BY <3>1, <3>3, <5>1 DEF TakeRequest, DoReply, Send
      <4>2. requestReceiveTime[n] \cup {r} =
              incomingRequests[n] \cup (outgoingReplies[n] \cup {r})
        BY <2>1
      <4> DEFINE inc == incomingRequests[n]
                 out == outgoingReplies[n] \cup {r}
                 added == {r}
      <4>8. /\ added \in SUBSET {r} /\ r \in accepted[n] \cup added
            /\ inc \cup out \subseteq accepted[n] \cup added /\ inc \cap out = {}
            /\ (incomingRequests[n] \cup outgoingReplies[n] \cup added) \ {r} \subseteq inc \cup out
            /\ r \in inc \cup out \/ r \notin outgoingRequests[Other(n)]
        BY <1>d, <2>1, <2>2
      <4>9. /\ accepted' = [accepted EXCEPT ![n] = @ \cup added]
            /\ incomingRequests' = [incomingRequests EXCEPT ![n] = inc]
            /\ outgoingReplies' = [outgoingReplies EXCEPT ![n] = out]
            /\ requestReceiveTime' = [requestReceiveTime EXCEPT ![n] = inc \cup out]
            /\ net' \in {net, net \cup {ReplyMsg(n, r)}} /\ fatal' = fatal
        BY <2>2, <3>2, <4>1, <4>2
      <4>10. r \in issued[Other(n)] \ delayedRequests[Other(n)] BY <1>7
      <4> HIDE DEF inc, out, added
      <4> QED BY <1>5, <4>8, <4>9, <4>10
    <3>4. CASE r.payload \notin {"PING", "SHUTDOWN"}
      <4>1. /\ incomingRequests' = [incomingRequests EXCEPT ![n] = incomingRequests[n] \cup {r}]
            /\ outgoingReplies' = [outgoingReplies EXCEPT ![n] = outgoingReplies[n]]
            /\ requestReceiveTime' =
                 [requestReceiveTime EXCEPT ![n] = requestReceiveTime[n] \cup {r}]
            /\ net' = net
        BY <1>1, <3>1, <3>4 DEF TakeRequest, TypeOK
      <4>2. requestReceiveTime[n] \cup {r} = (incomingRequests[n] \cup {r}) \cup outgoingReplies[n]
        BY <2>1
      <4> DEFINE inc == incomingRequests[n] \cup {r}
                 out == outgoingReplies[n]
                 added == {r}
      <4>8. /\ added \in SUBSET {r} /\ r \in accepted[n] \cup added
            /\ inc \cup out \subseteq accepted[n] \cup added /\ inc \cap out = {}
            /\ (incomingRequests[n] \cup outgoingReplies[n] \cup added) \ {r} \subseteq inc \cup out
            /\ r \in inc \cup out \/ r \notin outgoingRequests[Other(n)]
        BY <1>d, <2>1, <2>2, <2>4
      <4>9. /\ accepted' = [accepted EXCEPT ![n] = @ \cup added]
            /\ incomingRequests' = [incomingRequests EXCEPT ![n] = inc]
            /\ outgoingReplies' = [outgoingReplies EXCEPT ![n] = out]
            /\ requestReceiveTime' = [requestReceiveTime EXCEPT ![n] = inc \cup out]
            /\ net' \in {net, net \cup {ReplyMsg(n, r)}} /\ fatal' = fatal
        BY <3>2, <4>1, <4>2
      <4>10. r \in issued[Other(n)] \ delayedRequests[Other(n)] BY <1>7
      <4> HIDE DEF inc, out, added
      <4> QED BY <1>5, <4>8, <4>9, <4>10
    <3> QED BY <3>3, <3>4
  <2> QED BY <2>3, <2>4
<1>8. CASE r \in issued[Other(n)] \ Outstanding(Other(n)) /\ HandleAcknowledge(n, r)
  <2>1. /\ requestReceiveTime[n] = incomingRequests[n] \cup outgoingReplies[n]
        /\ incomingRequests[n] \cup outgoingReplies[n] \subseteq accepted[n]
    BY DEF IInv, ClockMapsMatch, ExecutedWasSent
  <2>2. r \in outgoingReplies[n] /\ r \notin incomingRequests[n]
    BY <1>d, <1>8 DEF HandleAcknowledge
  <2>3. /\ incomingRequests' = [incomingRequests EXCEPT ![n] = incomingRequests[n]]
        /\ accepted' = [accepted EXCEPT ![n] = @ \cup {}]
        /\ outgoingReplies' = [outgoingReplies EXCEPT ![n] = outgoingReplies[n] \ {r}]
        /\ requestReceiveTime' = [requestReceiveTime EXCEPT ![n] = requestReceiveTime[n] \ {r}]
        /\ net' = net /\ fatal' = fatal
    BY <1>1, <1>8, <2>1, <2>2 DEF HandleAcknowledge, DieIf, TypeOK
  <2>4. requestReceiveTime[n] \ {r} = incomingRequests[n] \cup (outgoingReplies[n] \ {r})
    BY <2>1, <2>2
  <2>5. r \in issued[Other(n)] \ delayedRequests[Other(n)] /\ r \notin outgoingRequests[Other(n)]
    BY <1>8
  <2> DEFINE inc == incomingRequests[n]
             out == outgoingReplies[n] \ {r}
             added == {}
  <2>8. /\ added \in SUBSET {r} /\ r \in accepted[n] \cup added
        /\ inc \cup out \subseteq accepted[n] \cup added /\ inc \cap out = {}
        /\ (incomingRequests[n] \cup outgoingReplies[n] \cup added) \ {r} \subseteq inc \cup out
        /\ r \in inc \cup out \/ r \notin outgoingRequests[Other(n)]
    BY <1>d, <2>1, <2>2, <2>5
  <2>9. /\ accepted' = [accepted EXCEPT ![n] = @ \cup added]
        /\ incomingRequests' = [incomingRequests EXCEPT ![n] = inc]
        /\ outgoingReplies' = [outgoingReplies EXCEPT ![n] = out]
        /\ requestReceiveTime' = [requestReceiveTime EXCEPT ![n] = inc \cup out]
        /\ net' \in {net, net \cup {ReplyMsg(n, r)}} /\ fatal' = fatal
    BY <2>3, <2>4
  <2>10. r \in issued[Other(n)] \ delayedRequests[Other(n)] BY <2>5
  <2> HIDE DEF inc, out, added
  <2> QED BY <1>5, <2>8, <2>9, <2>10
<1> QED BY <1>6, <1>7, <1>8

\* A step that leaves both handlers and the network alone (the threads' own steps).
LEMMA ThreadInv ==
  ASSUME IInv, TypeOK',
         UNCHANGED <<requesterVars, replyVars, requestSendTime, replierVars, fatal, net>>
  PROVE  IInv'
<1>1. NoFatal' BY DEF IInv, NoFatal
<1> DEFINE msgs == {}
<1>2. net' = net \cup msgs /\ \A m \in msgs : MessagesTrue!(m) OBVIOUS
<1> HIDE DEF msgs
<1> QED BY <1>1, <1>2, ResendInv

\* A step in which the application reads a reply, a barrier begins or a packet is lost.
LEMMA LocalInv ==
  ASSUME IInv, TypeOK', NEW n \in Node,
         \/ \E r \in incomingReplies[n] : ConsumeReply(n, r)
         \/ Barrier(n)
         \/ \E m \in net : Lose(m)
  PROVE  IInv'
<1>1. UNCHANGED <<delayedRequests, outgoingRequests, issued, requestSendTime, incomingRequests,
                  outgoingReplies, requestReceiveTime, accepted, fatal>>
  BY DEF ConsumeReply, Barrier, Lose, requesterVars, replierVars
<1>2. net' \subseteq net BY DEF ConsumeReply, Barrier, Lose
<1>3. /\ NoFatal' /\ ClockMapsMatch' /\ BarriersSeparate' /\ SentMeansOlderDone'
      /\ DoneMeansExecuted' /\ ExecutedWasSent' /\ ExecutedIsHeld'
  BY <1>1 DEF IInv, NoFatal, ClockMapsMatch, BarriersSeparate, SentMeansOlderDone,
     DoneMeansExecuted, ExecutedWasSent, ExecutedIsHeld, Outstanding
<1>4. MessagesTrue' BY <1>1, <1>2 DEF IInv, MessagesTrue, Outstanding
<1>5. RequestsIssued'
  <2>1. \A k \in Node : onBarrier[k] \in Nat /\ onBarrier'[k] \in Nat
                        /\ onBarrier[k] <= onBarrier'[k]
    BY BarrierInt DEF IInv, TypeOK, ConsumeReply, Barrier, Lose, requesterVars
  <2>2. \A k \in Node : \A r \in issued[k] : r.barrier \in Nat /\ r.barrier <= onBarrier[k]
    BY BarrierInt DEF IInv, TypeOK, RequestsIssued
  <2>3. \A k \in Node : \A r \in issued[k] : r.barrier <= onBarrier'[k]
    BY <2>1, <2>2
  <2> QED BY <1>1, <2>3 DEF IInv, RequestsIssued, Outstanding
<1>6. RepliesDone'
  <2>1. \A k \in Node : incomingReplies'[k] \cup processedReplies'[k]
                          \subseteq incomingReplies[k] \cup processedReplies[k]
    <3>1. ASSUME NEW r \in incomingReplies[n], ConsumeReply(n, r)
          PROVE  \A k \in Node : incomingReplies'[k] \cup processedReplies'[k]
                                   \subseteq incomingReplies[k] \cup processedReplies[k]
      <4>1. PICK cache \in LruPut(processedReplies[n], r) :
              processedReplies' = [processedReplies EXCEPT ![n] = cache]
        BY <3>1 DEF ConsumeReply
      <4>2. cache \subseteq processedReplies[n] \cup {r} BY LruPutSubset
      <4>3. incomingReplies' = [incomingReplies EXCEPT ![n] = @ \ {r}]
        BY <3>1 DEF ConsumeReply
      <4> QED BY <4>1, <4>2, <4>3 DEF IInv, TypeOK
    <3> QED BY <3>1 DEF Barrier, Lose, replyVars
  <2> QED BY <1>1, <2>1 DEF IInv, RepliesDone, Outstanding
<1> QED BY <1>3, <1>4, <1>5, <1>6 DEF IInv

\* Every step keeps the invariant.
LEMMA IInvStep == IInv /\ [Next]_vars => IInv'
<1> SUFFICES ASSUME IInv, [Next]_vars PROVE IInv' OBVIOUS
<1>1. TypeOK' BY TypeStep DEF IInv
<1>2. TypeOK BY DEF IInv
<1>3. CASE UNCHANGED vars
  BY <1>1, <1>3, ThreadInv DEF vars
<1>4. ASSUME NEW m \in net, Lose(m) PROVE IInv'
  <2>1. Left \in Node BY DEF Node
  <2> QED BY <1>1, <1>4, <2>1, LocalInv
<1>5. ASSUME NEW n \in Node, Step(n) PROVE IInv'
  <2>1. ASSUME NEW p \in Payload, NEW r \in NewRpcs(n, p), DoRequest(n, r) \/ DoRequestOneWay(n, r)
        PROVE  IInv'
    <3>1. r \in Rpc /\ r.barrier = onBarrier[n] /\ r \notin issued[n]
      BY <1>2, NewRpcsFresh
    <3>2. RequestWithId(n, r) /\ UNCHANGED <<onBarrier, replyVars, replierVars>>
      BY <2>1 DEF DoRequest, DoRequestOneWay
    <3> QED BY <1>1, <3>1, <3>2, RequestInv
  <2>2. CASE \/ Request(n) \/ RequestOneWay(n) \/ SendShutdownRequest(n)
             \/ InitTimeShiftPing(n) \/ HeartbeatPing(n)
    BY <2>1, <2>2 DEF Request, RequestOneWay, SendShutdownRequest, InitTimeShiftPing,
       HeartbeatPing, Payload
  <2>3. CASE SendShutdown(n) \/ InitTimeShiftPong(n)
    BY <1>1, <2>3, ThreadInv DEF SendShutdown, InitTimeShiftPong
  <2>4. CASE Barrier(n) BY <1>1, <2>4, LocalInv
  <2>5. ASSUME NEW batch \in SUBSET outgoingReplies[n], ResendReplies(n, batch) PROVE IInv'
    <3>1. NoFatal' BY <2>5 DEF ResendReplies, DieIf, IInv, NoFatal, ClockMapsMatch
    <3>2. \A m \in {ReplyMsg(n, r) : r \in batch} : MessagesTrue!(m)
      BY OtherNode DEF IInv, ExecutedWasSent, ReplyMsg
    <3> QED BY <1>1, <2>5, <3>1, <3>2, ResendInv DEF ResendReplies, Send
  <2>6. ASSUME NEW batch \in SUBSET outgoingRequests[n], ResendRequests(n, batch) PROVE IInv'
    <3>1. NoFatal' BY <2>6 DEF ResendRequests, IInv, NoFatal
    <3>2. \A m \in {RequestMsg(n, r) : r \in batch} : MessagesTrue!(m)
      BY OtherNode DEF IInv, RequestsIssued, Outstanding, RequestMsg
    <3> QED BY <1>1, <2>6, <3>1, <3>2, ResendInv DEF ResendRequests, Send
  <2>7. ASSUME NEW m \in net, ReceiveMsg(n, m) PROVE IInv'
    <3>1. m.rpc \in Rpc /\ m.to = n BY <1>2, <2>7 DEF TypeOK, Message, ReceiveMsg
    <3>2. CASE m.header = "REQUEST" /\ HandleRequest(n, m.rpc)
      <4>1. m.rpc \in issued[Other(n)] \ delayedRequests[Other(n)]
        BY <3>1, <3>2 DEF IInv, MessagesTrue
      <4> QED BY <1>1, <3>1, <3>2, <4>1, ReplierInv
    <3>3. CASE m.header = "ACKNOWLEDGE" /\ HandleAcknowledge(n, m.rpc)
      <4>1. m.rpc \in issued[Other(n)] \ Outstanding(Other(n))
        BY <3>1, <3>3 DEF IInv, MessagesTrue
      <4> QED BY <1>1, <3>1, <3>3, <4>1, ReplierInv
    <3>4. CASE m.header = "REPLY" /\ HandleReply(n, m.rpc)
      <4>1. m.rpc \in accepted[Other(n)] BY <3>1, <3>4 DEF IInv, MessagesTrue
      <4>2. UNCHANGED replierVars BY <3>4 DEF HandleReply
      <4>3. CASE TakeReply(n, m.rpc) BY <1>1, <3>1, <4>1, <4>2, <4>3, TakeReplyInv
      <4>4. CASE /\ \/ m.rpc \in incomingReplies[n] \cup processedReplies[n]
                    \/ m.rpc \notin outgoingRequests[n]
                 /\ AcknowledgeAgain(n, m.rpc)
        <5>1. m.rpc \in issued[n] \ Outstanding(n)
          BY <4>1, <4>4, OtherNode DEF IInv, RepliesDone, ExecutedWasSent, Outstanding
        <5>2. \A a \in {AckMsg(n, m.rpc)} : MessagesTrue!(a)
          BY <5>1, OtherNode DEF AckMsg
        <5>3. NoFatal' BY <4>4 DEF AcknowledgeAgain, IInv, NoFatal
        <5> DEFINE msgs == {AckMsg(n, m.rpc)}
        <5>4. net' = net \cup msgs /\ \A a \in msgs : MessagesTrue!(a)
          BY <4>4, <5>2 DEF AcknowledgeAgain, Send
        <5>5. UNCHANGED <<requesterVars, replyVars, requestSendTime, replierVars>>
          BY <4>2, <4>4 DEF AcknowledgeAgain
        <5> HIDE DEF msgs
        <5> QED BY <1>1, <5>3, <5>4, <5>5, ResendInv
      <4> QED BY <3>4, <4>3, <4>4 DEF HandleReply
    <3> QED BY <2>7, <3>2, <3>3, <3>4 DEF ReceiveMsg
  <2>8. ASSUME NEW r \in incomingRequests[n], Reply(n, r) PROVE IInv'
    <3>1. r \in Rpc BY <1>2 DEF TypeOK
    <3> QED BY <1>1, <2>8, <3>1, ReplierInv
  <2>9. ASSUME NEW r \in incomingReplies[n], ConsumeReply(n, r) PROVE IInv'
    BY <1>1, <2>9, LocalInv
  <2> QED BY <1>5, <2>2, <2>3, <2>4, <2>5, <2>6, <2>7, <2>8, <2>9
          DEF Step, Heartbeat, ResendRandomOutgoingMessage
<1> QED BY <1>3, <1>4, <1>5 DEF Next

\* The inductive invariant holds in every state BiDirectionalRpc can reach.
THEOREM Invariance == Spec => []IInv
<1>1. Init => IInv
  <2> SUFFICES ASSUME Init PROVE IInv OBVIOUS
  <2>1. TypeOK BY BoundsAssumption DEF Init, TypeOK
  <2>2. /\ NoFatal /\ ClockMapsMatch /\ RequestsIssued /\ BarriersSeparate /\ SentMeansOlderDone
        /\ DoneMeansExecuted /\ RepliesDone /\ ExecutedWasSent /\ MessagesTrue /\ ExecutedIsHeld
    BY OtherNode DEF Init, NoFatal, ClockMapsMatch, RequestsIssued, BarriersSeparate,
       SentMeansOlderDone, DoneMeansExecuted, RepliesDone, ExecutedWasSent, MessagesTrue,
       ExecutedIsHeld, Outstanding
  <2> QED BY <2>1, <2>2 DEF IInv
<1> QED BY <1>1, IInvStep, PTL DEF Spec

-----------------------------------------------------------------------------
\* The fatal checks of ClockSynchronizer are never reached from BiDirectionalRpc.
THEOREM NeverFatal == Spec => []NoFatal
<1>1. IInv => NoFatal BY DEF IInv
<1> QED BY <1>1, Invariance, PTL

\* A request that was executed and is still awaited is being executed or its reply
\* is being resent, whatever the LRU caches have evicted.
THEOREM ExecutedStaysHeld == Spec => []ExecutedIsHeld
<1>1. IInv => ExecutedIsHeld BY DEF IInv
<1> QED BY <1>1, Invariance, PTL

\* barrier() orders executions end to end, over any network.
THEOREM BarriersOrderExecutions == Spec => []BarrierOrder
<1>1. IInv => BarrierOrder
  <2> SUFFICES ASSUME IInv, NEW n \in Node, NEW r \in accepted[n],
                      NEW q \in issued[Other(n)], q.barrier < r.barrier
               PROVE  q \in accepted[n] /\ q \notin Outstanding(Other(n))
    BY DEF BarrierOrder
  <2>1. r \in issued[Other(n)] \ delayedRequests[Other(n)] BY DEF IInv, ExecutedWasSent
  <2>2. q \notin Outstanding(Other(n))
    BY <2>1, OtherNode DEF IInv, SentMeansOlderDone
  <2> QED BY <2>2, OtherNode DEF IInv, DoneMeansExecuted
<1> QED BY <1>1, Invariance, PTL

\* A delayed request always has an older one in flight whose reply will release it.
THEOREM DelayedAreReleased == Spec => []DelayedBehindOlder
<1>1. IInv => DelayedBehindOlder BY DEF IInv, BarriersSeparate, DelayedBehindOlder
<1> QED BY <1>1, Invariance, PTL

\* handleRequest() executes a request again only when its issuer no longer waits for it.
THEOREM NoReplay == Spec => NoReplayWhileAwaited
<1> DEFINE A == \A n \in Node : \A r \in accepted[n] :
                  Executes(n, r) => r \notin Outstanding(Other(n))
<1>1. IInv => A
  <2> SUFFICES ASSUME IInv, NEW n \in Node, NEW r \in accepted[n], Executes(n, r)
               PROVE  r \notin Outstanding(Other(n))
    OBVIOUS
  <2>1. r \notin incomingRequests[n] \cup outgoingReplies[n]
    BY DEF Executes, IInv, ClockMapsMatch
  <2>2. r \notin outgoingRequests[Other(n)] BY <2>1 DEF IInv, ExecutedIsHeld
  <2>3. r \notin delayedRequests[Other(n)] BY DEF IInv, ExecutedWasSent
  <2> QED BY <2>2, <2>3 DEF Outstanding
<1>2. IInv => [A]_vars BY <1>1
<1>3. []IInv => [][A]_vars BY <1>2, PTL
<1>4. [][A]_vars => NoReplayWhileAwaited BY DEF NoReplayWhileAwaited
<1> QED BY <1>3, <1>4, Invariance, PTL

-----------------------------------------------------------------------------
(* At most once, while the caches suffice.                                  *)

\* A step that issues at most one request, a new one.
IssuesOne ==
  \/ issued' = issued
  \/ \E n \in Node, p \in Payload : \E r \in NewRpcs(n, p) :
       issued' = [issued EXCEPT ![n] = @ \cup {r}]

\* A step that leaves what the replying side remembers, and the ones that do not.
Remembers == UNCHANGED <<incomingRequests, processedRequests, requestReceiveTime, accepted>>
TakesUnknown(n) ==
  \E m \in net : /\ m.to = n /\ m.header = "REQUEST"
                 /\ ~KnownRequest(n, m.rpc) /\ TakeRequest(n, m.rpc)
ReplierStep ==
  \/ Remembers
  \/ \E n \in Node : \E r \in incomingRequests[n] : Reply(n, r)
  \/ \E n \in Node : TakesUnknown(n)
  \/ \E n \in Node, r \in Rpc : HandleAcknowledge(n, r)

\* Every step is of these kinds.
LEMMA StepKinds == TypeOK /\ [Next]_vars => IssuesOne /\ ReplierStep
<1> SUFFICES ASSUME TypeOK, [Next]_vars PROVE IssuesOne /\ ReplierStep OBVIOUS
<1>1. CASE UNCHANGED vars
  BY <1>1 DEF vars, requesterVars, replierVars, IssuesOne, ReplierStep, Remembers
<1>2. ASSUME NEW m \in net, Lose(m) PROVE IssuesOne /\ ReplierStep
  BY <1>2 DEF Lose, requesterVars, replierVars, IssuesOne, ReplierStep, Remembers
<1>3. ASSUME NEW n \in Node, Step(n) PROVE IssuesOne /\ ReplierStep
  <2>1. CASE \/ Request(n) \/ RequestOneWay(n) \/ SendShutdownRequest(n)
             \/ InitTimeShiftPing(n) \/ HeartbeatPing(n)
    <3>1. PICK p \in Payload : \E r \in NewRpcs(n, p) : DoRequest(n, r) \/ DoRequestOneWay(n, r)
      BY <2>1 DEF Request, RequestOneWay, SendShutdownRequest, InitTimeShiftPing, HeartbeatPing,
         Payload
    <3>2. PICK r \in NewRpcs(n, p) : DoRequest(n, r) \/ DoRequestOneWay(n, r) BY <3>1
    <3>3. issued' = [issued EXCEPT ![n] = @ \cup {r}] /\ UNCHANGED replierVars
      BY <3>2 DEF DoRequest, DoRequestOneWay, RequestWithId
    <3> QED BY <3>3 DEF IssuesOne, ReplierStep, Remembers, replierVars
  <2>2. CASE \/ SendShutdown(n) \/ InitTimeShiftPong(n) \/ Barrier(n)
             \/ ResendRandomOutgoingMessage(n)
    <3>1. issued' = issued /\ UNCHANGED replierVars
      BY <2>2 DEF SendShutdown, InitTimeShiftPong, Barrier, ResendRandomOutgoingMessage,
         ResendReplies, ResendRequests, requesterVars
    <3> QED BY <3>1 DEF IssuesOne, ReplierStep, Remembers, replierVars
  <2>3. ASSUME NEW m \in net, ReceiveMsg(n, m) PROVE IssuesOne /\ ReplierStep
    <3>1. m.to = n /\ m.rpc \in Rpc BY <2>3 DEF ReceiveMsg, TypeOK, Message
    <3>2. CASE m.header = "REQUEST" /\ HandleRequest(n, m.rpc)
      <4>1. issued' = issued BY <3>2 DEF HandleRequest, requesterVars
      <4>2. CASE ReplyAgain(n, m.rpc)
        BY <4>1, <4>2 DEF ReplyAgain, IssuesOne, ReplierStep, Remembers, replierVars
      <4>3. CASE TakeRequest(n, m.rpc)
        <5>1. TakesUnknown(n) BY <3>1, <3>2, <4>3 DEF TakesUnknown, HandleRequest
        <5> QED BY <4>1, <5>1 DEF IssuesOne, ReplierStep
      <4> QED BY <3>2, <4>2, <4>3 DEF HandleRequest
    <3>3. CASE HandleReply(n, m.rpc)
      <4>1. issued' = issued /\ UNCHANGED replierVars
        BY <3>3 DEF HandleReply, AcknowledgeAgain, TakeReply, requesterVars
      <4> QED BY <4>1 DEF IssuesOne, ReplierStep, Remembers, replierVars
    <3>4. CASE HandleAcknowledge(n, m.rpc)
      <4>1. issued' = issued BY <3>4 DEF HandleAcknowledge, requesterVars
      <4> QED BY <3>1, <3>4, <4>1 DEF IssuesOne, ReplierStep
    <3> QED BY <2>3, <3>2, <3>3, <3>4 DEF ReceiveMsg
  <2>4. ASSUME NEW r \in incomingRequests[n], Reply(n, r) PROVE IssuesOne /\ ReplierStep
    <3>1. issued' = issued BY <2>4 DEF Reply, requesterVars
    <3> QED BY <2>4, <3>1 DEF IssuesOne, ReplierStep
  <2>5. ASSUME NEW r \in incomingReplies[n], ConsumeReply(n, r) PROVE IssuesOne /\ ReplierStep
    BY <2>5 DEF ConsumeReply, requesterVars, replierVars, IssuesOne, ReplierStep, Remembers
  <2> QED BY <1>3, <2>1, <2>2, <2>3, <2>4, <2>5 DEF Step, Heartbeat
<1> QED BY <1>1, <1>2, <1>3 DEF Next

\* The cache of the answered requests has room for another request of the other end.
LEMMA NothingEvicted ==
  ASSUME CachesSuffice, IInv, NothingForgotten, NEW n \in Node, NEW r \in issued[Other(n)],
         NEW c \in LruPut(processedRequests[n], r)
  PROVE  c = processedRequests[n] \cup {r}
<1> DEFINE all == issued[Other(n)]
           cache == processedRequests[n] \cup {r}
<1>1. Other(n) \in Node BY OtherNode
<1>2. IsFiniteSet(all) /\ Cardinality(all) <= Budget[Other(n)] BY <1>1 DEF NothingForgotten
<1>3. cache \subseteq all BY DEF NothingForgotten, IInv, ExecutedWasSent
<1> HIDE DEF all, cache
<1>4. Cardinality(cache) <= Cardinality(all) /\ Cardinality(cache) \in Nat /\ Cardinality(all) \in Nat
  BY <1>2, <1>3, FS_Subset, FS_CardinalityType
<1>5. Budget[Other(n)] \in Nat /\ LruCapacity \in Nat /\ Budget[Other(n)] <= LruCapacity
  BY <1>1, BoundsAssumption DEF CachesSuffice, Node
<1>6. Cardinality(cache) <= LruCapacity BY <1>2, <1>4, <1>5
<1> QED BY <1>6 DEF LruPut, cache

\* The budget bounds what is issued.
LEMMA BudgetStep ==
  ASSUME TypeOK, IssuesOne, NothingForgotten, NEW n \in Node
  PROVE  IsFiniteSet(issued'[n]) /\ Cardinality(issued'[n]) <= Budget[n]
<1>1. IsFiniteSet(issued[n]) /\ Cardinality(issued[n]) <= Budget[n] BY DEF NothingForgotten
<1>2. CASE issued' = issued BY <1>1, <1>2
<1>3. CASE issued' # issued
  <2>1. PICK k \in Node, p \in Payload : \E r \in NewRpcs(k, p) :
          issued' = [issued EXCEPT ![k] = @ \cup {r}]
    BY <1>3 DEF IssuesOne
  <2>2. PICK r \in NewRpcs(k, p) : issued' = [issued EXCEPT ![k] = @ \cup {r}] BY <2>1
  <2>3. Cardinality(issued[k]) < Budget[k] /\ r \notin issued[k] BY NewRpcsFresh DEF NewRpcs
  <2>4. CASE k # n BY <1>1, <2>2, <2>4 DEF TypeOK
  <2>5. CASE k = n
    <3>1. issued'[n] = issued[n] \cup {r} BY <2>2, <2>5 DEF TypeOK
    <3>2. /\ IsFiniteSet(issued[n] \cup {r})
          /\ Cardinality(issued[n] \cup {r}) = Cardinality(issued[n]) + 1
      BY <1>1, <2>3, <2>5, FS_AddElement
    <3>3. Cardinality(issued[n]) \in Nat /\ Budget[n] \in Nat
      BY <1>1, FS_CardinalityType, BoundsAssumption DEF Node
    <3> QED BY <2>3, <2>5, <3>1, <3>2, <3>3
  <2> QED BY <2>4, <2>5
<1> QED BY <1>2, <1>3

\* A request that was executed is being executed or in the cache.
Remembered(in, done, took) == done \subseteq took /\ took \subseteq in \cup done

\* Every step keeps what is remembered, and none executes a request that was executed.
LEMMA RememberedStep ==
  ASSUME CachesSuffice, IInv, NothingForgotten, ReplierStep, NEW k \in Node
  PROVE  /\ Remembered(incomingRequests'[k], processedRequests'[k], accepted'[k])
         /\ \A r \in accepted[k] : ~Executes(k, r)
<1> DEFINE Goal == /\ Remembered(incomingRequests'[k], processedRequests'[k], accepted'[k])
                   /\ \A r \in accepted[k] : ~Executes(k, r)
<1>1. Remembered(incomingRequests[k], processedRequests[k], accepted[k])
  BY DEF NothingForgotten, Remembered
<1>2. CASE UNCHANGED <<incomingRequests, processedRequests, accepted>>
           /\ requestReceiveTime'[k] \subseteq requestReceiveTime[k]
  BY <1>1, <1>2 DEF Executes
<1>3. CASE Remembers BY <1>2, <1>3 DEF Remembers
<1>4. ASSUME NEW n \in Node, NEW r \in Rpc, HandleAcknowledge(n, r) PROVE Goal
  BY <1>2, <1>4 DEF HandleAcknowledge, IInv, TypeOK
<1>5. ASSUME NEW n \in Node, NEW r \in issued[Other(n)], NEW pending, NEW times,
             DoReply(n, r, pending, times)
      PROVE  /\ incomingRequests' = [incomingRequests EXCEPT ![n] = pending \ {r}]
             /\ processedRequests' = [processedRequests EXCEPT ![n] = @ \cup {r}]
             /\ requestReceiveTime' = [requestReceiveTime EXCEPT ![n] = times]
  <2>1. PICK c \in LruPut(processedRequests[n], r) :
          processedRequests' = [processedRequests EXCEPT ![n] = c]
    BY <1>5 DEF DoReply
  <2>2. c = processedRequests[n] \cup {r} BY <2>1, NothingEvicted
  <2> QED BY <1>5, <2>1, <2>2 DEF DoReply
<1>6. /\ incomingRequests \in [Node -> SUBSET Rpc] /\ processedRequests \in [Node -> SUBSET Rpc]
      /\ accepted \in [Node -> SUBSET Rpc] /\ requestReceiveTime \in [Node -> SUBSET Rpc]
  BY DEF IInv, TypeOK
<1>7. ASSUME NEW n \in Node, NEW r \in incomingRequests[n], Reply(n, r) PROVE Goal
  <2>1. r \in issued[Other(n)] /\ r \in accepted[n] BY DEF IInv, ExecutedWasSent
  <2>2. /\ incomingRequests' = [incomingRequests EXCEPT ![n] = @ \ {r}]
        /\ processedRequests' = [processedRequests EXCEPT ![n] = @ \cup {r}]
        /\ requestReceiveTime' = [requestReceiveTime EXCEPT ![n] = requestReceiveTime[n]]
        /\ accepted' = accepted
    BY <1>5, <1>7, <2>1 DEF Reply
  <2>3. requestReceiveTime' = requestReceiveTime BY <1>6, <2>2
  <2>4. CASE k # n BY <1>1, <1>6, <2>2, <2>3, <2>4 DEF Executes
  <2>5. CASE k = n BY <1>1, <1>6, <2>1, <2>2, <2>3, <2>5 DEF Executes, Remembered
  <2> QED BY <2>4, <2>5
<1>8. ASSUME NEW n \in Node, TakesUnknown(n) PROVE Goal
  <2>1. PICK m \in net : /\ m.to = n /\ m.header = "REQUEST"
                         /\ ~KnownRequest(n, m.rpc) /\ TakeRequest(n, m.rpc)
    BY <1>8 DEF TakesUnknown
  <2> DEFINE r == m.rpc
  <2>2. r \in issued[Other(n)] BY <2>1 DEF IInv, MessagesTrue
  <2>3. r \notin incomingRequests[n] /\ r \notin processedRequests[n] BY <2>1 DEF KnownRequest
  <2>4. accepted' = [accepted EXCEPT ![n] = @ \cup {r}] BY <2>1 DEF TakeRequest
  <2>5. requestReceiveTime' = [requestReceiveTime EXCEPT ![n] = @ \cup {r}]
    BY <1>5, <2>1, <2>2 DEF TakeRequest
  <2>6. \/ /\ incomingRequests' = [incomingRequests EXCEPT ![n] = (incomingRequests[n] \cup {r}) \ {r}]
           /\ processedRequests' = [processedRequests EXCEPT ![n] = @ \cup {r}]
        \/ /\ incomingRequests' = [incomingRequests EXCEPT ![n] = @ \cup {r}]
           /\ processedRequests' = processedRequests
    BY <1>5, <2>1, <2>2 DEF TakeRequest
  <2> HIDE DEF r
  <2>7. CASE k # n BY <1>1, <1>6, <2>4, <2>5, <2>6, <2>7 DEF Executes
  <2>8. CASE k = n
    <3>1. accepted'[k] = accepted[k] \cup {r} /\ requestReceiveTime'[k] = requestReceiveTime[k] \cup {r}
      BY <1>6, <2>4, <2>5, <2>8
    <3>2. \/ incomingRequests'[k] = incomingRequests[k] \ {r}
             /\ processedRequests'[k] = processedRequests[k] \cup {r}
          \/ incomingRequests'[k] = incomingRequests[k] \cup {r}
             /\ processedRequests'[k] = processedRequests[k]
      BY <1>6, <2>6, <2>8
    <3>3. r \notin accepted[k] BY <1>1, <2>3, <2>8 DEF Remembered
    <3>4. \A q \in accepted[k] : ~Executes(k, q) BY <3>1, <3>3 DEF Executes
    <3>5. Remembered(incomingRequests'[k], processedRequests'[k], accepted'[k])
      BY <1>1, <3>1, <3>2 DEF Remembered
    <3> QED BY <3>4, <3>5
  <2> QED BY <2>7, <2>8
<1> QED BY <1>3, <1>4, <1>7, <1>8 DEF ReplierStep

\* One step of the handlers while the caches suffice.
LEMMA ForgetsNothingStep ==
  ASSUME CachesSuffice, IInv, NothingForgotten, [Next]_vars
  PROVE  NothingForgotten' /\ \A n \in Node : \A r \in accepted[n] : ~Executes(n, r)
<1>1. TypeOK /\ IssuesOne /\ ReplierStep BY StepKinds DEF IInv
<1>2. \A n \in Node : IsFiniteSet(issued'[n]) /\ Cardinality(issued'[n]) <= Budget[n]
  BY <1>1, BudgetStep
<1>3. \A n \in Node : /\ Remembered(incomingRequests'[n], processedRequests'[n], accepted'[n])
                      /\ \A r \in accepted[n] : ~Executes(n, r)
  BY <1>1, RememberedStep
<1> QED BY <1>2, <1>3 DEF NothingForgotten, Remembered

\* While the caches suffice, everything that was executed is remembered.
LEMMA ForgetsNothing ==
  ASSUME CachesSuffice
  PROVE  Spec => []NothingForgotten
<1>1. Init => NothingForgotten
  <2>1. \A n \in Node : Budget[n] \in Nat BY BoundsAssumption DEF Node
  <2>2. IsFiniteSet({}) /\ Cardinality({}) = 0 BY FS_EmptySet
  <2> QED BY <2>1, <2>2 DEF Init, NothingForgotten
<1>2. IInv /\ NothingForgotten /\ [Next]_vars => NothingForgotten' BY ForgetsNothingStep
<1> QED BY <1>1, <1>2, Invariance, PTL DEF Spec

\* While the caches suffice for what is issued, no request is executed twice, however often it
\* is resent, duplicated or delayed.
THEOREM ExecutedAtMostOnce ==
  ASSUME CachesSuffice
  PROVE  Spec => AtMostOnce
<1> DEFINE A == \A n \in Node : \A r \in accepted[n] : ~Executes(n, r)
<1>1. IInv /\ NothingForgotten /\ [Next]_vars => [A]_vars BY ForgetsNothingStep
<1> HIDE DEF A
<1>2. Spec => [][A]_vars BY <1>1, ForgetsNothing, Invariance, PTL DEF Spec
<1>3. [][A]_vars => AtMostOnce BY DEF AtMostOnce, A
<1> QED BY <1>2, <1>3, PTL

-----------------------------------------------------------------------------
(* The pings of initTimeShift().                                            *)

\* The cache of the consumed replies has room for another reply to this end's requests.
LEMMA NoReplyEvicted ==
  ASSUME CachesSuffice, IInv, NothingForgotten, NEW n \in Node, NEW r \in incomingReplies[n],
         NEW c \in LruPut(processedReplies[n], r)
  PROVE  c = processedReplies[n] \cup {r}
<1> DEFINE all == issued[n]
           cache == processedReplies[n] \cup {r}
<1>1. IsFiniteSet(all) /\ Cardinality(all) <= Budget[n] BY DEF NothingForgotten
<1>2. cache \subseteq all BY DEF IInv, RepliesDone
<1> HIDE DEF all, cache
<1>3. Cardinality(cache) <= Cardinality(all) /\ Cardinality(cache) \in Nat /\ Cardinality(all) \in Nat
  BY <1>1, <1>2, FS_Subset, FS_CardinalityType
<1>4. Budget[n] \in Nat /\ LruCapacity \in Nat /\ Budget[n] <= LruCapacity
  BY BoundsAssumption DEF CachesSuffice, Node
<1>5. Cardinality(cache) <= LruCapacity BY <1>1, <1>3, <1>4
<1> QED BY <1>5 DEF LruPut, cache

\* A new request: the ping itself, or one that is not the ping.
LEMMA RequestKeepsPong ==
  ASSUME IInv, PongToBeFound, NEW n \in Node, NEW p \in Payload, NEW r \in NewRpcs(n, p),
         \/ DoRequest(n, r) /\ (awaited' = awaited \/ awaited' = [awaited EXCEPT ![n] = {r}])
         \/ DoRequestOneWay(n, r) /\ awaited' = awaited
  PROVE  PongToBeFound'
<1>1. TypeOK /\ r \notin issued[n] BY NewRpcsFresh DEF IInv
<1>2. /\ issued' = [issued EXCEPT ![n] = @ \cup {r}] /\ UNCHANGED replyVars
      /\ \/ outgoingRequests' = [outgoingRequests EXCEPT ![n] = @ \cup {r}]
            /\ delayedRequests' = delayedRequests
         \/ delayedRequests' = [delayedRequests EXCEPT ![n] = @ \cup {r}]
            /\ outgoingRequests' = outgoingRequests
  BY DEF DoRequest, DoRequestOneWay, RequestWithId
<1>3. \/ /\ oneWayRequests' = oneWayRequests
         /\ awaited' = awaited \/ awaited' = [awaited EXCEPT ![n] = {r}]
      \/ oneWayRequests' = [oneWayRequests EXCEPT ![n] = @ \cup {r}] /\ awaited' = awaited
  BY DEF DoRequest, DoRequestOneWay
<1>4. ASSUME NEW k \in Node
      PROVE  /\ oneWayRequests'[k] \subseteq issued'[k]
             /\ awaited'[k] \cap oneWayRequests'[k] = {}
             /\ awaited'[k] \subseteq Outstanding(k)' \cup incomingReplies'[k] \cup processedReplies'[k]
  <2>1. /\ oneWayRequests[k] \subseteq issued[k] /\ awaited[k] \cap oneWayRequests[k] = {}
        /\ awaited[k] \subseteq Outstanding(k) \cup incomingReplies[k] \cup processedReplies[k]
        /\ awaited[k] \subseteq issued[k]
    BY DEF PongToBeFound, IInv, RequestsIssued, RepliesDone
  <2>2. CASE k # n
    <3>1. /\ issued'[k] = issued[k] /\ oneWayRequests'[k] = oneWayRequests[k]
          /\ awaited'[k] = awaited[k] /\ outgoingRequests'[k] = outgoingRequests[k]
          /\ delayedRequests'[k] = delayedRequests[k]
      BY <1>1, <1>2, <1>3, <2>2 DEF TypeOK
    <3> QED BY <1>2, <2>1, <3>1 DEF Outstanding, replyVars
  <2>3. CASE k = n
    <3>1. /\ issued'[n] = issued[n] \cup {r}
          /\ Outstanding(n)' = Outstanding(n) \cup {r}
      BY <1>1, <1>2 DEF TypeOK, Outstanding
    <3>2. \/ oneWayRequests'[n] = oneWayRequests[n] /\ (awaited'[n] = awaited[n] \/ awaited'[n] = {r})
          \/ oneWayRequests'[n] = oneWayRequests[n] \cup {r} /\ awaited'[n] = awaited[n]
      BY <1>1, <1>3 DEF TypeOK
    <3> QED BY <1>1, <1>2, <2>1, <2>3, <3>1, <3>2 DEF replyVars
  <2> QED BY <2>2, <2>3
<1> QED BY <1>4 DEF PongToBeFound

\* A reply: that to the ping becomes one of the incoming ones.
LEMMA ReplyKeepsPong ==
  ASSUME IInv, PongToBeFound, NEW n \in Node, NEW r \in Rpc, TakeReply(n, r), awaited' = awaited
  PROVE  PongToBeFound'
<1>1. TypeOK BY DEF IInv
<1> DEFINE released == Released(n, outgoingRequests[n] \ {r})
<1>2. /\ outgoingRequests' = [outgoingRequests EXCEPT ![n] = (outgoingRequests[n] \ {r}) \cup released]
      /\ delayedRequests' = [delayedRequests EXCEPT ![n] = @ \ released]
      /\ UNCHANGED <<issued, processedReplies>>
      /\ IF r \in oneWayRequests[n]
         THEN /\ oneWayRequests' = [oneWayRequests EXCEPT ![n] = @ \ {r}]
              /\ incomingReplies' = incomingReplies
         ELSE /\ incomingReplies' = [incomingReplies EXCEPT ![n] = @ \cup {r}]
              /\ oneWayRequests' = oneWayRequests
  BY DEF TakeReply
<1> HIDE DEF released
<1>3. ASSUME NEW k \in Node
      PROVE  /\ oneWayRequests'[k] \subseteq issued'[k]
             /\ awaited'[k] \cap oneWayRequests'[k] = {}
             /\ awaited'[k] \subseteq Outstanding(k)' \cup incomingReplies'[k] \cup processedReplies'[k]
  <2>1. /\ oneWayRequests[k] \subseteq issued[k] /\ awaited[k] \cap oneWayRequests[k] = {}
        /\ awaited[k] \subseteq Outstanding(k) \cup incomingReplies[k] \cup processedReplies[k]
    BY DEF PongToBeFound
  <2>2. CASE k # n
    <3>1. /\ oneWayRequests'[k] = oneWayRequests[k] /\ incomingReplies'[k] = incomingReplies[k]
          /\ outgoingRequests'[k] = outgoingRequests[k]
          /\ delayedRequests'[k] = delayedRequests[k]
      BY <1>1, <1>2, <2>2 DEF TypeOK
    <3> QED BY <1>2, <2>1, <3>1 DEF Outstanding
  <2>3. CASE k = n
    <3>1. Outstanding(n) \ {r} \subseteq Outstanding(n)' BY <1>1, <1>2 DEF TypeOK, Outstanding
    <3>2. \/ /\ r \in oneWayRequests[n] /\ oneWayRequests'[n] = oneWayRequests[n] \ {r}
             /\ incomingReplies'[n] = incomingReplies[n]
          \/ /\ incomingReplies'[n] = incomingReplies[n] \cup {r}
             /\ oneWayRequests'[n] = oneWayRequests[n]
      BY <1>1, <1>2 DEF TypeOK
    <3> QED BY <1>2, <2>1, <2>3, <3>1, <3>2
  <2> QED BY <2>2, <2>3
<1> QED BY <1>3 DEF PongToBeFound

\* No step loses the reply.
LEMMA PongStep ==
  ASSUME CachesSuffice
  PROVE  IInv /\ NothingForgotten /\ PongToBeFound /\ [Next]_vars => PongToBeFound'
<1> SUFFICES ASSUME IInv, NothingForgotten, PongToBeFound, [Next]_vars PROVE PongToBeFound' OBVIOUS
<1>1. TypeOK BY DEF IInv
<1>2. ASSUME UNCHANGED <<requesterVars, replyVars, awaited>> PROVE PongToBeFound'
  BY <1>2 DEF PongToBeFound, Outstanding, requesterVars, replyVars
<1>3. CASE UNCHANGED vars BY <1>2, <1>3 DEF vars, threadVars
<1>4. ASSUME NEW m \in net, Lose(m) PROVE PongToBeFound' BY <1>2, <1>4 DEF Lose, threadVars
<1>5. ASSUME NEW n \in Node, Step(n) PROVE PongToBeFound'
  <2>1. CASE InitTimeShiftPing(n)
    <3>1. PICK r \in NewRpcs(n, "PING") : DoRequest(n, r) /\ awaited' = [awaited EXCEPT ![n] = {r}]
      BY <2>1 DEF InitTimeShiftPing
    <3>2. "PING" \in Payload BY DEF Payload
    <3> QED BY <3>1, <3>2, RequestKeepsPong
  <2>2. CASE Request(n) \/ RequestOneWay(n) \/ SendShutdownRequest(n) \/ HeartbeatPing(n)
    <3>1. PICK p \in Payload : \E r \in NewRpcs(n, p) : DoRequest(n, r) \/ DoRequestOneWay(n, r)
      BY <2>2 DEF Request, RequestOneWay, SendShutdownRequest, HeartbeatPing, Payload
    <3>2. awaited' = awaited
      BY <2>2 DEF Request, RequestOneWay, SendShutdownRequest, HeartbeatPing, threadVars
    <3> QED BY <3>1, <3>2, RequestKeepsPong
  <2>3. CASE SendShutdown(n) \/ ResendRandomOutgoingMessage(n)
    BY <1>2, <2>3 DEF SendShutdown, ResendRandomOutgoingMessage, ResendReplies, ResendRequests,
       threadVars
  <2>4. CASE Barrier(n)
    BY <2>4 DEF Barrier, PongToBeFound, Outstanding, replyVars, threadVars
  <2>5. CASE InitTimeShiftPong(n)
    <3>1. /\ UNCHANGED <<requesterVars, replyVars>>
          /\ \A k \in Node : awaited'[k] \subseteq awaited[k]
      BY <1>1, <2>5 DEF InitTimeShiftPong, TypeOK
    <3>2. \A k \in Node : Outstanding(k)' = Outstanding(k) BY <3>1 DEF Outstanding, requesterVars
    <3> QED BY <3>1, <3>2 DEF PongToBeFound, requesterVars, replyVars
  <2>6. ASSUME NEW m \in net, ReceiveMsg(n, m) PROVE PongToBeFound'
    <3>1. m.rpc \in Rpc BY <1>1 DEF TypeOK, Message
    <3>2. CASE HandleRequest(n, m.rpc) BY <1>2, <3>2 DEF HandleRequest, threadVars
    <3>3. CASE HandleAcknowledge(n, m.rpc) BY <1>2, <3>3 DEF HandleAcknowledge, threadVars
    <3>4. CASE HandleReply(n, m.rpc)
      <4>1. awaited' = awaited BY <3>4 DEF HandleReply, threadVars
      <4>2. CASE AcknowledgeAgain(n, m.rpc) BY <1>2, <4>1, <4>2 DEF AcknowledgeAgain
      <4>3. CASE TakeReply(n, m.rpc) BY <3>1, <4>1, <4>3, ReplyKeepsPong
      <4> QED BY <3>4, <4>2, <4>3 DEF HandleReply
    <3> QED BY <2>6, <3>2, <3>3, <3>4 DEF ReceiveMsg
  <2>7. ASSUME NEW r \in incomingRequests[n], Reply(n, r) PROVE PongToBeFound'
    BY <1>2, <2>7 DEF Reply, threadVars
  <2>8. ASSUME NEW r \in incomingReplies[n], ConsumeReply(n, r) PROVE PongToBeFound'
    <3>1. PICK c \in LruPut(processedReplies[n], r) :
            processedReplies' = [processedReplies EXCEPT ![n] = c]
      BY <2>8 DEF ConsumeReply
    <3>2. c = processedReplies[n] \cup {r} BY <3>1, NoReplyEvicted
    <3>3. /\ UNCHANGED <<requesterVars, awaited>>
          /\ incomingReplies' = [incomingReplies EXCEPT ![n] = @ \ {r}]
      BY <2>8 DEF ConsumeReply, threadVars
    <3>4. \A k \in Node : incomingReplies'[k] \cup processedReplies'[k]
                            = incomingReplies[k] \cup processedReplies[k]
      BY <1>1, <2>8, <3>1, <3>2, <3>3 DEF TypeOK
    <3>5. \A k \in Node : Outstanding(k)' = Outstanding(k) BY <3>3 DEF Outstanding, requesterVars
    <3> QED BY <3>3, <3>4, <3>5 DEF PongToBeFound, requesterVars
  <2> QED BY <1>5, <2>1, <2>2, <2>3, <2>4, <2>5, <2>6, <2>7, <2>8 DEF Step, Heartbeat
<1> QED BY <1>3, <1>4, <1>5 DEF Next

\* PongToBeFound while the caches suffice: initTimeShift() never polls for a reply that the
\* handler has thrown away, whichever thread consumes the replies.
THEOREM PongsAreFound ==
  ASSUME CachesSuffice
  PROVE  Spec => []PongToBeFound
<1>1. Init => PongToBeFound BY DEF Init, PongToBeFound
<1> QED BY <1>1, PongStep, ForgetsNothing, Invariance, PTL DEF Spec

-----------------------------------------------------------------------------
(* The refinement of RpcService.                                            *)

\* Every step keeps RepliesCurrent: a request is executed again only when nobody waits for it.
LEMMA RepliesCurrentStep == IInv /\ RepliesCurrent /\ [Next]_vars => RepliesCurrent'
<1> SUFFICES ASSUME IInv, RepliesCurrent, [Next]_vars,
                    NEW m \in net', m.header = "REPLY",
                    m.rpc \in incomingRequests'[Other(m.to)] \cap outgoingRequests'[m.to]
             PROVE  FALSE
  BY DEF RepliesCurrent
<1> USE OtherNode DEF Outstanding
<1>1. TypeOK BY DEF IInv
<1>2. m \in net => /\ m.to \in Node /\ m.rpc \in accepted[Other(m.to)]
                   /\ m.rpc \in issued[m.to] \ delayedRequests[m.to]
  BY <1>1 DEF IInv, MessagesTrue, TypeOK, Message, ExecutedWasSent
<1>3. ASSUME m \in net, UNCHANGED <<incomingRequests, outgoingRequests>> PROVE FALSE
  BY <1>3 DEF RepliesCurrent
<1>4. CASE UNCHANGED vars
  BY <1>3, <1>4 DEF vars, requesterVars, replierVars
<1>5. ASSUME NEW l \in net, Lose(l) PROVE FALSE
  BY <1>3, <1>5 DEF Lose, requesterVars, replierVars
<1>6. ASSUME NEW n \in Node, Step(n) PROVE FALSE
  <2>1. ASSUME NEW p \in Payload, NEW r \in NewRpcs(n, p), DoRequest(n, r) \/ DoRequestOneWay(n, r)
        PROVE  FALSE
    <3>1. r \in Rpc /\ r \notin issued[n] BY <1>1, NewRpcsFresh
    <3>2. RequestWithId(n, r) /\ UNCHANGED incomingRequests
      BY <2>1 DEF DoRequest, DoRequestOneWay, replierVars
    <3>3. m \in net
      BY <3>2 DEF RequestWithId, SendNow, Send, RequestMsg
    <3>4. m.rpc \in outgoingRequests[m.to]
      BY <1>1, <1>2, <3>1, <3>2, <3>3 DEF RequestWithId, TypeOK
    <3> QED BY <3>2, <3>3, <3>4 DEF RepliesCurrent
  <2>2. CASE \/ Request(n) \/ RequestOneWay(n) \/ SendShutdownRequest(n)
             \/ InitTimeShiftPing(n) \/ HeartbeatPing(n)
    BY <2>1, <2>2 DEF Request, RequestOneWay, SendShutdownRequest, InitTimeShiftPing,
       HeartbeatPing, Payload
  <2>3. CASE SendShutdown(n) \/ InitTimeShiftPong(n) \/ Barrier(n)
    BY <1>3, <2>3 DEF SendShutdown, InitTimeShiftPong, Barrier, requesterVars, replierVars
  <2>4. ASSUME NEW batch \in SUBSET outgoingReplies[n], ResendReplies(n, batch) PROVE FALSE
    <3>1. UNCHANGED <<incomingRequests, outgoingRequests>>
      BY <2>4 DEF ResendReplies, requesterVars, replierVars
    <3>2. ASSUME NEW r \in batch, m = ReplyMsg(n, r) PROVE FALSE
      BY <2>4, <3>1, <3>2 DEF ReplyMsg, IInv, ExecutedWasSent
    <3> QED BY <1>3, <2>4, <3>1, <3>2 DEF ResendReplies, Send
  <2>5. ASSUME NEW batch \in SUBSET outgoingRequests[n], ResendRequests(n, batch) PROVE FALSE
    BY <1>3, <2>5 DEF ResendRequests, Send, RequestMsg, requesterVars, replierVars
  <2>6. ASSUME NEW r \in Rpc, HandleRequest(n, r) PROVE FALSE
    <3>1. UNCHANGED outgoingRequests BY <2>6 DEF HandleRequest, requesterVars
    <3>2. CASE ReplyAgain(n, r) /\ r \in outgoingReplies[n]
      <4>1. UNCHANGED incomingRequests BY <3>2 DEF ReplyAgain, replierVars
      <4>2. m = ReplyMsg(n, r) => FALSE
        BY <3>1, <3>2, <4>1 DEF ReplyMsg, IInv, ExecutedWasSent
      <4> QED BY <1>3, <3>1, <3>2, <4>1, <4>2 DEF ReplyAgain, Send
    <3>3. CASE TakeRequest(n, r) /\ r \notin outgoingReplies[n]
      <4>1. incomingRequests' = [incomingRequests EXCEPT ![n] = incomingRequests'[n]]
            /\ incomingRequests'[n] \subseteq incomingRequests[n] \cup {r}
        BY <1>1, <3>3 DEF TakeRequest, DoReply, TypeOK
      <4>2. CASE m \in net
        <5>1. m.rpc = r /\ Other(m.to) = n
          BY <1>1, <1>2, <3>1, <4>1, <4>2 DEF RepliesCurrent, TypeOK
        <5>2. r \in accepted[n] /\ r \in outgoingRequests[Other(n)]
          BY <1>2, <3>1, <4>2, <5>1
        <5>3. r \notin incomingRequests[n] BY <2>6 DEF HandleRequest, KnownRequest
        <5> QED BY <3>3, <5>2, <5>3 DEF IInv, ExecutedIsHeld
      <4>3. CASE m \notin net
        <5>1. r.payload \in {"PING", "SHUTDOWN"} BY <3>3, <4>3 DEF TakeRequest
        <5>2. DoReply(n, r, incomingRequests[n] \cup {r}, requestReceiveTime[n] \cup {r})
          BY <3>3, <5>1 DEF TakeRequest
        <5>3. m = ReplyMsg(n, r) BY <4>3, <5>2 DEF DoReply, Send
        <5>4. r \notin incomingRequests'[n] BY <1>1, <5>2 DEF DoReply, TypeOK
        <5> QED BY <5>3, <5>4 DEF ReplyMsg
      <4> QED BY <4>2, <4>3
    <3> QED BY <2>6, <3>2, <3>3 DEF HandleRequest
  <2>7. ASSUME NEW r \in Rpc, r \in accepted[Other(n)], HandleReply(n, r) PROVE FALSE
    <3>1. UNCHANGED incomingRequests BY <2>7 DEF HandleReply, replierVars
    <3>2. m \in net
      <4>1. CASE AcknowledgeAgain(n, r) BY <4>1 DEF AcknowledgeAgain, Send, AckMsg
      <4>2. CASE TakeReply(n, r)
        <5> DEFINE released == Released(n, outgoingRequests[n] \ {r})
        <5>1. net' = net \cup ({RequestMsg(n, q) : q \in released} \cup {AckMsg(n, r)})
          BY <4>2 DEF TakeReply, Send
        <5> HIDE DEF released
        <5> QED BY <5>1 DEF RequestMsg, AckMsg
      <4> QED BY <2>7, <4>1, <4>2 DEF HandleReply
    <3>3. m.rpc \in outgoingRequests[m.to]
      <4>1. CASE AcknowledgeAgain(n, r) BY <4>1 DEF AcknowledgeAgain, requesterVars
      <4>2. CASE TakeReply(n, r)
        <5> DEFINE released == Released(n, outgoingRequests[n] \ {r})
        <5>1. outgoingRequests' =
                [outgoingRequests EXCEPT ![n] = (outgoingRequests[n] \ {r}) \cup released]
          BY <4>2 DEF TakeReply
        <5>2. released \subseteq delayedRequests[n] BY DEF Released
        <5> HIDE DEF released
        <5> QED BY <1>1, <1>2, <3>2, <5>1, <5>2 DEF TypeOK
      <4> QED BY <2>7, <4>1, <4>2 DEF HandleReply
    <3> QED BY <3>1, <3>2, <3>3 DEF RepliesCurrent
  <2>8. ASSUME NEW r \in Rpc, HandleAcknowledge(n, r) PROVE FALSE
    BY <1>3, <2>8 DEF HandleAcknowledge, requesterVars
  <2>9. ASSUME NEW l \in net, ReceiveMsg(n, l) PROVE FALSE
    <3>1. l.rpc \in Rpc /\ l.to = n BY <1>1, <2>9 DEF TypeOK, Message, ReceiveMsg
    <3>2. l.header = "REPLY" => l.rpc \in accepted[Other(n)]
      BY <3>1 DEF IInv, MessagesTrue
    <3> QED BY <2>6, <2>7, <2>8, <2>9, <3>1, <3>2 DEF ReceiveMsg
  <2>10. ASSUME NEW r \in incomingRequests[n], Reply(n, r) PROVE FALSE
    <3>1. UNCHANGED outgoingRequests BY <2>10 DEF Reply, requesterVars
    <3>2. /\ incomingRequests' = [incomingRequests EXCEPT ![n] = @ \ {r}]
          /\ net' = net \cup {ReplyMsg(n, r)}
      BY <2>10 DEF Reply, DoReply, Send
    <3>3. CASE m \in net
      BY <1>1, <1>2, <3>1, <3>2, <3>3 DEF RepliesCurrent, TypeOK
    <3>4. CASE m = ReplyMsg(n, r) BY <1>1, <3>2, <3>4 DEF ReplyMsg, TypeOK
    <3> QED BY <3>2, <3>3, <3>4
  <2>11. ASSUME NEW r \in incomingReplies[n], ConsumeReply(n, r) PROVE FALSE
    BY <1>3, <2>11 DEF ConsumeReply, requesterVars, replierVars
  <2> QED BY <1>6, <2>2, <2>3, <2>4, <2>5, <2>9, <2>10, <2>11
          DEF Step, Heartbeat, ResendRandomOutgoingMessage
<1> QED BY <1>4, <1>5, <1>6 DEF Next

\* What the service's variables are, end by end.
LEMMA ServiceValues ==
  ASSUME NEW n \in Node
  PROVE  /\ ServiceExecuted[n] = accepted[Other(n)]
         /\ ServiceExecuted'[n] = accepted'[Other(n)]
         /\ ServiceCompleted[n] = issued[n] \ (delayedRequests[n] \cup outgoingRequests[n])
         /\ ServiceCompleted'[n] = issued'[n] \ (delayedRequests'[n] \cup outgoingRequests'[n])
         /\ ServiceAnswered[n] =
              ServiceCompleted[n] \cup (accepted[Other(n)] \ incomingRequests[Other(n)])
         /\ ServiceAnswered'[n] =
              ServiceCompleted'[n] \cup (accepted'[Other(n)] \ incomingRequests'[Other(n)])
BY OtherNode DEF ServiceExecuted, ServiceCompleted, ServiceAnswered, Outstanding

\* The same for an end and the one that executes its requests.
LEMMA ServiceBothEnds ==
  ASSUME NEW n \in Node, NEW o, o = Other(n)
  PROVE  /\ o \in Node /\ o # n /\ Other(o) = n /\ Node = {n, o}
         /\ ServiceExecuted[n] = accepted[o] /\ ServiceExecuted[o] = accepted[n]
         /\ ServiceExecuted'[n] = accepted'[o] /\ ServiceExecuted'[o] = accepted'[n]
         /\ ServiceAnswered[n] = ServiceCompleted[n] \cup (accepted[o] \ incomingRequests[o])
         /\ ServiceAnswered[o] = ServiceCompleted[o] \cup (accepted[n] \ incomingRequests[n])
         /\ ServiceAnswered'[n] = ServiceCompleted'[n] \cup (accepted'[o] \ incomingRequests'[o])
         /\ ServiceAnswered'[o] = ServiceCompleted'[o] \cup (accepted'[n] \ incomingRequests'[n])
<1>1. o \in Node /\ o # n /\ Other(o) = n /\ Node = {n, o} BY OtherNode DEF Node, Other
<1>2. n \in Node /\ Other(n) = o OBVIOUS
<1> QED BY <1>1, <1>2, ServiceValues

\* They change where their values do.
LEMMA ServiceFunctions ==
  ASSUME NEW n \in Node, NEW S
  PROVE  /\ /\ ServiceExecuted'[n] = ServiceExecuted[n] \cup S
            /\ \A k \in Node \ {n} : ServiceExecuted'[k] = ServiceExecuted[k]
            => ServiceExecuted' = [ServiceExecuted EXCEPT ![n] = @ \cup S]
         /\ /\ ServiceCompleted'[n] = ServiceCompleted[n] \cup S
            /\ \A k \in Node \ {n} : ServiceCompleted'[k] = ServiceCompleted[k]
            => ServiceCompleted' = [ServiceCompleted EXCEPT ![n] = @ \cup S]
         /\ /\ ServiceAnswered'[n] = ServiceAnswered[n] \cup S
            /\ \A k \in Node \ {n} : ServiceAnswered'[k] = ServiceAnswered[k]
            => ServiceAnswered' = [ServiceAnswered EXCEPT ![n] = @ \cup S]
         /\ (\A k \in Node : ServiceAnswered'[k] = ServiceAnswered[k]) => UNCHANGED ServiceAnswered
<1> DEFINE IsFcn(f) == f = [k \in Node |-> f[k]]
<1>1. ASSUME NEW f, NEW g, IsFcn(f), IsFcn(g), g[n] = f[n] \cup S,
             \A k \in Node \ {n} : g[k] = f[k]
      PROVE  g = [f EXCEPT ![n] = @ \cup S]
  BY <1>1
<1>2. ASSUME NEW f, NEW g, IsFcn(f), IsFcn(g), \A k \in Node : g[k] = f[k] PROVE g = f
  BY <1>2
<1>3. IsFcn(ServiceExecuted) /\ IsFcn(ServiceExecuted') BY DEF ServiceExecuted
<1>4. IsFcn(ServiceCompleted) /\ IsFcn(ServiceCompleted') BY DEF ServiceCompleted
<1>5. IsFcn(ServiceAnswered) /\ IsFcn(ServiceAnswered') BY DEF ServiceAnswered
<1> HIDE DEF IsFcn
<1> QED BY <1>1, <1>2, <1>3, <1>4, <1>5

\* A step that changes none of what the service sees is a stuttering step of it.
LEMMA ServiceStutters ==
  ASSUME UNCHANGED <<issued, accepted, incomingRequests, outgoingRequests, delayedRequests>>
  PROVE  UNCHANGED Service!serviceVars
BY DEF Service!serviceVars, ServiceExecuted, ServiceCompleted, ServiceAnswered, Outstanding

\* requestWithId() issues a request, whether it is sent or delayed.
LEMMA RequestRefines ==
  ASSUME IInv, NEW n \in Node, NEW p \in Payload, NEW r \in NewRpcs(n, p),
         DoRequest(n, r) \/ DoRequestOneWay(n, r)
  PROVE  Service!Issue(n, r)
<1>1. TypeOK BY DEF IInv
<1>2. r \in Rpc /\ r \notin issued[n] /\ r.barrier = onBarrier[n] BY <1>1, NewRpcsFresh
<1>3. RequestWithId(n, r) /\ UNCHANGED <<incomingRequests, accepted>>
  BY DEF DoRequest, DoRequestOneWay, replierVars
<1>4. \A q \in issued[n] : q.uuid # r.uuid /\ q.barrier <= r.barrier
  BY <1>2 DEF NewRpcs, IInv, RequestsIssued
<1>5. issued' = [issued EXCEPT ![n] = @ \cup {r}] BY <1>3 DEF RequestWithId
<1>6. \A k \in Node : issued'[k] \ Outstanding(k)' = issued[k] \ Outstanding(k)
  BY <1>1, <1>2, <1>3, <1>5 DEF RequestWithId, Outstanding, TypeOK
<1>7. UNCHANGED <<ServiceExecuted, ServiceAnswered, ServiceCompleted>>
  BY <1>3, <1>6 DEF ServiceExecuted, ServiceAnswered, ServiceCompleted
<1> QED BY <1>4, <1>5, <1>7 DEF Service!Issue

\* handleRequest() executes a request of the other end, and answers a PING or a SHUTDOWN, unless
\* it is one that the other end no longer waits for.
LEMMA TakeRequestRefines ==
  ASSUME IInv, NEW n \in Node, NEW r \in Rpc, HandleRequest(n, r), TakeRequest(n, r),
         r \notin outgoingReplies[n], NEW o, o = Other(n),
         r \in issued[o] \ delayedRequests[o]
  PROVE  \/ Service!Execute(o, r)
         \/ Service!ExecuteAndAnswer(o, r)
         \/ UNCHANGED Service!serviceVars
<1>0. o \in Node /\ o # n /\ Other(o) = n /\ Node = {n, o} BY ServiceBothEnds
<1>v. /\ ServiceExecuted[n] = accepted[o] /\ ServiceExecuted[o] = accepted[n]
      /\ ServiceExecuted'[n] = accepted'[o] /\ ServiceExecuted'[o] = accepted'[n]
      /\ ServiceAnswered[n] = ServiceCompleted[n] \cup (accepted[o] \ incomingRequests[o])
      /\ ServiceAnswered[o] = ServiceCompleted[o] \cup (accepted[n] \ incomingRequests[n])
      /\ ServiceAnswered'[n] = ServiceCompleted'[n] \cup (accepted'[o] \ incomingRequests'[o])
      /\ ServiceAnswered'[o] = ServiceCompleted'[o] \cup (accepted'[n] \ incomingRequests'[n])
  BY ServiceBothEnds
<1>1. TypeOK BY DEF IInv
<1>2. UNCHANGED <<issued, outgoingRequests, delayedRequests>>
  BY DEF HandleRequest, requesterVars
<1>3. ServiceCompleted' = ServiceCompleted BY <1>2 DEF ServiceCompleted, Outstanding
<1>4. accepted'[n] = accepted[n] \cup {r} /\ accepted'[o] = accepted[o]
  BY <1>0, <1>1 DEF TakeRequest, TypeOK
<1>5. r \notin incomingRequests[n] BY DEF HandleRequest, KnownRequest
<1>6. incomingRequests'[o] = incomingRequests[o]
  BY <1>0, <1>1 DEF TakeRequest, DoReply, TypeOK
<1>7. incomingRequests'[n] = IF r.payload \in {"PING", "SHUTDOWN"} THEN incomingRequests[n]
                             ELSE incomingRequests[n] \cup {r}
  <2>1. CASE r.payload \in {"PING", "SHUTDOWN"}
    <3>1. incomingRequests' = [incomingRequests EXCEPT ![n] = (incomingRequests[n] \cup {r}) \ {r}]
      BY <2>1 DEF TakeRequest, DoReply
    <3>2. (incomingRequests[n] \cup {r}) \ {r} = incomingRequests[n] BY <1>5
    <3> QED BY <1>1, <2>1, <3>1, <3>2 DEF TypeOK
  <2>2. CASE r.payload \notin {"PING", "SHUTDOWN"}
    BY <1>1, <2>2 DEF TakeRequest, TypeOK
  <2> QED BY <2>1, <2>2
<1>8. ServiceAnswered'[n] = ServiceAnswered[n] BY <1>3, <1>4, <1>6, <1>v
<1>9. CASE r \in accepted[n]
  <2>1. r \in ServiceCompleted[o]
    BY <1>0, <1>5, <1>9, ServiceValues DEF IInv, ExecutedIsHeld
  <2>2. UNCHANGED accepted BY <1>1, <1>9 DEF TakeRequest, TypeOK
  <2>3. ServiceAnswered'[o] = ServiceAnswered[o]
    BY <1>3, <1>7, <2>1, <2>2, <1>v
  <2>4. UNCHANGED ServiceAnswered BY <1>0, <1>8, <2>3, ServiceFunctions
  <2>5. UNCHANGED ServiceExecuted BY <2>2 DEF ServiceExecuted
  <2> QED BY <1>2, <1>3, <2>4, <2>5 DEF Service!serviceVars
<1>10. CASE r \notin accepted[n]
  <2>1. ServiceExecuted' = [ServiceExecuted EXCEPT ![o] = @ \cup {r}]
    <3>1. /\ ServiceExecuted'[o] = ServiceExecuted[o] \cup {r}
          /\ \A k \in Node \ {o} : ServiceExecuted'[k] = ServiceExecuted[k]
      BY <1>0, <1>4, <1>v
    <3> QED BY <1>0, <3>1, ServiceFunctions
  <2>2. Service!MayExecute(o, r)
    <3>1. r \in issued[o] \ ServiceExecuted[o] BY <1>10, <1>v
    <3>2. \A q \in issued[o] : q.barrier < r.barrier => q \in ServiceCompleted[o]
      BY <1>0, ServiceValues DEF IInv, SentMeansOlderDone, Outstanding
    <3> QED BY <3>1, <3>2 DEF Service!MayExecute
  <2>3. CASE r.payload \in {"PING", "SHUTDOWN"}
    <3>1. ServiceAnswered'[o] = ServiceAnswered[o] \cup {r}
      BY <1>3, <1>4, <1>5, <1>7, <2>3, <1>v
    <3>2. ServiceAnswered' = [ServiceAnswered EXCEPT ![o] = @ \cup {r}]
      BY <1>0, <1>8, <3>1, ServiceFunctions
    <3> QED BY <1>2, <1>3, <2>1, <2>2, <3>2 DEF Service!ExecuteAndAnswer
  <2>4. CASE r.payload \notin {"PING", "SHUTDOWN"}
    <3>1. accepted'[n] \ incomingRequests'[n] = accepted[n] \ incomingRequests[n]
      BY <1>4, <1>7, <1>10, <2>4
    <3>2. ServiceAnswered'[o] = ServiceAnswered[o] BY <1>3, <3>1, <1>v
    <3>3. UNCHANGED ServiceAnswered BY <1>0, <1>8, <3>2, ServiceFunctions
    <3> QED BY <1>2, <1>3, <2>1, <2>2, <3>3 DEF Service!Execute
  <2> QED BY <2>3, <2>4
<1> QED BY <1>9, <1>10

\* reply() answers a request of the other end, unless that has stopped waiting for it.
LEMMA ReplyRefines ==
  ASSUME IInv, NEW n \in Node, NEW r \in incomingRequests[n], Reply(n, r), NEW o, o = Other(n)
  PROVE  Service!Answer(o, r) \/ UNCHANGED Service!serviceVars
<1>0. o \in Node /\ o # n /\ Other(o) = n /\ Node = {n, o} BY ServiceBothEnds
<1>v. /\ ServiceExecuted[n] = accepted[o] /\ ServiceExecuted[o] = accepted[n]
      /\ ServiceExecuted'[n] = accepted'[o] /\ ServiceExecuted'[o] = accepted'[n]
      /\ ServiceAnswered[n] = ServiceCompleted[n] \cup (accepted[o] \ incomingRequests[o])
      /\ ServiceAnswered[o] = ServiceCompleted[o] \cup (accepted[n] \ incomingRequests[n])
      /\ ServiceAnswered'[n] = ServiceCompleted'[n] \cup (accepted'[o] \ incomingRequests'[o])
      /\ ServiceAnswered'[o] = ServiceCompleted'[o] \cup (accepted'[n] \ incomingRequests'[n])
  BY ServiceBothEnds
<1>1. TypeOK BY DEF IInv
<1>2. UNCHANGED <<issued, outgoingRequests, delayedRequests, accepted>>
  BY DEF Reply, requesterVars
<1>3. /\ incomingRequests'[n] = incomingRequests[n] \ {r}
      /\ incomingRequests'[o] = incomingRequests[o]
  BY <1>0, <1>1 DEF Reply, DoReply, TypeOK
<1>4. r \in accepted[n] BY DEF IInv, ExecutedWasSent
<1>5. UNCHANGED <<ServiceExecuted, ServiceCompleted>>
  BY <1>2 DEF ServiceExecuted, ServiceCompleted, Outstanding
<1>6. ServiceAnswered'[n] = ServiceAnswered[n] BY <1>2, <1>3, <1>5, <1>v
<1>7. ServiceAnswered'[o] = ServiceAnswered[o] \cup {r}
  BY <1>2, <1>3, <1>4, <1>5, <1>v
<1>8. ServiceAnswered' = [ServiceAnswered EXCEPT ![o] = @ \cup {r}]
  BY <1>0, <1>6, <1>7, ServiceFunctions
<1>9. CASE r \in ServiceAnswered[o]
  <2>1. ServiceAnswered'[o] = ServiceAnswered[o] BY <1>7, <1>9
  <2>2. UNCHANGED ServiceAnswered BY <1>0, <1>6, <2>1, ServiceFunctions
  <2> QED BY <1>2, <1>5, <2>2 DEF Service!serviceVars
<1>10. CASE r \notin ServiceAnswered[o]
  <2>1. r \in ServiceExecuted[o] \ ServiceAnswered[o] BY <1>4, <1>10, <1>v
  <2> QED BY <1>2, <1>5, <1>8, <2>1 DEF Service!Answer
<1> QED BY <1>9, <1>10

\* handleReply() completes the request, and releasing the next barrier is invisible.
LEMMA TakeReplyRefines ==
  ASSUME IInv, NEW n \in Node, NEW r \in Rpc, NEW o, o = Other(n), r \in accepted[o],
         r \notin incomingRequests[o], TakeReply(n, r), UNCHANGED replierVars
  PROVE  Service!Complete(n, r)
<1>0. o \in Node /\ o # n /\ Other(o) = n /\ Node = {n, o} BY ServiceBothEnds
<1>v. /\ ServiceExecuted[n] = accepted[o] /\ ServiceExecuted[o] = accepted[n]
      /\ ServiceExecuted'[n] = accepted'[o] /\ ServiceExecuted'[o] = accepted'[n]
      /\ ServiceAnswered[n] = ServiceCompleted[n] \cup (accepted[o] \ incomingRequests[o])
      /\ ServiceAnswered[o] = ServiceCompleted[o] \cup (accepted[n] \ incomingRequests[n])
      /\ ServiceAnswered'[n] = ServiceCompleted'[n] \cup (accepted'[o] \ incomingRequests'[o])
      /\ ServiceAnswered'[o] = ServiceCompleted'[o] \cup (accepted'[n] \ incomingRequests'[n])
  BY ServiceBothEnds
<1>1. TypeOK BY DEF IInv
<1>2. UNCHANGED <<issued, accepted, incomingRequests>> BY DEF TakeReply, replierVars
<1> DEFINE released == Released(n, outgoingRequests[n] \ {r})
<1>3. /\ outgoingRequests' =
           [outgoingRequests EXCEPT ![n] = (outgoingRequests[n] \ {r}) \cup released]
      /\ delayedRequests' = [delayedRequests EXCEPT ![n] = @ \ released]
      /\ r \in outgoingRequests[n]
  BY DEF TakeReply
<1>4. released \subseteq delayedRequests[n] BY DEF Released
<1>5. r \in issued[n] /\ r \notin delayedRequests[n]
  BY <1>3 DEF IInv, RequestsIssued, Outstanding
<1> HIDE DEF released
<1>6. \A k \in Node \ {n} : ServiceCompleted'[k] = ServiceCompleted[k]
  <2>1. \A k \in Node \ {n} : /\ delayedRequests'[k] = delayedRequests[k]
                              /\ outgoingRequests'[k] = outgoingRequests[k]
    BY <1>1, <1>3 DEF TypeOK
  <2> QED BY <1>2, <2>1 DEF ServiceCompleted, Outstanding
<1>7. ServiceCompleted'[n] = ServiceCompleted[n] \cup {r}
  <2>1. delayedRequests'[n] \cup outgoingRequests'[n]
          = (delayedRequests[n] \cup outgoingRequests[n]) \ {r}
    BY <1>1, <1>3, <1>4, <1>5 DEF TypeOK
  <2> QED BY <1>2, <1>5, <2>1, ServiceValues
<1>8. ServiceCompleted' = [ServiceCompleted EXCEPT ![n] = @ \cup {r}]
  BY <1>6, <1>7, ServiceFunctions
<1>9. r \in ServiceAnswered[n] \ ServiceCompleted[n]
  BY <1>0, <1>3, <1>v, ServiceValues
<1>10. UNCHANGED ServiceAnswered
  <2>1. \A k \in Node \ {n} : ServiceAnswered'[k] = ServiceAnswered[k]
    BY <1>0, <1>2, <1>6, <1>v
  <2>2. ServiceAnswered'[n] = ServiceAnswered[n] BY <1>2, <1>7, <1>9, <1>v
  <2> QED BY <2>1, <2>2, ServiceFunctions
<1>11. UNCHANGED ServiceExecuted BY <1>2 DEF ServiceExecuted
<1> QED BY <1>2, <1>8, <1>9, <1>10, <1>11 DEF Service!Complete

\* Every step of the handlers and of the network is a step of the service, or invisible to it.
LEMMA StepRefines ==
  IInv /\ RepliesCurrent /\ [Next]_vars => [Service!Next]_Service!serviceVars
<1> DEFINE Goal == Service!Next \/ UNCHANGED Service!serviceVars
<1> SUFFICES ASSUME IInv, RepliesCurrent, [Next]_vars PROVE Goal OBVIOUS
<1> USE OtherNode
<1>1. TypeOK BY DEF IInv
<1>2. ASSUME UNCHANGED <<issued, accepted, incomingRequests, outgoingRequests, delayedRequests>>
      PROVE  Goal
  BY <1>2, ServiceStutters
<1>3. ASSUME NEW n \in Node, NEW r \in Rpc,
             \/ Service!Issue(n, r) \/ Service!Execute(n, r) \/ Service!Answer(n, r)
             \/ Service!ExecuteAndAnswer(n, r) \/ Service!Complete(n, r)
      PROVE  Goal
  BY <1>3 DEF Service!Next
<1> HIDE DEF Goal
<1>4. CASE UNCHANGED vars BY <1>2, <1>4 DEF vars, requesterVars, replierVars
<1>5. ASSUME NEW m \in net, Lose(m) PROVE Goal
  BY <1>2, <1>5 DEF Lose, requesterVars, replierVars
<1>6. ASSUME NEW n \in Node, Step(n) PROVE Goal
  <2>1. ASSUME NEW p \in Payload, NEW r \in NewRpcs(n, p), DoRequest(n, r) \/ DoRequestOneWay(n, r)
        PROVE  Goal
    <3>1. r \in Rpc BY <1>1, NewRpcsFresh
    <3> QED BY <1>3, <2>1, <3>1, RequestRefines
  <2>2. CASE \/ Request(n) \/ RequestOneWay(n) \/ SendShutdownRequest(n)
             \/ InitTimeShiftPing(n) \/ HeartbeatPing(n)
    BY <2>1, <2>2 DEF Request, RequestOneWay, SendShutdownRequest, InitTimeShiftPing,
       HeartbeatPing, Payload
  <2>3. CASE SendShutdown(n) \/ InitTimeShiftPong(n) \/ Barrier(n)
    BY <1>2, <2>3 DEF SendShutdown, InitTimeShiftPong, Barrier, requesterVars, replierVars
  <2>4. ASSUME NEW batch, ResendReplies(n, batch) \/ ResendRequests(n, batch) PROVE Goal
    BY <1>2, <2>4 DEF ResendReplies, ResendRequests, requesterVars, replierVars
  <2>5. ASSUME NEW m \in net, ReceiveMsg(n, m) PROVE Goal
    <3>1. m.rpc \in Rpc /\ m.to = n BY <1>1, <2>5 DEF TypeOK, Message, ReceiveMsg
    <3>2. CASE m.header = "REQUEST" /\ HandleRequest(n, m.rpc)
      <4>1. m.rpc \in issued[Other(n)] \ delayedRequests[Other(n)]
        BY <3>1, <3>2 DEF IInv, MessagesTrue
      <4>2. CASE ReplyAgain(n, m.rpc)
        BY <1>2, <3>2, <4>2 DEF HandleRequest, ReplyAgain, requesterVars, replierVars
      <4>3. CASE TakeRequest(n, m.rpc) /\ m.rpc \notin outgoingReplies[n]
        <5>1. \/ Service!Execute(Other(n), m.rpc)
              \/ Service!ExecuteAndAnswer(Other(n), m.rpc)
              \/ UNCHANGED Service!serviceVars
          BY <3>1, <3>2, <4>1, <4>3, TakeRequestRefines
        <5>2. UNCHANGED Service!serviceVars => Goal BY DEF Goal
        <5> QED BY <1>3, <3>1, <5>1, <5>2
      <4> QED BY <3>2, <4>2, <4>3 DEF HandleRequest
    <3>3. CASE m.header = "ACKNOWLEDGE" /\ HandleAcknowledge(n, m.rpc)
      BY <1>2, <3>3 DEF HandleAcknowledge, requesterVars
    <3>4. CASE m.header = "REPLY" /\ HandleReply(n, m.rpc)
      <4>1. m.rpc \in accepted[Other(n)] BY <3>1, <3>4 DEF IInv, MessagesTrue
      <4>2. UNCHANGED replierVars BY <3>4 DEF HandleReply
      <4>3. CASE AcknowledgeAgain(n, m.rpc)
        BY <1>2, <4>2, <4>3 DEF AcknowledgeAgain, requesterVars, replierVars
      <4>4. CASE TakeReply(n, m.rpc)
        <5>1. m.rpc \notin incomingRequests[Other(n)]
          BY <3>1, <3>4, <4>4 DEF RepliesCurrent, TakeReply
        <5>2. Service!Complete(n, m.rpc)
          BY <3>1, <4>1, <4>2, <4>4, <5>1, TakeReplyRefines
        <5> QED BY <1>3, <3>1, <5>2
      <4> QED BY <3>4, <4>3, <4>4 DEF HandleReply
    <3> QED BY <2>5, <3>2, <3>3, <3>4 DEF ReceiveMsg
  <2>6. ASSUME NEW r \in incomingRequests[n], Reply(n, r) PROVE Goal
    <3>1. Service!Answer(Other(n), r) \/ UNCHANGED Service!serviceVars BY <2>6, ReplyRefines
    <3>2. UNCHANGED Service!serviceVars => Goal BY DEF Goal
    <3>3. r \in Rpc BY <1>1 DEF TypeOK
    <3> QED BY <1>3, <3>1, <3>2, <3>3
  <2>7. ASSUME NEW r \in incomingReplies[n], ConsumeReply(n, r) PROVE Goal
    BY <1>2, <2>7 DEF ConsumeReply, requesterVars, replierVars
  <2> QED BY <1>6, <2>2, <2>3, <2>4, <2>5, <2>6, <2>7
          DEF Step, Heartbeat, ResendRandomOutgoingMessage
<1> QED BY <1>4, <1>5, <1>6 DEF Next, Goal

\* The handlers, with their packets, resends and caches, implement RpcService: for every network,
\* cache capacity, budget and number of barriers.
THEOREM Implements == Spec => ImplementsService
<1>1. Init => Service!Init
  BY OtherNode DEF Init, Service!Init, ServiceExecuted, ServiceCompleted, ServiceAnswered,
     Outstanding
<1>2. Init => RepliesCurrent BY DEF Init, RepliesCurrent
<1>3. Spec => []RepliesCurrent
  BY <1>2, RepliesCurrentStep, Invariance, PTL DEF Spec
<1> QED BY <1>1, <1>3, StepRefines, Invariance, PTL DEF Spec, ImplementsService, Service!Spec
=============================================================================
