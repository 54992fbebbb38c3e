---------------------- MODULE SessionHandshake_proofs ----------------------
(***************************************************************************)
(* The safety of the handshake for any number of peers and requests, when  *)
(* no packet is given to another peer's handler.                           *)
(***************************************************************************)
EXTENDS SessionHandshake, TLAPS

Partner(h) == <<h[2], h[1]>>

\* A handler only ever holds its partner's key, and both exist then.
KeysArePartners ==
  \A h \in Handler : incomingSessionKey[h] # NoKey =>
    /\ incomingSessionKey[h] = Partner(h)
    /\ h \in started /\ Partner(h) \in started

\* Packets go to the partner of a handler that exists.
PacketsAreAddressed == \A m \in network : m.to = m.from[2] /\ m.from \in started

\* A session key is answered only by who has taken it.
AnsweredByHolder ==
  /\ \A h \in Handler : SESSION_KEY_RPCID \in outgoingReplies[h] => CanDecrypt(h)
  /\ \A m \in network : m.kind = "REPLY" /\ m.id = SESSION_KEY_RPCID => CanDecrypt(m.from)

\* A session request is outstanding until the partner has the key.
OutstandingUntilHeld ==
  \A h \in started : SESSION_KEY_RPCID \notin outgoingRequests[h] => CanDecrypt(Partner(h))

\* Data is on its way, or awaits an answer, only from a handler whose partner can read it.
DataIsReadable ==
  /\ \A h \in Handler, id \in Uuid : id \in outgoingRequests[h] => ReadyToSend(h)
  /\ \A h \in Handler : incomingRequests[h] # {} => ReadyToReceive(h)
  /\ \A m \in network : m.kind = "REQUEST" /\ m.id \in Uuid => CanDecrypt(Partner(m.from))

\* Only a handler that exists has anything outstanding.
HasQueues == \A h \in Handler : outgoingRequests[h] \cup outgoingReplies[h] # {} => h \in started

InitializedAreReady == \A h \in Handler : h[1] \in initialized => ReadyToSend(h)

HInv == /\ TypeOK /\ KeysArePartners /\ PacketsAreAddressed /\ AnsweredByHolder
        /\ OutstandingUntilHeld /\ DataIsReadable /\ InitializedAreReady
        /\ HasQueues /\ NoFatal /\ NothingDropped

-----------------------------------------------------------------------------
\* Partnership is an involution on the handlers.
LEMMA PartnerFacts ==
  ASSUME NEW h \in Handler
  PROVE /\ Partner(h) \in Handler
        /\ Partner(h)[1] = h[2] /\ Partner(h)[2] = h[1]
        /\ Partner(Partner(h)) = h
BY DEF Partner, Handler

\* Without misrouting, a packet reaches the partner of its sender, which exists.
LEMMA RouteIsPartner ==
  ASSUME HInv, Misroute = {}, NEW m \in network, NEW h \in Routes(m)
  PROVE /\ h \in Handler /\ h \in started
        /\ m.from \in Handler /\ m.from \in started
        /\ m.from = Partner(h) /\ h = Partner(m.from)
        /\ m.id \in RpcId /\ m.to = h[1] /\ Back(h, m) = {h[2]}
<1>1. h \in Handler /\ m.from \in Handler /\ m.id \in RpcId
  BY DEF HInv, TypeOK, Routes, Message
<1>2. h[1] = m.to /\ h[2] = m.from[1] /\ m.to = m.from[2] /\ h \in started /\ m.from \in started
  BY DEF HInv, PacketsAreAddressed, Routes
<1> QED BY <1>1, <1>2 DEF Handler, Partner, Back

\* A handler that is ready has a partner that has its key and can receive.
LEMMA ReadyGivesShared ==
  ASSUME HInv, NEW h \in Handler, ReadyToSend(h)
  PROVE /\ h \in started /\ Partner(h) \in started
        /\ CanDecrypt(h) /\ incomingSessionKey[h] = Partner(h)
        /\ CanDecrypt(Partner(h)) /\ incomingSessionKey[Partner(h)] = h
BY PartnerFacts
   DEF HInv, KeysArePartners, OutstandingUntilHeld, ReadyToSend, ReadyToReceive, CanDecrypt, CanEncrypt

\* A packet addressed to the partner is a message.
LEMMA PacketFacts ==
  ASSUME NEW h \in Handler, NEW id \in RpcId, NEW kind \in {"REQUEST", "REPLY", "ACKNOWLEDGE"}
  PROVE /\ Packet(kind, id, h, h[2]) \in Message
        /\ Packet(kind, id, h, h[2]).kind = kind /\ Packet(kind, id, h, h[2]).id = id
        /\ Packet(kind, id, h, h[2]).from = h /\ Packet(kind, id, h, h[2]).to = h[2]
BY DEF Packet, Message, Handler

\* The invariant holds when nothing has been sent.
LEMMA HInvInit == Init => HInv
BY IdAssumption
   DEF Init, HInv, TypeOK, KeysArePartners, PacketsAreAddressed, AnsweredByHolder,
       OutstandingUntilHeld, DataIsReadable, InitializedAreReady, NoFatal, NothingDropped,
       CanDecrypt, ReadyToSend, ReadyToReceive, HasQueues

-----------------------------------------------------------------------------
(* One lemma per action.                                                    *)

\* A new handler sends its key: its request is outstanding, and nothing it needs was there before.
LEMMA SendSessionKeyStep ==
  ASSUME HInv, NEW h \in Handler, SendSessionKey(h)
  PROVE HInv'
<1> USE DEF CanDecrypt, CanEncrypt, ReadyToReceive, ReadyToSend
<1> DEFINE packet == Packet("REQUEST", SESSION_KEY_RPCID, h, h[2])
<1>p. /\ packet \in Message /\ packet.kind = "REQUEST" /\ packet.id = SESSION_KEY_RPCID
      /\ packet.from = h /\ packet.to = h[2]
  BY PacketFacts DEF RpcId
<1>n. network' = network \cup {packet} BY DEF SendSessionKey
<1>k. incomingSessionKey[h] = NoKey
  BY DEF HInv, KeysArePartners, SendSessionKey
<1> HIDE DEF packet
<1>1. TypeOK' BY <1>p, <1>n DEF HInv, TypeOK, SendSessionKey, RpcId
<1>2. KeysArePartners' BY DEF HInv, KeysArePartners, SendSessionKey
<1>3. PacketsAreAddressed' BY <1>p, <1>n DEF HInv, PacketsAreAddressed, SendSessionKey
<1>4. AnsweredByHolder' BY <1>p, <1>n DEF HInv, AnsweredByHolder, SendSessionKey
<1>5. OutstandingUntilHeld' BY DEF HInv, TypeOK, OutstandingUntilHeld, SendSessionKey
<1>6. DataIsReadable'
  BY <1>p, <1>n, <1>k, IdAssumption DEF HInv, TypeOK, DataIsReadable, SendSessionKey
<1>7. InitializedAreReady' BY <1>k DEF HInv, TypeOK, InitializedAreReady, SendSessionKey
<1>8. NoFatal' /\ NothingDropped' BY DEF HInv, NoFatal, NothingDropped, SendSessionKey
<1>9. HasQueues' BY DEF HInv, TypeOK, HasQueues, SendSessionKey
<1> QED BY <1>1, <1>2, <1>3, <1>4, <1>5, <1>6, <1>7, <1>8, <1>9 DEF HInv

\* Resending repeats a packet whose condition still holds.
LEMMA ResendStep ==
  ASSUME HInv, NEW h \in Handler, Resend(h)
  PROVE HInv'
<1> USE DEF CanDecrypt, CanEncrypt, ReadyToReceive, ReadyToSend
<1>1. PICK id \in RpcId, kind \in {"REPLY", "REQUEST"} :
        /\ network' = network \cup {Packet(kind, id, h, h[2])}
        /\ kind = "REPLY" => id \in outgoingReplies[h]
        /\ kind = "REQUEST" => id \in outgoingRequests[h]
  BY DEF Resend, ResendId
<1> DEFINE packet == Packet(kind, id, h, h[2])
<1>p. /\ packet \in Message /\ packet.kind = kind /\ packet.id = id
      /\ packet.from = h /\ packet.to = h[2]
  BY PacketFacts
<1>n. network' = network \cup {packet} BY <1>1
<1>s. h \in started BY <1>1 DEF HInv, TypeOK, HasQueues
<1>u. UNCHANGED <<started, incomingSessionKey, outgoingRequests, incomingRequests,
                  processedRequests, outgoingReplies, answers, issued, initialized, fatal, dropped>>
  BY DEF Resend, ResendId, queueVars
<1>r. kind = "REQUEST" /\ id \in Uuid => incomingSessionKey[Partner(h)] # NoKey
  <2> SUFFICES ASSUME kind = "REQUEST", id \in Uuid PROVE incomingSessionKey[Partner(h)] # NoKey
    OBVIOUS
  <2>1. ReadyToSend(h) BY <1>1 DEF HInv, DataIsReadable
  <2> QED BY <2>1, ReadyGivesShared
<1> HIDE DEF packet
<1>2. TypeOK' BY <1>p, <1>n, <1>u DEF HInv, TypeOK
<1>3. PacketsAreAddressed' BY <1>p, <1>n, <1>u, <1>s DEF HInv, PacketsAreAddressed
<1>4. AnsweredByHolder' BY <1>1, <1>p, <1>n, <1>u DEF HInv, AnsweredByHolder
<1>5. DataIsReadable' BY <1>r, <1>p, <1>n, <1>u DEF HInv, DataIsReadable
<1>6. /\ KeysArePartners' /\ OutstandingUntilHeld' /\ InitializedAreReady' /\ NoFatal'
      /\ NothingDropped' /\ HasQueues'
  BY <1>u DEF HInv, KeysArePartners, OutstandingUntilHeld, InitializedAreReady, NoFatal,
              NothingDropped, HasQueues
<1> QED BY <1>2, <1>3, <1>4, <1>5, <1>6 DEF HInv

\* initialized() records what it has just found.
LEMMA InitializedStep ==
  ASSUME HInv, NEW p \in Peer, Initialized(p)
  PROVE HInv'
<1> USE DEF CanDecrypt, CanEncrypt, ReadyToReceive, ReadyToSend, queueVars
<1>1. TypeOK' BY DEF HInv, TypeOK, Initialized
<1>2. InitializedAreReady' BY DEF HInv, InitializedAreReady, Initialized
<1>3. /\ KeysArePartners' /\ PacketsAreAddressed' /\ AnsweredByHolder' /\ OutstandingUntilHeld'
      /\ DataIsReadable' /\ NoFatal' /\ NothingDropped' /\ HasQueues'
  BY DEF HInv, KeysArePartners, PacketsAreAddressed, AnsweredByHolder, OutstandingUntilHeld,
         DataIsReadable, NoFatal, NothingDropped, HasQueues, Initialized
<1> QED BY <1>1, <1>2, <1>3 DEF HInv

\* A request leaves only a ready handler, so the partner can read it.
LEMMA RequestStep ==
  ASSUME HInv, NEW h \in Handler, NEW id \in Uuid, RequestWithId(h, id)
  PROVE HInv'
<1> DEFINE packet == Packet("REQUEST", id, h, h[2])
<1>p. /\ packet \in Message /\ packet.kind = "REQUEST" /\ packet.id = id
      /\ packet.from = h /\ packet.to = h[2]
  BY PacketFacts DEF RpcId
<1>n. network' = network \cup {packet} BY DEF RequestWithId
<1> HIDE DEF packet
<1>r. ReadyToSend(h) BY DEF HInv, InitializedAreReady, RequestWithId
<1>s. h \in started /\ incomingSessionKey[Partner(h)] # NoKey BY <1>r, ReadyGivesShared DEF CanDecrypt
<1> USE DEF CanDecrypt, CanEncrypt, ReadyToReceive, ReadyToSend
<1>0. id # SESSION_KEY_RPCID BY IdAssumption
<1>1. TypeOK' BY <1>p, <1>n, <1>r DEF HInv, TypeOK, RequestWithId, RpcId
<1>2. KeysArePartners' BY DEF HInv, KeysArePartners, RequestWithId
<1>3. PacketsAreAddressed' BY <1>p, <1>n, <1>s DEF HInv, PacketsAreAddressed, RequestWithId
<1>4. AnsweredByHolder' BY <1>p, <1>n DEF HInv, AnsweredByHolder, RequestWithId
<1>5. OutstandingUntilHeld' BY <1>s DEF HInv, TypeOK, OutstandingUntilHeld, RequestWithId
<1>6. DataIsReadable' BY <1>p, <1>n, <1>r, <1>s, <1>0 DEF HInv, TypeOK, DataIsReadable, RequestWithId
<1>7. InitializedAreReady' BY <1>0 DEF HInv, TypeOK, InitializedAreReady, RequestWithId
<1>8. NoFatal' /\ NothingDropped' BY <1>r DEF HInv, NoFatal, NothingDropped, RequestWithId
<1>9. HasQueues' BY <1>s DEF HInv, TypeOK, HasQueues, RequestWithId
<1> QED BY <1>1, <1>2, <1>3, <1>4, <1>5, <1>6, <1>7, <1>8, <1>9 DEF HInv

\* The application answers data, which it only has when both keys are there.
LEMMA ReplyStep ==
  ASSUME HInv, NEW h \in Handler, NEW id \in RpcId, Reply(h, id)
  PROVE HInv'
<1> DEFINE packet == Packet("REPLY", id, h, h[2])
<1>p. /\ packet \in Message /\ packet.kind = "REPLY" /\ packet.id = id
      /\ packet.from = h /\ packet.to = h[2]
  BY PacketFacts
<1>n. network' = network \cup {packet} BY DEF Reply
<1> HIDE DEF packet
<1>0. id \in Uuid /\ id # SESSION_KEY_RPCID BY IdAssumption DEF HInv, TypeOK, Reply
<1>r. ReadyToReceive(h) BY DEF HInv, DataIsReadable, Reply
<1> USE DEF CanDecrypt, CanEncrypt, ReadyToReceive, ReadyToSend
<1>1. TypeOK' BY <1>p, <1>n, <1>r DEF HInv, TypeOK, Reply
<1>2. KeysArePartners' BY DEF HInv, KeysArePartners, Reply
<1>3. PacketsAreAddressed' BY <1>p, <1>n, <1>r DEF HInv, PacketsAreAddressed, Reply
<1>4. AnsweredByHolder' BY <1>p, <1>n, <1>0 DEF HInv, TypeOK, AnsweredByHolder, Reply
<1>5. OutstandingUntilHeld' BY DEF HInv, OutstandingUntilHeld, Reply
<1>6. DataIsReadable' BY <1>p, <1>n, <1>r, <1>0 DEF HInv, TypeOK, DataIsReadable, Reply
<1>7. InitializedAreReady' BY <1>0 DEF HInv, TypeOK, InitializedAreReady, Reply
<1>8. NoFatal' /\ NothingDropped' BY <1>r DEF HInv, NoFatal, NothingDropped, Reply
<1>9. HasQueues' BY <1>r DEF HInv, TypeOK, HasQueues, Reply
<1> QED BY <1>1, <1>2, <1>3, <1>4, <1>5, <1>6, <1>7, <1>8, <1>9 DEF HInv

\* Eviction touches only the cache, and losing only the network: neither is relied on.
LEMMA EvictOrLoseStep ==
  ASSUME HInv, (\E h \in Handler : Evict(h)) \/ (\E m \in network : Lose(m))
  PROVE HInv'
<1> USE DEF CanDecrypt, CanEncrypt, ReadyToReceive, ReadyToSend, queueVars
<1>u. /\ UNCHANGED <<started, incomingSessionKey, outgoingRequests, incomingRequests,
                     outgoingReplies, answers, issued, initialized, fatal, dropped>>
      /\ network' \subseteq network
      /\ processedRequests' \in [Handler -> SUBSET RpcId]
  BY DEF Evict, Lose, HInv, TypeOK
<1>1. TypeOK' BY <1>u DEF HInv, TypeOK
<1>2. /\ KeysArePartners' /\ PacketsAreAddressed' /\ AnsweredByHolder' /\ OutstandingUntilHeld'
  BY <1>u DEF HInv, KeysArePartners, PacketsAreAddressed, AnsweredByHolder, OutstandingUntilHeld
<1>3. /\ DataIsReadable' /\ InitializedAreReady' /\ NoFatal' /\ NothingDropped' /\ HasQueues'
  BY <1>u DEF HInv, DataIsReadable, InitializedAreReady, NoFatal, NothingDropped, HasQueues
<1> QED BY <1>1, <1>2, <1>3 DEF HInv

\* A request that was answered is answered again.
LEMMA ReplyAgainStep ==
  ASSUME HInv, Misroute = {}, NEW m \in network, NEW h \in Routes(m), ReplyAgain(h, m)
  PROVE HInv'
<1>f. /\ h \in Handler /\ h \in started /\ m.id \in RpcId /\ Back(h, m) = {h[2]}
  BY RouteIsPartner
<1> DEFINE packet == Packet("REPLY", m.id, h, h[2])
<1>p. /\ packet \in Message /\ packet.kind = "REPLY" /\ packet.id = m.id
      /\ packet.from = h /\ packet.to = h[2]
  BY <1>f, PacketFacts
<1>n. network' = network \cup {packet} BY <1>f DEF ReplyAgain
<1> HIDE DEF packet
<1> USE DEF CanDecrypt, CanEncrypt, ReadyToReceive, ReadyToSend
<1>u. /\ m.id \in outgoingReplies[h]
      /\ UNCHANGED <<started, incomingSessionKey, outgoingRequests, incomingRequests,
                     processedRequests, outgoingReplies, answers, issued, initialized, fatal, dropped>>
  BY DEF ReplyAgain, queueVars
<1>1. TypeOK' BY <1>p, <1>n, <1>u DEF HInv, TypeOK
<1>2. PacketsAreAddressed' BY <1>p, <1>n, <1>u, <1>f DEF HInv, PacketsAreAddressed
<1>3. AnsweredByHolder' BY <1>p, <1>n, <1>u, <1>f DEF HInv, AnsweredByHolder
<1>4. DataIsReadable' BY <1>p, <1>n, <1>u DEF HInv, DataIsReadable
<1>5. /\ KeysArePartners' /\ OutstandingUntilHeld' /\ InitializedAreReady' /\ NoFatal'
      /\ NothingDropped' /\ HasQueues'
  BY <1>u DEF HInv, KeysArePartners, OutstandingUntilHeld, InitializedAreReady, NoFatal,
              NothingDropped, HasQueues
<1> QED BY <1>1, <1>2, <1>3, <1>4, <1>5 DEF HInv

\* The partner's key is taken by a handler that had none, hence was not ready yet.
LEMMA ReceiveSessionKeyStep ==
  ASSUME HInv, Misroute = {}, NEW m \in network, NEW h \in Routes(m), ReceiveSessionKey(h, m)
  PROVE HInv'
<1>f. /\ h \in Handler /\ h \in started /\ m.id \in RpcId /\ m.from = Partner(h)
      /\ m.from \in started /\ m.from \in Handler /\ m.id = SESSION_KEY_RPCID
  BY RouteIsPartner DEF ReceiveSessionKey
<1> DEFINE packet == Packet("REPLY", m.id, h, h[2])
<1>p. /\ packet \in Message /\ packet.kind = "REPLY" /\ packet.id = SESSION_KEY_RPCID
      /\ packet.from = h /\ packet.to = h[2]
  BY <1>f, PacketFacts
<1>n. network' = network \cup {packet} BY DEF ReceiveSessionKey
<1> HIDE DEF packet
<1> USE DEF CanDecrypt, CanEncrypt, ReadyToReceive, ReadyToSend
<1>k. /\ incomingSessionKey[h] = NoKey
      /\ incomingSessionKey' = [incomingSessionKey EXCEPT ![h] = m.from]
      /\ m.from # NoKey
  BY <1>f, IdAssumption DEF ReceiveSessionKey, Handler
<1>t. /\ incomingSessionKey \in [Handler -> Handler \cup {NoKey}]
      /\ \A g \in Handler : incomingSessionKey[g] # NoKey => incomingSessionKey'[g] # NoKey
      /\ incomingSessionKey'[h] = m.from
  BY <1>f, <1>k DEF HInv, TypeOK
<1>1. TypeOK' BY <1>p, <1>n, <1>f, <1>k DEF HInv, TypeOK, ReceiveSessionKey
<1>2. KeysArePartners' BY <1>f, <1>k, <1>t DEF HInv, KeysArePartners, ReceiveSessionKey
<1>3. PacketsAreAddressed' BY <1>p, <1>n, <1>f DEF HInv, PacketsAreAddressed, ReceiveSessionKey
<1>4. AnsweredByHolder'
  <2>1. \A g \in Handler : g # h => outgoingReplies'[g] = outgoingReplies[g]
    BY <1>f DEF HInv, TypeOK, ReceiveSessionKey
  <2>2. \A x \in network : x.from \in Handler BY DEF HInv, TypeOK, Message
  <2> QED BY <2>1, <2>2, <1>p, <1>n, <1>f, <1>k, <1>t DEF HInv, AnsweredByHolder
<1>5. OutstandingUntilHeld'
  <2>1. \A g \in started : g \in Handler /\ Partner(g) \in Handler
    BY PartnerFacts DEF HInv, TypeOK
  <2> QED BY <2>1, <1>t DEF HInv, OutstandingUntilHeld, ReceiveSessionKey
<1>6. DataIsReadable'
  <2>1. \A g \in Handler, id \in Uuid : id \in outgoingRequests'[g] => ReadyToSend(g)'
    <3> SUFFICES ASSUME NEW g \in Handler, NEW id \in Uuid, id \in outgoingRequests[g]
                 PROVE ReadyToSend(g)'
      BY DEF ReceiveSessionKey
    <3>1. ReadyToSend(g) BY DEF HInv, DataIsReadable
    <3>2. g # h BY <3>1, <1>k
    <3> QED BY <3>1, <3>2, <1>f, <1>t DEF HInv, TypeOK, ReceiveSessionKey
  <2>2. \A g \in Handler : incomingRequests'[g] # {} => ReadyToReceive(g)'
    BY <1>t DEF HInv, DataIsReadable, ReceiveSessionKey
  <2>3. \A x \in network' : x.kind = "REQUEST" /\ x.id \in Uuid => CanDecrypt(Partner(x.from))'
    <3>1. \A x \in network : Partner(x.from) \in Handler
      BY PartnerFacts DEF HInv, TypeOK, Message
    <3> QED BY <3>1, <1>t, <1>p, <1>n DEF HInv, DataIsReadable
  <2> QED BY <2>1, <2>2, <2>3 DEF DataIsReadable
<1>7. InitializedAreReady'
  <2> SUFFICES ASSUME NEW g \in Handler, g[1] \in initialized PROVE ReadyToSend(g)'
    BY DEF InitializedAreReady, ReceiveSessionKey
  <2>1. ReadyToSend(g) BY DEF HInv, InitializedAreReady
  <2>2. g # h BY <2>1, <1>k
  <2> QED BY <2>1, <2>2, <1>f, <1>t DEF HInv, TypeOK, ReceiveSessionKey
<1>8. NoFatal' /\ NothingDropped' BY <1>f DEF HInv, NoFatal, NothingDropped, ReceiveSessionKey
<1>9. HasQueues' BY <1>f DEF HInv, TypeOK, HasQueues, ReceiveSessionKey
<1> QED BY <1>1, <1>2, <1>3, <1>4, <1>5, <1>6, <1>7, <1>8, <1>9 DEF HInv

\* Data is readable when it arrives, so it is queued and never dropped.
LEMMA ReceiveDataStep ==
  ASSUME HInv, Misroute = {}, NEW m \in network, NEW h \in Routes(m),
         m.kind = "REQUEST", ReceiveData(h, m)
  PROVE HInv'
<1>f. /\ h \in Handler /\ h \in started /\ m.id \in RpcId
      /\ h = Partner(m.from) /\ m.from = Partner(h)
  BY RouteIsPartner
<1>0. m.id \in Uuid BY <1>f DEF RpcId, ReceiveData
<1>1. incomingSessionKey[h] # NoKey BY <1>0, <1>f DEF HInv, DataIsReadable, CanDecrypt
<1>2. incomingSessionKey[h] = m.from BY <1>1, <1>f DEF HInv, KeysArePartners
<1>3. ReadyToReceive(h) /\ Decrypts(h, m)
  BY <1>1, <1>2, <1>f DEF ReadyToReceive, CanDecrypt, CanEncrypt, Decrypts
<1>u. /\ incomingRequests' = [incomingRequests EXCEPT ![h] = @ \cup {m.id}]
      /\ UNCHANGED <<started, incomingSessionKey, outgoingRequests, processedRequests,
                     outgoingReplies, answers, issued, network, initialized, fatal, dropped>>
  BY <1>3 DEF ReceiveData
<1> USE DEF CanDecrypt, CanEncrypt, ReadyToReceive, ReadyToSend
<1>4. TypeOK' BY <1>u, <1>0 DEF HInv, TypeOK
<1>5. DataIsReadable' BY <1>u, <1>3, <1>f DEF HInv, TypeOK, DataIsReadable
<1>6. /\ KeysArePartners' /\ PacketsAreAddressed' /\ AnsweredByHolder' /\ OutstandingUntilHeld'
  BY <1>u DEF HInv, KeysArePartners, PacketsAreAddressed, AnsweredByHolder, OutstandingUntilHeld
<1>7. InitializedAreReady' /\ NoFatal' /\ NothingDropped' /\ HasQueues'
  BY <1>u DEF HInv, InitializedAreReady, NoFatal, NothingDropped, HasQueues
<1> QED BY <1>4, <1>5, <1>6, <1>7 DEF HInv

\* An answered session request means that the partner has the key; an answer to data can be read.
LEMMA HandleReplyStep ==
  ASSUME HInv, Misroute = {}, NEW m \in network, NEW h \in Routes(m), HandleReply(h, m)
  PROVE HInv'
<1>f. /\ h \in Handler /\ h \in started /\ m.id \in RpcId /\ Back(h, m) = {h[2]}
      /\ h = Partner(m.from) /\ m.from = Partner(h)
  BY RouteIsPartner
<1> DEFINE packet == Packet("ACKNOWLEDGE", m.id, h, h[2])
<1>p. /\ packet \in Message /\ packet.kind = "ACKNOWLEDGE" /\ packet.id = m.id
      /\ packet.from = h /\ packet.to = h[2]
  BY <1>f, PacketFacts
<1>n. network' = network \cup {packet} BY <1>f DEF HandleReply, Acknowledge
<1> HIDE DEF packet
<1>u. UNCHANGED <<started, incomingSessionKey, incomingRequests, processedRequests,
                  outgoingReplies, issued, initialized>>
  BY DEF HandleReply
<1>g. fatal' = fatal BY <1>f DEF HandleReply, Acknowledge, CanEncrypt, HInv, TypeOK
<1>o. /\ outgoingRequests' \in [Handler -> SUBSET RpcId]
      /\ \A g \in Handler : g # h => outgoingRequests'[g] = outgoingRequests[g]
      /\ outgoingRequests'[h] \subseteq outgoingRequests[h]
      /\ outgoingRequests[h] \ {m.id} \subseteq outgoingRequests'[h]
  BY <1>f DEF HandleReply, HInv, TypeOK
<1>d. dropped' = {} /\ answers' \in [Handler -> SUBSET Uuid]
  <2>1. CASE m.id \in outgoingRequests[h] \ answers[h] /\ m.id \in Uuid
    <3>1. ReadyToSend(h) BY <2>1, <1>f DEF HInv, DataIsReadable
    <3>2. Decrypts(h, m) BY <3>1, <1>f, ReadyGivesShared DEF Decrypts
    <3> QED BY <3>1, <3>2, <2>1, <1>f DEF HandleReply, HInv, TypeOK, NothingDropped
  <2>2. CASE ~(m.id \in outgoingRequests[h] \ answers[h] /\ m.id \in Uuid)
    BY <2>2, <1>f DEF HandleReply, HInv, TypeOK, NothingDropped
  <2> QED BY <2>1, <2>2
<1> USE DEF CanDecrypt, CanEncrypt, ReadyToReceive, ReadyToSend
<1>r. \A g \in Handler : ReadyToSend(g) => ReadyToSend(g)' BY <1>u, <1>o
<1>1. TypeOK' BY <1>p, <1>n, <1>u, <1>g, <1>o, <1>d DEF HInv, TypeOK
<1>2. PacketsAreAddressed' BY <1>p, <1>n, <1>u, <1>f DEF HInv, PacketsAreAddressed
<1>3. AnsweredByHolder' BY <1>p, <1>n, <1>u DEF HInv, AnsweredByHolder
<1>4. OutstandingUntilHeld'
  <2> SUFFICES ASSUME NEW g \in started, SESSION_KEY_RPCID \notin outgoingRequests'[g]
               PROVE incomingSessionKey[Partner(g)] # NoKey
    BY <1>u DEF OutstandingUntilHeld
  <2>0. g \in Handler BY DEF HInv, TypeOK
  <2>1. CASE SESSION_KEY_RPCID \notin outgoingRequests[g] BY <2>1 DEF HInv, OutstandingUntilHeld
  <2>2. CASE SESSION_KEY_RPCID \in outgoingRequests[g]
    <3>1. g = h /\ m.id = SESSION_KEY_RPCID BY <2>0, <2>2, <1>o
    <3> QED BY <3>1, <1>f DEF HInv, AnsweredByHolder, HandleReply
  <2> QED BY <2>1, <2>2
<1>5. DataIsReadable'
  <2>1. \A g \in Handler, id \in Uuid : id \in outgoingRequests'[g] => ReadyToSend(g)'
    BY <1>o, <1>r DEF HInv, DataIsReadable
  <2> QED BY <2>1, <1>p, <1>n, <1>u DEF HInv, DataIsReadable
<1>6. InitializedAreReady' BY <1>r, <1>u DEF HInv, InitializedAreReady
<1>7. KeysArePartners' /\ NoFatal' /\ NothingDropped'
  BY <1>u, <1>g, <1>d DEF HInv, KeysArePartners, NoFatal, NothingDropped
<1>8. HasQueues' BY <1>o, <1>u, <1>f DEF HInv, HasQueues
<1> QED BY <1>1, <1>2, <1>3, <1>4, <1>5, <1>6, <1>7, <1>8 DEF HInv

\* An acknowledgement only removes a reply.
LEMMA HandleAcknowledgeStep ==
  ASSUME HInv, NEW m \in network, NEW h \in Handler, HandleAcknowledge(h, m)
  PROVE HInv'
<1> USE DEF CanDecrypt, CanEncrypt, ReadyToReceive, ReadyToSend
<1>u. UNCHANGED <<started, incomingSessionKey, outgoingRequests, incomingRequests,
                  processedRequests, answers, issued, network, initialized, fatal, dropped>>
  BY DEF HandleAcknowledge
<1>o. /\ outgoingReplies' \in [Handler -> SUBSET RpcId]
      /\ \A g \in Handler : outgoingReplies'[g] \subseteq outgoingReplies[g]
  BY DEF HandleAcknowledge, HInv, TypeOK
<1>r. \A g \in Handler : ReadyToSend(g) => ReadyToSend(g)' BY <1>u, <1>o
<1>1. TypeOK' BY <1>u, <1>o DEF HInv, TypeOK
<1>2. AnsweredByHolder' BY <1>u, <1>o DEF HInv, AnsweredByHolder
<1>3. DataIsReadable' BY <1>u, <1>r DEF HInv, DataIsReadable
<1>4. InitializedAreReady' BY <1>u, <1>r DEF HInv, InitializedAreReady
<1>5. HasQueues' BY <1>u, <1>o DEF HInv, HasQueues
<1>6. KeysArePartners' /\ PacketsAreAddressed' /\ OutstandingUntilHeld' /\ NoFatal' /\ NothingDropped'
  BY <1>u DEF HInv, KeysArePartners, PacketsAreAddressed, OutstandingUntilHeld, NoFatal,
              NothingDropped
<1> QED BY <1>1, <1>2, <1>3, <1>4, <1>5, <1>6 DEF HInv

-----------------------------------------------------------------------------
\* HInv is inductive.
LEMMA HInvStep ==
  ASSUME HInv, Misroute = {}, [Next]_vars
  PROVE HInv'
<1>1. ASSUME NEW h \in Handler, SendSessionKey(h) PROVE HInv' BY <1>1, SendSessionKeyStep
<1>2. ASSUME NEW h \in Handler, Resend(h) PROVE HInv' BY <1>2, ResendStep
<1>3. ASSUME NEW p \in Peer, Initialized(p) PROVE HInv' BY <1>3, InitializedStep
<1>4. ASSUME NEW h \in Handler, NEW id \in Uuid, RequestWithId(h, id) PROVE HInv'
  BY <1>4, RequestStep
<1>5. ASSUME NEW h \in Handler, NEW id \in RpcId, Reply(h, id) PROVE HInv' BY <1>5, ReplyStep
<1>6. ASSUME (\E h \in Handler : Evict(h)) \/ (\E m \in network : Lose(m)) PROVE HInv'
  BY <1>6, EvictOrLoseStep
<1>7. ASSUME NEW m \in network, NEW h \in Routes(m), HandleRequest(h, m) PROVE HInv'
  BY <1>7, ReplyAgainStep, ReceiveSessionKeyStep, ReceiveDataStep DEF HandleRequest
<1>8. ASSUME NEW m \in network, NEW h \in Routes(m), HandleReply(h, m) PROVE HInv'
  BY <1>8, HandleReplyStep
<1>9. ASSUME NEW m \in network, NEW h \in Routes(m), HandleAcknowledge(h, m) PROVE HInv'
  BY <1>9, HandleAcknowledgeStep, RouteIsPartner
<1>10. CASE UNCHANGED vars
  BY <1>10 DEF vars, queueVars, HInv, TypeOK, KeysArePartners, PacketsAreAddressed, AnsweredByHolder,
       OutstandingUntilHeld, DataIsReadable, InitializedAreReady, HasQueues, NoFatal, NothingDropped,
       CanDecrypt, CanEncrypt, ReadyToSend, ReadyToReceive
<1> QED BY <1>1, <1>2, <1>3, <1>4, <1>5, <1>6, <1>7, <1>8, <1>9, <1>10 DEF Next

\* HInv holds in every reachable state.
THEOREM HandshakeInvariant == ASSUME Misroute = {} PROVE Spec => []HInv
<1>1. HInv /\ [Next]_vars => HInv' BY HInvStep
<1> QED BY <1>1, HInvInit, PTL DEF Spec

\* EncryptedMultiEndpointHandler: readyToSend() at one end means that the other end holds its
\* session key and can receive, for any number of peers and requests.
THEOREM ReadySharesKey == ASSUME Misroute = {} PROVE Spec => []ReadyMeansShared
<1>1. HInv => ReadyMeansShared
  BY ReadyGivesShared DEF ReadyMeansShared, Partner, ReadyToReceive, CanEncrypt, CanDecrypt
<1> QED BY <1>1, HandshakeInvariant, PTL

\* The LOGFATALs of requestWithId(), reply() and encrypt() are unreachable and no data is dropped.
THEOREM HandshakeSafe == ASSUME Misroute = {} PROVE Spec => [](NoFatal /\ NothingDropped)
<1>1. HInv => NoFatal /\ NothingDropped BY DEF HInv
<1> QED BY <1>1, HandshakeInvariant, PTL

\* No handler ever throws away a request or a reply because it is not ready for it or does not hold
\* the key, whatever the network repeats, delays or reorders.
THEOREM NothingIsDropped == ASSUME Misroute = {} PROVE Spec => []NothingDropped
BY HandshakeSafe, PTL

\* readyToSend() never becomes false again, so one successful initialized() is enough.
THEOREM ReadyStays == ASSUME Misroute = {} PROVE Spec => ReadyForGood
<1>1. ASSUME HInv, [Next]_vars, NEW h \in Handler, ReadyToSend(h)
      PROVE ReadyToSend(h)'
  <2> USE <1>1 DEF ReadyToSend, ReadyToReceive, CanDecrypt, CanEncrypt
  <2>0. /\ h \in started /\ incomingSessionKey[h] # NoKey
        /\ SESSION_KEY_RPCID \notin incomingRequests[h]
    BY IdAssumption DEF HInv, TypeOK
  <2>1. CASE \E g \in Handler : SendSessionKey(g)
    BY <2>0, <2>1 DEF SendSessionKey, HInv, TypeOK
  <2>2. CASE \E g \in Handler : Resend(g) BY <2>2 DEF Resend, ResendId, queueVars
  <2>3. CASE \E p \in Peer : Initialized(p) BY <2>3 DEF Initialized, queueVars
  <2>4. CASE \E g \in Handler, id \in Uuid : RequestWithId(g, id)
    BY <2>4, IdAssumption DEF RequestWithId, HInv, TypeOK
  <2>5. CASE \E g \in Handler, id \in RpcId : Reply(g, id)
    BY <2>0, <2>5 DEF Reply, HInv, TypeOK
  <2>6. CASE (\E g \in Handler : Evict(g)) \/ (\E m \in network : Lose(m))
    BY <2>6 DEF Evict, Lose, queueVars
  <2>7. CASE \E m \in network : \E g \in Routes(m) : HandleRequest(g, m)
    <3> PICK m \in network : \E g \in Routes(m) : HandleRequest(g, m) BY <2>7
    <3> PICK g \in Routes(m) : HandleRequest(g, m) OBVIOUS
    <3>1. CASE ReplyAgain(g, m) BY <3>1 DEF ReplyAgain, queueVars
    <3>2. CASE ReceiveSessionKey(g, m)
      BY <2>0, <3>2 DEF ReceiveSessionKey, HInv, TypeOK, Routes
    <3>3. CASE ReceiveData(g, m) BY <3>3 DEF ReceiveData
    <3> QED BY <3>1, <3>2, <3>3 DEF HandleRequest
  <2>8. CASE \E m \in network : \E g \in Routes(m) : HandleReply(g, m)
    BY <2>8 DEF HandleReply, HInv, TypeOK, Routes
  <2>9. CASE \E m \in network : \E g \in Routes(m) : HandleAcknowledge(g, m)
    BY <2>9 DEF HandleAcknowledge, HInv, TypeOK, Routes
  <2>10. CASE UNCHANGED vars BY <2>10 DEF vars, queueVars
  <2> QED BY <2>1, <2>2, <2>3, <2>4, <2>5, <2>6, <2>7, <2>8, <2>9, <2>10 DEF Next
<1>2. HInv /\ [Next]_vars => [\A h \in Handler : ReadyToSend(h) => ReadyToSend(h)']_vars BY <1>1
<1> QED BY <1>2, HandshakeInvariant, PTL DEF Spec, ReadyForGood
=============================================================================
