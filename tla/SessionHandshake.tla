-------------------------- MODULE SessionHandshake --------------------------
(***************************************************************************)
(* base/EncryptedMultiEndpointHandler and base/CryptoHandler over          *)
(* BiDirectionalRpc: every peer has one handler per other peer, <<p, q>>   *)
(* being p's handler for q.  A handler generates a session key, sends it   *)
(* in the one-way request SESSION_KEY_RPCID, and sends nothing else before *)
(* that request is answered and the answer it gave itself is acknowledged. *)
(*                                                                         *)
(* A session key is named by the handler that generated it, so a message   *)
(* records what it is encrypted with by the handler it is `from'.  PINGs   *)
(* are requests like any other one here.                                   *)
(***************************************************************************)
EXTENDS Integers, FiniteSets

CONSTANTS Peer,
          Uuid,                  \* the ids of the other requests
          SESSION_KEY_RPCID,     \* the same id for all peers
          NoKey,                 \* emptySessionKey
          Misroute               \* the handlers that get packets whose source nobody knows

ASSUME IdAssumption == SESSION_KEY_RPCID \notin Uuid /\ NoKey \notin Peer \X Peer

Handler == {h \in Peer \X Peer : h[1] # h[2]}

\* Every process has one first handler; Misroute is empty when peers send from known endpoints.
ASSUME MisrouteAssumption ==
  Misroute \subseteq Handler /\ \A h, g \in Misroute : h[1] = g[1] => h = g

RpcId == Uuid \cup {SESSION_KEY_RPCID}
Message == [kind : {"REQUEST", "REPLY", "ACKNOWLEDGE"}, id : RpcId, from : Handler, to : Peer]

VARIABLES
  started,              \* handlers that exist; they have generated their outgoingSessionKey
  incomingSessionKey,
  outgoingRequests, incomingRequests, processedRequests,
  outgoingReplies,
  answers,              \* incomingReplies and processedReplies
  issued,               \* the uuids used so far
  network,
  initialized,          \* peers whose initialized() has returned true
  fatal,                \* a LOGFATAL was reached
  dropped               \* data that was thrown away although it was meant for the handler

queueVars == <<outgoingRequests, incomingRequests, processedRequests, outgoingReplies, answers>>
vars == <<started, incomingSessionKey, queueVars, issued, network, initialized, fatal, dropped>>

Init ==
  /\ started = {}
  /\ incomingSessionKey = [h \in Handler |-> NoKey]
  /\ outgoingRequests = [h \in Handler |-> {}]
  /\ incomingRequests = [h \in Handler |-> {}]
  /\ processedRequests = [h \in Handler |-> {}]
  /\ outgoingReplies = [h \in Handler |-> {}]
  /\ answers = [h \in Handler |-> {}]
  /\ issued = {}
  /\ network = {}
  /\ initialized = {}
  /\ fatal = FALSE
  /\ dropped = {}

CanEncrypt(h) == h \in started
CanDecrypt(h) == incomingSessionKey[h] # NoKey
ReadyToReceive(h) == CanDecrypt(h) /\ CanEncrypt(h)

\* Wrong variant: ready as soon as the other end's key was acknowledged, before ours was answered.
ReadyTooEarly(h) == SESSION_KEY_RPCID \notin outgoingReplies[h] /\ ReadyToReceive(h)

ReadyToSend(h) ==
  /\ SESSION_KEY_RPCID \notin outgoingRequests[h]
  /\ SESSION_KEY_RPCID \notin outgoingReplies[h]
  /\ ReadyToReceive(h)

Packet(kind, id, h, to) == [kind |-> kind, id |-> id, from |-> h, to |-> to]

-----------------------------------------------------------------------------
(* The calls of MyPeer and of the timer.                                    *)

\* checkForEndpoints(): the handler is created and at once sends its key.
SendSessionKey(h) ==
  /\ h \notin started
  /\ started' = started \cup {h}
  /\ outgoingRequests' = [outgoingRequests EXCEPT ![h] = @ \cup {SESSION_KEY_RPCID}]
  /\ network' = network \cup {Packet("REQUEST", SESSION_KEY_RPCID, h, h[2])}
  /\ UNCHANGED <<incomingSessionKey, incomingRequests, processedRequests, outgoingReplies, answers,
                 issued, initialized, fatal, dropped>>

\* heartbeat() with something outstanding: replies come first.
ResendId(h, id) ==
  /\ \/ id \in outgoingReplies[h] /\ network' = network \cup {Packet("REPLY", id, h, h[2])}
     \/ /\ outgoingReplies[h] = {} /\ id \in outgoingRequests[h]
        /\ network' = network \cup {Packet("REQUEST", id, h, h[2])}
  /\ UNCHANGED <<started, incomingSessionKey, queueVars, issued, initialized, fatal, dropped>>

Resend(h) == \E id \in RpcId : ResendId(h, id)

\* Wrong variant: the game starts when the keys are there.
InitializedEarly(p) ==
  /\ p \notin initialized
  /\ \A h \in Handler : h[1] = p => ReadyToReceive(h)
  /\ initialized' = initialized \cup {p}
  /\ UNCHANGED <<started, incomingSessionKey, queueVars, issued, network, fatal, dropped>>

\* MyPeer::initialized(): all handlers of p exist and are ready.
Initialized(p) ==
  /\ p \notin initialized
  /\ \A h \in Handler : h[1] = p => ReadyToSend(h)
  /\ initialized' = initialized \cup {p}
  /\ UNCHANGED <<started, incomingSessionKey, queueVars, issued, network, fatal, dropped>>

\* requestWithId(), from the game once p is initialized, or from heartbeat() once h is ready.
RequestWithId(h, id) ==
  /\ h[1] \in initialized \/ (outgoingRequests[h] = {} /\ outgoingReplies[h] = {} /\ ReadyToSend(h))
  /\ id \in Uuid \ issued
  /\ issued' = issued \cup {id}
  /\ outgoingRequests' = [outgoingRequests EXCEPT ![h] = @ \cup {id}]
  /\ network' = network \cup {Packet("REQUEST", id, h, h[2])}
  /\ fatal' = (fatal \/ ~ReadyToSend(h))
  /\ UNCHANGED <<started, incomingSessionKey, incomingRequests, processedRequests, outgoingReplies,
                 answers, initialized, dropped>>

Reply(h, id) ==
  /\ id \in incomingRequests[h]
  /\ incomingRequests' = [incomingRequests EXCEPT ![h] = @ \ {id}]
  /\ processedRequests' = [processedRequests EXCEPT ![h] = @ \cup {id}]
  /\ outgoingReplies' = [outgoingReplies EXCEPT ![h] = @ \cup {id}]
  /\ network' = network \cup {Packet("REPLY", id, h, h[2])}
  /\ fatal' = (fatal \/ ~ReadyToReceive(h))
  /\ UNCHANGED <<started, incomingSessionKey, outgoingRequests, answers, issued, initialized, dropped>>

\* processedRequests is an LRU cache: after many others, the first request of all leaves it.
Evict(h) ==
  /\ processedRequests[h] \cap Uuid # {}
  /\ SESSION_KEY_RPCID \in processedRequests[h]
  /\ processedRequests' = [processedRequests EXCEPT ![h] = @ \ {SESSION_KEY_RPCID}]
  /\ UNCHANGED <<started, incomingSessionKey, outgoingRequests, incomingRequests, outgoingReplies,
                 answers, issued, network, initialized, fatal, dropped>>

-----------------------------------------------------------------------------
(* Receiving.  The PortMultiplexer hands a packet to the handler that knows *)
(* its source.  When nobody does, nothing in the packet is looked at: the    *)
(* first handler that has not banned the source gets it and takes the source *)
(* for an endpoint of its own peer.  The header has no sender, and the id of *)
(* a session message is the same for all peers.                              *)

Routes(m) == {h \in started : h[1] = m.to /\ (h[2] = m.from[1] \/ h \in Misroute)}
Back(h, m) == {h[2], m.from[1]}

Skip(h, m) == m.id \in incomingRequests[h] \cup processedRequests[h]

ReplyAgain(h, m) ==
  /\ ~Skip(h, m)
  /\ m.id \in outgoingReplies[h]
  /\ \E to \in Back(h, m) : network' = network \cup {Packet("REPLY", m.id, h, to)}
  /\ UNCHANGED <<started, incomingSessionKey, queueVars, issued, initialized, fatal, dropped>>

NewRequest(h, m) == ~Skip(h, m) /\ m.id \notin outgoingReplies[h]

\* Wrong variant: a session key that was already taken is taken and answered again.
ReceiveAnySessionKey(h, m) ==
  /\ NewRequest(h, m)
  /\ m.id = SESSION_KEY_RPCID
  /\ m.from = <<h[2], h[1]>>
  /\ incomingSessionKey' = [incomingSessionKey EXCEPT ![h] = m.from]
  /\ processedRequests' = [processedRequests EXCEPT ![h] = @ \cup {m.id}]
  /\ outgoingReplies' = [outgoingReplies EXCEPT ![h] = @ \cup {m.id}]
  /\ network' = network \cup {Packet("REPLY", m.id, h, h[2])}
  /\ UNCHANGED <<started, outgoingRequests, incomingRequests, answers, issued, initialized, fatal,
                 dropped>>

\* addIncomingRequest() of the session key: it must be h's peer's, and meant for us.
ReceiveSessionKey(h, m) ==
  /\ NewRequest(h, m)
  /\ m.id = SESSION_KEY_RPCID
  /\ ~CanDecrypt(h)
  /\ m.from = <<h[2], h[1]>>
  /\ incomingSessionKey' = [incomingSessionKey EXCEPT ![h] = m.from]
  /\ processedRequests' = [processedRequests EXCEPT ![h] = @ \cup {m.id}]
  /\ outgoingReplies' = [outgoingReplies EXCEPT ![h] = @ \cup {m.id}]
  /\ network' = network \cup {Packet("REPLY", m.id, h, h[2])}
  /\ fatal' = (fatal \/ ~CanEncrypt(h))
  /\ UNCHANGED <<started, outgoingRequests, incomingRequests, answers, issued, initialized, dropped>>

Decrypts(h, m) == incomingSessionKey[h] = m.from

\* Wrong variant: data is taken only when we could send, too.
ReceiveDataLate(h, m) ==
  /\ NewRequest(h, m)
  /\ m.id # SESSION_KEY_RPCID
  /\ IF ReadyToSend(h) /\ Decrypts(h, m)
     THEN /\ incomingRequests' = [incomingRequests EXCEPT ![h] = @ \cup {m.id}]
          /\ UNCHANGED dropped
     ELSE /\ dropped' = dropped \cup {x \in {m} : h = <<m.to, m.from[1]>>}
          /\ UNCHANGED incomingRequests
  /\ UNCHANGED <<started, incomingSessionKey, outgoingRequests, processedRequests, outgoingReplies,
                 answers, issued, network, initialized, fatal>>

\* addIncomingRequest() of anything else.
ReceiveData(h, m) ==
  /\ NewRequest(h, m)
  /\ m.id # SESSION_KEY_RPCID
  /\ IF ReadyToReceive(h) /\ Decrypts(h, m)
     THEN /\ incomingRequests' = [incomingRequests EXCEPT ![h] = @ \cup {m.id}]
          /\ UNCHANGED dropped
     ELSE /\ dropped' = dropped \cup {x \in {m} : h = <<m.to, m.from[1]>>}
          /\ UNCHANGED incomingRequests
  /\ UNCHANGED <<started, incomingSessionKey, outgoingRequests, processedRequests, outgoingReplies,
                 answers, issued, network, initialized, fatal>>

Acknowledge(h, m) ==
  /\ \E to \in Back(h, m) : network' = network \cup {Packet("ACKNOWLEDGE", m.id, h, to)}
  /\ fatal' = (fatal \/ ~CanEncrypt(h))

\* Wrong variant: a reply that comes again is not acknowledged again.
AcknowledgeOnce(h, m) ==
  /\ m.kind = "REPLY"
  /\ m.id \in outgoingRequests[h] \ answers[h]
  /\ outgoingRequests' = [outgoingRequests EXCEPT ![h] = @ \ {m.id}]
  /\ answers' = [answers EXCEPT ![h] = @ \cup ({m.id} \cap Uuid)]
  /\ Acknowledge(h, m)
  /\ UNCHANGED <<started, incomingSessionKey, incomingRequests, processedRequests, outgoingReplies,
                 issued, initialized, dropped>>

\* handleReply(): the session request is one-way, the answer to any other one is decrypted.
HandleReply(h, m) ==
  /\ m.kind = "REPLY"
  /\ IF m.id \in outgoingRequests[h] \ answers[h]
     THEN LET taken == {id \in {m.id} \cap Uuid : ReadyToSend(h) /\ Decrypts(h, m)}
          IN /\ outgoingRequests' = [outgoingRequests EXCEPT ![h] = @ \ {m.id}]
             /\ answers' = [answers EXCEPT ![h] = @ \cup taken]
             /\ dropped' = dropped \cup {x \in {m} : m.id \in Uuid \ taken}
     ELSE UNCHANGED <<outgoingRequests, answers, dropped>>
  /\ Acknowledge(h, m)
  /\ UNCHANGED <<started, incomingSessionKey, incomingRequests, processedRequests, outgoingReplies,
                 issued, initialized>>

\* The payload of an acknowledgement is never looked at.
HandleAcknowledge(h, m) ==
  /\ m.kind = "ACKNOWLEDGE"
  /\ outgoingReplies' = [outgoingReplies EXCEPT ![h] = @ \ {m.id}]
  /\ UNCHANGED <<started, incomingSessionKey, outgoingRequests, incomingRequests, processedRequests,
                 answers, issued, network, initialized, fatal, dropped>>

HandleRequest(h, m) ==
  /\ m.kind = "REQUEST"
  /\ ReplyAgain(h, m) \/ ReceiveSessionKey(h, m) \/ ReceiveData(h, m)

Lose(m) ==
  /\ network' = network \ {m}
  /\ UNCHANGED <<started, incomingSessionKey, queueVars, issued, initialized, fatal, dropped>>

-----------------------------------------------------------------------------
Next ==
  \/ \E h \in Handler : SendSessionKey(h)
  \/ \E h \in Handler : Resend(h)
  \/ \E p \in Peer : Initialized(p)
  \/ \E h \in Handler, id \in Uuid : RequestWithId(h, id)
  \/ \E h \in Handler, id \in RpcId : Reply(h, id)
  \/ \E h \in Handler : Evict(h)
  \/ \E m \in network : \E h \in Routes(m) : HandleRequest(h, m)
  \/ \E m \in network : \E h \in Routes(m) : HandleReply(h, m)
  \/ \E m \in network : \E h \in Routes(m) : HandleAcknowledge(h, m)
  \/ \E m \in network : Lose(m)

Spec == Init /\ [][Next]_vars

\* Every peer learns of the game; its timer keeps resending and draws at random, so the session
\* messages are drawn again and again; and what is sent again and again arrives in the end.
ReceiveSession(h, kind) ==
  \E m \in network : /\ h \in Routes(m) /\ m.kind = kind /\ m.id = SESSION_KEY_RPCID
                     /\ HandleRequest(h, m) \/ HandleReply(h, m) \/ HandleAcknowledge(h, m)

FairSpec ==
  /\ Spec
  /\ \A h \in Handler : /\ WF_vars(SendSessionKey(h))
                        /\ WF_vars(ResendId(h, SESSION_KEY_RPCID))
                        /\ \A kind \in {"REQUEST", "REPLY", "ACKNOWLEDGE"} :
                             SF_vars(ReceiveSession(h, kind))

-----------------------------------------------------------------------------
(* Properties.                                                              *)

\* The values each variable of a handler, its CryptoHandler and the network may take.
TypeOK ==
  /\ started \subseteq Handler
  /\ incomingSessionKey \in [Handler -> Handler \cup {NoKey}]
  /\ outgoingRequests \in [Handler -> SUBSET RpcId]
  /\ incomingRequests \in [Handler -> SUBSET Uuid]
  /\ processedRequests \in [Handler -> SUBSET RpcId]
  /\ outgoingReplies \in [Handler -> SUBSET RpcId]
  /\ answers \in [Handler -> SUBSET Uuid]
  /\ issued \subseteq Uuid
  /\ network \subseteq Message
  /\ initialized \subseteq Peer
  /\ fatal \in BOOLEAN
  /\ dropped \subseteq Message

\* No LOGFATAL of requestWithId(), reply() or encrypt() is reached: the game relies on one
\* successful initialized() for ever.
NoFatal == ~fatal

\* A handler that says it is ready has a partner that holds its session key and can receive.
ReadyMeansShared ==
  \A h \in Handler :
    ReadyToSend(h) => LET g == <<h[2], h[1]>> IN ReadyToReceive(g) /\ incomingSessionKey[g] = h

\* No request or reply is thrown away because its receiver is not ready for it or cannot
\* decrypt it.
NothingDropped == dropped = {}

\* Once ready, always ready: also when old session keys arrive again and when the LRU cache
\* has forgotten the first one.
ReadyForGood == [][\A h \in Handler : ReadyToSend(h) => ReadyToSend(h)']_vars

\* The handshake completes in both directions over a network that loses packets.
HandshakeCompletes == \A h \in Handler : <>[]ReadyToSend(h)
=============================================================================
