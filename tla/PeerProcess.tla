----------------------------- MODULE PeerProcess -----------------------------
(***************************************************************************)
(* The life of one peer's process: MyPeer's constructor (the STUN block,   *)
(* then the port mapping of NetEngine::startUdpServer(), then the lobby),  *)
(* start(), the polling for the game and the updates on the thread of      *)
(* NetEngine, and shutdown() on the game's thread, which takes down what   *)
(* the other thread uses.  The process may die and be started again.       *)
(*                                                                         *)
(* What happens while the game is played is in MyPeer; here an update      *)
(* only looks at shuttingDown.                                             *)
(***************************************************************************)
EXTENDS StunClient, StunMessage, PortMapping

CONSTANT MaxLaunches   \* bound on how often the process is started

ASSUME LaunchesAssumption == MaxLaunches \in Nat \ {0}

VARIABLES
  stage,          \* where the game's thread is
  launches,
  gameReady,      \* the lobby's `ready', as get_game_info tells it
  posted,         \* NetEngine's io_service: what its thread will run, in order
  netReceiving,   \* PortMultiplexer's async_receive_from() is outstanding
  socketOpen,
  timerFor,       \* whom updateTimer calls
  timerWaiting,
  work,           \* NetEngine::work
  shuttingDown, updateFinished,
  serverFreed,    \* rpcServer.reset() has been called
  freedEarly      \* history: rpcServer was freed while NetEngine's thread still had to use it

netVars == <<posted, netReceiving, socketOpen, timerFor, timerWaiting, work, shuttingDown,
             updateFinished, serverFreed, freedEarly>>
vars == <<stunVars, mapVars, stage, launches, gameReady, netVars>>

NetInit ==
  /\ posted = <<>>
  /\ netReceiving = FALSE
  /\ socketOpen = FALSE
  /\ timerFor = "nobody" /\ timerWaiting = FALSE
  /\ work = TRUE
  /\ shuttingDown = FALSE /\ updateFinished = FALSE
  /\ serverFreed = FALSE
  /\ freedEarly = FALSE

NetReset ==
  /\ posted' = <<>>
  /\ netReceiving' = FALSE
  /\ socketOpen' = FALSE
  /\ timerFor' = "nobody" /\ timerWaiting' = FALSE
  /\ work' = TRUE
  /\ shuttingDown' = FALSE /\ updateFinished' = FALSE
  /\ serverFreed' = FALSE
  /\ freedEarly' = FALSE

Init ==
  /\ StunInit
  /\ MapInit
  /\ NetInit
  /\ stage = "off"
  /\ launches = 0
  /\ gameReady = FALSE

-----------------------------------------------------------------------------
(* The constructor.                                                         *)

\* NetEngine's constructor, which makes the PortMappingHandler.  The STUN block depends on nothing
\* that outlives the process, so only the first launch goes through it step by step; the later
\* ones that get through it do so in this step.
Launch ==
  /\ stage = "off"
  /\ launches < MaxLaunches
  /\ Discover
  /\ stage' = "stun"
  /\ launches' = launches + 1
  /\ \/ launches = 0 /\ UNCHANGED stunVars
     \/ /\ launches > 0
        /\ stunOutcome' = "ok"
        /\ stunEndpoints' \in SUBSET {v.endpoint : v \in {w \in Verdicts : w.is = "address"}}
        /\ UNCHANGED stunLocals
  /\ UNCHANGED <<gameReady, netVars>>

\* upnpDiscover() reports an error: LOGFATAL.
DiscoverDies ==
  /\ stage = "off"
  /\ launches < MaxLaunches
  /\ launches' = launches + 1
  /\ UNCHANGED <<stunVars, mapVars, gameReady, netVars, stage>>

StunBlock ==
  /\ stage = "stun"
  /\ StunNext
  /\ UNCHANGED <<mapVars, stage, launches, gameReady, netVars>>

BeginMapPort ==
  /\ stage = "stun"
  /\ stunOutcome = "ok"
  /\ MapPort
  /\ stage' = "mapping"
  /\ UNCHANGED <<stunVars, launches, gameReady, netVars>>

MapOneStep ==
  /\ stage = "mapping"
  /\ MapStep
  /\ UNCHANGED <<stunVars, stage, launches, gameReady, netVars>>

RouterChanges ==
  /\ stage = "mapping"
  /\ OtherChanges
  /\ UNCHANGED <<stunVars, stage, launches, gameReady, netVars>>

\* mapPort()'s result is ignored: the socket is opened, and the RpcServer receives on it.
Construct ==
  /\ stage = "mapping"
  /\ ~Mapping
  /\ stage' = "constructed"
  /\ socketOpen' = TRUE
  /\ netReceiving' = TRUE
  /\ UNCHANGED <<stunVars, mapVars, launches, gameReady, posted, timerFor, timerWaiting, work,
                 shuttingDown, updateFinished, serverFreed, freedEarly>>

\* start(): the endpoints go to the lobby, and the timer is set.
Start ==
  /\ stage = "constructed"
  /\ stage' = "started"
  /\ timerFor' = "checkForEndpoints"
  /\ timerWaiting' = TRUE
  /\ UNCHANGED <<stunVars, mapVars, launches, gameReady, posted, netReceiving, socketOpen, work,
                 shuttingDown, updateFinished, serverFreed, freedEarly>>

GameBecomesReady ==
  /\ timerFor = "checkForEndpoints"
  /\ ~gameReady
  /\ gameReady' = TRUE
  /\ UNCHANGED <<stunVars, mapVars, stage, launches, netVars>>

-----------------------------------------------------------------------------
(* The thread of NetEngine.                                                 *)

Tasks == {"receive", "receiveError", "timer", "close", "send", "reset", "clearWork"}

\* What runs with a bare pointer to the RpcServer or to one of the handlers it owns.
UsesServer == {"receive", "receiveError", "close", "send"}

\* _send() posts a lambda that holds the handler's `this'.  One "send" stands for all that are
\* posted in a row, the two copies of doubleSends included.
WithSend(queue) ==
  IF queue # <<>> /\ queue[Len(queue)] = "send" THEN queue ELSE Append(queue, "send")

\* The queue behind what may send: nothing is sent before checkForEndpoints() has made the
\* handlers, and a handler may have nothing to send or be above its rate.
AfterSends(queue) == {queue} \cup {q \in {WithSend(queue)} : timerFor = "update"}

NetRuns(task) == stage \notin {"off", "undefined"} /\ posted # <<>> /\ Head(posted) = task

PacketReady ==
  /\ netReceiving
  /\ netReceiving' = FALSE
  /\ posted' = Append(posted, "receive")
  /\ UNCHANGED <<stunVars, mapVars, stage, launches, gameReady, socketOpen, timerFor, timerWaiting,
                 work, shuttingDown, updateFinished, serverFreed, freedEarly>>

TimerReady ==
  /\ timerWaiting
  /\ timerWaiting' = FALSE
  /\ posted' = Append(posted, "timer")
  /\ UNCHANGED <<stunVars, mapVars, stage, launches, gameReady, netReceiving, socketOpen, timerFor,
                 work, shuttingDown, updateFinished, serverFreed, freedEarly>>

\* handleReceive() hands the packet to a handler, which acknowledges or answers it, and receives
\* again; on a closed socket that fails at once.
HandleReceive ==
  /\ NetRuns("receive")
  /\ \/ /\ serverFreed /\ stage' = "undefined"
        /\ UNCHANGED <<posted, netReceiving>>
     \/ /\ ~serverFreed /\ socketOpen
        /\ posted' \in AfterSends(Tail(posted))
        /\ netReceiving' = TRUE /\ UNCHANGED stage
     \/ /\ ~serverFreed /\ ~socketOpen
        /\ \E queue \in AfterSends(Tail(posted)) : posted' = Append(queue, "receiveError")
        /\ UNCHANGED <<stage, netReceiving>>
  /\ UNCHANGED <<stunVars, mapVars, launches, gameReady, socketOpen, timerFor, timerWaiting, work,
                 shuttingDown, updateFinished, serverFreed, freedEarly>>

\* The error of a receive on the closed socket is logged, and the next receive fails as well.
HandleReceiveError ==
  /\ NetRuns("receiveError")
  /\ \/ /\ serverFreed /\ stage' = "undefined"
        /\ UNCHANGED posted
     \/ /\ ~serverFreed
        /\ posted' = Append(Tail(posted), "receiveError") /\ UNCHANGED stage
  /\ UNCHANGED <<stunVars, mapVars, launches, gameReady, netReceiving, socketOpen, timerFor,
                 timerWaiting, work, shuttingDown, updateFinished, serverFreed, freedEarly>>

\* The lambda of _send().  On a closed socket send_to() throws, which is caught; when the handler
\* has been freed, the memory may still hold what it held, or not.
RunSend ==
  /\ NetRuns("send")
  /\ \/ posted' = Tail(posted) /\ UNCHANGED stage
     \/ serverFreed /\ stage' = "undefined" /\ UNCHANGED posted
  /\ UNCHANGED <<stunVars, mapVars, launches, gameReady, netReceiving, socketOpen, timerFor,
                 timerWaiting, work, shuttingDown, updateFinished, serverFreed, freedEarly>>

\* Wrong variant: checkForEndpoints() only polls while the peer is not shutting down.
CheckForEndpointsUnlessQuitting ==
  /\ NetRuns("timer")
  /\ timerFor = "checkForEndpoints"
  /\ \/ /\ ~gameReady
        /\ posted' = Tail(posted)
        /\ timerWaiting' = ~shuttingDown
        /\ UNCHANGED <<timerFor, updateFinished>>
     \/ /\ gameReady
        /\ posted' \in {Tail(posted), WithSend(Tail(posted))}
        /\ timerFor' = "update"
        /\ updateFinished' = shuttingDown
        /\ timerWaiting' = ~shuttingDown
  /\ UNCHANGED <<stunVars, mapVars, stage, launches, gameReady, netReceiving, socketOpen, work,
                 shuttingDown, serverFreed, freedEarly>>

\* checkForEndpoints(): polls until the game is ready, whether or not the peer is shutting down;
\* then it sets up the handlers (see Endpoints and SessionHandshake), which send their session
\* keys, and makes the first update().
CheckForEndpoints ==
  /\ NetRuns("timer")
  /\ timerFor = "checkForEndpoints"
  /\ \/ /\ ~gameReady
        /\ posted' = Tail(posted)
        /\ timerWaiting' = TRUE
        /\ UNCHANGED <<timerFor, updateFinished>>
     \/ /\ gameReady
        /\ posted' \in {Tail(posted), WithSend(Tail(posted))}
        /\ timerFor' = "update"
        /\ updateFinished' = shuttingDown
        /\ timerWaiting' = ~shuttingDown
  /\ UNCHANGED <<stunVars, mapVars, stage, launches, gameReady, netReceiving, socketOpen, work,
                 shuttingDown, serverFreed, freedEarly>>

\* Wrong variant: the timer is set again before shuttingDown is looked at.
UpdateAndSetTimer ==
  /\ NetRuns("timer")
  /\ timerFor = "update"
  /\ posted' \in AfterSends(Tail(posted))
  /\ updateFinished' = shuttingDown
  /\ timerWaiting' = TRUE
  /\ UNCHANGED <<stunVars, mapVars, stage, launches, gameReady, netReceiving, socketOpen, timerFor,
                 work, shuttingDown, serverFreed, freedEarly>>

\* update(): the heartbeats and the answers to the inputs are sent before shuttingDown is looked at.
Update ==
  /\ NetRuns("timer")
  /\ timerFor = "update"
  /\ posted' \in AfterSends(Tail(posted))
  /\ updateFinished' = shuttingDown
  /\ timerWaiting' = ~shuttingDown
  /\ UNCHANGED <<stunVars, mapVars, stage, launches, gameReady, netReceiving, socketOpen, timerFor,
                 work, shuttingDown, serverFreed, freedEarly>>

\* Wrong variant: the receive outlives the socket.
RunCloseKeepReceiving ==
  /\ NetRuns("close")
  /\ posted' = Tail(posted)
  /\ socketOpen' = FALSE
  /\ UNCHANGED <<stunVars, mapVars, stage, launches, gameReady, netReceiving, timerFor,
                 timerWaiting, work, shuttingDown, updateFinished, serverFreed, freedEarly>>

\* The lambda of closeSocket(): it reaches the socket through the RpcServer.  When that has been
\* freed, the memory may still hold what it held, or not.
RunClose ==
  /\ NetRuns("close")
  /\ \/ /\ posted' = Tail(posted)
        /\ socketOpen' = FALSE
        /\ netReceiving' = FALSE
        /\ UNCHANGED stage
     \/ /\ serverFreed
        /\ stage' = "undefined"
        /\ UNCHANGED <<posted, socketOpen, netReceiving>>
  /\ UNCHANGED <<stunVars, mapVars, launches, gameReady, timerFor, timerWaiting, work, shuttingDown,
                 updateFinished, serverFreed, freedEarly>>

\* localSocket.reset() drops the last reference, which closes the socket; updateTimer.reset()
\* cancels the timer.
RunResets ==
  /\ NetRuns("reset")
  /\ posted' = Tail(posted)
  /\ socketOpen' = FALSE
  /\ netReceiving' = FALSE
  /\ timerWaiting' = FALSE
  /\ stunEndpoints' = {}
  /\ UNCHANGED <<stunLocals, stunOutcome, mapVars, stage, launches, gameReady, timerFor, work,
                 shuttingDown, updateFinished, serverFreed, freedEarly>>

RunClearWork ==
  /\ NetRuns("clearWork")
  /\ posted' = Tail(posted)
  /\ work' = FALSE
  /\ UNCHANGED <<stunVars, mapVars, stage, launches, gameReady, netReceiving, socketOpen, timerFor,
                 timerWaiting, shuttingDown, updateFinished, serverFreed, freedEarly>>

NetThread ==
  \/ HandleReceive \/ HandleReceiveError \/ RunSend \/ CheckForEndpoints \/ Update \/ RunClose
  \/ RunResets \/ RunClearWork

-----------------------------------------------------------------------------
(* The game's thread: updateState() and shutdown().                         *)

\* The broadcast of updateState(), which posts its sends from the game's thread.
Broadcast ==
  /\ stage = "started"
  /\ timerFor = "update"
  /\ posted' = WithSend(posted)
  /\ UNCHANGED <<stunVars, mapVars, stage, launches, gameReady, netReceiving, socketOpen, timerFor,
                 timerWaiting, work, shuttingDown, updateFinished, serverFreed, freedEarly>>

CallShutdown ==
  /\ stage \in {"constructed", "started"}
  /\ stage' = "flushing"
  /\ UNCHANGED <<stunVars, mapVars, launches, gameReady, posted, netReceiving, socketOpen, timerFor,
                 timerWaiting, work, shuttingDown, updateFinished, serverFreed, freedEarly>>

\* The first flush, sendShutdown() and the second flush: see MyPeer for what they wait for.
Announce ==
  /\ stage = "flushing"
  /\ stage' = "announced"
  /\ posted' \in AfterSends(posted)
  /\ UNCHANGED <<stunVars, mapVars, launches, gameReady, netReceiving, socketOpen, timerFor,
                 timerWaiting, work, shuttingDown, updateFinished, serverFreed, freedEarly>>

SetShuttingDown ==
  /\ stage = "announced"
  /\ stage' = "waiting"
  /\ shuttingDown' = TRUE
  /\ UNCHANGED <<stunVars, mapVars, launches, gameReady, posted, netReceiving, socketOpen, timerFor,
                 timerWaiting, work, updateFinished, serverFreed, freedEarly>>

CloseSocket ==
  /\ stage = "waiting"
  /\ updateFinished
  /\ stage' = "closing"
  /\ posted' = Append(posted, "close")
  /\ UNCHANGED <<stunVars, mapVars, launches, gameReady, netReceiving, socketOpen, timerFor,
                 timerWaiting, work, shuttingDown, updateFinished, serverFreed, freedEarly>>

\* rpcServer.reset() frees the handlers too, and waits neither for the lambda that was just posted
\* nor for their sends.
FreeServer ==
  /\ stage = "closing"
  /\ stage' = "freed"
  /\ serverFreed' = TRUE
  /\ freedEarly' = \E i \in DOMAIN posted : posted[i] \in UsesServer
  /\ UNCHANGED <<stunVars, mapVars, launches, gameReady, posted, netReceiving, socketOpen, timerFor,
                 timerWaiting, work, shuttingDown, updateFinished>>

PostResets ==
  /\ stage = "freed"
  /\ stage' = "resetting"
  /\ posted' = Append(posted, "reset")
  /\ UNCHANGED <<stunVars, mapVars, launches, gameReady, netReceiving, socketOpen, timerFor,
                 timerWaiting, work, shuttingDown, updateFinished, serverFreed, freedEarly>>

\* NetEngine::shutdown(): the PortMappingHandler goes first, then the work.
StopEngine ==
  /\ stage = "resetting"
  /\ stage' = "joining"
  /\ HandlerGone
  /\ posted' = Append(posted, "clearWork")
  /\ UNCHANGED <<stunVars, launches, gameReady, netReceiving, socketOpen, timerFor, timerWaiting,
                 work, shuttingDown, updateFinished, serverFreed, freedEarly>>

\* ioService->run() returns when nothing is outstanding, and the thread is joined.
Join ==
  /\ stage = "joining"
  /\ ~work /\ posted = <<>> /\ ~netReceiving /\ ~timerWaiting
  /\ stage' = "done"
  /\ UNCHANGED <<stunVars, mapVars, launches, gameReady, netVars>>

GameThread ==
  \/ Announce \/ SetShuttingDown \/ CloseSocket \/ FreeServer \/ PostResets \/ StopEngine \/ Join

-----------------------------------------------------------------------------
\* The process ends, by itself or not, and can be launched again; a router keeps its table.  (A
\* process that dies in the STUN block has changed nothing.)
Gone ==
  /\ stage \notin {"off", "stun", "undefined"}
  /\ launches < MaxLaunches
  /\ stage' = "off"
  /\ StunLocalsReset
  /\ stunEndpoints' = {}
  /\ stunOutcome' = "running"
  /\ HandlerGone
  /\ NetReset
  /\ gameReady' = FALSE
  /\ UNCHANGED launches

Next ==
  \/ Launch
  \/ DiscoverDies
  \/ StunBlock
  \/ BeginMapPort
  \/ MapOneStep
  \/ RouterChanges
  \/ Construct
  \/ Start
  \/ GameBecomesReady
  \/ PacketReady
  \/ TimerReady
  \/ NetThread
  \/ Broadcast
  \/ CallShutdown
  \/ GameThread
  \/ Gone

Spec == Init /\ [][Next]_vars
(***************************************************************************)
(* Fairness: the two threads go on, timers expire and a resolver answers   *)
(* in some way.  That Announce is part of the game's thread assumes that   *)
(* the two flushes end (see MyPeer).  Nothing is assumed of the STUN       *)
(* servers, of the packets or of the other players, who may never come.    *)
(***************************************************************************)
Fairness ==
  /\ WF_vars(StunBlock /\ StunRun)
  /\ WF_vars(StunBlock /\ DeadlineExpires)
  /\ WF_vars(StunBlock /\ \E n \in Servers : TimerExpires(n))
  /\ WF_vars(StunBlock /\ \E n \in Servers, a \in Addresses \cup {None} : Resolve(n, a))
  /\ WF_vars(BeginMapPort \/ MapOneStep \/ Construct)
  /\ WF_vars(TimerReady)
  /\ WF_vars(NetThread)
  /\ WF_vars(GameThread)

FairSpec == Spec /\ Fairness

-----------------------------------------------------------------------------
TypeOK ==
  /\ StunTypeOK
  /\ MapTypeOK
  /\ stage \in {"off", "stun", "mapping", "constructed", "started", "flushing", "announced",
                "waiting", "closing", "freed", "resetting", "joining", "done", "undefined"}
  /\ launches \in 0..MaxLaunches
  /\ \A i \in DOMAIN posted : posted[i] \in Tasks
  /\ timerFor \in {"nobody", "checkForEndpoints", "update"}
  /\ {gameReady, netReceiving, socketOpen, timerWaiting, work, shuttingDown, updateFinished,
      serverFreed, freedEarly} \subseteq BOOLEAN

\* The bit operations of decode_method(), decode_class(), decode_plex() and the two address
\* decoders read what RFC 5389 has a server write: the first mapped address, behind attributes
\* that hold none (those whose value looks like one are misread, see the README).  Nothing of
\* this depends on the state: it is looked at once, before the first launch.
ReadsWhatWasMapped == launches = 0 => DecodesWhatWasEncoded

\* shutdown() only takes the RpcServer and its handlers from under NetEngine's thread if, at the
\* moment rpcServer was reset, that thread still had the close, a receive or a send to run.  Once
\* the socket is closed and these have been run, nothing can bring one of them back: no packet, no
\* timer and no step of the game's thread.
UseAfterFreeWasQueued == stage = "undefined" => freedEarly

\* Once shutdown() has seen updateFinished, no timer can call update() or checkForEndpoints() again:
\* both use rpcServer and client, which shutdown() goes on to free.
UpdatesStayFinished ==
  updateFinished => ~timerWaiting /\ \A i \in DOMAIN posted : posted[i] # "timer"

\* The constructor returns, or the process dies: ios.run() and mapPort() come to an end whatever
\* the STUN servers and the router do.
ConstructorEnds ==
  [](stage = "stun" => <>(stunOutcome \in {"fatal", "undefined"} \/ stage \in {"constructed", "off"}))

Quitting == {"flushing", "announced", "waiting", "closing", "freed", "resetting", "joining"}

\* shutdown() ends (or runs into the freed RpcServer) if the game is ready or becomes ready, also
\* when it is called while checkForEndpoints() still polls: the thread of NetEngine gets to an
\* update that sees shuttingDown, and then runs out of work.  As long as another player is missing
\* it waits, for ever if nobody comes.
ShutdownEnds == (gameReady /\ stage \in Quitting) ~> stage \in {"done", "off", "undefined"}

-----------------------------------------------------------------------------
(* The inductive invariant of the two threads, in parts.                    *)

NotStarted == {"off", "stun", "mapping", "constructed"}
Freed == {"freed", "resetting", "joining", "done", "undefined"}

In(queue, task) == \E i \in DOMAIN queue : queue[i] = task
AtMostOneTimerIn(queue) ==
  \A i, j \in DOMAIN queue : queue[i] = "timer" /\ queue[j] = "timer" => i = j

InPosted(task) == In(posted, task)
AtMostOneTimer == AtMostOneTimerIn(posted)

\* There is at most one timer, none before start(), and none once an update saw shuttingDown.
OneTimer ==
  /\ AtMostOneTimer
  /\ timerWaiting => ~InPosted("timer")
  /\ updateFinished => ~timerWaiting /\ ~InPosted("timer")
  /\ timerFor = "nobody" => ~timerWaiting /\ ~InPosted("timer") /\ ~updateFinished
  /\ stage \in NotStarted => timerFor = "nobody"
  /\ stage \in {"closing"} \cup Freed => updateFinished

\* Nothing is received on a closed socket, and shutdown() goes on to free the RpcServer only
\* behind the posted close, which may still have to run.
SocketClosing ==
  /\ ~socketOpen => ~netReceiving
  /\ stage = "closing" /\ ~InPosted("close") => ~socketOpen
  /\ serverFreed <=> stage \in Freed

\* A server that was freed in time is out of reach.
FreedInTime ==
  serverFreed /\ ~freedEarly => ~netReceiving /\ \A task \in UsesServer : ~InPosted(task)

NetIInv ==
  posted \in Seq(Tasks) /\ OneTimer /\ SocketClosing /\ FreedInTime /\ UseAfterFreeWasQueued
=============================================================================
