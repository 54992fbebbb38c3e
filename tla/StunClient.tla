------------------------------ MODULE StunClient ------------------------------
(***************************************************************************)
(* base/StunClient.cpp, and the block of MyPeer's constructor that uses it *)
(* to learn the peer's public endpoints: resolve every STUN server, ask    *)
(* it, resend until it answers, and give up after 15 seconds.              *)
(*                                                                         *)
(* Everything runs on the constructor's thread, inside ios.run().  `ready' *)
(* is the io_service's queue: an operation whose completion is there can   *)
(* no longer be cancelled.  A cancelled resolve or resend timer has a      *)
(* handler that returns at once, so it is dropped; a cancelled receive is  *)
(* a completion like any other.  A send completes as soon as it is made.   *)
(***************************************************************************)
EXTENDS Integers, Sequences, FiniteSets

CONSTANTS Servers,    \* the names in `stuns'
          Addresses,  \* what they can resolve to
          Verdicts,   \* what on_recv() can make of a packet: see Verdict in StunMessage
          None        \* no address

ASSUME ServersAssumption == IsFiniteSet(Servers) /\ Servers # {}
ASSUME NoneAssumption == None \notin Addresses
ASSUME VerdictsAssumption ==
  Verdicts \subseteq [is : {"address", "reject", "ignore", "silent", "notImplemented"},
                      endpoint : {v.endpoint : v \in Verdicts}]

VARIABLES
  addr,           \* addr[n]: what n resolved to
  resolving,      \* the names whose async_resolve() is outstanding
  requests,       \* the names whose request is in State::requests (which is keyed by address)
  armed,          \* the names whose request's timer is waiting
  receiving,      \* an async_receive_from() is outstanding
  requestCount,   \* _request_count
  ready,
  alive,          \* stun_client is not NULL, and its State not was_destroyed
  waitFor,        \* wait_for
  deadline,       \* the 15 second timer is waiting
  stunEndpoints,
  stunOutcome,    \* how the block ended
  disturbed,      \* history: a receive failed, or a reply held no address
  raced           \* history: a request was sent again after it had been answered

stunLocals == <<addr, resolving, requests, armed, receiving, requestCount, ready, alive, waitFor,
                deadline, disturbed, raced>>
stunVars == <<stunLocals, stunEndpoints, stunOutcome>>

\* A verdict is the endpoint that was found ("address"), an error for the request ("reject"), or
\* no endpoint: the packet is not STUN ("ignore"), it holds no address ("silent"), or it has an
\* IPv6 XOR-MAPPED-ADDRESS ("notImplemented"), which is fatal.
Error == [is |-> "reject", endpoint |-> None]

Completion(kind, name) == [kind |-> kind, name |-> name]
Received(from, verdict) == [kind |-> "recv", from |-> from, verdict |-> verdict]
Failed == [kind |-> "recv", from |-> None, verdict |-> [is |-> "error", endpoint |-> None]]
Finished(n, result) == [kind |-> "handler", name |-> n, result |-> result]

\* The block's variables when it is entered.
StunLocalsInit ==
  /\ addr = [n \in Servers |-> None]
  /\ resolving = Servers
  /\ requests = {}
  /\ armed = {}
  /\ receiving = FALSE
  /\ requestCount = 0
  /\ ready = <<>>
  /\ alive = TRUE
  /\ waitFor = Cardinality(Servers)
  /\ deadline = TRUE
  /\ disturbed = FALSE
  /\ raced = FALSE

StunLocalsReset ==
  /\ addr' = [n \in Servers |-> None]
  /\ resolving' = Servers
  /\ requests' = {}
  /\ armed' = {}
  /\ receiving' = FALSE
  /\ requestCount' = 0
  /\ ready' = <<>>
  /\ alive' = TRUE
  /\ waitFor' = Cardinality(Servers)
  /\ deadline' = TRUE
  /\ disturbed' = FALSE
  /\ raced' = FALSE

StunInit ==
  /\ StunLocalsInit
  /\ stunEndpoints = {}
  /\ stunOutcome = "running"

-----------------------------------------------------------------------------
(* What happens outside of the handlers: an outstanding operation completes. *)

Resolve(n, a) ==
  /\ n \in resolving
  /\ resolving' = resolving \ {n}
  /\ addr' = [addr EXCEPT ![n] = a]
  /\ ready' = Append(ready, Completion("resolved", n))
  /\ UNCHANGED <<requests, armed, receiving, requestCount, alive, waitFor, deadline,
                 stunEndpoints, stunOutcome, disturbed, raced>>

TimerExpires(n) ==
  /\ n \in armed
  /\ armed' = armed \ {n}
  /\ ready' = Append(ready, Completion("timer", n))
  /\ UNCHANGED <<addr, resolving, requests, receiving, requestCount, alive, waitFor, deadline,
                 stunEndpoints, stunOutcome, disturbed, raced>>

DeadlineExpires ==
  /\ deadline
  /\ deadline' = FALSE
  /\ ready' = Append(ready, Completion("deadline", None))
  /\ UNCHANGED <<addr, resolving, requests, armed, receiving, requestCount, alive, waitFor,
                 stunEndpoints, stunOutcome, disturbed, raced>>

\* A packet from anywhere: a server that was asked twice answers twice.
PacketArrives(from, verdict) ==
  /\ receiving
  /\ receiving' = FALSE
  /\ ready' = Append(ready, Received(from, verdict))
  /\ UNCHANGED <<addr, resolving, requests, armed, requestCount, alive, waitFor, deadline,
                 stunEndpoints, stunOutcome, disturbed, raced>>

ReceiveFails ==
  /\ receiving
  /\ receiving' = FALSE
  /\ ready' = Append(ready, Failed)
  /\ UNCHANGED <<addr, resolving, requests, armed, requestCount, alive, waitFor, deadline,
                 stunEndpoints, stunOutcome, disturbed, raced>>

-----------------------------------------------------------------------------
(* The handlers.  Each takes the head of the queue.                         *)

Runs(kind) == stunOutcome = "running" /\ ready # <<>> /\ Head(ready).kind = kind

\* The handlers that finish requests of `ns' are posted; State::requests is in address order.
Posted(ns, result) ==
  LET order == CHOOSE s \in [1..Cardinality(ns) -> ns] : \A n \in ns : \E i \in DOMAIN s : s[i] = n
  IN [i \in 1..Cardinality(ns) |-> Finished(order[i], result)]

\* Wrong variant: the request's timer is left running.
ExecuteAndLeaveTimer(ns, result) ==
  /\ requests' = requests \ ns
  /\ ready' = Tail(ready) \o Posted(ns, result)
  /\ UNCHANGED armed

\* execute() and destroy_requests(): the requests leave the map, their timers are cancelled.
Execute(ns, result) ==
  /\ requests' = requests \ ns
  /\ armed' = armed \ ns
  /\ ready' = Tail(ready) \o Posted(ns, result)

\* The client is gone: whatever its code does now is undefined.
Dangling ==
  /\ stunOutcome' = "undefined"
  /\ UNCHANGED <<stunLocals, stunEndpoints>>

\* An endpoint that is being asked already aborts the request it has, and the new one is dropped.
ReflectAgain(r) ==
  /\ Execute({r}, Error)
  /\ UNCHANGED <<receiving, requestCount>>

Reflect(n) ==
  /\ requests' = requests \cup {n}
  /\ ready' = Append(Tail(ready), Completion("sent", n))
  /\ requestCount' = requestCount + 1
  /\ receiving' = (receiving \/ requestCount = 0)
  /\ UNCHANGED armed

Asked(a) == {r \in requests : addr[r] = a}

\* A name that cannot be resolved is logged, and counted as one to wait for.
OnResolved ==
  LET n == Head(ready).name IN
  /\ Runs("resolved")
  /\ \/ /\ addr[n] = None
        /\ ready' = Tail(ready)
        /\ UNCHANGED <<requests, armed, receiving, requestCount, stunOutcome>>
     \/ /\ addr[n] # None /\ alive
        /\ \/ \E r \in Asked(addr[n]) : ReflectAgain(r)
           \/ Asked(addr[n]) = {} /\ Reflect(n)
        /\ UNCHANGED stunOutcome
     \/ /\ addr[n] # None /\ ~alive
        /\ stunOutcome' = "undefined"
        /\ UNCHANGED <<requests, armed, receiving, requestCount, ready>>
  /\ UNCHANGED <<addr, resolving, alive, waitFor, deadline, stunEndpoints, disturbed, raced>>

\* on_send(): the timer is set whether or not the request has been answered meanwhile.
OnSent ==
  LET n == Head(ready).name IN
  /\ Runs("sent")
  /\ \/ ~alive /\ Dangling
     \/ /\ alive
        /\ armed' = armed \cup {n}
        /\ ready' = Tail(ready)
        /\ raced' = (raced \/ n \notin requests)
        /\ UNCHANGED <<addr, resolving, requests, receiving, requestCount, alive, waitFor,
                       deadline, stunEndpoints, stunOutcome, disturbed>>

\* The timer's handler sends again.
OnTimer ==
  LET n == Head(ready).name IN
  /\ Runs("timer")
  /\ \/ ~alive /\ Dangling
     \/ /\ alive
        /\ ready' = Append(Tail(ready), Completion("sent", n))
        /\ raced' = (raced \/ n \notin requests)
        /\ UNCHANGED <<addr, resolving, requests, armed, receiving, requestCount, alive, waitFor,
                       deadline, stunEndpoints, stunOutcome, disturbed>>

\* Wrong variant: an answer counts for the packet and for its request.
CountDownTwice ==
  /\ requestCount' = requestCount - 2
  /\ receiving' = (requestCount # 2)

\* The last answer that is counted ends the receiving.
CountDown ==
  /\ requestCount' = requestCount - 1
  /\ receiving' = (requestCount # 1)

KeepReceiving ==
  /\ receiving' = TRUE
  /\ ready' = Tail(ready)
  /\ UNCHANGED <<requests, armed, requestCount, disturbed, stunOutcome>>

\* Wrong variant: the requests are dropped without calling their handlers.
DestroyRequestsQuietly ==
  /\ requests' = {}
  /\ armed' = armed \ requests
  /\ ready' = Tail(ready)
  /\ UNCHANGED <<receiving, requestCount, stunOutcome>>

DestroyRequests ==
  /\ Execute(requests, Error)
  /\ UNCHANGED <<receiving, requestCount, stunOutcome>>

\* The rest of on_recv(): a packet while the client lives.
OnReply(from, verdict) ==
  \/ (Asked(from) = {} \/ verdict.is = "ignore") /\ KeepReceiving
  \/ \E r \in Asked(from) :
       \/ /\ verdict.is \in {"address", "reject"}
          /\ Execute({r}, verdict)
          /\ CountDown
          /\ UNCHANGED <<disturbed, stunOutcome>>
       \/ /\ verdict.is = "silent"
          /\ ready' = Tail(ready)
          /\ CountDown
          /\ disturbed' = TRUE
          /\ UNCHANGED <<requests, armed, stunOutcome>>
       \/ /\ verdict.is = "notImplemented"
          /\ stunOutcome' = "fatal"
          /\ disturbed' = TRUE
          /\ UNCHANGED <<requests, armed, ready, requestCount, receiving>>

OnRecv ==
  LET e == Head(ready) IN
  /\ Runs("recv")
  /\ \/ ~alive /\ DestroyRequests /\ UNCHANGED disturbed
     \/ alive /\ e.verdict.is = "error" /\ DestroyRequests /\ disturbed' = TRUE
     \/ alive /\ e.verdict.is # "error" /\ OnReply(e.from, e.verdict)
  /\ UNCHANGED <<addr, resolving, alive, waitFor, deadline, stunEndpoints, raced>>

\* ~StunClient(), if it is there: only the timers of the requests in the map are cancelled.
Destroy(rest) ==
  /\ alive' = FALSE
  /\ armed' = IF alive THEN armed \ requests ELSE armed
  /\ receiving' = FALSE
  /\ ready' = IF receiving THEN Append(rest, Failed) ELSE rest

\* Wrong variant: the deadline only cancels the resolver.
OnDeadlineKeepClient ==
  /\ Runs("deadline")
  /\ ready' = Tail(ready)
  /\ resolving' = {}
  /\ UNCHANGED <<addr, requests, armed, receiving, requestCount, alive, waitFor, deadline,
                 stunEndpoints, stunOutcome, disturbed, raced>>

OnDeadline ==
  /\ Runs("deadline")
  /\ Destroy(Tail(ready))
  /\ resolving' = {}
  /\ UNCHANGED <<addr, requests, requestCount, waitFor, deadline, stunEndpoints, stunOutcome,
                 disturbed, raced>>

\* The handler MyPeer passes to reflect().
OnFinished ==
  LET e == Head(ready) IN
  /\ Runs("handler")
  /\ waitFor' = waitFor - 1
  /\ stunEndpoints' = stunEndpoints \cup
                    (IF e.result.is = "address" THEN {e.result.endpoint} ELSE {})
  /\ IF waitFor = 1
     THEN Destroy(Tail(ready)) /\ resolving' = {} /\ deadline' = FALSE
     ELSE ready' = Tail(ready) /\ UNCHANGED <<alive, armed, receiving, resolving, deadline>>
  /\ UNCHANGED <<addr, requests, requestCount, stunOutcome, disturbed, raced>>

\* ios.run() returns when nothing is left to do; the block's variables go out of scope.
StunReturns ==
  /\ stunOutcome = "running"
  /\ ready = <<>> /\ resolving = {} /\ armed = {} /\ ~receiving /\ ~deadline
  /\ \/ waitFor = 0 /\ stunOutcome' = "ok" /\ StunLocalsReset
     \/ waitFor # 0 /\ stunOutcome' = "fatal" /\ UNCHANGED stunLocals
  /\ UNCHANGED stunEndpoints

-----------------------------------------------------------------------------
StunRun ==
  OnResolved \/ OnSent \/ OnTimer \/ OnRecv \/ OnDeadline \/ OnFinished \/ StunReturns

StunWorld ==
  /\ stunOutcome = "running"
  /\ \/ \E n \in Servers : \E a \in Addresses \cup {None} : Resolve(n, a)
     \/ \E n \in Servers : TimerExpires(n)
     \/ DeadlineExpires
     \/ \E from \in Addresses, verdict \in Verdicts : PacketArrives(from, verdict)
     \/ ReceiveFails

StunNext == StunRun \/ StunWorld

StunSpec == StunInit /\ [][StunNext]_stunVars

-----------------------------------------------------------------------------
AnyVerdict ==
  [is : {"address", "reject", "ignore", "silent", "notImplemented", "error"},
   endpoint : {None} \cup {v.endpoint : v \in Verdicts}]
ReadyOp ==
  [kind : {"resolved", "sent", "timer", "deadline"}, name : Servers \cup {None}]
    \cup [kind : {"recv"}, from : Addresses \cup {None}, verdict : AnyVerdict]
    \cup [kind : {"handler"}, name : Servers, result : AnyVerdict]

StunTypeOK ==
  /\ addr \in [Servers -> Addresses \cup {None}]
  /\ resolving \subseteq Servers /\ requests \subseteq Servers /\ armed \subseteq Servers
  /\ {receiving, alive, deadline, disturbed, raced} \subseteq BOOLEAN
  /\ requestCount \in 0..Cardinality(Servers) /\ waitFor \in 0..Cardinality(Servers)
  /\ \A i \in DOMAIN ready : ready[i] \in ReadyOp
  /\ stunEndpoints \subseteq {v.endpoint : v \in Verdicts}
  /\ stunOutcome \in {"running", "ok", "fatal", "undefined"}

\* While a server is being asked, its answer would be received: as long as no receive failed and
\* every reply held an address, _request_count never ends the receiving early.
NobodyForgotten ==
  alive /\ requests # {} /\ ~disturbed
    => receiving \/ \E i \in DOMAIN ready : ready[i].kind = "recv"

\* The constructor only gives up ("Did not receive packets from STUN server") because a name did
\* not resolve, two names are one address, a receive failed or a reply held no address; servers
\* that are slow or do not answer at all are not enough.
FatalNeedsCause ==
  stunOutcome = "fatal" =>
    \/ disturbed
    \/ \E n \in Servers : addr[n] = None
    \/ \E n, r \in Servers : n # r /\ addr[n] = addr[r]

\* The client is only used after its destruction if a request was sent again after it had been
\* answered, or if the 15 seconds ran out: the destructor and exec() cancel every other timer.
UndefinedNeedsRace == stunOutcome = "undefined" => raced \/ (~deadline /\ waitFor # 0)
-----------------------------------------------------------------------------
(* The inductive invariant, in parts.                                       *)

InReady(kind) == \E i \in DOMAIN ready : ready[i].kind = kind

\* The completions that stand for a name the block still waits for.
Counted(e) == e.kind \in {"resolved", "handler"}
CountedNames == {ready[i].name : i \in {j \in DOMAIN ready : Counted(ready[j])}}
Pending == resolving \cup requests \cup CountedNames

\* A name is being resolved, asked, or has one completion in the queue.
InOnePlace ==
  /\ resolving \cap requests = {}
  /\ \A i \in DOMAIN ready : Counted(ready[i]) => ready[i].name \notin resolving \cup requests
  /\ \A i, j \in DOMAIN ready :
       Counted(ready[i]) /\ Counted(ready[j]) /\ ready[i].name = ready[j].name => i = j

\* The names of which no answer has to come: without an address, or with that of another name.
Excused == {n \in Servers : addr[n] = None \/ \E r \in Servers \ {n} : addr[r] = addr[n]}

\* wait_for counts every name that is still under way, and nothing but names that are, or will
\* never come.
WaitsForPending ==
  /\ waitFor \in Int
  /\ Cardinality(Pending) <= waitFor
  /\ waitFor <= Cardinality(Pending \cup Excused)

\* _request_count covers the requests, and ends the receiving only behind them.
RequestsReceived ==
  /\ requestCount \in Int
  /\ alive /\ ~disturbed => requestCount >= Cardinality(requests)
  /\ alive /\ ~disturbed /\ requestCount > 0 => receiving \/ InReady("recv")
  /\ ~alive => ~receiving
  /\ ~alive /\ ~disturbed /\ requests # {} => InReady("recv")

\* The deadline comes once, and the client is not destroyed before it is over.
DeadlineOnce ==
  /\ deadline => ~InReady("deadline")
  /\ ~alive => ~deadline

\* What is sent or waits to be sent again is in the map, or its handler is behind it in the queue.
TimersCancelled ==
  ~raced =>
    /\ armed \subseteq requests
    /\ \A i \in DOMAIN ready :
         ready[i].kind \in {"sent", "timer"} =>
           \/ ready[i].name \in requests
           \/ \E j \in DOMAIN ready : /\ j > i /\ ready[j].kind = "handler"
                                      /\ ready[j].name = ready[i].name

\* How the block may have ended.
EndsForCause ==
  /\ FatalNeedsCause
  /\ stunOutcome = "undefined" => ~alive /\ (raced \/ waitFor # 0)

StunTypes ==
  /\ addr \in [Servers -> Addresses \cup {None}]
  /\ resolving \subseteq Servers /\ requests \subseteq Servers /\ armed \subseteq Servers
  /\ {receiving, alive, deadline, disturbed, raced} \subseteq BOOLEAN
  /\ ready \in Seq(ReadyOp)
  /\ \A i \in DOMAIN ready : ready[i].kind \in {"resolved", "sent", "timer"} => ready[i].name \in Servers

StunIInv ==
  /\ StunTypes /\ InOnePlace /\ (\A n \in resolving : addr[n] = None) /\ WaitsForPending
  /\ RequestsReceived /\ DeadlineOnce /\ TimersCancelled /\ EndsForCause
=============================================================================
