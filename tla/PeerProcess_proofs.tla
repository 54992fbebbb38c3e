-------------------------- MODULE PeerProcess_proofs --------------------------
(***************************************************************************)
(* Proofs about PeerProcess, for any number of launches and servers: what  *)
(* shutdown() on the game's thread may take from under the thread of       *)
(* NetEngine, what mapPort() leaves in the router, and how the STUN block  *)
(* of the constructor may end.                                             *)
(***************************************************************************)
EXTENDS PeerProcess, StunClient_proofs, SequenceTheorems, TLAPS

-----------------------------------------------------------------------------
(* The queue of NetEngine's io_service.                                     *)

\* What posting a task does to a queue.
LEMMA PostTask ==
  ASSUME NEW queue \in Seq(Tasks), NEW task \in Tasks
  PROVE  LET q == Append(queue, task)
         IN  /\ q \in Seq(Tasks)
             /\ \A t \in Tasks : In(q, t) <=> In(queue, t) \/ t = task
             /\ AtMostOneTimerIn(queue) /\ (task = "timer" => ~In(queue, "timer"))
                  => AtMostOneTimerIn(q)
<1> DEFINE q == Append(queue, task)
<1>1. /\ q \in Seq(Tasks) /\ Len(q) = Len(queue) + 1 /\ Len(queue) \in Nat
      /\ DOMAIN q = 1..Len(queue) + 1 /\ DOMAIN queue = 1..Len(queue)
  OBVIOUS
<1>2. /\ \A i \in DOMAIN queue : i \in DOMAIN q /\ q[i] = queue[i]
      /\ Len(queue) + 1 \in DOMAIN q /\ q[Len(queue) + 1] = task
  BY <1>1
<1>3. \A i \in DOMAIN q : i \in DOMAIN queue \/ i = Len(queue) + 1 BY <1>1
<1> HIDE DEF q
<1>4. \A t \in Tasks : In(q, t) <=> In(queue, t) \/ t = task BY <1>2, <1>3 DEF In
<1>5. AtMostOneTimerIn(queue) /\ (task = "timer" => ~In(queue, "timer")) => AtMostOneTimerIn(q)
  BY <1>2, <1>3 DEF AtMostOneTimerIn, In
<1> QED BY <1>1, <1>4, <1>5 DEF q

\* What posting sends does to a queue.
LEMMA PostSend ==
  ASSUME NEW queue \in Seq(Tasks)
  PROVE  /\ WithSend(queue) \in Seq(Tasks)
         /\ \A t \in Tasks : In(WithSend(queue), t) <=> In(queue, t) \/ t = "send"
         /\ AtMostOneTimerIn(queue) => AtMostOneTimerIn(WithSend(queue))
<1>1. CASE queue # <<>> /\ queue[Len(queue)] = "send"
  <2>1. Len(queue) \in DOMAIN queue BY <1>1
  <2>2. In(queue, "send") BY <1>1, <2>1 DEF In
  <2> QED BY <1>1, <2>2 DEF WithSend
<1>2. CASE ~(queue # <<>> /\ queue[Len(queue)] = "send")
  <2>1. WithSend(queue) = Append(queue, "send") BY <1>2 DEF WithSend
  <2>2. "send" \in Tasks BY DEF Tasks
  <2> QED BY <2>1, <2>2, PostTask
<1> QED BY <1>1, <1>2

\* What running the first task does to a queue.
LEMMA RunTask ==
  ASSUME NEW queue \in Seq(Tasks), queue # <<>>
  PROVE  LET q == Tail(queue)
         IN  /\ q \in Seq(Tasks) /\ Head(queue) \in Tasks
             /\ \A t \in Tasks : In(q, t) => In(queue, t)
             /\ \A t \in Tasks : In(queue, t) /\ t # Head(queue) => In(q, t)
             /\ In(queue, Head(queue))
             /\ AtMostOneTimerIn(queue) => AtMostOneTimerIn(q)
             /\ AtMostOneTimerIn(queue) /\ Head(queue) = "timer" => ~In(q, "timer")
<1> DEFINE q == Tail(queue)
<1>1. /\ q \in Seq(Tasks) /\ Len(q) = Len(queue) - 1 /\ Len(queue) \in Nat \ {0}
      /\ DOMAIN q = 1..Len(queue) - 1 /\ DOMAIN queue = 1..Len(queue)
      /\ Head(queue) = queue[1] /\ queue[1] \in Tasks
      /\ \A i \in 1..Len(queue) - 1 : q[i] = queue[i + 1]
  OBVIOUS
<1> HIDE DEF q
<1>2. \A i \in DOMAIN q : i + 1 \in DOMAIN queue /\ q[i] = queue[i + 1] /\ i + 1 # 1
  BY <1>1
<1>3. \A i \in DOMAIN queue : i # 1 => i - 1 \in DOMAIN q /\ q[i - 1] = queue[i]
  BY <1>1
<1>4. 1 \in DOMAIN queue BY <1>1
<1>5. \A t \in Tasks : In(q, t) => In(queue, t) BY <1>2 DEF In
<1>6. \A t \in Tasks : In(queue, t) /\ t # Head(queue) => In(q, t) BY <1>1, <1>3 DEF In
<1>7. In(queue, Head(queue)) BY <1>1, <1>4 DEF In
<1>8. ASSUME AtMostOneTimerIn(queue) PROVE AtMostOneTimerIn(q)
  <2> SUFFICES ASSUME NEW i \in DOMAIN q, NEW j \in DOMAIN q, q[i] = "timer", q[j] = "timer"
               PROVE  i = j
    BY DEF AtMostOneTimerIn
  <2>1. i + 1 = j + 1 BY <1>2, <1>8 DEF AtMostOneTimerIn
  <2> QED BY <1>1, <2>1
<1>9. AtMostOneTimerIn(queue) /\ Head(queue) = "timer" => ~In(q, "timer")
  BY <1>1, <1>2, <1>4 DEF AtMostOneTimerIn, In
<1> QED BY <1>1, <1>5, <1>6, <1>7, <1>8, <1>9 DEF q

\* Running a task that may send brings no task but a send into the queue.
LEMMA RunAndSend ==
  ASSUME NEW queue \in Seq(Tasks), queue # <<>>, AtMostOneTimerIn(queue),
         NEW q \in {Tail(queue), WithSend(Tail(queue))}
  PROVE  /\ q \in Seq(Tasks) /\ AtMostOneTimerIn(q)
         /\ \A t \in Tasks : In(q, t) => In(queue, t) \/ t = "send"
         /\ \A t \in Tasks : In(queue, t) /\ t # Head(queue) => In(q, t)
         /\ Head(queue) = "timer" => ~In(q, "timer")
<1> DEFINE r == Tail(queue)
<1>1. /\ r \in Seq(Tasks) /\ AtMostOneTimerIn(r)
      /\ \A t \in Tasks : In(r, t) => In(queue, t)
      /\ \A t \in Tasks : In(queue, t) /\ t # Head(queue) => In(r, t)
      /\ Head(queue) = "timer" => ~In(r, "timer")
  BY RunTask
<1>2. q = r \/ q = WithSend(r) OBVIOUS
<1> HIDE DEF r
<1>3. /\ WithSend(r) \in Seq(Tasks) /\ AtMostOneTimerIn(WithSend(r))
      /\ \A t \in Tasks : In(WithSend(r), t) <=> In(r, t) \/ t = "send"
  BY <1>1, PostSend
<1>4. "timer" \in Tasks /\ "timer" # "send" BY DEF Tasks
<1> QED BY <1>1, <1>2, <1>3, <1>4

-----------------------------------------------------------------------------
(* The invariant.                                                           *)

\* Before the process runs, nothing is posted.
LEMMA InitHolds == Init => NetIInv
BY DEF Init, NetInit, NetIInv, OneTimer, AtMostOneTimer, AtMostOneTimerIn, SocketClosing,
   FreedInTime, UseAfterFreeWasQueued, InPosted, In, NotStarted, Freed

\* The constructor, and what leaves NetEngine's thread alone.
LEMMA ConstructorKeeps ==
  ASSUME NetIInv,
         \/ Launch \/ DiscoverDies \/ StunBlock \/ BeginMapPort \/ MapOneStep \/ RouterChanges
         \/ Construct \/ Start \/ GameBecomesReady \/ Join \/ UNCHANGED vars
  PROVE  NetIInv'
<1> USE DEF NetIInv, OneTimer, AtMostOneTimer, SocketClosing, FreedInTime,
            UseAfterFreeWasQueued, InPosted, NotStarted, Freed
<1>1. CASE Launch BY <1>1 DEF Launch, netVars
<1>2. CASE DiscoverDies \/ StunBlock \/ MapOneStep \/ RouterChanges \/ GameBecomesReady
  BY <1>2 DEF DiscoverDies, StunBlock, MapOneStep, RouterChanges, GameBecomesReady, netVars
<1>3. CASE BeginMapPort BY <1>3 DEF BeginMapPort, netVars
<1>4. CASE Construct BY <1>4 DEF Construct
<1>5. CASE Start BY <1>5 DEF Start
<1>6. CASE Join BY <1>6 DEF Join, netVars
<1>7. CASE UNCHANGED vars BY <1>7 DEF vars, netVars
<1> QED BY <1>1, <1>2, <1>3, <1>4, <1>5, <1>6, <1>7

\* A packet or the timer becomes ready.
LEMMA ReadyKeeps == ASSUME NetIInv, PacketReady \/ TimerReady PROVE NetIInv'
<1>0. /\ posted \in Seq(Tasks) /\ OneTimer /\ AtMostOneTimerIn(posted)
      /\ SocketClosing /\ FreedInTime /\ UseAfterFreeWasQueued
  BY DEF NetIInv, OneTimer, AtMostOneTimer
<1>1. CASE PacketReady
  <2>1. /\ posted' \in Seq(Tasks)
        /\ \A t \in Tasks : InPosted(t)' <=> InPosted(t) \/ t = "receive"
        /\ AtMostOneTimer'
    BY <1>0, <1>1, PostTask DEF PacketReady, Tasks, InPosted, AtMostOneTimer
  <2>2. ~serverFreed \/ freedEarly BY <1>0, <1>1 DEF FreedInTime, PacketReady
  <2>3. (InPosted("timer")' <=> InPosted("timer")) /\ (InPosted("close")' <=> InPosted("close"))
    BY <2>1 DEF Tasks
  <2>4. SocketClosing' BY <1>0, <1>1, <2>3 DEF PacketReady, SocketClosing
  <2>5. FreedInTime' BY <1>1, <2>2 DEF PacketReady, FreedInTime
  <2>6. OneTimer' BY <1>0, <1>1, <2>1, <2>3 DEF PacketReady, OneTimer, NotStarted
  <2> QED BY <1>0, <1>1, <2>1, <2>4, <2>5, <2>6 DEF NetIInv, PacketReady, UseAfterFreeWasQueued
<1>2. CASE TimerReady
  <2>1. /\ posted' \in Seq(Tasks)
        /\ \A t \in Tasks : InPosted(t)' <=> InPosted(t) \/ t = "timer"
        /\ AtMostOneTimer'
    BY <1>0, <1>2, PostTask DEF TimerReady, Tasks, OneTimer, InPosted, AtMostOneTimer
  <2>2. \A t \in UsesServer : InPosted(t)' <=> InPosted(t)
    BY <2>1 DEF Tasks, UsesServer
  <2>3. SocketClosing' BY <1>0, <1>2, <2>2 DEF TimerReady, SocketClosing, UsesServer
  <2>4. FreedInTime' BY <1>0, <1>2, <2>2 DEF TimerReady, FreedInTime
  <2>5. timerFor # "nobody" /\ ~updateFinished BY <1>0, <1>2 DEF TimerReady, OneTimer
  <2>6. OneTimer' BY <1>0, <1>2, <2>1, <2>5 DEF TimerReady, OneTimer, NotStarted
  <2> QED BY <1>0, <1>2, <2>1, <2>3, <2>4, <2>6 DEF NetIInv, TimerReady, UseAfterFreeWasQueued
<1> QED BY <1>1, <1>2

\* The first task in the queue uses the freed RpcServer: it was there when that was freed.
LEMMA UndefinedKeeps ==
  ASSUME NetIInv, posted # <<>>, Head(posted) \in UsesServer, serverFreed, stage' = "undefined",
         UNCHANGED netVars
  PROVE  NetIInv'
<1>0. /\ posted \in Seq(Tasks) /\ OneTimer /\ SocketClosing /\ FreedInTime
  BY DEF NetIInv
<1>1. InPosted(Head(posted)) BY <1>0, RunTask DEF InPosted
<1>2. freedEarly BY <1>0, <1>1 DEF FreedInTime
<1>3. stage \in Freed /\ stage' \in Freed /\ stage' \notin NotStarted
  BY <1>0 DEF SocketClosing, Freed, NotStarted
<1>4. updateFinished /\ timerFor # "nobody" BY <1>0, <1>3 DEF OneTimer
<1>5. OneTimer' BY <1>0, <1>3, <1>4 DEF OneTimer, AtMostOneTimer, InPosted, netVars
<1>6. SocketClosing' BY <1>0, <1>3 DEF SocketClosing, InPosted, netVars
<1>7. FreedInTime' /\ UseAfterFreeWasQueued' BY <1>2 DEF FreedInTime, UseAfterFreeWasQueued, netVars
<1> QED BY <1>0, <1>5, <1>6, <1>7 DEF NetIInv, netVars

\* As long as the RpcServer lives, what receives and sends leaves the rest of the queue alone.
LEMMA SendingKeeps ==
  ASSUME NetIInv, ~serverFreed, posted' \in Seq(Tasks), AtMostOneTimerIn(posted'),
         \A t \in {"timer", "close"} : InPosted(t)' <=> InPosted(t),
         netReceiving' => netReceiving \/ socketOpen,
         stage' \in {stage, "announced"}, stage' # stage => stage = "flushing",
         UNCHANGED <<socketOpen, timerFor, timerWaiting, updateFinished, serverFreed, freedEarly>>
  PROVE  NetIInv'
<1>0. /\ posted \in Seq(Tasks) /\ OneTimer /\ SocketClosing /\ FreedInTime /\ UseAfterFreeWasQueued
  BY DEF NetIInv
<1>1. stage' \in NotStarted <=> stage \in NotStarted BY DEF NotStarted
<1>2. stage' \in Freed <=> stage \in Freed BY DEF Freed
<1>3. stage' = "closing" <=> stage = "closing" OBVIOUS
<1>4. OneTimer' BY <1>0, <1>1, <1>2, <1>3 DEF OneTimer, AtMostOneTimer
<1>5. SocketClosing' BY <1>0, <1>2, <1>3 DEF SocketClosing
<1>6. FreedInTime' /\ UseAfterFreeWasQueued'
  BY <1>0 DEF FreedInTime, UseAfterFreeWasQueued
<1> QED BY <1>4, <1>5, <1>6 DEF NetIInv

\* A packet, or the error of a receive, is handled.
LEMMA HandleReceiveKeeps == ASSUME NetIInv, HandleReceive \/ HandleReceiveError PROVE NetIInv'
<1>0. /\ posted \in Seq(Tasks) /\ AtMostOneTimerIn(posted)
      /\ posted # <<>> /\ Head(posted) \in {"receive", "receiveError"}
  BY DEF NetIInv, OneTimer, AtMostOneTimer, HandleReceive, HandleReceiveError, NetRuns
<1> DEFINE queues == {Tail(posted), WithSend(Tail(posted))}
<1>1. ASSUME NEW q \in queues
      PROVE  /\ q \in Seq(Tasks) /\ AtMostOneTimerIn(q)
             /\ \A t \in {"timer", "close"} : In(q, t) <=> In(posted, t)
  <2>1. /\ q \in Seq(Tasks) /\ AtMostOneTimerIn(q)
        /\ \A t \in Tasks : In(q, t) => In(posted, t) \/ t = "send"
        /\ \A t \in Tasks : In(posted, t) /\ t # Head(posted) => In(q, t)
    BY <1>0, RunAndSend
  <2>2. \A t \in {"timer", "close"} : t \in Tasks /\ t # "send" /\ t # Head(posted)
    BY <1>0 DEF Tasks
  <2> QED BY <2>1, <2>2
<1>2. ASSUME NEW q \in queues
      PROVE  /\ Append(q, "receiveError") \in Seq(Tasks)
             /\ AtMostOneTimerIn(Append(q, "receiveError"))
             /\ \A t \in {"timer", "close"} : In(Append(q, "receiveError"), t) <=> In(posted, t)
  <2>1. q \in Seq(Tasks) /\ AtMostOneTimerIn(q) BY <1>1
  <2>2. "receiveError" \in Tasks /\ "receiveError" # "timer" BY DEF Tasks
  <2>3. /\ Append(q, "receiveError") \in Seq(Tasks)
        /\ \A t \in Tasks : In(Append(q, "receiveError"), t) <=> In(q, t) \/ t = "receiveError"
        /\ AtMostOneTimerIn(Append(q, "receiveError"))
    BY <2>1, <2>2, PostTask
  <2>4. \A t \in {"timer", "close"} : t \in Tasks /\ t # "receiveError" BY DEF Tasks
  <2> QED BY <1>1, <2>3, <2>4
<1> DEFINE Kept(q) == /\ q \in Seq(Tasks) /\ AtMostOneTimerIn(q)
                      /\ \A t \in {"timer", "close"} : In(q, t) <=> In(posted, t)
<1>3. CASE serverFreed
  <2>1. /\ Head(posted) \in UsesServer /\ stage' = "undefined" /\ UNCHANGED netVars
    BY <1>0, <1>3 DEF HandleReceive, HandleReceiveError, UsesServer, netVars
  <2> QED BY <1>0, <1>3, <2>1, UndefinedKeeps
<1>4. CASE ~serverFreed
  <2>0. \A q \in AfterSends(Tail(posted)) : q \in queues BY DEF AfterSends
  <2>1. Kept(posted')
    <3>1. CASE HandleReceiveError
      <4>1. posted' = Append(Tail(posted), "receiveError") BY <1>4, <3>1 DEF HandleReceiveError
      <4> QED BY <1>2, <4>1
    <3>2. CASE HandleReceive
      <4>1. CASE socketOpen
        <5>1. posted' \in queues BY <1>4, <2>0, <3>2, <4>1 DEF HandleReceive
        <5> HIDE DEF queues
        <5> QED BY <1>1, <5>1
      <4>2. CASE ~socketOpen
        <5>1. PICK q \in queues : posted' = Append(q, "receiveError")
          BY <1>4, <2>0, <3>2, <4>2 DEF HandleReceive
        <5> HIDE DEF queues
        <5> QED BY <1>2, <5>1
      <4> QED BY <4>1, <4>2
    <3> QED BY <3>1, <3>2
  <2>2. /\ netReceiving' => netReceiving \/ socketOpen
        /\ UNCHANGED <<stage, socketOpen, timerFor, timerWaiting, updateFinished, serverFreed,
                       freedEarly>>
    BY <1>4 DEF HandleReceive, HandleReceiveError
  <2>3. \A t \in {"timer", "close"} : InPosted(t)' <=> InPosted(t) BY <2>1 DEF InPosted
  <2> QED BY <1>4, <2>1, <2>2, <2>3, SendingKeeps
<1> QED BY <1>3, <1>4

\* A task that runs on NetEngine's thread.
LEMMA NetThreadKeeps == ASSUME NetIInv, NetThread PROVE NetIInv'
<1>0. /\ posted \in Seq(Tasks) /\ OneTimer /\ AtMostOneTimerIn(posted)
      /\ SocketClosing /\ FreedInTime /\ UseAfterFreeWasQueued
  BY DEF NetIInv, OneTimer, AtMostOneTimer
<1>2. ASSUME NetRuns("timer"), posted' \in {Tail(posted), WithSend(Tail(posted))},
             UNCHANGED <<stage, netReceiving, socketOpen, serverFreed, freedEarly>>,
             timerFor # "nobody", timerFor' # "nobody", updateFinished' => ~timerWaiting'
      PROVE  NetIInv'
  <2>0. posted # <<>> /\ Head(posted) = "timer" BY <1>2 DEF NetRuns
  <2>1. /\ posted' \in Seq(Tasks) /\ AtMostOneTimerIn(posted') /\ ~In(posted', "timer")
        /\ \A t \in Tasks : In(posted', t) => In(posted, t) \/ t = "send"
        /\ \A t \in Tasks : In(posted, t) /\ t # "timer" => In(posted', t)
    BY <1>0, <1>2, <2>0, RunAndSend
  <2>2. InPosted("timer") BY <1>0, <2>0, RunTask DEF InPosted
  <2>3. ~updateFinished /\ stage # "closing" /\ stage \notin Freed BY <1>0, <2>2 DEF OneTimer
  <2>4. ~serverFreed BY <1>0, <2>3 DEF SocketClosing
  <2>5. InPosted("close")' <=> InPosted("close") BY <2>1 DEF Tasks, InPosted
  <2>6. OneTimer' BY <1>0, <1>2, <2>1, <2>3 DEF OneTimer, InPosted, AtMostOneTimer
  <2>7. SocketClosing' BY <1>0, <1>2, <2>5 DEF SocketClosing
  <2>8. FreedInTime' /\ UseAfterFreeWasQueued'
    BY <1>0, <1>2, <2>4 DEF FreedInTime, UseAfterFreeWasQueued
  <2> QED BY <2>1, <2>6, <2>7, <2>8 DEF NetIInv
<1>3. CASE CheckForEndpoints
  <2>1. InPosted("timer") /\ ~updateFinished
    <3>1. InPosted("timer") BY <1>0, <1>3, RunTask DEF CheckForEndpoints, NetRuns, InPosted
    <3> QED BY <1>0, <3>1 DEF OneTimer
  <2>2. updateFinished' => ~timerWaiting' BY <1>3, <2>1 DEF CheckForEndpoints
  <2>3. timerFor' # "nobody" BY <1>3 DEF CheckForEndpoints
  <2> QED BY <1>2, <1>3, <2>2, <2>3 DEF CheckForEndpoints
<1>4. CASE Update
  <2>1. posted' \in {Tail(posted), WithSend(Tail(posted))} BY <1>4 DEF Update, AfterSends
  <2> QED BY <1>2, <1>4, <2>1 DEF Update
<1>5. CASE (RunClose \/ RunSend) /\ posted' = posted
  <2>1. /\ posted # <<>> /\ Head(posted) \in UsesServer
    BY <1>5 DEF RunClose, RunSend, NetRuns, UsesServer
  <2>2. posted # Tail(posted)
    <3>1. Len(Tail(posted)) = Len(posted) - 1 /\ Len(posted) \in Nat BY <1>0, <2>1
    <3> QED BY <3>1
  <2>3. serverFreed /\ stage' = "undefined" /\ UNCHANGED netVars
    BY <1>5, <2>2 DEF RunClose, RunSend, netVars
  <2> QED BY <2>1, <2>3, UndefinedKeeps
<1>6. ASSUME posted # <<>>, Head(posted) # "timer", posted' = Tail(posted),
             UNCHANGED <<stage, timerFor, updateFinished, serverFreed, freedEarly>>,
             timerWaiting' => timerWaiting,
             \/ Head(posted) # "close" /\ UNCHANGED <<socketOpen, netReceiving>>
             \/ ~socketOpen' /\ ~netReceiving'
      PROVE  NetIInv'
  <2>1. /\ posted' \in Seq(Tasks) /\ AtMostOneTimerIn(posted')
        /\ \A t \in Tasks : InPosted(t)' => InPosted(t)
        /\ \A t \in Tasks : InPosted(t) /\ t # Head(posted) => InPosted(t)'
    BY <1>0, <1>6, RunTask DEF InPosted
  <2>2. /\ InPosted("timer")' => InPosted("timer")
        /\ \A t \in UsesServer : InPosted(t)' => InPosted(t)
        /\ Head(posted) # "close" /\ InPosted("close") => InPosted("close")'
    BY <2>1 DEF Tasks, UsesServer
  <2>3. OneTimer' BY <1>0, <1>6, <2>1, <2>2 DEF OneTimer, AtMostOneTimer
  <2>4. SocketClosing' BY <1>0, <1>6, <2>2 DEF SocketClosing
  <2>5. FreedInTime' BY <1>0, <1>6, <2>2 DEF FreedInTime
  <2> QED BY <1>0, <1>6, <2>1, <2>3, <2>4, <2>5 DEF NetIInv, UseAfterFreeWasQueued
<1>7. CASE (RunClose \/ RunSend \/ RunResets \/ RunClearWork) /\ posted' = Tail(posted)
  <2>1. posted # <<>> BY <1>7 DEF RunClose, RunSend, RunResets, RunClearWork, NetRuns
  <2>2. posted' # posted
    <3>1. Len(Tail(posted)) = Len(posted) - 1 /\ Len(posted) \in Nat BY <1>0, <2>1
    <3> QED BY <1>7, <3>1
  <2> QED BY <1>6, <1>7, <2>1, <2>2 DEF RunClose, RunSend, RunResets, RunClearWork, NetRuns
<1> QED BY <1>3, <1>4, <1>5, <1>7, HandleReceiveKeeps
        DEF NetThread, RunClose, RunSend, RunResets, RunClearWork

\* A step of the game's thread, and the end of the process.
LEMMA GameThreadKeeps == ASSUME NetIInv, Broadcast \/ CallShutdown \/ GameThread \/ Gone PROVE NetIInv'
<1>0. /\ posted \in Seq(Tasks) /\ OneTimer /\ AtMostOneTimerIn(posted)
      /\ SocketClosing /\ FreedInTime /\ UseAfterFreeWasQueued
  BY DEF NetIInv, OneTimer, AtMostOneTimer
<1>1. CASE CallShutdown \/ SetShuttingDown
  BY <1>0, <1>1 DEF CallShutdown, SetShuttingDown, NetIInv, OneTimer, AtMostOneTimer,
     SocketClosing, FreedInTime, UseAfterFreeWasQueued, InPosted, NotStarted, Freed
<1>8. CASE Broadcast \/ Announce
  <2>0. posted' \in {posted, WithSend(posted)} BY <1>8 DEF Broadcast, Announce, AfterSends
  <2>1. /\ posted' \in Seq(Tasks) /\ AtMostOneTimerIn(posted')
        /\ \A t \in Tasks : t # "send" => (In(posted', t) <=> In(posted, t))
    BY <1>0, <2>0, PostSend
  <2>2. \A t \in {"timer", "close"} : InPosted(t)' <=> InPosted(t) BY <2>1 DEF Tasks, InPosted
  <2>3. ~serverFreed BY <1>0, <1>8 DEF Broadcast, Announce, SocketClosing, Freed
  <2>4. /\ netReceiving' => netReceiving \/ socketOpen
        /\ stage' \in {stage, "announced"} /\ (stage' # stage => stage = "flushing")
        /\ UNCHANGED <<socketOpen, timerFor, timerWaiting, updateFinished, serverFreed, freedEarly>>
    BY <1>8 DEF Broadcast, Announce
  <2> QED BY <2>1, <2>2, <2>3, <2>4, SendingKeeps
<1>2. CASE CloseSocket
  <2>1. /\ posted' \in Seq(Tasks) /\ AtMostOneTimerIn(posted')
        /\ \A t \in Tasks : InPosted(t)' <=> InPosted(t) \/ t = "close"
    BY <1>0, <1>2, PostTask DEF CloseSocket, Tasks, InPosted
  <2>2. InPosted("close")' /\ (InPosted("timer")' <=> InPosted("timer")) BY <2>1 DEF Tasks
  <2>3. OneTimer' BY <1>0, <1>2, <2>1, <2>2 DEF CloseSocket, OneTimer, AtMostOneTimer, NotStarted
  <2>4. ~serverFreed BY <1>0, <1>2 DEF CloseSocket, SocketClosing, Freed
  <2>5. SocketClosing' /\ FreedInTime' /\ UseAfterFreeWasQueued'
    BY <1>0, <1>2, <2>2, <2>4 DEF CloseSocket, SocketClosing, FreedInTime, UseAfterFreeWasQueued, Freed
  <2> QED BY <2>1, <2>3, <2>5 DEF NetIInv
<1>3. CASE FreeServer
  <2>1. freedEarly' <=> \E t \in UsesServer : InPosted(t) BY <1>3 DEF FreeServer, InPosted, In
  <2>2. ~InPosted("close") => ~netReceiving BY <1>0, <1>3 DEF FreeServer, SocketClosing
  <2>3. \A t \in UsesServer : InPosted(t)' <=> InPosted(t) BY <1>3 DEF FreeServer, InPosted
  <2>4. OneTimer' BY <1>0, <1>3 DEF FreeServer, OneTimer, AtMostOneTimer, InPosted, NotStarted, Freed
  <2>5. SocketClosing' BY <1>0, <1>3 DEF FreeServer, SocketClosing, Freed
  <2>6. "close" \in UsesServer BY DEF UsesServer
  <2>7. FreedInTime' BY <1>3, <2>1, <2>2, <2>3, <2>6 DEF FreeServer, FreedInTime
  <2> QED BY <1>0, <1>3, <2>4, <2>5, <2>7 DEF NetIInv, FreeServer, UseAfterFreeWasQueued
<1>4. ASSUME NEW task \in {"reset", "clearWork"}, posted' = Append(posted, task),
             stage \in Freed \ {"undefined"}, stage' \in Freed \ {"undefined"},
             UNCHANGED <<netReceiving, socketOpen, timerFor, timerWaiting, updateFinished,
                         serverFreed, freedEarly>>
      PROVE  NetIInv'
  <2>0. task \in Tasks /\ task # "timer" BY <1>4 DEF Tasks
  <2>1. /\ posted' \in Seq(Tasks) /\ AtMostOneTimerIn(posted')
        /\ \A t \in Tasks : InPosted(t)' <=> InPosted(t) \/ t = task
    BY <1>0, <1>4, <2>0, PostTask DEF InPosted
  <2>2. /\ InPosted("timer")' <=> InPosted("timer")
        /\ \A t \in UsesServer : InPosted(t)' <=> InPosted(t)
    BY <1>4, <2>1 DEF Tasks, UsesServer
  <2>3. OneTimer' BY <1>0, <1>4, <2>1, <2>2 DEF OneTimer, AtMostOneTimer, NotStarted, Freed
  <2>4. SocketClosing' BY <1>0, <1>4, <2>2 DEF SocketClosing, Freed, UsesServer
  <2>5. FreedInTime' /\ UseAfterFreeWasQueued'
    BY <1>0, <1>4, <2>2 DEF FreedInTime, UseAfterFreeWasQueued
  <2> QED BY <2>1, <2>3, <2>4, <2>5 DEF NetIInv
<1>5. CASE PostResets \/ StopEngine BY <1>4, <1>5 DEF PostResets, StopEngine, Freed
<1>6. CASE Join BY <1>6, ConstructorKeeps
<1>7. CASE Gone
  BY <1>7 DEF Gone, NetReset, NetIInv, OneTimer, AtMostOneTimer, AtMostOneTimerIn, SocketClosing,
     FreedInTime, UseAfterFreeWasQueued, InPosted, In, NotStarted, Freed
<1> QED BY <1>1, <1>2, <1>3, <1>5, <1>6, <1>7, <1>8 DEF GameThread

\* The invariant of the two threads holds in every behaviour.
THEOREM NetInvariance == Spec => []NetIInv
<1>1. NetIInv /\ [Next]_vars => NetIInv'
  BY ConstructorKeeps, ReadyKeeps, NetThreadKeeps, GameThreadKeeps DEF Next
<1> QED BY <1>1, InitHolds, PTL DEF Spec

-----------------------------------------------------------------------------
(* The results.                                                             *)

\* However the two threads interleave, NetEngine's thread uses the freed RpcServer or one of its
\* handlers only if the close, a receive or a send was still in its queue when they were freed.
THEOREM UseAfterFreeIsQueued == Spec => []UseAfterFreeWasQueued
BY NetInvariance, PTL DEF NetIInv

\* However the two threads interleave, no timer calls update() or checkForEndpoints() after
\* shutdown() has seen updateFinished.
THEOREM UpdatesAreFinished == Spec => []UpdatesStayFinished
<1>1. NetIInv => UpdatesStayFinished BY DEF NetIInv, OneTimer, UpdatesStayFinished, InPosted, In
<1> QED BY <1>1, NetInvariance, PTL

-----------------------------------------------------------------------------
(* The router's table.                                                      *)

\* Removing an entry takes that entry from the table, and no other.
LEMMA EntryRemoved ==
  ASSUME table \in Seq(Entry), OneEntryEach, NEW n \in DOMAIN table, RemoveEntry(n)
  PROVE  /\ table' \in Seq(Entry) /\ OneEntryEach'
         /\ Entries' = Entries \ {table[n]}
<1> DEFINE len == Len(table)
           old(i) == IF i < n THEN i ELSE i + 1
<1>1. len \in Nat /\ n \in 1..len /\ DOMAIN table = 1..len OBVIOUS
<1> DEFINE front == SubSeq(table, 1, n - 1)
           back == SubSeq(table, n + 1, len)
<1>2. /\ front \in Seq(Entry) /\ Len(front) = n - 1
      /\ \A i \in 1..n - 1 : front[i] = table[i]
  <2>1. /\ front \in Seq(Entry) /\ Len(front) = IF 1 <= n - 1 THEN (n - 1) - 1 + 1 ELSE 0
        /\ \A i \in 1..(n - 1) - 1 + 1 : front[i] = table[1 + i - 1]
    BY <1>1, SubSeqProperties
  <2> QED BY <1>1, <2>1
<1>3. /\ back \in Seq(Entry) /\ Len(back) = len - n
      /\ \A i \in 1..len - n : back[i] = table[n + i]
  <2>1. /\ back \in Seq(Entry) /\ Len(back) = IF n + 1 <= len THEN len - (n + 1) + 1 ELSE 0
        /\ \A i \in 1..len - (n + 1) + 1 : back[i] = table[(n + 1) + i - 1]
    BY <1>1, SubSeqProperties
  <2> QED BY <1>1, <2>1
<1>a. /\ table' \in Seq(Entry) /\ Len(table') = len - 1 /\ DOMAIN table' = 1..len - 1
      /\ \A i \in 1..len - 1 : table'[i] = table[old(i)]
  <2>1. table' = front \o back BY DEF RemoveEntry
  <2> HIDE DEF front, back
  <2>0. /\ table' \in Seq(Entry) /\ Len(table') = Len(front) + Len(back)
        /\ \A i \in 1..Len(front) + Len(back) :
             table'[i] = IF i <= Len(front) THEN front[i] ELSE back[i - Len(front)]
    BY <1>2, <1>3, <2>1, ConcatProperties
  <2>3. Len(front) + Len(back) = len - 1 BY <1>1, <1>2, <1>3
  <2>2. /\ table' \in Seq(Entry) /\ Len(table') = len - 1
        /\ \A i \in 1..len - 1 :
             table'[i] = IF i <= n - 1 THEN front[i] ELSE back[i - (n - 1)]
    BY <1>2, <2>0, <2>3
  <2>4. ASSUME NEW i \in 1..len - 1 PROVE table'[i] = table[old(i)]
    <3>1. CASE i < n BY <1>1, <1>2, <2>2, <3>1
    <3>2. CASE i >= n
      <4>1. i - (n - 1) \in 1..len - n /\ n + (i - (n - 1)) = i + 1 /\ old(i) = i + 1
        BY <1>1, <3>2
      <4>2. table'[i] = back[i - (n - 1)] BY <1>1, <2>2, <3>2
      <4>3. back[i - (n - 1)] = table[i + 1] BY <1>3, <4>1
      <4> QED BY <4>1, <4>2, <4>3
    <3> QED BY <1>1, <3>1, <3>2
  <2>5. DOMAIN table' = 1..len - 1
    <3>1. table' \in Seq(Entry) /\ Len(table') = len - 1 BY <2>2
    <3> HIDE DEF len
    <3> QED BY <3>1
  <2>6. table' \in Seq(Entry) /\ Len(table') = len - 1 BY <2>2
  <2> HIDE DEF old, len
  <2> QED BY <2>4, <2>5, <2>6, Zenon
<1>4. \A i \in 1..len - 1 : old(i) \in 1..len /\ old(i) # n BY <1>1
<1>5. \A i, j \in 1..len - 1 : old(i) = old(j) => i = j BY <1>1
<1>6. \A k \in 1..len : k # n => \E i \in 1..len - 1 : old(i) = k
  <2> SUFFICES ASSUME NEW k \in 1..len, k # n PROVE \E i \in 1..len - 1 : old(i) = k OBVIOUS
  <2>1. CASE k < n BY <1>1, <2>1
  <2>2. CASE k > n
    <3>1. k - 1 \in 1..len - 1 /\ old(k - 1) = k BY <1>1, <2>2
    <3> QED BY <3>1
  <2> QED BY <1>1, <2>1, <2>2
<1> HIDE DEF len, old, front, back
<1>7. \A k \in 1..len : table[k] = table[n] => k = n BY <1>1 DEF OneEntryEach
<1>8. OneEntryEach'
  <2> SUFFICES ASSUME NEW i \in 1..len - 1, NEW j \in 1..len - 1,
                      table'[i].ext = table'[j].ext, table'[i].proto = table'[j].proto
               PROVE  i = j
    BY <1>a DEF OneEntryEach
  <2>1. old(i) = old(j)
    <3>1. old(i) \in DOMAIN table /\ old(j) \in DOMAIN table BY <1>1, <1>4
    <3>2. table'[i] = table[old(i)] /\ table'[j] = table[old(j)] BY <1>a
    <3> QED BY <3>1, <3>2 DEF OneEntryEach
  <2> QED BY <1>5, <2>1
<1>9. ASSUME NEW e \in Entries' PROVE e \in Entries \ {table[n]}
  <2>1. PICK i \in 1..len - 1 : e = table'[i] BY <1>a, <1>9 DEF Entries
  <2>2. e = table[old(i)] /\ old(i) \in 1..len /\ old(i) # n BY <1>a, <1>4, <2>1
  <2> QED BY <1>1, <1>7, <2>2 DEF Entries
<1>10. ASSUME NEW e \in Entries \ {table[n]} PROVE e \in Entries'
  <2>1. PICK k \in 1..len : e = table[k] BY <1>1 DEF Entries
  <2>2. PICK i \in 1..len - 1 : old(i) = k BY <1>6, <1>10, <2>1
  <2>3. e = table'[i] /\ i \in DOMAIN table' BY <1>a, <2>1, <2>2
  <2> QED BY <2>3 DEF Entries
<1> QED BY <1>a, <1>8, <1>9, <1>10

\* A mapping for a port that is not taken yet is added to the table.
LEMMA EntryAppended ==
  ASSUME table \in Seq(Entry), OneEntryEach, NEW e \in Entry, Taken(e.ext, e.proto) = {},
         table' = Append(table, e)
  PROVE  /\ table' \in Seq(Entry) /\ OneEntryEach'
         /\ Entries' = Entries \cup {e}
<1> DEFINE len == Len(table)
<1>1. len \in Nat /\ DOMAIN table = 1..len OBVIOUS
<1>2. /\ table' \in Seq(Entry) /\ DOMAIN table' = 1..len + 1 /\ table'[len + 1] = e
      /\ \A i \in 1..len : table'[i] = table[i]
  BY <1>1
<1> HIDE DEF len
<1>3. \A i \in 1..len : ~(table[i].ext = e.ext /\ table[i].proto = e.proto)
  BY <1>1 DEF Taken, Entries
<1>4. \A i \in 1..len + 1 : i = len + 1 \/ i \in 1..len BY <1>1
<1>5. OneEntryEach' BY <1>1, <1>2, <1>3, <1>4 DEF OneEntryEach
<1>6. ASSUME NEW x \in Entries' PROVE x \in Entries \cup {e}
  BY <1>1, <1>2, <1>4, <1>6 DEF Entries
<1>7. ASSUME NEW x \in Entries \cup {e} PROVE x \in Entries'
  <2>1. CASE x = e
    <3>1. len + 1 \in DOMAIN table' /\ x = table'[len + 1] BY <1>1, <1>2, <2>1
    <3> QED BY <3>1 DEF Entries
  <2>2. CASE x \in Entries
    <3>1. PICK i \in 1..len : x = table[i] BY <1>1, <2>2 DEF Entries
    <3>2. i \in DOMAIN table' /\ x = table'[i] BY <1>1, <1>2, <3>1
    <3> QED BY <3>2 DEF Entries
  <2> QED BY <2>1, <2>2
<1> QED BY <1>2, <1>5, <1>6, <1>7

\* Where a mapping comes from or goes to is told by its protocol and external port.
LEMMA EntryFields ==
  /\ \A ext, client, port : \A proto :
       LET e == Mapped(ext, proto, client, port)
       IN  e.ext = ext /\ e.proto = proto /\ e.client = client /\ e.port = port
  /\ \A proto \in Proto : Wanted(proto) \in Entry
  /\ \A proto \in Proto : Mapped(Port, proto, Other, Port) \in Entry
  /\ Mapped(Elsewhere, "UDP", Me, Port) \in Entry
BY DEF Mapped, Wanted, Entry, Proto

\* A call that adds a mapping leaves the router with it, and with everything of the other protocol.
LEMMA EntryAdded ==
  ASSUME table \in Seq(Entry), OneEntryEach, NEW proto \in Proto, AddEntry(proto)
  PROVE  /\ table' \in Seq(Entry) /\ OneEntryEach'
         /\ Wanted(proto) \in Entries'
         /\ \A e \in Entries : e.proto # proto => e \in Entries'
<1>0. /\ Wanted(proto) \in Entry /\ Wanted(proto).ext = Port /\ Wanted(proto).proto = proto
  BY EntryFields DEF Wanted
<1>1. CASE Taken(Port, proto) = {}
  <2>1. table' = Append(table, Wanted(proto)) BY <1>1 DEF AddEntry
  <2> HIDE DEF Wanted
  <2>2. /\ table' \in Seq(Entry) /\ OneEntryEach' /\ Entries' = Entries \cup {Wanted(proto)}
    BY <1>0, <1>1, <2>1, EntryAppended
  <2> QED BY <2>2
<1>2. CASE Taken(Port, proto) # {}
  <2> DEFINE len == Len(table)
             mine(i) == table[i].ext = Port /\ table[i].proto = proto
  <2>1. len \in Nat /\ DOMAIN table = 1..len OBVIOUS
  <2>2. \A i \in 1..len : table[i] \in Taken(Port, proto) <=> mine(i)
    BY <2>1, SMTT(30) DEF Taken, Entries
  <2>3. /\ table' = [i \in 1..len |-> IF mine(i) THEN Wanted(proto) ELSE table[i]]
    BY <1>2, <2>1, <2>2 DEF AddEntry
  <2>4. /\ table' \in Seq(Entry) /\ DOMAIN table' = 1..len
        /\ \A i \in 1..len : table'[i] = IF mine(i) THEN Wanted(proto) ELSE table[i]
    BY <1>0, <2>1, <2>3
  <2>5. \A i \in 1..len : table'[i].ext = table[i].ext /\ table'[i].proto = table[i].proto
    BY <1>0, <2>4
  <2>6. OneEntryEach' BY <2>1, <2>4, <2>5 DEF OneEntryEach
  <2>7. PICK k \in 1..len : mine(k) BY <1>2, <2>1 DEF Taken, Entries
  <2>8. Wanted(proto) \in Entries' BY <2>4, <2>7 DEF Entries
  <2>9. ASSUME NEW e \in Entries, e.proto # proto PROVE e \in Entries'
    <3>1. PICK i \in 1..len : e = table[i] BY <2>1 DEF Entries
    <3>2. table'[i] = e BY <2>4, <2>9, <3>1
    <3> QED BY <2>4, <3>2 DEF Entries
  <2> QED BY <2>4, <2>6, <2>8, <2>9
<1> QED BY <1>1, <1>2

\* A call that deletes a mapping leaves the router without it, and takes nothing else.
LEMMA EntryDeleted ==
  ASSUME table \in Seq(Entry), OneEntryEach, NEW ext, NEW proto, DeleteEntry(ext, proto)
  PROVE  /\ table' \in Seq(Entry) /\ OneEntryEach' /\ Entries' \subseteq Entries
         /\ \A e \in Entries' : ~(e.ext = ext /\ e.proto = proto)
<1>1. CASE Taken(ext, proto) = {}
  BY <1>1 DEF DeleteEntry, Taken, Entries, OneEntryEach
<1>2. CASE Taken(ext, proto) # {}
  <2>1. PICK n \in DOMAIN table : table[n] \in Taken(ext, proto) /\ RemoveEntry(n)
    BY <1>2 DEF DeleteEntry
  <2>2. /\ table' \in Seq(Entry) /\ OneEntryEach' /\ Entries' = Entries \ {table[n]}
    BY <2>1, EntryRemoved
  <2>3. \A e \in Entries : e.ext = ext /\ e.proto = proto => e = table[n]
    BY <2>1 DEF Taken, Entries, OneEntryEach
  <2> QED BY <2>2, <2>3
<1> QED BY <1>1, <1>2

\* Whatever the other hosts and the user do, they make none of the mappings of mapPort(), and what
\* they undo is recorded.
LEMMA OthersKeepMine ==
  ASSUME table \in Seq(Entry), OneEntryEach, OtherChanges
  PROVE  /\ table' \in Seq(Entry) /\ OneEntryEach'
         /\ \A proto \in Proto : Wanted(proto) \in Entries' => Wanted(proto) \in Entries
         /\ \A proto \in Proto : Wanted(proto) \in Entries \/ proto \in lost =>
                                 Wanted(proto) \in Entries' \/ proto \in lost'
<1>0. \A proto \in Proto : Wanted(proto).client = Me /\ Wanted(proto).ext = Port
  BY EntryFields DEF Wanted
<1>1. ASSUME NEW proto \in Proto, Taken(Port, proto) = {},
             table' = Append(table, Mapped(Port, proto, Other, Port))
      PROVE  /\ table' \in Seq(Entry) /\ OneEntryEach'
             /\ \A p \in Proto : Wanted(p) \in Entries' <=> Wanted(p) \in Entries
  <2> DEFINE e == Mapped(Port, proto, Other, Port)
  <2>1. e \in Entry /\ e.ext = Port /\ e.proto = proto /\ e.client = Other BY EntryFields
  <2>2. table' = Append(table, e) BY <1>1
  <2> HIDE DEF e
  <2>3. table' \in Seq(Entry) /\ OneEntryEach' /\ Entries' = Entries \cup {e}
    BY <1>1, <2>1, <2>2, EntryAppended
  <2>4. \A p \in Proto : Wanted(p) # e BY <1>0, <2>1, HostsAssumption
  <2> QED BY <2>3, <2>4
<1>2. ASSUME NEW i \in DOMAIN table, RemoveEntry(i),
             lost' = lost \cup {p \in Proto : table[i] = Wanted(p)}
      PROVE  /\ table' \in Seq(Entry) /\ OneEntryEach'
             /\ \A p \in Proto : Wanted(p) \in Entries' => Wanted(p) \in Entries
             /\ \A p \in Proto : Wanted(p) \in Entries \/ p \in lost =>
                                 Wanted(p) \in Entries' \/ p \in lost'
  <2>1. table' \in Seq(Entry) /\ OneEntryEach' /\ Entries' = Entries \ {table[i]}
    BY <1>2, EntryRemoved
  <2> HIDE DEF Wanted
  <2> QED BY <1>2, <2>1
<1>3. ASSUME Taken(Elsewhere, "UDP") = {}, table' = Append(table, Mapped(Elsewhere, "UDP", Me, Port))
      PROVE  /\ table' \in Seq(Entry) /\ OneEntryEach'
             /\ \A p \in Proto : Wanted(p) \in Entries' <=> Wanted(p) \in Entries
  <2> DEFINE e == Mapped(Elsewhere, "UDP", Me, Port)
  <2>1. e \in Entry /\ e.ext = Elsewhere /\ e.proto = "UDP" BY EntryFields
  <2>2. table' = Append(table, e) BY <1>3
  <2> HIDE DEF e
  <2>3. table' \in Seq(Entry) /\ OneEntryEach' /\ Entries' = Entries \cup {e}
    BY <1>3, <2>1, <2>2, EntryAppended
  <2>4. \A p \in Proto : Wanted(p) # e BY <1>0, <2>1, HostsAssumption
  <2> QED BY <2>3, <2>4
<1> QED BY <1>1, <1>2, <1>3 DEF OtherChanges

-----------------------------------------------------------------------------
(* What mapPort() leaves behind.                                            *)

\* Only these steps of the process concern the router or the PortMappingHandler.
LEMMA RouterSteps ==
  ASSUME [Next]_vars
  PROVE  Discover \/ MapPort \/ MapStep \/ OtherChanges \/ HandlerGone \/ UNCHANGED mapVars
<1>1. CASE Launch BY <1>1 DEF Launch
<1>2. CASE BeginMapPort BY <1>2 DEF BeginMapPort
<1>3. CASE MapOneStep BY <1>3 DEF MapOneStep
<1>4. CASE RouterChanges BY <1>4 DEF RouterChanges
<1>5. CASE GameThread
  BY <1>5 DEF GameThread, Announce, SetShuttingDown, CloseSocket, FreeServer, PostResets, StopEngine,
              Join
<1>6. CASE NetThread
  BY <1>6 DEF NetThread, HandleReceive, HandleReceiveError, RunSend, CheckForEndpoints, Update,
              RunClose, RunResets, RunClearWork
<1>7. CASE Gone BY <1>7 DEF Gone
<1>8. CASE DiscoverDies \/ StunBlock \/ Construct \/ Start \/ GameBecomesReady
  BY <1>8 DEF DiscoverDies, StunBlock, Construct, Start, GameBecomesReady
<1>9. CASE PacketReady \/ TimerReady \/ Broadcast \/ CallShutdown
  BY <1>9 DEF PacketReady, TimerReady, Broadcast, CallShutdown
<1>10. CASE UNCHANGED vars BY <1>10 DEF vars
<1> QED BY <1>1, <1>2, <1>3, <1>4, <1>5, <1>6, <1>7, <1>8, <1>9, <1>10 DEF Next

\* No step of the process undoes what mapPort() has achieved, and what another host undoes is
\* recorded.
LEMMA MapKept ==
  ASSUME MapIInv, [Next]_vars
  PROVE  MapIInv'
<1>0. table \in Seq(Entry) /\ OneEntryEach /\ errors \in Nat BY DEF MapIInv
<1>a. "UDP" \in Proto /\ "TCP" \in Proto BY DEF Proto
<1>b. \A proto \in Proto : Wanted(proto).proto = proto /\ Wanted(proto).ext = Port
  BY EntryFields DEF Wanted
<1>c. ASSUME UNCHANGED table
      PROVE  table' \in Seq(Entry) /\ OneEntryEach' /\ Entries' = Entries
  BY <1>0, <1>c DEF OneEntryEach, Entries
<1>1. CASE UNCHANGED mapVars
  BY <1>1, <1>c DEF mapVars, MapIInv
<1>2. CASE Discover \/ MapPort \/ HandlerGone
  BY <1>2, <1>c, <1>0 DEF Discover, MapPort, HandlerGone, MapIInv
<1>3. CASE OtherChanges
  <2>1. UNCHANGED <<errors, mapping>> BY <1>3 DEF OtherChanges
  <2>2. /\ table' \in Seq(Entry) /\ OneEntryEach'
        /\ \A proto \in Proto : Wanted(proto) \in Entries' => Wanted(proto) \in Entries
        /\ \A proto \in Proto : Wanted(proto) \in Entries \/ proto \in lost =>
                                Wanted(proto) \in Entries' \/ proto \in lost'
    BY <1>0, <1>3, OthersKeepMine
  <2> QED BY <1>a, <2>1, <2>2 DEF MapIInv
<1>4. CASE Scan
  <2>1. UNCHANGED table /\ errors' \in Nat /\ mapping' \in {"scan", "addUDP", "delete", "failed"}
    BY <1>0, <1>4 DEF Scan, CallFails
  <2> QED BY <1>c, <2>1 DEF MapIInv
<1>5. CASE DeleteHit
  <2>1. errors' \in Nat /\ mapping' \in {"scan", "failed"}
    BY <1>0, <1>5 DEF DeleteHit, CallFails
  <2>2. DeleteEntry(hit.ext, hit.proto) \/ UNCHANGED table BY <1>5 DEF DeleteHit
  <2>3. table' \in Seq(Entry) /\ OneEntryEach' BY <1>0, <1>c, <2>2, EntryDeleted
  <2> QED BY <2>1, <2>3 DEF MapIInv
<1>6. CASE AddUdp
  <2>1. CASE AddEntry("UDP") /\ mapping' = "addTCP" /\ UNCHANGED errors
    <3>1. table' \in Seq(Entry) /\ OneEntryEach' /\ Wanted("UDP") \in Entries'
      BY <1>0, <1>a, <2>1, EntryAdded
    <3> QED BY <1>0, <2>1, <3>1 DEF MapIInv
  <2>2. CASE mapping' = "failed" /\ UNCHANGED table /\ errors' \in Nat
    BY <1>c, <2>2 DEF MapIInv
  <2> QED BY <1>0, <1>6, <2>1, <2>2 DEF AddUdp, CallFails
<1>7. CASE AddTcp
  <2>1. CASE AddEntry("TCP") /\ mapping' = "mapped" /\ lost' = lost \ {"TCP"} /\ UNCHANGED errors
    <3>1. Wanted("UDP") \in Entries \/ "UDP" \in lost BY <1>7 DEF AddTcp, MapIInv
    <3>2. /\ table' \in Seq(Entry) /\ OneEntryEach' /\ Wanted("TCP") \in Entries'
          /\ \A e \in Entries : e.proto # "TCP" => e \in Entries'
      BY <1>0, <1>a, <2>1, EntryAdded
    <3>3. Wanted("UDP") \in Entries' \/ "UDP" \in lost' BY <1>a, <1>b, <2>1, <3>1, <3>2
    <3> QED BY <1>0, <2>1, <3>2, <3>3 DEF MapIInv
  <2>2. CASE mapping' = "unmapUDP" /\ UNCHANGED table /\ errors' \in Nat
    BY <1>c, <2>2 DEF MapIInv
  <2> QED BY <1>0, <1>7, <2>1, <2>2 DEF AddTcp, CallFails
<1>8. CASE UnmapUdp
  <2>0. mapping' = "unmapTCP" BY <1>8 DEF UnmapUdp
  <2>1. CASE DeleteEntry(Port, "UDP") /\ UNCHANGED errors
    <3>1. /\ table' \in Seq(Entry) /\ OneEntryEach'
          /\ \A e \in Entries' : ~(e.ext = Port /\ e.proto = "UDP")
      BY <1>0, <2>1, EntryDeleted
    <3>2. Wanted("UDP") \notin Entries' BY <1>a, <1>b, <3>1
    <3> QED BY <1>0, <2>0, <2>1, <3>1, <3>2 DEF MapIInv
  <2>2. CASE CallFails /\ UNCHANGED table
    <3>1. errors' \in Nat /\ errors' # 0 BY <1>0, <2>2 DEF CallFails
    <3> QED BY <1>c, <2>0, <2>2, <3>1 DEF MapIInv
  <2> QED BY <1>8, <2>1, <2>2 DEF UnmapUdp
<1>9. CASE UnmapTcp
  <2>1. mapping' = "failed" /\ errors' \in Nat BY <1>0, <1>9 DEF UnmapTcp, CallFails
  <2>2. DeleteEntry(Port, "TCP") \/ UNCHANGED table BY <1>9 DEF UnmapTcp
  <2>3. table' \in Seq(Entry) /\ OneEntryEach' BY <1>0, <1>c, <2>2, EntryDeleted
  <2> QED BY <2>1, <2>3 DEF MapIInv
<1> QED BY <1>1, <1>2, <1>3, <1>4, <1>5, <1>6, <1>7, <1>8, <1>9, RouterSteps DEF MapStep

\* When the last call of unmapPort() has gone through, and no call before it has failed, neither
\* protocol is mapped to the peer.
LEMMA UnmapsBoth ==
  ASSUME MapIInv, [Next]_vars, mapping = "unmapTCP", mapping' = "failed", errors' = 0
  PROVE  \A proto \in Proto : Wanted(proto) \notin Entries'
<1>0. table \in Seq(Entry) /\ OneEntryEach /\ errors \in Nat BY DEF MapIInv
<1>b. \A proto \in Proto : Wanted(proto).proto = proto /\ Wanted(proto).ext = Port
  BY EntryFields DEF Wanted
<1>1. UnmapTcp
  BY RouterSteps DEF Discover, MapPort, HandlerGone, OtherChanges, mapVars, MapStep, Scan, DeleteHit,
                     AddUdp, AddTcp, UnmapUdp
<1>2. DeleteEntry(Port, "TCP") /\ errors = 0
  BY <1>0, <1>1 DEF UnmapTcp, CallFails
<1>3. Wanted("UDP") \notin Entries BY <1>2 DEF MapIInv
<1>4. Entries' \subseteq Entries /\ \A e \in Entries' : ~(e.ext = Port /\ e.proto = "TCP")
  BY <1>0, <1>2, EntryDeleted
<1> QED BY <1>b, <1>3, <1>4 DEF Proto

\* Whatever an earlier process left in the router and whatever the other hosts do between any two
\* calls, mapPort() returns the port only with each protocol mapped to the peer or its mapping
\* deleted by another host since, and a mapPort() that fails behind its first mapping takes it back.
THEOREM MapsBothOrNeither == Spec => BothOrNeither
<1>1. Init => MapIInv
  BY DEF Init, MapInit, MapIInv, OneEntryEach, Entries
<1>2. MapIInv /\ [Next]_vars => MapIInv' BY MapKept
<1> DEFINE Step == /\ mapping' = "mapped" =>
                        \A proto \in Proto : Wanted(proto) \in Entries' \/ proto \in lost'
                   /\ mapping = "unmapTCP" /\ mapping' = "failed" /\ errors' = 0 =>
                        \A proto \in Proto : Wanted(proto) \notin Entries'
<1>3. MapIInv /\ [Next]_vars => [Step]_mapVars
  <2>1. MapIInv' => (mapping' = "mapped" =>
                    \A proto \in Proto : Wanted(proto) \in Entries' \/ proto \in lost')
    BY DEF MapIInv, Proto
  <2> QED BY <2>1, MapKept, UnmapsBoth
<1> HIDE DEF Step
<1>4. Spec => [][Step]_mapVars BY <1>1, <1>2, <1>3, PTL DEF Spec
<1> QED BY <1>4 DEF Step, BothOrNeither

-----------------------------------------------------------------------------
(* The STUN block, in the life of the process.                              *)

\* Only these steps of the process concern the block's variables and how it ended.
LEMMA StunSteps ==
  ASSUME [Next]_vars
  PROVE  \/ StunNext
         \/ UNCHANGED stunLocals /\ (UNCHANGED stunOutcome \/ stunOutcome' = "ok")
         \/ StunLocalsReset /\ stunOutcome' = "running"
<1>1. CASE Launch BY <1>1 DEF Launch, stunVars
<1>2. CASE StunBlock BY <1>2 DEF StunBlock
<1>3. CASE Gone BY <1>3 DEF Gone
<1>4. CASE GameThread
  BY <1>4 DEF GameThread, Announce, SetShuttingDown, CloseSocket, FreeServer, PostResets, StopEngine,
              Join, stunVars
<1>5. CASE NetThread
  BY <1>5 DEF NetThread, HandleReceive, HandleReceiveError, RunSend, CheckForEndpoints, Update,
              RunClose, RunResets, RunClearWork,
              stunVars
<1>6. CASE DiscoverDies \/ BeginMapPort \/ MapOneStep \/ RouterChanges \/ Construct \/ Start
  BY <1>6 DEF DiscoverDies, BeginMapPort, MapOneStep, RouterChanges, Construct, Start, stunVars
<1>7. CASE GameBecomesReady \/ PacketReady \/ TimerReady \/ Broadcast \/ CallShutdown
  BY <1>7 DEF GameBecomesReady, PacketReady, TimerReady, Broadcast, CallShutdown, stunVars
<1>8. CASE UNCHANGED vars BY <1>8 DEF vars, stunVars
<1> QED BY <1>1, <1>2, <1>3, <1>4, <1>5, <1>6, <1>7, <1>8 DEF Next

\* The invariant of the STUN block holds in every behaviour of the process.
THEOREM StunInvariance == Spec => []StunIInv
<1>1. Init => StunIInv BY StunStarts DEF Init, StunInit
<1>2. StunIInv /\ [Next]_vars => StunIInv'
  BY StunSteps, StunStepKeeps, StunUnchanged, StunStartsAgain
<1> QED BY <1>1, <1>2, PTL DEF Spec

\* _request_count never ends the receiving while a server is being asked, however packets, timers,
\* names and repeated answers interleave, unless a receive failed or a reply held no address.
THEOREM NobodyIsForgotten == Spec => []NobodyForgotten
BY StunInvariance, StunIsSafe, PTL

\* The constructor only gives up for a name that did not resolve, a shared address, a failed receive
\* or a reply without an address; silence is never enough.
THEOREM FatalHasACause == Spec => []FatalNeedsCause
BY StunInvariance, StunIsSafe, PTL

\* The destroyed StunClient is only used behind a resend of an answered request, or after the 15
\* seconds.
THEOREM UndefinedHasACause == Spec => []UndefinedNeedsRace
BY StunInvariance, StunIsSafe, PTL

-----------------------------------------------------------------------------
(* Reading a packet: numbers and their bits, the header, and the search for *)
(* an address.                                                              *)

LEMMA Multiples ==
  ASSUME NEW a \in Nat, NEW b \in Nat, NEW p \in Nat, a < b
  PROVE  p * a + p <= p * b
<1>1. PICK c \in Nat : b = a + 1 + c
  <2>1. b - a - 1 \in Nat /\ b = a + 1 + (b - a - 1) BY SMT
  <2> QED BY <2>1
<1>2. p * b = p * a + p + p * c BY <1>1, SMT
<1>3. p * a \in Nat /\ p * b \in Nat /\ p * c \in Nat BY SMT
<1> QED BY <1>2, <1>3, SMT

LEMMA DivMod ==
  ASSUME NEW x \in Nat, NEW p \in Nat, p > 0
  PROVE  /\ x \div p \in Nat /\ x % p \in Nat /\ x % p < p
         /\ x = p * (x \div p) + (x % p)
BY SMT

\* Quotient and remainder are unique.
LEMMA DivUnique ==
  ASSUME NEW x \in Nat, NEW p \in Nat, p > 0, NEW h \in Nat, NEW r \in Nat, r < p,
         x = p * h + r
  PROVE  x \div p = h /\ x % p = r
<1> DEFINE d == x \div p
           m == x % p
<1>1. d \in Nat /\ m \in Nat /\ m < p /\ x = p * d + m BY DivMod
<1> HIDE DEF d, m
<1>2. p * d \in Nat /\ p * h \in Nat BY <1>1, SMT
<1>3. ~ (h < d)
  <2> SUFFICES ASSUME h < d PROVE FALSE OBVIOUS
  <2>1. p * h + p <= p * d BY <1>1, Multiples
  <2> QED BY <1>1, <1>2, <2>1, SMT
<1>4. ~ (d < h)
  <2> SUFFICES ASSUME d < h PROVE FALSE OBVIOUS
  <2>1. p * d + p <= p * h BY <1>1, Multiples
  <2> QED BY <1>1, <1>2, <2>1, SMT
<1>5. d = h BY <1>1, <1>3, <1>4, SMT
<1>6. m = r BY <1>1, <1>2, <1>5, SMT
<1> QED BY <1>5, <1>6 DEF d, m

LEMMA DivOne ==
  ASSUME NEW x \in Nat
  PROVE  x \div 1 = x
<1>1. x = 1 * x + 0 BY SMT
<1> QED BY <1>1, DivUnique, SMT

LEMMA BitRange ==
  ASSUME NEW x \in Nat, NEW p \in Nat, p > 0
  PROVE  Bit(x, p) \in {0, 1}
<1>1. x \div p \in Nat BY DivMod
<1> QED BY <1>1, SMT DEF Bit

\* What is left of a number when its bits below a place are cut off: the bit there, and twice
\* what is left above it.
LEMMA Halve ==
  ASSUME NEW x \in Nat, NEW p \in Nat, p > 0, NEW above, above = 2 * p
  PROVE  x \div p = Bit(x, p) + 2 * (x \div above)
<1> DEFINE q == x \div p
           r == x % p
           h == q \div 2
           b == q % 2
<1>1. q \in Nat /\ r \in Nat /\ r < p /\ x = p * q + r BY DivMod
<1>2. h \in Nat /\ b \in {0, 1} /\ q = 2 * h + b
  <2> HIDE DEF q
  <2> QED BY <1>1, SMT
<1> HIDE DEF q, r, h, b
<1>3. p * q = (2 * p) * h + p * b
  <2>1. p * q = p * (2 * h + b) BY <1>2
  <2>2. p * (2 * h + b) = (2 * p) * h + p * b BY <1>2, SMT
  <2> QED BY <2>1, <2>2
<1>4. p * b \in {0, p} BY <1>2, SMT
<1>5. (2 * p) * h \in Nat /\ p * q \in Nat BY <1>1, <1>2, SMT
<1>6. /\ above \in Nat /\ above > 0 /\ p * b + r \in Nat /\ p * b + r < above
      /\ x = above * h + (p * b + r)
  BY <1>1, <1>2, <1>3, <1>4, <1>5, SMT
<1>7. x \div above = h BY <1>6, <1>2, DivUnique
<1>8. q = b + 2 * (x \div above) BY <1>7, <1>2
<1> QED BY <1>8 DEF q, b, Bit

BitAt(x, p, above) ==
  /\ x \div p \in Nat /\ x \div above \in Nat /\ Bit(x, p) \in {0, 1}
  /\ x \div p = Bit(x, p) + 2 * (x \div above)

LEMMA BitAtHolds ==
  ASSUME NEW x \in Nat, NEW p \in Nat, p > 0, NEW above, above = 2 * p
  PROVE  BitAt(x, p, above)
<1>1. above \in Nat /\ above > 0 BY SMT
<1>2. x \div p \in Nat /\ x \div above \in Nat BY <1>1, DivMod
<1>3. Bit(x, p) \in {0, 1} BY BitRange
<1>4. x \div p = Bit(x, p) + 2 * (x \div above) BY Halve
<1> QED BY <1>2, <1>3, <1>4 DEF BitAt

LEMMA TwoBytes ==
  ASSUME NEW low \in 0..255, NEW high \in 0..255
  PROVE  low + 256 * high \in Half /\ low + 256 * high \in Nat
<1>1. low \in Nat /\ low <= 255 /\ high \in Nat /\ high <= 255 BY SMT
<1>2. low + 256 * high \in Nat /\ low + 256 * high < 65536 BY <1>1, SMT
<1> QED BY <1>2 DEF Half

\* A number of 16 bits is the sum of its bits.
LEMMA BitsMakeHalf ==
  ASSUME NEW x \in Half
  PROVE  x = BitSum([p \in Places |-> Bit(x, p)])
<1>0. x \in Nat /\ x \div 65536 = 0 /\ x \div 1 = x
  <2>1. x \in Nat /\ x < 65536 BY DEF Half
  <2>2. x = 65536 * 0 + x BY <2>1, SMT
  <2>3. x \div 1 = x BY <2>1, DivOne
  <2>4. x \div 65536 = 0 BY <2>1, <2>2, DivUnique, SMT
  <2> QED BY <2>1, <2>3, <2>4
<1>1. BitAt(x, 1, 2) BY <1>0, BitAtHolds, SMT
<1>2. BitAt(x, 2, 4) BY <1>0, BitAtHolds, SMT
<1>3. BitAt(x, 4, 8) BY <1>0, BitAtHolds, SMT
<1>4. BitAt(x, 8, 16) BY <1>0, BitAtHolds, SMT
<1>5. BitAt(x, 16, 32) BY <1>0, BitAtHolds, SMT
<1>6. BitAt(x, 32, 64) BY <1>0, BitAtHolds, SMT
<1>7. BitAt(x, 64, 128) BY <1>0, BitAtHolds, SMT
<1>8. BitAt(x, 128, 256) BY <1>0, BitAtHolds, SMT
<1>9. BitAt(x, 256, 512) BY <1>0, BitAtHolds, SMT
<1>10. BitAt(x, 512, 1024) BY <1>0, BitAtHolds, SMT
<1>11. BitAt(x, 1024, 2048) BY <1>0, BitAtHolds, SMT
<1>12. BitAt(x, 2048, 4096) BY <1>0, BitAtHolds, SMT
<1>13. BitAt(x, 4096, 8192) BY <1>0, BitAtHolds, SMT
<1>14. BitAt(x, 8192, 16384) BY <1>0, BitAtHolds, SMT
<1>15. BitAt(x, 16384, 32768) BY <1>0, BitAtHolds, SMT
<1>16. BitAt(x, 32768, 65536) BY <1>0, BitAtHolds, SMT
<1>17. x \div 4096 = Bit(x, 4096) + 2 * Bit(x, 8192) + 4 * Bit(x, 16384) + 8 * Bit(x, 32768)
                       + 16 * (x \div 65536)
  BY <1>13, <1>14, <1>15, <1>16, SMT DEF BitAt
<1>18. x \div 256 = Bit(x, 256) + 2 * Bit(x, 512) + 4 * Bit(x, 1024) + 8 * Bit(x, 2048)
                      + 16 * (x \div 4096)
  BY <1>9, <1>10, <1>11, <1>12, SMT DEF BitAt
<1>19. x \div 16 = Bit(x, 16) + 2 * Bit(x, 32) + 4 * Bit(x, 64) + 8 * Bit(x, 128)
                     + 16 * (x \div 256)
  BY <1>5, <1>6, <1>7, <1>8, SMT DEF BitAt
<1>20. x \div 1 = Bit(x, 1) + 2 * Bit(x, 2) + 4 * Bit(x, 4) + 8 * Bit(x, 8) + 16 * (x \div 16)
  BY <1>1, <1>2, <1>3, <1>4, SMT DEF BitAt
<1>21. /\ Bit(x, 1) \in {0, 1} /\ Bit(x, 2) \in {0, 1} /\ Bit(x, 4) \in {0, 1} /\
         Bit(x, 8) \in {0, 1} /\ Bit(x, 16) \in {0, 1} /\ Bit(x, 32) \in {0, 1} /\
         Bit(x, 64) \in {0, 1} /\ Bit(x, 128) \in {0, 1} /\ Bit(x, 256) \in {0, 1} /\
         Bit(x, 512) \in {0, 1} /\ Bit(x, 1024) \in {0, 1} /\ Bit(x, 2048) \in {0, 1} /\
         Bit(x, 4096) \in {0, 1} /\ Bit(x, 8192) \in {0, 1} /\ Bit(x, 16384) \in {0, 1} /\
         Bit(x, 32768) \in {0, 1}
 
    BY <1>1, <1>2, <1>3, <1>4, <1>5, <1>6, <1>7, <1>8, <1>9, <1>10, <1>11, <1>12, <1>13, <1>14, <1>15,
     <1>16 DEF BitAt
<1>22. x \div 256 = Bit(x, 256) + 2 * Bit(x, 512) + 4 * Bit(x, 1024) + 8 * Bit(x, 2048) +
                    16 * Bit(x, 4096) + 32 * Bit(x, 8192) + 64 * Bit(x, 16384) +
                    128 * Bit(x, 32768)
  BY <1>0, <1>17, <1>18, <1>21, SMT
<1>23. x = Bit(x, 1) + 2 * Bit(x, 2) + 4 * Bit(x, 4) + 8 * Bit(x, 8) + 16 * Bit(x, 16) +
          32 * Bit(x, 32) + 64 * Bit(x, 64) + 128 * Bit(x, 128) + 256 * (x \div 256)
  BY <1>0, <1>9, <1>19, <1>20, <1>21, SMT DEF BitAt
<1> DEFINE b == [p \in Places |-> Bit(x, p)]
<1>24. b[1] = Bit(x, 1) /\ b[2] = Bit(x, 2) /\ b[4] = Bit(x, 4) /\ b[8] = Bit(x, 8) /\ b[16] =
       Bit(x, 16) /\ b[32] = Bit(x, 32) /\ b[64] = Bit(x, 64) /\ b[128] = Bit(x, 128) /\ b[256] =
       Bit(x, 256) /\ b[512] = Bit(x, 512) /\ b[1024] = Bit(x, 1024) /\ b[2048] = Bit(x, 2048) /\
       b[4096] = Bit(x, 4096) /\ b[8192] = Bit(x, 8192) /\ b[16384] = Bit(x, 16384) /\ b[32768] =
       Bit(x, 32768)
  BY DEF Places
<1> HIDE DEF b
<1>25. x = BitSum(b) BY <1>22, <1>23, <1>24 DEF BitSum
<1> QED BY <1>25 DEF b

\* The bits of a sum of bits are those bits.
LEMMA BitsOfSum ==
  ASSUME NEW b \in [Places -> {0, 1}]
  PROVE  BitSum(b) \in Half /\ \A p \in Places : Bit(BitSum(b), p) = b[p]
<1> DEFINE x == BitSum(b)
           b0 == b[1]
           b1 == b[2]
           b2 == b[4]
           b3 == b[8]
           b4 == b[16]
           b5 == b[32]
           b6 == b[64]
           b7 == b[128]
           b8 == b[256]
           b9 == b[512]
           b10 == b[1024]
           b11 == b[2048]
           b12 == b[4096]
           b13 == b[8192]
           b14 == b[16384]
           b15 == b[32768]
<1>36. /\ b0 \in {0, 1} /\ b1 \in {0, 1} /\ b2 \in {0, 1} /\ b3 \in {0, 1} /\ b4 \in {0, 1} /\ b5
         \in {0, 1} /\ b6 \in {0, 1} /\ b7 \in {0, 1} /\ b8 \in {0, 1} /\ b9 \in {0, 1} /\ b10 \in
         {0, 1} /\ b11 \in {0, 1} /\ b12 \in {0, 1} /\ b13 \in {0, 1} /\ b14 \in {0, 1} /\ b15 \in
         {0, 1}
  BY DEF Places
<1>37. x = b0 + 2 * b1 + 4 * b2 + 8 * b3 + 16 * b4 + 32 * b5 + 64 * b6 + 128 * b7 + 256 * (b8 +
           2 * b9 + 4 * b10 + 8 * b11 + 16 * b12 + 32 * b13 + 64 * b14 + 128 * b15)
  BY DEF BitSum
<1> HIDE DEF x, b0, b1, b2, b3, b4, b5, b6, b7, b8, b9, b10, b11, b12, b13, b14, b15
<1> DEFINE t16 == 0
           t15 == b15
           t14 == b14 + 2 * b15
           t13 == b13 + 2 * b14 + 4 * b15
           t12 == b12 + 2 * b13 + 4 * b14 + 8 * b15
           t11 == b11 + 2 * b12 + 4 * b13 + 8 * b14 + 16 * b15
           t10 == b10 + 2 * b11 + 4 * b12 + 8 * b13 + 16 * b14 + 32 * b15
           t9 == b9 + 2 * b10 + 4 * b11 + 8 * b12 + 16 * b13 + 32 * b14 + 64 * b15
           t8 == b8 + 2 * b9 + 4 * b10 + 8 * b11 + 16 * b12 + 32 * b13 + 64 * b14 + 128 * b15
<1>1. t15 \in Nat /\ t15 = b15 + 2 * t16 BY <1>36, SMT
<1>2. t14 \in Nat /\ t14 = b14 + 2 * t15 BY <1>36, SMT
<1>3. t13 \in Nat /\ t13 = b13 + 2 * t14 BY <1>36, SMT
<1>4. t12 \in Nat /\ t12 = b12 + 2 * t13 BY <1>36, SMT
<1>5. t11 \in Nat /\ t11 = b11 + 2 * t12 BY <1>36, SMT
<1>6. t10 \in Nat /\ t10 = b10 + 2 * t11 BY <1>36, SMT
<1>7. t9 \in Nat /\ t9 = b9 + 2 * t10 BY <1>36, SMT
<1>8. t8 \in Nat /\ t8 = b8 + 2 * t9 BY <1>36, SMT
<1>34. t8 \in 0..255 BY <1>36, SMT
<1>35. x = b0 + 2 * b1 + 4 * b2 + 8 * b3 + 16 * b4 + 32 * b5 + 64 * b6 + 128 * b7 + 256 * t8
  BY <1>37
<1> HIDE DEF t8, t9, t10, t11, t12, t13, t14, t15, t16
<1> DEFINE t7 == b7 + 2 * t8
           t6 == b6 + 2 * b7 + 4 * t8
           t5 == b5 + 2 * b6 + 4 * b7 + 8 * t8
           t4 == b4 + 2 * b5 + 4 * b6 + 8 * b7 + 16 * t8
           t3 == b3 + 2 * b4 + 4 * b5 + 8 * b6 + 16 * b7 + 32 * t8
           t2 == b2 + 2 * b3 + 4 * b4 + 8 * b5 + 16 * b6 + 32 * b7 + 64 * t8
           t1 == b1 + 2 * b2 + 4 * b3 + 8 * b4 + 16 * b5 + 32 * b6 + 64 * b7 + 128 * t8
           t0 == b0 + 2 * b1 + 4 * b2 + 8 * b3 + 16 * b4 + 32 * b5 + 64 * b6 + 128 * b7 + 256 * t8
<1>9. t7 \in Nat /\ t7 = b7 + 2 * t8 BY <1>34, <1>36, SMT
<1>10. t6 \in Nat /\ t6 = b6 + 2 * t7 BY <1>34, <1>36, SMT
<1>11. t5 \in Nat /\ t5 = b5 + 2 * t6 BY <1>34, <1>36, SMT
<1>12. t4 \in Nat /\ t4 = b4 + 2 * t5 BY <1>34, <1>36, SMT
<1>13. t3 \in Nat /\ t3 = b3 + 2 * t4 BY <1>34, <1>36, SMT
<1>14. t2 \in Nat /\ t2 = b2 + 2 * t3 BY <1>34, <1>36, SMT
<1>15. t1 \in Nat /\ t1 = b1 + 2 * t2 BY <1>34, <1>36, SMT
<1>16. t0 \in Nat /\ t0 = b0 + 2 * t1 BY <1>34, <1>36, SMT
<1>0. x \in Half /\ x \in Nat /\ x = t0
  <2> DEFINE low == b0 + 2 * b1 + 4 * b2 + 8 * b3 + 16 * b4 + 32 * b5 + 64 * b6 + 128 * b7
  <2>1. low \in 0..255 BY <1>36, SMTT(30)
  <2>2. x = low + 256 * t8 /\ x = t0 BY <1>35
  <2> HIDE DEF low, t0
  <2>3. low + 256 * t8 \in Half /\ low + 256 * t8 \in Nat
    BY <2>1, <1>34, TwoBytes, ZenonT(40)
  <2> QED BY <2>2, <2>3
<1> HIDE DEF t0, t1, t2, t3, t4, t5, t6, t7
<1>17. x \in Nat /\ x \div 1 = t0 BY <1>0, DivOne
<1>18. Bit(x, 1) = b0 /\ x \div 2 = t1
  <2>1. BitAt(x, 1, 2) BY <1>17, BitAtHolds, SMT
  <2>2. t1 \in Nat BY <1>15
  <2>3. b0 \in {0, 1} BY <1>36
  <2> QED BY <1>17, <1>16, <2>1, <2>2, <2>3, SMT DEF BitAt
<1>19. Bit(x, 2) = b1 /\ x \div 4 = t2
  <2>1. BitAt(x, 2, 4) BY <1>17, BitAtHolds, SMT
  <2>2. t2 \in Nat BY <1>14
  <2>3. b1 \in {0, 1} BY <1>36
  <2> QED BY <1>18, <1>15, <2>1, <2>2, <2>3, SMT DEF BitAt
<1>20. Bit(x, 4) = b2 /\ x \div 8 = t3
  <2>1. BitAt(x, 4, 8) BY <1>17, BitAtHolds, SMT
  <2>2. t3 \in Nat BY <1>13
  <2>3. b2 \in {0, 1} BY <1>36
  <2> QED BY <1>19, <1>14, <2>1, <2>2, <2>3, SMT DEF BitAt
<1>21. Bit(x, 8) = b3 /\ x \div 16 = t4
  <2>1. BitAt(x, 8, 16) BY <1>17, BitAtHolds, SMT
  <2>2. t4 \in Nat BY <1>12
  <2>3. b3 \in {0, 1} BY <1>36
  <2> QED BY <1>20, <1>13, <2>1, <2>2, <2>3, SMT DEF BitAt
<1>22. Bit(x, 16) = b4 /\ x \div 32 = t5
  <2>1. BitAt(x, 16, 32) BY <1>17, BitAtHolds, SMT
  <2>2. t5 \in Nat BY <1>11
  <2>3. b4 \in {0, 1} BY <1>36
  <2> QED BY <1>21, <1>12, <2>1, <2>2, <2>3, SMT DEF BitAt
<1>23. Bit(x, 32) = b5 /\ x \div 64 = t6
  <2>1. BitAt(x, 32, 64) BY <1>17, BitAtHolds, SMT
  <2>2. t6 \in Nat BY <1>10
  <2>3. b5 \in {0, 1} BY <1>36
  <2> QED BY <1>22, <1>11, <2>1, <2>2, <2>3, SMT DEF BitAt
<1>24. Bit(x, 64) = b6 /\ x \div 128 = t7
  <2>1. BitAt(x, 64, 128) BY <1>17, BitAtHolds, SMT
  <2>2. t7 \in Nat BY <1>9
  <2>3. b6 \in {0, 1} BY <1>36
  <2> QED BY <1>23, <1>10, <2>1, <2>2, <2>3, SMT DEF BitAt
<1>25. Bit(x, 128) = b7 /\ x \div 256 = t8
  <2>1. BitAt(x, 128, 256) BY <1>17, BitAtHolds, SMT
  <2>2. t8 \in Nat BY <1>8
  <2>3. b7 \in {0, 1} BY <1>36
  <2> QED BY <1>24, <1>9, <2>1, <2>2, <2>3, SMT DEF BitAt
<1>26. Bit(x, 256) = b8 /\ x \div 512 = t9
  <2>1. BitAt(x, 256, 512) BY <1>17, BitAtHolds, SMT
  <2>2. t9 \in Nat BY <1>7
  <2>3. b8 \in {0, 1} BY <1>36
  <2> QED BY <1>25, <1>8, <2>1, <2>2, <2>3, SMT DEF BitAt
<1>27. Bit(x, 512) = b9 /\ x \div 1024 = t10
  <2>1. BitAt(x, 512, 1024) BY <1>17, BitAtHolds, SMT
  <2>2. t10 \in Nat BY <1>6
  <2>3. b9 \in {0, 1} BY <1>36
  <2> QED BY <1>26, <1>7, <2>1, <2>2, <2>3, SMT DEF BitAt
<1>28. Bit(x, 1024) = b10 /\ x \div 2048 = t11
  <2>1. BitAt(x, 1024, 2048) BY <1>17, BitAtHolds, SMT
  <2>2. t11 \in Nat BY <1>5
  <2>3. b10 \in {0, 1} BY <1>36
  <2> QED BY <1>27, <1>6, <2>1, <2>2, <2>3, SMT DEF BitAt
<1>29. Bit(x, 2048) = b11 /\ x \div 4096 = t12
  <2>1. BitAt(x, 2048, 4096) BY <1>17, BitAtHolds, SMT
  <2>2. t12 \in Nat BY <1>4
  <2>3. b11 \in {0, 1} BY <1>36
  <2> QED BY <1>28, <1>5, <2>1, <2>2, <2>3, SMT DEF BitAt
<1>30. Bit(x, 4096) = b12 /\ x \div 8192 = t13
  <2>1. BitAt(x, 4096, 8192) BY <1>17, BitAtHolds, SMT
  <2>2. t13 \in Nat BY <1>3
  <2>3. b12 \in {0, 1} BY <1>36
  <2> QED BY <1>29, <1>4, <2>1, <2>2, <2>3, SMT DEF BitAt
<1>31. Bit(x, 8192) = b13 /\ x \div 16384 = t14
  <2>1. BitAt(x, 8192, 16384) BY <1>17, BitAtHolds, SMT
  <2>2. t14 \in Nat BY <1>2
  <2>3. b13 \in {0, 1} BY <1>36
  <2> QED BY <1>30, <1>3, <2>1, <2>2, <2>3, SMT DEF BitAt
<1>32. Bit(x, 16384) = b14 /\ x \div 32768 = t15
  <2>1. BitAt(x, 16384, 32768) BY <1>17, BitAtHolds, SMT
  <2>2. t15 \in Nat BY <1>1
  <2>3. b14 \in {0, 1} BY <1>36
  <2> QED BY <1>31, <1>2, <2>1, <2>2, <2>3, SMT DEF BitAt
<1>33. Bit(x, 32768) = b15 /\ x \div 65536 = t16
  <2>1. BitAt(x, 32768, 65536) BY <1>17, BitAtHolds, SMT
  <2>2. t16 \in Nat BY DEF t16
  <2>3. b15 \in {0, 1} BY <1>36
  <2> QED BY <1>32, <1>1, <2>1, <2>2, <2>3, SMT DEF BitAt
<1>38. \A p \in Places : Bit(x, p) = b[p]
  BY <1>18, <1>19, <1>20, <1>21, <1>22, <1>23, <1>24, <1>25, <1>26, <1>27, <1>28, <1>29, <1>30,
     <1>31, <1>32, <1>33
  DEF Places, b0, b1, b2, b3, b4, b5, b6, b7, b8, b9, b10, b11, b12, b13, b14, b15
<1> QED BY <1>0, <1>38 DEF x
LEMMA PlaceBits ==
  ASSUME NEW x \in Half
  PROVE  \A p \in Places : Bit(x, p) \in {0, 1}
<1>1. x \in Nat BY DEF Half
<1>2. \A p \in Places : p \in Nat /\ p > 0 BY DEF Places
<1> QED BY <1>1, <1>2, BitRange

LEMMA XorBits ==
  ASSUME NEW x \in Half, NEW y \in Half
  PROVE  /\ Xor(x, y) \in Half
         /\ \A p \in Places : Bit(Xor(x, y), p) = (Bit(x, p) + Bit(y, p)) % 2
<1>1. \A p \in Places : Bit(x, p) \in {0, 1} /\ Bit(y, p) \in {0, 1} BY PlaceBits
<1>2. \A p \in Places : (Bit(x, p) + Bit(y, p)) % 2 \in {0, 1} BY <1>1, SMT
<1> DEFINE b == [p \in Places |-> (Bit(x, p) + Bit(y, p)) % 2]
<1>3. b \in [Places -> {0, 1}] BY <1>2
<1>4. BitSum(b) \in Half /\ \A p \in Places : Bit(BitSum(b), p) = b[p] BY <1>3, BitsOfSum
<1>5. Xor(x, y) = BitSum(b) BY DEF Xor
<1>6. \A p \in Places : b[p] = (Bit(x, p) + Bit(y, p)) % 2 OBVIOUS
<1> QED BY <1>4, <1>5, <1>6

\* Unmasking with the mask gives back what was masked.
LEMMA XorTwice ==
  ASSUME NEW x \in Half, NEW y \in Half
  PROVE  Xor(Xor(x, y), y) = x
<1> DEFINE z == Xor(x, y)
<1>1. \A p \in Places : Bit(z, p) = (Bit(x, p) + Bit(y, p)) % 2 BY XorBits
<1>2. \A p \in Places : Bit(x, p) \in {0, 1} /\ Bit(y, p) \in {0, 1} BY PlaceBits
<1> HIDE DEF z
<1>3. \A p \in Places : (Bit(z, p) + Bit(y, p)) % 2 = Bit(x, p)
  <2> SUFFICES ASSUME NEW p \in Places PROVE (Bit(z, p) + Bit(y, p)) % 2 = Bit(x, p) OBVIOUS
  <2> DEFINE u == Bit(x, p)
             v == Bit(y, p)
  <2>1. u \in {0, 1} /\ v \in {0, 1} /\ Bit(z, p) = (u + v) % 2 BY <1>1, <1>2
  <2> HIDE DEF u, v
  <2>2. (((u + v) % 2) + v) % 2 = u BY <2>1, SMT
  <2> QED BY <2>1, <2>2 DEF u, v
<1>4. [p \in Places |-> (Bit(z, p) + Bit(y, p)) % 2] = [p \in Places |-> Bit(x, p)] BY <1>3
<1>5. Xor(z, y) = BitSum([p \in Places |-> Bit(x, p)]) BY <1>4 DEF Xor
<1> QED BY <1>5, BitsMakeHalf DEF z

\* The bits of a message's type: the method's, with the class's two among them, below the two
\* for multiplexing.
TypeBit(method, class, plex, p) ==
     CASE p \in {1, 2, 4, 8} -> Bit(method, p)
       [] p = 16 -> class % 2
       [] p = 32 -> Bit(method, 16)
       [] p = 64 -> Bit(method, 32)
       [] p = 128 -> Bit(method, 64)
       [] p = 256 -> class \div 2
       [] p = 512 -> Bit(method, 128)
       [] p = 1024 -> Bit(method, 256)
       [] p = 2048 -> Bit(method, 512)
       [] p = 4096 -> Bit(method, 1024)
       [] p = 8192 -> Bit(method, 2048)
       [] p = 16384 -> plex % 2
       [] p = 32768 -> plex \div 2

TypeBits(method, class, plex) == [p \in Places |-> TypeBit(method, class, plex, p)]

MethodGroups(method) ==
  /\ \A p \in Places : Bit(method, p) \in {0, 1}
  /\ method % 16 = Bit(method, 1) + 2 * Bit(method, 2) + 4 * Bit(method, 4) + 8 * Bit(method, 8)
  /\ (method \div 16) % 8 = Bit(method, 16) + 2 * Bit(method, 32) + 4 * Bit(method, 64)
  /\ method \div 128 = Bit(method, 128) + 2 * Bit(method, 256) + 4 * Bit(method, 512)
                         + 8 * Bit(method, 1024) + 16 * Bit(method, 2048)
  /\ method = (method % 16) + 16 * ((method \div 16) % 8) + 128 * (method \div 128)

\* A method's 12 bits in the three groups that EncodeType() moves.
LEMMA MethodBits ==
  ASSUME NEW method \in Nat, method < 4096
  PROVE  MethodGroups(method)
<1>1. BitAt(method, 1, 2) BY BitAtHolds, SMT
<1>2. BitAt(method, 2, 4) BY BitAtHolds, SMT
<1>3. BitAt(method, 4, 8) BY BitAtHolds, SMT
<1>4. BitAt(method, 8, 16) BY BitAtHolds, SMT
<1>5. BitAt(method, 16, 32) BY BitAtHolds, SMT
<1>6. BitAt(method, 32, 64) BY BitAtHolds, SMT
<1>7. BitAt(method, 64, 128) BY BitAtHolds, SMT
<1>8. BitAt(method, 128, 256) BY BitAtHolds, SMT
<1>9. BitAt(method, 256, 512) BY BitAtHolds, SMT
<1>10. BitAt(method, 512, 1024) BY BitAtHolds, SMT
<1>11. BitAt(method, 1024, 2048) BY BitAtHolds, SMT
<1>12. BitAt(method, 2048, 4096) BY BitAtHolds, SMT
<1>13. method \div 1 = method BY DivOne
<1>14. method \div 4096 = 0
  <2>1. method = 4096 * 0 + method BY SMT
  <2> QED BY <2>1, DivUnique, SMT
<1> DEFINE low == Bit(method, 1) + 2 * Bit(method, 2) + 4 * Bit(method, 4) + 8 * Bit(method, 8)
           mid == Bit(method, 16) + 2 * Bit(method, 32) + 4 * Bit(method, 64)
<1>15. method = 16 * (method \div 16) + low BY <1>1, <1>2, <1>3, <1>4, <1>13, SMT DEF BitAt
<1>16. low \in Nat /\ low < 16 BY <1>1, <1>2, <1>3, <1>4, SMT DEF BitAt
<1>17. method \div 16 = 8 * (method \div 128) + mid BY <1>5, <1>6, <1>7, SMT DEF BitAt
<1>18. mid \in Nat /\ mid < 8 BY <1>5, <1>6, <1>7, SMT DEF BitAt
<1>19. method \div 128 = Bit(method, 128) + 2 * Bit(method, 256) + 4 * Bit(method, 512)
                                + 8 * Bit(method, 1024) + 16 * Bit(method, 2048)
  <2> DEFINE q128 == method \div 128
             q256 == method \div 256
             q512 == method \div 512
             q1024 == method \div 1024
             q2048 == method \div 2048
             m128 == Bit(method, 128)
             m256 == Bit(method, 256)
             m512 == Bit(method, 512)
             m1024 == Bit(method, 1024)
             m2048 == Bit(method, 2048)
  <2>1. q128 = m128 + 2 * q256 /\ m128 \in {0, 1} /\ q256 \in Nat BY <1>8 DEF BitAt
  <2>2. q256 = m256 + 2 * q512 /\ m256 \in {0, 1} /\ q512 \in Nat BY <1>9 DEF BitAt
  <2>3. q512 = m512 + 2 * q1024 /\ m512 \in {0, 1} /\ q1024 \in Nat BY <1>10 DEF BitAt
  <2>4. q1024 = m1024 + 2 * q2048 /\ m1024 \in {0, 1} /\ q2048 \in Nat
    BY <1>11 DEF BitAt
  <2>5. q2048 = m2048 + 2 * 0 /\ m2048 \in {0, 1} BY <1>12, <1>14 DEF BitAt
  <2> HIDE DEF q128, q256, q512, q1024, q2048, m128, m256, m512, m1024, m2048
  <2>6. q512 = m512 + 2 * m1024 + 4 * m2048 BY <2>3, <2>4, <2>5, SMT
  <2>7. q128 = m128 + 2 * m256 + 4 * q512 BY <2>1, <2>2, SMT
  <2>8. q128 = m128 + 2 * m256 + 4 * m512 + 8 * m1024 + 16 * m2048
    BY <2>1, <2>2, <2>3, <2>4, <2>5, <2>6, <2>7, SMT
  <2> QED BY <2>8 DEF q128, m128, m256, m512, m1024, m2048
<1>20. method \div 16 \in Nat /\ method \div 128 \in Nat BY <1>4, <1>7 DEF BitAt
<1> HIDE DEF low, mid
<1>21. method % 16 = low BY <1>15, <1>16, <1>20, DivUnique, SMT
<1>22. (method \div 16) % 8 = mid BY <1>17, <1>18, <1>20, DivUnique, SMT
<1>23. method = low + 16 * mid + 128 * (method \div 128) BY <1>15, <1>16, <1>17, <1>18, <1>20, SMT
<1>24. \A p \in Places : Bit(method, p) \in {0, 1}
  <2>1. method \in Half BY SMT DEF Half
  <2> QED BY <2>1, PlaceBits
<1> QED BY <1>19, <1>21, <1>22, <1>23, <1>24 DEF low, mid, MethodGroups

\* EncodeType() and the bits for multiplexing put every bit where TypeBits says.
LEMMA TypeIsItsBits ==
  ASSUME NEW method \in Nat, method < 4096, NEW class \in 0..3, NEW plex \in 0..3
  PROVE  /\ TypeBits(method, class, plex) \in [Places -> {0, 1}]
         /\ EncodeType(method, class) + 16384 * plex = BitSum(TypeBits(method, class, plex))
<1> DEFINE b == TypeBits(method, class, plex)
           low == method % 16
           mid == (method \div 16) % 8
           high == method \div 128
<1>1. /\ \A p \in Places : Bit(method, p) \in {0, 1}
      /\ low = Bit(method, 1) + 2 * Bit(method, 2) + 4 * Bit(method, 4) + 8 * Bit(method, 8)
      /\ mid = Bit(method, 16) + 2 * Bit(method, 32) + 4 * Bit(method, 64)
      /\ high = Bit(method, 128) + 2 * Bit(method, 256) + 4 * Bit(method, 512)
                                + 8 * Bit(method, 1024) + 16 * Bit(method, 2048)
  <2>1. MethodGroups(method) BY MethodBits
  <2> QED BY <2>1 DEF MethodGroups
<1>2. /\ class % 2 \in {0, 1} /\ class \div 2 \in {0, 1} /\ plex % 2 \in {0, 1}
      /\ plex \div 2 \in {0, 1} /\ plex = (plex % 2) + 2 * (plex \div 2)
  BY SMT
<1>3. /\ b[1] = Bit(method, 1) /\ b[2] = Bit(method, 2) /\ b[4] = Bit(method, 4)
      /\ b[8] = Bit(method, 8) /\ b[16] = class % 2 /\ b[32] = Bit(method, 16)
      /\ b[64] = Bit(method, 32) /\ b[128] = Bit(method, 64)
  BY DEF TypeBits, TypeBit, Places
<1>4. /\ b[256] = class \div 2 /\ b[512] = Bit(method, 128) /\ b[1024] = Bit(method, 256)
      /\ b[2048] = Bit(method, 512) /\ b[4096] = Bit(method, 1024)
      /\ b[8192] = Bit(method, 2048) /\ b[16384] = plex % 2 /\ b[32768] = plex \div 2
  BY DEF TypeBits, TypeBit, Places
<1>5. EncodeType(method, class)
        = low + 16 * (class % 2) + 32 * mid + 256 * (class \div 2) + 512 * high
  BY DEF EncodeType
<1>6. b = [p \in Places |-> b[p]] BY DEF TypeBits
<1> HIDE DEF b, low, mid, high
<1>7. \A p \in Places : b[p] \in {0, 1} BY <1>1, <1>2, <1>3, <1>4 DEF Places
<1>8. b[1] + 2 * b[2] + 4 * b[4] + 8 * b[8] + 16 * b[16] + 32 * b[32] + 64 * b[64] + 128 * b[128]
        = low + 16 * (class % 2) + 32 * mid
  BY <1>1, <1>2, <1>3, SMTT(30) DEF Places
<1>9. b[256] + 2 * b[512] + 4 * b[1024] + 8 * b[2048] + 16 * b[4096] + 32 * b[8192]
         + 64 * b[16384] + 128 * b[32768]
        = (class \div 2) + 2 * high + 64 * plex
  BY <1>1, <1>2, <1>4, SMTT(30) DEF Places
<1>10. low \in Nat /\ mid \in Nat /\ high \in Nat BY DivMod, SMT DEF low, mid, high
<1>11. BitSum(b) = low + 16 * (class % 2) + 32 * mid + 256 * ((class \div 2) + 2 * high + 64 * plex)
  BY <1>8, <1>9 DEF BitSum
<1>12. BitSum(b) = EncodeType(method, class) + 16384 * plex BY <1>2, <1>5, <1>10, <1>11, SMT
<1> QED BY <1>6, <1>7, <1>12 DEF b

\* The class and the multiplexing bits are read as they were written, and no other method is
\* taken for BIND although decode_method() puts two of a method's bits in one place.
LEMMA HeaderRead ==
  ASSUME NEW method \in Nat, method < 4096, NEW class \in 0..3, NEW plex \in 0..3,
         NEW type, type = EncodeType(method, class) + 16384 * plex
  PROVE  /\ decode_plex(type) = plex
         /\ decode_class(type) = class
         /\ decode_method(type) = BIND_METHOD <=> method = 1
<1> DEFINE b == TypeBits(method, class, plex)
           M(p) == Bit(method, p)
<1>1. b \in [Places -> {0, 1}] /\ type = BitSum(b) BY TypeIsItsBits
<1>2. \A p \in Places : Bit(type, p) = b[p]
  <2> HIDE DEF b
  <2> QED BY <1>1, BitsOfSum
<1>3. /\ b[16] = class % 2 /\ b[32] = M(16) /\ b[64] = M(32) /\ b[128] = M(64)
      /\ b[256] = class \div 2 /\ b[512] = M(128) /\ b[1024] = M(256) /\ b[2048] = M(512)
      /\ b[4096] = M(1024) /\ b[8192] = M(2048) /\ b[16384] = plex % 2 /\ b[32768] = plex \div 2
  BY DEF TypeBits, TypeBit, Places
<1>4. /\ Bit(type, 16) = class % 2 /\ Bit(type, 256) = class \div 2
      /\ Bit(type, 16384) = plex % 2 /\ Bit(type, 32768) = plex \div 2
  <2> HIDE DEF b
  <2> QED BY <1>2, <1>3 DEF Places
<1>5. /\ Bit(type, 32) = M(16) /\ Bit(type, 64) = M(32) /\ Bit(type, 128) = M(64)
      /\ Bit(type, 512) = M(128) /\ Bit(type, 1024) = M(256) /\ Bit(type, 2048) = M(512)
      /\ Bit(type, 4096) = M(1024) /\ Bit(type, 8192) = M(2048)
  <2> HIDE DEF b, M
  <2> QED BY <1>2, <1>3 DEF Places
<1>6. decode_plex(type) = plex
  <2>1. (plex % 2) + 2 * (plex \div 2) = plex BY SMT
  <2> QED BY <1>4, <2>1 DEF decode_plex
<1>7. decode_class(type) = class
  <2>1. (class % 2) + 2 * (class \div 2) = class BY SMT
  <2> QED BY <1>4, <2>1 DEF decode_class
<1>8. decode_method(type) = BIND_METHOD <=> method = 1
  <2> DEFINE low == method % 16
             mid == (method \div 16) % 8
             high == method \div 128
             shared == IF M(512) = 1 \/ M(1024) = 1 THEN 1024 ELSE 0
             rest == 16 * mid + 128 * M(128) + 256 * M(256) + 2048 * M(2048) + shared
  <2>1. MethodGroups(method) BY MethodBits
  <2>2. /\ M(16) \in {0, 1} /\ M(32) \in {0, 1} /\ M(64) \in {0, 1} /\ M(128) \in {0, 1}
        /\ M(256) \in {0, 1} /\ M(512) \in {0, 1} /\ M(1024) \in {0, 1} /\ M(2048) \in {0, 1}
    BY <2>1 DEF MethodGroups, Places
  <2>3. /\ mid = M(16) + 2 * M(32) + 4 * M(64)
        /\ high = M(128) + 2 * M(256) + 4 * M(512) + 8 * M(1024) + 16 * M(2048)
        /\ method = low + 16 * mid + 128 * high
    BY <2>1 DEF MethodGroups
  <2>4. type % 16 = low /\ low \in Nat /\ low < 16
    <3>1. low \in Nat /\ low < 16 BY DivMod, SMT
    <3>2. mid \in Nat /\ high \in Nat
      <4>1. method \div 16 \in Nat BY DivMod, SMT
      <4> QED BY <4>1, DivMod, SMT
    <3>3. class % 2 \in Nat /\ class \div 2 \in Nat BY SMT
    <3>4. type = low + 16 * (class % 2) + 32 * mid + 256 * (class \div 2) + 512 * high + 16384 * plex
      BY DEF EncodeType
    <3> DEFINE c0 == class % 2
               c1 == class \div 2
               above == c0 + 2 * mid + 16 * c1 + 32 * high + 1024 * plex
    <3> HIDE DEF low, mid, high, c0, c1
    <3>5. type = 16 * above + low /\ above \in Nat /\ type \in Nat
      BY <3>1, <3>2, <3>3, <3>4, SMT DEF c0, c1
    <3> HIDE DEF above
    <3>6. type % 16 = low BY <3>1, <3>5, DivUnique, SMT
    <3> QED BY <3>1, <3>6
  <2>5. decode_method(type)
          = low + (16 * M(16) + 32 * M(32) + 64 * M(64))
              + (128 * M(128) + 256 * M(256) + 2048 * M(2048)) + shared
    BY <1>5, <2>4 DEF decode_method
  <2> HIDE DEF M, low, mid, high
  <2>6. shared \in {0, 1024} /\ (shared = 0 <=> M(512) = 0 /\ M(1024) = 0) BY <2>2
  <2> HIDE DEF shared
  <2>7. /\ mid \in Nat /\ high \in Nat
        /\ high = 0 <=> M(128) = 0 /\ M(256) = 0 /\ M(512) = 0 /\ M(1024) = 0 /\ M(2048) = 0
    <3>1. mid \in Nat
      <4>1. M(16) \in {0, 1} /\ M(32) \in {0, 1} /\ M(64) \in {0, 1} BY <2>2
      <4>2. mid = M(16) + 2 * M(32) + 4 * M(64) BY <2>3
      <4> QED BY <4>1, <4>2, SMT
    <3>2. /\ M(128) \in {0, 1} /\ M(256) \in {0, 1} /\ M(512) \in {0, 1} /\ M(1024) \in {0, 1}
          /\ M(2048) \in {0, 1}
      BY <2>2
    <3>3. high = M(128) + 2 * M(256) + 4 * M(512) + 8 * M(1024) + 16 * M(2048) BY <2>3
    <3>4. high \in Nat BY <3>2, <3>3, SMT
    <3>5. high = 0 <=> M(128) = 0 /\ M(256) = 0 /\ M(512) = 0 /\ M(1024) = 0 /\ M(2048) = 0
      BY <3>2, <3>3, SMT
    <3> QED BY <3>1, <3>4, <3>5
  <2>8. decode_method(type) = low + rest
    <3>1. mid = M(16) + 2 * M(32) + 4 * M(64) BY <2>3
    <3>2. 16 * mid = 16 * M(16) + 32 * M(32) + 64 * M(64)
      <4>1. M(16) \in {0, 1} /\ M(32) \in {0, 1} /\ M(64) \in {0, 1} BY <2>2
      <4> QED BY <4>1, <3>1, SMT
    <3>3. M(128) \in {0, 1} /\ M(256) \in {0, 1} /\ M(2048) \in {0, 1} BY <2>2
    <3> QED BY <2>4, <2>5, <2>6, <2>7, <3>2, <3>3, SMT
  <2>9. rest \in Nat /\ (rest = 0 <=> mid = 0 /\ high = 0) /\ (rest # 0 => rest >= 16)
    BY <2>2, <2>6, <2>7, SMT
  <2> HIDE DEF rest
  <2>10. method = 1 <=> low = 1 /\ mid = 0 /\ high = 0
    <3>1. method = low + 16 * mid + 128 * high BY <2>3
    <3>2. low \in Nat /\ low < 16 /\ mid \in Nat /\ high \in Nat BY <2>4, <2>7
    <3> QED BY <3>1, <3>2, SMT
  <2> QED BY <2>4, <2>8, <2>9, <2>10, SMT DEF BIND_METHOD
<1> QED BY <1>6, <1>7, <1>8

\* What the header lets through is decided as the code of StunClient::on_recv() says.
LEMMA VerdictIsExpected ==
  ASSUME NEW method \in Methods, NEW class \in 0..3, NEW plex \in 0..3, NEW cookie, NEW body
  PROVE  Verdict(Packet(method, class, plex, cookie, body))
           = Expected(method, class, plex, cookie, DecodeBody(body))
<1> DEFINE packet == Packet(method, class, plex, cookie, body)
<1>1. method \in Nat /\ method < 4096 BY MappingsAssumption
<1>2. /\ packet.short = FALSE /\ packet.cookie = cookie /\ packet.body = body
      /\ packet.type = EncodeType(method, class) + 16384 * plex
  BY DEF Packet
<1> HIDE DEF packet
<1>3. /\ decode_plex(packet.type) = plex /\ decode_class(packet.type) = class
      /\ decode_method(packet.type) = BIND_METHOD <=> method = 1
  BY <1>1, <1>2, HeaderRead
<1>4. CASE plex # 0
  BY <1>2, <1>3, <1>4 DEF Verdict, Expected, packet
<1>5. CASE plex = 0 /\ (cookie # COOKIE \/ method # 1 \/ class # 2)
  BY <1>2, <1>3, <1>5 DEF Verdict, Expected, packet, SUCCESS_CLASS
<1>6. CASE plex = 0 /\ cookie = COOKIE /\ method = 1 /\ class = 2
  BY <1>2, <1>3, <1>6 DEF Verdict, Expected, packet, SUCCESS_CLASS
<1> QED BY <1>4, <1>5, <1>6

\* The words of a body that is put together from three parts.
LEMMA BodyWords ==
  ASSUME NEW before \in Seq(Word), NEW w \in Seq(Word), NEW after \in Seq(Word),
         NEW body, body = before \o w \o after
  PROVE  /\ DOMAIN body = 1..(Len(before) + Len(w) + Len(after))
         /\ \A k \in 1..Len(before) : body[k] = before[k]
         /\ \A k \in 1..Len(w) : body[Len(before) + k] = w[k]
<1> DEFINE front == before \o w
<1>1. /\ front \in Seq(Word) /\ Len(front) = Len(before) + Len(w)
      /\ \A k \in 1..Len(before) : front[k] = before[k]
      /\ \A k \in 1..Len(w) : front[Len(before) + k] = w[k]
  <2>1. /\ front \in Seq(Word) /\ Len(front) = Len(before) + Len(w)
        /\ \A k \in 1..Len(before) + Len(w) :
             front[k] = IF k <= Len(before) THEN before[k] ELSE w[k - Len(before)]
    BY ConcatProperties
  <2>2. Len(before) \in Nat /\ Len(w) \in Nat OBVIOUS
  <2> HIDE DEF front
  <2>3. \A k \in 1..Len(w) : front[Len(before) + k] = w[k]
    <3> SUFFICES ASSUME NEW k \in 1..Len(w) PROVE front[Len(before) + k] = w[k] OBVIOUS
    <3>1. Len(before) + k \in 1..Len(before) + Len(w) /\ ~ (Len(before) + k <= Len(before))
          /\ Len(before) + k - Len(before) = k
      BY <2>2, SMT
    <3> QED BY <2>1, <3>1
  <2> QED BY <2>1, <2>2, <2>3
<1>2. Len(before) \in Nat /\ Len(w) \in Nat /\ Len(after) \in Nat OBVIOUS
<1> HIDE DEF front
<1>3. /\ DOMAIN (front \o after) = 1..(Len(front) + Len(after))
      /\ \A k \in 1..Len(front) : (front \o after)[k] = front[k]
  <2>1. /\ front \o after \in Seq(Word) /\ Len(front \o after) = Len(front) + Len(after)
        /\ \A k \in 1..Len(front) + Len(after) :
             (front \o after)[k] = IF k <= Len(front) THEN front[k] ELSE after[k - Len(front)]
    <3>1. front \in Seq(Word) BY <1>1
    <3> QED BY <3>1, ConcatProperties
  <2>2. Len(front) \in Nat BY <1>1
  <2> QED BY <1>2, <2>1, <2>2
<1>4. body = front \o after BY DEF front
<1> QED BY <1>1, <1>2, <1>3, <1>4

\* The search ends at the first attribute that has an address.
FoundFirst(body, i, w) ==
  /\ i \in Nat /\ \A k \in 1..Len(w) : body[i + k - 1] = w[k]
  /\ DecodeBody(body) = DecodeAttribute(body, i)

LEMMA FirstAddress ==
  ASSUME NEW before \in Before, NEW w \in Seq(Word), NEW after \in After, w # <<>>,
         w[1][1] \in {ATTRIB_MAPPED_ADDRESS, ATTRIB_XOR_MAPPED_ADDRESS}
  PROVE  FoundFirst(before \o w \o after, Len(before) + 1, w)
<1> DEFINE body == before \o w \o after
           i == Len(before) + 1
<1>1. before \in Seq(Word) /\ after \in Seq(Word) /\ AddressWords(before) = {}
  BY BodiesAssumption
<1>2. Len(before) \in Nat /\ Len(w) \in Nat /\ Len(w) >= 1 /\ Len(after) \in Nat BY <1>1
<1>3. /\ DOMAIN body = 1..(Len(before) + Len(w) + Len(after))
      /\ \A k \in 1..Len(before) : body[k] = before[k]
      /\ \A k \in 1..Len(w) : body[Len(before) + k] = w[k]
  BY <1>1, BodyWords
<1>11. i = Len(before) + 1 OBVIOUS
<1> HIDE DEF body, i
<1>4. \A k \in 1..Len(w) : body[i + k - 1] = w[k] /\ i + k - 1 = Len(before) + k
  BY <1>2, <1>3, <1>11
<1>5. body[i] = w[1] /\ i \in DOMAIN body BY <1>2, <1>3, <1>11
<1>6. i \in AddressWords(body) BY <1>5 DEF AddressWords
<1>7. \A j \in AddressWords(body) : j \in Nat /\ i <= j
  <2> SUFFICES ASSUME NEW j \in DOMAIN body, j < i,
                      body[j][1] \in {ATTRIB_MAPPED_ADDRESS, ATTRIB_XOR_MAPPED_ADDRESS}
               PROVE  FALSE
    BY <1>2, <1>3, <1>11 DEF AddressWords
  <2>1. j \in 1..Len(before) /\ j \in DOMAIN before BY <1>1, <1>2, <1>3, <1>11
  <2>2. j \in AddressWords(before) BY <1>3, <2>1 DEF AddressWords
  <2> QED BY <1>1, <2>2
<1>8. FirstAddressWord(body) = i
  <2> DEFINE A == AddressWords(body)
             c == CHOOSE c \in A : \A j \in A : c <= j
  <2>1. i \in A /\ \A j \in A : j \in Nat /\ i <= j BY <1>6, <1>7
  <2> HIDE DEF A
  <2>2. c \in A /\ \A j \in A : c <= j BY <2>1
  <2> HIDE DEF c
  <2>3. c = i BY <1>2, <1>11, <2>1, <2>2
  <2> QED BY <2>3 DEF c, A, FirstAddressWord
<1>9. AddressWords(body) # {} BY <1>6
<1>10. i \in Nat /\ DecodeBody(body) = DecodeAttribute(body, i)
  BY <1>2, <1>8, <1>9, <1>11 DEF DecodeBody
<1>12. FoundFirst(body, i, w) BY <1>4, <1>10 DEF FoundFirst
<1> QED BY <1>12 DEF body, i

LEMMA Numbers ==
  /\ \A n \in {0, 1, 2, 32, 4, 8, 20} : n \in Half
  /\ COOKIE[1] \in Half /\ COOKIE[2] \in Half
BY DEF Half, COOKIE

\* An attribute with a mapped address in words: its type and length, the family and the port, and
\* the address.
LEMMA AttributeWords ==
  ASSUME NEW type \in Half, NEW family \in Half, NEW port \in Half, NEW ip \in Seq(Word),
         4 * (Len(ip) + 1) \in Half,
         NEW w, w = Words(Attribute(type, MappedValue(family, ip, port)))
  PROVE  /\ w \in Seq(Word) /\ w # <<>> /\ Len(w) = Len(ip) + 2
         /\ w[1] = <<type, 4 * (Len(ip) + 1)>> /\ w[2] = <<family, port>>
         /\ \A k \in 1..Len(ip) : w[k + 2] = ip[k]
<1> DEFINE head == <<<<family, port>>>>
           value == MappedValue(family, ip, port)
           first == <<<<type, 4 * (Len(ip) + 1)>>>>
<1>1. head \in Seq(Word) /\ Len(head) = 1 /\ head[1] = <<family, port>> BY DEF Word
<1>2. /\ value \in Seq(Word) /\ Len(value) = 1 + Len(ip)
      /\ \A k \in 1..1 + Len(ip) : value[k] = IF k <= 1 THEN head[1] ELSE ip[k - 1]
  <2>1. value = head \o ip BY DEF MappedValue
  <2> HIDE DEF head, value
  <2>2. head \in Seq(Word) BY <1>1
  <2>3. /\ head \o ip \in Seq(Word) /\ Len(head \o ip) = Len(head) + Len(ip)
        /\ \A k \in 1..Len(head) + Len(ip) :
             (head \o ip)[k] = IF k <= Len(head) THEN head[k] ELSE ip[k - Len(head)]
    BY <2>2, ConcatProperties
  <2>4. Len(ip) \in Nat OBVIOUS
  <2>5. Len(head) = 1 BY <1>1
  <2>6. \A k \in 1..1 + Len(ip) : k <= 1 => k = 1 BY <2>4
  <2> QED BY <2>1, <2>3, <2>5, <2>6
<1>3. Len(ip) \in Nat OBVIOUS
<1>4. first \in Seq(Word) /\ Len(first) = 1 /\ first[1] = <<type, 4 * (Len(ip) + 1)>> BY DEF Word
<1>5. w = first \o value
  <2>1. Len(value) = Len(ip) + 1 BY <1>2, <1>3
  <2> HIDE DEF value
  <2>2. w = <<<<type, 4 * Len(value)>>>> \o value BY DEF Words, Attribute, value
  <2> QED BY <2>1, <2>2
<1> HIDE DEF head, value, first
<1>6. /\ w \in Seq(Word) /\ Len(w) = 1 + Len(value)
      /\ \A k \in 1..1 + Len(value) : w[k] = IF k <= 1 THEN first[1] ELSE value[k - 1]
  <2>1. value \in Seq(Word) /\ first \in Seq(Word) BY <1>2, <1>4
  <2>2. /\ first \o value \in Seq(Word) /\ Len(first \o value) = Len(first) + Len(value)
        /\ \A k \in 1..Len(first) + Len(value) :
             (first \o value)[k] = IF k <= Len(first) THEN first[k] ELSE value[k - Len(first)]
    BY <2>1, ConcatProperties
  <2>3. Len(value) \in Nat BY <2>1
  <2>4. Len(first) = 1 BY <1>4
  <2>5. \A k \in 1..1 + Len(value) : k <= 1 => k = 1 BY <2>3
  <2> QED BY <1>5, <2>2, <2>4, <2>5
<1>7. Len(w) = Len(ip) + 2 /\ w # <<>> BY <1>2, <1>3, <1>6
<1>8. w[1] = first[1] /\ w[2] = value[1] /\ value[1] = head[1] BY <1>2, <1>3, <1>6
<1>9. \A k \in 1..Len(ip) : w[k + 2] = ip[k]
  <2> SUFFICES ASSUME NEW k \in 1..Len(ip) PROVE w[k + 2] = ip[k] OBVIOUS
  <2>1. k + 2 \in 1..1 + Len(value) /\ ~ (k + 2 <= 1) /\ k + 2 - 1 = k + 1 BY <1>2, <1>3
  <2>2. k + 1 \in 1..1 + Len(ip) /\ ~ (k + 1 <= 1) /\ k + 1 - 1 = k BY <1>3
  <2>3. w[k + 2] = value[k + 1] BY <1>6, <2>1
  <2>4. value[k + 1] = ip[k] BY <1>2, <2>2
  <2> QED BY <2>3, <2>4
<1> QED BY <1>1, <1>4, <1>6, <1>7, <1>8, <1>9

LEMMA FixedLength ==
  ASSUME NEW n \in Nat, NEW ip \in [1..n -> Word]
  PROVE  ip \in Seq(Word) /\ Len(ip) = n
<1>1. ip \in Seq(Word) BY SeqDef
<1>2. DOMAIN ip = 1..n /\ DOMAIN ip = 1..Len(ip) /\ Len(ip) \in Nat BY <1>1, LenProperties
<1> QED BY <1>1, <1>2

\* The words of an attribute as the decoders find them at its place in the body.
At(body, i, type, family, port, ip) ==
  /\ i \in Nat /\ body[i] = <<type, 4 * (Len(ip) + 1)>> /\ body[i + 1] = <<family, port>>
  /\ \A k \in 1..Len(ip) : body[i + 1 + k] = ip[k]

Found(body, type, family, port, ip) ==
  \E i : At(body, i, type, family, port, ip) /\ DecodeBody(body) = DecodeAttribute(body, i)

LEMMA FoundAt ==
  ASSUME NEW type \in {ATTRIB_MAPPED_ADDRESS, ATTRIB_XOR_MAPPED_ADDRESS}, NEW family \in Half,
         NEW port \in Half, NEW ip \in Seq(Word), Len(ip) <= 4,
         NEW before \in Before, NEW after \in After
  PROVE  Found(before \o Words(Attribute(type, MappedValue(family, ip, port))) \o after,
               type, family, port, ip)
<1> DEFINE w == Words(Attribute(type, MappedValue(family, ip, port)))
           i == Len(before) + 1
           body == before \o w \o after
<1>1. type \in Half BY Numbers DEF ATTRIB_MAPPED_ADDRESS, ATTRIB_XOR_MAPPED_ADDRESS
<1>2. Len(ip) \in Nat /\ 4 * (Len(ip) + 1) \in Half BY DEF Half
<1>3. /\ w \in Seq(Word) /\ w # <<>> /\ Len(w) = Len(ip) + 2
      /\ w[1] = <<type, 4 * (Len(ip) + 1)>> /\ w[2] = <<family, port>>
      /\ \A k \in 1..Len(ip) : w[k + 2] = ip[k]
  BY <1>1, <1>2, AttributeWords, SMTT(30)
<1>4. w[1][1] \in {ATTRIB_MAPPED_ADDRESS, ATTRIB_XOR_MAPPED_ADDRESS} BY <1>3
<1> HIDE DEF w
<1>5. body = before \o w \o after OBVIOUS
<1> HIDE DEF i, body
<1>10. i = Len(before) + 1 BY DEF i
<1>6. /\ i \in Nat /\ \A k \in 1..Len(w) : body[i + k - 1] = w[k]
      /\ DecodeBody(body) = DecodeAttribute(body, i)
  <2>1. w \in Seq(Word) /\ w # <<>> BY <1>3
  <2>2. FoundFirst(before \o w \o after, Len(before) + 1, w) BY <2>1, <1>4, FirstAddress
  <2> QED BY <2>2, <1>5, <1>10 DEF FoundFirst
<1>7. body[i] = w[1] /\ body[i + 1] = w[2]
  <2>1. 1 \in 1..Len(w) /\ 2 \in 1..Len(w) /\ i + 1 - 1 = i /\ i + 2 - 1 = i + 1
    BY <1>2, <1>3, <1>6
  <2> QED BY <1>6, <2>1
<1>8. \A k \in 1..Len(ip) : body[i + 1 + k] = ip[k]
  <2> SUFFICES ASSUME NEW k \in 1..Len(ip) PROVE body[i + 1 + k] = ip[k] OBVIOUS
  <2>1. k + 2 \in 1..Len(w) /\ i + (k + 2) - 1 = i + 1 + k BY <1>2, <1>3, <1>6
  <2> QED BY <1>3, <1>6, <2>1
<1>9. At(body, i, type, family, port, ip) BY <1>3, <1>6, <1>7, <1>8 DEF At
<1>11. Found(body, type, family, port, ip) BY <1>6, <1>9 DEF Found
<1> QED BY <1>11 DEF body, w

LEMMA AtRead ==
  ASSUME NEW body, NEW i, NEW type \in {ATTRIB_MAPPED_ADDRESS, ATTRIB_XOR_MAPPED_ADDRESS},
         NEW family \in {IPV4, IPV6}, NEW port \in Half, NEW ip \in Seq(Word),
         At(body, i, type, family, port, ip)
  PROVE  /\ Length(body, i) = 4 * (Len(ip) + 1) /\ Family(body, i) = family
         /\ PortWord(body, i) = port
         /\ DecodeAttribute(body, i) = IF type = ATTRIB_MAPPED_ADDRESS
                                       THEN decode_mapped_address(body, i)
                                       ELSE decode_xor_mapped_address(body, i)
<1>1. Length(body, i) = 4 * (Len(ip) + 1) BY DEF At, Length
<1>2. body[i + 1][1] = family /\ body[i + 1][2] = port BY DEF At
<1>3. family % 256 = family BY DEF IPV4, IPV6
<1>4. body[i][1] = type BY DEF At
<1> QED BY <1>1, <1>2, <1>3, <1>4 DEF Family, PortWord, DecodeAttribute

\* decode_mapped_address() on an IPv4 address.
LEMMA MappedRead ==
  ASSUME NEW ip \in [1..1 -> Word], NEW port \in Half, NEW body, NEW i,
         At(body, i, ATTRIB_MAPPED_ADDRESS, IPV4, port, ip)
  PROVE  DecodeAttribute(body, i) = Address(ip, port)
<1>1. ip \in Seq(Word) /\ Len(ip) = 1 BY FixedLength
<1>2. /\ Length(body, i) = 8 /\ Family(body, i) = IPV4 /\ PortWord(body, i) = port
      /\ DecodeAttribute(body, i) = decode_mapped_address(body, i)
  <2>1. /\ Length(body, i) = 4 * (Len(ip) + 1) /\ Family(body, i) = IPV4
        /\ PortWord(body, i) = port
        /\ DecodeAttribute(body, i) = decode_mapped_address(body, i)
    BY <1>1, AtRead
  <2> QED BY <1>1, <2>1
<1>3. body[i + 2] = ip[1]
  <2>1. i + 1 + 1 = i + 2 BY DEF At
  <2> QED BY <1>1, <2>1 DEF At
<1>4. <<ip[1]>> = ip OBVIOUS
<1>5. decode_mapped_address(body, i) = Address(<<body[i + 2]>>, PortWord(body, i))
  BY <1>2 DEF decode_mapped_address, Holds, IPV4, IPV6
<1> QED BY <1>2, <1>3, <1>4, <1>5

\* decode_mapped_address() on an IPv6 address.
LEMMA Mapped6Read ==
  ASSUME NEW ip \in [1..4 -> Word], NEW port \in Half, NEW body, NEW i,
         At(body, i, ATTRIB_MAPPED_ADDRESS, IPV6, port, ip)
  PROVE  DecodeAttribute(body, i) = Address(ip, port)
<1>1. ip \in Seq(Word) /\ Len(ip) = 4 BY FixedLength
<1>2. /\ Length(body, i) = 20 /\ Family(body, i) = IPV6 /\ PortWord(body, i) = port
      /\ DecodeAttribute(body, i) = decode_mapped_address(body, i)
  <2>1. /\ Length(body, i) = 4 * (Len(ip) + 1) /\ Family(body, i) = IPV6
        /\ PortWord(body, i) = port
        /\ DecodeAttribute(body, i) = decode_mapped_address(body, i)
    BY <1>1, AtRead
  <2> QED BY <1>1, <2>1
<1>3. SubSeq(body, i + 2, i + 5) = ip
  <2>1. i \in Nat /\ \A k \in 1..4 : body[i + 1 + k] = ip[k] BY <1>1 DEF At
  <2>2. SubSeq(body, i + 2, i + 5) = [k \in 1..(i + 5 - (i + 2) + 1) |-> body[k + (i + 2) - 1]]
    BY <2>1
  <2>3. i + 5 - (i + 2) + 1 = 4 /\ \A k \in 1..4 : k + (i + 2) - 1 = i + 1 + k BY <2>1
  <2>4. [k \in 1..4 |-> body[k + (i + 2) - 1]] = ip BY <2>1, <2>3
  <2> QED BY <2>2, <2>3, <2>4
<1>4. decode_mapped_address(body, i) = Address(SubSeq(body, i + 2, i + 5), PortWord(body, i))
  BY <1>2 DEF decode_mapped_address, Holds, IPV4, IPV6
<1> QED BY <1>2, <1>3, <1>4

\* decode_xor_mapped_address() on an IPv4 address that RFC 5389 has masked with the cookie.
LEMMA XorMappedRead ==
  ASSUME NEW ip \in [1..1 -> Word], NEW port \in Half, NEW body, NEW i,
         At(body, i, ATTRIB_XOR_MAPPED_ADDRESS, IPV4, Xor(port, COOKIE[1]),
            <<XorWord(ip[1], COOKIE)>>)
  PROVE  DecodeAttribute(body, i) = Address(ip, port)
<1> DEFINE masked == <<XorWord(ip[1], COOKIE)>>
           maskedPort == Xor(port, COOKIE[1])
<1>1. ip[1] \in Word /\ ip[1][1] \in Half /\ ip[1][2] \in Half BY DEF Word
<1>2. maskedPort \in Half /\ XorWord(ip[1], COOKIE) \in Word
  BY <1>1, Numbers, XorBits DEF XorWord, Word
<1>3. masked \in Seq(Word) /\ Len(masked) = 1 BY <1>2
<1>4. ATTRIB_XOR_MAPPED_ADDRESS # ATTRIB_MAPPED_ADDRESS
  BY DEF ATTRIB_XOR_MAPPED_ADDRESS, ATTRIB_MAPPED_ADDRESS
<1>5. /\ Length(body, i) = 8 /\ Family(body, i) = IPV4 /\ PortWord(body, i) = maskedPort
      /\ DecodeAttribute(body, i) = decode_xor_mapped_address(body, i)
  <2> HIDE DEF masked, maskedPort
  <2>0. At(body, i, ATTRIB_XOR_MAPPED_ADDRESS, IPV4, maskedPort, masked) BY DEF masked, maskedPort
  <2>1. /\ Length(body, i) = 4 * (Len(masked) + 1) /\ Family(body, i) = IPV4
        /\ PortWord(body, i) = maskedPort
        /\ DecodeAttribute(body, i) = decode_xor_mapped_address(body, i)
    BY <1>2, <1>3, <1>4, <2>0, AtRead
  <2> QED BY <1>3, <2>1
<1>6. body[i + 2] = XorWord(ip[1], COOKIE)
  <2>1. i + 1 + 1 = i + 2 BY DEF At
  <2> QED BY <1>3, <2>1 DEF At
<1>7. XorWord(XorWord(ip[1], COOKIE), COOKIE) = ip[1]
  <2> DEFINE a == ip[1][1]
             c == ip[1][2]
  <2>1. /\ XorWord(ip[1], COOKIE)[1] = Xor(a, COOKIE[1])
        /\ XorWord(ip[1], COOKIE)[2] = Xor(c, COOKIE[2])
    BY DEF XorWord
  <2>2. /\ Xor(Xor(a, COOKIE[1]), COOKIE[1]) = a /\ Xor(Xor(c, COOKIE[2]), COOKIE[2]) = c
    BY <1>1, Numbers, XorTwice
  <2>3. XorWord(XorWord(ip[1], COOKIE), COOKIE) = <<a, c>> BY <2>1, <2>2 DEF XorWord
  <2>4. <<a, c>> = ip[1] BY <1>1 DEF Word
  <2> QED BY <2>3, <2>4
<1>8. Xor(maskedPort, COOKIE[1]) = port BY Numbers, XorTwice
<1>9. <<ip[1]>> = ip OBVIOUS
<1>10. decode_xor_mapped_address(body, i)
         = Address(<<XorWord(body[i + 2], COOKIE)>>, Xor(PortWord(body, i), COOKIE[1]))
  BY <1>5 DEF decode_xor_mapped_address, Holds, IPV4, IPV6
<1> QED BY <1>5, <1>6, <1>7, <1>8, <1>9, <1>10

\* decode_xor_mapped_address() gives up on an IPv6 address.
LEMMA XorMapped6Read ==
  ASSUME NEW ip \in [1..4 -> Word], NEW port \in Half, NEW body, NEW i,
         At(body, i, ATTRIB_XOR_MAPPED_ADDRESS, IPV6, port, ip)
  PROVE  DecodeAttribute(body, i) = NotImplemented
<1>1. ip \in Seq(Word) /\ Len(ip) = 4 BY FixedLength
<1>2. ATTRIB_XOR_MAPPED_ADDRESS # ATTRIB_MAPPED_ADDRESS
  BY DEF ATTRIB_XOR_MAPPED_ADDRESS, ATTRIB_MAPPED_ADDRESS
<1>3. /\ Length(body, i) = 20 /\ Family(body, i) = IPV6
      /\ DecodeAttribute(body, i) = decode_xor_mapped_address(body, i)
  <2>1. /\ Length(body, i) = 4 * (Len(ip) + 1) /\ Family(body, i) = IPV6
        /\ DecodeAttribute(body, i) = decode_xor_mapped_address(body, i)
    BY <1>1, <1>2, AtRead
  <2> QED BY <1>1, <2>1
<1> QED BY <1>3 DEF decode_xor_mapped_address, Holds, IPV4, IPV6

\* An address that is cut off behind the port is an error of the decoder.
LEMMA CutRead ==
  ASSUME NEW port \in Half, NEW body, NEW i,
         At(body, i, ATTRIB_MAPPED_ADDRESS, IPV4, port, <<>>)
  PROVE  DecodeAttribute(body, i) = Silent
<1>1. /\ Length(body, i) = 4 /\ Family(body, i) = IPV4
      /\ DecodeAttribute(body, i) = decode_mapped_address(body, i)
  <2> DEFINE ip == <<>>
  <2>1. ip \in Seq(Word) /\ Len(ip) = 0 OBVIOUS
  <2>2. At(body, i, ATTRIB_MAPPED_ADDRESS, IPV4, port, ip) OBVIOUS
  <2> HIDE DEF ip
  <2>3. /\ Length(body, i) = 4 * (Len(ip) + 1) /\ Family(body, i) = IPV4
        /\ DecodeAttribute(body, i) = decode_mapped_address(body, i)
    BY <2>1, <2>2, AtRead, ZenonT(40)
  <2> QED BY <2>1, <2>3
<1> QED BY <1>1 DEF decode_mapped_address, Holds, IPV4, IPV6

\* The first attribute with an address is read as it was meant.
LEMMA MappingRead ==
  ASSUME NEW before \in Before, NEW after \in After, NEW m \in Mappings
  PROVE  DecodeBody(before \o Words(m.attribute) \o after) = m.meant
<1> DEFINE body == before \o Words(m.attribute) \o after
<1>1. IPV4 \in Half /\ IPV6 \in Half /\ Ports \subseteq Half
  BY Numbers, MappingsAssumption DEF IPV4, IPV6
<1>2. /\ \A ip \in Ips : ip \in [1..1 -> Word] /\ ip \in Seq(Word) /\ Len(ip) = 1
      /\ \A ip \in Ip6s : ip \in [1..4 -> Word] /\ ip \in Seq(Word) /\ Len(ip) = 4
  <2>1. \A ip \in Ips : ip \in [1..1 -> Word] BY MappingsAssumption
  <2>2. \A ip \in Ip6s : ip \in [1..4 -> Word] BY MappingsAssumption
  <2>3. \A ip \in [1..1 -> Word] : ip \in Seq(Word) /\ Len(ip) = 1 BY FixedLength
  <2>4. \A ip \in [1..4 -> Word] : ip \in Seq(Word) /\ Len(ip) = 4 BY FixedLength
  <2> QED BY <2>1, <2>2, <2>3, <2>4
<1>8. \A ip \in Ips \cup Ip6s : ip \in Seq(Word) /\ Len(ip) <= 4
  <2>1. \A ip \in Ips \cup Ip6s : ip \in Seq(Word) /\ Len(ip) \in {1, 4} BY <1>2
  <2>2. \A n \in {1, 4} : n <= 4 OBVIOUS
  <2> QED BY <2>1, <2>2, Zenon
<1>3. CASE \E ip \in Ips, port \in Ports :
             m = Said(ATTRIB_MAPPED_ADDRESS, MappedValue(IPV4, ip, port), Address(ip, port))
  <2> PICK ip \in Ips, port \in Ports :
        m = Said(ATTRIB_MAPPED_ADDRESS, MappedValue(IPV4, ip, port), Address(ip, port))
    BY <1>3
  <2>1. /\ body = before \o Words(Attribute(ATTRIB_MAPPED_ADDRESS,
                                            MappedValue(IPV4, ip, port))) \o after
        /\ m.meant = Address(ip, port)
    BY DEF Said
  <2> HIDE DEF body
  <2>9. Found(body, ATTRIB_MAPPED_ADDRESS, IPV4, port, ip)
    <3>1. ip \in Seq(Word) /\ Len(ip) <= 4 /\ port \in Half BY <1>1, <1>8
    <3> QED BY <1>1, <2>1, <3>1, FoundAt
  <2>2. PICK i : /\ At(body, i, ATTRIB_MAPPED_ADDRESS, IPV4, port, ip)
                 /\ DecodeBody(body) = DecodeAttribute(body, i)
    BY <2>9 DEF Found
  <2>3. DecodeBody(body) = m.meant BY <1>1, <1>2, <2>1, <2>2, MappedRead
  <2> QED BY <2>3 DEF body
<1>4. CASE \E ip \in Ips, port \in Ports :
             m = Said(ATTRIB_XOR_MAPPED_ADDRESS, XorValue(ip, port), Address(ip, port))
  <2> PICK ip \in Ips, port \in Ports :
        m = Said(ATTRIB_XOR_MAPPED_ADDRESS, XorValue(ip, port), Address(ip, port))
    BY <1>4
  <2> DEFINE masked == <<XorWord(ip[1], COOKIE)>>
             maskedPort == Xor(port, COOKIE[1])
  <2>1. maskedPort \in Half /\ masked \in Seq(Word) /\ Len(masked) = 1
    <3>1. ip[1] \in Word /\ ip[1][1] \in Half /\ ip[1][2] \in Half BY <1>2 DEF Word
    <3>2. maskedPort \in Half /\ XorWord(ip[1], COOKIE) \in Word
      BY <1>1, <3>1, Numbers, XorBits DEF XorWord, Word
    <3> QED BY <3>2
  <2>2. XorValue(ip, port) = MappedValue(IPV4, masked, maskedPort) BY DEF XorValue, MappedValue
  <2> HIDE DEF masked, maskedPort
  <2>3. /\ body = before \o Words(Attribute(ATTRIB_XOR_MAPPED_ADDRESS,
                                             MappedValue(IPV4, masked, maskedPort))) \o after
        /\ m.meant = Address(ip, port)
    BY <2>2 DEF Said
  <2> HIDE DEF body
  <2>9. Found(body, ATTRIB_XOR_MAPPED_ADDRESS, IPV4, maskedPort, masked)
    <3>1. masked \in Seq(Word) /\ Len(masked) <= 4 BY <2>1
    <3> QED BY <1>1, <2>1, <2>3, <3>1, FoundAt
  <2>4. PICK i : /\ At(body, i, ATTRIB_XOR_MAPPED_ADDRESS, IPV4, maskedPort, masked)
                 /\ DecodeBody(body) = DecodeAttribute(body, i)
    BY <2>9 DEF Found
  <2>5. DecodeBody(body) = m.meant
    BY <1>1, <1>2, <2>3, <2>4, XorMappedRead DEF masked, maskedPort
  <2> QED BY <2>5 DEF body
<1>5. CASE \E ip \in Ip6s, port \in Ports :
             m = Said(ATTRIB_MAPPED_ADDRESS, MappedValue(IPV6, ip, port), Address(ip, port))
  <2> PICK ip \in Ip6s, port \in Ports :
        m = Said(ATTRIB_MAPPED_ADDRESS, MappedValue(IPV6, ip, port), Address(ip, port))
    BY <1>5
  <2>1. /\ body = before \o Words(Attribute(ATTRIB_MAPPED_ADDRESS,
                                            MappedValue(IPV6, ip, port))) \o after
        /\ m.meant = Address(ip, port)
    BY DEF Said
  <2> HIDE DEF body
  <2>9. Found(body, ATTRIB_MAPPED_ADDRESS, IPV6, port, ip)
    <3>1. ip \in Seq(Word) /\ Len(ip) <= 4 /\ port \in Half BY <1>1, <1>8
    <3> QED BY <1>1, <2>1, <3>1, FoundAt
  <2>2. PICK i : /\ At(body, i, ATTRIB_MAPPED_ADDRESS, IPV6, port, ip)
                 /\ DecodeBody(body) = DecodeAttribute(body, i)
    BY <2>9 DEF Found
  <2>3. DecodeBody(body) = m.meant BY <1>1, <1>2, <2>1, <2>2, Mapped6Read
  <2> QED BY <2>3 DEF body
<1>6. CASE \E ip \in Ip6s, port \in Ports :
             m = Said(ATTRIB_XOR_MAPPED_ADDRESS, MappedValue(IPV6, ip, port), NotImplemented)
  <2> PICK ip \in Ip6s, port \in Ports :
        m = Said(ATTRIB_XOR_MAPPED_ADDRESS, MappedValue(IPV6, ip, port), NotImplemented)
    BY <1>6
  <2>1. /\ body = before \o Words(Attribute(ATTRIB_XOR_MAPPED_ADDRESS,
                                            MappedValue(IPV6, ip, port))) \o after
        /\ m.meant = NotImplemented
    BY DEF Said
  <2> HIDE DEF body
  <2>9. Found(body, ATTRIB_XOR_MAPPED_ADDRESS, IPV6, port, ip)
    <3>1. ip \in Seq(Word) /\ Len(ip) <= 4 /\ port \in Half BY <1>1, <1>8
    <3> QED BY <1>1, <2>1, <3>1, FoundAt
  <2>2. PICK i : /\ At(body, i, ATTRIB_XOR_MAPPED_ADDRESS, IPV6, port, ip)
                 /\ DecodeBody(body) = DecodeAttribute(body, i)
    BY <2>9 DEF Found
  <2>3. DecodeBody(body) = m.meant BY <1>1, <1>2, <2>1, <2>2, XorMapped6Read
  <2> QED BY <2>3 DEF body
<1>7. CASE \E port \in Ports :
             m = Said(ATTRIB_MAPPED_ADDRESS, MappedValue(IPV4, <<>>, port), Silent)
  <2> PICK port \in Ports : m = Said(ATTRIB_MAPPED_ADDRESS, MappedValue(IPV4, <<>>, port), Silent)
    BY <1>7
  <2> DEFINE ip == <<>>
  <2>0. ip \in Seq(Word) /\ Len(ip) = 0 OBVIOUS
  <2>1. /\ body = before \o Words(Attribute(ATTRIB_MAPPED_ADDRESS,
                                            MappedValue(IPV4, ip, port))) \o after
        /\ m.meant = Silent
    BY DEF Said
  <2> HIDE DEF body, ip
  <2>9. Found(body, ATTRIB_MAPPED_ADDRESS, IPV4, port, ip)
    <3>1. ip \in Seq(Word) /\ Len(ip) <= 4 /\ port \in Half BY <1>1, <2>0
    <3> QED BY <1>1, <2>1, <3>1, FoundAt
  <2>2. PICK i : /\ At(body, i, ATTRIB_MAPPED_ADDRESS, IPV4, port, ip)
                 /\ DecodeBody(body) = DecodeAttribute(body, i)
    BY <2>9 DEF Found
  <2>3. DecodeBody(body) = m.meant BY <1>1, <2>1, <2>2, CutRead DEF ip
  <2> QED BY <2>3 DEF body
<1> QED BY <1>3, <1>4, <1>5, <1>6, <1>7 DEF Mappings

LEMMA NothingMapped ==
  ASSUME NEW before \in Before
  PROVE  DecodeBody(before) = Silent
BY BodiesAssumption DEF DecodeBody

LEMMA Decodes == DecodesWhatWasEncoded
<1> SUFFICES ASSUME NEW method \in Methods, NEW class \in 0..3, NEW plex \in 0..3,
                    NEW cookie \in Cookies, NEW before \in Before
             PROVE  /\ Verdict(Packet(method, class, plex, cookie, before))
                         = Expected(method, class, plex, cookie, Silent)
                    /\ \A after \in After, m \in Mappings :
                         Verdict(Packet(method, class, plex, cookie,
                                        before \o Words(m.attribute) \o after))
                           = Expected(method, class, plex, cookie, m.meant)
  BY DEF DecodesWhatWasEncoded
<1>1. Verdict(Packet(method, class, plex, cookie, before))
        = Expected(method, class, plex, cookie, Silent)
  BY VerdictIsExpected, NothingMapped
<1>2. ASSUME NEW after \in After, NEW m \in Mappings
      PROVE  Verdict(Packet(method, class, plex, cookie, before \o Words(m.attribute) \o after))
               = Expected(method, class, plex, cookie, m.meant)
  BY VerdictIsExpected, MappingRead
<1> QED BY <1>1, <1>2

\* The bit operations of the decoders read what RFC 5389 has a server write, for every method,
\* class, multiplexing and cookie, every address and port, whatever follows the attribute, and
\* however much precedes it that does not look like an address.
THEOREM MappedAddressRead == Spec => []ReadsWhatWasMapped
<1>1. ReadsWhatWasMapped BY Decodes DEF ReadsWhatWasMapped
<1> QED BY <1>1, PTL
=============================================================================
