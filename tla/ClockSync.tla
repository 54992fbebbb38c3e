------------------------------ MODULE ClockSync ------------------------------
(***************************************************************************)
(* base/ClockSynchronizer and base/TimeHandler: a peer stamps what it      *)
(* sends and receives, and learns from the stamps of its replies how long  *)
(* a round trip takes and by how much its clock differs from the host's.   *)
(* Every connection has a ClockSynchronizer with a mutex of its own; all   *)
(* share one TimeHandler, and the one that is connected to the host moves  *)
(* its time shift while the others take their stamps.                      *)
(*                                                                         *)
(* Up to Samples replies of the host calibrate the shift.  What comes      *)
(* after them is the AdamOptimizer's floating point, which is left out.    *)
(***************************************************************************)
EXTENDS Integers, FiniteSets

CONSTANTS HostRequests, OtherRequests,   \* the requests that can be outstanding, per connection
          Offsets,                       \* by how much the host's clock may be ahead
          Samples,                       \* 10 in updateDrift()
          MaxNow                         \* bound on the real time

ASSUME RequestsAssumption == IsFiniteSet(HostRequests) /\ HostRequests \cap OtherRequests = {}
ASSUME SamplesAssumption == Samples \in Nat \ {0} /\ MaxNow \in Nat /\ Offsets \subseteq Int

VARIABLES
  now,              \* the real time, which is also the remote clocks'
  offset,           \* how far this peer's clock is behind it
  timeShift,        \* TimeHandler::timeShift
  at,               \* at[r]: where r is
  half,             \* half[r]: the stamp being taken: the clock it read, and the shift at that time
  sendTime,         \* requestSendTimeMap
  receiptTime, replyTime,   \* the remote end's stamps
  trip,             \* history: real time of r's sending, receipt, and reply
  torn,             \* history: a stamp of r was taken while the shift changed
  count, baselineOffset,    \* of the synchronizer that is connected to the host
  skew              \* history: the sum of what its replies took longer than its requests

vars == <<now, offset, timeShift, at, half, sendTime, receiptTime, replyTime, trip, torn, count,
          baselineOffset, skew>>

Requests == HostRequests \cup OtherRequests
ConnectedToHost(r) == r \in HostRequests

\* The requests whose stamps are taken under the same clockMutex as r's.
Siblings(r) == IF ConnectedToHost(r) THEN HostRequests ELSE OtherRequests
MutexFree(r) == \A s \in Siblings(r) : at[s] \notin {"creating", "handling"}

NoStamp == [clock |-> 0, shift |-> 0]
NoTrip == [sent |-> 0, received |-> 0, replied |-> 0]

Init ==
  /\ now = 0
  /\ offset \in Offsets
  /\ timeShift = 0
  /\ at = [r \in Requests |-> "idle"]
  /\ half = [r \in Requests |-> NoStamp]
  /\ sendTime = [r \in Requests |-> 0]
  /\ receiptTime = [r \in Requests |-> 0]
  /\ replyTime = [r \in Requests |-> 0]
  /\ trip = [r \in Requests |-> NoTrip]
  /\ torn = [r \in Requests |-> FALSE]
  /\ count = 0
  /\ baselineOffset = 0
  /\ skew = 0

Tick ==
  /\ now < MaxNow
  /\ now' = now + 1
  /\ UNCHANGED <<offset, timeShift, at, half, sendTime, receiptTime, replyTime, trip, torn, count,
                 baselineOffset, skew>>

-----------------------------------------------------------------------------
(* A stamp is currentTimeMicros() + getTimeShift(): two calls, each under   *)
(* the TimeHandler's mutex.                                                 *)

\* currentTimeMicros(), and the shift it subtracted.
ReadClock == [clock |-> now - offset - timeShift, shift |-> timeShift]

\* Wrong variant: the shift is not added back.
StampShifted(r) == half[r].clock

Stamp(r) == half[r].clock + timeShift

Tears(r) == torn[r] \/ half[r].shift # timeShift

Outstanding == {r \in HostRequests : at[r] # "idle"}

BeginCreateRequest(r) ==
  /\ at[r] = "idle"
  /\ MutexFree(r)
  /\ ConnectedToHost(r) => count + Cardinality(Outstanding) < Samples
  /\ at' = [at EXCEPT ![r] = "creating"]
  /\ half' = [half EXCEPT ![r] = ReadClock]
  /\ trip' = [trip EXCEPT ![r].sent = now]
  /\ UNCHANGED <<now, offset, timeShift, sendTime, receiptTime, replyTime, torn, count,
                 baselineOffset, skew>>

CreateRequest(r) ==
  /\ at[r] = "creating"
  /\ at' = [at EXCEPT ![r] = "sent"]
  /\ sendTime' = [sendTime EXCEPT ![r] = Stamp(r)]
  /\ torn' = [torn EXCEPT ![r] = Tears(r)]
  /\ half' = [half EXCEPT ![r] = NoStamp]
  /\ UNCHANGED <<now, offset, timeShift, receiptTime, replyTime, trip, count, baselineOffset, skew>>

\* receiveRequest() and getReplyDuration() at the remote end.
ReceiveRequest(r) ==
  /\ at[r] = "sent"
  /\ at' = [at EXCEPT ![r] = "executing"]
  /\ receiptTime' = [receiptTime EXCEPT ![r] = now]
  /\ trip' = [trip EXCEPT ![r].received = now]
  /\ UNCHANGED <<now, offset, timeShift, half, sendTime, replyTime, torn, count, baselineOffset,
                 skew>>

GetReplyDuration(r) ==
  /\ at[r] = "executing"
  /\ at' = [at EXCEPT ![r] = "replied"]
  /\ replyTime' = [replyTime EXCEPT ![r] = now]
  /\ trip' = [trip EXCEPT ![r].replied = now]
  /\ UNCHANGED <<now, offset, timeShift, half, sendTime, receiptTime, torn, count, baselineOffset,
                 skew>>

BeginHandleReply(r) ==
  /\ at[r] = "replied"
  /\ MutexFree(r)
  /\ at' = [at EXCEPT ![r] = "handling"]
  /\ half' = [half EXCEPT ![r] = ReadClock]
  /\ UNCHANGED <<now, offset, timeShift, sendTime, receiptTime, replyTime, trip, torn, count,
                 baselineOffset, skew>>

-----------------------------------------------------------------------------
\* Integer division as C++ does it.
Quotient(a, b) == IF a >= 0 THEN a \div b ELSE -((-a) \div b)

TimeOffset(r, replyReceiveTime, ping_2) ==
  LET request == -((receiptTime[r] - sendTime[r]) - ping_2)
      reply == (replyReceiveTime - replyTime[r]) - ping_2
  IN Quotient(request + reply, 2)

Ping(r, replyReceiveTime) ==
  (replyReceiveTime - sendTime[r]) - (replyTime[r] - receiptTime[r])

\* Wrong variant: the average waits for one sample more than there are.
UpdateBaselineLate(timeOffset) ==
  LET sum == baselineOffset + timeOffset
      baseline == IF count + 1 <= Samples THEN sum ELSE Quotient(sum, Samples)
  IN /\ count' = count + 1
     /\ baselineOffset' = baseline
     /\ timeShift' = baseline

\* The baseline is the sum of the offsets until there are enough of them for an average; the shift
\* is set to it all along.
UpdateBaseline(timeOffset) ==
  LET sum == baselineOffset + timeOffset
      baseline == IF count + 1 < Samples THEN sum ELSE Quotient(sum, Samples)
  IN /\ count' = count + 1
     /\ baselineOffset' = baseline
     /\ timeShift' = baseline

\* How long the packets really took.
WayThere(r) == trip[r].received - trip[r].sent
WayBack(r) == (half[r].clock + half[r].shift + offset) - trip[r].replied

\* updateDrift(); ping_2 is half the estimator's mean, whatever that is.
HandleReply(r, ping_2) ==
  /\ at[r] = "handling"
  /\ at' = [at EXCEPT ![r] = "idle"]
  /\ \/ /\ ConnectedToHost(r)
        /\ UpdateBaseline(TimeOffset(r, Stamp(r), ping_2))
        /\ skew' = skew + WayBack(r) - WayThere(r)
     \/ /\ ~ConnectedToHost(r)
        /\ UNCHANGED <<count, baselineOffset, timeShift, skew>>
  /\ sendTime' = [sendTime EXCEPT ![r] = 0]
  /\ receiptTime' = [receiptTime EXCEPT ![r] = 0]
  /\ replyTime' = [replyTime EXCEPT ![r] = 0]
  /\ half' = [half EXCEPT ![r] = NoStamp]
  /\ trip' = [trip EXCEPT ![r] = NoTrip]
  /\ torn' = [torn EXCEPT ![r] = FALSE]
  /\ UNCHANGED <<now, offset>>

-----------------------------------------------------------------------------
Next ==
  \/ Tick
  \/ \E r \in Requests : BeginCreateRequest(r)
  \/ \E r \in Requests : CreateRequest(r)
  \/ \E r \in Requests : ReceiveRequest(r)
  \/ \E r \in Requests : GetReplyDuration(r)
  \/ \E r \in Requests : BeginHandleReply(r)
  \/ \E r \in Requests, ping_2 \in {0, 1} : HandleReply(r, ping_2)

Spec == Init /\ [][Next]_vars

-----------------------------------------------------------------------------
\* The ping that updateDrift() adds to its estimator is the time both ways took, though the shift
\* may have changed since the request was sent, unless it changed in the middle of a stamp; that
\* never happens on the connection to the host, whose own replies are what changes it.
PingIsRoundTrip ==
  [][\A r \in Requests : at[r] = "handling" /\ at'[r] = "idle" =>
       /\ ~Tears(r) => Ping(r, Stamp(r)) = WayThere(r) + WayBack(r)
       /\ ConnectedToHost(r) => ~Tears(r)]_vars

\* After Samples replies of the host, currentTimeMicros() is the host's time, up to half of the
\* average difference between the way back and the way there, and one and a half units of rounding.
Calibrated ==
  count = Samples =>
    LET error == 2 * Samples * (timeShift + offset) - skew
    IN -3 * Samples < error /\ error < 3 * Samples

-----------------------------------------------------------------------------
(* The inductive invariant, in parts.                                       *)

Stamps == [clock : Int, shift : Int]
Trips == [sent : Int, received : Int, replied : Int]
Places == {"idle", "creating", "sent", "executing", "replied", "handling"}

TypeOK ==
  /\ now \in Int /\ offset \in Int /\ timeShift \in Int
  /\ at \in [Requests -> Places]
  /\ half \in [Requests -> Stamps]
  /\ sendTime \in [Requests -> Int]
  /\ receiptTime \in [Requests -> Int]
  /\ replyTime \in [Requests -> Int]
  /\ trip \in [Requests -> Trips]
  /\ torn \in [Requests -> BOOLEAN]
  /\ count \in Nat /\ baselineOffset \in Int /\ skew \in Int

\* A stamp that is taken in one piece tells the real time of its event, on this peer's clock
\* before any shift, or on the remote one.
StampsTrue ==
  \A r \in Requests :
    /\ at[r] = "creating" => half[r].clock + half[r].shift = trip[r].sent - offset
    /\ at[r] \in {"sent", "executing", "replied", "handling"} /\ ~torn[r] =>
         sendTime[r] = trip[r].sent - offset
    /\ at[r] \in {"executing", "replied", "handling"} => receiptTime[r] = trip[r].received
    /\ at[r] \in {"replied", "handling"} => replyTime[r] = trip[r].replied

\* The host connection's stamps are taken one at a time, and only a stamp of its own ends in a
\* change of the shift.
HostStampsWhole ==
  \A r \in HostRequests :
    /\ ~torn[r]
    /\ at[r] \in {"creating", "handling"} =>
         /\ half[r].shift = timeShift
         /\ \A s \in HostRequests \ {r} : at[s] \notin {"creating", "handling"}

\* No more replies of the host are under way than there are samples to come.
SamplesBounded == count + Cardinality(Outstanding) <= Samples

\* Every offset that was summed is off by at most half a unit of rounding.
BaselineBounded ==
  count < Samples =>
    LET error == 2 * baselineOffset + 2 * (count * offset) - skew
    IN -count <= error /\ error <= count

\* The events of a request happen one after the other, and none in the future.
TripsInOrder ==
  \A r \in Requests :
    /\ at[r] # "idle" => trip[r].sent <= now
    /\ at[r] \in {"executing", "replied", "handling"} =>
         trip[r].sent <= trip[r].received /\ trip[r].received <= now
    /\ at[r] \in {"replied", "handling"} => trip[r].replied <= now
    /\ at[r] = "handling" => trip[r].replied <= half[r].clock + half[r].shift + offset

\* The ping of a whole stamp is never negative, though the clock it is read from is moved by what
\* earlier replies said; nor is either way, so that |skew| is at most the sum of the pings.
PingsPositive ==
  [][\A r \in Requests : at[r] = "handling" /\ at'[r] = "idle" =>
       /\ WayThere(r) >= 0 /\ WayBack(r) >= 0
       /\ ~Tears(r) => Ping(r, Stamp(r)) >= 0]_vars

IInv == TypeOK /\ StampsTrue /\ HostStampsWhole /\ SamplesBounded /\ BaselineBounded /\ Calibrated
=============================================================================
