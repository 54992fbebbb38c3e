--------------------------- MODULE ClockSync_proofs ---------------------------
(***************************************************************************)
(* Proofs about ClockSync, for any set of requests, any offset of the      *)
(* clock and any number of samples: the ping of updateDrift() is the round *)
(* trip, and the average of the samples calibrates the shift.              *)
(***************************************************************************)
EXTENDS ClockSync, FiniteSetTheorems, TLAPS

-----------------------------------------------------------------------------
(* Integer division as C++ does it.                                         *)

\* The quotient times the divisor misses the dividend by less than the divisor, whatever the sign.
LEMMA QuotientRounds ==
  ASSUME NEW a \in Int, NEW b \in Nat \ {0}
  PROVE  /\ Quotient(a, b) \in Int
         /\ -b < b * Quotient(a, b) - a /\ b * Quotient(a, b) - a < b
<1>1. ASSUME NEW x \in Nat PROVE /\ x \div b \in Nat
                                 /\ b * (x \div b) <= x /\ x < b * (x \div b) + b
  <2> DEFINE q == x \div b
             m == x % b
  <2>1. q \in Int /\ m \in 0..(b - 1) /\ x = b * q + m BY <1>1
  <2>2. q \in Nat BY <1>1
  <2> QED BY <2>1, <2>2
<1>2. CASE a >= 0 BY <1>1, <1>2 DEF Quotient
<1>3. CASE a < 0
  <2> DEFINE q == (-a) \div b
  <2>1. -a \in Nat BY <1>3
  <2>2. q \in Nat /\ b * q <= -a /\ -a < b * q + b BY <1>1, <2>1
  <2>3. Quotient(a, b) = -q BY <1>3 DEF Quotient
  <2>4. b * (-q) = -(b * q) BY <2>2
  <2> HIDE DEF q
  <2> QED BY <2>2, <2>3, <2>4
<1> QED BY <1>2, <1>3

\* Halving misses by at most one half.
LEMMA HalfRounds ==
  ASSUME NEW a \in Int
  PROVE  Quotient(a, 2) \in Int /\ -1 <= 2 * Quotient(a, 2) - a /\ 2 * Quotient(a, 2) - a <= 1
BY QuotientRounds

-----------------------------------------------------------------------------
(* The invariant.                                                           *)

\* The variables start with values of their types, and nothing is outstanding.
LEMMA InitHolds == Init => IInv
<1> SUFFICES ASSUME Init PROVE IInv OBVIOUS
<1> USE RequestsAssumption, SamplesAssumption
<1>1. TypeOK BY DEF Init, TypeOK, NoStamp, NoTrip, Stamps, Trips, Places
<1>2. StampsTrue BY DEF Init, StampsTrue
<1>3. HostStampsWhole BY DEF Init, HostStampsWhole, Requests
<1>4. SamplesBounded
  <2>1. Outstanding = {} BY DEF Init, Outstanding, Requests
  <2> QED BY <2>1, FS_EmptySet DEF Init, SamplesBounded
<1>5. BaselineBounded
  <2>1. count * offset = 0 BY <1>1 DEF Init, TypeOK
  <2> QED BY <2>1 DEF Init, BaselineBounded
<1>6. Calibrated BY DEF Init, Calibrated
<1> QED BY <1>1, <1>2, <1>3, <1>4, <1>5, <1>6 DEF IInv

\* What the reply to r adds, on the connection to the host: the stamps are whole, so the offset it
\* yields is half of what the way back took longer than the way there, less the true offset, up to
\* a half.
LEMMA OffsetOfReply ==
  ASSUME TypeOK, StampsTrue, HostStampsWhole, NEW r \in HostRequests, at[r] = "handling",
         NEW ping_2 \in {0, 1}
  PROVE  LET t == TimeOffset(r, Stamp(r), ping_2)
             d == WayBack(r) - WayThere(r)
         IN t \in Int /\ d \in Int /\ -1 <= 2 * t - (d - 2 * offset) /\ 2 * t - (d - 2 * offset) <= 1
<1> DEFINE d == WayBack(r) - WayThere(r)
<1>1. r \in Requests BY DEF Requests
<1>2. /\ half[r].clock \in Int /\ half[r].shift \in Int /\ timeShift \in Int /\ offset \in Int
      /\ sendTime[r] \in Int /\ receiptTime[r] \in Int /\ replyTime[r] \in Int
      /\ trip[r].sent \in Int /\ trip[r].received \in Int /\ trip[r].replied \in Int
  BY <1>1 DEF TypeOK, Stamps, Trips
<1>3. /\ sendTime[r] = trip[r].sent - offset /\ receiptTime[r] = trip[r].received
      /\ replyTime[r] = trip[r].replied
  BY <1>1 DEF StampsTrue, HostStampsWhole
<1>4. half[r].shift = timeShift BY DEF HostStampsWhole
<1>5. d \in Int BY <1>2 DEF WayBack, WayThere
<1>6. -((receiptTime[r] - sendTime[r]) - ping_2) + ((Stamp(r) - replyTime[r]) - ping_2)
        = d - 2 * offset
  BY <1>2, <1>3, <1>4 DEF WayBack, WayThere, Stamp
<1>7. TimeOffset(r, Stamp(r), ping_2) = Quotient(d - 2 * offset, 2)
  BY <1>6 DEF TimeOffset
<1> HIDE DEF d
<1>8. d - 2 * offset \in Int BY <1>2, <1>5
<1>9. /\ Quotient(d - 2 * offset, 2) \in Int
      /\ -1 <= 2 * Quotient(d - 2 * offset, 2) - (d - 2 * offset)
      /\ 2 * Quotient(d - 2 * offset, 2) - (d - 2 * offset) <= 1
  BY <1>8, HalfRounds
<1> QED BY <1>5, <1>7, <1>9 DEF d

\* Every step keeps the types.
LEMMA TypesKept == IInv /\ [Next]_vars => TypeOK'
<1> SUFFICES ASSUME IInv, [Next]_vars PROVE TypeOK' OBVIOUS
<1> USE DEF TypeOK, Stamps, Trips, Places
<1>1. TypeOK BY DEF IInv
<1>2. CASE UNCHANGED vars BY <1>1, <1>2 DEF vars
<1>3. CASE Tick BY <1>1, <1>3 DEF Tick
<1>4. ASSUME NEW r \in Requests, BeginCreateRequest(r) PROVE TypeOK'
  BY <1>1, <1>4, SMTT(30) DEF BeginCreateRequest, ReadClock
<1>5. ASSUME NEW r \in Requests, CreateRequest(r) PROVE TypeOK'
  BY <1>1, <1>5 DEF CreateRequest, Stamp, NoStamp, Tears
<1>6. ASSUME NEW r \in Requests, ReceiveRequest(r) PROVE TypeOK'
  BY <1>1, <1>6 DEF ReceiveRequest
<1>7. ASSUME NEW r \in Requests, GetReplyDuration(r) PROVE TypeOK'
  BY <1>1, <1>7 DEF GetReplyDuration
<1>8. ASSUME NEW r \in Requests, BeginHandleReply(r) PROVE TypeOK'
  BY <1>1, <1>8 DEF BeginHandleReply, ReadClock
<1>9. ASSUME NEW r \in Requests, NEW ping_2 \in {0, 1}, HandleReply(r, ping_2) PROVE TypeOK'
  <2>1. /\ now' = now /\ offset' = offset
        /\ at' = [at EXCEPT ![r] = "idle"] /\ half' = [half EXCEPT ![r] = NoStamp]
        /\ sendTime' = [sendTime EXCEPT ![r] = 0] /\ receiptTime' = [receiptTime EXCEPT ![r] = 0]
        /\ replyTime' = [replyTime EXCEPT ![r] = 0] /\ trip' = [trip EXCEPT ![r] = NoTrip]
        /\ torn' = [torn EXCEPT ![r] = FALSE]
    BY <1>9 DEF HandleReply
  <2>2. count' \in Nat /\ baselineOffset' \in Int /\ timeShift' \in Int /\ skew' \in Int
    <3>1. CASE ~ConnectedToHost(r) BY <1>1, <1>9, <3>1 DEF HandleReply
    <3>2. CASE ConnectedToHost(r)
      <4> DEFINE t == TimeOffset(r, Stamp(r), ping_2)
                 d == WayBack(r) - WayThere(r)
      <4>1. r \in HostRequests /\ at[r] = "handling" BY <1>9, <3>2 DEF ConnectedToHost, HandleReply
      <4>2. t \in Int /\ d \in Int BY <1>1, <4>1, OffsetOfReply DEF IInv
      <4>3. UpdateBaseline(t) /\ skew' = skew + WayBack(r) - WayThere(r)
        BY <1>9, <3>2 DEF HandleReply
      <4>4. skew' \in Int
        <5>1. WayBack(r) \in Int /\ WayThere(r) \in Int BY <1>1 DEF WayBack, WayThere
        <5> QED BY <1>1, <4>3, <5>1
      <4> HIDE DEF t
      <4>5. Quotient(baselineOffset + t, Samples) \in Int
        BY <1>1, <4>2, SamplesAssumption, QuotientRounds
      <4> QED BY <1>1, <4>2, <4>3, <4>4, <4>5 DEF UpdateBaseline
    <3> QED BY <3>1, <3>2
  <2> QED BY <1>1, <2>1, <2>2 DEF NoStamp, NoTrip
<1> QED BY <1>2, <1>3, <1>4, <1>5, <1>6, <1>7, <1>8, <1>9 DEF Next

\* Every step keeps the stamps true: the shift that is subtracted from the clock is the one that
\* is added back, or the request is marked as torn.
LEMMA StampsKept == IInv /\ [Next]_vars => StampsTrue'
<1> SUFFICES ASSUME IInv, [Next]_vars PROVE StampsTrue' OBVIOUS
<1>1. TypeOK /\ StampsTrue BY DEF IInv
<1> USE DEF TypeOK, Stamps, Trips, Places, StampsTrue
<1>2. CASE UNCHANGED vars BY <1>1, <1>2 DEF vars
<1>3. CASE Tick BY <1>1, <1>3 DEF Tick
<1>4. ASSUME NEW r \in Requests, BeginCreateRequest(r) PROVE StampsTrue'
  BY <1>1, <1>4 DEF BeginCreateRequest, ReadClock
<1>5. ASSUME NEW r \in Requests, CreateRequest(r) PROVE StampsTrue'
  BY <1>1, <1>5 DEF CreateRequest, Stamp, NoStamp, Tears
<1>6. ASSUME NEW r \in Requests, ReceiveRequest(r) PROVE StampsTrue'
  BY <1>1, <1>6 DEF ReceiveRequest
<1>7. ASSUME NEW r \in Requests, GetReplyDuration(r) PROVE StampsTrue'
  BY <1>1, <1>7 DEF GetReplyDuration
<1>8. ASSUME NEW r \in Requests, BeginHandleReply(r) PROVE StampsTrue'
  BY <1>1, <1>8 DEF BeginHandleReply, ReadClock
<1>9. ASSUME NEW r \in Requests, NEW ping_2 \in {0, 1}, HandleReply(r, ping_2) PROVE StampsTrue'
  BY <1>1, <1>9 DEF HandleReply
<1> QED BY <1>2, <1>3, <1>4, <1>5, <1>6, <1>7, <1>8, <1>9 DEF Next

\* Every step keeps the host connection's stamps whole: clockMutex admits one of them at a time,
\* and updateDrift() runs at the end of one.
LEMMA HostStampsKept == IInv /\ [Next]_vars => HostStampsWhole'
<1> SUFFICES ASSUME IInv, [Next]_vars PROVE HostStampsWhole' OBVIOUS
<1>1. TypeOK /\ HostStampsWhole BY DEF IInv
<1> USE DEF TypeOK, Stamps, Places, HostStampsWhole, Requests
<1>2. CASE UNCHANGED vars BY <1>1, <1>2 DEF vars
<1>3. CASE Tick BY <1>1, <1>3 DEF Tick
<1>4. ASSUME NEW r \in Requests, BeginCreateRequest(r) \/ BeginHandleReply(r) PROVE HostStampsWhole'
  <2>1. /\ UNCHANGED <<torn, timeShift>> /\ half' = [half EXCEPT ![r] = ReadClock]
        /\ \/ at' = [at EXCEPT ![r] = "creating"]
           \/ at' = [at EXCEPT ![r] = "handling"]
        /\ MutexFree(r)
    BY <1>4 DEF BeginCreateRequest, BeginHandleReply
  <2>2. half'[r].shift = timeShift BY <1>1, <2>1 DEF ReadClock
  <2>3. CASE r \in HostRequests
    <3>1. \A s \in HostRequests : at[s] \notin {"creating", "handling"}
      BY <2>1, <2>3 DEF MutexFree, Siblings, ConnectedToHost
    <3>2. \A s \in HostRequests \ {r} : at'[s] \notin {"creating", "handling"}
      BY <1>1, <2>1, <3>1
    <3> QED BY <1>1, <2>1, <2>2, <3>2
  <2>4. CASE r \notin HostRequests
    <3>1. \A s \in HostRequests : at'[s] = at[s] /\ half'[s] = half[s] BY <1>1, <2>1, <2>4
    <3> QED BY <1>1, <2>1, <3>1
  <2> QED BY <2>3, <2>4
<1>5. ASSUME NEW r \in Requests, CreateRequest(r) PROVE HostStampsWhole'
  <2>1. r \in HostRequests => ~Tears(r) BY <1>1, <1>5 DEF CreateRequest, Tears
  <2>2. \A s \in HostRequests : ~torn'[s] BY <1>1, <1>5, <2>1 DEF CreateRequest
  <2>3. /\ at' = [at EXCEPT ![r] = "sent"] /\ half' = [half EXCEPT ![r] = NoStamp]
        /\ timeShift' = timeShift
    BY <1>5 DEF CreateRequest
  <2> QED BY <1>1, <2>2, <2>3
<1>6. ASSUME NEW r \in Requests, ReceiveRequest(r) \/ GetReplyDuration(r) PROVE HostStampsWhole'
  BY <1>1, <1>6 DEF ReceiveRequest, GetReplyDuration
<1>7. ASSUME NEW r \in Requests, NEW ping_2 \in {0, 1}, HandleReply(r, ping_2)
      PROVE  HostStampsWhole'
  <2>1. /\ at[r] = "handling" /\ at' = [at EXCEPT ![r] = "idle"]
        /\ half' = [half EXCEPT ![r] = NoStamp] /\ torn' = [torn EXCEPT ![r] = FALSE]
    BY <1>7 DEF HandleReply
  <2>2. CASE r \in HostRequests
    <3>1. \A s \in HostRequests : at'[s] \notin {"creating", "handling"} BY <1>1, <2>1, <2>2
    <3> QED BY <1>1, <2>1, <3>1
  <2>3. CASE r \notin HostRequests
    <3>1. timeShift' = timeShift BY <1>7, <2>3 DEF HandleReply, ConnectedToHost
    <3> QED BY <1>1, <2>1, <2>3, <3>1
  <2> QED BY <2>2, <2>3
<1> QED BY <1>2, <1>3, <1>4, <1>5, <1>6, <1>7 DEF Next

\* How the set of outstanding requests of the host connection changes with one request.
LEMMA OutstandingStep ==
  ASSUME TypeOK, NEW r \in Requests, NEW p \in Places, at' = [at EXCEPT ![r] = p]
  PROVE  /\ IsFiniteSet(Outstanding)
         /\ r \notin HostRequests => Outstanding' = Outstanding
         /\ at[r] # "idle" /\ p # "idle" => Outstanding' = Outstanding
         /\ r \in HostRequests /\ at[r] = "idle" =>
              Cardinality(Outstanding') <= Cardinality(Outstanding) + 1
         /\ r \in HostRequests /\ at[r] # "idle" /\ p = "idle" =>
              Cardinality(Outstanding') = Cardinality(Outstanding) - 1
<1>1. IsFiniteSet(Outstanding)
  BY RequestsAssumption, FS_Subset DEF Outstanding
<1>2. r \notin HostRequests => Outstanding' = Outstanding BY DEF TypeOK, Outstanding, Requests
<1>3. at[r] # "idle" /\ p # "idle" => Outstanding' = Outstanding
  BY DEF TypeOK, Outstanding, Requests
<1>4. ASSUME r \in HostRequests, at[r] = "idle"
      PROVE  Cardinality(Outstanding') <= Cardinality(Outstanding) + 1
  <2>1. Outstanding' = Outstanding \/ Outstanding' = Outstanding \cup {r}
    BY <1>4 DEF TypeOK, Outstanding, Requests
  <2>2. Cardinality(Outstanding) \in Nat BY <1>1, FS_CardinalityType
  <2>3. r \notin Outstanding BY <1>4 DEF Outstanding
  <2>4. Cardinality(Outstanding \cup {r}) = Cardinality(Outstanding) + 1
    BY <1>1, <2>3, FS_AddElement
  <2>5. CASE Outstanding' = Outstanding BY <2>2, <2>5
  <2>6. CASE Outstanding' = Outstanding \cup {r} BY <2>2, <2>4, <2>6
  <2> QED BY <2>1, <2>5, <2>6
<1>5. ASSUME r \in HostRequests, at[r] # "idle", p = "idle"
      PROVE  Cardinality(Outstanding') = Cardinality(Outstanding) - 1
  <2>1. Outstanding' = Outstanding \ {r} /\ r \in Outstanding
    BY <1>5 DEF TypeOK, Outstanding, Requests
  <2> QED BY <1>1, <2>1, FS_RemoveElement
<1> QED BY <1>1, <1>2, <1>3, <1>4, <1>5

\* Every step keeps the count of replies and of requests within the samples that are wanted.
LEMMA SamplesKept == IInv /\ [Next]_vars => SamplesBounded'
<1> SUFFICES ASSUME IInv, [Next]_vars PROVE SamplesBounded' OBVIOUS
<1>1. TypeOK /\ SamplesBounded BY DEF IInv
<1>2. count \in Nat /\ Samples \in Nat BY <1>1, SamplesAssumption DEF TypeOK
<1>3. IsFiniteSet(Outstanding) /\ Cardinality(Outstanding) \in Nat
  BY RequestsAssumption, FS_Subset, FS_CardinalityType DEF Outstanding
<1>4. ASSUME UNCHANGED <<at, count>> PROVE SamplesBounded'
  BY <1>1, <1>4 DEF SamplesBounded, Outstanding
<1>5. ASSUME NEW r \in Requests, BeginCreateRequest(r) PROVE SamplesBounded'
  <2>1. /\ at' = [at EXCEPT ![r] = "creating"] /\ count' = count /\ at[r] = "idle"
        /\ r \in HostRequests => count + Cardinality(Outstanding) < Samples
    BY <1>5 DEF BeginCreateRequest, ConnectedToHost
  <2>2. /\ r \notin HostRequests => Outstanding' = Outstanding
        /\ r \in HostRequests => Cardinality(Outstanding') <= Cardinality(Outstanding) + 1
    BY <1>1, <2>1, OutstandingStep DEF Places
  <2>3. CASE r \notin HostRequests BY <1>1, <2>1, <2>2, <2>3 DEF SamplesBounded
  <2>4. CASE r \in HostRequests
    <3>1. Cardinality(Outstanding') \in Nat
      <4>1. IsFiniteSet(Outstanding') BY RequestsAssumption, FS_Subset DEF Outstanding
      <4> QED BY <4>1, FS_CardinalityType
    <3> QED BY <1>2, <1>3, <2>1, <2>2, <2>4, <3>1 DEF SamplesBounded
  <2> QED BY <2>3, <2>4
<1>6. ASSUME NEW r \in Requests,
             \/ CreateRequest(r) \/ ReceiveRequest(r) \/ GetReplyDuration(r) \/ BeginHandleReply(r)
      PROVE  SamplesBounded'
  <2>1. count' = count /\ at[r] # "idle"
        /\ \E p \in Places \ {"idle"} : at' = [at EXCEPT ![r] = p]
    BY <1>6 DEF CreateRequest, ReceiveRequest, GetReplyDuration, BeginHandleReply, Places
  <2>2. Outstanding' = Outstanding BY <1>1, <2>1, OutstandingStep
  <2> QED BY <1>1, <2>1, <2>2 DEF SamplesBounded
<1>7. ASSUME NEW r \in Requests, NEW ping_2 \in {0, 1}, HandleReply(r, ping_2)
      PROVE  SamplesBounded'
  <2>1. /\ at[r] = "handling" /\ at' = [at EXCEPT ![r] = "idle"]
        /\ count' = IF r \in HostRequests THEN count + 1 ELSE count
    BY <1>7 DEF HandleReply, ConnectedToHost, UpdateBaseline
  <2>2. /\ r \notin HostRequests => Outstanding' = Outstanding
        /\ r \in HostRequests => Cardinality(Outstanding') = Cardinality(Outstanding) - 1
    BY <1>1, <2>1, OutstandingStep DEF Places
  <2> QED BY <1>1, <1>2, <1>3, <2>1, <2>2 DEF SamplesBounded
<1> QED BY <1>4, <1>5, <1>6, <1>7 DEF Next, Tick, vars

\* The host's reply that is being handled is one of those that are still wanted.
LEMMA ReplyIsWanted ==
  ASSUME TypeOK, SamplesBounded, NEW r \in HostRequests, at[r] # "idle"
  PROVE  count < Samples
<1>1. IsFiniteSet(Outstanding) BY RequestsAssumption, FS_Subset DEF Outstanding
<1>2. r \in Outstanding BY DEF Outstanding
<1>3. Cardinality(Outstanding) \in Nat /\ Cardinality(Outstanding) # 0
  BY <1>1, <1>2, FS_CardinalityType, FS_EmptySet
<1> QED BY <1>3, SamplesAssumption DEF TypeOK, SamplesBounded

\* Every step keeps the sum of the offsets within its rounding, and the average within its own.
LEMMA BaselineKept == IInv /\ [Next]_vars => BaselineBounded' /\ Calibrated'
<1> SUFFICES ASSUME IInv, [Next]_vars PROVE BaselineBounded' /\ Calibrated' OBVIOUS
<1>1. TypeOK /\ StampsTrue /\ HostStampsWhole /\ SamplesBounded /\ BaselineBounded /\ Calibrated
  BY DEF IInv
<1>2. ASSUME UNCHANGED <<count, baselineOffset, timeShift, offset, skew>>
      PROVE  BaselineBounded' /\ Calibrated'
  BY <1>1, <1>2 DEF BaselineBounded, Calibrated
<1>3. ASSUME NEW r \in Requests, NEW ping_2 \in {0, 1}, HandleReply(r, ping_2), ConnectedToHost(r)
      PROVE  BaselineBounded' /\ Calibrated'
  <2> DEFINE t == TimeOffset(r, Stamp(r), ping_2)
             d == WayBack(r) - WayThere(r)
             sum == baselineOffset + t
             p == count * offset
             e == 2 * sum + 2 * (p + offset) - (skew + d)
  <2>1. r \in HostRequests /\ at[r] = "handling" BY <1>3 DEF ConnectedToHost, HandleReply
  <2>2. count < Samples BY <1>1, <2>1, ReplyIsWanted
  <2>3. /\ t \in Int /\ d \in Int
        /\ -1 <= 2 * t - (d - 2 * offset) /\ 2 * t - (d - 2 * offset) <= 1
    BY <1>1, <2>1, OffsetOfReply
  <2>4. UpdateBaseline(t) /\ skew' = skew + d /\ offset' = offset
    <3>1. r \in Requests BY DEF Requests
    <3>2. WayBack(r) \in Int /\ WayThere(r) \in Int
      BY <1>1, <3>1 DEF WayBack, WayThere, TypeOK, Stamps, Trips
    <3>3. UpdateBaseline(t) /\ skew' = skew + WayBack(r) - WayThere(r) /\ offset' = offset
      BY <1>3 DEF HandleReply
    <3> QED BY <1>1, <3>2, <3>3 DEF TypeOK
  <2>5. /\ count \in Nat /\ Samples \in Nat \ {0} /\ offset \in Int /\ baselineOffset \in Int
        /\ skew \in Int /\ sum \in Int
    BY <1>1, <2>3, SamplesAssumption DEF TypeOK
  <2>6. p \in Int /\ (count + 1) * offset = p + offset BY <2>5
  <2>7. -count <= 2 * baselineOffset + 2 * p - skew /\ 2 * baselineOffset + 2 * p - skew <= count
    BY <1>1, <2>2 DEF BaselineBounded
  <2> HIDE DEF t, d, p
  <2>8. e \in Int /\ -(count + 1) <= e /\ e <= count + 1 BY <2>3, <2>5, <2>6, <2>7
  <2>9. CASE count + 1 < Samples
    <3>1. count' = count + 1 /\ baselineOffset' = sum BY <2>4, <2>9 DEF UpdateBaseline
    <3>2. 2 * baselineOffset' + 2 * (count' * offset') - skew' = e BY <2>4, <2>6, <3>1
    <3>3. BaselineBounded' BY <2>5, <2>8, <3>1, <3>2 DEF BaselineBounded
    <3>4. count' # Samples BY <2>5, <2>9, <3>1
    <3> QED BY <3>3, <3>4 DEF Calibrated
  <2>10. CASE count + 1 = Samples
    <3> DEFINE q == Quotient(sum, Samples)
    <3>1. count' = Samples /\ timeShift' = q BY <2>4, <2>5, <2>10 DEF UpdateBaseline
    <3>2. q \in Int /\ -Samples < Samples * q - sum /\ Samples * q - sum < Samples
      BY <2>5, QuotientRounds
    <3> HIDE DEF q
    <3>3. 2 * Samples * (q + offset) = 2 * (Samples * q) + 2 * (p + offset)
      <4>1. Samples * offset = p + offset BY <2>6, <2>10
      <4>2. Samples * (q + offset) = Samples * q + Samples * offset BY <2>5, <3>2
      <4>3. 2 * Samples * (q + offset) = 2 * (Samples * (q + offset)) BY <2>5, <3>2
      <4> QED BY <2>5, <2>6, <3>2, <4>1, <4>2, <4>3
    <3> DEFINE x == Samples * q
    <3>4. x \in Int BY <2>5, <3>2
    <3> HIDE DEF x
    <3>5. 2 * Samples * (q + offset) - (skew + d) = 2 * (x - sum) + e
      BY <2>3, <2>5, <2>6, <3>3, <3>4 DEF x
    <3>6. -Samples + 1 <= x - sum /\ x - sum <= Samples - 1 BY <2>5, <3>2, <3>4 DEF x
    <3>7. x - sum \in Int BY <2>5, <3>4
    <3> HIDE DEF e, sum
    <3>8. /\ -3 * Samples < 2 * (x - sum) + e
          /\ 2 * (x - sum) + e < 3 * Samples
      BY <2>5, <2>8, <2>10, <3>6, <3>7
    <3>9. Calibrated' BY <2>4, <3>1, <3>5, <3>8 DEF Calibrated
    <3>10. BaselineBounded' BY <2>5, <3>1 DEF BaselineBounded
    <3> QED BY <3>9, <3>10
  <2> QED BY <2>2, <2>5, <2>9, <2>10
<1>4. ASSUME NEW r \in Requests, NEW ping_2 \in {0, 1}, HandleReply(r, ping_2), ~ConnectedToHost(r)
      PROVE  BaselineBounded' /\ Calibrated'
  BY <1>2, <1>4 DEF HandleReply
<1> QED BY <1>2, <1>3, <1>4 DEF Next, vars, Tick, BeginCreateRequest, CreateRequest, ReceiveRequest,
       GetReplyDuration, BeginHandleReply

\* The invariant holds in every behaviour.
THEOREM Invariance == Spec => []IInv
<1>1. IInv /\ [Next]_vars => IInv'
  BY TypesKept, StampsKept, HostStampsKept, SamplesKept, BaselineKept DEF IInv
<1> QED BY <1>1, InitHolds, PTL DEF Spec

-----------------------------------------------------------------------------
(* The results.                                                             *)

\* Whatever the clocks, the delays and the interleaving of the connections, once the host has
\* answered Samples times the shift that updateDrift() has set is the host's offset, up to half of
\* the average difference between the two ways and one and a half units.
THEOREM ShiftIsCalibrated == Spec => []Calibrated
BY Invariance, PTL DEF IInv

\* A ping that was measured with whole stamps is the time both ways took.
LEMMA PingIsBothWays ==
  ASSUME IInv, NEW r \in Requests, at[r] = "handling", ~Tears(r)
  PROVE  Ping(r, Stamp(r)) = WayThere(r) + WayBack(r)
<1>1. ~torn[r] /\ half[r].shift = timeShift BY DEF Tears
<1>2. /\ sendTime[r] = trip[r].sent - offset /\ receiptTime[r] = trip[r].received
      /\ replyTime[r] = trip[r].replied
  BY <1>1 DEF IInv, StampsTrue
<1>3. /\ half[r].clock \in Int /\ half[r].shift \in Int /\ offset \in Int
      /\ trip[r].sent \in Int /\ trip[r].received \in Int /\ trip[r].replied \in Int
  BY DEF IInv, TypeOK, Stamps, Trips
<1> QED BY <1>1, <1>2, <1>3 DEF Ping, Stamp, WayThere, WayBack

\* Whenever a reply is handled, the ping that updateDrift() measures is the time both ways took,
\* unless the shift changed in the middle of a stamp, which no stamp of the host connection can see.
THEOREM PingsAreRoundTrips == Spec => PingIsRoundTrip
<1> DEFINE A == \A r \in Requests : at[r] = "handling" /\ at'[r] = "idle" =>
                  /\ ~Tears(r) => Ping(r, Stamp(r)) = WayThere(r) + WayBack(r)
                  /\ ConnectedToHost(r) => ~Tears(r)
<1>1. IInv => A
  <2> SUFFICES ASSUME IInv, NEW r \in Requests, at[r] = "handling"
               PROVE  /\ ~Tears(r) => Ping(r, Stamp(r)) = WayThere(r) + WayBack(r)
                      /\ ConnectedToHost(r) => ~Tears(r)
    OBVIOUS
  <2>1. ConnectedToHost(r) => ~Tears(r) BY DEF IInv, HostStampsWhole, ConnectedToHost, Tears
  <2>2. ~Tears(r) => Ping(r, Stamp(r)) = WayThere(r) + WayBack(r) BY PingIsBothWays
  <2> QED BY <2>1, <2>2
<1>2. IInv /\ [Next]_vars => [A]_vars BY <1>1
<1>3. []IInv /\ [][Next]_vars => [][A]_vars BY <1>2, PTL
<1>4. [][A]_vars => PingIsRoundTrip BY DEF PingIsRoundTrip
<1> QED BY <1>3, <1>4, Invariance, PTL DEF Spec

\* Every step keeps the events in order.
LEMMA OrderKept == IInv /\ TripsInOrder /\ [Next]_vars => TripsInOrder'
<1> SUFFICES ASSUME IInv, TripsInOrder, [Next]_vars PROVE TripsInOrder' OBVIOUS
<1>1. TypeOK BY DEF IInv
<1> USE DEF TypeOK, Stamps, Trips, Places, TripsInOrder
<1>2. CASE UNCHANGED vars BY <1>1, <1>2 DEF vars
<1>3. CASE Tick BY <1>1, <1>3 DEF Tick
<1>4. ASSUME NEW r \in Requests, BeginCreateRequest(r) PROVE TripsInOrder'
  BY <1>1, <1>4 DEF BeginCreateRequest
<1>5. ASSUME NEW r \in Requests, CreateRequest(r) PROVE TripsInOrder'
  BY <1>1, <1>5 DEF CreateRequest
<1>6. ASSUME NEW r \in Requests, ReceiveRequest(r) PROVE TripsInOrder'
  BY <1>1, <1>6 DEF ReceiveRequest
<1>7. ASSUME NEW r \in Requests, GetReplyDuration(r) PROVE TripsInOrder'
  BY <1>1, <1>7 DEF GetReplyDuration
<1>8. ASSUME NEW r \in Requests, BeginHandleReply(r) PROVE TripsInOrder'
  BY <1>1, <1>8 DEF BeginHandleReply, ReadClock
<1>9. ASSUME NEW r \in Requests, NEW ping_2 \in {0, 1}, HandleReply(r, ping_2) PROVE TripsInOrder'
  BY <1>1, <1>9 DEF HandleReply
<1> QED BY <1>2, <1>3, <1>4, <1>5, <1>6, <1>7, <1>8, <1>9 DEF Next

\* PingsPositive for any clocks and delays: what updateDrift() adds to its estimator is not
\* negative as long as the stamps are whole, and on the connection to the host they are.
THEOREM PingsArePositive == Spec => PingsPositive
<1> DEFINE A == \A r \in Requests : at[r] = "handling" /\ at'[r] = "idle" =>
                  /\ WayThere(r) >= 0 /\ WayBack(r) >= 0
                  /\ ~Tears(r) => Ping(r, Stamp(r)) >= 0
<1>1. IInv /\ TripsInOrder => A
  <2> SUFFICES ASSUME IInv, TripsInOrder, NEW r \in Requests, at[r] = "handling"
               PROVE  /\ WayThere(r) >= 0 /\ WayBack(r) >= 0
                      /\ ~Tears(r) => Ping(r, Stamp(r)) >= 0
    OBVIOUS
  <2>1. /\ half[r].clock \in Int /\ half[r].shift \in Int /\ offset \in Int
        /\ trip[r].sent \in Int /\ trip[r].received \in Int /\ trip[r].replied \in Int
    BY DEF IInv, TypeOK, Stamps, Trips
  <2>2. WayThere(r) >= 0 /\ WayBack(r) >= 0 BY <2>1 DEF TripsInOrder, WayThere, WayBack
  <2>3. ~Tears(r) => Ping(r, Stamp(r)) = WayThere(r) + WayBack(r) BY PingIsBothWays
  <2>4. WayThere(r) \in Int /\ WayBack(r) \in Int BY <2>1 DEF WayThere, WayBack
  <2> QED BY <2>2, <2>3, <2>4
<1>2. Init => TripsInOrder BY DEF Init, TripsInOrder
<1>3. Spec => []TripsInOrder BY <1>2, OrderKept, Invariance, PTL DEF Spec
<1>4. IInv /\ TripsInOrder => [A]_vars BY <1>1
<1>5. []IInv /\ []TripsInOrder => [][A]_vars BY <1>4, PTL
<1>6. [][A]_vars => PingsPositive BY DEF PingsPositive
<1> QED BY <1>3, <1>5, <1>6, Invariance, PTL DEF Spec
=============================================================================
