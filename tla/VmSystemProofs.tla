--------------------------- MODULE VmSystemProofs ---------------------------
(***************************************************************************)
(* Proofs about the services around the threads: the clocks of Linux       *)
(* (VmTime) and Windows (VmTimeWin32), the load of the processors          *)
(* (VmCpuLoad) and the log (VmDebug), for any width of their integers,     *)
(* number of processors, files and streams; and about the composition of   *)
(* all services (MCServices).                                              *)
(*                                                                         *)
(* The clock of Linux: halves that are read apart are off by whole wraps   *)
(* of the low half, and so are sums and differences of such times.         *)
(* The clock of Windows: seconds and microseconds are the quotient and the *)
(* remainder of one number, and a sum or difference carries at most once.  *)
(* The load: what was counted since the first reading is the counters less *)
(* that reading, in every column of every line, and never negative.        *)
(* The log: unless an open failed, the stream is open on the current name  *)
(* and has lost nothing.                                                   *)
(* The composition: a step of it is a step of one service and leaves the   *)
(* others alone, so it implements every service of which it has one copy;  *)
(* the invariant of the channel tables, which the sockets of two systems   *)
(* share, is kept by the steps of both.                                    *)
(***************************************************************************)
EXTENDS VmSocketProofs, VmFileProofs, VmWin32Proofs, MCServices, TLAPS

\* Division.
LEMMA Division ==
  ASSUME NEW a \in Int, NEW d \in Nat \ {0}
  PROVE  /\ a \div d \in Int /\ a % d \in 0 .. d - 1
         /\ a = (d * (a \div d)) + (a % d)
<1>1. d \in Nat /\ d > 0
  OBVIOUS
<1>2. a \div d \in Int /\ a % d \in 0 .. d - 1
  BY <1>1, Z3
<1> QED BY <1>1, <1>2, Z3

LEMMA Quotient ==
  ASSUME NEW d \in Nat \ {0}, NEW q \in Int, NEW r \in 0 .. d - 1
  PROVE  ((d * q) + r) \div d = q /\ ((d * q) + r) % d = r
<1> DEFINE a == (d * q) + r
           p == a \div d
           s == a % d
<1>1. a \in Int
  OBVIOUS
<1>2. p \in Int /\ s \in 0 .. d - 1 /\ a = (d * p) + s
  <2> HIDE DEF a
  <2> QED BY <1>1, Division
<1>3. d * (p - q) = r - s
  <2> HIDE DEF p, s
  <2> QED BY <1>2
<1>4. p - q = 0
  <2> DEFINE k == p - q
  <2>1. k \in Int /\ d * k < d /\ d * k > -d
    BY <1>2, <1>3
  <2> HIDE DEF k
  <2>2. ~ k >= 1
    BY <2>1, Z3
  <2>3. ~ k <= -1
    BY <2>1, Z3
  <2>4. k = 0
    BY <2>1, <2>2, <2>3
  <2> QED BY <2>4 DEF k
<1>5. p = q
  <2> HIDE DEF p, s
  <2> QED BY <1>2, <1>4
<1>6. s = r
  <2> HIDE DEF p, s
  <2> QED BY <1>2, <1>5
<1> QED BY <1>5, <1>6

-----------------------------------------------------------------------------
\* Whole wraps of the low half.
Wraps(x) == x % LowWord = 0

LEMMA WrapsAddUp ==
  ASSUME NEW a \in Int, NEW b \in Int, Wraps(a), Wraps(b)
  PROVE  Wraps(a + b) /\ Wraps(a - b)
<1> DEFINE p == a \div LowWord
           q == b \div LowWord
<1>1. /\ LowWord \in Nat \ {0} /\ p \in Int /\ q \in Int
      /\ a = LowWord * p /\ b = LowWord * q
  BY TimeAssumption, Division DEF Wraps
<1>2. \A k \in Int : Wraps(LowWord * k)
  <2> SUFFICES ASSUME NEW k \in Int PROVE Wraps(LowWord * k)
    OBVIOUS
  <2>1. ((LowWord * k) + 0) % LowWord = 0
    BY <1>1, Quotient
  <2> QED BY <1>1, <2>1 DEF Wraps
<1> HIDE DEF p, q
<1>3. a + b = LowWord * (p + q) /\ a - b = LowWord * (p - q)
  BY <1>1
<1>4. p + q \in Int /\ p - q \in Int
  BY <1>1
<1> QED BY <1>2, <1>3, <1>4

LEMMA NoWrap == Wraps(0) /\ Wraps(LowWord)
<1>1. LowWord \in Nat /\ LowWord > 0
  BY TimeAssumption
<1> QED BY <1>1 DEF Wraps

\* At every place of a measure, what vm_time holds and what the call under way
\* has read add up to the history, but for wraps between the two reads.
TimeIInv ==
  /\ TimeTypeOK
  /\ begun <= time
  /\ phase = "start high" \/ phase = "stop high" => device = "tsc"
  /\ phase # "off" =>
       /\ watch.freq = "microseconds" \/ watch.freq = "cpu"
       /\ device # "tsc" => watch.freq = "microseconds"
  /\ phase = "start high" \/ phase = "ready" \/ phase = "started" =>
       /\ ~torn => watch.diff = measured
       /\ Wraps(watch.diff - measured)
       /\ device = "tsc" /\ stops > 0 => watch.freq = "cpu"
  /\ phase = "started" \/ phase = "stop high" =>
       /\ ~torn => watch.start = begun
       /\ Wraps(watch.start - begun)
  /\ phase = "start high" =>
       /\ ~torn => Joined = begun
       /\ Wraps(Joined - begun)
  /\ phase = "stop high" =>
       /\ ~torn => watch.diff + (Joined - watch.start) = measured
       /\ Wraps((watch.diff + (Joined - watch.start)) - measured)

LEMMA PhasesOf ==
  /\ \A p \in {"off", "ready", "started", "start high", "stop high"} : p \in WatchPhase
  /\ Between <=> (phase = "start high" \/ phase = "stop high")
BY DEF WatchPhase, Between

LEMMA TimeTypes ==
  ASSUME TimeTypeOK
  PROVE  /\ LowWord \in Nat /\ LowWord > 0 /\ LowWord \in Nat \ {0}
         /\ MaxTime \in Nat /\ MaxStops \in Nat
         /\ watch.start \in Nat /\ watch.diff \in Int
         /\ time \in Nat /\ begun \in Nat /\ measured \in Nat /\ stops \in Nat
         /\ startLow \in Nat
<1>1. /\ LowWord \in Nat /\ LowWord > 0 /\ LowWord \in Nat \ {0}
      /\ MaxTime \in Nat /\ MaxStops \in Nat
  BY TimeAssumption
<1>2. /\ watch.start \in Nat /\ watch.diff \in Int
  BY DEF TimeTypeOK, Watch
<1>3. /\ time \in 0 .. MaxTime /\ begun \in 0 .. MaxTime /\ measured \in Nat
      /\ stops \in 0 .. MaxStops /\ startLow \in 0 .. LowWord - 1
  BY DEF TimeTypeOK
<1>4. time \in Nat /\ begun \in Nat /\ stops \in Nat /\ startLow \in Nat
  BY <1>1, <1>3
<1> QED BY <1>1, <1>2, <1>3, <1>4

LEMMA JoinedNow ==
  ASSUME TimeTypeOK', startLow' = time' % LowWord
  PROVE  Joined' = time'
<1>1. time' \in 0 .. MaxTime
  BY DEF TimeTypeOK
<1>2. LowWord \in Nat \ {0} /\ LowWord \in Nat /\ time' \in Int
  BY <1>1, TimeAssumption
<1> DEFINE q == time' \div LowWord
<1>3. /\ q \in Int /\ time' % LowWord \in 0 .. LowWord - 1
      /\ time' = (LowWord * q) + (time' % LowWord)
  BY <1>2, Division
<1>4. Joined' = (q * LowWord) + (time' % LowWord)
  BY DEF Joined
<1> HIDE DEF q
<1>5. q * LowWord = LowWord * q
  BY <1>2, <1>3
<1> QED BY <1>3, <1>4, <1>5

LEMMA LowHalf == ASSUME TimeTypeOK PROVE time % LowWord \in 0 .. LowWord - 1
<1>1. LowWord \in Nat \ {0} /\ time \in Int
  BY TimeTypes
<1> QED BY <1>1, Division

\* Joined depends on nothing else.
LEMMA JoinedSame == UNCHANGED <<time, startLow>> => Joined' = Joined
BY DEF Joined

LEMMA JoinedTyped == ASSUME TimeTypeOK PROVE Joined \in Nat
<1>1. LowWord \in Nat /\ LowWord > 0 /\ time \in Nat /\ startLow \in Nat
  BY TimeTypes
<1>2. time \div LowWord \in Nat
  BY <1>1, Z3
<1> QED BY <1>1, <1>2 DEF Joined

\* A tick moves the joined time by one wrap of the low half, or not at all.
LEMMA JoinedPasses ==
  ASSUME TimeTypeOK, Passes
  PROVE  IF (time + 1) % LowWord = 0 THEN Joined' = Joined + LowWord ELSE Joined' = Joined
<1>1. /\ LowWord \in Nat \ {0} /\ LowWord \in Nat /\ LowWord > 0
      /\ time \in Nat /\ time' = time + 1 /\ startLow' = startLow /\ startLow \in Int
  <2>1. time' = time + 1 /\ startLow' = startLow
    BY DEF Passes
  <2> QED BY <2>1, TimeTypes
<1> DEFINE q == time \div LowWord
           r == time % LowWord
<1>2. q \in Int /\ r \in 0 .. LowWord - 1 /\ time = (LowWord * q) + r
  BY <1>1, Division
<1>3. Joined = (q * LowWord) + startLow
  BY DEF Joined
<1>4. Joined' = (((time + 1) \div LowWord) * LowWord) + startLow
  BY <1>1 DEF Joined
<1> HIDE DEF q, r
<1>5. CASE r = LowWord - 1
  <2>1. time + 1 = (LowWord * (q + 1)) + 0
    BY <1>1, <1>2, <1>5
  <2>2. ((LowWord * (q + 1)) + 0) \div LowWord = q + 1
        /\ ((LowWord * (q + 1)) + 0) % LowWord = 0
    BY <1>1, <1>2, Quotient
  <2>3. (time + 1) \div LowWord = q + 1 /\ (time + 1) % LowWord = 0
    BY <2>1, <2>2
  <2>4. (q + 1) * LowWord = (q * LowWord) + LowWord
    BY <1>1, <1>2
  <2> QED BY <1>1, <1>2, <1>3, <1>4, <2>3, <2>4
<1>6. CASE r # LowWord - 1
  <2>1. time + 1 = (LowWord * q) + (r + 1) /\ r + 1 \in 0 .. LowWord - 1
    BY <1>1, <1>2, <1>6
  <2>2. ((LowWord * q) + (r + 1)) \div LowWord = q
        /\ ((LowWord * q) + (r + 1)) % LowWord = r + 1
    BY <1>1, <1>2, <2>1, Quotient
  <2>3. (time + 1) \div LowWord = q /\ (time + 1) % LowWord # 0
    BY <1>2, <2>1, <2>2
  <2> QED BY <1>3, <1>4, <2>3
<1> QED BY <1>5, <1>6

\* The stopwatch at a start and at a stop.
LEMMA Started ==
  ASSUME watch \in Watch, NEW t \in Nat
  PROVE  LET w == [watch EXCEPT !.start = t] IN
         w \in Watch /\ w.start = t /\ w.diff = watch.diff /\ w.freq = watch.freq
BY DEF Watch

LEMMA Stopped ==
  ASSUME watch \in Watch, NEW d \in Int
  PROVE  /\ LET w == [watch EXCEPT !.diff = d] IN
            w \in Watch /\ w.start = watch.start /\ w.diff = d /\ w.freq = watch.freq
         /\ LET w == [watch EXCEPT !.diff = d, !.freq = "cpu"] IN
            w \in Watch /\ w.start = watch.start /\ w.diff = d /\ w.freq = "cpu"
BY DEF Watch

LEMMA PassesStep == ASSUME TimeIInv, Passes PROVE TimeIInv'
<1>0. /\ TimeTypeOK /\ LowWord \in Nat
      /\ watch.start \in Nat /\ watch.diff \in Int /\ measured \in Nat /\ begun \in Nat
      /\ time \in Nat /\ Joined \in Nat /\ begun <= time
  BY TimeTypes, JoinedTyped DEF TimeIInv
<1>1. /\ UNCHANGED <<device, watch, phase, startLow, begun, measured, stops>>
      /\ time' = time + 1 /\ time < MaxTime
      /\ torn' = (torn \/ (Between /\ (time + 1) % LowWord = 0))
  BY DEF Passes
<1>2. TimeTypeOK'
  <2>1. time' \in 0 .. MaxTime
    BY <1>0, <1>1, TimeTypes
  <2>2. torn' \in BOOLEAN
    BY <1>1
  <2> QED BY <1>0, <1>1, <2>1, <2>2 DEF TimeTypeOK
<1>3. /\ ~ torn' => ~ torn
      /\ \/ Joined' = Joined
         \/ /\ Joined' = Joined + LowWord
            /\ phase = "start high" \/ phase = "stop high" => torn'
  BY <1>0, <1>1, JoinedPasses, PhasesOf
<1>4. begun' <= time'
  <2>1. begun' = begun /\ time' = time + 1
    BY <1>1
  <2> QED BY <1>0, <2>1
<1>5. ASSUME phase = "start high" PROVE (~torn' => Joined' = begun) /\ Wraps(Joined' - begun)
  <2>1. Wraps(Joined - begun) /\ (~torn => Joined = begun)
    BY <1>5 DEF TimeIInv
  <2>2. Wraps((Joined - begun) + LowWord)
    BY <1>0, <2>1, NoWrap, WrapsAddUp
  <2>3. Joined' = Joined + LowWord => Joined' - begun = (Joined - begun) + LowWord
    BY <1>0
  <2> QED BY <1>3, <1>5, <2>1, <2>2, <2>3
<1>6. ASSUME phase = "stop high"
      PROVE  /\ ~torn' => watch.diff + (Joined' - watch.start) = measured
             /\ Wraps((watch.diff + (Joined' - watch.start)) - measured)
  <2> DEFINE x == (watch.diff + (Joined - watch.start)) - measured
  <2>1. Wraps(x) /\ (~torn => watch.diff + (Joined - watch.start) = measured)
    BY <1>6 DEF TimeIInv
  <2>2. x \in Int
    BY <1>0
  <2>3. Wraps(x + LowWord)
    <3> HIDE DEF x
    <3> QED BY <1>0, <2>1, <2>2, NoWrap, WrapsAddUp
  <2>4. Joined' = Joined + LowWord =>
          (watch.diff + (Joined' - watch.start)) - measured = x + LowWord
    BY <1>0
  <2> QED BY <1>3, <1>6, <2>1, <2>3, <2>4
<1> QED BY <1>1, <1>2, <1>3, <1>4, <1>5, <1>6 DEF TimeIInv

\* The calls between measures.
LEMMA CallStep ==
  ASSUME TimeIInv, TimeOpen \/ TimeClose \/ WatchInit
  PROVE  TimeIInv'
<1>1. CASE TimeOpen
  <2>1. TimeTypeOK'
    BY <1>1 DEF TimeIInv, TimeTypeOK, TimeOpen
  <2>2. phase = "off" /\ UNCHANGED <<phase, begun, time>>
    BY <1>1 DEF TimeOpen
  <2> QED BY <2>1, <2>2 DEF TimeIInv
<1>2. CASE TimeClose
  <2>1. device' \in WatchDevice /\ phase' \in WatchPhase
    BY <1>2 DEF TimeIInv, TimeTypeOK, TimeClose, WatchDevice, WatchPhase
  <2>2. TimeTypeOK'
    BY <1>2, <2>1 DEF TimeIInv, TimeTypeOK, TimeClose
  <2>3. phase' = "off" /\ UNCHANGED <<begun, time>>
    BY <1>2 DEF TimeClose
  <2> QED BY <2>2, <2>3 DEF TimeIInv
<1>3. CASE WatchInit
  <2>1. /\ watch' = [start |-> 0, diff |-> 0, freq |-> "microseconds"] /\ phase' = "ready"
        /\ measured' = 0 /\ torn' = FALSE /\ stops' = 0
        /\ UNCHANGED <<device, time, startLow, begun>>
    BY <1>3 DEF WatchInit, Initialised
  <2>2. watch' \in Watch
    BY <2>1 DEF Watch
  <2>3. phase' \in WatchPhase /\ 0 \in 0 .. MaxStops
    <3>1. 0 \in 0 .. MaxStops
      BY TimeAssumption
    <3> QED BY <2>1, <3>1, PhasesOf
  <2>4. TimeTypeOK'
    BY <2>1, <2>2, <2>3 DEF TimeIInv, TimeTypeOK
  <2>5. watch'.diff = 0 /\ watch'.freq = "microseconds" /\ ~ (stops' > 0)
    BY <2>1
  <2>6. Wraps(watch'.diff - measured')
    BY <2>1, <2>5, NoWrap
  <2> QED BY <2>1, <2>4, <2>5, <2>6 DEF TimeIInv
<1> QED BY <1>1, <1>2, <1>3

LEMMA WatchStartStep ==
  ASSUME TimeIInv, StartTick \/ StartLow \/ StartHigh
  PROVE  TimeIInv'
<1>0. /\ TimeTypeOK /\ watch \in Watch /\ watch.diff \in Int
      /\ time \in Nat /\ Joined \in Nat /\ begun <= time
  BY TimeTypes, JoinedTyped DEF TimeIInv, TimeTypeOK
<1>1. CASE StartTick
  <2>1. /\ phase = "ready" \/ phase = "started"
        /\ device # "tsc" /\ phase' = "started"
        /\ watch' = [watch EXCEPT !.start = time] /\ begun' = time
        /\ UNCHANGED <<device, time, startLow, measured, torn, stops>>
    BY <1>1 DEF StartTick
  <2>2. /\ watch' \in Watch /\ watch'.start = time
        /\ watch'.diff = watch.diff /\ watch'.freq = watch.freq
    BY <1>0, <2>1, Started
  <2>3. phase' \in WatchPhase
    BY <2>1, PhasesOf
  <2>4. TimeTypeOK'
    BY <1>0, <2>1, <2>2, <2>3 DEF TimeTypeOK
  <2>5. begun' <= time' /\ Wraps(watch'.start - begun')
    <3>1. watch'.start - begun' = 0 /\ begun' = time' /\ time' \in Nat
      BY <1>0, <2>1, <2>2
    <3> QED BY <3>1, NoWrap
  <2> QED BY <2>1, <2>2, <2>4, <2>5 DEF TimeIInv
<1>2. CASE StartLow
  <2>1. /\ phase = "ready" \/ phase = "started"
        /\ device = "tsc" /\ phase' = "start high"
        /\ startLow' = time % LowWord /\ begun' = time
        /\ UNCHANGED <<device, watch, time, measured, torn, stops>>
    BY <1>2 DEF StartLow
  <2>2. phase' \in WatchPhase /\ startLow' \in 0 .. LowWord - 1
    BY <1>0, <2>1, PhasesOf, LowHalf
  <2>3. TimeTypeOK'
    BY <1>0, <2>1, <2>2 DEF TimeTypeOK
  <2>4. Joined' = begun' /\ begun' <= time' /\ Wraps(Joined' - begun')
    <3>1. startLow' = time' % LowWord /\ begun' = time' /\ time' = time
      BY <2>1
    <3>2. Joined' = time'
      BY <2>3, <3>1, JoinedNow
    <3>3. Joined' - begun' = 0 /\ begun' <= time'
      BY <1>0, <3>1, <3>2
    <3> QED BY <3>1, <3>2, <3>3, NoWrap
  <2> QED BY <2>1, <2>3, <2>4 DEF TimeIInv
<1>3. CASE StartHigh
  <2>1. /\ phase = "start high" /\ phase' = "started"
        /\ watch' = [watch EXCEPT !.start = Joined]
        /\ UNCHANGED <<device, time, startLow, begun, measured, torn, stops>>
    BY <1>3 DEF StartHigh
  <2>2. /\ watch' \in Watch /\ watch'.start = Joined
        /\ watch'.diff = watch.diff /\ watch'.freq = watch.freq
    BY <1>0, <2>1, Started
  <2>3. phase' \in WatchPhase
    BY <2>1, PhasesOf
  <2>4. TimeTypeOK'
    BY <1>0, <2>1, <2>2, <2>3 DEF TimeTypeOK
  <2> QED BY <2>1, <2>2, <2>4 DEF TimeIInv
<1> QED BY <1>1, <1>2, <1>3

\* What a stop adds, with the halves put together at t.
LEMMA Sums ==
  ASSUME TimeIInv, NEW t \in Nat, phase = "started"
  PROVE  /\ watch.diff + (t - watch.start) \in Int
         /\ Wraps((watch.diff + (t - watch.start)) - (measured + (t - begun)))
         /\ ~torn => watch.diff + (t - watch.start) = measured + (t - begun)
<1>1. /\ Wraps(watch.diff - measured) /\ Wraps(watch.start - begun)
      /\ ~torn => watch.diff = measured /\ watch.start = begun
  BY DEF TimeIInv
<1>2. watch.start \in Nat /\ watch.diff \in Int /\ measured \in Nat /\ begun \in Nat
  BY TimeTypes DEF TimeIInv
<1>3. (watch.diff + (t - watch.start)) - (measured + (t - begun))
        = (watch.diff - measured) - (watch.start - begun)
  BY <1>2
<1>4. Wraps((watch.diff - measured) - (watch.start - begun))
  <2>1. watch.diff - measured \in Int /\ watch.start - begun \in Int
    BY <1>2
  <2> QED BY <1>1, <2>1, WrapsAddUp
<1>5. watch.diff + (t - watch.start) \in Int
  BY <1>2
<1> QED BY <1>1, <1>3, <1>4, <1>5

LEMMA StopStep ==
  ASSUME TimeIInv, StopTick \/ StopLow \/ StopHigh
  PROVE  TimeIInv'
<1>0. /\ TimeTypeOK /\ watch \in Watch /\ watch.diff \in Int /\ watch.start \in Nat
      /\ time \in Nat /\ Joined \in Nat /\ begun <= time
  BY TimeTypes, JoinedTyped DEF TimeIInv, TimeTypeOK
<1>1. ASSUME stops < MaxStops, stops' = stops + 1, measured' = measured + (time - begun)
      PROVE  stops' \in 0 .. MaxStops /\ measured' \in Nat
  BY <1>0, <1>1, TimeTypes
<1>2. CASE StopTick
  <2>1. /\ phase = "started" /\ device # "tsc" /\ stops < MaxStops
        /\ watch' = [watch EXCEPT !.diff = watch.diff + (time - watch.start)]
        /\ measured' = measured + (time - begun)
        /\ stops' = stops + 1
        /\ UNCHANGED <<device, time, phase, startLow, begun, torn>>
    BY <1>2 DEF StopTick
  <2>2. /\ watch' \in Watch /\ watch'.start = watch.start /\ watch'.freq = watch.freq
        /\ watch'.diff = watch.diff + (time - watch.start)
    <3>1. watch.diff + (time - watch.start) \in Int
      BY <1>0
    <3> QED BY <1>0, <2>1, <3>1, Stopped
  <2>3. TimeTypeOK'
    <3>1. stops' \in 0 .. MaxStops /\ measured' \in Nat
      BY <1>1, <2>1
    <3> QED BY <1>0, <2>1, <2>2, <3>1 DEF TimeTypeOK
  <2>4. Wraps(watch'.diff - measured') /\ (~torn => watch'.diff = measured')
    BY <1>0, <2>1, <2>2, Sums
  <2> QED BY <2>1, <2>2, <2>3, <2>4 DEF TimeIInv
<1>3. CASE StopLow
  <2>1. /\ phase = "started" /\ device = "tsc" /\ stops < MaxStops /\ phase' = "stop high"
        /\ startLow' = time % LowWord
        /\ measured' = measured + (time - begun)
        /\ stops' = stops + 1
        /\ UNCHANGED <<device, watch, time, begun, torn>>
    BY <1>3 DEF StopLow
  <2>2. TimeTypeOK'
    <3>1. stops' \in 0 .. MaxStops /\ measured' \in Nat
      BY <1>1, <2>1
    <3>2. phase' \in WatchPhase /\ startLow' \in 0 .. LowWord - 1
      BY <1>0, <2>1, PhasesOf, LowHalf
    <3> QED BY <1>0, <2>1, <3>1, <3>2 DEF TimeTypeOK
  <2>3. Joined' = time
    <3>1. startLow' = time' % LowWord /\ time' = time
      BY <2>1
    <3> QED BY <2>2, <3>1, JoinedNow
  <2>4. /\ Wraps((watch.diff + (Joined' - watch.start)) - measured')
        /\ ~torn => watch.diff + (Joined' - watch.start) = measured'
    BY <1>0, <2>1, <2>3, Sums
  <2> QED BY <2>1, <2>2, <2>4 DEF TimeIInv
<1>4. CASE StopHigh
  <2>1. /\ phase = "stop high" /\ phase' = "started"
        /\ watch' = [watch EXCEPT !.diff = watch.diff + (Joined - watch.start),
                                  !.freq = IF watch.freq = "microseconds" THEN "cpu"
                                           ELSE watch.freq]
        /\ UNCHANGED <<device, time, startLow, begun, measured, torn, stops>>
    BY <1>4 DEF StopHigh
  <2>2. /\ watch.freq = "microseconds" \/ watch.freq = "cpu"
        /\ device = "tsc"
    BY <2>1 DEF TimeIInv
  <2>3. watch' = [watch EXCEPT !.diff = watch.diff + (Joined - watch.start), !.freq = "cpu"]
    BY <2>1, <2>2
  <2>4. /\ watch' \in Watch /\ watch'.start = watch.start /\ watch'.freq = "cpu"
        /\ watch'.diff = watch.diff + (Joined - watch.start)
    <3>1. watch.diff + (Joined - watch.start) \in Int
      BY <1>0
    <3> QED BY <1>0, <2>3, <3>1, Stopped
  <2>5. phase' \in WatchPhase
    BY <2>1, PhasesOf
  <2>6. TimeTypeOK'
    BY <1>0, <2>1, <2>4, <2>5 DEF TimeTypeOK
  <2> QED BY <2>1, <2>2, <2>4, <2>6 DEF TimeIInv
<1> QED BY <1>2, <1>3, <1>4

LEMMA TimeInitially == TimeInit => TimeIInv
<1> SUFFICES ASSUME TimeInit PROVE TimeIInv
  OBVIOUS
<1>1. 0 \in 0 .. MaxTime /\ 0 \in 0 .. LowWord - 1 /\ 0 \in 0 .. MaxStops
  BY TimeAssumption
<1>2. watch \in Watch
  BY DEF TimeInit, Watch
<1>3. phase \in WatchPhase /\ device \in WatchDevice
  BY DEF TimeInit, WatchPhase, WatchDevice
<1>4. TimeTypeOK
  BY <1>1, <1>2, <1>3 DEF TimeInit, TimeTypeOK
<1>5. phase = "off" /\ begun <= time
  BY DEF TimeInit
<1> QED BY <1>4, <1>5 DEF TimeIInv

LEMMA TimeKept == TimeIInv /\ [TimeNext]_timeVars => TimeIInv'
<1>1. TimeIInv /\ UNCHANGED timeVars => TimeIInv'
  <2> SUFFICES ASSUME TimeIInv, UNCHANGED timeVars PROVE TimeIInv'
    OBVIOUS
  <2>1. /\ UNCHANGED <<device, watch, time, phase, startLow, begun, measured, torn, stops>>
        /\ Joined' = Joined
    BY JoinedSame DEF timeVars
  <2>2. TimeTypeOK'
    BY <2>1 DEF TimeIInv, TimeTypeOK
  <2> QED BY <2>1, <2>2 DEF TimeIInv
<1> QED BY <1>1, PassesStep, CallStep, WatchStartStep, StopStep DEF TimeNext

\* vm_time_start and vm_time_stop, with the device and without it, as often as a
\* caller likes: the sum is the time between the reads of the clock, off by whole
\* wraps of its low half if it wrapped inside a call and exact otherwise.
THEOREM TimeIsMeasured == TimeSpec => []TimeMeasured
<1>1. TimeIInv => TimeMeasured
  BY DEF TimeIInv, TimeMeasured, Wraps
<1> QED BY <1>1, TimeInitially, TimeKept, PTL DEF TimeSpec

\* Types of the stopwatch, for any width of the halves.
THEOREM TimeTypeCorrect == TimeSpec => []TimeTypeOK
<1>1. TimeIInv => TimeTypeOK
  BY DEF TimeIInv
<1> QED BY <1>1, TimeInitially, TimeKept, PTL DEF TimeSpec

\* The stopwatch of Windows reads its clock at once, so the sum is always exact.
THEOREM TickIsMeasured ==
  WinTimeSpec => [](phase = "ready" \/ phase = "started" => watch.diff = measured)
<1> DEFINE Whole == TimeIInv /\ device = "none" /\ ~torn /\ ~Between
<1>1. TimeInit => Whole
  BY TimeInitially DEF TimeInit, Between
<1>2. Whole /\ [WinTimeNext]_<<timeVars, timevalVars>> => Whole'
  <2> SUFFICES ASSUME Whole, [WinTimeNext]_<<timeVars, timevalVars>> PROVE Whole'
    OBVIOUS
  <2>1. [TimeNext]_timeVars
    BY DEF WinTimeNext, TickClose, TickInit, TickStart, TickStop, TimeNext
  <2>2. TimeIInv'
    BY <2>1, TimeKept
  <2>3. CASE Passes
    <3>1. ~torn'
      BY <2>3, Zenon DEF Passes
    <3>2. device' = "none" /\ ~Between'
      BY <2>3 DEF Passes, Between
    <3> QED BY <2>2, <3>1, <3>2
  <2>5. CASE UNCHANGED timeVars
    BY <2>2, <2>5 DEF Between, timeVars
  <2>4. CASE TimeClose \/ WatchInit \/ StartTick \/ StopTick
    <3>1. device' = "none" /\ ~torn'
      BY <2>4 DEF TimeClose, WatchInit, StartTick, StopTick
    <3>2. phase' = "off" \/ phase' = "ready" \/ phase' = "started"
      BY <2>4 DEF TimeClose, WatchInit, StartTick, StopTick
    <3> QED BY <2>2, <3>1, <3>2 DEF Between
  <2> QED BY <2>2, <2>3, <2>4, <2>5 DEF WinTimeNext, TickClose, TickInit, TickStart, TickStop
<1>3. Whole => (phase = "ready" \/ phase = "started" => watch.diff = measured)
  BY DEF TimeIInv
<1> QED BY <1>1, <1>2, <1>3, PTL DEF WinTimeSpec

-----------------------------------------------------------------------------
\* The microseconds a vm_timeval can hold.
Capacity == WordSize * Second

LEMMA Widths ==
  /\ WordSize \in Nat \ {0} /\ WordSize \in Nat /\ WordSize > 0
  /\ Second \in Nat \ {0} /\ Second \in Nat /\ Second > 0
  /\ Milli \in Nat
  /\ Capacity \in Nat \ {0} /\ Capacity \in Nat /\ Capacity > 0
  /\ Capacity + Capacity <= WordSize * WordSize /\ WordSize * WordSize \in Nat \ {0}
  /\ \A b \in Spans : b \in 0 .. Capacity - 1
  /\ \A m \in Waits : m \in Nat
<1>1. /\ WordSize \in Nat /\ WordSize > 0 /\ Second \in Nat /\ Second > 0 /\ Milli \in Nat
      /\ 2 * Second <= WordSize
      /\ \A b \in Spans : b \in 0 .. (WordSize * Second) - 1
      /\ Waits \subseteq 0 .. WordSize - 1
  BY WidthAssumption
<1>2. WordSize * Second \in Nat /\ WordSize * Second > 0 /\ WordSize * WordSize \in Nat
  BY <1>1
<1>3. WordSize * (2 * Second) <= WordSize * WordSize
  BY <1>1
<1>4. WordSize * (2 * Second) = (WordSize * Second) + (WordSize * Second)
  BY <1>1
<1>5. \A m \in Waits : m \in Nat
  BY <1>1
<1>6. (WordSize * Second) + (WordSize * Second) <= WordSize * WordSize
  BY <1>3, <1>4
<1>7. WordSize * WordSize \in Nat \ {0}
  <2> DEFINE c == WordSize * Second
             w == WordSize * WordSize
  <2>1. c \in Nat /\ c > 0 /\ w \in Nat /\ c + c <= w
    BY <1>2, <1>6
  <2> HIDE DEF c, w
  <2>2. w # 0
    BY <2>1
  <2> QED BY <2>1, <2>2 DEF w
<1>8. WordSize * Second \in Nat \ {0}
  BY <1>2
<1> QED BY <1>1, <1>2, <1>5, <1>6, <1>7, <1>8 DEF Capacity

\* vvalue undoes what VM_TIMEDEST does, but for the seconds above 32 bits.
LEMMA SplitValue ==
  ASSUME NEW v \in Nat
  PROVE  /\ Split(v) \in [tv_sec : 0 .. WordSize - 1, tv_usec : 0 .. Second - 1]
         /\ Value(Split(v)) = v % Capacity
<1> DEFINE q == v \div Second
           r == v % Second
           p == q \div WordSize
           s == q % WordSize
<1>1. q \in Int /\ r \in 0 .. Second - 1 /\ v = (Second * q) + r
  BY Widths, Division
<1>2. p \in Int /\ s \in 0 .. WordSize - 1 /\ q = (WordSize * p) + s
  <2> HIDE DEF q
  <2> QED BY <1>1, Widths, Division
<1>3. Split(v) = [tv_sec |-> s, tv_usec |-> r]
  BY DEF Split
<1> HIDE DEF q, r, p, s
<1>4. Value(Split(v)) = (s * Second) + r
  BY <1>3 DEF Value
<1>5. v = (Capacity * p) + ((s * Second) + r)
  <2>1. v = (Second * ((WordSize * p) + s)) + r
    BY <1>1, <1>2
  <2>2. Second * ((WordSize * p) + s) = ((WordSize * Second) * p) + (s * Second)
    BY <1>1, <1>2, Widths
  <2>3. ((WordSize * Second) * p) \in Int /\ s * Second \in Int
    BY <1>1, <1>2, Widths
  <2> QED BY <1>1, <2>1, <2>2, <2>3 DEF Capacity
<1>6. (s * Second) + r \in 0 .. Capacity - 1
  <2>1. s * Second <= (WordSize - 1) * Second
    BY <1>2, Widths
  <2>2. (WordSize - 1) * Second = Capacity - Second
    BY Widths DEF Capacity
  <2>3. s * Second \in Nat
    BY <1>2, Widths
  <2> QED BY <1>1, <2>1, <2>2, <2>3, Widths
<1>7. ((Capacity * p) + ((s * Second) + r)) % Capacity = (s * Second) + r
  BY <1>2, <1>6, Widths, Quotient
<1> QED BY <1>1, <1>2, <1>3, <1>4, <1>5, <1>7

\* A sum of remainders is the remainder of the sum.
LEMMA RemainderSum ==
  ASSUME NEW d \in Nat \ {0}, NEW x \in Int, NEW b \in Int
  PROVE  ((x % d) + b) % d = (x + b) % d
<1> DEFINE r == x % d
           p == x \div d
           s == (r + b) % d
           q == (r + b) \div d
<1>1. p \in Int /\ r \in 0 .. d - 1 /\ x = (d * p) + r
  BY Division
<1>2. q \in Int /\ s \in 0 .. d - 1 /\ r + b = (d * q) + s
  <2>1. r + b \in Int
    BY <1>1
  <2> HIDE DEF r
  <2> QED BY <2>1, Division
<1> HIDE DEF p, q, r, s
<1>3. x + b = (d * (p + q)) + s
  <2>1. x + b = (d * p) + ((d * q) + s)
    BY <1>1, <1>2
  <2>2. d * (p + q) = (d * p) + (d * q)
    BY <1>1, <1>2
  <2> QED BY <1>1, <1>2, <2>1, <2>2
<1>4. ((d * (p + q)) + s) % d = s
  <2>1. p + q \in Int
    BY <1>1, <1>2
  <2> QED BY <1>2, <2>1, Quotient
<1>5. s = (x + b) % d
  BY <1>3, <1>4
<1> QED BY <1>5 DEF s, r

LEMMA Small ==
  ASSUME NEW d \in Nat \ {0}, NEW x \in 0 .. d - 1
  PROVE  x % d = x
<1>1. ((d * 0) + x) % d = x
  BY Quotient
<1>2. (d * 0) + x = x
  OBVIOUS
<1> QED BY <1>1, <1>2

\* The clock is the exact sum but for the wraps of its seconds.
TimevalIInv ==
  /\ TimevalTypeOK
  /\ exact \in Nat
  /\ Value(clock) = exact % Capacity
  /\ DeadlineExact

LEMMA ClockTyped ==
  ASSUME clock \in [tv_sec : 0 .. WordSize - 1, tv_usec : 0 .. Second - 1]
  PROVE  /\ clock.tv_sec \in Nat /\ clock.tv_usec \in 0 .. Second - 1
         /\ Value(clock) = (clock.tv_sec * Second) + clock.tv_usec
         /\ Value(clock) \in Nat
<1>1. clock.tv_sec \in 0 .. WordSize - 1 /\ clock.tv_usec \in 0 .. Second - 1
  OBVIOUS
<1>2. clock.tv_sec \in Nat /\ clock.tv_usec \in Nat
  BY <1>1, Widths
<1> QED BY <1>1, <1>2, Widths DEF Value

\* What TimerAdd and TimerSub write, for the sum or difference x.
LEMMA ClockWritten ==
  ASSUME TimevalIInv, NEW b \in Int, Value(clock) + b \in 0 .. (WordSize * WordSize) - 1,
         clock' = Split((Value(clock) + b) % (WordSize * WordSize)),
         exact' = exact + b, exact + b \in Nat, UNCHANGED <<deadline, begunWait>>
  PROVE  TimevalIInv'
<1> DEFINE v == Value(clock) + b
<1>1. v % (WordSize * WordSize) = v
  <2>1. v \in 0 .. (WordSize * WordSize) - 1
    OBVIOUS
  <2> HIDE DEF v
  <2> QED BY <2>1, Widths, Small
<1>2. clock' = Split(v) /\ v \in Nat
  <2>1. v \in Nat
    BY Widths
  <2> QED BY <1>1, <2>1
<1>3. /\ clock' \in [tv_sec : 0 .. WordSize - 1, tv_usec : 0 .. Second - 1]
      /\ Value(clock') = v % Capacity
  <2> HIDE DEF v
  <2> QED BY <1>2, SplitValue
<1>4. v % Capacity = (exact + b) % Capacity
  <2>1. v = (exact % Capacity) + b
    BY DEF TimevalIInv
  <2>2. exact \in Int
    BY DEF TimevalIInv
  <2> HIDE DEF v
  <2> QED BY <2>1, <2>2, Widths, RemainderSum
<1>5. Value(clock)' = exact' % Capacity
  <2> HIDE DEF v
  <2> QED BY <1>3, <1>4 DEF Value
<1>6. TimevalTypeOK'
  <2> HIDE DEF v
  <2> QED BY <1>3 DEF TimevalIInv, TimevalTypeOK
<1>7. DeadlineExact'
  BY DEF TimevalIInv, DeadlineExact, Value
<1> QED BY <1>5, <1>6, <1>7 DEF TimevalIInv

LEMMA AddStep ==
  ASSUME TimevalIInv, NEW b \in Spans, TimerAdd(b) \/ TimerSub(b)
  PROVE  TimevalIInv'
<1>1. b \in 0 .. Capacity - 1 /\ b \in Int /\ exact \in Nat
  BY Widths DEF TimevalIInv
<1>2. Value(clock) \in 0 .. Capacity - 1 /\ Value(clock) <= exact
  <2>1. Value(clock) = exact % Capacity /\ exact \in Int
    BY <1>1 DEF TimevalIInv
  <2>2. exact % Capacity \in 0 .. Capacity - 1
    BY <2>1, Widths, Division
  <2>3. exact % Capacity <= exact
    <3> DEFINE q == exact \div Capacity
               r == exact % Capacity
    <3>1. q \in Int /\ r \in 0 .. Capacity - 1 /\ exact = (Capacity * q) + r
      BY <2>1, Widths, Division
    <3> HIDE DEF q, r
    <3>2. q >= 0
      <4>1. ASSUME q <= -1 PROVE FALSE
        <5>1. Capacity * q <= -Capacity
          BY <3>1, <4>1, Widths
        <5>2. Capacity * q \in Int
          BY <3>1, Widths
        <5> QED BY <1>1, <3>1, <5>1, <5>2, Widths
      <4> QED BY <3>1, <4>1
    <3>3. Capacity * q \in Nat
      BY <3>1, <3>2, Widths
    <3>4. r <= exact
      BY <3>1, <3>3
    <3> QED BY <3>4 DEF r
  <2> QED BY <2>1, <2>2, <2>3
<1>3. CASE TimerAdd(b)
  <2>1. Value(clock) + b \in 0 .. (WordSize * WordSize) - 1 /\ exact + b \in Nat
    BY <1>1, <1>2, Widths
  <2> QED BY <1>1, <1>3, <2>1, ClockWritten DEF TimerAdd
<1>4. CASE TimerSub(b)
  <2> DEFINE c == -b
  <2>1. c \in Int /\ Value(clock) + c = Value(clock) - b /\ exact + c = exact - b
    BY <1>1, <1>2
  <2>2. b <= Value(clock)
    BY <1>4 DEF TimerSub
  <2>3. Value(clock) + c \in 0 .. (WordSize * WordSize) - 1 /\ exact + c \in Nat
    BY <1>1, <1>2, <2>2, Widths
  <2>4. /\ clock' = Split((Value(clock) + c) % (WordSize * WordSize))
        /\ exact' = exact + c /\ UNCHANGED <<deadline, begunWait>>
    <3> HIDE DEF c
    <3> QED BY <1>4, <2>1 DEF TimerSub
  <2> HIDE DEF c
  <2> QED BY <2>1, <2>3, <2>4, ClockWritten
<1> QED BY <1>3, <1>4

LEMMA WaitStep ==
  ASSUME TimevalIInv, NEW msec \in Waits, TimedWait(msec)
  PROVE  TimevalIInv'
<1> DEFINE want == (Milli * msec) + clock.tv_usec
           u == want % WordSize
           k == want \div WordSize
           q == u \div Second
           r == u % Second
<1>1. /\ clock.tv_sec \in Nat /\ clock.tv_usec \in 0 .. Second - 1
      /\ Value(clock) = (clock.tv_sec * Second) + clock.tv_usec /\ Value(clock) \in Nat
      /\ msec \in Nat /\ Milli * msec \in Nat
  BY ClockTyped, Widths DEF TimevalIInv, TimevalTypeOK
<1>2. want \in Nat
  BY <1>1, Widths
<1>3. k \in Int /\ u \in 0 .. WordSize - 1 /\ want = (WordSize * k) + u
  <2> HIDE DEF want
  <2> QED BY <1>2, Widths, Division
<1>4. q \in Int /\ r \in 0 .. Second - 1 /\ u = (Second * q) + r
  <2>1. u \in Int
    BY <1>3, Widths
  <2> HIDE DEF u
  <2> QED BY <2>1, Widths, Division
<1>5. deadline' = [tv_sec |-> clock.tv_sec + q, tv_usec |-> r]
  BY DEF TimedWait, Deadline
<1>6. want < WordSize => u = want
  <2> HIDE DEF want
  <2> QED BY <1>2, Widths, Small
<1>7. /\ begunWait' = [from |-> Value(clock), msec |-> msec]
      /\ UNCHANGED <<clock, exact>>
  BY DEF TimedWait
<1>8. (Value(clock) % Second) = clock.tv_usec
  <2>1. ((Second * clock.tv_sec) + clock.tv_usec) % Second = clock.tv_usec
    <3>1. clock.tv_sec \in Int /\ Second \in Nat \ {0}
      BY <1>1, Widths
    <3> QED BY <1>1, <3>1, Quotient
  <2>2. Second * clock.tv_sec = clock.tv_sec * Second
    BY <1>1, Widths
  <2> QED BY <1>1, <2>1, <2>2
<1> DEFINE began == Value(clock)
           add == Milli * msec
<1>9. began \in Nat /\ add \in Nat /\ want = add + clock.tv_usec
  BY <1>1
<1>10. began = (clock.tv_sec * Second) + clock.tv_usec
  BY <1>1
<1> HIDE DEF want, u, k, q, r, began, add
<1>11. q \in Nat
  <2>1. ASSUME q <= -1 PROVE FALSE
    <3>1. Second * q <= -Second /\ Second * q \in Int
      BY <1>4, <2>1, Widths
    <3> QED BY <1>3, <1>4, <3>1, Widths
  <2> QED BY <1>4, <2>1
<1>12. k \in Nat
  <2>1. ASSUME k <= -1 PROVE FALSE
    <3>1. WordSize * k <= -WordSize /\ WordSize * k \in Int
      BY <1>3, <2>1, Widths
    <3> QED BY <1>2, <1>3, <3>1, Widths
  <2> QED BY <1>3, <2>1
<1>13. Value(deadline') = (clock.tv_sec * Second) + u
  <2>1. Value(deadline') = ((clock.tv_sec + q) * Second) + r
    BY <1>5 DEF Value
  <2>2. (clock.tv_sec + q) * Second = (clock.tv_sec * Second) + (Second * q)
    BY <1>1, <1>11, Widths
  <2>3. clock.tv_sec * Second \in Nat /\ Second * q \in Nat
    BY <1>1, <1>11, Widths
  <2> QED BY <1>4, <2>1, <2>2, <2>3
<1>14. (began + add) - Value(deadline') = WordSize * k
  <2>1. clock.tv_sec * Second \in Nat /\ WordSize * k \in Nat
    BY <1>1, <1>12, Widths
  <2> QED BY <1>1, <1>3, <1>9, <1>10, <1>13, <2>1
<1>15. Value(deadline') \in Nat /\ WordSize * k \in Nat
  <2>1. clock.tv_sec * Second \in Nat /\ u \in Nat
    BY <1>1, <1>3, Widths
  <2>2. WordSize * k \in Nat
    BY <1>12, Widths
  <2> QED BY <1>13, <2>1, <2>2
<1>16. (WordSize * k) % WordSize = 0
  <2>1. ((WordSize * k) + 0) % WordSize = 0
    BY <1>12, Widths, Quotient
  <2> QED BY <1>15, <2>1
<1>17. Value(deadline') <= began + add
  BY <1>9, <1>14, <1>15
<1>18. want < WordSize => Value(deadline') = began + add
  <2>1. clock.tv_sec * Second \in Nat
    BY <1>1, Widths
  <2> QED BY <1>1, <1>6, <1>9, <1>10, <1>13, <2>1
<1>19. DeadlineExact'
  <2>1. begunWait'.from = began /\ Milli * begunWait'.msec = add
    BY <1>7 DEF began, add
  <2>2. began % Second = clock.tv_usec
    BY <1>8 DEF began
  <2>3. Value(deadline)' = Value(deadline')
    BY DEF Value
  <2> QED BY <1>9, <1>14, <1>16, <1>17, <1>18, <2>1, <2>2, <2>3 DEF DeadlineExact
<1>20. TimevalTypeOK'
  <2>1. clock.tv_sec + q \in Nat
    BY <1>1, <1>11
  <2>2. deadline' \in [tv_sec : Nat, tv_usec : 0 .. Second - 1]
    BY <1>4, <1>5, <2>1
  <2>3. begunWait' \in [from : Nat, msec : Waits \union {0}]
    BY <1>1, <1>7
  <2> QED BY <1>7, <2>2, <2>3 DEF TimevalIInv, TimevalTypeOK
<1> QED BY <1>7, <1>19, <1>20 DEF TimevalIInv, Value

LEMMA Compared ==
  ASSUME TimevalIInv
  PROVE  TimevalExact
<1>1. Value(clock) \in Nat /\ Value(clock) = exact % (WordSize * Second)
  BY ClockTyped DEF TimevalIInv, TimevalTypeOK, Capacity
<1>2. ASSUME NEW b \in Spans
      PROVE  LET order == TimerCompare(Value(clock), b, 0) IN
             /\ order = -TimerCompare(b, Value(clock), 0)
             /\ order = 1 <=> Value(clock) > b
  <2> DEFINE a == Value(clock)
  <2>1. a \in Nat /\ b \in Nat
    BY <1>1, Widths
  <2> HIDE DEF a
  <2>2. /\ TimerCompare(a, b, 0) = IF a = b THEN 0 ELSE IF a < b THEN -1 ELSE 1
        /\ TimerCompare(b, a, 0) = IF b = a THEN 0 ELSE IF b < a THEN -1 ELSE 1
    BY DEF TimerCompare
  <2>3. /\ TimerCompare(a, b, 0) = -TimerCompare(b, a, 0)
        /\ TimerCompare(a, b, 0) = 1 <=> a > b
    BY <2>1, <2>2
  <2> QED BY <2>3 DEF a
<1> QED BY <1>1, <1>2 DEF TimevalExact

LEMMA TimevalInitially == TimevalInit => TimevalIInv
<1> SUFFICES ASSUME TimevalInit PROVE TimevalIInv
  OBVIOUS
<1>1. /\ clock = [tv_sec |-> 0, tv_usec |-> 0] /\ deadline = clock
      /\ begunWait = [from |-> 0, msec |-> 0] /\ exact = 0
  BY DEF TimevalInit
<1>2. TimevalTypeOK
  BY <1>1, Widths DEF TimevalTypeOK
<1>3. Value(clock) = 0 /\ Value(deadline) = 0
  BY <1>1, Widths DEF Value
<1>4. 0 % Capacity = 0 /\ 0 % WordSize = 0 /\ 0 % Second = 0
  <2>1. 0 \in 0 .. Capacity - 1 /\ 0 \in 0 .. WordSize - 1 /\ 0 \in 0 .. Second - 1
    BY Widths
  <2> QED BY <2>1, Widths, Small
<1>5. begunWait.from = 0 /\ Milli * begunWait.msec = 0
  BY <1>1, Widths
<1>6. DeadlineExact
  BY <1>3, <1>4, <1>5, Widths DEF DeadlineExact
<1> QED BY <1>1, <1>2, <1>3, <1>4, <1>6 DEF TimevalIInv

LEMMA TimevalKept == TimevalIInv /\ [TimevalNext]_timevalVars => TimevalIInv'
<1>1. TimevalIInv /\ UNCHANGED timevalVars => TimevalIInv'
  BY DEF TimevalIInv, TimevalTypeOK, DeadlineExact, Value, timevalVars
<1> QED BY <1>1, AddStep, WaitStep DEF TimevalNext

\* vm_time_timeradd and vm_time_timersub, and the deadlines of the timed waits
\* that begin between them: the sums are exact but for the width of the
\* seconds, and a deadline misses the end of its wait by whole wraps only.
THEOREM TimesAreExact == TimevalSpec => []TimesExact
<1>1. TimevalIInv => TimesExact
  BY Compared DEF TimevalIInv, TimesExact
<1> QED BY <1>1, TimevalInitially, TimevalKept, PTL DEF TimevalSpec

\* Types of the times of Windows: the microseconds stay below a second and the
\* seconds in their word.
THEOREM TimevalTypeCorrect == TimevalSpec => []TimevalTypeOK
<1>1. TimevalIInv => TimevalTypeOK
  BY DEF TimevalIInv
<1> QED BY <1>1, TimevalInitially, TimevalKept, PTL DEF TimevalSpec

-----------------------------------------------------------------------------
\* The sum of a line is a number.  LoadsAreShares leaves the sums as they are;
\* that they are numbers is a type.
LEMMA SumsExist ==
  ASSUME NEW row \in [Column -> Int], NEW n \in 0 .. Columns
  PROVE  \E sum : sum = [c \in 0 .. n |-> IF c = 0 THEN 0 ELSE sum[c - 1] + row[c]]
<1> DEFINE SumTo(k) == \E sum : sum = [c \in 0 .. k |-> IF c = 0 THEN 0 ELSE sum[c - 1] + row[c]]
           B == {k \in 0 .. Columns : ~ SumTo(k)}
<1>0. Columns \in Nat
  BY CpuAssumption
<1>1. SumTo(0)
  <2> DEFINE f == [c \in 0 .. 0 |-> 0]
  <2>1. f = [c \in 0 .. 0 |-> IF c = 0 THEN 0 ELSE f[c - 1] + row[c]]
    <3>1. \A c \in 0 .. 0 : c = 0
      OBVIOUS
    <3> QED BY <3>1
  <2> QED BY <2>1
<1>2. ASSUME NEW k \in 1 .. Columns, SumTo(k - 1) PROVE SumTo(k)
  <2>1. PICK f : f = [c \in 0 .. k - 1 |-> IF c = 0 THEN 0 ELSE f[c - 1] + row[c]]
    BY <1>2
  <2> DEFINE g == [c \in 0 .. k |-> IF c = k THEN f[k - 1] + row[k] ELSE f[c]]
  <2>2. \A c \in 0 .. k - 1 : f[c] = IF c = 0 THEN 0 ELSE f[c - 1] + row[c]
    BY <2>1
  <2>3. ASSUME NEW c \in 0 .. k
        PROVE  g[c] = IF c = 0 THEN 0 ELSE g[c - 1] + row[c]
    <3>1. CASE c = 0
      <4>1. 0 # k /\ 0 \in 0 .. k - 1
        BY <1>0
      <4> QED BY <2>2, <3>1, <4>1
    <3>2. CASE c # 0
      <4>1. c - 1 \in 0 .. k /\ c - 1 # k /\ (c # k => c \in 0 .. k - 1)
        BY <1>0, <3>2
      <4>2. g[c - 1] = f[c - 1]
        BY <4>1
      <4>3. CASE c = k
        BY <3>2, <4>2, <4>3
      <4>4. CASE c # k
        BY <2>2, <3>2, <4>1, <4>2, <4>4
      <4> QED BY <4>3, <4>4
    <3> QED BY <3>1, <3>2
  <2>4. g = [c \in 0 .. k |-> IF c = 0 THEN 0 ELSE g[c - 1] + row[c]]
    <3> DEFINE h == [c \in 0 .. k |-> IF c = 0 THEN 0 ELSE g[c - 1] + row[c]]
    <3>1. \A c \in 0 .. k : g[c] = h[c]
      BY <2>3
    <3>2. DOMAIN g = 0 .. k /\ DOMAIN h = 0 .. k
      OBVIOUS
    <3>3. g = [c \in 0 .. k |-> g[c]] /\ h = [c \in 0 .. k |-> h[c]]
      OBVIOUS
    <3> HIDE DEF g, h
    <3>4. g = h
      BY <3>1, <3>3
    <3> QED BY <3>4 DEF h
  <2> QED BY <2>4
<1> HIDE DEF SumTo
<1>3. B = {}
  <2> SUFFICES ASSUME B # {} PROVE FALSE
    OBVIOUS
  <2>1. B \in SUBSET Nat
    BY <1>0
  <2>2. PICK k \in B : \A y \in B : k =< y
    <3> HIDE DEF B
    <3> QED BY <2>1, FirstPlace
  <2>3. k \in 0 .. Columns /\ ~ SumTo(k) /\ k # 0
    BY <1>1
  <2>4. k \in 1 .. Columns /\ k - 1 \in 0 .. Columns /\ ~ k =< k - 1
    BY <1>0, <2>3
  <2>5. SumTo(k - 1)
    BY <2>2, <2>4
  <2> QED BY <1>2, <2>3, <2>4, <2>5
<1>4. SumTo(n)
  BY <1>3
<1> QED BY <1>4 DEF SumTo

LEMMA TotalIsSum ==
  ASSUME NEW row \in [Column -> Int]
  PROVE  \E sum : /\ Total(row) = sum[Columns]
                 /\ \A c \in 0 .. Columns :
                      sum[c] = IF c = 0 THEN 0 ELSE sum[c - 1] + row[c]
<1> DEFINE IsSum(sum) == sum = [c \in 0 .. Columns |-> IF c = 0 THEN 0 ELSE sum[c - 1] + row[c]]
           f == CHOOSE sum : IsSum(sum)
<1>1. \E sum : IsSum(sum)
  <2>1. Columns \in 0 .. Columns
    BY CpuAssumption
  <2>2. \E sum : sum = [c \in 0 .. Columns |-> IF c = 0 THEN 0 ELSE sum[c - 1] + row[c]]
    BY ONLY <2>1, SumsExist, row \in [Column -> Int]
  <2> QED BY ONLY <2>2
<1>2. f = [c \in 0 .. Columns |-> IF c = 0 THEN 0 ELSE f[c - 1] + row[c]]
  <2> HIDE DEF IsSum
  <2>1. IsSum(f)
    BY <1>1
  <2> HIDE DEF f
  <2> QED BY <2>1 DEF IsSum
<1>3. Total(row) = f[Columns]
  BY DEF Total
<1> HIDE DEF f
<1> QED BY <1>2, <1>3

LEMMA TotalTyped ==
  ASSUME NEW row \in [Column -> Int]
  PROVE  Total(row) \in Int
<1>1. PICK f : /\ Total(row) = f[Columns]
               /\ \A c \in 0 .. Columns : f[c] = IF c = 0 THEN 0 ELSE f[c - 1] + row[c]
  BY TotalIsSum
<1> DEFINE B == {c \in 0 .. Columns : f[c] \notin Int}
<1>2. Columns \in Nat
  BY CpuAssumption
<1>3. B = {}
  <2> SUFFICES ASSUME B # {} PROVE FALSE
    OBVIOUS
  <2>1. B \in SUBSET Nat
    BY <1>2
  <2>2. PICK k \in B : \A y \in B : k =< y
    <3> HIDE DEF B
    <3> QED BY <2>1, FirstPlace
  <2>3. k \in 0 .. Columns /\ f[k] \notin Int
    OBVIOUS
  <2>4. k # 0
    BY <1>1, <2>3
  <2>5. k \in Column /\ k - 1 \in 0 .. Columns /\ ~ k =< k - 1
    BY <1>2, <2>3, <2>4 DEF Column
  <2>6. f[k - 1] \in Int
    BY <2>2, <2>5
  <2>7. row[k] \in Int
    BY <2>5
  <2> QED BY <1>1, <2>3, <2>4, <2>6, <2>7
<1> QED BY <1>1, <1>2, <1>3

\* No part of a line is more than its sum, if none is negative.
LEMMA PartsOfTotal ==
  ASSUME NEW row \in [Column -> Nat], NEW c \in Column
  PROVE  row[c] \in 0 .. Total(row)
<1>0. row \in [Column -> Int] /\ Columns \in Nat
  BY CpuAssumption
<1>1. PICK f : /\ Total(row) = f[Columns]
               /\ \A d \in 0 .. Columns : f[d] = IF d = 0 THEN 0 ELSE f[d - 1] + row[d]
  BY <1>0, TotalIsSum
<1> DEFINE Covers(d) == f[d] \in Nat /\ \A e \in 1 .. d : row[e] =< f[d]
           B == {d \in 0 .. Columns : ~ Covers(d)}
<1>2. Covers(0)
  <2>1. f[0] = 0
    BY <1>0, <1>1
  <2> QED BY <2>1
<1>3. ASSUME NEW d \in 1 .. Columns, Covers(d - 1) PROVE Covers(d)
  <2>1. f[d] = f[d - 1] + row[d]
    BY <1>0, <1>1
  <2>2. row[d] \in Nat /\ f[d - 1] \in Nat
    BY <1>3 DEF Column
  <2>3. ASSUME NEW e \in 1 .. d PROVE row[e] =< f[d]
    <3>1. row[e] \in Nat /\ (e # d => e \in 1 .. d - 1)
      BY <1>0, <2>3 DEF Column
    <3>2. e # d => row[e] =< f[d - 1]
      BY <1>3, <3>1
    <3> QED BY <2>1, <2>2, <3>1, <3>2
  <2> QED BY <2>1, <2>2, <2>3
<1> HIDE DEF Covers
<1>4. B = {}
  <2> SUFFICES ASSUME B # {} PROVE FALSE
    OBVIOUS
  <2>1. B \in SUBSET Nat
    BY <1>0
  <2>2. PICK k \in B : \A y \in B : k =< y
    <3> HIDE DEF B
    <3> QED BY <2>1, FirstPlace
  <2>3. k \in 0 .. Columns /\ ~ Covers(k) /\ k # 0
    BY <1>2
  <2>4. k \in 1 .. Columns /\ k - 1 \in 0 .. Columns /\ ~ k =< k - 1
    BY <1>0, <2>3
  <2>5. Covers(k - 1)
    BY <2>2, <2>4
  <2> QED BY <1>3, <2>3, <2>4, <2>5
<1>5. Columns \in 0 .. Columns /\ c \in 1 .. Columns
  BY <1>0 DEF Column
<1>6. Covers(Columns)
  BY <1>4, <1>5
<1>7. f[Columns] \in Nat /\ row[c] =< f[Columns] /\ row[c] \in Nat
  BY <1>5, <1>6 DEF Covers
<1> QED BY <1>1, <1>7

CpuIInv ==
  /\ counters \in Reading /\ since \in Reading
  /\ \A i \in Line, c \in Column : since[i][c] >= 0
  /\ prevCPUdata \in [cells : {"none", "garbage", "filled", "freed"}, ld : Reading]
  /\ prevCPUdata.cells = "filled" =>
       \A i \in Line, c \in Column : since[i][c] = counters[i][c] - prevCPUdata.ld[i][c]
  /\ LoadsAreShares

LEMMA ReadingTyped ==
  ASSUME NEW r \in Reading, NEW i \in Line, NEW c \in Column
  PROVE  r[i] \in [Column -> Int] /\ r[i][c] \in Int
BY DEF Reading

LEMMA ZeroTyped == Zero \in Reading /\ \A i \in Line, c \in Column : Zero[i][c] >= 0
BY DEF Zero, Reading

\* A tick counts in the processor's line and in the first.
LEMMA CountedTyped ==
  ASSUME NEW r \in Reading, NEW i \in 1 .. Cpus, NEW c \in Column
  PROVE  /\ Counted(r, i, c) \in Reading
         /\ \A j \in Line, d \in Column :
              Counted(r, i, c)[j][d] = IF j \in {0, i} /\ d = c THEN r[j][d] + 1 ELSE r[j][d]
<1>1. i \in Line /\ 0 \in Line /\ i # 0
  BY CpuAssumption DEF Line
<1>2. r \in [Line -> [Column -> Int]]
  BY DEF Reading
<1> HIDE DEF Line, Column
<1> DEFINE row == [r[i] EXCEPT ![c] = r[i][c] + 1]
           sum == [r[0] EXCEPT ![c] = r[0][c] + 1]
<1>3. /\ row \in [Column -> Int] /\ sum \in [Column -> Int]
      /\ \A d \in Column : /\ row[d] = IF d = c THEN r[i][d] + 1 ELSE r[i][d]
                           /\ sum[d] = IF d = c THEN r[0][d] + 1 ELSE r[0][d]
  BY <1>1, <1>2
<1>4. Counted(r, i, c) = [r EXCEPT ![i] = row, ![0] = sum]
  BY <1>1, <1>2 DEF Counted
<1> HIDE DEF row, sum
<1>5. \A j \in Line : Counted(r, i, c)[j] = IF j = 0 THEN sum ELSE IF j = i THEN row ELSE r[j]
  BY <1>1, <1>2, <1>4
<1>6. Counted(r, i, c) \in [Line -> [Column -> Int]]
  BY <1>1, <1>2, <1>3, <1>4
<1> QED BY <1>1, <1>3, <1>5, <1>6 DEF Reading

LEMMA TickStep ==
  ASSUME CpuIInv, NEW i \in 1 .. Cpus, NEW c \in Column, CpuTick(i, c)
  PROVE  CpuIInv'
<1>1. /\ counters' = Counted(counters, i, c) /\ since' = Counted(since, i, c)
      /\ UNCHANGED <<prevCPUdata, loads, cpuStatus, spent>>
  BY DEF CpuTick
<1>2. counters' \in Reading /\ since' \in Reading
  BY <1>1, CountedTyped DEF CpuIInv
<1>3. ASSUME prevCPUdata.cells = "filled", NEW j \in Line, NEW d \in Column
      PROVE  since'[j][d] = counters'[j][d] - prevCPUdata.ld[j][d]
  <2>1. /\ since[j][d] = counters[j][d] - prevCPUdata.ld[j][d]
        /\ prevCPUdata.ld \in Reading
    BY <1>3 DEF CpuIInv
  <2>2. /\ counters[j][d] \in Int /\ prevCPUdata.ld[j][d] \in Int
    BY <2>1, ReadingTyped DEF CpuIInv
  <2>3. /\ counters'[j][d] = IF j \in {0, i} /\ d = c THEN counters[j][d] + 1 ELSE counters[j][d]
        /\ since'[j][d] = IF j \in {0, i} /\ d = c THEN since[j][d] + 1 ELSE since[j][d]
    BY <1>1, CountedTyped DEF CpuIInv
  <2> QED BY <2>1, <2>2, <2>3
<1>4. LoadsAreShares'
  BY <1>1 DEF CpuIInv, LoadsAreShares
<1>5. ASSUME NEW j \in Line, NEW d \in Column PROVE since'[j][d] >= 0
  <2>1. since[j][d] \in Int /\ since[j][d] >= 0
    BY ReadingTyped DEF CpuIInv
  <2>2. since'[j][d] = IF j \in {0, i} /\ d = c THEN since[j][d] + 1 ELSE since[j][d]
    BY <1>1, CountedTyped DEF CpuIInv
  <2> QED BY <2>1, <2>2
<1> QED BY <1>1, <1>2, <1>3, <1>4, <1>5 DEF CpuIInv

\* The first reading.
LEMMA FirstReading ==
  ASSUME CpuIInv, NEW readable \in BOOLEAN
  PROVE  /\ Prepared(readable) \in
              [cells : {"none", "garbage", "filled", "freed"}, ld : Reading]
         /\ Prepared(readable).cells = "filled" => Prepared(readable).ld = counters
<1> DEFINE Cells == {"none", "garbage", "filled", "freed"}
           buf == [cells |-> "garbage", ld |-> Zero]
<1>1. counters \in Reading /\ buf \in [cells : Cells, ld : Reading] /\ buf.cells = "garbage"
  BY ZeroTyped DEF CpuIInv
<1>2. Prepared(readable) = IF readable THEN [buf EXCEPT !.cells = "filled", !.ld = counters]
                           ELSE buf
  BY DEF Prepared, FillInfo
<1> HIDE DEF buf
<1>3. LET filled == [buf EXCEPT !.cells = "filled", !.ld = counters] IN
      filled \in [cells : Cells, ld : Reading] /\ filled.ld = counters
  BY <1>1
<1>4. CASE readable
  BY <1>2, <1>3, <1>4
<1>5. CASE ~readable
  BY <1>1, <1>2, <1>5
<1> QED BY <1>4, <1>5

\* A first reading taken now differs by nothing.
LEMMA NothingSince ==
  ASSUME CpuIInv, NEW i \in Line, NEW c \in Column
  PROVE  Zero[i][c] = counters[i][c] - counters[i][c]
<1>1. counters[i][c] \in Int
  BY ReadingTyped DEF CpuIInv
<1> QED BY <1>1 DEF Zero

LEMMA CpuStartStep ==
  ASSUME CpuIInv, NEW readable \in BOOLEAN, LoadStart(readable)
  PROVE  CpuIInv'
<1>1. /\ prevCPUdata' = Prepared(readable) /\ since' = Zero
      /\ counters' = counters /\ cpuStatus' = "none"
  BY DEF LoadStart
<1>2. LoadsAreShares'
  BY <1>1 DEF LoadsAreShares
<1>3. since' \in Reading /\ \A i \in Line, c \in Column : since'[i][c] >= 0
  BY <1>1, ZeroTyped
<1> QED BY <1>1, <1>2, <1>3, FirstReading, NothingSince DEF CpuIInv

LEMMA AverageStep ==
  ASSUME CpuIInv, NEW readableFirst \in BOOLEAN, NEW readable \in BOOLEAN,
         LoadAverage(readableFirst, readable)
  PROVE  CpuIInv'
<1>1. /\ prevCPUdata' =
           IF prevCPUdata.cells = "none" THEN Prepared(readableFirst) ELSE prevCPUdata
      /\ since' = IF prevCPUdata.cells = "none" THEN Zero ELSE since
      /\ spent' = since' /\ counters' = counters
      /\ \/ loads' = ActualLoads(counters, prevCPUdata'.ld) /\ cpuStatus' = "VM_OK"
         \/ cpuStatus' = "VM_OPERATION_FAILED"
  BY DEF LoadAverage
<1>2. /\ since' \in Reading
      /\ \A i \in Line, c \in Column : since'[i][c] >= 0
      /\ prevCPUdata' \in [cells : {"none", "garbage", "filled", "freed"}, ld : Reading]
      /\ prevCPUdata'.cells = "filled" =>
           \A i \in Line, c \in Column : since'[i][c] = counters[i][c] - prevCPUdata'.ld[i][c]
  <2>1. CASE prevCPUdata.cells = "none"
    BY <1>1, <2>1, ZeroTyped, FirstReading, NothingSince
  <2>2. CASE prevCPUdata.cells # "none"
    BY <1>1, <2>2 DEF CpuIInv
  <2> QED BY <2>1, <2>2
<1>3. ASSUME cpuStatus' = "VM_OK", prevCPUdata'.cells = "filled", NEW i \in Line
      PROVE  /\ loads'[i].part = spent'[i] /\ loads'[i].total = Total(spent'[i])
             /\ \A c \in Column : loads'[i].part[c] \in 0 .. loads'[i].total
  <2> DEFINE part == [c \in Column |-> counters[i][c] - prevCPUdata'.ld[i][c]]
  <2>1. loads'[i] = [part |-> part, total |-> Total(part)]
    BY <1>1, <1>3 DEF ActualLoads
  <2>2. since'[i] \in [Column -> Int]
    BY <1>2, ReadingTyped DEF Reading
  <2>3. \A c \in Column : since'[i][c] = part[c]
    BY <1>2, <1>3
  <2>4. since'[i] = part
    BY <2>2, <2>3
  <2>5. since'[i] \in [Column -> Nat]
    <3>1. \A c \in Column : since'[i][c] \in Nat
      BY <1>2, <2>2
    <3> QED BY <2>2, <3>1
  <2> HIDE DEF part
  <2>6. \A c \in Column : part[c] \in 0 .. Total(part)
    BY <2>4, <2>5, PartsOfTotal
  <2> QED BY <1>1, <2>1, <2>4, <2>6
<1>4. LoadsAreShares'
  BY <1>3 DEF LoadsAreShares
<1> QED BY <1>1, <1>2, <1>4 DEF CpuIInv

LEMMA CpuInitially == CpuInit => CpuIInv
BY ZeroTyped DEF CpuInit, CpuIInv, LoadsAreShares

LEMMA CpuKept == ASSUME CpuIInv, [CpuNext]_cpuVars PROVE CpuIInv'
<1>1. ASSUME NEW ticks \in {-1, 0}, NewBuffer(ticks) PROVE CpuIInv'
  BY <1>1 DEF CpuIInv, LoadsAreShares, NewBuffer
<1>2. CASE CpuCleanup
  BY <1>2 DEF CpuIInv, LoadsAreShares, CpuCleanup
<1>3. CASE UNCHANGED cpuVars
  BY <1>3 DEF CpuIInv, LoadsAreShares, cpuVars
<1> QED BY <1>1, <1>2, <1>3, TickStep, CpuStartStep, AverageStep DEF CpuNext

\* Ticks of any processor, first readings taken again, calls with any buffer,
\* readings that fail, the cleanup at exit: the loads of a call that returned
\* VM_OK are what each line counted since the first reading, over its sum.
THEOREM LoadsAreSharesAlways == CpuSpec => []LoadsAreShares
<1>1. CpuIInv => LoadsAreShares
  BY DEF CpuIInv
<1>2. CpuIInv /\ [CpuNext]_cpuVars => CpuIInv'
  BY CpuKept
<1> QED BY <1>1, <1>2, CpuInitially, PTL DEF CpuSpec

\* The loads of readings are typed as loads are.
Loads == [Line -> [part : [Column -> Int], total : Int]]

LEMMA LoadsTyped ==
  ASSUME NEW new \in Reading, NEW old \in Reading
  PROVE  /\ ActualLoads(new, old) \in Loads
         /\ [i \in Line |-> ActualLoads(new, old)[i].part] \in Reading
<1>1. ASSUME NEW i \in Line
      PROVE  /\ ActualLoads(new, old)[i] \in [part : [Column -> Int], total : Int]
             /\ ActualLoads(new, old)[i].part \in [Column -> Int]
  <2> DEFINE part == [c \in Column |-> new[i][c] - old[i][c]]
  <2>1. part \in [Column -> Int]
    BY ReadingTyped
  <2>2. ActualLoads(new, old)[i] = [part |-> part, total |-> Total(part)]
    BY DEF ActualLoads
  <2> HIDE DEF part
  <2>3. Total(part) \in Int
    BY <2>1, TotalTyped
  <2> QED BY <2>1, <2>2, <2>3
<1>2. ActualLoads(new, old) = [i \in Line |-> ActualLoads(new, old)[i]]
  BY DEF ActualLoads
<1> HIDE DEF ActualLoads
<1> QED BY <1>1, <1>2 DEF Loads, Reading

LEMMA NothingTyped == NoLoads \in Loads
<1>1. \A i \in Line : Zero[i] \in [Column -> Int]
  BY ZeroTyped DEF Reading
<1> QED BY <1>1 DEF NoLoads, Loads

\* Types, CpuIInv at hand: a call of vm_sys_info_cpu_loading_avg.
LEMMA AverageTyped ==
  ASSUME CpuTypeOK, CpuIInv', NEW readableFirst \in BOOLEAN, NEW readable \in BOOLEAN,
         LoadAverage(readableFirst, readable)
  PROVE  CpuTypeOK'
<1> DEFINE LoadBuffer == [cells : {"none", "garbage", "filled"}, ticks : {-1, 0}, ld : Reading]
           got == IF dbuf.cells = "none" /\ dbuf.ticks = -1
                    THEN [dbuf EXCEPT !.cells = "garbage", !.ticks = 0] ELSE dbuf
<1>1. got \in LoadBuffer
  BY DEF CpuTypeOK
<1>2. counters' \in Reading /\ since' \in Reading /\ spent' \in Reading
      /\ prevCPUdata' \in [cells : {"none", "garbage", "filled", "freed"}, ld : Reading]
  BY DEF CpuIInv, LoadAverage
<1>3. CASE /\ loads' = ActualLoads(counters, prevCPUdata'.ld)
           /\ dbuf' = [got EXCEPT !.cells = "filled", !.ld = [i \in Line |-> loads'[i].part]]
           /\ cpuStatus' = "VM_OK"
  <2> DEFINE ld == [i \in Line |-> loads'[i].part]
  <2>1. counters \in Reading /\ prevCPUdata'.ld \in Reading
    BY <1>2 DEF CpuTypeOK
  <2>2. loads' \in Loads /\ ld \in Reading
    BY <1>3, <2>1, LoadsTyped
  <2> HIDE DEF got, ld
  <2>3. [got EXCEPT !.cells = "filled", !.ld = ld] \in LoadBuffer
    BY <1>1, <2>2
  <2>4. dbuf' \in LoadBuffer
    BY <1>3, <2>3 DEF ld
  <2> QED BY <1>2, <1>3, <2>2, <2>4 DEF CpuTypeOK, Loads
<1>4. CASE dbuf' = got /\ UNCHANGED loads /\ cpuStatus' = "VM_OPERATION_FAILED"
  <2> HIDE DEF got
  <2> QED BY <1>1, <1>2, <1>4 DEF CpuTypeOK
<1> QED BY <1>3, <1>4 DEF LoadAverage

LEMMA CpuTyped == CpuInit => CpuTypeOK
BY ZeroTyped, NothingTyped DEF CpuInit, CpuTypeOK, Loads

LEMMA CpuTypesKept == ASSUME CpuIInv, CpuTypeOK, [CpuNext]_cpuVars PROVE CpuTypeOK'
<1>1. CpuIInv'
  BY CpuKept
<1>2. ASSUME NEW i \in 1 .. Cpus, NEW c \in Column, CpuTick(i, c) PROVE CpuTypeOK'
  BY <1>1, <1>2 DEF CpuIInv, CpuTick, CpuTypeOK
<1>3. ASSUME NEW readable \in BOOLEAN, LoadStart(readable) PROVE CpuTypeOK'
  BY <1>1, <1>3, NothingTyped DEF CpuIInv, LoadStart, CpuTypeOK, Loads
<1>4. ASSUME NEW ticks \in {-1, 0}, NewBuffer(ticks) PROVE CpuTypeOK'
  BY <1>4, ZeroTyped, NothingTyped DEF NewBuffer, CpuTypeOK, Loads
<1>5. CASE CpuCleanup
  BY <1>5 DEF CpuCleanup, CpuTypeOK
<1>6. CASE UNCHANGED cpuVars
  BY <1>6 DEF CpuTypeOK, cpuVars
<1> QED BY <1>1, <1>2, <1>3, <1>4, <1>5, <1>6, AverageTyped DEF CpuNext

\* The tables of the loads are what they are declared as, and their sums are
\* numbers, for any number of processors and columns.
THEOREM CpuTypeCorrect == CpuSpec => []CpuTypeOK
<1>1. CpuIInv /\ [CpuNext]_cpuVars => CpuIInv'
  BY CpuKept
<1>2. CpuIInv /\ CpuTypeOK /\ [CpuNext]_cpuVars => CpuTypeOK'
  BY CpuTypesKept
<1> QED BY <1>1, <1>2, CpuInitially, CpuTyped, PTL DEF CpuSpec

-----------------------------------------------------------------------------
\* The file that the next trace will empty has no message of this program.
DebugIInv ==
  /\ DebugTypeOK
  /\ \A s \in Stream : streams[s] # NoName => s = vm_LogFile /\ streams[s] = vm_LogFileName
  /\ ~openFailed =>
       /\ logs = kept
       /\ vm_LogFile # NoStream =>
            streams[vm_LogFile] = vm_LogFileName /\ vm_LogFileName # NoName
       /\ vm_LogFile = NoStream /\ vm_LogFileName # NoName
            => logs[vm_LogFileName] = 0 /\ vm_LogFileName = FirstName

LEMMA SetFileStep ==
  ASSUME DebugIInv, NEW n \in LogName \union {NoName}, NEW t \in BOOLEAN,
         NEW s \in Stream \union {NoStream}, SetFile(n, t, s)
  PROVE  DebugIInv'
<1>1. /\ CloseLog \in [Stream -> LogName \union {NoName}]
      /\ \A r \in Stream : CloseLog[r] = NoName
  BY DEF CloseLog, DebugIInv, DebugTypeOK
<1>2. /\ vm_LogFileName' = n /\ vm_LogFile' = s
      /\ openFailed' = (openFailed \/ (n # NoName /\ s = NoStream))
      /\ kept' = IF openFailed' THEN kept ELSE Emptied(kept, n, t)
      /\ UNCHANGED <<vm_DebugLevel, vm_DebugOutput>>
  BY DEF SetFile
<1>3. Emptied(logs, n, t) \in [LogName -> Nat] /\ Emptied(kept, n, t) \in [LogName -> Nat]
  BY DEF Emptied, DebugIInv, DebugTypeOK
<1>4. CASE s = NoStream
  <2>1. streams' = CloseLog /\ logs' = logs /\ older' = older
    BY <1>4 DEF SetFile
  <2>2. DebugTypeOK'
    BY <1>1, <1>2, <1>3, <2>1 DEF DebugIInv, DebugTypeOK
  <2>3. ~openFailed' => n = NoName /\ kept' = kept
    BY <1>2, <1>4 DEF Emptied
  <2> QED BY <1>1, <1>2, <1>4, <2>1, <2>2, <2>3 DEF DebugIInv
<1>5. CASE s # NoStream
  <2>1. /\ n # NoName /\ streams' = [CloseLog EXCEPT ![s] = n] /\ logs' = Emptied(logs, n, t)
        /\ older' \subseteq older
    BY <1>5 DEF SetFile
  <2>2. DebugTypeOK'
    BY <1>1, <1>2, <1>3, <1>5, <2>1 DEF DebugIInv, DebugTypeOK
  <2> QED BY <1>1, <1>2, <1>5, <2>1, <2>2 DEF DebugIInv
<1> QED BY <1>4, <1>5

LEMMA NotedKept ==
  ASSUME DebugTypeOK, openFailed' \in BOOLEAN
  PROVE  /\ Noted \in [LogName -> Nat]
         /\ ~openFailed' /\ vm_LogFileName = NoName => Noted = kept
         /\ ~openFailed' /\ vm_LogFileName # NoName =>
              Noted = [kept EXCEPT ![vm_LogFileName] = kept[vm_LogFileName] + 1]
BY DEF Noted, DebugTypeOK

LEMMA TraceOpensStep ==
  ASSUME DebugIInv, NEW level, NEW s \in Stream \union {NoStream}, TraceOpens(level, s)
  PROVE  DebugIInv'
<1>1. /\ vm_LogFile = NoStream /\ vm_LogFile' = s
      /\ openFailed' = (openFailed \/ (vm_LogFileName # NoName /\ s = NoStream))
      /\ kept' = Noted /\ openFailed' \in BOOLEAN
      /\ UNCHANGED <<vm_DebugLevel, vm_DebugOutput, vm_LogFileName>>
  BY DEF TraceOpens
<1>2. \A r \in Stream : streams[r] = NoName
  BY <1>1, DebugAssumption DEF DebugIInv
<1>3. kept' \in [LogName -> Nat]
  BY <1>1, NotedKept DEF DebugIInv
<1>4. CASE s = NoStream
  <2>1. UNCHANGED <<streams, logs, older>>
    BY <1>4 DEF TraceOpens
  <2>2. DebugTypeOK'
    BY <1>1, <1>3, <2>1 DEF DebugIInv, DebugTypeOK
  <2>3. ~openFailed' => vm_LogFileName = NoName /\ kept' = kept
    BY <1>1, <1>4, NotedKept DEF DebugIInv
  <2> QED BY <1>1, <1>2, <1>4, <2>1, <2>2, <2>3 DEF DebugIInv
<1>5. CASE s # NoStream
  <2>1. /\ vm_LogFileName # NoName
        /\ streams' = [streams EXCEPT ![s] = vm_LogFileName]
        /\ logs' = [logs EXCEPT ![vm_LogFileName] = 1]
        /\ older' \subseteq older
    BY <1>5 DEF TraceOpens
  <2>2. DebugTypeOK'
    BY <1>1, <1>3, <1>5, <2>1 DEF DebugIInv, DebugTypeOK
  <2>3. ~openFailed' => logs' = kept'
    <3>1. SUFFICES ASSUME ~openFailed' PROVE logs' = kept'
      OBVIOUS
    <3>2. ~openFailed /\ logs = kept /\ logs[vm_LogFileName] = 0
      BY <1>1, <2>1, <3>1 DEF DebugIInv
    <3>3. kept' = [kept EXCEPT ![vm_LogFileName] = kept[vm_LogFileName] + 1]
      BY <1>1, <2>1, <3>1, NotedKept DEF DebugIInv
    <3>4. kept[vm_LogFileName] + 1 = 1
      BY <3>2
    <3> QED BY <2>1, <3>2, <3>3, <3>4
  <2> QED BY <1>1, <1>2, <1>5, <2>1, <2>2, <2>3 DEF DebugIInv, DebugTypeOK
<1> QED BY <1>4, <1>5

LEMMA TraceStep ==
  ASSUME DebugIInv, NEW level, Trace(level)
  PROVE  DebugIInv'
<1>1. /\ vm_LogFile # NoStream
      /\ kept' = Noted
      /\ UNCHANGED <<vm_DebugLevel, vm_DebugOutput, vm_LogFileName, vm_LogFile, streams,
                     older, openFailed>>
  BY DEF Trace
<1>2. vm_LogFile \in Stream /\ kept' \in [LogName -> Nat]
  BY <1>1, NotedKept DEF DebugIInv, DebugTypeOK
<1>3. CASE streams[vm_LogFile] = NoName
  <2>1. logs' = logs
    BY <1>3 DEF Trace
  <2>2. DebugTypeOK'
    BY <1>1, <1>2, <2>1 DEF DebugIInv, DebugTypeOK
  <2>3. openFailed
    BY <1>1, <1>3 DEF DebugIInv
  <2> QED BY <1>1, <2>1, <2>2, <2>3 DEF DebugIInv
<1>4. CASE streams[vm_LogFile] # NoName
  <2> DEFINE n == vm_LogFileName
  <2>1. streams[vm_LogFile] = n /\ n # NoName /\ n \in LogName
    BY <1>2, <1>4 DEF DebugIInv, DebugTypeOK
  <2>2. logs' = [logs EXCEPT ![n] = logs[n] + 1]
    BY <1>4, <2>1 DEF Trace
  <2>3. DebugTypeOK'
    BY <1>1, <1>2, <2>1, <2>2 DEF DebugIInv, DebugTypeOK
  <2>4. ~openFailed => kept' = [kept EXCEPT ![n] = kept[n] + 1]
    BY <1>1, <2>1, NotedKept DEF DebugIInv, DebugTypeOK
  <2> QED BY <1>1, <2>1, <2>2, <2>3, <2>4 DEF DebugIInv
<1> QED BY <1>3, <1>4

LEMMA DebugInductive == DebugSpec => []DebugIInv
<1>1. DebugInit => DebugIInv
  <2> SUFFICES ASSUME DebugInit PROVE DebugIInv
    OBVIOUS
  <2>1. DebugTypeOK
    BY DebugAssumption DEF DebugInit, DebugTypeOK
  <2>2. /\ logs = kept /\ vm_LogFile = NoStream /\ vm_LogFileName \in LogName
        /\ vm_LogFileName = FirstName
        /\ \A s \in Stream : streams[s] = NoName
        /\ \A n \in LogName : logs[n] = 0
    BY DebugAssumption DEF DebugInit
  <2> QED BY <2>1, <2>2 DEF DebugIInv
<1>2. ASSUME DebugIInv, [DebugNext]_debugVars PROVE DebugIInv'
  <2>1. ASSUME \/ \E levels \in SUBSET Level : SetLevel(levels)
               \/ \E file \in BOOLEAN : SetOutput(file)
               \/ UNCHANGED debugVars
        PROVE  DebugIInv'
    BY <1>2, <2>1 DEF DebugIInv, DebugTypeOK, SetLevel, SetOutput, debugVars
  <2> QED BY <1>2, <2>1, SetFileStep, TraceOpensStep, TraceStep DEF DebugNext
<1> QED BY <1>1, <1>2, PTL DEF DebugSpec

\* vm_debug_setfile, vm_debug_setlevel, vm_debug_setoutput and the traces, in
\* any order and whatever files can be opened: messages go to the file named
\* last, and none of this program is lost as long as files can be opened.
THEOREM LogsAreKept == DebugSpec => []LogsKept
<1>1. DebugIInv => LogsKept
  BY DEF DebugIInv, LogsKept
<1> QED BY <1>1, DebugInductive, PTL

\* A message of an earlier program is lost only to a truncation that was asked
\* for, or to the first trace of a program that has named no file, as long as
\* files can be opened.
THEOREM OlderAreKept == DebugSpec => OlderKept
<1>1. ASSUME DebugIInv, [DebugNext]_debugVars, ~openFailed'
      PROVE  \/ older \ older' \subseteq {FirstName}
             \/ \E n \in LogName, s \in Stream : SetFile(n, TRUE, s)
  <2>1. ASSUME \/ \E levels \in SUBSET Level : SetLevel(levels)
               \/ \E file \in BOOLEAN : SetOutput(file)
               \/ \E level \in {{}} \union {{l} : l \in Level} : Trace(level)
               \/ UNCHANGED debugVars
        PROVE  older' = older
    BY <2>1 DEF SetLevel, SetOutput, Trace, debugVars
  <2>2. ASSUME NEW n \in LogName \union {NoName}, NEW t \in BOOLEAN,
               NEW s \in Stream \union {NoStream}, SetFile(n, t, s)
        PROVE  older' = older \/ (n \in LogName /\ s \in Stream /\ SetFile(n, TRUE, s))
    <3>1. CASE s = NoStream \/ t = FALSE
      BY <2>2, <3>1 DEF SetFile
    <3>2. CASE s # NoStream /\ t = TRUE
      <4>1. n # NoName
        BY <2>2, <3>2 DEF SetFile
      <4> QED BY <2>2, <3>2, <4>1
    <3> QED BY <3>1, <3>2
  <2>3. ASSUME NEW level, NEW s \in Stream \union {NoStream}, TraceOpens(level, s)
        PROVE  older \ older' \subseteq {FirstName}
    <3>1. CASE s = NoStream
      BY <2>3, <3>1 DEF TraceOpens
    <3>2. CASE s # NoStream
      <4>1. /\ vm_LogFile = NoStream /\ vm_LogFileName # NoName /\ ~openFailed
            /\ older' = older \ {vm_LogFileName}
        BY <1>1, <2>3, <3>2 DEF TraceOpens
      <4>2. vm_LogFileName = FirstName
        BY <1>1, <4>1 DEF DebugIInv
      <4> QED BY <4>1, <4>2
    <3> QED BY <3>1, <3>2
  <2> QED BY <1>1, <2>1, <2>2, <2>3 DEF DebugNext
<1>2. DebugIInv /\ [DebugNext]_debugVars =>
        [~openFailed' => \/ older \ older' \subseteq {FirstName}
                         \/ \E n \in LogName, s \in Stream : SetFile(n, TRUE, s)]_debugVars
  BY <1>1
<1> QED BY <1>2, DebugInductive, PTL DEF DebugSpec, OlderKept

\* Types of the log, for any files, streams and levels.
THEOREM DebugTypeCorrect == DebugSpec => []DebugTypeOK
<1>1. DebugIInv => DebugTypeOK
  BY DEF DebugIInv
<1> QED BY <1>1, DebugInductive, PTL

-----------------------------------------------------------------------------
\* The composition.  A step of it is a step of one service, and leaves the
\* others where they are.
LEMMA FilesStep ==
  ASSUME [Next]_vars
  PROVE  /\ [MmapNext]_mmapVars /\ [MmapWin32Next]_mmapWin32Vars /\ [TempNext]_tempVars
         /\ [GetsNext]_getsVars /\ [ScanNext]_scanVars
BY Zenon DEF Next, vars, kernelVars, fileVars, countVars

LEMMA KernelStep ==
  ASSUME [Next]_vars
  PROVE  /\ [Win32Next]_win32Vars /\ [SyncNext]_syncVars
         /\ \/ [SocketNext]_socketVars /\ UNCHANGED winsockVars
            \/ [WinsockNext]_<<socketVars, winsockVars>>
BY Zenon DEF Next, vars, kernelVars, fileVars, countVars

LEMMA CountsStep ==
  ASSUME [Next]_vars
  PROVE  /\ [TimeNext]_timeVars /\ [TimevalNext]_timevalVars /\ [CpuNext]_cpuVars
         /\ [DebugNext]_debugVars /\ [NameNext]_nameVars
<1>1. WinTimeNext => TimeNext /\ UNCHANGED timevalVars
  BY DEF WinTimeNext, TickClose, TickInit, TickStart, TickStop, TimeNext
<1> QED BY <1>1, Zenon DEF Next, vars, kernelVars, fileVars, countVars

\* The composition implements every service of which it has one copy.
THEOREM ServicesStandAlone ==
  Spec => /\ MmapSpec /\ MmapWin32Spec /\ TempSpec /\ GetsSpec /\ ScanSpec
          /\ Win32Spec /\ SyncSpec
          /\ TimeSpec /\ TimevalSpec /\ CpuSpec /\ DebugSpec /\ NameSpec
<1>1. Init => /\ MmapInit /\ MmapWin32Init /\ TempInit /\ GetsInit /\ ScanInit
              /\ Win32Init /\ SyncInit
              /\ TimeInit /\ TimevalInit /\ CpuInit /\ DebugInit /\ NameInit
  BY DEF Init
<1>2. [Next]_vars =>
        /\ [MmapNext]_mmapVars /\ [MmapWin32Next]_mmapWin32Vars /\ [TempNext]_tempVars
        /\ [GetsNext]_getsVars /\ [ScanNext]_scanVars
        /\ [Win32Next]_win32Vars /\ [SyncNext]_syncVars
        /\ [TimeNext]_timeVars /\ [TimevalNext]_timevalVars /\ [CpuNext]_cpuVars
        /\ [DebugNext]_debugVars /\ [NameNext]_nameVars
  BY FilesStep, KernelStep, CountsStep
<1> QED
  BY <1>1, <1>2, PTL
     DEF Spec, MmapSpec, MmapWin32Spec, TempSpec, GetsSpec, ScanSpec, Win32Spec, SyncSpec,
         TimeSpec, TimevalSpec, CpuSpec, DebugSpec, NameSpec

\* The tables of channels, which two services share, are kept by both.
LEMMA TablesKept ==
  ASSUME IInv, WinsockTypeOK, [Next]_vars
  PROVE  IInv' /\ WinsockTypeOK'
<1>1. CASE [SocketNext]_socketVars /\ UNCHANGED winsockVars
  BY <1>1, Preserved DEF WinsockTypeOK, winsockVars
<1>2. CASE [WinsockNext]_<<socketVars, winsockVars>>
  BY <1>2, WinTablesPreserved, CountsTyped
<1> QED BY <1>1, <1>2, KernelStep

LEMMA TablesInductive == Spec => [](IInv /\ WinsockTypeOK)
<1>1. Init => IInv /\ WinsockTypeOK
  BY Initially, WinsockTyped DEF Init
<1>2. IInv /\ WinsockTypeOK /\ [Next]_vars => IInv' /\ WinsockTypeOK'
  BY TablesKept
<1> QED BY <1>1, <1>2, PTL DEF Spec

\* Types of all services, chosen or not, whatever their constants.
THEOREM ServicesTyped == Spec => []TypeOK
<1>1. /\ IInv /\ WinsockTypeOK /\ Win32TypeOK /\ SyncTypeOK /\ MmapTypeOK
      /\ MmapWin32TypeOK /\ TempTypeOK /\ GetsTypeOK /\ ScanTypeOK
      /\ TimeTypeOK /\ TimevalTypeOK /\ CpuTypeOK /\ DebugTypeOK /\ NameTypeOK
      => TypeOK
  BY DEF TypeOK, IInv
<1> QED
  BY <1>1, TablesInductive, ServicesStandAlone, ThreadTypeCorrect, SyncTypeCorrect,
     MmapTypeCorrect, MappingTypeCorrect, TempTypeCorrect, GetsTypeCorrect, ScanTypeCorrect,
     TimeTypeCorrect, TimevalTypeCorrect, CpuTypeCorrect, DebugTypeCorrect, NameTypeCorrect,
     PTL

\* What each service promises it keeps in the composition, with the tables of
\* channels shared by the sockets of both systems and the stopwatch by both
\* clocks.
THEOREM ServicesKeepTheirPromises ==
  Spec => /\ []DescriptorsOwned /\ []ViewHeld /\ []MappingHeld /\ []TempFilesKept
          /\ []GetsExact /\ []RoundTrip /\ []HandleHeld /\ []HandlesNameOwnObject
          /\ []TimeMeasured /\ []TimesExact /\ []LoadsAreShares /\ []LogsKept /\ OlderKept
          /\ ImplementsAbstractThread
<1>1. IInv => DescriptorsOwned
  BY DEF IInv
<1> QED
  BY <1>1, TablesInductive, ServicesStandAlone, ViewIsHeld, MappingIsHeld, TempFilesAreKept,
     GetsIsExact, WordsComeBack, HandleIsHeld, OwnObjects, TimeIsMeasured, TimesAreExact,
     LoadsAreSharesAlways, LogsAreKept, OlderAreKept, IsAThread, PTL

\* An iteration of either system's sockets ends when every channel found ready
\* was reported or closed, and what it reports, select found ready, as long as
\* no select asks for both directions.
THEOREM ServicesIterate ==
  ASSUME OneDirection
  PROVE  Spec => IterationComplete /\ ReportsAreSignalled
<1>1. Init => BitsSignalled
  BY DEF Init, SocketInit, BitsSignalled
<1>2. IInv /\ BitsSignalled /\ [Next]_vars => BitsSignalled'
  BY KernelStep, BitsPreserved, WinBitsPreserved
<1>3. IInv /\ BitsSignalled /\ [Next]_vars =>
        [\A c \in Channel, dir \in {"READ", "WRITE"} :
           Report(c, dir) => <<c, dir>> \in signalled]_socketVars
  BY BitsReported
<1>4. IInv /\ [Next]_vars => [iterating /\ ~iterating' => signalled = {}]_socketVars
  BY KernelStep, IterationEnds, WinIterationEnds
<1> QED
  BY <1>1, <1>2, <1>3, <1>4, TablesInductive, PTL
     DEF Spec, IterationComplete, ReportsAreSignalled

\* Names come apart into the parts they are made of in the composition too.
THEOREM ServicesComposeNames ==
  ASSUME PlainParts
  PROVE  Spec => []NamesComposeBack
BY ServicesStandAlone, NamesComeApart, PTL

\* None of the services that share a run with the sockets of Windows touches
\* them, so startups and cleanups of Winsock match there as well.
THEOREM ServicesHoldWinsock ==
  ASSUME ManySockets
  PROVE  Spec => []SocketsHoldWinsock
<1> DEFINE Chosen == service = "socket win32" => WinIInv
<1>1. Init => Chosen
  BY WinInitially DEF Init
<1>2. Chosen /\ [Next]_vars => Chosen'
  <2> SUFFICES ASSUME Chosen, [Next]_vars, service' = "socket win32" PROVE WinIInv'
    OBVIOUS
  <2>1. service = "socket win32" /\ [WinsockNext]_<<socketVars, winsockVars>>
    BY Zenon DEF Next, vars, kernelVars
  <2> QED BY <2>1, WinPreserved
<1>3. Chosen => SocketsHoldWinsock
  BY Balanced DEF SocketsHoldWinsock
<1> QED BY <1>1, <1>2, <1>3, PTL DEF Spec
=============================================================================
