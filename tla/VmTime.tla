------------------------------- MODULE VmTime -------------------------------
(***************************************************************************)
(* The stopwatch of vm_time_linux32.c.  With the device /dev/tsc it counts *)
(* processor cycles, which it reads in two halves, the low one first;      *)
(* without it, microseconds, which it reads in one call.  Time passes      *)
(* between any two steps.                                                  *)
(***************************************************************************)
EXTENDS Integers

CONSTANTS
  LowWord,      \* 2^32: what the low half of the cycle counter counts to
  MaxTime,      \* bound: cycles or microseconds counted
  MaxStops      \* bound: stops between two calls of vm_time_init

ASSUME TimeAssumption ==
  LowWord \in Nat \ {0} /\ MaxTime \in Nat /\ MaxStops \in Nat

VARIABLES
  device,       \* vm_time_handle: "none" (-1), "zero" (descriptor 0) or "tsc" (above 0)
  watch,        \* vm_time: [start, diff, freq]
  time,         \* the clock the measure reads
  phase,        \* the place between and in the calls of a measure
  startLow,     \* the local of the call under way
  begun,        \* history: when the last start read the clock
  measured,     \* history: from the last start to each stop, added up
  torn,         \* history: the low half wrapped between the two reads of a call
  stops         \* history: stops since vm_time_init

timeVars == <<device, watch, time, phase, startLow, begun, measured, torn, stops>>

\* vm_time: freq names the clock whose frequency the program keeps there.
Watch == [start : Nat, diff : Int, freq : {"unset", "microseconds", "cpu"}]

WatchDevice == {"none", "zero", "tsc"}
WatchPhase == {"off", "ready", "started", "start high", "stop high"}

TimeTypeOK ==
  /\ device \in WatchDevice
  /\ watch \in Watch
  /\ time \in 0 .. MaxTime
  /\ phase \in WatchPhase
  /\ startLow \in 0 .. LowWord - 1
  /\ begun \in 0 .. MaxTime /\ measured \in Nat
  /\ torn \in BOOLEAN
  /\ stops \in 0 .. MaxStops

\* A stopwatch that is declared and not yet initialised.
TimeInit ==
  /\ device = "none" /\ phase = "off"
  /\ watch = [start |-> 0, diff |-> 0, freq |-> "unset"]
  /\ time = 0 /\ startLow = 0 /\ begun = 0 /\ measured = 0 /\ torn = FALSE
  /\ stops = 0

-----------------------------------------------------------------------------
\* Between the two reads of a call.
Between == phase \in {"start high", "stop high"}

\* The counter, or gettimeofday as long as nobody sets the clock.
Passes ==
  /\ time < MaxTime
  /\ time' = time + 1
  /\ torn' = (torn \/ (Between /\ (time + 1) % LowWord = 0))
  /\ UNCHANGED <<device, watch, phase, startLow, begun, measured, stops>>

\* vm_time_open, which takes descriptor 0 for a failure.  The handle stays as
\* it is for the whole of a measure: callers open before vm_time_init.
TimeOpen ==
  /\ phase = "off" /\ device # "tsc"
  /\ device' \in WatchDevice
  /\ UNCHANGED <<watch, time, phase, startLow, begun, measured, torn, stops>>

\* vm_time_close: only a descriptor above 0 is closed and forgotten.
TimeClose ==
  /\ phase \in {"ready", "started"}
  /\ device' = IF device = "tsc" THEN "none" ELSE device
  /\ phase' = "off"
  /\ UNCHANGED <<watch, time, startLow, begun, measured, torn, stops>>

BugInitialised == [watch EXCEPT !.start = 0, !.freq = "microseconds"]
Initialised == [start |-> 0, diff |-> 0, freq |-> "microseconds"]

\* vm_time_init.
WatchInit ==
  /\ phase \in {"off", "ready", "started"}
  /\ watch' = Initialised
  /\ phase' = "ready"
  /\ measured' = 0 /\ torn' = FALSE /\ stops' = 0
  /\ UNCHANGED <<device, time, startLow, begun>>

\* vm_time_start without the device: one call of vm_time_get_tick.
StartTick ==
  /\ phase \in {"ready", "started"} /\ device # "tsc"
  /\ watch' = [watch EXCEPT !.start = time]
  /\ begun' = time
  /\ phase' = "started"
  /\ UNCHANGED <<device, time, startLow, measured, torn, stops>>

\* vm_time_start with it: GET_TSC_LOW, then GET_TSC_HIGH.
StartLow ==
  /\ phase \in {"ready", "started"} /\ device = "tsc"
  /\ startLow' = time % LowWord
  /\ begun' = time
  /\ phase' = "start high"
  /\ UNCHANGED <<device, watch, time, measured, torn, stops>>

\* The halves put together.
Joined == (time \div LowWord) * LowWord + startLow

StartHigh ==
  /\ phase = "start high"
  /\ watch' = [watch EXCEPT !.start = Joined]
  /\ phase' = "started"
  /\ UNCHANGED <<device, time, startLow, begun, measured, torn, stops>>

\* vm_time_stop without the device; freq is 0 only if vm_time_init never ran.
StopTick ==
  /\ phase = "started" /\ device # "tsc" /\ stops < MaxStops
  /\ watch' = [watch EXCEPT !.diff = @ + (time - watch.start)]
  /\ measured' = measured + (time - begun)
  /\ stops' = stops + 1
  /\ UNCHANGED <<device, time, phase, startLow, begun, torn>>

\* vm_time_stop with it.
StopLow ==
  /\ phase = "started" /\ device = "tsc" /\ stops < MaxStops
  /\ startLow' = time % LowWord
  /\ measured' = measured + (time - begun)
  /\ stops' = stops + 1
  /\ phase' = "stop high"
  /\ UNCHANGED <<device, watch, time, begun, torn>>

\* The frequency of vm_time_init gives way to the processor's.
StopHigh ==
  /\ phase = "stop high"
  /\ watch' = [watch EXCEPT !.diff = @ + (Joined - watch.start),
                            !.freq = IF @ = "microseconds" THEN "cpu" ELSE @]
  /\ phase' = "started"
  /\ UNCHANGED <<device, time, startLow, begun, measured, torn, stops>>

TimeNext ==
  \/ Passes \/ TimeOpen \/ TimeClose \/ WatchInit
  \/ StartTick \/ StartLow \/ StartHigh
  \/ StopTick \/ StopLow \/ StopHigh

TimeSpec == TimeInit /\ [][TimeNext]_timeVars

-----------------------------------------------------------------------------
\* "Stop the process of time measure and obtain the sampling time in seconds"
\* (vm_time.h): what the stops have added up is the time that passed between
\* the reads of the clock, and it is divided by the frequency of that clock.
\* When the low half wraps between the two reads of a call, the sum is off by
\* whole wraps and by nothing else.
TimeMeasured ==
  phase \in {"ready", "started"} =>
    /\ ~ torn => watch.diff = measured
    /\ (watch.diff - measured) % LowWord = 0
    /\ stops > 0 => watch.freq = IF device = "tsc" THEN "cpu" ELSE "microseconds"
=============================================================================
