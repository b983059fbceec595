---------------------------- MODULE VmTimeWin32 ----------------------------
(***************************************************************************)
(* vm_time_win32.c: the stopwatch, which is that of VmTime without the     *)
(* device, and the arithmetic on vm_timeval that both systems share; with  *)
(* it the deadline that vm_event_timed_wait and vm_semaphore_timedwait of  *)
(* Linux compute.  Unsigned integers have their width: WordSize stands for *)
(* 2^32, Second for a million microseconds and Milli for a thousand.       *)
(***************************************************************************)
EXTENDS VmTime

CONSTANTS
  WordSize, Second, Milli,
  Spans,        \* the microseconds of the vm_timevals added and subtracted
  Waits,        \* the milliseconds of timed waits
  MaxExact      \* bound: microseconds added up

ASSUME WidthAssumption ==
  /\ WordSize \in Nat \ {0} /\ Second \in Nat \ {0} /\ Milli \in Nat \ {0}
  /\ 2 * Second <= WordSize
  /\ Spans \subseteq 0 .. (WordSize * Second) - 1 /\ Waits \subseteq 0 .. WordSize - 1
  /\ MaxExact \in Nat

VARIABLES
  clock,        \* a vm_timeval: [tv_sec, tv_usec]
  deadline,     \* the timespec of a timed wait, its nanoseconds in microseconds
  begunWait,    \* history: when that wait began, in microseconds, and its msec
  exact         \* history: the microseconds of clock, without any width

timevalVars == <<clock, deadline, begunWait, exact>>

TimevalTypeOK ==
  /\ clock \in [tv_sec : 0 .. WordSize - 1, tv_usec : 0 .. Second - 1]
  /\ deadline \in [tv_sec : Nat, tv_usec : 0 .. Second - 1]
  /\ begunWait \in [from : Nat, msec : Waits \union {0}]
  /\ exact \in Int

TimevalInit ==
  /\ clock = [tv_sec |-> 0, tv_usec |-> 0] /\ deadline = clock
  /\ begunWait = [from |-> 0, msec |-> 0] /\ exact = 0

\* vvalue, and back: VM_TIMEDEST keeps the low word of the seconds.
Value(t) == t.tv_sec * Second + t.tv_usec
Split(v) == [tv_sec |-> (v \div Second) % WordSize, tv_usec |-> v % Second]

-----------------------------------------------------------------------------
TimerAdd(b) ==
  /\ exact + b <= MaxExact
  /\ clock' = Split((Value(clock) + b) % (WordSize * WordSize))
  /\ exact' = exact + b
  /\ UNCHANGED <<deadline, begunWait>>

\* vm_time_timersub of less than there is: what is taken from a smaller time
\* wraps at 2^64, which is no multiple of a million, and callers do not do it.
TimerSub(b) ==
  /\ b <= Value(clock)
  /\ clock' = Split((Value(clock) - b) % (WordSize * WordSize))
  /\ exact' = exact - b
  /\ UNCHANGED <<deadline, begunWait>>

\* vm_time_timercmp; with a threshold that is not 0 it is the distance of the
\* first time from the threshold that is compared with the threshold, and the
\* second time is not looked at beyond being another one.
TimerCompare(a, b, threshold) ==
  IF a = b THEN 0
  ELSE IF threshold # 0
    THEN IF (IF a > threshold THEN a - threshold ELSE threshold - a) < threshold THEN -1 ELSE 1
    ELSE IF a < b THEN -1 ELSE 1

BugDeadline(msec) ==
  [tv_sec  |-> clock.tv_sec + (Milli * msec) \div Second,
   tv_usec |-> (Milli * msec + clock.tv_usec) % Second]

\* msec = 1000 * msec + tval.tv_usec, in 32 bits.
Deadline(msec) ==
  LET usec == (Milli * msec + clock.tv_usec) % WordSize IN
  [tv_sec |-> clock.tv_sec + usec \div Second, tv_usec |-> usec % Second]

\* A timed wait begins when the clock says clock.
TimedWait(msec) ==
  /\ deadline' = Deadline(msec)
  /\ begunWait' = [from |-> Value(clock), msec |-> msec]
  /\ UNCHANGED <<clock, exact>>

TimevalNext ==
  \/ \E b \in Spans : TimerAdd(b) \/ TimerSub(b)
  \/ \E msec \in Waits : TimedWait(msec)

TimevalSpec == TimevalInit /\ [][TimevalNext]_timevalVars

-----------------------------------------------------------------------------
\* The stopwatch: vm_time_open leaves the handle at -1, the tick is that of
\* QueryPerformanceCounter and vm_time_get_frequency its frequency.
TickClose == TimeClose /\ UNCHANGED timevalVars
TickInit  == WatchInit /\ UNCHANGED timevalVars
TickStart == StartTick /\ UNCHANGED timevalVars
TickStop  == StopTick  /\ UNCHANGED timevalVars

WinTimeNext ==
  \/ Passes /\ UNCHANGED timevalVars
  \/ TickClose \/ TickInit \/ TickStart \/ TickStop

WinTimeSpec ==
  TimeInit /\ TimevalInit /\ [][WinTimeNext]_<<timeVars, timevalVars>>

-----------------------------------------------------------------------------
\* Sums and differences, through any number of carries and borrows of the
\* microseconds, are those of the times, as far as 32 bits of seconds tell
\* them; vm_time_timercmp without a threshold agrees with their order.
TimevalExact ==
  /\ Value(clock) = exact % (WordSize * Second)
  /\ \A b \in Spans :
       LET order == TimerCompare(Value(clock), b, 0) IN
       /\ order = -TimerCompare(b, Value(clock), 0)
       /\ order = 1 <=> Value(clock) > b

\* A timed wait ends msec after it began, never later, and its nanoseconds
\* are less than a second's: from about 4294 seconds on it ends sooner, by
\* whole wraps of the 32-bit product and by nothing else.
DeadlineExact ==
  LET end == begunWait.from + Milli * begunWait.msec IN
  /\ Value(deadline) <= end /\ (end - Value(deadline)) % WordSize = 0
  /\ Milli * begunWait.msec + (begunWait.from % Second) < WordSize => Value(deadline) = end

\* Both, of one clock: the arithmetic loses nothing and neither do deadlines,
\* but for what the widths cannot hold.
TimesExact == TimevalExact /\ DeadlineExact
=============================================================================
