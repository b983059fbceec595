----------------------------- MODULE VmCpuLoad -----------------------------
(***************************************************************************)
(* The processor load of vm_sys_info_linux32.c: what each line of          *)
(* /proc/stat has counted since the first call, as shares of its sum.      *)
(* Line 0 adds up the others, one for each processor.                      *)
(*                                                                         *)
(* The calls come from one thread (the mutex is made anew by every call    *)
(* that takes the first reading, and nobody takes it to read), memory is   *)
(* granted, and no processor comes or goes.  A line has one number less    *)
(* than ldbuffer has room for (MAXLOADENTRIES): the parser stores a -1     *)
(* behind the last one, and leaves the rest of the array as it was.        *)
(***************************************************************************)
EXTENDS Integers

CONSTANTS
  Cpus,         \* vm_sys_info_get_avail_cpu_num
  Columns,      \* MAXLOADENTRIES - 1
  MaxTicks      \* bound: ticks counted

ASSUME CpuAssumption == Cpus \in Nat \ {0} /\ Columns \in Nat \ {0} /\ MaxTicks \in Nat

VARIABLES
  counters,     \* /proc/stat
  prevCPUdata,  \* [cells, ld], ld the ldbuffers
  dbuf,         \* the caller's VM_SYSINFO_CPULOAD: [cells, ticks, ld]
  loads,        \* the caller's loads: numerators and divisor of each line
  cpuStatus,    \* the status of the last call
  since,        \* history: what was counted since prevCPUdata was filled
  spent         \* history: since, at the last call

cpuVars == <<counters, prevCPUdata, dbuf, loads, cpuStatus, since, spent>>

Line == 0 .. Cpus
Column == 1 .. Columns
Reading == [Line -> [Column -> Int]]
Zero == [i \in Line |-> [c \in Column |-> 0]]
NoLoads == [i \in Line |-> [part |-> Zero[i], total |-> 0]]
Total(row) ==
  LET sum[c \in 0 .. Columns] == IF c = 0 THEN 0 ELSE sum[c - 1] + row[c] IN sum[Columns]

CpuTypeOK ==
  /\ counters \in Reading /\ since \in Reading /\ spent \in Reading
  /\ prevCPUdata \in [cells : {"none", "garbage", "filled", "freed"}, ld : Reading]
  /\ dbuf \in [cells : {"none", "garbage", "filled"}, ticks : {-1, 0}, ld : Reading]
  /\ loads \in [Line -> [part : [Column -> Int], total : Int]]
  /\ cpuStatus \in {"none", "VM_OK", "VM_OPERATION_FAILED"}

CpuInit ==
  /\ counters = Zero /\ since = Zero /\ spent = Zero
  /\ prevCPUdata = [cells |-> "none", ld |-> Zero]
  /\ dbuf \in [cells : {"none"}, ticks : {-1, 0}, ld : {Zero}]
  /\ loads = NoLoads
  /\ cpuStatus = "none"

-----------------------------------------------------------------------------
Counted(r, i, c) == [r EXCEPT ![i][c] = @ + 1, ![0][c] = @ + 1]

\* The kernel counts a tick of a processor, and the sum.
CpuTick(i, c) ==
  /\ Total(counters[0]) < MaxTicks
  /\ counters' = Counted(counters, i, c)
  /\ since' = Counted(since, i, c)
  /\ UNCHANGED <<prevCPUdata, dbuf, loads, cpuStatus, spent>>

\* fill_cpu_loading_info: parse every line, if /proc/stat can be opened; the
\* loads of the lines it parses are zeroed, and filled in again below.
FillInfo(buf, readable) ==
  IF readable THEN [buf EXCEPT !.cells = "filled", !.ld = counters] ELSE buf

\* prepare_previous_cpu_data: a new array, an earlier one is forgotten.  That
\* it could not be filled nobody notices.
Prepared(readable) == FillInfo([cells |-> "garbage", ld |-> Zero], readable)

BugActualLoads(new, old) ==
  [i \in Line |->
     LET part == [c \in Column |-> new[i][c] - old[i][c]] IN
     [part |-> part,
      total |-> Total(part) + (IF i > 0 THEN Total(new[0]) - Total(old[0]) ELSE 0)]]

\* prepare_actual_cpu_loading_info: the ldbuffers become differences, and the
\* sum of a line's differences divides each of them.
ActualLoads(new, old) ==
  [i \in Line |->
     LET part == [c \in Column |-> new[i][c] - old[i][c]] IN
     [part |-> part, total |-> Total(part)]]

-----------------------------------------------------------------------------
\* vm_sys_info_cpu_loading_avg(NULL) takes the first reading again.
LoadStart(readable) ==
  /\ prevCPUdata.cells # "freed"
  /\ prevCPUdata' = Prepared(readable)
  /\ since' = Zero
  /\ loads' = NoLoads /\ cpuStatus' = "none"
  /\ UNCHANGED <<counters, dbuf, spent>>

\* vm_sys_info_cpu_loading_avg of a buffer: the first call takes the first
\* reading too; a buffer without cells gets them if its ticks are -1.  The
\* time slice changes nothing: VM_NOT_ENOUGH_DATA gives way to VM_OK.
LoadAverage(readableFirst, readable) ==
  /\ prevCPUdata.cells # "freed"
  /\ prevCPUdata' = IF prevCPUdata.cells = "none" THEN Prepared(readableFirst) ELSE prevCPUdata
  /\ since' = IF prevCPUdata.cells = "none" THEN Zero ELSE since
  /\ spent' = since'
  /\ LET got == IF dbuf.cells = "none" /\ dbuf.ticks = -1
                  THEN [dbuf EXCEPT !.cells = "garbage", !.ticks = 0] ELSE dbuf
     IN IF got.cells # "none" /\ readable
          THEN /\ loads' = ActualLoads(counters, prevCPUdata'.ld)
               /\ dbuf' = [got EXCEPT !.cells = "filled",
                             !.ld = [i \in Line |-> loads'[i].part]]
               /\ cpuStatus' = "VM_OK"
          ELSE dbuf' = got /\ UNCHANGED loads /\ cpuStatus' = "VM_OPERATION_FAILED"
  /\ UNCHANGED counters

\* The caller frees its buffer and hands in another.
NewBuffer(ticks) ==
  /\ dbuf.cells # "none"
  /\ dbuf' = [cells |-> "none", ticks |-> ticks, ld |-> Zero]
  /\ loads' = NoLoads /\ cpuStatus' = "none"
  /\ UNCHANGED <<counters, prevCPUdata, since, spent>>

\* cpu_data_cleanup, at exit, as often as it was registered.
CpuCleanup ==
  /\ prevCPUdata.cells \in {"garbage", "filled"}
  /\ prevCPUdata' = [prevCPUdata EXCEPT !.cells = "freed"]
  /\ UNCHANGED <<counters, dbuf, loads, cpuStatus, since, spent>>

CpuNext ==
  \/ \E i \in 1 .. Cpus, c \in Column : CpuTick(i, c)
  \/ \E r \in BOOLEAN : LoadStart(r) \/ \E s \in BOOLEAN : LoadAverage(s, r)
  \/ \E ticks \in {-1, 0} : NewBuffer(ticks)
  \/ CpuCleanup

CpuSpec == CpuInit /\ [][CpuNext]_cpuVars

-----------------------------------------------------------------------------
\* "all are floats 0. - 1." (vm_sys_info.h): through any calls, first readings
\* taken again and buffers used again, the loads reported with VM_OK are the
\* parts each line counted since the first reading over their own sum: not
\* negative and 1 together, but for 0 by 0 when nothing was counted yet.
LoadsAreShares ==
  cpuStatus = "VM_OK" /\ prevCPUdata.cells = "filled" =>
    \A i \in Line :
      /\ loads[i].part = spent[i]
      /\ loads[i].total = Total(spent[i])
      /\ \A c \in Column : loads[i].part[c] \in 0 .. loads[i].total
=============================================================================
