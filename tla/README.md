# TLA+ verification of libvm

libvm is a portability layer in C: one header per service (`src/include/vm_*.h`)
and one file per service and platform (`src/src/vm_*_linux32.c`, `vm_*_win32.c`,
`vm_file_unix.c`). The library starts no thread of its own and keeps almost no
global state; nearly everything is a small object the caller owns and a set of
functions on it. What makes it hard is what may happen between two statements of
those functions: another thread on the same object, a wakeup that comes late, a
call that fails half way, a file pointer that moved.

This directory holds TLA+ models of those objects, TLC configurations that check
them on small instances, and TLAPS proofs for every value of their constants.

## 1. Inventory

| Component | State | Operations | Hard behaviour | What makes it correct | Model |
|---|---|---|---|---|---|
| event, Linux (`vm_event_linux32.c`) | `state` -1/0/1, `manual`, a mutex, a condition variable | init, signal, reset, pulse, wait, timed wait, destroy | unlocked validity test; `if` instead of `while` around the condition wait; signal and broadcast; timeouts against signals; spurious wakeups | no sleeper on a high event without a wakeup on its way; VM_OK only after the event was high, or after an unsignalled return of the condition wait; a timeout should take no signal, and does | modelled |
| semaphore, Linux (`vm_semaphore_linux32.c`) | `count` (negative: invalid), mutex, condition variable | init, wait, timedwait, try_wait, post, destroy | `if` instead of `while` around both condition waits: barging takers, spurious wakeups; posts that do not signal | a counting semaphore, `AbstractSemaphore`, for one taker until a spurious wakeup | modelled |
| mutex, Linux (`vm_mutex_linux32.c`) | `is_valid`, an error-checking pthread mutex | init, lock, try_lock, unlock, destroy | misuse; destruction while held or waited for | exclusion; only the owner releases; locks return | modelled |
| thread, Linux (`vm_thread_linux32.c`) | `is_valid`, `i_wait_count`, `exit_event`, `access_mut`, handle | create, wait, is_valid, set_priority, close | several callers; tests made before the lock; a join with the mutex held; close under waiters | one join per child; none before it has returned; nothing hangs | modelled |
| thread, Win32 (`vm_thread_win32.c`) | handle, `i_wait_count`, critical section | the same | the handle is waited on outside the section while others close it | handle open while waited on, closed once, after the exit | modelled |
| event, semaphore, Win32 (`vm_event_win32.c`, `vm_semaphore_win32.c`) | a kernel handle | the same | handles made over old ones, destroyed in any order, given out again | a handle names its own object or none | modelled |
| mutex, Win32 (`vm_mutex_win32.c`) | a CRITICAL_SECTION and a flag | the same | none of its own | the critical section's | left out |
| socket, Linux (`vm_socket_linux32.c`) | a channel table per socket, readiness sets in the first one | init, select, next, accept, read, write, close_chn, close | iterating while channels are closed and descriptors given out again; table full; failed init | descriptors owned once; what select found is reported, all of it and nothing else | modelled |
| socket, Win32 (`vm_socket_win32.c`) | the same channel table, the WSAStartup count | the same, connect retries | the retry loop, startup and cleanup in balance | Winsock stays up under every socket | modelled |
| mapped file (`vm_mmap_linux32.c`, `vm_mmap_win32.c`) | descriptor or handles, view, size | create, set_view, unmap, close | failed views; page arithmetic; half-made mappings | nothing is lost; the view covers what was asked for | modelled |
| temporary files (`vm_file_win32.c`) | a global doubly linked list, an atexit handler | tmpfile, fopen, fclose, delete all | removal in any order; a walk over a list that shrinks under it | list intact; no file left behind | modelled |
| buffered text I/O (`vm_file_win32.c`) | file pointer, size, buffer, modes | fgets, fputs, fscanf, and converting variants | chunks, seeking back, translated line ends | no character or word lost or repeated | fgets, fputs, fscanf modelled |
| file and directory, Unix (`vm_file_unix.c`); directory, Win32 | `DIR` or find handle | remove, mkdir, dir open/read/close, find | an enumeration across calls | every entry once; the code does not do it, section 4 | left out |
| file names (`vm_file.c`) | none | make a name, take path, base and suffix out of one | searches from the end, the room that is left | composes back | modelled |
| time (`vm_time_linux32.c`, `vm_time_win32.c`) | stopwatch, device handle | open, init, start, stop, close; timeval arithmetic | 64-bit counter read in two halves; carry, borrow and width | the sum is the time that passed; times and deadlines are exact up to their width | modelled |
| system information (`vm_sys_info_*.c`) | the first reading of the CPU counters, global; the caller's buffer | queries, CPU load | buffers turned into differences in place, first readings taken again | the loads of a line are shares of its sum | CPU load of Linux modelled |
| debug (`vm_debug_linux32.c`, `vm_debug_win32.c`: the same text) | level, output, file name, the open stream | set level, output and file; trace | the file changes while its stream is open; the first trace truncates | no message in the wrong file, none of the running program lost, no stream left open; older ones lost only to a truncation and to the first trace of all | modelled |
| shared objects (`vm_shared_object_*.c`) | none | load, get, free | none | one-line wrappers | left out |
| `src/test/test-sys_info.c` | none | prints | none | smoke test | left out |

Interactions: the Linux thread contains an event (`exit_event`, manual) and a mutex
(`access_mut`) of this library and calls their functions; the child's wrapper
`vm_thread_proc` signals the event. Event and semaphore are built on POSIX
condition variables. `vm_file_fclose` calls into the list of temporary files and
the atexit handler calls `vm_file_fclose`. `vm_file_fscanf` is built on
`vm_file_fgets` and `vm_file_fseek`. Everything else talks to the operating
system only.

## 2. Modules and how they correspond to the code

A call is cut into atomic steps where another thread can get in: at every test
that is made before the object's mutex is taken, at every lock, and at every
blocking call inside. The stretch that holds a mutex is one step. NULL-pointer
returns are left out everywhere.

* **PthreadCond** - the POSIX condition variable (external). Threads in it are
  asleep, woken or expired; the last two have left the queue and have not got the
  mutex back, the gap in which others overtake them.
* **VmEvent** - fields of `vm_event` and the bodies of its functions.
  **EventClients** - any threads calling them: `Enter` is the unlocked test,
  `Signal`, `Reset`, `Pulse`, `Block`, `Through`, `Woken`, `TimedOut` the bodies.
  **AbstractEvent** - what an event promises; `EventClients!Abstract` is the
  refinement mapping (an auto event with a woken waiter is already taken).
* **VmSemaphore**, **SemaphoreClients**, **AbstractSemaphore** - the same for the
  semaphore; the mapping takes `count` for the value and its sign for being alive.
* In EventClients, SemaphoreClients and VmThread the constant `SpuriousWakeups` says
  whether a condition wait may return unsignalled (`WakeSpuriously`), as POSIX permits.
  Both primitives test their state with `if`, so the promises cannot all survive such
  a return. A history variable `unsignalled` makes that a condition of the
  property and not of the model: for the event it holds the waits under way that
  nobody's signal woke, and only they may return VM_OK from a low event; for the
  semaphore it is TRUE once a condition wait has returned unsignalled, and from then
  on `CallsOnValidSemaphore` and `ImplementsAbstract` claim nothing, since the taker
  has taken a unit that may not be there (one taker is enough to reach -1).
  `NoLostWakeup` and `TakeReturns` hold all the same.
* **VmMutex**, **MutexClients** - `pthread_mutex_*` with the error-checking type
  (external: `PAcquire`, `PInvalid`, `PBusy`, `PDestroy`) and the functions over it.
* **VmThread** - composes VmEvent and VmMutex (`INSTANCE`), the child and the
  callers. `pc[t]` names the place in a function, `locking` who is inside
  `pthread_mutex_lock`, `joins` counts `pthread_join` on the latest child.
* **VmThreadWin32** - the handle, the count and the sections of the Win32 object.
  **AbstractThread** - what vm_thread.h promises on both systems: started one after
  the other, collected once, no wait returns while the thread runs.
  `ImplementsAbstractThread` of both modules maps the phase of the latest child and
  the threads inside vm_thread_wait.
* **VmSyncWin32** - an event and a semaphore of Windows, the kernel objects behind
  their handles, and threads that wait on them. The functions are one call of the
  kernel each; what SetEvent, PulseEvent and the waits do is its contract and no
  claim of this project, only who owns which handle is.
* **VmSocket** - `chns[<<h, j>>]` is channel j of socket h, `r_set` and `w_set` the
  sets in the first socket, `open` what the kernel has open, `signalled` (history)
  what select found and next has not reported. **VmSocketWin32** - the same tables
  over Winsock, with the WSAStartups not yet undone and the connect retries.
* **VmMmap**, **VmMmapWin32** - the two mapped files with the kernel's descriptors,
  handles, mappings and views.
* **VmTempFiles** - head, next and prev of the list, what is on disk, and the walk
  of `tempfile_delete_all`.
* **VmFileGets** - one step per chunk of `vm_file_fgets`, with the caller's buffer.
* **VmFileName** - names as sequences of letters, slashes and dots; the three parts
  of a name, and ADDPARM with the room it thinks is left.
* **VmFileScan** - `vm_file_fputs` with its translation, `vm_file_fscanf` as the
  words it cuts from the line at the file pointer: gettoken's token lies between
  `WordFrom` and `TokenTo` and may have tabs inside, %s stores what comes before the
  first of them (`WordTo`), and the file pointer goes behind the token.
* **VmTime** - the stopwatch; the clock advances between any two steps, the two
  halves of the cycle counter are read by two steps. **VmTimeWin32** - the stopwatch
  without the device, the vm_timeval functions with their 32 bits, and the deadline
  that the timed waits of Linux compute.
* **VmCpuLoad** - `counters` is /proc/stat, `prevCPUdata` and `dbuf` the library's and
  the caller's reading, `since` (history) what was counted since the first one.
* **VmDebug** - the log file: its name, its stream, the messages of this program in
  each file (`logs`) and the files that hold messages of earlier ones (`older`).
* **MCEvent, MCSemaphore, MCMutex, MCThread, MCServices** - constants for TLC.
  MCServices runs one of fifteen services that share no state.
* **...Proofs** - theorems, see section 5.

Operators named `Bug...` are mistakes a maintainer could make: a dropped reset, a
signal in place of a broadcast, a swapped order. Nothing uses them; when one is put
in the place of the operator it stands next to, the run finds the property
violated that PROJECT.json pairs with it (the sensitivity runs). Every property of a passing run has one.

### What callers are assumed to do

POSIX and the headers leave these uses undefined, so the guards exclude them:

* events, semaphores, mutexes: created, invalidated and (mutex: optionally)
  destroyed only while nobody is inside a call (`Quiet`), so nothing is claimed of
  a destruction between the unlocked validity test and the lock. The mutex runs allow
  destruction in use, since the code answers it with a status.
* threads: created only when `is_valid` is 0 and no call is under way; on Windows
  while nobody waits, and closed "after all" (vm_thread.h:70). Creating under a
  waiter overwrites an open handle there, and that waiter closes the new one.
* sockets: closed before they are initialised again; a socket whose
  initialisation failed is taken out of the array; during an iteration only the
  channel reported last is used.
* sockets of Windows: one whose initialisation failed is closed if it left its
  channel open (VmSocketWin32 `Closable`), and not otherwise.
* Win32 events and semaphores: made and destroyed only while no other call on them
  is under way; a semaphore is destroyed before it is initialised again.
* mapped files: closed before they are created again.
* file names: the caller's buffer holds the result, and a name has no dot before
  its last slash; `vm_file_getbasename` would copy a negative number of characters.
* CPU load, debug output: called by one thread.
* text files: not changed by others while read; writes go to the end of the file;
  when `vm_file_fscanf` reads, the last line has its line end, lines are shorter
  than 8192 characters, a format has no line end inside it.
* stopwatches: one handle from `vm_time_init` to the last `vm_time_stop`, and a
  clock nobody sets back.

## 3. Runs

| Run | What it shows |
|---|---|
| `event_both` | three threads that may call everything on events of both kinds, spurious wakeups on: no lost broadcast or signal; VM_OK means high, but for a wait whose own condition wait returned unsignalled; `AbstractEvent` is implemented in every step but such a return; under fairness a high event lets its sleepers go |
| `event_timeout` (violation) | an auto event: a timed wait that times out takes the signal that came after its deadline |
| `semaphore_single` | one taker and two posters, spurious wakeups on: no lost wakeup, takes return; until a condition wait has returned unsignalled a counting semaphore, never taken for a destroyed one |
| `semaphore_barging` (violation) | two takers: the count reaches -1, the semaphore counts as destroyed |
| `semaphore_lostwakeup` (violation) | two sleepers and two posts in a row: one sleeps on although the count is positive |
| `mutex_misuse` | three threads, every misuse and destruction in use: exclusion, release by the owner only, locks return |
| `thread_single` | one caller, every function, spurious wakeups on: one join per child, close collects it |
| `thread_shared` | creator/closer and two others that wait, poll and prioritise: sections exclusive, no early return (`AbstractThread` is implemented), event not destroyed under a sleeper, calls return |
| `thread_doublejoin` (violation) | a waiter between test and count joins a joined thread |
| `services` | sockets, mapped files, threads and stopwatches of both systems, Win32 events and semaphores, temporary files, fgets, fputs/fscanf, file names, timevals and deadlines, CPU load, the log file: section 2 and the comments of the properties say what of each |
| `socket_reuse` (violation) | a write bit left by a closed channel is reported for the channel that got its descriptor |
| `scan_comma` (violation) | the word behind a comma is never read |

### Bounds and why they are enough

* Threads: two sleepers are needed for a lost wakeup, a third thread for the
  signal or for barging; 3 threads have every pair and a third
  party. The thread object needs a first waiter, a second one and a closer.
* `MaxCount` 3: initial counts -1, 0, 1 and two posts beyond 1, past the 0 -> 1
  edge where `post` signals. The bound stops the start of posts, nothing else.
* Sockets 2, queue 2, descriptors 4: the tables hold six channels, so the kernel
  refuses descriptors and reuses them; masks READ+ACCEPT and WRITE. `socket_reuse`
  asks for READ and WRITE together, the one case where a left-over bit survives.
* Pages 2, 64-bit limit 8 (Win32: 16, with a 32-bit part of 8): every alignment,
  a sum that wraps, a size beyond the low part. Mapping sizes 4 and 2 stand for
  1 GB and 16 MB: one halving is kept, the next is refused.
* Three entries and files: head, middle and tail of the list.
* All texts of up to four characters over {letter, line end, null}, chunks of 2,
  buffers of 1, 2, 3 and 5: lines that end in, at and over a chunk and the buffer.
* Six written characters from six strings with blanks, tabs, commas and line ends,
  one or two specifiers: words on one and on several lines, files reopened in
  every mode. Lines longer than a chunk belong to VmFileGets.
* Winsock gives out 3 handles, so two sockets compete for them; `MaxLost` 1 bounds
  the initialisations that lose their startup: Winsock would stay up for ever with
  the first one.
* Win32 objects: two handles for two objects, so every closed handle is given out
  again; three threads: two waiters and a third that lowers or barges.
* Names up to four characters over {letter, slash, dot}; rooms around what two and
  three parts need: too little, enough, twice enough.
* `WordSize` 8, `Second` 4, `Milli` 2: carries, borrows, and wrapping in a few steps;
  `MaxExact` 63 microseconds are added up at most, past every wrap.
* Two processors, two columns, three ticks: unequal lines, a line without a tick.
* Two log files, two streams, two messages: a file left and taken up again.
* Three children, four threads on Windows; clock up to 8 with a low half of 3:
  up to two wraps, also between the two reads of a call.

`services` is run without deadlock check: after exit() the service of temporary
files stops, and a `vm_file_fscanf` that hangs stops the text file. The other runs
check for deadlock.

### Fairness

`FairSpec` asks for weak fairness of the steps of a thread inside a call (the
scheduler runs what can run), of deadlines (clocks advance) and of the child's
return. The mutex adds strong fairness of `Acquire` (a lock that is free again and
again is granted some day) and of the holder's unlock, an assumption about callers
without which no lock can be promised. Nobody has to call anything.

## 4. Findings

* Auto event (`event_timeout`): a timed wait that times out lowers an event signalled
  meanwhile (`vm_event_linux32.c:193`), so that signal releases nobody.
* Semaphore, two takers (`semaphore_barging`, `semaphore_lostwakeup`):
  `vm_semaphore_linux32.c:113` tests the count with `if`, and `post` signals on
  0 -> 1 only.
* Thread, two waiters (`thread_doublejoin`): `vm_thread_linux32.c:178` tests
  `is_valid` outside the mutex and does not test it again.
* Socket (`socket_reuse`): `vm_socket_close_chn` leaves the readiness bits.
* `vm_file_fscanf` (`scan_comma`): the comma is a delimiter that is never skipped.

Seen while modelling; in the models and excepted by a property, or
excluded by a caller's duty; no run of their own:

* Event and semaphore: `vm_event_linux32.c:144` and `vm_semaphore_linux32.c:113` and
  :82 test with `if`. A condition wait that returns unsignalled ends a wait on a low
  event with VM_OK, and makes a single taker decrement 0 to -1, the mark of a
  destroyed semaphore (`unsignalled`, section 2).
* Log file: the first trace opens it with "w" (`vm_debug_linux32.c:225`) and so drops
  what earlier programs have left there, where the header says "append to a debug
  file" (`vm_debug.h:81`); `vm_debug_setfile` without truncation, with the name the log
  has already, returns before it could help. `OlderKept` makes this one exception.
* `vm_socket_init` on Windows returns VM_OK when its last attempt to connect failed
  (`vm_socket_win32.c:131`), and an error does not undo its WSAStartup.
* `vm_semaphore_init` on Windows leaves the handle of an old semaphore open.
* Timed waits on Linux: the 32-bit product makes them end early from about 4294 s on.
* CPU load: a line of /proc/stat has ten numbers now, ldbuffer has places for seven
  and a -1 (`vm_sys_info_linux32.c:103`); `VM_NOT_ENOUGH_DATA` is overwritten by
  VM_OK; a first reading that fails goes unnoticed (line 184).
* Log file: after a failed open every message tries again and truncates when it
  succeeds.
* File names: a path of one character is dropped, so is a suffix whose dot is the
  second character (`a.c`); ADDPARM takes the length of the whole name off the room
  for every part, so parts that would fit are left out, or the room passes below 0.
* Directories: on Unix `vm_dir_open` changes the working directory and does not go
  back (the getcwd result is dropped), so nested and relative enumerations fail and
  `vm_string_findnext` ends early. On Windows `vm_dir_read` loses the first entry
  and, after one more, its handle.
* Auto event: a thread that barges in before the woken waiter makes one signal
  release two. `AbstractEvent` is implemented all the same: it counts the event as
  low once a waiter is woken, and does not count releases.
* `vm_file_fscanf`: a tab is skipped before a word but does not end one
  (`vm_file_win32.c:965`), so a word that tabs alone divide from the one before is
  lost: %s stops at the tab, the file pointer goes behind the token. `RoundTrip` and
  `CommaDelimits` except these words (`NotBehindTab`) and claim all others.
* `vm_thread_set_priority` may use a joined handle (`PriorityOfLiveThread`).
* `vm_file_fgets`: a last line without a line end leaves one old character before
  its null (`vm_file_win32.c:663`), and a line that fills the buffer has no null.
* `vm_file_fscanf`: `while (!eol);` has no `do`; without a word for the first
  specifier it never returns. `vm_file_feof` uses the size at open, so a file
  written since is given up early or never. A format is cut at an inner `\n`.
* `vm_file_fputs_cvt` writes as many characters as before line ends were doubled.
* `vm_file_fopen`: the test of `mds[3]` binds so that `l` has no effect.
* Win32 views: `MapViewOfFile` gets the low 32 bits of the size, so a view of 4 GB
  or more is shorter than the size reported (`MappingHeld` claims less than that).
* Cycle counter: when the low half wraps between its two reads the time is 2^32
  cycles off (`TimeMeasured` says: by whole wraps, never otherwise).
* Stopwatch: two stops after one start count the first stretch twice; an open
  that gets descriptor 0 reports a failure and leaves it open.
* `vm_time_timercmp` with a threshold does not look at its second argument
  (`vm_time_win32.c:55`).

## 5. Proofs

| Module | Theorems | Assumes |
|---|---|---|
| EventClientsProofs | `TypeCorrect`, `ManualSignalWakesAll`, `AutoSignalOnItsWay`, `OKMeansHigh`, `IsAnEvent` | `Quiet` (section 2); spurious wakeups included, with the exceptions the last two properties make of them |
| SemaphoreClientsProofs | `TypeCorrect`; `WakeupNotLost`; `StaysValid`, `IsASemaphore` | the first: nothing; the others: `SafeUse` (one taker, or pollers only); spurious wakeups included, but the last two properties claim nothing once one has happened |
| MutexClientsProofs | `TypeCorrect`, `Exclusive`, `ReleasedByOwner` | nothing: destruction in use included |
| VmThreadProofs | `TypeCorrect`, `SectionsApart`; `NobodyLeftAsleep`, `IsAThread`; `JoinsOnce`, `NoneLeftBehind`, `PriorityIsLive` | finitely many threads, close under waiters and spurious wakeups included; the next two: `OwnUse` (the creator closes, no spurious wakeups); the last three: `OneCaller` (spurious wakeups included) |
| VmWin32Proofs, thread | `ThreadTypeCorrect`, `HandleIsHeld` (`WaitsAreSafe`, `ClosedOnce`, `CollectedAfterExit`), `IsAThread` | finitely many threads |
| VmWin32Proofs, event and semaphore | `SyncTypeCorrect`, `OwnObjects` | nothing beyond the constants' types |
| VmSocketProofs | `TypeCorrect`, `OneChannelEach`, `AllReported`, and for Windows `WinTypeCorrect`, `WinOneChannelEach`, `WinAllReported`; `OnlySignalledReported`, `WinOnlySignalledReported`; `WinsockIsHeld` | nothing beyond the constants' types; the next two: `OneDirection` (no select asks for reading and writing at once); the last one: finitely many sockets |
| VmFileProofs | `ViewIsHeld`, `MappingIsHeld` (Windows), `TempFilesAreKept`, `GetsIsExact`, `WordsComeBack`, and the types of each module (`MmapTypeCorrect`, ...); `WithoutCommas`; `NamesComeApart` | nothing beyond the constants' types; the next one: no comma and no carriage return is written; the last one: `PlainParts` (a base name has neither slash nor dot, a suffix no dot) |
| VmSystemProofs | `TimeIsMeasured`, `TickIsMeasured`, `TimesAreExact`, `LoadsAreSharesAlways`, `LogsAreKept`, `OlderAreKept`, and the types of each module (`CpuTypeCorrect`, ...) | the constants' types and widths (`WidthAssumption`) |
| VmSystemProofs, composition | `ServicesStandAlone`, `ServicesTyped`, `ServicesKeepTheirPromises`; `ServicesIterate`, `ServicesComposeNames`, `ServicesHoldWinsock` | the same; the last three: `OneDirection`, `PlainParts`, finitely many sockets |

* **Event.** `Inv` joins types, the place of threads in the condition wait and the
  two no-lost-wakeup facts. Lowering an auto event and the waiter that lowers it
  are one step, so a high auto event with sleepers keeps a woken waiter. VM_OK
  needs two more conjuncts: woken threads saw the event high or are among
  `unsignalled`, and a call under way has no status yet. The refinement (`IsAnEvent`)
  holds for both kinds, step by step from the same invariant.
* **Semaphore.** With one taker the woken thread is the only one that can take, so
  the count it was woken for is still there; that needs a wakeup to mean a post, so
  the invariant says it only until `unsignalled`, and nothing after. That a
  unit never waits beside a sleeper (`WakeupNotLost`) holds always: one taker is
  woken by whatever comes first. The refinement uses the invariant step by step.
* **Mutex.** `held` is exactly the owner; every function that changes `owner` does
  so through the POSIX mutex, which checks who calls.
* **Linux thread.** `Guarded`: while the access mutex is valid, the thread in a
  section is its owner; the lock takes it, only the owner's unlock frees it.
  `CountIsRight`: `i_wait_count` is the number of threads between their two
  sections. It outlives the mutex because the model takes a change of the count as
  one step also when vm_thread_close has destroyed the mutex under other waiters;
  in the code two such decrements are a data race.
* **Linux thread, as its owner uses it.** Under `OwnUse` three more parts are
  inductive. `Story`: the object is valid from the creation of a child to its join,
  and an event that is high or destroyed means that the child has returned.
  `Witnesses`: a thread behind the event has seen the child end, and who sleeps in
  the event sleeps on a low one, so a close that gets to the event finds nobody.
  `Alone`: while the object is made, nobody is inside it. The refinement needs all
  three. It excludes spurious wakeups: a waiter woken for nothing goes on to
  the second section while the child runs. For one caller `Sole` is enough,
  and it needs no assumption about wakeups: that caller is always the last waiter
  of its own wait and joins, so an invalid object has no child that is not joined.
* **Win32 thread.** `i_wait_count` is the cardinality of the threads between their
  two sections (`CountIsRight`), and `Roles` says who is alone during a create or a
  close; the handle is therefore closed by the last one out. The refinement
  needs no more: a thread past the wait on the handle has seen the child exit.
* **Win32 event and semaphore.** That a handle which is not NULL names an open
  object of its kind is inductive with the types.
* **Mapped file.** Every mapping is at the handle's address, so the unmapping of it
  leaves none, and a handle without a file has no view that a create could forget.
  The size grows by what rounding the offset down takes away (`ExtendedReaches`),
  unless the sum of both wraps. On Windows the part of the size that MapViewOfFile
  is given is all of it as long as it fits 32 bits, and 0 stands for the rest of
  the mapping (`ViewedReaches`).
* **Socket.** `BitsKept`: a signalled channel that is still open keeps its bit,
  because descriptors are owned once; so an iteration that ends has reported all.
  The converse (`OnlySignalledReported`) needs that only one of the sets has bits, so
  that the channel reported last has none left when it is closed: close_chn clears
  nothing, and `socket_reuse` shows what happens with both. The argument asks
  of the kernel only that a descriptor it gives out is not open (`Opens`), so the same
  lemmas serve Linux, which gives out the lowest, and Windows, which gives out any.
* **Winsock.** The sockets still to be closed are counted (`ToClose`): an
  initialisation that gets a socket adds one to it and to the startups, whether it
  succeeds or not, a close takes one from both, and steps on channels change neither.

* **Temporary files.** What the walk along `next` reaches is, without recursion, the
  smallest set that holds the head and is closed under `next` (`Listed`). An entry
  of it is the head or behind another entry, so what an operation leaves of the
  list is found by comparing it with one more closed set: adding an entry adds just
  that one (`EntryAdded`), taking one out takes out just that one (`EntryRemoved`).
  `TempIInv` adds where the exit handler's walk stands.
* **vm_file_fgets.** `GetsIInv` says of a running call that what it has stored is
  what it has read since it started, that nothing of it ends a line, and that a
  place is left. A chunk copied to its end keeps that; one that holds the end of the
  call seeks back to just behind it.
* **Text files.** A string stands in the file with its characters in order and
  nothing between them but a carriage return before a line end (`Embeds`); so does
  all that was written, in a file whose line ends are translated or not, however
  often it is closed and opened again (`TranslatedEmbeds`, `EmbedsAppend`).
  Translation is written without recursion: a character is moved by the line ends
  before it. `ScanIInv` says that the words read are the first that start outside the
  reach of a comma, and that the file pointer is behind the last of them and before
  the next. `NextWord`: the word `gettoken` cuts out is that next one; `NoWordBefore`: a
  line that is dropped holds no more of them. Induction over places is by the least place
  that would be wrong (`FirstPlace`). `WithoutCommas` is the other side of
  `scan_comma`: to callers that write no comma, every word comes back that no tab
  glues to the one before. Up to `h` the token is the word, up to `d` it may have
  tabs; whatever starts between the two is glued.
* **File names.** `PlacesFound` and `Dots` say what the searches find, which bounds
  the parts of any name. `MadeOfParts` follows ADDPARM three times: with twice the
  room that is needed each test lets the part in, and the slash behind it becomes
  the dot or goes. `ComesApart` finds both where they were put. That no slash stands
  behind the first dot is a caller's duty (section 2) and part of the model's guard.
* **Clocks.** On Linux a time that is read is off by whole wraps of the low half,
  and sums and differences of such times are too. On Windows nothing is off. A
  timeval is the quotient and the remainder of its microseconds by one second, and
  sum and difference carry or borrow once (`Quotient`); that the fields do not
  wrap in between is what `WidthAssumption` asks for: two seconds fit a word.
* **CPU load.** `since` is the counters less the first reading in every column of
  every line, so the two readings' difference is what the shares are taken of. A sum is
  the last of its partial sums, each of which covers the parts before it
  (`PartsOfTotal`), so no share is above 1.
* **Log.** Unless an open failed, the open stream belongs to the current file, has
  all messages of this program since it was opened, and no other stream is open. A
  file that a trace will open is then the one the program started with, since
  vm_debug_setfile opens every other at once (`OlderAreKept`).
* **Composition.** A step of MCServices is a step of one service and leaves the
  variables of the others alone, so `Spec` implies the specification of every service of
  which it has one copy (`ServicesStandAlone`), and what is proved of each holds in the
  composition. A tick of the Windows stopwatch is a step of VmTime as well. The channel
  tables are shared by the sockets of both systems, whose steps keep the same `IInv`;
  and as the service is chosen once, every step under Windows is one of WinsockNext or
  leaves its variables alone, so `WinIInv` carries over.

Only model-checked: liveness under fairness (out of the prover's reach), that
sleepers, takers, locks and calls get on. Every other property of a passing run is
stated by a theorem, some under the conditions the table gives.

## 6. Not modelled, and what comes next

In this order:

1. The converting variants of the text functions (`vm_file_fgets_cvt` and others).
2. The Win32 load counters (performance counters of the system).

Left out for good:

* directory enumeration: neither implementation keeps an enumeration that a
  property could be about (section 4);
* the mutex of Windows: a CRITICAL_SECTION, whose contract would be the whole model;
* shared objects (wrappers), CPU and OS queries (they read the system and keep
  nothing), `VM_THREAD_CATCHCRASH`, the OSX and FreeBSD recursive mutex, formatting
  of output, the Windows CE branches, the IPP type definitions (`ippdefs.h`).
