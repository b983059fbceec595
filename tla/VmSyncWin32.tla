---------------------------- MODULE VmSyncWin32 ----------------------------
(***************************************************************************)
(* An event of vm_event_win32.c and a semaphore of vm_semaphore_win32.c    *)
(* over the kernel objects they name by handles.  The kernel decides a     *)
(* wait and a release in one step and gives out the handles it has closed  *)
(* again.  PulseEvent is taken at its contract: a thread the kernel has    *)
(* taken out of its wait for a moment would miss the pulse.                *)
(*                                                                         *)
(* Nobody makes or destroys an object while another call on it is under    *)
(* way.  A call on a NULL handle returns VM_NOT_INITIALIZED and is no      *)
(* step, like one the kernel refuses: a post at the limit.                 *)
(***************************************************************************)
EXTENDS Integers

CONSTANTS
  Caller,       \* the threads
  Handle,       \* the handles the kernel has
  MostUnits     \* LONG_MAX, what the count of a semaphore goes up to

ASSUME SyncAssumption == Handle \subseteq Nat \ {0} /\ MostUnits \in Nat

VARIABLES
  evHandle, semHandle,   \* vm_event.handle and vm_semaphore.handle, 0 for NULL
  objects,               \* the kernel's object behind each handle
  evManual, evUp,        \* the kernel's event
  units,                 \* the kernel's semaphore
  waitAt                 \* where each thread is

syncVars == <<evHandle, semHandle, objects, evManual, evUp, units, waitAt>>

WaitPlaces == {"out", "event", "event let go", "semaphore", "semaphore let go"}
At(place) == {c \in Caller : waitAt[c] = place}

SyncTypeOK ==
  /\ evHandle \in Handle \union {0} /\ semHandle \in Handle \union {0}
  /\ objects \in [Handle -> {"closed", "event", "semaphore"}]
  /\ evManual \in BOOLEAN /\ evUp \in BOOLEAN
  /\ units \in 0 .. MostUnits
  /\ waitAt \in [Caller -> WaitPlaces]

\* vm_event_set_invalid and vm_semaphore_set_invalid have been called.
SyncInit ==
  /\ evHandle = 0 /\ semHandle = 0
  /\ objects = [h \in Handle |-> "closed"]
  /\ evManual \in BOOLEAN /\ evUp = FALSE /\ units = 0
  /\ waitAt = [c \in Caller |-> "out"]

-----------------------------------------------------------------------------
\* The objects after CloseHandle(h), and after the kernel has made one more.
AfterClose(h) == [g \in Handle |-> IF g = h THEN "closed" ELSE objects[g]]
Made(objs, h, kind) == IF h = 0 THEN objs ELSE [objs EXCEPT ![h] = kind]
Grantable(objs) == {h \in Handle : objs[h] = "closed"} \union {0}

EventQuiet == At("event") \union At("event let go") = {}
SemaphoreQuiet == At("semaphore") \union At("semaphore let go") = {}

\* vm_event_init closes what it finds, CreateEvent may fail.
EventInit(m, s, h) ==
  /\ EventQuiet
  /\ h \in Grantable(AfterClose(evHandle))
  /\ objects' = Made(AfterClose(evHandle), h, "event")
  /\ evHandle' = h
  /\ evManual' = m
  /\ evUp' = (s /\ h # 0)
  /\ UNCHANGED <<semHandle, units, waitAt>>

BugEventDestroy ==
  /\ EventQuiet /\ evHandle # 0
  /\ objects' = AfterClose(evHandle)
  /\ evUp' = FALSE
  /\ UNCHANGED <<evHandle, semHandle, evManual, units, waitAt>>

EventDestroy ==
  /\ EventQuiet /\ evHandle # 0
  /\ objects' = AfterClose(evHandle)
  /\ evHandle' = 0
  /\ evUp' = FALSE
  /\ UNCHANGED <<semHandle, evManual, units, waitAt>>

\* vm_semaphore_init does not close what it finds: callers destroy first.
\* CreateSemaphore refuses a negative count.
SemaphoreInit(n, h) ==
  /\ SemaphoreQuiet /\ semHandle = 0
  /\ h \in Grantable(objects)
  /\ n < 0 => h = 0
  /\ objects' = Made(objects, h, "semaphore")
  /\ semHandle' = h
  /\ units' = IF h = 0 THEN 0 ELSE n
  /\ UNCHANGED <<evHandle, evManual, evUp, waitAt>>

SemaphoreDestroy ==
  /\ SemaphoreQuiet /\ semHandle # 0
  /\ objects' = AfterClose(semHandle)
  /\ semHandle' = 0
  /\ units' = 0
  /\ UNCHANGED <<evHandle, evManual, evUp, waitAt>>

-----------------------------------------------------------------------------
LetGo(S, place) == waitAt' = [c \in Caller |-> IF c \in S THEN place ELSE waitAt[c]]

\* SetEvent and PulseEvent let go every waiter of a manual event, one of an
\* auto event; without a waiter nobody.
Released(S) ==
  \/ evManual /\ S = At("event")
  \/ ~evManual /\ \/ \E c \in At("event") : S = {c}
                  \/ At("event") = {} /\ S = {}

EventSignal(S) ==
  /\ evHandle # 0 /\ Released(S)
  /\ LetGo(S, "event let go")
  /\ evUp' = (evManual \/ S = {})
  /\ UNCHANGED <<evHandle, semHandle, objects, evManual, units>>

EventReset ==
  /\ evHandle # 0
  /\ evUp' = FALSE
  /\ UNCHANGED <<evHandle, semHandle, objects, evManual, units, waitAt>>

EventPulse(S) ==
  /\ evHandle # 0 /\ Released(S)
  /\ LetGo(S, "event let go")
  /\ evUp' = FALSE
  /\ UNCHANGED <<evHandle, semHandle, objects, evManual, units>>

\* vm_event_wait: WaitForSingleObject takes an auto event down.
EventWait(c) ==
  /\ evHandle # 0 /\ waitAt[c] = "out"
  /\ \/ evUp /\ evUp' = evManual /\ UNCHANGED waitAt
     \/ ~evUp /\ LetGo({c}, "event") /\ UNCHANGED evUp
  /\ UNCHANGED <<evHandle, semHandle, objects, evManual, units>>

\* vm_event_timed_wait: as vm_event_wait, and this return of VM_TIMEOUT.
EventTimeout(c) ==
  /\ waitAt[c] = "event"
  /\ LetGo({c}, "out")
  /\ UNCHANGED <<evHandle, semHandle, objects, evManual, evUp, units>>

-----------------------------------------------------------------------------
\* vm_semaphore_post: ReleaseSemaphore gives the unit to a waiter, if any.
SemaphorePost(S) ==
  /\ semHandle # 0
  /\ \/ \E c \in At("semaphore") : S = {c} /\ UNCHANGED units
     \/ At("semaphore") = {} /\ S = {} /\ units < MostUnits /\ units' = units + 1
  /\ LetGo(S, "semaphore let go")
  /\ UNCHANGED <<evHandle, semHandle, objects, evManual, evUp>>

SemaphoreWait(c) ==
  /\ semHandle # 0 /\ waitAt[c] = "out"
  /\ \/ units > 0 /\ units' = units - 1 /\ UNCHANGED waitAt
     \/ units = 0 /\ LetGo({c}, "semaphore") /\ UNCHANGED units
  /\ UNCHANGED <<evHandle, semHandle, objects, evManual, evUp>>

\* vm_semaphore_timedwait, and vm_semaphore_try_wait with no time at all.
SemaphoreTimeout(c) ==
  /\ waitAt[c] = "semaphore"
  /\ LetGo({c}, "out")
  /\ UNCHANGED <<evHandle, semHandle, objects, evManual, evUp, units>>

\* A wait that was let go returns VM_OK.
WaitReturns(c) ==
  /\ waitAt[c] \in {"event let go", "semaphore let go"}
  /\ LetGo({c}, "out")
  /\ UNCHANGED <<evHandle, semHandle, objects, evManual, evUp, units>>

SyncNext ==
  \/ \E h \in Handle \union {0} :
       \/ \E m, s \in BOOLEAN : EventInit(m, s, h)
       \/ \E n \in -1 .. MostUnits : SemaphoreInit(n, h)
  \/ EventDestroy \/ SemaphoreDestroy \/ EventReset
  \/ \E S \in SUBSET Caller : EventSignal(S) \/ EventPulse(S) \/ SemaphorePost(S)
  \/ \E c \in Caller :
       \/ EventWait(c) \/ EventTimeout(c)
       \/ SemaphoreWait(c) \/ SemaphoreTimeout(c) \/ WaitReturns(c)

SyncSpec == SyncInit /\ [][SyncNext]_syncVars

-----------------------------------------------------------------------------
\* Both kinds of object are made again and destroyed in any order and the
\* kernel reuses handles: an event or a semaphore names an object of its own
\* kind or none, so it never closes another's, and none is left behind.
HandlesNameOwnObject ==
  \A h \in Handle :
    /\ objects[h] = "event" <=> evHandle = h
    /\ objects[h] = "semaphore" <=> semHandle = h
=============================================================================
