------------------------------ MODULE VmThread -----------------------------
(***************************************************************************)
(* The thread object of vm_thread_linux32.c, composed of the exit event    *)
(* (VmEvent, manual) and the access mutex (VmMutex) it is made of, the     *)
(* child thread it starts, and the threads that call its functions.        *)
(*                                                                         *)
(* A function is cut where another thread can get in between: at every     *)
(* unlocked test of a flag, at every lock, at the condition wait inside    *)
(* the event and at pthread_join.  The rest of a section that holds the    *)
(* access mutex, its unlock included, is one step.  Operators named Bug... *)
(* are mistakes a maintainer could make; nothing uses them but the         *)
(* sensitivity runs the README describes.                                  *)
(***************************************************************************)
EXTENDS Integers, FiniteSets

CONSTANTS
  Thread,              \* the threads that use the object, without the child
  NoOwner,             \* not a thread
  Uses,                \* Uses[t]: the functions t calls
  SpuriousWakeups      \* TRUE: pthread_cond_wait may return unsignalled

Function == {"create", "wait", "is_valid", "set_priority", "close"}

ASSUME UseAssumption ==
  /\ IsFiniteSet(Thread)
  /\ NoOwner \notin Thread
  /\ Uses \in [Thread -> SUBSET Function]
  /\ SpuriousWakeups \in BOOLEAN

VARIABLES
  is_valid,                                 \* vm_thread.is_valid
  i_wait_count,                             \* vm_thread.i_wait_count
  state, manual, asleep, woken, expired,    \* vm_thread.exit_event
  mutex_valid, handle, owner,               \* vm_thread.access_mut
  child,       \* "none", "running", "returned" (from its function), "exited"
  joins,       \* history: the pthread_join calls on the latest child
  pc,          \* pc[t]: where t is, "idle" outside
  closing,     \* the threads whose wait was called by vm_thread_close
  locking      \* the threads inside pthread_mutex_lock on access_mut

Event == INSTANCE VmEvent
Mutex == INSTANCE VmMutex WITH is_valid <- mutex_valid

eventVars  == <<state, manual, asleep, woken, expired>>
mutexVars  == <<mutex_valid, handle, owner>>
objectVars == <<is_valid, i_wait_count>>
childVars  == <<child, joins>>
callVars   == <<pc, closing, locking>>

vars == <<objectVars, eventVars, mutexVars, childVars, callVars>>

\* Where a caller can be: at a lock ("..._lock"), in a section that holds the
\* access mutex, at a test, in the event, in pthread_join.
LockPoint == {"create_lock", "priority_lock", "poll_lock", "wait_lock", "leave_lock"}
Section   == {"create_section", "priority_section", "poll_section",
              "wait_section", "leave_section", "join"}
Elsewhere == {"idle", "priority", "wait", "poll_body", "polling",
              "event", "event_body", "event_wait", "close_event", "close_mutex"}

TypeOK ==
  /\ is_valid \in BOOLEAN
  /\ i_wait_count \in Nat
  /\ Event!EventTypeOK
  /\ Mutex!MutexTypeOK
  /\ child \in {"none", "running", "returned", "exited"}
  /\ joins \in Nat
  /\ pc \in [Thread -> LockPoint \union Section \union Elsewhere]
  /\ closing \subseteq Thread
  /\ locking \subseteq Thread
  /\ \A t \in locking : pc[t] \in LockPoint
  /\ \A t \in Event!Blocked : pc[t] \in {"polling", "event_wait"}

\* An object starts its life with vm_thread_set_invalid.
Init ==
  /\ is_valid = FALSE
  /\ i_wait_count = 0
  /\ state = -1 /\ manual = FALSE /\ Event!CondInit
  /\ mutex_valid = FALSE /\ handle = "none" /\ owner = NoOwner
  /\ child = "none" /\ joins = 0
  /\ pc = [t \in Thread |-> "idle"]
  /\ closing = {}
  /\ locking = {}

-----------------------------------------------------------------------------
Goto(t, place) == pc' = [pc EXCEPT ![t] = place]

\* vm_mutex_lock(&thread->access_mut), its status ignored as every caller
\* does: without a valid mutex the section is entered all the same.
AfterLock(place) ==
  CASE place = "create_lock"   -> "create_section"
    [] place = "priority_lock" -> "priority_section"
    [] place = "poll_lock"     -> "poll_section"
    [] place = "wait_lock"     -> "wait_section"
    [] place = "leave_lock"    -> "leave_section"

LockTest(t) ==
  /\ pc[t] \in LockPoint /\ t \notin locking
  /\ \/ mutex_valid /\ locking' = locking \union {t} /\ UNCHANGED pc
     \/ ~mutex_valid /\ Goto(t, AfterLock(pc[t])) /\ UNCHANGED locking
  /\ UNCHANGED <<objectVars, eventVars, mutexVars, childVars, closing>>

LockDone(t) ==
  /\ t \in locking
  /\ Mutex!LockOK(t) \/ Mutex!LockFails(t)
  /\ locking' = locking \ {t}
  /\ Goto(t, AfterLock(pc[t]))
  /\ UNCHANGED <<objectVars, eventVars, childVars, closing>>

\* vm_mutex_unlock(&thread->access_mut), its status ignored.
Unlock(t) ==
  \/ mutex_valid /\ (Mutex!UnlockOK(t) \/ Mutex!UnlockFails(t))
  \/ ~mutex_valid /\ UNCHANGED mutexVars

-----------------------------------------------------------------------------
\* vm_thread_create.  Creating over a live thread or under a call in progress
\* would lose the child: callers do neither.
Create(t) ==
  /\ "create" \in Uses[t]
  /\ ~is_valid
  /\ \A u \in Thread : pc[u] = "idle"
  /\ Event!InitEvent(TRUE, 0)
  /\ \E granted \in BOOLEAN :
       /\ Mutex!InitMutex(granted)
       /\ Goto(t, IF granted THEN "create_lock" ELSE "priority")
  /\ UNCHANGED <<objectVars, childVars, closing, locking>>

\* pthread_create under the access mutex, then vm_thread_set_priority.
Spawn(t) ==
  /\ pc[t] = "create_section"
  /\ \E ok \in BOOLEAN :
       /\ is_valid' = ok
       /\ child' = IF ok THEN "running" ELSE child
       /\ joins' = IF ok THEN 0 ELSE joins
  /\ Unlock(t)
  /\ Goto(t, "priority")
  /\ UNCHANGED <<i_wait_count, eventVars, closing, locking>>

-----------------------------------------------------------------------------
\* vm_thread_set_priority, also the last call of vm_thread_create.
CallSetPriority(t) ==
  /\ pc[t] = "idle" /\ "set_priority" \in Uses[t]
  /\ Goto(t, "priority")
  /\ UNCHANGED <<objectVars, eventVars, mutexVars, childVars, closing, locking>>

TestPriority(t) ==
  /\ pc[t] = "priority"
  /\ Goto(t, IF is_valid THEN "priority_lock" ELSE "idle")
  /\ UNCHANGED <<objectVars, eventVars, mutexVars, childVars, closing, locking>>

\* pthread_getschedparam and pthread_setschedparam on thread->handle.
SetPriority(t) ==
  /\ pc[t] = "priority_section"
  /\ Unlock(t)
  /\ Goto(t, "idle")
  /\ UNCHANGED <<objectVars, eventVars, childVars, closing, locking>>

-----------------------------------------------------------------------------
\* vm_thread_is_valid: under the access mutex, poll the exit event with
\* vm_event_timed_wait(.., 0); a child that has exited is waited for.
CallIsValid(t) ==
  /\ pc[t] = "idle" /\ "is_valid" \in Uses[t]
  /\ is_valid
  /\ Goto(t, "poll_lock")
  /\ UNCHANGED <<objectVars, eventVars, mutexVars, childVars, closing, locking>>

\* The validity test of vm_event_timed_wait.
PollTest(t) ==
  /\ pc[t] = "poll_section"
  /\ \/ Event!IsValid /\ Goto(t, "poll_body") /\ UNCHANGED mutexVars
     \/ ~Event!IsValid /\ Unlock(t) /\ Goto(t, "idle")
  /\ UNCHANGED <<objectVars, eventVars, childVars, closing, locking>>

PollBlock(t) ==
  /\ pc[t] = "poll_body"
  /\ Event!WaitBlock(t)
  /\ Goto(t, "polling")
  /\ UNCHANGED <<objectVars, mutexVars, childVars, closing, locking>>

PollHigh(t) ==
  /\ \/ pc[t] = "poll_body" /\ Event!WaitThrough
     \/ pc[t] = "polling" /\ Event!WaitWoken(t)
  /\ Unlock(t)
  /\ Goto(t, "wait")
  /\ UNCHANGED <<objectVars, childVars, closing, locking>>

PollLow(t) ==
  /\ pc[t] = "polling" /\ Event!WaitExpired(t)
  /\ Unlock(t)
  /\ Goto(t, "idle")
  /\ UNCHANGED <<objectVars, childVars, closing, locking>>

-----------------------------------------------------------------------------
\* vm_thread_wait, also from vm_thread_is_valid and vm_thread_close.
CallWait(t) ==
  /\ pc[t] = "idle" /\ "wait" \in Uses[t]
  /\ Goto(t, "wait")
  /\ UNCHANGED <<objectVars, eventVars, mutexVars, childVars, closing, locking>>

\* Where a wait of t returns to.
Caller(t) == IF t \in closing THEN "close_event" ELSE "idle"

\* The unlocked test of is_valid.
WaitTest(t) ==
  /\ pc[t] = "wait"
  /\ Goto(t, IF is_valid THEN "wait_lock" ELSE Caller(t))
  /\ UNCHANGED <<objectVars, eventVars, mutexVars, childVars, closing, locking>>

CountIn(t) ==
  /\ pc[t] = "wait_section"
  /\ i_wait_count' = i_wait_count + 1
  /\ Unlock(t)
  /\ Goto(t, "event")
  /\ UNCHANGED <<is_valid, eventVars, childVars, closing, locking>>

\* vm_event_wait: test, body, condition wait.
EventTest(t) ==
  /\ pc[t] = "event"
  /\ Goto(t, IF Event!IsValid THEN "event_body" ELSE "leave_lock")
  /\ UNCHANGED <<objectVars, eventVars, mutexVars, childVars, closing, locking>>

EventBlock(t) ==
  /\ pc[t] = "event_body"
  /\ Event!WaitBlock(t)
  /\ Goto(t, "event_wait")
  /\ UNCHANGED <<objectVars, mutexVars, childVars, closing, locking>>

EventHigh(t) ==
  /\ \/ pc[t] = "event_body" /\ Event!WaitThrough
     \/ pc[t] = "event_wait" /\ Event!WaitWoken(t)
  /\ Goto(t, "leave_lock")
  /\ UNCHANGED <<objectVars, mutexVars, childVars, closing, locking>>

BugNoJoin(t) ==
  /\ pc[t] = "leave_section"
  /\ i_wait_count' = i_wait_count - 1
  /\ Unlock(t)
  /\ Goto(t, Caller(t))
  /\ UNCHANGED <<is_valid, eventVars, childVars, closing, locking>>

BugUnlockThenJoin(t) ==
  /\ pc[t] = "leave_section"
  /\ i_wait_count' = i_wait_count - 1
  /\ Unlock(t)
  /\ Goto(t, IF i_wait_count' = 0 THEN "join" ELSE Caller(t))
  /\ UNCHANGED <<is_valid, eventVars, childVars, closing, locking>>

\* The last waiter out joins the child, the others leave.
\* (Where vm_thread_close has destroyed the mutex by now, the count is changed
\* without it; here this is one step all the same.)
CountOut(t) ==
  /\ pc[t] = "leave_section"
  /\ i_wait_count' = i_wait_count - 1
  /\ \/ i_wait_count' = 0 /\ Goto(t, "join") /\ UNCHANGED mutexVars
     \/ i_wait_count' # 0 /\ Unlock(t) /\ Goto(t, Caller(t))
  /\ UNCHANGED <<is_valid, eventVars, childVars, closing, locking>>

BugJoin(t) ==
  /\ pc[t] = "join"
  /\ child = "exited"
  /\ joins' = joins + 1
  /\ Unlock(t)
  /\ Goto(t, Caller(t))
  /\ UNCHANGED <<is_valid, i_wait_count, eventVars, child, closing, locking>>

\* pthread_join, the access mutex held.  It returns once the child is gone;
\* a second join of the same child is taken to return at once as well.
Join(t) ==
  /\ pc[t] = "join"
  /\ child = "exited"
  /\ joins' = joins + 1
  /\ is_valid' = FALSE
  /\ Unlock(t)
  /\ Goto(t, Caller(t))
  /\ UNCHANGED <<i_wait_count, eventVars, child, closing, locking>>

-----------------------------------------------------------------------------
\* vm_thread_close: wait, then destroy the event and the mutex.
BugCallClose(t) ==
  /\ pc[t] = "idle" /\ "close" \in Uses[t]
  /\ closing' = closing \union {t}
  /\ Goto(t, "close_event")
  /\ UNCHANGED <<objectVars, eventVars, mutexVars, childVars, locking>>

CallClose(t) ==
  /\ pc[t] = "idle" /\ "close" \in Uses[t]
  /\ closing' = closing \union {t}
  /\ Goto(t, "wait")
  /\ UNCHANGED <<objectVars, eventVars, mutexVars, childVars, locking>>

CloseEvent(t) ==
  /\ pc[t] = "close_event"
  /\ Event!DestroyEvent
  /\ Goto(t, "close_mutex")
  /\ UNCHANGED <<objectVars, mutexVars, childVars, closing, locking>>

CloseMutex(t) ==
  /\ pc[t] = "close_mutex"
  /\ Mutex!DestroyMutex
  /\ closing' = closing \ {t}
  /\ Goto(t, "idle")
  /\ UNCHANGED <<objectVars, eventVars, childVars, locking>>

-----------------------------------------------------------------------------
\* vm_thread_proc: the user's function, the signal, the end.
ChildReturns ==
  /\ child = "running"
  /\ child' = "returned"
  /\ UNCHANGED <<objectVars, eventVars, mutexVars, joins, callVars>>

BugChildExits ==
  /\ child = "returned"
  /\ child' = "exited"
  /\ UNCHANGED <<objectVars, eventVars, mutexVars, joins, callVars>>

\* The event's validity test and its body in one step: a destruction that
\* comes in between makes no difference, SignalBody leaves an invalid event be.
ChildExits ==
  /\ child = "returned"
  /\ \/ Event!IsValid /\ Event!SignalBody
     \/ ~Event!IsValid /\ UNCHANGED eventVars
  /\ child' = "exited"
  /\ UNCHANGED <<objectVars, mutexVars, joins, callVars>>

DeadlinePasses(t) ==
  /\ pc[t] = "polling"
  /\ Event!Expire(t)
  /\ UNCHANGED <<objectVars, state, manual, mutexVars, childVars, callVars>>

WakeSpuriously(t) ==
  /\ SpuriousWakeups
  /\ Event!SpuriousWakeup(t)
  /\ UNCHANGED <<objectVars, state, manual, mutexVars, childVars, callVars>>

-----------------------------------------------------------------------------
\* What a thread inside a call does next; LockDone and Join may have to wait.
Step(t) ==
  \/ LockTest(t)
  \/ Spawn(t)
  \/ TestPriority(t)
  \/ SetPriority(t)
  \/ PollTest(t)
  \/ PollBlock(t)
  \/ PollHigh(t)
  \/ PollLow(t)
  \/ WaitTest(t)
  \/ CountIn(t)
  \/ EventTest(t)
  \/ EventBlock(t)
  \/ EventHigh(t)
  \/ CountOut(t)
  \/ Join(t)
  \/ CloseEvent(t)
  \/ CloseMutex(t)

Call(t) ==
  \/ Create(t)
  \/ CallSetPriority(t)
  \/ CallIsValid(t)
  \/ CallWait(t)
  \/ CallClose(t)

Child == ChildReturns \/ ChildExits

Next ==
  \/ Child
  \/ \E t \in Thread :
       \/ Call(t)
       \/ Step(t)
       \/ LockDone(t)
       \/ DeadlinePasses(t)
       \/ WakeSpuriously(t)

Spec == Init /\ [][Next]_vars

\* Running threads run, clocks advance, the child's function returns, and a
\* mutex that keeps becoming free does not pass a waiter over for ever.
Fairness ==
  /\ WF_vars(Child)
  /\ \A t \in Thread : /\ WF_vars(Step(t))
                       /\ WF_vars(DeadlinePasses(t))
                       /\ SF_vars(LockDone(t))

FairSpec == Spec /\ Fairness

-----------------------------------------------------------------------------
\* In a section the access mutex guards, until its unlock.
InSection(t) == pc[t] \in Section \union {"poll_body", "polling"}

\* In vm_thread_wait.
InWait(t) ==
  pc[t] \in {"wait", "wait_lock", "wait_section", "event", "event_body",
             "event_wait", "leave_lock", "leave_section", "join"}

\* As long as vm_thread_close has not destroyed it, the access mutex keeps
\* its sections apart: the count of waiters, the join and the flags are not
\* touched by two threads at once.
AccessExclusive ==
  mutex_valid => \A t, u \in Thread : InSection(t) /\ InSection(u) => t = u

\* The return value is "saved for the calling thread to collect"
\* (vm_thread.h): the child is joined once, not twice.
JoinedOnce == joins <= 1

\* "Close thread after all": the child that was created is collected when
\* vm_thread_close returns.
ClosedMeansCollected ==
  [][\A t \in Thread :
       pc[t] = "close_mutex" /\ pc'[t] = "idle" /\ child # "none"
         => joins > 0]_vars

\* The object is the one of vm_thread.h, AbstractThread: what one thread makes
\* of child and count another sees, also in a wait that vm_thread_is_valid or
\* vm_thread_close has called.  (A second join of a child is no step of it:
\* JoinedOnce.)
Abstract == INSTANCE AbstractThread WITH
  phase   <- IF child = "none" THEN "none"
             ELSE IF joins > 0 THEN "collected"
             ELSE IF child = "running" THEN "running" ELSE "returned",
  waiting <- {t \in Thread : InWait(t)}

ImplementsAbstractThread == Abstract!Spec

\* vm_thread_set_priority uses the handle of a thread that has not been
\* joined: its unlocked test of is_valid is not stale when it uses the handle.
PriorityOfLiveThread ==
  \A t \in Thread : pc[t] = "priority_section" => joins = 0

\* The exit event is not destroyed under a sleeping waiter.
NoSleeperOnDestroyedEvent == state = -1 => asleep = {}

\* Every call returns once the child's function does, whatever other callers
\* do, unless vm_thread_close destroys the access mutex under it: its holder
\* could not unlock it then.
CallsReturnUnlessClosed ==
  \A t \in Thread : (pc[t] # "idle") ~> (pc[t] = "idle" \/ ~mutex_valid)
=============================================================================
