--------------------------- MODULE VmThreadWin32 ---------------------------
(***************************************************************************)
(* The thread object of vm_thread_win32.c: a kernel handle, the count of   *)
(* the callers that wait on it, and the access mutex.  Unlike the Linux    *)
(* object of VmThread it has no exit event, every caller waits on the      *)
(* child's own handle, and whether there is one is tested under the mutex. *)
(*                                                                         *)
(* A section that holds the mutex never blocks, so it is one step; other   *)
(* threads get in between at the locks, at the unlocked test of            *)
(* vm_thread_set_priority and at WaitForSingleObject.  Callers create      *)
(* while nobody waits or closes, and close "after all" (vm_thread.h).      *)
(* Operators named Bug... are mistakes a maintainer could make; nothing    *)
(* uses them but the sensitivity runs the README describes.                *)
(***************************************************************************)
EXTENDS Integers, FiniteSets

CONSTANTS
  Thread,        \* the threads that use the object, without the children
  Creator,       \* the one that creates and closes
  MaxChildren    \* bounds the children it starts

ASSUME Win32Assumption == IsFiniteSet(Thread) /\ Creator \in Thread /\ MaxChildren \in Nat

NULL == 0
Kid == 1 .. MaxChildren

VARIABLES
  handle,         \* vm_thread.handle: the number of a child, or NULL
  i_wait_count,   \* vm_thread.i_wait_count
  mutex_inited,   \* vm_thread.access_mut.iInited
  openHandles,    \* the handles open in the kernel
  child,          \* child[n]: "none", "running" or "exited"
  pc,             \* pc[t]: where t is, "idle" outside
  calling         \* calling[t]: the function that called vm_thread_wait

objectVars == <<handle, i_wait_count, mutex_inited, openHandles>>
win32Vars == <<objectVars, child, pc, calling>>

Place == {"idle", "poll", "priority", "wait", "waiting", "leave", "start", "destroy"}

Win32TypeOK ==
  /\ handle \in Kid \union {NULL}
  /\ i_wait_count \in Nat
  /\ mutex_inited \in BOOLEAN
  /\ openHandles \subseteq Kid
  /\ child \in [Kid -> {"none", "running", "exited"}]
  /\ pc \in [Thread -> Place]
  /\ calling \in [Thread -> {"user", "create", "close"}]

\* An object starts its life with vm_thread_set_invalid.
Win32Init ==
  /\ handle = NULL /\ i_wait_count = 0 /\ mutex_inited = FALSE
  /\ openHandles = {}
  /\ child = [n \in Kid |-> "none"]
  /\ pc = [t \in Thread |-> "idle"]
  /\ calling = [t \in Thread |-> "user"]

-----------------------------------------------------------------------------
Goto(t, place) == pc' = [pc EXCEPT ![t] = place]

InWait(t)  == pc[t] \in {"wait", "waiting", "leave"}
Creating   == calling[Creator] = "create"
Closing    == calling[Creator] = "close"

\* CloseHandle(thread->handle), thread->handle = NULL.
CloseIt == handle' = NULL /\ openHandles' = openHandles \ {handle}

-----------------------------------------------------------------------------
\* vm_thread_is_valid: a child that has exited and that nobody waits for is
\* collected here.
CallIsValid(t) ==
  /\ pc[t] = "idle" /\ ~Closing
  /\ Goto(t, "poll")
  /\ UNCHANGED <<objectVars, child, calling>>

BugCollectableWaited == handle # NULL /\ child[handle] = "exited"

BugCollectableRunning == handle # NULL /\ i_wait_count = 0

Collectable == handle # NULL /\ child[handle] = "exited" /\ i_wait_count = 0

Poll(t) ==
  /\ pc[t] = "poll"
  /\ \/ Collectable /\ CloseIt
     \/ ~Collectable /\ UNCHANGED <<handle, openHandles>>
  /\ Goto(t, "idle")
  /\ UNCHANGED <<i_wait_count, mutex_inited, child, calling>>

\* vm_thread_set_priority: unlocked test, then SetThreadPriority, which fails
\* on a handle that was closed in between and is NULL.
CallSetPriority(t) ==
  /\ pc[t] = "idle" /\ ~Closing
  /\ handle # NULL
  /\ Goto(t, "priority")
  /\ UNCHANGED <<objectVars, child, calling>>

SetPriority(t) ==
  /\ pc[t] = "priority"
  /\ Goto(t, "idle")
  /\ UNCHANGED <<objectVars, child, calling>>

-----------------------------------------------------------------------------
\* vm_thread_wait.
CallWait(t) ==
  /\ pc[t] = "idle" /\ ~Creating /\ ~Closing
  /\ Goto(t, "wait")
  /\ UNCHANGED <<objectVars, child, calling>>

\* Where the wait of t returns to.
Return(t) ==
  CASE calling[t] = "user"   -> "idle"
    [] calling[t] = "create" -> "start"
    [] calling[t] = "close"  -> "destroy"

\* The first section: with a handle t counts itself in, without it returns.
CountIn(t) ==
  /\ pc[t] = "wait"
  /\ \/ handle # NULL /\ i_wait_count' = i_wait_count + 1 /\ Goto(t, "waiting")
     \/ handle = NULL /\ Goto(t, Return(t)) /\ UNCHANGED i_wait_count
  /\ UNCHANGED <<handle, mutex_inited, openHandles, child, calling>>

\* WaitForSingleObject(thread->handle, INFINITE): returns once the child has
\* exited, and at once, with WAIT_FAILED, if the handle is not open.
WaitChild(t) ==
  /\ pc[t] = "waiting"
  /\ handle \in openHandles => child[handle] = "exited"
  /\ Goto(t, "leave")
  /\ UNCHANGED <<objectVars, child, calling>>

\* The second section: the last one out closes the handle.
CountOut(t) ==
  /\ pc[t] = "leave"
  /\ i_wait_count' = i_wait_count - 1
  /\ \/ i_wait_count' = 0 /\ CloseIt
     \/ i_wait_count' # 0 /\ UNCHANGED <<handle, openHandles>>
  /\ Goto(t, Return(t))
  /\ UNCHANGED <<mutex_inited, child, calling>>

-----------------------------------------------------------------------------
\* vm_thread_create: a mutex, a wait for the child there may be, the new one.
\* Its test of vm_mutex_init never fails: vm_mutex_win32.c returns VM_OK for
\* every mutex that is not NULL.
CallCreate(t) ==
  /\ t = Creator /\ pc[t] = "idle"
  /\ \A u \in Thread : ~InWait(u)
  /\ \E n \in Kid : child[n] = "none"
  /\ mutex_inited' = TRUE
  /\ calling' = [calling EXCEPT ![t] = "create"]
  /\ Goto(t, IF handle # NULL THEN "wait" ELSE "start")
  /\ UNCHANGED <<handle, i_wait_count, openHandles, child>>

\* _beginthreadex under the mutex; NULL when it fails.
Start(t) ==
  /\ pc[t] = "start"
  /\ \/ \E n \in Kid :
          /\ child[n] = "none" /\ \A m \in 1 .. n - 1 : child[m] # "none"
          /\ handle' = n
          /\ openHandles' = openHandles \union {n}
          /\ child' = [child EXCEPT ![n] = "running"]
     \/ handle' = NULL /\ UNCHANGED <<openHandles, child>>
  /\ calling' = [calling EXCEPT ![t] = "user"]
  /\ Goto(t, "idle")
  /\ UNCHANGED <<i_wait_count, mutex_inited>>

\* vm_thread_close: a wait, then the mutex is destroyed.
CallClose(t) ==
  /\ t = Creator
  /\ \A u \in Thread : pc[u] = "idle"
  /\ calling' = [calling EXCEPT ![t] = "close"]
  /\ Goto(t, "wait")
  /\ UNCHANGED <<objectVars, child>>

Destroy(t) ==
  /\ pc[t] = "destroy"
  /\ mutex_inited' = FALSE
  /\ calling' = [calling EXCEPT ![t] = "user"]
  /\ Goto(t, "idle")
  /\ UNCHANGED <<handle, i_wait_count, openHandles, child>>

ChildExits(n) ==
  /\ child[n] = "running"
  /\ child' = [child EXCEPT ![n] = "exited"]
  /\ UNCHANGED <<objectVars, pc, calling>>

-----------------------------------------------------------------------------
Call(t) == CallIsValid(t) \/ CallSetPriority(t) \/ CallWait(t) \/ CallCreate(t) \/ CallClose(t)

Step(t) ==
  \/ Poll(t)
  \/ SetPriority(t)
  \/ CountIn(t)
  \/ WaitChild(t)
  \/ CountOut(t)
  \/ Start(t)
  \/ Destroy(t)

Win32Next ==
  \/ \E n \in Kid : ChildExits(n)
  \/ \E t \in Thread : Call(t) \/ Step(t)

Win32Spec == Win32Init /\ [][Win32Next]_win32Vars

-----------------------------------------------------------------------------
\* WaitForSingleObject reads thread->handle without the mutex: the count has
\* kept it open since the waiter's first section, whatever other waiters and
\* vm_thread_is_valid do meanwhile, so no wait ends before its child.
WaitsOnOpenHandle ==
  /\ \A t \in Thread : pc[t] = "waiting" => handle \in openHandles
  /\ \A t \in Thread : pc[t] = "leave" => handle \in openHandles /\ child[handle] = "exited"

\* Every child's handle is closed exactly once: the only handle open is the
\* object's, and an object that is closed has left none behind.
HandleClosedOnce ==
  /\ openHandles = IF handle = NULL THEN {} ELSE {handle}
  /\ ~mutex_inited => openHandles = {} /\ i_wait_count = 0

\* "To avoid memory leak, always vm_thread_wait()": a handle is closed only
\* after its child has returned.
ClosedAfterExit == \A n \in Kid : child[n] = "running" => n \in openHandles

\* All three: whoever comes last closes the child's handle, once, not before
\* the child has returned and not while another thread waits on it.
HandleHeld == WaitsOnOpenHandle /\ HandleClosedOnce /\ ClosedAfterExit

\* The object is that of vm_thread.h, as the Linux one is: AbstractThread.  A
\* thread is collected when its handle is closed.
Abstract == INSTANCE AbstractThread WITH
  phase   <- IF \E n \in Kid : child[n] = "running" THEN "running"
             ELSE IF openHandles # {} THEN "returned"
             ELSE IF \E n \in Kid : child[n] = "exited" THEN "collected" ELSE "none",
  waiting <- {t \in Thread : InWait(t)}

ImplementsAbstractThread == Abstract!Spec
=============================================================================
