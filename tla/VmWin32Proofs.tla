--------------------------- MODULE VmWin32Proofs ----------------------------
(***************************************************************************)
(* Proofs about the thread of Windows (VmThreadWin32), for any finite      *)
(* number of threads and any number of children, and about its event and   *)
(* semaphore (VmSyncWin32), for any number of threads and handles.         *)
(*                                                                         *)
(* The thread: the count is the number of threads between their two        *)
(* sections (Waiters), so the handle is closed by the last of them or      *)
(* while there are none, and a create or a close that has waited is alone  *)
(* with an object without a handle.                                        *)
(* The event and the semaphore: that each handle names its own object is   *)
(* inductive with the types.                                               *)
(***************************************************************************)
EXTENDS VmThreadWin32, VmSyncWin32, FiniteSetTheorems, TLAPS

\* The thread.
Waiters == {t \in Thread : pc[t] \in {"waiting", "leave"}}

CountIsRight == i_wait_count = Cardinality(Waiters)

Handles ==
  /\ openHandles = IF handle = NULL THEN {} ELSE {handle}
  /\ Waiters # {} => handle # NULL
  /\ \A t \in Thread : pc[t] = "leave" => child[handle] = "exited"
  /\ \A n \in Kid : child[n] = "running" => n = handle

Roles ==
  /\ \A t \in Thread : calling[t] # "user" => t = Creator
  /\ \A t \in Thread : calling[t] = "create" =>
       /\ pc[t] \in {"wait", "waiting", "leave", "start"}
       /\ \A u \in Thread : u # t => ~InWait(u)
       /\ mutex_inited
  /\ \A t \in Thread : calling[t] = "close" =>
       /\ pc[t] \in {"wait", "waiting", "leave", "destroy"}
       /\ \A u \in Thread : u # t => pc[u] = "idle"
  /\ \A t \in Thread : pc[t] = "start" => calling[t] = "create" /\ handle = NULL
  /\ \A t \in Thread : pc[t] = "destroy" => calling[t] = "close" /\ handle = NULL
  /\ ~mutex_inited => handle = NULL

ThreadIInv == Win32TypeOK /\ CountIsRight /\ Handles /\ Roles

-----------------------------------------------------------------------------
\* How the number of counted threads follows pc.
LEMMA CountedFinite == IsFiniteSet(Waiters) /\ Cardinality(Waiters) \in Nat
BY Win32Assumption, FS_Subset, FS_CardinalityType DEF Waiters

LEMMA CountedSame ==
  ASSUME Waiters' = Waiters, CountIsRight, i_wait_count' = i_wait_count
  PROVE  CountIsRight'
BY DEF CountIsRight

LEMMA CountedIn ==
  ASSUME NEW t, t \notin Waiters, Waiters' = Waiters \union {t},
         CountIsRight, i_wait_count' = i_wait_count + 1
  PROVE  CountIsRight'
BY CountedFinite, FS_AddElement DEF CountIsRight

LEMMA CountedOut ==
  ASSUME NEW t, t \in Waiters, Waiters' = Waiters \ {t},
         CountIsRight, i_wait_count' = i_wait_count - 1
  PROVE  CountIsRight' /\ (i_wait_count' = 0 <=> Waiters' = {})
<1>1. IsFiniteSet(Waiters') /\ Cardinality(Waiters') = Cardinality(Waiters) - 1
  BY CountedFinite, FS_RemoveElement
<1>2. Cardinality(Waiters') = 0 <=> Waiters' = {}
  BY <1>1, FS_EmptySet
<1> QED BY <1>1, <1>2 DEF CountIsRight

LEMMA CountedNone ==
  ASSUME CountIsRight PROVE i_wait_count = 0 <=> Waiters = {}
BY CountedFinite, FS_EmptySet DEF CountIsRight

-----------------------------------------------------------------------------
LEMMA ThreadInitially == Win32Init => ThreadIInv
<1> SUFFICES ASSUME Win32Init PROVE ThreadIInv
  OBVIOUS
<1>1. Waiters = {}
  BY DEF Win32Init, Waiters
<1>2. CountIsRight
  BY <1>1, FS_EmptySet DEF Win32Init, CountIsRight
<1> QED
  BY <1>1, <1>2 DEF Win32Init, ThreadIInv, Win32TypeOK, Handles, Roles, Kid, NULL, Place

\* The steps that leave the count and the handle alone.
LEMMA QuietStep ==
  ASSUME ThreadIInv, NEW t \in Thread,
         CallIsValid(t) \/ CallSetPriority(t) \/ SetPriority(t) \/ CallWait(t)
           \/ CallCreate(t) \/ CallClose(t) \/ Destroy(t)
  PROVE  ThreadIInv'
<1> USE DEF ThreadIInv, Win32TypeOK, Handles, Roles, Waiters, InWait, Creating, Closing,
            Goto, objectVars, Place
<1>0. Waiters' = Waiters /\ i_wait_count' = i_wait_count
  BY Win32Assumption DEF CallIsValid, CallSetPriority, SetPriority, CallWait,
     CallCreate, CallClose, Destroy
<1>1. CountIsRight'
  BY <1>0, CountedSame
<1>2. CASE CallIsValid(t) \/ CallSetPriority(t) \/ SetPriority(t)
  BY <1>1, <1>2, Win32Assumption DEF CallIsValid, CallSetPriority, SetPriority
<1>3. CASE CallWait(t)
  BY <1>1, <1>3, Win32Assumption DEF CallWait
<1>4. CASE CallCreate(t)
  BY <1>1, <1>4, Win32Assumption DEF CallCreate
<1>5. CASE CallClose(t)
  BY <1>1, <1>5, Win32Assumption DEF CallClose
<1>6. CASE Destroy(t)
  <2>1. t = Creator /\ calling[t] = "close" /\ handle = NULL
    BY <1>6 DEF Destroy
  <2>2. Win32TypeOK' /\ Handles'
    BY <1>0, <1>6, <2>1 DEF Destroy
  <2>3. Roles'
    BY <1>6, <2>1 DEF Destroy
  <2> QED BY <1>1, <2>2, <2>3
<1> QED
  BY <1>2, <1>3, <1>4, <1>5, <1>6

\* A child is collected by vm_thread_is_valid only while nobody is counted.
LEMMA PollStep ==
  ASSUME ThreadIInv, NEW t \in Thread, Poll(t)
  PROVE  ThreadIInv'
<1> USE DEF ThreadIInv, Win32TypeOK, Poll, Goto
<1>1. Waiters' = Waiters /\ CountIsRight'
  BY CountedSame DEF Waiters
<1>2. Collectable => Waiters = {}
  BY CountedNone DEF Collectable
<1>3. Win32TypeOK'
  BY DEF CloseIt, Place
<1>4. Handles'
  <2>1. CASE Collectable
    BY <2>1, <1>1, <1>2 DEF Handles, Collectable, CloseIt, Waiters, NULL, Kid
  <2>2. CASE ~Collectable
    BY <2>2, <1>1 DEF Handles, Waiters
  <2> QED BY <2>1, <2>2
<1>5. Roles'
  BY DEF Roles, InWait, CloseIt
<1> QED
  BY <1>1, <1>3, <1>4, <1>5

LEMMA CountInStep ==
  ASSUME ThreadIInv, NEW t \in Thread, CountIn(t)
  PROVE  ThreadIInv'
<1> USE DEF ThreadIInv, Win32TypeOK, CountIn, Goto
<1>1. CASE handle # NULL
  <2>1. t \notin Waiters /\ Waiters' = Waiters \union {t}
    BY <1>1 DEF Waiters, NULL
  <2>2. CountIsRight'
    BY <1>1, <2>1, CountedIn
  <2>3. Win32TypeOK' /\ Handles'
    BY <1>1, <2>1 DEF Handles, Place, Waiters
  <2>4. Roles'
    BY <1>1 DEF Roles, InWait
  <2> QED BY <2>2, <2>3, <2>4
<1>2. CASE handle = NULL
  <2>1. Waiters' = Waiters
    BY <1>2 DEF Waiters, Return
  <2>2. CountIsRight'
    BY <1>2, <2>1, CountedSame
  <2>3. Win32TypeOK' /\ Handles'
    BY <1>2, <2>1 DEF Handles, Place, Waiters, Return
  <2>4. Roles'
    BY <1>2, Win32Assumption DEF Roles, InWait, Return
  <2> QED BY <2>2, <2>3, <2>4
<1> QED BY <1>1, <1>2

LEMMA WaitChildStep ==
  ASSUME ThreadIInv, NEW t \in Thread, WaitChild(t)
  PROVE  ThreadIInv'
<1> USE DEF ThreadIInv, Win32TypeOK, WaitChild, Goto, objectVars
<1>1. Waiters' = Waiters /\ CountIsRight'
  BY CountedSame DEF Waiters
<1>2. handle \in openHandles
  BY DEF Handles, Waiters
<1>3. Win32TypeOK' /\ Handles'
  BY <1>1, <1>2 DEF Handles, Place, Waiters
<1>4. Roles'
  BY DEF Roles, InWait
<1> QED BY <1>1, <1>3, <1>4

LEMMA CountOutStep ==
  ASSUME ThreadIInv, NEW t \in Thread, CountOut(t)
  PROVE  ThreadIInv'
<1> USE DEF ThreadIInv, Win32TypeOK, CountOut, Goto
<1>1. t \in Waiters /\ Waiters' = Waiters \ {t}
  BY DEF Waiters, Return
<1>2. CountIsRight' /\ (i_wait_count' = 0 <=> Waiters' = {})
  BY <1>1, CountedOut
<1>3. Win32TypeOK'
  <2>1. i_wait_count' \in Nat
    BY <1>2, Win32Assumption, FS_Subset, FS_CardinalityType DEF CountIsRight, Waiters
  <2> QED BY <2>1 DEF CloseIt, Place, Return
<1>4. Handles'
  <2>1. handle # NULL /\ child[handle] = "exited"
    BY <1>1 DEF Handles, Waiters
  <2>2. CASE i_wait_count' = 0
    BY <1>2, <2>1, <2>2 DEF Handles, CloseIt, NULL, Waiters
  <2>3. CASE i_wait_count' # 0
    BY <1>1, <2>1, <2>3 DEF Handles, Waiters
  <2> QED BY <2>2, <2>3
<1>5. calling[t] # "user" => handle' = NULL
  <2>1. calling[t] # "user" => Waiters' = {}
    BY <1>1 DEF Roles, Waiters, InWait
  <2> QED BY <1>2, <2>1 DEF CloseIt
<1>6. handle' = handle \/ handle' = NULL
  BY DEF CloseIt
<1>7. Roles'
  BY <1>5, <1>6, Win32Assumption DEF Roles, InWait, Return
<1> QED BY <1>2, <1>3, <1>4, <1>7

\* vm_thread_create is alone with an object whose handle is NULL.
LEMMA StartStep ==
  ASSUME ThreadIInv, NEW t \in Thread, Start(t)
  PROVE  ThreadIInv'
<1> USE DEF ThreadIInv, Win32TypeOK, Start, Goto
<1>1. handle = NULL /\ openHandles = {} /\ calling[t] = "create" /\ mutex_inited
  BY DEF Roles, Handles
<1>2. Waiters' = Waiters /\ CountIsRight'
  BY CountedSame DEF Waiters
<1>3. Waiters = {}
  BY <1>1 DEF Handles
<1>4. Win32TypeOK'
  BY DEF Place
<1>5. Handles'
  <2>1. \A n \in Kid : child[n] # "running" /\ n # NULL
    BY <1>1 DEF Handles, NULL, Kid
  <2>2. CASE handle' = NULL /\ UNCHANGED <<openHandles, child>>
    BY <1>1, <1>2, <1>3, <2>1, <2>2 DEF Handles, Waiters
  <2>3. ASSUME NEW n \in Kid, handle' = n, openHandles' = openHandles \union {n},
               child' = [child EXCEPT ![n] = "running"]
        PROVE  Handles'
    <3>1. Waiters' = {} /\ \A u \in Thread : pc'[u] # "leave"
      BY <1>2, <1>3 DEF Waiters
    <3>2. \A m \in Kid : child'[m] = "running" => m = n
      BY <2>1, <2>3
    <3> QED
      BY <1>1, <2>1, <2>3, <3>1, <3>2 DEF Handles
  <2> QED BY <2>2, <2>3
<1>6. Roles'
  BY <1>1, Win32Assumption DEF Roles, InWait
<1> QED BY <1>2, <1>4, <1>5, <1>6

LEMMA ChildExitsStep ==
  ASSUME ThreadIInv, NEW n \in Kid, ChildExits(n)
  PROVE  ThreadIInv'
<1> USE DEF ThreadIInv, Win32TypeOK, ChildExits, objectVars
<1>1. Waiters' = Waiters /\ CountIsRight'
  BY CountedSame DEF Waiters
<1>2. Win32TypeOK'
  OBVIOUS
<1>3. Handles'
  BY <1>1 DEF Handles, Waiters, NULL
<1>4. Roles'
  BY DEF Roles, InWait
<1> QED BY <1>1, <1>2, <1>3, <1>4

-----------------------------------------------------------------------------
\* ThreadIInv is an invariant of the code for any number of threads and children.
THEOREM ThreadInductive == Win32Spec => []ThreadIInv
<1>1. Win32Init => ThreadIInv
  BY ThreadInitially
<1>2. ThreadIInv /\ [Win32Next]_win32Vars => ThreadIInv'
  <2> SUFFICES ASSUME ThreadIInv, [Win32Next]_win32Vars PROVE ThreadIInv'
    OBVIOUS
  <2>1. CASE UNCHANGED win32Vars
    <3>1. Waiters' = Waiters /\ CountIsRight'
      BY <2>1, CountedSame DEF ThreadIInv, Waiters, win32Vars, objectVars
    <3> QED
      BY <2>1, <3>1 DEF ThreadIInv, Win32TypeOK, Handles, Roles, InWait, Waiters,
                        win32Vars, objectVars
  <2>2. CASE \E n \in Kid : ChildExits(n)
    BY <2>2, ChildExitsStep
  <2>3. ASSUME NEW t \in Thread, Call(t) PROVE ThreadIInv'
    BY <2>3, QuietStep DEF Call
  <2>4. ASSUME NEW t \in Thread, Step(t) PROVE ThreadIInv'
    BY <2>4, QuietStep, PollStep, CountInStep, WaitChildStep, CountOutStep,
       StartStep DEF Step
  <2> QED BY <2>1, <2>2, <2>3, <2>4 DEF Win32Next
<1> QED BY <1>1, <1>2, PTL DEF Win32Spec

\* Types, for any number of threads and children.
THEOREM ThreadTypeCorrect == Win32Spec => []Win32TypeOK
<1>1. ThreadIInv => Win32TypeOK
  BY DEF ThreadIInv
<1> QED BY <1>1, ThreadInductive, PTL

\* No thread is in WaitForSingleObject on a handle another one has closed.
THEOREM WaitsAreSafe == Win32Spec => []WaitsOnOpenHandle
<1>1. ThreadIInv => WaitsOnOpenHandle
  BY DEF ThreadIInv, Win32TypeOK, Handles, Waiters, WaitsOnOpenHandle
<1> QED BY <1>1, ThreadInductive, PTL

\* Every handle is closed once, and the object is empty when it is closed.
THEOREM ClosedOnce == Win32Spec => []HandleClosedOnce
<1>1. ThreadIInv => HandleClosedOnce
  <2> SUFFICES ASSUME ThreadIInv PROVE HandleClosedOnce
    OBVIOUS
  <2>1. ~mutex_inited => handle = NULL /\ Waiters = {}
    BY DEF ThreadIInv, Roles, Handles
  <2> QED BY <2>1, CountedNone DEF ThreadIInv, Handles, HandleClosedOnce
<1> QED BY <1>1, ThreadInductive, PTL

\* No handle is closed before its child has returned.
THEOREM CollectedAfterExit == Win32Spec => []ClosedAfterExit
<1>1. ThreadIInv => ClosedAfterExit
  BY DEF ThreadIInv, Handles, ClosedAfterExit, NULL, Kid
<1> QED BY <1>1, ThreadInductive, PTL

\* The handle is closed in time and once, for any number of threads.
THEOREM HandleIsHeld == Win32Spec => []HandleHeld
BY WaitsAreSafe, ClosedOnce, CollectedAfterExit, PTL DEF HandleHeld

-----------------------------------------------------------------------------
\* The refinement.  What the mapping makes of the state, under names.
Running == \E n \in Kid : child[n] = "running"
Phase ==
  IF Running THEN "running"
  ELSE IF openHandles # {} THEN "returned"
  ELSE IF \E n \in Kid : child[n] = "exited" THEN "collected" ELSE "none"
Waiting == {t \in Thread : InWait(t)}

LEMMA Mapped ==
  /\ Abstract!Init <=> Phase = "none" /\ Waiting = {}
  /\ Abstract!Start <=>
       Phase \in {"none", "collected"} /\ Phase' = "running" /\ Waiting' = Waiting
  /\ Abstract!Finish <=>
       Phase = "running" /\ Phase' = "returned" /\ Waiting' = Waiting
  /\ Abstract!Collect <=>
       /\ Phase = "returned" /\ Phase' = "collected"
       /\ Waiting' = Waiting \/ \E t \in Waiting : Waiting' = Waiting \ {t}
  /\ \A t \in Thread :
       /\ Abstract!Wait(t) <=>
            t \notin Waiting /\ Waiting' = Waiting \union {t} /\ Phase' = Phase
       /\ Abstract!Return(t) <=>
            /\ t \in Waiting /\ Phase # "running"
            /\ Waiting' = Waiting \ {t} /\ Phase' = Phase
  /\ UNCHANGED Abstract!vars <=> Phase' = Phase /\ Waiting' = Waiting
BY DEF Abstract!Init, Abstract!Start, Abstract!Finish, Abstract!Collect, Abstract!Wait,
   Abstract!Return, Abstract!vars, Phase, Running, Waiting

\* Where a child is.
LEMMA Phases ==
  ASSUME ThreadIInv
  PROVE  /\ handle = NULL => Phase \in {"none", "collected"} /\ openHandles = {}
         /\ handle # NULL => handle \in Kid /\ openHandles = {handle}
         /\ \A n \in Kid : child[n] = "running" => n = handle
         /\ Waiters # {} => handle # NULL
<1> USE DEF ThreadIInv, Win32TypeOK, Handles
<1>1. \A n \in Kid : n # NULL
  BY DEF Kid, NULL
<1>2. handle = NULL => ~Running
  BY <1>1 DEF Running
<1> QED BY <1>2 DEF Phase

\* A step that changes neither the children nor the handles.
LEMMA PhaseSame ==
  ASSUME child' = child, openHandles' = openHandles
  PROVE  Phase' = Phase
BY DEF Phase, Running

LEMMA PlaceChanged ==
  ASSUME Win32TypeOK, NEW t \in Thread, NEW place, Goto(t, place)
  PROVE  Waiting' = IF place \in {"wait", "waiting", "leave"} THEN Waiting \union {t}
                    ELSE Waiting \ {t}
BY DEF Win32TypeOK, Goto, Waiting, InWait

LEMMA AbstractStep ==
  ASSUME ThreadIInv, Win32Next
  PROVE  Abstract!Next \/ UNCHANGED Abstract!vars
<1> USE DEF ThreadIInv
<1>1. ASSUME NEW n \in Kid, ChildExits(n) PROVE Abstract!Finish
  <2>1. n = handle /\ openHandles' = {n} /\ Running
    BY <1>1, Phases DEF ChildExits, objectVars, Running, NULL, Kid
  <2>2. ~Running'
    BY <1>1, <2>1, Phases DEF Running, ChildExits, Win32TypeOK
  <2>3. Waiting' = Waiting
    BY <1>1 DEF ChildExits, Waiting, InWait
  <2> QED BY <2>1, <2>2, <2>3, Mapped DEF Phase
<1>2. ASSUME NEW t \in Thread,
             CallIsValid(t) \/ CallSetPriority(t) \/ SetPriority(t) \/ Destroy(t)
      PROVE  UNCHANGED Abstract!vars
  <2>1. t \notin Waiting /\ Phase' = Phase
    BY <1>2, PhaseSame DEF CallIsValid, CallSetPriority, SetPriority, Destroy,
       objectVars, Waiting, InWait
  <2>2. Goto(t, "poll") \/ Goto(t, "priority") \/ Goto(t, "idle")
    BY <1>2 DEF CallIsValid, CallSetPriority, SetPriority, Destroy
  <2>3. Waiting' = Waiting \ {t}
    BY <2>2, PlaceChanged
  <2> QED BY <2>1, <2>3, Mapped
<1>3. ASSUME NEW t \in Thread, CallWait(t) \/ CallCreate(t) \/ CallClose(t)
      PROVE  Abstract!Wait(t) \/ UNCHANGED Abstract!vars
  <2>1. t \notin Waiting /\ Phase' = Phase
    BY <1>3, PhaseSame DEF CallWait, CallCreate, CallClose, objectVars, Waiting, InWait
  <2>2. Goto(t, "wait") \/ Goto(t, "start")
    BY <1>3 DEF CallWait, CallCreate, CallClose
  <2>3. Waiting' = Waiting \union {t} \/ Waiting' = Waiting \ {t}
    BY <2>2, PlaceChanged
  <2> QED BY <2>1, <2>3, Mapped
<1>4. ASSUME NEW t \in Thread, Poll(t) PROVE Abstract!Collect \/ UNCHANGED Abstract!vars
  <2>1. Waiting' = Waiting
    <3>1. t \notin Waiting /\ Waiting' = Waiting \ {t}
      BY <1>4, PlaceChanged DEF Poll, Waiting, InWait
    <3> QED BY <3>1
  <2>2. CASE Collectable
    <3>1. ~Running /\ ~Running' /\ openHandles = {handle} /\ openHandles' = {}
      BY <1>4, <2>2, Phases DEF Poll, Collectable, CloseIt, Running
    <3>2. Phase' = "collected"
      BY <1>4, <2>2, <3>1, Phases DEF Phase, Poll, Collectable
    <3> QED BY <2>1, <3>1, <3>2, Mapped DEF Phase
  <2>3. CASE ~Collectable
    BY <1>4, <2>1, <2>3, PhaseSame, Mapped DEF Poll
  <2> QED BY <2>2, <2>3
<1>5. ASSUME NEW t \in Thread, CountIn(t)
      PROVE  Abstract!Return(t) \/ UNCHANGED Abstract!vars
  <2>1. t \in Waiting /\ Phase' = Phase
    BY <1>5, PhaseSame DEF CountIn, Waiting, InWait
  <2>2. CASE handle # NULL
    <3>1. Waiting' = Waiting \union {t}
      BY <1>5, <2>2, PlaceChanged DEF CountIn
    <3> QED BY <2>1, <3>1, Mapped
  <2>3. CASE handle = NULL
    <3>1. Goto(t, Return(t)) /\ Return(t) \in {"idle", "start", "destroy"}
      BY <1>5, <2>3 DEF CountIn, Return, Win32TypeOK
    <3>2. Waiting' = Waiting \ {t} /\ Phase # "running"
      BY <2>3, <3>1, PlaceChanged, Phases
    <3> QED BY <2>1, <3>2, Mapped
  <2> QED BY <2>2, <2>3
<1>6. ASSUME NEW t \in Thread, WaitChild(t) PROVE UNCHANGED Abstract!vars
  <2>1. t \in Waiting /\ Phase' = Phase
    BY <1>6, PhaseSame DEF WaitChild, objectVars, Waiting, InWait
  <2>2. Waiting' = Waiting \union {t}
    BY <1>6, PlaceChanged DEF WaitChild
  <2> QED BY <2>1, <2>2, Mapped
<1>7. ASSUME NEW t \in Thread, CountOut(t)
      PROVE  Abstract!Collect \/ Abstract!Return(t)
  <2>1. t \in Waiting /\ t \in Waiters /\ child[handle] = "exited" /\ handle # NULL
    BY <1>7 DEF CountOut, Waiting, InWait, Waiters, Handles
  <2>2. ~Running /\ openHandles = {handle} /\ handle \in Kid
    BY <2>1, Phases DEF Running
  <2>3. Goto(t, Return(t)) /\ Return(t) \in {"idle", "start", "destroy"}
    BY <1>7 DEF CountOut, Return, Win32TypeOK
  <2>4. Waiting' = Waiting \ {t}
    BY <2>3, PlaceChanged
  <2>5. CASE i_wait_count' = 0
    <3>1. openHandles' = {} /\ child' = child
      BY <1>7, <2>2, <2>5 DEF CountOut, CloseIt
    <3>2. Phase = "returned" /\ Phase' = "collected"
      BY <2>1, <2>2, <3>1 DEF Phase, Running
    <3> QED BY <2>1, <2>4, <3>2, Mapped
  <2>6. CASE i_wait_count' # 0
    <3>1. Phase' = Phase /\ Phase = "returned"
      BY <1>7, <2>2, <2>6, PhaseSame DEF CountOut, Phase
    <3> QED BY <2>1, <2>4, <3>1, Mapped
  <2> QED BY <2>5, <2>6
<1>8. ASSUME NEW t \in Thread, Start(t) PROVE Abstract!Start \/ UNCHANGED Abstract!vars
  <2>1. handle = NULL /\ Phase \in {"none", "collected"}
    BY <1>8, Phases DEF Start, Roles
  <2>2. Waiting' = Waiting
    <3>1. t \notin Waiting /\ Waiting' = Waiting \ {t}
      BY <1>8, PlaceChanged DEF Start, Waiting, InWait
    <3> QED BY <3>1
  <2>3. CASE UNCHANGED <<openHandles, child>>
    BY <2>2, <2>3, PhaseSame, Mapped
  <2>4. ASSUME NEW n \in Kid, child' = [child EXCEPT ![n] = "running"]
        PROVE  Abstract!Start
    <3>1. Phase' = "running"
      BY <2>4 DEF Phase, Running, Win32TypeOK
    <3> QED BY <2>1, <2>2, <3>1, Mapped
  <2> QED BY <1>8, <2>3, <2>4 DEF Start
<1> QED
  BY <1>1, <1>2, <1>3, <1>4, <1>5, <1>6, <1>7, <1>8 DEF Win32Next, Call, Step, Abstract!Next

\* The Win32 object is a thread as vm_thread.h describes it, for any number of
\* threads that share it.
THEOREM IsAThread == Win32Spec => ImplementsAbstractThread
<1>1. Win32Init => Abstract!Init
  <2> SUFFICES ASSUME Win32Init PROVE Abstract!Init
    OBVIOUS
  <2>1. Phase = "none" /\ Waiting = {}
    BY DEF Win32Init, Phase, Running, Waiting, InWait
  <2> QED BY <2>1, Mapped
<1>2. ThreadIInv /\ [Win32Next]_win32Vars => [Abstract!Next]_(Abstract!vars)
  <2>1. ASSUME UNCHANGED win32Vars PROVE UNCHANGED Abstract!vars
    <3>1. Phase' = Phase /\ Waiting' = Waiting
      BY <2>1, PhaseSame DEF win32Vars, objectVars, Waiting, InWait
    <3> QED BY <3>1, Mapped
  <2> QED BY <2>1, AbstractStep
<1> QED
  BY <1>1, <1>2, ThreadInductive, PTL DEF Win32Spec, ImplementsAbstractThread, Abstract!Spec

-----------------------------------------------------------------------------
\* The event and the semaphore.
SyncIInv == SyncTypeOK /\ HandlesNameOwnObject

-----------------------------------------------------------------------------
LEMMA LetGoTyped ==
  ASSUME SyncTypeOK, NEW S, NEW place \in WaitPlaces, LetGo(S, place)
  PROVE  waitAt' \in [Caller -> WaitPlaces]
BY DEF SyncTypeOK, LetGo

\* CloseHandle(old), then a new object of the given kind behind h.
LEMMA ObjectsRenewed ==
  ASSUME SyncTypeOK, NEW kind \in {"event", "semaphore"}, NEW old \in Handle \union {0},
         NEW h \in Grantable(AfterClose(old)),
         objects' = Made(AfterClose(old), h, kind)
  PROVE  /\ objects' \in [Handle -> {"closed", "event", "semaphore"}]
         /\ h \in Handle \union {0}
         /\ \A g \in Handle : objects'[g] = IF g = h THEN kind
                                ELSE IF g = old THEN "closed" ELSE objects[g]
         /\ h # 0 => h = old \/ objects[h] = "closed"
BY SyncAssumption DEF SyncTypeOK, Made, AfterClose, Grantable

\* The objects that are closed by nobody stay what they are.
LEMMA ObjectsClosed ==
  ASSUME SyncTypeOK, NEW old, objects' = AfterClose(old)
  PROVE  /\ objects' \in [Handle -> {"closed", "event", "semaphore"}]
         /\ \A g \in Handle : objects'[g] = IF g = old THEN "closed" ELSE objects[g]
BY DEF SyncTypeOK, AfterClose

-----------------------------------------------------------------------------
LEMMA LifecycleStep ==
  ASSUME SyncIInv,
         \/ \E h \in Handle \union {0} :
              \/ \E m, s \in BOOLEAN : EventInit(m, s, h)
              \/ \E n \in -1 .. MostUnits : SemaphoreInit(n, h)
         \/ EventDestroy \/ SemaphoreDestroy
  PROVE  SyncIInv'
<1> USE DEF SyncIInv
<1>1. ASSUME NEW h \in Handle \union {0}, NEW m \in BOOLEAN, NEW s \in BOOLEAN, EventInit(m, s, h)
      PROVE  SyncIInv'
  <2>1. /\ objects' \in [Handle -> {"closed", "event", "semaphore"}]
        /\ \A g \in Handle : objects'[g] = IF g = h THEN "event"
                               ELSE IF g = evHandle THEN "closed" ELSE objects[g]
        /\ h # 0 => h = evHandle \/ objects[h] = "closed"
    BY <1>1, ObjectsRenewed DEF EventInit, SyncTypeOK
  <2>2. SyncTypeOK'
    BY <1>1, <2>1 DEF EventInit, SyncTypeOK
  <2>3. evHandle' = h /\ semHandle' = semHandle
    BY <1>1 DEF EventInit
  <2>4. HandlesNameOwnObject'
    BY <2>1, <2>3, SyncAssumption DEF HandlesNameOwnObject, SyncTypeOK
  <2> QED BY <2>2, <2>4
<1>2. ASSUME NEW h \in Handle \union {0}, NEW n \in -1 .. MostUnits, SemaphoreInit(n, h)
      PROVE  SyncIInv'
  <2>1. /\ objects' \in [Handle -> {"closed", "event", "semaphore"}]
        /\ \A g \in Handle : objects'[g] = IF g = h THEN "semaphore" ELSE objects[g]
        /\ h # 0 => objects[h] = "closed"
    BY <1>2, SyncAssumption DEF SemaphoreInit, SyncTypeOK, Made, Grantable
  <2>2. units' \in 0 .. MostUnits
    BY <1>2, SyncAssumption DEF SemaphoreInit
  <2>3. SyncTypeOK'
    BY <1>2, <2>1, <2>2 DEF SemaphoreInit, SyncTypeOK
  <2>4. evHandle' = evHandle /\ semHandle' = h /\ semHandle = 0
    BY <1>2 DEF SemaphoreInit
  <2>5. HandlesNameOwnObject'
    BY <2>1, <2>4, SyncAssumption DEF HandlesNameOwnObject, SyncTypeOK
  <2> QED BY <2>3, <2>5
<1>3. CASE EventDestroy
  <2>1. SyncTypeOK'
    BY <1>3, ObjectsClosed DEF EventDestroy, SyncTypeOK
  <2>2. HandlesNameOwnObject'
    BY <1>3, ObjectsClosed, SyncAssumption DEF EventDestroy, HandlesNameOwnObject
  <2> QED BY <2>1, <2>2
<1>4. CASE SemaphoreDestroy
  <2>1. SyncTypeOK'
    BY <1>4, ObjectsClosed, SyncAssumption DEF SemaphoreDestroy, SyncTypeOK
  <2>2. HandlesNameOwnObject'
    BY <1>4, ObjectsClosed, SyncAssumption DEF SemaphoreDestroy, HandlesNameOwnObject
  <2> QED BY <2>1, <2>2
<1> QED BY <1>1, <1>2, <1>3, <1>4

\* The calls on an object change neither handles nor objects.
LEMMA EventCallStep ==
  ASSUME SyncIInv,
         \/ EventReset
         \/ \E S \in SUBSET Caller : EventSignal(S) \/ EventPulse(S)
         \/ \E c \in Caller : EventWait(c) \/ EventTimeout(c)
  PROVE  SyncIInv'
<1> USE DEF SyncIInv
<1>1. UNCHANGED <<evHandle, semHandle, objects, evManual, units>>
  BY DEF EventReset, EventSignal, EventPulse, EventWait, EventTimeout
<1>2. evUp' \in BOOLEAN
  BY DEF EventReset, EventSignal, EventPulse, EventWait, EventTimeout, SyncTypeOK
<1>3. waitAt' \in [Caller -> WaitPlaces]
  BY LetGoTyped DEF EventReset, EventSignal, EventPulse, EventWait, EventTimeout,
                    SyncTypeOK, WaitPlaces
<1> QED BY <1>1, <1>2, <1>3 DEF SyncTypeOK, HandlesNameOwnObject

LEMMA SemaphoreCallStep ==
  ASSUME SyncIInv,
         \/ \E S \in SUBSET Caller : SemaphorePost(S)
         \/ \E c \in Caller : SemaphoreWait(c) \/ SemaphoreTimeout(c) \/ WaitReturns(c)
  PROVE  SyncIInv'
<1> USE DEF SyncIInv
<1>1. UNCHANGED <<evHandle, semHandle, objects, evManual, evUp>>
  BY DEF SemaphorePost, SemaphoreWait, SemaphoreTimeout, WaitReturns
<1>2. units' \in 0 .. MostUnits
  <2>1. units \in 0 .. MostUnits /\ MostUnits \in Nat
    BY SyncAssumption DEF SyncTypeOK
  <2>2. \/ units' = units
        \/ units > 0 /\ units' = units - 1
        \/ units < MostUnits /\ units' = units + 1
    BY DEF SemaphorePost, SemaphoreWait, SemaphoreTimeout, WaitReturns
  <2> QED BY <2>1, <2>2
<1>3. waitAt' \in [Caller -> WaitPlaces]
  BY LetGoTyped DEF SemaphorePost, SemaphoreWait, SemaphoreTimeout, WaitReturns,
                    SyncTypeOK, WaitPlaces
<1> QED BY <1>1, <1>2, <1>3 DEF SyncTypeOK, HandlesNameOwnObject

\* SyncIInv is an invariant of the code for any number of threads and handles.
THEOREM SyncInductive == SyncSpec => []SyncIInv
<1>1. SyncInit => SyncIInv
  <2> SUFFICES ASSUME SyncInit PROVE SyncIInv
    OBVIOUS
  <2>1. SyncTypeOK
    <3>1. objects \in [Handle -> {"closed", "event", "semaphore"}]
      BY DEF SyncInit
    <3>2. waitAt \in [Caller -> WaitPlaces]
      BY DEF SyncInit, WaitPlaces
    <3>3. units \in 0 .. MostUnits
      BY SyncAssumption DEF SyncInit
    <3> QED BY <3>1, <3>2, <3>3 DEF SyncInit, SyncTypeOK
  <2>2. HandlesNameOwnObject
    BY SyncAssumption DEF SyncInit, HandlesNameOwnObject
  <2> QED BY <2>1, <2>2 DEF SyncIInv
<1>2. SyncIInv /\ [SyncNext]_syncVars => SyncIInv'
  <2> SUFFICES ASSUME SyncIInv, [SyncNext]_syncVars PROVE SyncIInv'
    OBVIOUS
  <2>1. CASE UNCHANGED syncVars
    BY <2>1 DEF SyncIInv, SyncTypeOK, HandlesNameOwnObject, syncVars
  <2>2. CASE SyncNext
    BY <2>2, LifecycleStep, EventCallStep, SemaphoreCallStep DEF SyncNext
  <2> QED BY <2>1, <2>2
<1> QED BY <1>1, <1>2, PTL DEF SyncSpec

\* Types, for any number of threads and handles.
THEOREM SyncTypeCorrect == SyncSpec => []SyncTypeOK
<1>1. SyncIInv => SyncTypeOK
  BY DEF SyncIInv
<1> QED BY <1>1, SyncInductive, PTL

\* An event or semaphore never names an object that is closed or another's.
THEOREM OwnObjects == SyncSpec => []HandlesNameOwnObject
<1>1. SyncIInv => HandlesNameOwnObject
  BY DEF SyncIInv
<1> QED BY <1>1, SyncInductive, PTL

=============================================================================
