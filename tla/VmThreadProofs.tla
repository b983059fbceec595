--------------------------- MODULE VmThreadProofs ---------------------------
(***************************************************************************)
(* Proofs about VmThread for any finite number of threads.                 *)
(*                                                                         *)
(* For any use they make of the object, spurious wakeups included: while   *)
(* the access mutex is valid, the thread in a section is its owner         *)
(* (Guarded); and i_wait_count is the number of threads between their two  *)
(* sections (CountIsRight), also when the mutex was destroyed under them.  *)
(*                                                                         *)
(* For an object that only its creator closes, without spurious wakeups    *)
(* (OwnUse): object, event and child tell the same story (Story), and a    *)
(* thread past the event has seen the child end (Witnesses).               *)
(*                                                                         *)
(* For one caller, spurious wakeups included: what it tested stays so, and *)
(* it is the last waiter of its own wait (Sole).                           *)
(***************************************************************************)
EXTENDS VmThread, FiniteSetTheorems, TLAPS

Guarded ==
  mutex_valid => handle = "ready" /\ \A t \in Thread : InSection(t) <=> owner = t

Counted == {t \in Thread :
  pc[t] \in {"event", "event_body", "event_wait", "leave_lock", "leave_section"}}

CountIsRight == i_wait_count = Cardinality(Counted)

IInv == TypeOK /\ Event!CondDisjoint /\ Guarded /\ CountIsRight

-----------------------------------------------------------------------------
\* A thread moves, and nobody else.
LEMMA Moved ==
  ASSUME TypeOK, NEW t \in Thread, NEW place, Goto(t, place)
  PROVE  /\ pc'[t] = place
         /\ \A u \in Thread : u # t => pc'[u] = pc[u]
BY DEF TypeOK, Goto

\* The count follows the places of the threads.
LEMMA CountedFinite == IsFiniteSet(Counted) /\ Cardinality(Counted) \in Nat
BY UseAssumption, FS_Subset, FS_CardinalityType DEF Counted

LEMMA CountSame ==
  ASSUME CountIsRight, i_wait_count' = i_wait_count, Counted' = Counted
  PROVE  CountIsRight'
BY DEF CountIsRight

LEMMA CountUp ==
  ASSUME CountIsRight, i_wait_count' = i_wait_count + 1,
         NEW t, t \notin Counted, Counted' = Counted \union {t}
  PROVE  CountIsRight' /\ i_wait_count' \in Nat
BY CountedFinite, FS_AddElement DEF CountIsRight

LEMMA CountDown ==
  ASSUME CountIsRight, i_wait_count' = i_wait_count - 1,
         NEW t, t \in Counted, Counted' = Counted \ {t}
  PROVE  CountIsRight' /\ i_wait_count' \in Nat
<1>1. IsFiniteSet(Counted') /\ Cardinality(Counted') = Cardinality(Counted) - 1
  BY CountedFinite, FS_RemoveElement
<1> QED BY <1>1, FS_CardinalityType DEF CountIsRight

\* A thread that stays in or out of the counted places leaves the count alone.
LEMMA CountKept ==
  ASSUME TypeOK, CountIsRight, i_wait_count' = i_wait_count,
         NEW t \in Thread, NEW place, Goto(t, place),
         t \in Counted <=>
           place \in {"event", "event_body", "event_wait", "leave_lock", "leave_section"}
  PROVE  CountIsRight'
BY Moved, CountSame DEF Counted

-----------------------------------------------------------------------------
\* A thread that stays in or out of a section, the mutex untouched.
LEMMA GuardKept ==
  ASSUME TypeOK, Guarded, UNCHANGED mutexVars,
         NEW t \in Thread, NEW place, Goto(t, place),
         InSection(t) <=> place \in Section \union {"poll_body", "polling"}
  PROVE  Guarded'
BY Moved DEF Guarded, InSection, mutexVars

\* A thread leaves its section with the unlock.
LEMMA GuardLeft ==
  ASSUME TypeOK, Guarded, NEW t \in Thread, InSection(t), Unlock(t),
         NEW place, Goto(t, place), place \notin Section \union {"poll_body", "polling"}
  PROVE  Guarded' /\ Mutex!MutexTypeOK'
<1>1. CASE mutex_valid
  <2>1. handle = "ready" /\ owner = t
    BY <1>1 DEF Guarded
  <2>2. mutex_valid' /\ handle' = "ready" /\ owner' = NoOwner
    BY <1>1, <2>1 DEF Unlock, Mutex!UnlockOK, Mutex!UnlockFails, Mutex!PInvalid
  <2>3. \A u \in Thread : ~InSection(u)'
    BY <1>1, <2>1, Moved DEF Guarded, InSection
  <2> QED
    BY <2>2, <2>3, UseAssumption DEF Guarded, TypeOK, Mutex!MutexTypeOK
<1>2. CASE ~mutex_valid
  BY <1>2 DEF Unlock, Guarded, mutexVars, TypeOK, Mutex!MutexTypeOK
<1> QED BY <1>1, <1>2

-----------------------------------------------------------------------------
LEMMA LockTestStep ==
  ASSUME IInv, NEW t \in Thread, LockTest(t)
  PROVE  IInv'
<1> USE DEF IInv
<1>1. CASE mutex_valid
  BY <1>1 DEF LockTest, TypeOK, Guarded, CountIsRight, Counted, InSection, objectVars,
     eventVars, mutexVars, childVars, Event!EventTypeOK, Event!CondTypeOK,
     Event!CondDisjoint, Event!Blocked, Mutex!MutexTypeOK
<1>2. CASE ~mutex_valid
  <2>1. Goto(t, AfterLock(pc[t])) /\ locking' = locking
    BY <1>2 DEF LockTest
  <2>2. AfterLock(pc[t]) \in Section
        /\ (t \in Counted <=> AfterLock(pc[t]) = "leave_section")
    BY DEF LockTest, LockPoint, AfterLock, Section, Counted
  <2>3. TypeOK' /\ Event!CondDisjoint'
    BY <2>1, <2>2 DEF LockTest, TypeOK, Goto, objectVars, eventVars, mutexVars, childVars,
       LockPoint, Event!EventTypeOK, Event!CondTypeOK, Event!CondDisjoint,
       Event!Blocked, Mutex!MutexTypeOK
  <2>4. Guarded'
    BY <1>2 DEF LockTest, Guarded, mutexVars
  <2>5. CountIsRight'
    BY <2>1, <2>2, CountKept DEF LockTest, objectVars, Section
  <2> QED BY <2>3, <2>4, <2>5
<1> QED BY <1>1, <1>2

\* pthread_mutex_lock ends with the mutex, as long as it is valid.
LEMMA LockDoneStep ==
  ASSUME IInv, NEW t \in Thread, LockDone(t)
  PROVE  IInv'
<1> USE DEF IInv, LockDone
<1>1. pc[t] \in LockPoint /\ AfterLock(pc[t]) \in Section
      /\ (t \in Counted <=> AfterLock(pc[t]) = "leave_section")
  BY DEF TypeOK, LockPoint, AfterLock, Section, Counted
<1>2. TypeOK' /\ Event!CondDisjoint'
  BY <1>1 DEF TypeOK, Goto, objectVars, eventVars, childVars, LockPoint,
     Event!EventTypeOK, Event!CondTypeOK, Event!CondDisjoint, Event!Blocked,
     Mutex!MutexTypeOK, Mutex!LockOK, Mutex!LockFails, Mutex!PAcquire, Mutex!PInvalid
<1>3. Guarded'
  <2>1. mutex_valid' = mutex_valid
    BY DEF Mutex!LockOK, Mutex!LockFails
  <2>2. ASSUME mutex_valid PROVE handle' = "ready" /\ owner = NoOwner /\ owner' = t
    <3>1. ~InSection(t)
      BY <1>1 DEF InSection, LockPoint, Section
    <3> QED
      BY <2>2, <3>1 DEF Guarded, Mutex!LockOK, Mutex!LockFails, Mutex!PAcquire, Mutex!PInvalid
  <2> QED
    BY <1>1, <2>1, <2>2, Moved, UseAssumption DEF Guarded, InSection
<1>4. CountIsRight'
  BY <1>1, CountKept DEF objectVars, Section
<1> QED BY <1>2, <1>3, <1>4

\* vm_thread_create is alone.
LEMMA CreateStep ==
  ASSUME IInv, NEW t \in Thread, Create(t)
  PROVE  IInv'
<1> USE DEF IInv, Create
<1>1. PICK granted \in BOOLEAN :
        Mutex!InitMutex(granted) /\ Goto(t, IF granted THEN "create_lock" ELSE "priority")
  OBVIOUS
<1>2. TypeOK' /\ Event!CondDisjoint'
  BY <1>1, UseAssumption DEF TypeOK, Goto, objectVars, childVars, LockPoint, Elsewhere,
     Event!InitEvent, Event!CondRenew, Event!EventTypeOK, Event!CondTypeOK,
     Event!CondDisjoint, Event!Blocked, Mutex!MutexTypeOK, Mutex!InitMutex, Mutex!PDestroy
<1>3. Guarded'
  <2>1. \A u \in Thread : ~InSection(u)'
    BY <1>1, Moved DEF InSection, Section
  <2> QED
    BY <1>1, <2>1, UseAssumption DEF Guarded, Mutex!InitMutex
<1>4. CountIsRight'
  BY <1>1, CountKept DEF objectVars, Counted
<1> QED BY <1>2, <1>3, <1>4

-----------------------------------------------------------------------------
\* The steps that only move a thread, or also note who closes.
LEMMA MoveStep ==
  ASSUME IInv, NEW t \in Thread,
         CallSetPriority(t) \/ TestPriority(t) \/ CallIsValid(t) \/ CallWait(t)
           \/ WaitTest(t) \/ EventTest(t) \/ CallClose(t)
  PROVE  IInv'
<1> USE DEF IInv
<1>1. UNCHANGED <<objectVars, eventVars, mutexVars, childVars, locking>>
      /\ closing' \subseteq closing \union {t}
  BY DEF CallSetPriority, TestPriority, CallIsValid, CallWait, WaitTest, EventTest, CallClose
<1>2. PICK place \in LockPoint \union Elsewhere :
        /\ Goto(t, place)
        /\ place \notin {"poll_body", "polling", "event_wait"}
        /\ t \in Counted <=> place \in {"event_body", "leave_lock"}
        /\ t \in Counted => place \notin {"event", "event_wait"}
        /\ t \notin Counted => place \notin {"event", "event_wait"}
        /\ pc[t] \in Elsewhere \ {"poll_body", "polling", "event_wait"}
  <2> DEFINE Fits(place) ==
        /\ Goto(t, place)
        /\ place \notin {"poll_body", "polling", "event_wait"}
        /\ t \in Counted <=> place \in {"event_body", "leave_lock"}
        /\ t \in Counted => place \notin {"event", "event_wait"}
        /\ t \notin Counted => place \notin {"event", "event_wait"}
        /\ pc[t] \in Elsewhere \ {"poll_body", "polling", "event_wait"}
  <2> SUFFICES \E place \in LockPoint \union Elsewhere : Fits(place)
    OBVIOUS
  <2>1. CASE CallSetPriority(t)
    <3>1. Fits("priority")
      BY <2>1 DEF CallSetPriority, Counted, Elsewhere
    <3> QED BY <3>1 DEF Elsewhere
  <2>2. CASE TestPriority(t)
    <3>1. Fits("priority_lock") \/ Fits("idle")
      BY <2>2 DEF TestPriority, Counted, Elsewhere
    <3> QED BY <3>1 DEF Elsewhere, LockPoint
  <2>3. CASE CallIsValid(t)
    <3>1. Fits("poll_lock")
      BY <2>3 DEF CallIsValid, Counted, Elsewhere
    <3> QED BY <3>1 DEF LockPoint
  <2>4. CASE CallWait(t) \/ CallClose(t)
    <3>1. Fits("wait")
      BY <2>4 DEF CallWait, CallClose, Counted, Elsewhere
    <3> QED BY <3>1 DEF Elsewhere
  <2>5. CASE WaitTest(t)
    <3>1. Fits("wait_lock") \/ Fits("close_event") \/ Fits("idle")
      BY <2>5 DEF WaitTest, Caller, Counted, Elsewhere
    <3> QED BY <3>1 DEF Elsewhere, LockPoint
  <2>6. CASE EventTest(t)
    <3>1. Fits("event_body") \/ Fits("leave_lock")
      BY <2>6 DEF EventTest, Counted, Elsewhere
    <3> QED BY <3>1 DEF Elsewhere, LockPoint
  <2> QED BY <2>1, <2>2, <2>3, <2>4, <2>5, <2>6
<1>3. TypeOK' /\ Event!CondDisjoint'
  BY <1>1, <1>2 DEF TypeOK, Goto, objectVars, eventVars, mutexVars, childVars,
     LockPoint, Elsewhere, Event!EventTypeOK, Event!CondTypeOK, Event!CondDisjoint,
     Event!Blocked, Mutex!MutexTypeOK
<1>4. InSection(t) <=> place \in Section \union {"poll_body", "polling"}
  BY <1>2 DEF InSection, Section, Elsewhere, LockPoint
<1>5. Guarded'
  BY <1>1, <1>2, <1>4, GuardKept
<1>6. CountIsRight'
  BY <1>1, <1>2, CountKept DEF objectVars, LockPoint, Elsewhere
<1> QED BY <1>3, <1>5, <1>6

\* The steps that end a section with its unlock.
LEMMA LeaveStep ==
  ASSUME IInv, NEW t \in Thread,
         Spawn(t) \/ SetPriority(t) \/ (PollTest(t) /\ ~Event!IsValid) \/ PollHigh(t)
           \/ PollLow(t) \/ Join(t)
  PROVE  IInv'
<1> USE DEF IInv
<1>1. PICK place \in {"priority", "idle", "wait", "close_event"} : Goto(t, place)
  BY DEF Spawn, SetPriority, PollTest, PollHigh, PollLow, Join, Caller
<1>2. InSection(t) /\ t \notin Counted /\ Unlock(t)
  BY DEF Spawn, SetPriority, PollTest, PollHigh, PollLow, Join, InSection, Section,
     Counted, Event!WaitThrough, Event!WaitWoken
<1>3. Guarded' /\ Mutex!MutexTypeOK'
  BY <1>1, <1>2, GuardLeft DEF Section
<1>4. i_wait_count' = i_wait_count /\ closing' = closing /\ locking' = locking
  BY DEF Spawn, SetPriority, PollTest, PollHigh, PollLow, Join, objectVars
<1>5. CountIsRight'
  BY <1>1, <1>2, <1>4, CountKept
<1>6. is_valid' \in BOOLEAN /\ child' \in {"none", "running", "returned", "exited"}
      /\ joins' \in Nat
  <2>1. CASE Spawn(t)
    <3>1. PICK ok \in BOOLEAN :
            /\ is_valid' = ok
            /\ child' = IF ok THEN "running" ELSE child
            /\ joins' = IF ok THEN 0 ELSE joins
      BY <2>1 DEF Spawn
    <3>2. is_valid' \in BOOLEAN
      BY <3>1, Zenon
    <3>3. child' \in {"running", child} /\ joins' \in {0, joins}
      BY <3>1, Zenon
    <3>4. child \in {"none", "running", "returned", "exited"} /\ joins \in Nat
      BY DEF TypeOK
    <3> QED BY <3>2, <3>3, <3>4
  <2>2. CASE Join(t)
    <3>1. is_valid' = FALSE /\ child' = child /\ joins' = joins + 1
      BY <2>2 DEF Join
    <3>2. child \in {"none", "running", "returned", "exited"} /\ joins \in Nat
      BY DEF TypeOK
    <3>3. is_valid' \in BOOLEAN
      BY <3>1, Zenon
    <3>4. joins' \in Nat
      BY <3>1, <3>2
    <3> QED BY <3>1, <3>2, <3>3, <3>4, Zenon
  <2>3. CASE UNCHANGED <<objectVars, childVars>>
    BY <2>3 DEF objectVars, childVars, TypeOK
  <2> QED
    BY <2>1, <2>2, <2>3 DEF SetPriority, PollTest, PollHigh, PollLow
<1>7. /\ Event!EventTypeOK' /\ Event!CondDisjoint'
      /\ Event!Blocked' \subseteq Event!Blocked \ {t}
  <2>1. CASE UNCHANGED eventVars /\ pc[t] \notin {"polling", "event_wait"}
    BY <2>1 DEF eventVars, TypeOK, Event!EventTypeOK, Event!CondTypeOK,
       Event!CondDisjoint, Event!Blocked
  <2>2. CASE pc[t] = "poll_body" /\ Event!WaitThrough
    BY <2>2 DEF TypeOK, Event!WaitThrough, Event!Consume, Event!condVars,
       Event!EventTypeOK, Event!CondTypeOK, Event!CondDisjoint, Event!Blocked
  <2>3. CASE Event!WaitWoken(t) \/ Event!WaitExpired(t)
    BY <2>3 DEF TypeOK, Event!WaitWoken, Event!WaitExpired, Event!Consume,
       Event!ReturnWoken, Event!ReturnExpired,
       Event!EventTypeOK, Event!CondTypeOK, Event!CondDisjoint, Event!Blocked
  <2> QED
    BY <2>1, <2>2, <2>3 DEF Spawn, SetPriority, PollTest, PollHigh, PollLow, Join
<1>8. TypeOK'
  <2>1. pc[t] \notin LockPoint
    BY <1>2 DEF InSection, Section, LockPoint
  <2>2. i_wait_count' \in Nat /\ closing' \subseteq Thread /\ locking' \subseteq Thread
        /\ pc' \in [Thread -> LockPoint \union Section \union Elsewhere]
    BY <1>1, <1>4 DEF TypeOK, Goto, Elsewhere
  <2>3. /\ \A u \in locking' : pc'[u] \in LockPoint
        /\ \A u \in Event!Blocked' : pc'[u] \in {"polling", "event_wait"}
    BY <1>1, <1>4, <1>7, <2>1, Moved DEF TypeOK, Event!EventTypeOK, Event!CondTypeOK,
       Event!Blocked
  <2> QED BY <1>3, <1>6, <1>7, <2>2, <2>3 DEF TypeOK
<1> QED BY <1>3, <1>5, <1>7, <1>8

\* The steps inside the poll and inside the wait for the event.
LEMMA EventStep ==
  ASSUME IInv, NEW t \in Thread,
         (PollTest(t) /\ Event!IsValid) \/ PollBlock(t) \/ EventBlock(t) \/ EventHigh(t)
  PROVE  IInv'
<1> USE DEF IInv
<1>1. UNCHANGED <<objectVars, mutexVars, childVars, closing, locking>>
  BY DEF PollTest, PollBlock, EventBlock, EventHigh
<1>2. PICK place \in {"poll_body", "polling", "event_wait", "leave_lock"} :
        /\ Goto(t, place)
        /\ pc[t] \notin LockPoint
        /\ InSection(t) <=> place \in {"poll_body", "polling"}
        /\ t \in Counted <=> place \in {"event_wait", "leave_lock"}
  <2> DEFINE Fits(place) ==
        /\ Goto(t, place)
        /\ pc[t] \notin LockPoint
        /\ InSection(t) <=> place \in {"poll_body", "polling"}
        /\ t \in Counted <=> place \in {"event_wait", "leave_lock"}
  <2>1. CASE PollTest(t) /\ Event!IsValid
    <3>1. Fits("poll_body")
      BY <2>1 DEF PollTest, InSection, Section, Counted, LockPoint
    <3> QED BY <3>1
  <2>2. CASE PollBlock(t)
    <3>1. Fits("polling")
      BY <2>2 DEF PollBlock, InSection, Section, Counted, LockPoint
    <3> QED BY <3>1
  <2>3. CASE EventBlock(t)
    <3>1. Fits("event_wait")
      BY <2>3 DEF EventBlock, InSection, Section, Counted, LockPoint
    <3> QED BY <3>1
  <2>4. CASE EventHigh(t)
    <3>1. Fits("leave_lock")
      BY <2>4 DEF EventHigh, InSection, Section, Counted, LockPoint
    <3> QED BY <3>1
  <2> QED BY <2>1, <2>2, <2>3, <2>4
<1>3. Guarded'
  BY <1>1, <1>2, GuardKept DEF Section
<1>4. CountIsRight'
  BY <1>1, <1>2, CountKept DEF objectVars
<1>5. /\ Event!EventTypeOK' /\ Event!CondDisjoint'
      /\ \A u \in Event!Blocked' : pc'[u] \in {"polling", "event_wait"}
  <2>1. CASE PollTest(t) /\ Event!IsValid
    BY <2>1, Moved DEF PollTest, eventVars, TypeOK, Event!EventTypeOK, Event!CondTypeOK,
       Event!CondDisjoint, Event!Blocked
  <2>2. CASE PollBlock(t) \/ EventBlock(t)
    BY <2>2, Moved DEF PollBlock, EventBlock, TypeOK, Event!WaitBlock, Event!Sleep,
       Event!EventTypeOK, Event!CondTypeOK, Event!CondDisjoint, Event!Blocked
  <2>3. CASE EventHigh(t)
    BY <2>3, Moved DEF EventHigh, TypeOK, Event!WaitThrough, Event!WaitWoken,
       Event!Consume, Event!condVars, Event!ReturnWoken, Event!EventTypeOK,
       Event!CondTypeOK, Event!CondDisjoint, Event!Blocked
  <2> QED BY <2>1, <2>2, <2>3
<1>6. TypeOK'
  BY <1>1, <1>2, <1>5 DEF TypeOK, Goto, objectVars, mutexVars, childVars,
     LockPoint, Elsewhere, Mutex!MutexTypeOK
<1> QED BY <1>3, <1>4, <1>5, <1>6

\* The two sections that count.
LEMMA CountStep ==
  ASSUME IInv, NEW t \in Thread, CountIn(t) \/ CountOut(t)
  PROVE  IInv'
<1> USE DEF IInv
<1>1. /\ UNCHANGED <<is_valid, eventVars, childVars, closing, locking>>
      /\ InSection(t) /\ pc[t] \notin LockPoint \union {"polling", "event_wait"}
  BY DEF CountIn, CountOut, InSection, Section, LockPoint
<1>2. PICK place \in {"event", "join", "idle", "close_event"} :
        /\ Goto(t, place)
        /\ IF place = "join" THEN UNCHANGED mutexVars ELSE Unlock(t)
        /\ IF place = "event" THEN CountIn(t) ELSE CountOut(t)
  BY DEF CountIn, CountOut, Caller
<1>3. Guarded' /\ Mutex!MutexTypeOK'
  <2>1. CASE place = "join"
    BY <1>1, <1>2, <2>1, GuardKept DEF Section, mutexVars, TypeOK, Mutex!MutexTypeOK
  <2>2. CASE place # "join"
    BY <1>1, <1>2, <2>2, GuardLeft DEF Section
  <2> QED BY <2>1, <2>2
<1>4. CountIsRight' /\ i_wait_count' \in Nat
  <2>1. CASE place = "event"
    <3>1. t \notin Counted /\ Counted' = Counted \union {t}
      BY <1>2, <2>1, Moved DEF CountIn, Counted
    <3> QED BY <1>2, <2>1, <3>1, CountUp DEF CountIn
  <2>2. CASE place # "event"
    <3>1. t \in Counted /\ Counted' = Counted \ {t}
      BY <1>2, <2>2, Moved DEF CountOut, Counted
    <3> QED BY <1>2, <2>2, <3>1, CountDown DEF CountOut
  <2> QED BY <2>1, <2>2
<1>5. TypeOK' /\ Event!CondDisjoint'
  BY <1>1, <1>2, <1>3, <1>4 DEF TypeOK, Goto, eventVars, childVars, LockPoint,
     Section, Elsewhere, Event!EventTypeOK, Event!CondTypeOK, Event!CondDisjoint,
     Event!Blocked
<1> QED BY <1>3, <1>4, <1>5

LEMMA CloseStep ==
  ASSUME IInv, NEW t \in Thread, CloseEvent(t) \/ CloseMutex(t)
  PROVE  IInv'
<1> USE DEF IInv
<1>1. CASE CloseEvent(t)
  <2>1. TypeOK' /\ Event!CondDisjoint'
    BY <1>1 DEF CloseEvent, TypeOK, Goto, objectVars, mutexVars, childVars, LockPoint,
       Elsewhere, Event!DestroyEvent, Event!condVars, Event!EventTypeOK,
       Event!CondTypeOK, Event!CondDisjoint, Event!Blocked, Mutex!MutexTypeOK
  <2>2. Guarded'
    BY <1>1, GuardKept DEF CloseEvent, InSection, Section
  <2>3. CountIsRight'
    BY <1>1, CountKept DEF CloseEvent, Counted, objectVars
  <2> QED BY <2>1, <2>2, <2>3
<1>2. CASE CloseMutex(t)
  <2>1. TypeOK' /\ Event!CondDisjoint'
    BY <1>2 DEF CloseMutex, TypeOK, Goto, objectVars, eventVars, mutexVars, childVars,
       LockPoint, Elsewhere, Event!EventTypeOK, Event!CondTypeOK, Event!CondDisjoint,
       Event!Blocked, Mutex!MutexTypeOK, Mutex!DestroyMutex, Mutex!PDestroy, Mutex!mutexVars
  <2>2. ~mutex_valid'
    BY <1>2 DEF CloseMutex, Mutex!DestroyMutex, Mutex!mutexVars
  <2>3. CountIsRight'
    BY <1>2, CountKept DEF CloseMutex, Counted, objectVars
  <2> QED BY <2>1, <2>2, <2>3 DEF Guarded
<1> QED BY <1>1, <1>2

\* What happens to the threads without a step of theirs: the child's end, a
\* deadline, a spurious wakeup.
LEMMA OutsideStep ==
  ASSUME IInv,
         Child \/ \E t \in Thread : DeadlinePasses(t) \/ WakeSpuriously(t)
  PROVE  IInv'
<1> USE DEF IInv
<1>1. UNCHANGED <<objectVars, mutexVars, callVars>>
  BY DEF Child, ChildReturns, ChildExits, DeadlinePasses, WakeSpuriously
<1>2. Guarded' /\ CountIsRight'
  <2>1. Counted' = Counted
    BY <1>1 DEF Counted, callVars
  <2> QED
    BY <1>1, <2>1, CountSame DEF Guarded, InSection, mutexVars, callVars, objectVars
<1>3. /\ child' \in {"none", "running", "returned", "exited"} /\ joins' = joins
  BY DEF Child, ChildReturns, ChildExits, DeadlinePasses, WakeSpuriously, childVars, TypeOK
<1>4. /\ Event!EventTypeOK' /\ Event!CondDisjoint' /\ Event!Blocked' = Event!Blocked
  <2>1. CASE UNCHANGED eventVars
    BY <2>1 DEF eventVars, TypeOK, Event!EventTypeOK, Event!CondTypeOK,
       Event!CondDisjoint, Event!Blocked
  <2>2. CASE Event!SignalBody
    BY <2>2 DEF TypeOK, Event!SignalBody, Event!Notify, Event!CondSignal,
       Event!CondBroadcast, Event!condVars, Event!eventVars, Event!EventTypeOK,
       Event!CondTypeOK, Event!CondDisjoint, Event!Blocked
  <2>3. ASSUME NEW t \in Thread, DeadlinePasses(t) \/ WakeSpuriously(t)
        PROVE  /\ Event!EventTypeOK' /\ Event!CondDisjoint'
               /\ Event!Blocked' = Event!Blocked
    BY <2>3 DEF DeadlinePasses, WakeSpuriously, Event!Expire, Event!SpuriousWakeup,
       TypeOK, Event!EventTypeOK, Event!CondTypeOK, Event!CondDisjoint, Event!Blocked
  <2> QED BY <2>1, <2>2, <2>3 DEF Child, ChildReturns, ChildExits
<1>5. TypeOK'
  BY <1>1, <1>3, <1>4 DEF TypeOK, objectVars, mutexVars, callVars, Mutex!MutexTypeOK
<1> QED BY <1>2, <1>4, <1>5

-----------------------------------------------------------------------------
LEMMA InvInit == Init => IInv
<1> SUFFICES ASSUME Init PROVE IInv
  OBVIOUS
<1>1. Counted = {} /\ CountIsRight
  BY FS_EmptySet DEF Init, Counted, CountIsRight
<1>2. Event!EventTypeOK /\ Event!CondDisjoint /\ Event!Blocked = {}
      /\ Mutex!MutexTypeOK
  <2>1. state \in -1..1 /\ asleep = {} /\ woken = {} /\ expired = {}
    BY DEF Init, Event!CondInit
  <2>2. manual \in BOOLEAN /\ mutex_valid \in BOOLEAN
    BY Zenon DEF Init
  <2>3. handle \in {"none", "ready", "destroyed"} /\ owner \in Thread \union {NoOwner}
    BY DEF Init
  <2>4. Event!CondTypeOK /\ Event!CondDisjoint /\ Event!Blocked = {}
    BY <2>1 DEF Event!CondTypeOK, Event!CondDisjoint, Event!Blocked
  <2> QED BY <2>1, <2>2, <2>3, <2>4, Zenon DEF Event!EventTypeOK, Mutex!MutexTypeOK
<1>3. pc \in [Thread -> LockPoint \union Section \union Elsewhere]
  <2>1. "idle" \in LockPoint \union Section \union Elsewhere
    BY DEF Elsewhere
  <2> QED BY <2>1 DEF Init
<1>4. is_valid \in BOOLEAN /\ i_wait_count \in Nat /\ joins \in Nat /\ child = "none"
      /\ closing = {} /\ locking = {}
  BY DEF Init
<1>5. TypeOK
  <2>1. (\A t \in locking : pc[t] \in LockPoint)
        /\ \A t \in Event!Blocked : pc[t] \in {"polling", "event_wait"}
    BY <1>2, <1>4
  <2>2. closing \subseteq Thread /\ locking \subseteq Thread
    BY <1>4
  <2>3. child \in {"none", "running", "returned", "exited"}
    BY <1>4
  <2> QED BY <1>2, <1>3, <1>4, <2>1, <2>2, <2>3, Zenon DEF TypeOK
<1> QED BY <1>1, <1>2, <1>5 DEF IInv, Guarded, Init

LEMMA InvKept ==
  ASSUME IInv, [Next]_vars
  PROVE  IInv'
<1>1. CASE UNCHANGED vars
  BY <1>1 DEF IInv, vars, objectVars, eventVars, mutexVars, childVars, callVars, TypeOK,
     Guarded, InSection, CountIsRight, Counted, Event!EventTypeOK, Event!CondTypeOK,
     Event!CondDisjoint, Event!Blocked, Mutex!MutexTypeOK
<1>2. CASE Child \/ \E t \in Thread : DeadlinePasses(t) \/ WakeSpuriously(t)
  BY <1>2, OutsideStep
<1>3. ASSUME NEW t \in Thread, Call(t) PROVE IInv'
  BY <1>3, CreateStep, MoveStep DEF Call
<1>4. ASSUME NEW t \in Thread, Step(t) PROVE IInv'
  BY <1>4, LockTestStep, MoveStep, LeaveStep, EventStep, CountStep, CloseStep DEF Step
<1>5. ASSUME NEW t \in Thread, LockDone(t) PROVE IInv'
  BY <1>5, LockDoneStep
<1> QED BY <1>1, <1>2, <1>3, <1>4, <1>5 DEF Next

\* IInv is an invariant of the code for any callers.
THEOREM Inductive == Spec => []IInv
<1>1. IInv /\ [Next]_vars => IInv'
  BY InvKept
<1> QED BY <1>1, InvInit, PTL DEF Spec

\* Types, for any callers.
THEOREM TypeCorrect == Spec => []TypeOK
<1>1. IInv => TypeOK
  BY DEF IInv
<1> QED BY <1>1, Inductive, PTL

\* Two threads are never in sections of a valid access mutex.
THEOREM SectionsApart == Spec => []AccessExclusive
<1>1. IInv => AccessExclusive
  BY DEF IInv, Guarded, AccessExclusive
<1> QED BY <1>1, Inductive, PTL

-----------------------------------------------------------------------------
\* What VmThread promises to callers that own their object as vm_thread.h
\* has it: whoever creates it closes it "after all", and no wakeup is spurious
\* (a waiter woken for nothing does not wait for the child, unless it is the
\* last one).
OwnUse ==
  /\ ~SpuriousWakeups
  /\ \A t, u \in Thread : "create" \in Uses[t] /\ "close" \in Uses[u] => t = u

\* Behind an unlocked test that found the object valid.
Inside == {"poll_lock", "poll_section", "poll_body", "polling", "wait_lock",
           "wait_section", "event", "event_body", "event_wait", "leave_lock",
           "leave_section", "join"}

\* Behind the wait for the event.
Past == {"leave_lock", "leave_section", "join", "close_event", "close_mutex"}

Creating == {"create_lock", "create_section"}

Done == child \in {"none", "exited"}

\* The object, the event and the child tell the same story.
Story ==
  /\ is_valid => child # "none" /\ joins = 0
  /\ ~is_valid => child = "none" \/ joins > 0
  /\ joins > 0 => child = "exited"
  /\ state = 1 => child = "exited"
  /\ state = -1 => Done
  /\ is_valid /\ child = "exited" => state # 0

\* The threads are where the story lets them be.
Witnesses ==
  /\ \A t \in Thread : pc[t] \in Past => Done
  /\ \A t \in Thread : pc[t] \in Inside /\ state = 0 => is_valid /\ ~Done
  /\ woken # {} => child = "exited"
  /\ asleep # {} => state = 0
  /\ ~manual => state = -1 /\ ~is_valid /\ \A t \in Thread : pc[t] \notin Inside

Early == {"idle", "priority", "wait"}

Closing == {"wait", "wait_lock", "wait_section", "event", "event_body", "event_wait",
            "leave_lock", "leave_section", "join", "close_event", "close_mutex"}

\* Nobody is inside while the object is made.
Alone ==
  /\ \A t \in closing : "close" \in Uses[t] /\ pc[t] \in Closing
  /\ \A t \in Thread : pc[t] \in Creating =>
       /\ "create" \in Uses[t] /\ ~is_valid /\ state = 0 /\ manual
       /\ \A u \in Thread : u # t => pc[u] \in Early

Life == IInv /\ Story /\ Witnesses /\ Alone
-----------------------------------------------------------------------------
\* What a thread knows of its place.
LEMMA Placed ==
  ASSUME OwnUse, Life, NEW t \in Thread
  PROVE  /\ pc[t] \in Past => Done
         /\ pc[t] \in Inside => manual /\ (state = 0 => is_valid /\ ~Done)
         /\ (\E u \in Thread : u # t /\ pc[u] \in Creating) =>
              pc[t] \in Early /\ ~is_valid /\ t \notin closing
         /\ is_valid => manual /\ (state = 0 => ~Done)
         /\ ~is_valid => Done
         /\ state # 0 \/ woken # {} => Done
         /\ t \in closing => "close" \in Uses[t] /\ pc[t] \in Closing
<1> USE DEF Life
<1>1. pc[t] \in Past => Done
  BY DEF Witnesses
<1>2. pc[t] \in Inside => manual /\ (state = 0 => is_valid /\ ~Done)
  BY DEF Witnesses
<1>3. t \in closing => "close" \in Uses[t] /\ pc[t] \in Closing
  BY DEF Alone
<1>4. ASSUME NEW u \in Thread, u # t, pc[u] \in Creating
      PROVE  pc[t] \in Early /\ ~is_valid /\ t \notin closing
  <2>1. "create" \in Uses[u] /\ pc[t] \in Early /\ ~is_valid
    BY <1>4 DEF Alone
  <2> QED BY <1>3, <1>4, <2>1 DEF OwnUse
<1>5. is_valid => manual /\ (state = 0 => ~Done)
  BY DEF Story, Witnesses, Done
<1>6. ~is_valid => Done
  BY DEF Story, Done
<1>7. state # 0 \/ woken # {} => Done
  <2>1. state \in {-1, 0, 1}
    BY DEF IInv, TypeOK, Event!EventTypeOK
  <2> QED BY <2>1 DEF Story, Witnesses, Done
<1> QED BY <1>1, <1>2, <1>3, <1>4, <1>5, <1>6, <1>7

\* A step of one thread that leaves the object and the child as they are, and
\* of the event at most who sleeps in it.
LEMMA MoveKept ==
  ASSUME Life, NEW t \in Thread, NEW place, Goto(t, place),
         UNCHANGED <<is_valid, childVars, state, manual>>,
         woken' \subseteq woken, asleep' # {} => asleep # {} \/ state = 0,
         place \in Past => Done,
         place \in Inside => manual /\ (state = 0 => is_valid /\ ~Done),
         place \in Creating => pc[t] \in Creating,
         (\E u \in Thread : u # t /\ pc[u] \in Creating) => place \in Early,
         closing' \subseteq closing \union {t},
         t \in closing' => "close" \in Uses[t] /\ place \in Closing
  PROVE  Story' /\ Witnesses' /\ Alone'
<1>1. /\ pc'[t] = place
      /\ \A u \in Thread : u # t => pc'[u] = pc[u]
  BY Moved DEF Life, IInv
<1>2. Done' = Done
  BY DEF Done, childVars
<1>3. Story'
  BY <1>2 DEF Life, Story, childVars
<1>4. Witnesses'
  BY <1>1, <1>2 DEF Life, Witnesses, childVars
<1>5. Alone'
  <2>1. ASSUME NEW u \in closing'
        PROVE  "close" \in Uses[u] /\ pc'[u] \in Closing
    <3>1. CASE u = t
      BY <1>1, <3>1
    <3>2. CASE u # t
      BY <1>1, <2>1, <3>2 DEF Life, IInv, TypeOK, Alone
    <3> QED BY <3>1, <3>2
  <2>2. ASSUME NEW u \in Thread, pc'[u] \in Creating
        PROVE  /\ "create" \in Uses[u] /\ ~is_valid' /\ state' = 0 /\ manual'
               /\ \A v \in Thread : v # u => pc'[v] \in Early
    <3>1. pc[u] \in Creating
      BY <1>1, <2>2
    <3>2. \A v \in Thread : v # u => pc'[v] \in Early
      BY <1>1, <3>1 DEF Life, Alone
    <3> QED BY <3>1, <3>2 DEF Life, Alone
  <2> QED BY <2>1, <2>2 DEF Alone
<1> QED BY <1>3, <1>4, <1>5

LEMMA AfterLocks ==
  /\ AfterLock("create_lock") = "create_section"
  /\ AfterLock("priority_lock") = "priority_section"
  /\ AfterLock("poll_lock") = "poll_section"
  /\ AfterLock("wait_lock") = "wait_section"
  /\ AfterLock("leave_lock") = "leave_section"
BY DEF AfterLock

LEMMA LockLife ==
  ASSUME OwnUse, Life, NEW t \in Thread, LockTest(t) \/ LockDone(t)
  PROVE  Story' /\ Witnesses' /\ Alone'
<1>1. PICK place \in {pc[t], AfterLock(pc[t])} : Goto(t, place)
  <2>1. CASE LockTest(t) /\ pc' = pc
    BY <2>1 DEF Goto, Life, IInv, TypeOK
  <2>2. CASE Goto(t, AfterLock(pc[t]))
    BY <2>2
  <2> QED BY <2>1, <2>2 DEF LockTest, LockDone
<1>2. /\ UNCHANGED <<is_valid, childVars, state, manual>>
      /\ woken' = woken /\ asleep' = asleep /\ closing' = closing
  BY DEF LockTest, LockDone, objectVars, eventVars
<1>3. pc[t] \in LockPoint
  BY DEF LockTest, LockDone, Life, IInv, TypeOK
<1>4. /\ place \in Past <=> pc[t] \in Past
      /\ place \in Inside <=> pc[t] \in Inside
      /\ place \in Creating <=> pc[t] \in Creating
      /\ pc[t] \in Closing => place \in Closing
      /\ pc[t] \notin Early
  BY <1>1, <1>3, AfterLocks DEF LockPoint, Past, Inside, Creating, Closing, Early
<1> QED BY <1>1, <1>2, <1>4, Placed, MoveKept

\* The other steps that move a thread.
LEMMA CallLife ==
  ASSUME OwnUse, Life, NEW t \in Thread,
         CallSetPriority(t) \/ TestPriority(t) \/ SetPriority(t) \/ CallIsValid(t)
           \/ CallWait(t) \/ WaitTest(t) \/ CallClose(t) \/ CloseMutex(t)
  PROVE  Story' /\ Witnesses' /\ Alone'
<1>1. /\ UNCHANGED <<is_valid, childVars, state, manual>>
      /\ woken' = woken /\ asleep' = asleep
  BY DEF CallSetPriority, TestPriority, SetPriority, CallIsValid, CallWait, WaitTest,
     CallClose, CloseMutex, objectVars, eventVars
<1>2. PICK place : 
        /\ Goto(t, place)
        /\ place \in Past => Done
        /\ place \in Inside => manual /\ (state = 0 => is_valid /\ ~Done)
        /\ place \notin Creating
        /\ (\E u \in Thread : u # t /\ pc[u] \in Creating) => place \in Early
        /\ closing' \subseteq closing \union {t}
        /\ t \in closing' => "close" \in Uses[t] /\ place \in Closing
  <2> USE Placed DEF Past, Inside, Creating, Early, Closing
  <2>1. CASE CallSetPriority(t)
    BY <2>1 DEF CallSetPriority
  <2>2. CASE TestPriority(t)
    BY <2>2 DEF TestPriority
  <2>3. CASE SetPriority(t)
    BY <2>3 DEF SetPriority
  <2>4. CASE CallIsValid(t)
    BY <2>4 DEF CallIsValid
  <2>5. CASE CallWait(t)
    BY <2>5 DEF CallWait
  <2>6. CASE WaitTest(t)
    <3>1. CASE is_valid
      BY <2>6, <3>1 DEF WaitTest
    <3>2. CASE ~is_valid /\ t \in closing
      BY <2>6, <3>2 DEF WaitTest, Caller
    <3>3. CASE ~is_valid /\ t \notin closing
      BY <2>6, <3>3 DEF WaitTest, Caller
    <3> QED BY <3>1, <3>2, <3>3
  <2>7. CASE CallClose(t)
    BY <2>7 DEF CallClose
  <2>8. CASE CloseMutex(t)
    BY <2>8 DEF CloseMutex
  <2> QED BY <2>1, <2>2, <2>3, <2>4, <2>5, <2>6, <2>7, <2>8
<1> QED BY <1>1, <1>2, MoveKept

\* A manual event keeps its state whatever a wait makes of it.
LEMMA InsideLife ==
  ASSUME OwnUse, Life, NEW t \in Thread,
         PollTest(t) \/ PollBlock(t) \/ PollHigh(t) \/ PollLow(t) \/ CountIn(t)
           \/ EventTest(t) \/ EventBlock(t) \/ EventHigh(t) \/ CountOut(t)
  PROVE  Story' /\ Witnesses' /\ Alone'
<1>1. pc[t] \in Inside
  BY DEF PollTest, PollBlock, PollHigh, PollLow, CountIn, EventTest, EventBlock,
     EventHigh, CountOut, Inside
<1>2. manual
  BY <1>1, Placed
<1>3. UNCHANGED <<is_valid, childVars>> /\ closing' = closing
  BY DEF PollTest, PollBlock, PollHigh, PollLow, CountIn, EventTest, EventBlock,
     EventHigh, CountOut, objectVars
<1>4. /\ UNCHANGED <<state, manual>>
      /\ woken' \subseteq woken /\ (asleep' # {} => asleep # {} \/ state = 0)
  <2>1. CASE PollTest(t) \/ CountIn(t) \/ EventTest(t) \/ CountOut(t)
    BY <2>1 DEF PollTest, CountIn, EventTest, CountOut, eventVars
  <2>2. CASE PollBlock(t) \/ EventBlock(t)
    BY <2>2 DEF PollBlock, EventBlock, Event!WaitBlock, Event!Sleep
  <2>3. CASE PollHigh(t) \/ PollLow(t) \/ EventHigh(t)
    BY <1>2, <2>3 DEF PollHigh, PollLow, EventHigh, Event!WaitThrough, Event!WaitWoken,
       Event!WaitExpired, Event!Consume, Event!ReturnWoken, Event!ReturnExpired,
       Event!condVars
  <2> QED BY <2>1, <2>2, <2>3
<1>5. PICK place :
        /\ Goto(t, place)
        /\ place \in Past => Done
        /\ place \in Inside => manual /\ (state = 0 => is_valid /\ ~Done)
        /\ place \notin Creating
        /\ t \in closing => "close" \in Uses[t] /\ place \in Closing
  <2> USE <1>1, <1>2, Placed DEF Past, Inside, Creating, Closing
  <2>1. CASE PollTest(t)
    BY <2>1 DEF PollTest
  <2>2. CASE PollBlock(t)
    BY <2>2 DEF PollBlock
  <2>3. CASE PollHigh(t)
    BY <2>3 DEF PollHigh
  <2>4. CASE PollLow(t)
    BY <2>4 DEF PollLow
  <2>5. CASE CountIn(t)
    BY <2>5 DEF CountIn
  <2>6. CASE EventTest(t)
    BY <2>6 DEF EventTest, Event!IsValid
  <2>7. CASE EventBlock(t)
    BY <2>7 DEF EventBlock
  <2>8. CASE EventHigh(t)
    <3>1. Done
      BY <2>8 DEF EventHigh, Event!WaitThrough, Event!WaitWoken, Event!ReturnWoken
    <3> QED BY <2>8, <3>1 DEF EventHigh
  <2>9. CASE CountOut(t)
    <3>1. CASE t \in closing
      BY <2>9, <3>1 DEF CountOut, Caller
    <3>2. CASE t \notin closing
      BY <2>9, <3>2 DEF CountOut, Caller
    <3> QED BY <3>1, <3>2
  <2> QED BY <2>1, <2>2, <2>3, <2>4, <2>5, <2>6, <2>7, <2>8, <2>9
<1>6. ~\E u \in Thread : u # t /\ pc[u] \in Creating
  BY <1>1, Placed DEF Inside, Early
<1> QED BY <1>3, <1>4, <1>5, <1>6, MoveKept

\* Before anybody can come: a new event, and no child yet.
LEMMA CreateLife ==
  ASSUME OwnUse, Life, NEW t \in Thread, Create(t)
  PROVE  Story' /\ Witnesses' /\ Alone'
<1>1. PICK place \in {"create_lock", "priority"} : Goto(t, place)
  BY DEF Create
<1>2. /\ UNCHANGED <<is_valid, childVars, closing>> /\ ~is_valid
      /\ state' = 0 /\ manual' /\ woken' = {} /\ asleep' = {}
  BY DEF Create, objectVars, Event!InitEvent, Event!CondRenew
<1>3. pc'[t] = place /\ \A u \in Thread : u # t => pc'[u] = "idle"
  BY <1>1, Moved DEF Create, Life, IInv
<1>4. closing = {}
  BY DEF Create, Life, IInv, TypeOK, Alone, Closing
<1>5. Story'
  BY <1>2 DEF Life, Story, childVars
<1>6. Witnesses'
  BY <1>2, <1>3 DEF Witnesses, Past, Inside
<1>7. Alone'
  BY <1>2, <1>3, <1>4 DEF Create, Alone, Creating, Early
<1> QED BY <1>5, <1>6, <1>7

LEMMA SpawnLife ==
  ASSUME OwnUse, Life, NEW t \in Thread, Spawn(t)
  PROVE  Story' /\ Witnesses' /\ Alone'
<1>1. PICK ok \in BOOLEAN :
        /\ is_valid' = ok
        /\ child' = IF ok THEN "running" ELSE child
        /\ joins' = IF ok THEN 0 ELSE joins
  BY DEF Spawn
<1>2. UNCHANGED <<state, manual, asleep, woken, closing>> /\ Goto(t, "priority")
  BY DEF Spawn, eventVars
<1>3. ~is_valid /\ state = 0 /\ manual /\ \A u \in Thread : u # t => pc[u] \in Early
  BY DEF Spawn, Life, Alone, Creating
<1>4. \A u \in Thread : pc'[u] \in Early
  BY <1>2, <1>3, Moved DEF Life, IInv, Early
<1>5. closing = {}
  <2>1. ASSUME NEW u \in closing PROVE FALSE
    <3>1. u \in Thread /\ "close" \in Uses[u] /\ pc[u] \in Closing
      BY <2>1 DEF Life, IInv, TypeOK, Alone
    <3>2. "create" \in Uses[t] /\ pc[t] \notin Closing
      BY DEF Spawn, Life, Alone, Creating, Closing
    <3> QED BY <3>1, <3>2 DEF OwnUse
  <2> QED BY <2>1
<1>6. woken = {}
  <2>1. \A u \in woken : u \in Thread /\ pc[u] \in {"polling", "event_wait"}
    BY DEF Life, IInv, TypeOK, Event!EventTypeOK, Event!CondTypeOK, Event!Blocked
  <2>2. \A u \in Thread : pc[u] \notin {"polling", "event_wait"}
    BY <1>3 DEF Spawn, Early
  <2> QED BY <2>1, <2>2
<1>7. Story'
  <2>1. CASE ok
    BY <1>1, <1>2, <1>3, <2>1 DEF Story
  <2>2. CASE ~ok
    BY <1>1, <1>2, <1>3, <2>2 DEF Life, Story
  <2> QED BY <2>1, <2>2
<1>8. Witnesses'
  BY <1>2, <1>3, <1>4, <1>6 DEF Life, Witnesses, Past, Inside, Early
<1>9. Alone'
  BY <1>2, <1>4, <1>5 DEF Alone, Creating, Early
<1> QED BY <1>7, <1>8, <1>9

\* The object becomes invalid behind the child.
LEMMA JoinLife ==
  ASSUME OwnUse, Life, NEW t \in Thread, Join(t)
  PROVE  Story' /\ Witnesses' /\ Alone'
<1>1. /\ child = "exited" /\ child' = child /\ joins' = joins + 1 /\ is_valid' = FALSE
      /\ UNCHANGED <<state, manual, asleep, woken, closing>> /\ Goto(t, Caller(t))
  BY DEF Join, eventVars
<1>2. joins \in Nat /\ state \in {-1, 0, 1}
  BY DEF Life, IInv, TypeOK, Event!EventTypeOK
<1>3. manual /\ state # 0
  BY <1>1, Placed DEF Join, Inside, Done
<1>4. PICK place \in {"idle", "close_event"} :
        Goto(t, place) /\ (t \in closing => place = "close_event")
  BY <1>1 DEF Caller
<1>5. pc'[t] = place /\ \A u \in Thread : u # t => pc'[u] = pc[u]
  BY <1>4, Moved DEF Life, IInv
<1>6. Story'
  BY <1>1, <1>2, <1>3 DEF Life, Story, Done
<1>7. Witnesses'
  BY <1>1, <1>3, <1>5 DEF Life, Witnesses, Done, Past, Inside
<1>8. Alone'
  <2>1. ~\E u \in Thread : pc[u] \in Creating
    BY <1>3 DEF Life, Alone
  <2>2. ~\E u \in Thread : pc'[u] \in Creating
    BY <1>5, <2>1 DEF Creating
  <2>3. \A u \in closing : "close" \in Uses[u] /\ pc'[u] \in Closing
    BY <1>4, <1>5 DEF Life, IInv, TypeOK, Alone, Closing
  <2> QED BY <1>1, <2>2, <2>3 DEF Alone
<1> QED BY <1>6, <1>7, <1>8

\* The event goes when the child is done with, and nobody sleeps in it then.
LEMMA NoSleeper ==
  ASSUME OwnUse, Life, Done
  PROVE  asleep = {}
<1> SUFFICES ASSUME NEW t \in asleep PROVE FALSE
  OBVIOUS
<1>1. t \in Thread /\ pc[t] \in Inside
  BY DEF Life, IInv, TypeOK, Event!EventTypeOK, Event!CondTypeOK, Event!Blocked, Inside
<1>2. state = 0
  BY DEF Life, Witnesses
<1> QED BY <1>1, <1>2, Placed

LEMMA CloseEventLife ==
  ASSUME OwnUse, Life, NEW t \in Thread, CloseEvent(t)
  PROVE  Story' /\ Witnesses' /\ Alone'
<1>1. Done /\ asleep = {}
  BY Placed, NoSleeper DEF CloseEvent, Past
<1>2. UNCHANGED <<is_valid, childVars, manual, asleep, woken, closing>>
      /\ Goto(t, "close_mutex")
  BY DEF CloseEvent, objectVars, Event!DestroyEvent, Event!condVars
<1>3. state' = -1
  BY DEF CloseEvent, Event!DestroyEvent, Life, IInv, TypeOK, Event!EventTypeOK
<1>4. pc'[t] = "close_mutex" /\ \A u \in Thread : u # t => pc'[u] = pc[u]
  BY <1>2, Moved DEF Life, IInv
<1>5. ~\E u \in Thread : pc[u] \in Creating
  BY Placed DEF CloseEvent, Early, Creating
<1>6. Story'
  BY <1>1, <1>2, <1>3 DEF Life, Story, Done, childVars
<1>7. Witnesses'
  BY <1>1, <1>2, <1>3, <1>4 DEF Life, Witnesses, Done, childVars, Past, Inside
<1>8. Alone'
  <2>1. ~\E u \in Thread : pc'[u] \in Creating
    BY <1>4, <1>5 DEF Creating
  <2>2. \A u \in closing : "close" \in Uses[u] /\ pc'[u] \in Closing
    BY <1>4 DEF Life, IInv, TypeOK, Alone, Closing
  <2> QED BY <1>2, <2>1, <2>2 DEF Alone
<1> QED BY <1>6, <1>7, <1>8

\* The child's own steps, and the passing of a deadline.
LEMMA OutsideLife ==
  ASSUME OwnUse, Life,
         Child \/ \E t \in Thread : DeadlinePasses(t) \/ WakeSpuriously(t)
  PROVE  Story' /\ Witnesses' /\ Alone'
<1>1. UNCHANGED <<is_valid, joins, pc, closing>>
  BY DEF Child, ChildReturns, ChildExits, DeadlinePasses, WakeSpuriously, OwnUse,
     objectVars, childVars, callVars
<1>2. CASE ChildReturns
  <2>1. child = "running" /\ child' = "returned"
        /\ UNCHANGED <<state, manual, asleep, woken>>
    BY <1>2 DEF ChildReturns, eventVars
  <2>2. state = 0 /\ woken = {} /\ \A t \in Thread : pc[t] \notin Past
    <3>1. state \in {-1, 0, 1}
      BY DEF Life, IInv, TypeOK, Event!EventTypeOK
    <3> QED BY <2>1, <3>1 DEF Life, Story, Witnesses, Done
  <2> QED
    BY <1>1, <2>1, <2>2 DEF Life, Story, Witnesses, Alone, Done
<1>3. CASE ChildExits
  <2>1. child = "returned" /\ child' = "exited"
    BY <1>3 DEF ChildExits
  <2>2. state \in {-1, 0, 1}
    BY DEF Life, IInv, TypeOK, Event!EventTypeOK
  <2>3. state = 0
    BY <2>1, <2>2 DEF Life, Story, Done
  <2>4. CASE ~manual
    BY <2>3, <2>4 DEF Life, Witnesses
  <2>5. CASE manual
    <3>1. state' = 1 /\ asleep' = {} /\ manual'
      BY <1>3, <2>3, <2>5 DEF ChildExits, Event!IsValid, Event!SignalBody, Event!Notify,
         Event!CondBroadcast
    <3>2. is_valid
      BY <2>1 DEF Life, Story
    <3>3. ~\E t \in Thread : pc[t] \in Creating
      BY <3>2 DEF Life, Alone
    <3>4. Alone'
      BY <1>1, <3>3 DEF Life, Alone
    <3>5. Story'
      BY <1>1, <2>1, <3>1, <3>2 DEF Life, Story
    <3>6. Witnesses'
      BY <1>1, <2>1, <3>1 DEF Witnesses, Done
    <3> QED BY <3>4, <3>5, <3>6
  <2> QED BY <2>4, <2>5
<1>4. CASE \E t \in Thread : DeadlinePasses(t) \/ WakeSpuriously(t)
  <2>1. UNCHANGED <<child, state, manual, woken>> /\ asleep' \subseteq asleep
    BY <1>4 DEF DeadlinePasses, WakeSpuriously, OwnUse, Event!Expire, childVars
  <2> QED
    BY <1>1, <2>1 DEF Life, Story, Witnesses, Alone, Done
<1> QED BY <1>2, <1>3, <1>4 DEF Child

\* Life is an invariant for callers that keep to OwnUse.
LEMMA LifeKept ==
  ASSUME OwnUse, Life, [Next]_vars
  PROVE  Life'
<1>1. IInv'
  BY InvKept DEF Life
<1>2. CASE UNCHANGED vars
  BY <1>1, <1>2 DEF Life, Story, Witnesses, Alone, Done, vars, objectVars, eventVars,
     childVars, callVars
<1>3. CASE Child \/ \E t \in Thread : DeadlinePasses(t) \/ WakeSpuriously(t)
  BY <1>1, <1>3, OutsideLife DEF Life
<1>4. ASSUME NEW t \in Thread, Call(t) \/ Step(t) \/ LockDone(t) PROVE Life'
  <2>1. Story' /\ Witnesses' /\ Alone'
    BY <1>4, CreateLife, SpawnLife, JoinLife, CloseEventLife, LockLife, CallLife, InsideLife
       DEF Call, Step
  <2> QED BY <1>1, <2>1 DEF Life
<1> QED BY <1>2, <1>3, <1>4 DEF Next

\* Life is an invariant of the code when each thread uses its own objects.
THEOREM LifeIsInductive ==
  ASSUME OwnUse
  PROVE  Spec => []Life
<1>1. Init => Life
  <2> SUFFICES ASSUME Init PROVE Life
    OBVIOUS
  <2>1. IInv
    BY InvInit
  <2>2. Story
    BY DEF Init, Story, Done
  <2>3. Witnesses /\ Alone
    BY DEF Init, Event!CondInit, Witnesses, Alone, Done, Past, Inside, Creating
  <2> QED BY <2>1, <2>2, <2>3 DEF Life
<1>2. Life /\ [Next]_vars => Life'
  BY LifeKept
<1> QED BY <1>1, <1>2, PTL DEF Spec

\* vm_thread_close does not destroy the exit event under a sleeping waiter.
THEOREM NobodyLeftAsleep ==
  ASSUME OwnUse
  PROVE  Spec => []NoSleeperOnDestroyedEvent
<1>1. Life => NoSleeperOnDestroyedEvent
  <2> SUFFICES ASSUME Life, state = -1 PROVE asleep = {}
    BY DEF NoSleeperOnDestroyedEvent
  <2>1. Done
    BY DEF Life, Story
  <2> QED BY <2>1, NoSleeper
<1> QED BY <1>1, LifeIsInductive, PTL

-----------------------------------------------------------------------------
\* The refinement.  What the mapping makes of the state, under names.
Phase ==
  IF child = "none" THEN "none"
  ELSE IF joins > 0 THEN "collected"
  ELSE IF child = "running" THEN "running" ELSE "returned"
Waiting == {t \in Thread : InWait(t)}

WaitPlace == {"wait", "wait_lock", "wait_section", "event", "event_body",
              "event_wait", "leave_lock", "leave_section", "join"}

LEMMA Mapped ==
  /\ Abstract!Init <=> Phase = "none" /\ Waiting = {}
  /\ Abstract!Start <=>
       Phase \in {"none", "collected"} /\ Phase' = "running" /\ Waiting' = Waiting
  /\ Abstract!Finish <=>
       Phase = "running" /\ Phase' = "returned" /\ Waiting' = Waiting
  /\ Abstract!Collect <=>
       /\ Phase = "returned" /\ Phase' = "collected"
       /\ Waiting' = Waiting \/ \E t \in Waiting : Waiting' = Waiting \ {t}
  /\ \A t \in Thread :
       /\ Abstract!Wait(t) <=>
            t \notin Waiting /\ Waiting' = Waiting \union {t} /\ Phase' = Phase
       /\ Abstract!Return(t) <=>
            /\ t \in Waiting /\ Phase # "running"
            /\ Waiting' = Waiting \ {t} /\ Phase' = Phase
  /\ UNCHANGED Abstract!vars <=> Phase' = Phase /\ Waiting' = Waiting
BY DEF Abstract!Init, Abstract!Start, Abstract!Finish, Abstract!Collect, Abstract!Wait,
   Abstract!Return, Abstract!vars, Phase, Waiting

LEMMA PlaceChanged ==
  ASSUME TypeOK, NEW t \in Thread, NEW place, Goto(t, place)
  PROVE  Waiting' = IF place \in WaitPlace THEN Waiting \union {t} ELSE Waiting \ {t}
BY Moved DEF Waiting, InWait, WaitPlace

\* A thread enters the wait, leaves it, or does neither.
LEMMA MoveRefined ==
  ASSUME Life, NEW t \in Thread, NEW place, Goto(t, place), UNCHANGED childVars,
         pc[t] \in WaitPlace /\ place \notin WaitPlace => Done
  PROVE  Abstract!Next \/ UNCHANGED Abstract!vars
<1>1. Phase' = Phase /\ (Done => Phase # "running")
  BY DEF Phase, Done, childVars
<1>2. Waiting' = IF place \in WaitPlace THEN Waiting \union {t} ELSE Waiting \ {t}
  BY PlaceChanged DEF Life, IInv
<1>3. t \in Waiting <=> pc[t] \in WaitPlace
  BY DEF Waiting, InWait, WaitPlace
<1>4. CASE place \in WaitPlace /\ pc[t] \notin WaitPlace
  <2>1. Abstract!Wait(t)
    BY <1>1, <1>2, <1>3, <1>4, Mapped
  <2> QED BY <2>1 DEF Abstract!Next
<1>5. CASE place \notin WaitPlace /\ pc[t] \in WaitPlace
  <2>1. Abstract!Return(t)
    BY <1>1, <1>2, <1>3, <1>5, Mapped
  <2> QED BY <2>1 DEF Abstract!Next
<1>6. CASE place \in WaitPlace <=> pc[t] \in WaitPlace
  <2>1. Waiting' = Waiting
    BY <1>2, <1>3, <1>6
  <2> QED BY <1>1, <2>1, Mapped
<1> QED BY <1>4, <1>5, <1>6

LEMMA StepRefined ==
  ASSUME OwnUse, Life, NEW t \in Thread, Call(t) \/ Step(t) \/ LockDone(t)
  PROVE  Abstract!Next \/ UNCHANGED Abstract!vars
<1> USE DEF WaitPlace
<1>1. CASE LockTest(t) \/ LockDone(t)
  <2>1. UNCHANGED childVars /\ pc[t] \in LockPoint
    BY <1>1 DEF LockTest, LockDone, Life, IInv, TypeOK
  <2>2. PICK place \in {pc[t], AfterLock(pc[t])} : Goto(t, place)
    <3>1. CASE LockTest(t) /\ pc' = pc
      BY <3>1 DEF Goto, Life, IInv, TypeOK
    <3>2. CASE Goto(t, AfterLock(pc[t]))
      BY <3>2
    <3> QED BY <1>1, <3>1, <3>2 DEF LockTest, LockDone
  <2>3. place \in WaitPlace <=> pc[t] \in WaitPlace
    BY <2>1, <2>2, AfterLocks DEF LockPoint
  <2> QED BY <2>1, <2>2, <2>3, MoveRefined
<1>2. CASE Create(t)
  <2>1. PICK place \in {"create_lock", "priority"} : Goto(t, place)
    BY <1>2 DEF Create
  <2> QED BY <1>2, <2>1, MoveRefined DEF Create
<1>3. CASE Spawn(t)
  <2>1. PICK ok \in BOOLEAN :
          /\ child' = IF ok THEN "running" ELSE child
          /\ joins' = IF ok THEN 0 ELSE joins
    BY <1>3 DEF Spawn
  <2>2. Goto(t, "priority") /\ ~is_valid /\ t \notin Waiting
    BY <1>3 DEF Spawn, Life, Alone, Creating, Waiting, InWait
  <2>3. Waiting' = Waiting
    <3>1. Waiting' = Waiting \ {t}
      BY <2>2, PlaceChanged DEF Life, IInv
    <3> QED BY <2>2, <3>1
  <2>4. CASE ok
    <3>1. Phase' = "running"
      BY <2>1, <2>4 DEF Phase
    <3>2. Phase \in {"none", "collected"}
      BY <2>2 DEF Life, Story, Phase
    <3> QED BY <2>3, <3>1, <3>2, Mapped DEF Abstract!Next
  <2>5. CASE ~ok
    <3>1. Phase' = Phase
      BY <2>1, <2>5 DEF Phase
    <3> QED BY <2>3, <3>1, Mapped
  <2> QED BY <2>4, <2>5
<1>4. CASE CallSetPriority(t) \/ TestPriority(t) \/ SetPriority(t) \/ CallIsValid(t)
           \/ CallWait(t) \/ CallClose(t) \/ CloseEvent(t) \/ CloseMutex(t)
  <2>1. UNCHANGED childVars /\ pc[t] \notin WaitPlace
    BY <1>4 DEF CallSetPriority, TestPriority, SetPriority, CallIsValid, CallWait, CallClose,
       CloseEvent, CloseMutex
  <2>2. \E place : Goto(t, place)
    BY <1>4 DEF CallSetPriority, TestPriority, SetPriority, CallIsValid, CallWait, CallClose,
       CloseEvent, CloseMutex
  <2> QED BY <2>1, <2>2, MoveRefined
<1>5. CASE PollTest(t) \/ PollBlock(t) \/ PollHigh(t) \/ PollLow(t)
  <2>1. UNCHANGED childVars /\ pc[t] \notin WaitPlace
    BY <1>5 DEF PollTest, PollBlock, PollHigh, PollLow
  <2>2. \E place : Goto(t, place)
    BY <1>5 DEF PollTest, PollBlock, PollHigh, PollLow
  <2> QED BY <2>1, <2>2, MoveRefined
<1>6. CASE WaitTest(t)
  <2>1. ~is_valid => Done
    BY Placed
  <2>2. PICK place :
          Goto(t, place) /\ (is_valid => place = "wait_lock")
    BY <1>6 DEF WaitTest
  <2> QED BY <1>6, <2>1, <2>2, MoveRefined DEF WaitTest
<1>7. CASE CountIn(t) \/ EventTest(t) \/ EventBlock(t) \/ EventHigh(t)
  <2>1. PICK place \in WaitPlace : Goto(t, place)
    BY <1>7 DEF CountIn, EventTest, EventBlock, EventHigh
  <2> QED BY <1>7, <2>1, MoveRefined DEF CountIn, EventTest, EventBlock, EventHigh
<1>8. CASE CountOut(t)
  <2>1. Done
    BY <1>8, Placed DEF CountOut, Past
  <2>2. \E place : Goto(t, place)
    BY <1>8 DEF CountOut
  <2> QED BY <1>8, <2>1, <2>2, MoveRefined DEF CountOut
<1>9. CASE Join(t)
  <2>1. child = "exited" /\ child' = child /\ joins' = joins + 1 /\ joins \in Nat
    BY <1>9 DEF Join, Life, IInv, TypeOK
  <2>2. PICK place \in {"idle", "close_event"} : Goto(t, place)
    BY <1>9 DEF Join, Caller
  <2>3. t \in Waiting /\ Waiting' = Waiting \ {t}
    BY <1>9, <2>2, PlaceChanged DEF Join, Life, IInv, Waiting, InWait
  <2>4. CASE joins = 0
    <3>1. Phase = "returned" /\ Phase' = "collected"
      BY <2>1, <2>4 DEF Phase
    <3>2. Abstract!Collect
      BY <2>3, <3>1, Mapped
    <3> QED BY <3>2 DEF Abstract!Next
  <2>5. CASE joins # 0
    <3>1. Phase = "collected" /\ Phase' = "collected"
      BY <2>1, <2>5 DEF Phase
    <3>2. Abstract!Return(t)
      BY <2>3, <3>1, Mapped
    <3> QED BY <3>2 DEF Abstract!Next
  <2> QED BY <2>4, <2>5
<1> QED
  BY <1>1, <1>2, <1>3, <1>4, <1>5, <1>6, <1>7, <1>8, <1>9 DEF Call, Step

LEMMA OutsideRefined ==
  ASSUME OwnUse, Life,
         Child \/ \E t \in Thread : DeadlinePasses(t) \/ WakeSpuriously(t)
  PROVE  Abstract!Next \/ UNCHANGED Abstract!vars
<1>1. Waiting' = Waiting
  BY DEF Child, ChildReturns, ChildExits, DeadlinePasses, WakeSpuriously, callVars,
     Waiting, InWait
<1>2. CASE ChildReturns
  <2>1. Phase = "running" /\ Phase' = "returned"
    BY <1>2 DEF ChildReturns, Life, Story, Phase
  <2> QED BY <1>1, <2>1, Mapped DEF Abstract!Next
<1>3. CASE ~ChildReturns
  <2>1. Phase' = Phase
    BY <1>3 DEF Child, ChildExits, DeadlinePasses, WakeSpuriously, childVars, Phase
  <2> QED BY <1>1, <2>1, Mapped
<1> QED BY <1>2, <1>3

\* The Linux object is a thread as vm_thread.h describes it, for any finite
\* number of threads that wait, poll and prioritise, as long as nobody closes
\* it but who creates it and no wakeup is spurious.
THEOREM IsAThread ==
  ASSUME OwnUse
  PROVE  Spec => ImplementsAbstractThread
<1>1. Init => Abstract!Init
  BY Mapped DEF Init, Phase, Waiting, InWait
<1>2. Life /\ [Next]_vars => [Abstract!Next]_(Abstract!vars)
  <2>1. ASSUME UNCHANGED vars PROVE UNCHANGED Abstract!vars
    BY <2>1, Mapped DEF vars, childVars, callVars, Phase, Waiting, InWait
  <2> QED BY <2>1, StepRefined, OutsideRefined DEF Next
<1> QED
  BY <1>1, <1>2, LifeIsInductive, PTL DEF Spec, ImplementsAbstractThread, Abstract!Spec

-----------------------------------------------------------------------------
\* One thread uses the object.  What it has tested stays so, and it is the last
\* waiter of its own wait.
OneCaller == \A t, u \in Thread : t = u

Tested == Inside \union {"priority_lock", "priority_section"}
Untested == Creating \union {"close_event", "close_mutex"}

Sole ==
  /\ is_valid => joins = 0
  /\ ~is_valid => child = "none" \/ joins > 0
  /\ joins <= 1
  /\ \A t \in Thread : pc[t] \in Tested => is_valid
  /\ \A t \in Thread : pc[t] \in Untested => ~is_valid

\* A step that changes neither the object nor its child.
LEMMA SoleMove ==
  ASSUME OneCaller, IInv, Sole, NEW t \in Thread, NEW place, Goto(t, place),
         UNCHANGED <<is_valid, childVars>>,
         place \in Tested => is_valid, place \in Untested => ~is_valid
  PROVE  Sole'
<1>1. \A u \in Thread : pc'[u] = place
  BY Moved DEF OneCaller, IInv
<1> QED BY <1>1 DEF Sole, childVars

LEMMA SoleStep ==
  ASSUME OneCaller, IInv, Sole, NEW t \in Thread, Call(t) \/ Step(t) \/ LockDone(t)
  PROVE  Sole'
<1> USE DEF Tested, Untested, Inside, Creating
<1>1. /\ pc[t] \in Tested => is_valid
      /\ pc[t] \in Untested => ~is_valid
  BY DEF Sole
<1>2. CASE LockTest(t) \/ LockDone(t)
  <2>1. UNCHANGED <<is_valid, childVars>> /\ pc[t] \in LockPoint
    BY <1>2 DEF LockTest, LockDone, objectVars, IInv, TypeOK
  <2>2. PICK place \in {pc[t], AfterLock(pc[t])} : Goto(t, place)
    <3>1. CASE LockTest(t) /\ pc' = pc
      BY <3>1 DEF Goto, IInv, TypeOK
    <3>2. CASE Goto(t, AfterLock(pc[t]))
      BY <3>2
    <3> QED BY <1>2, <3>1, <3>2 DEF LockTest, LockDone
  <2>3. /\ place \in Tested <=> pc[t] \in Tested
        /\ place \in Untested <=> pc[t] \in Untested
    BY <2>1, <2>2, AfterLocks DEF LockPoint
  <2> QED BY <1>1, <2>1, <2>2, <2>3, SoleMove
<1>3. CASE Create(t)
  <2>1. PICK place \in {"create_lock", "priority"} : Goto(t, place)
    BY <1>3 DEF Create
  <2> QED BY <1>3, <2>1, SoleMove DEF Create, objectVars
<1>4. CASE Spawn(t)
  <2>1. PICK ok \in BOOLEAN :
          /\ is_valid' = ok
          /\ child' = IF ok THEN "running" ELSE child
          /\ joins' = IF ok THEN 0 ELSE joins
    BY <1>4 DEF Spawn
  <2>2. \A u \in Thread : pc'[u] = "priority"
    BY <1>4, Moved DEF Spawn, OneCaller, IInv
  <2>3. ~is_valid
    BY <1>1, <1>4 DEF Spawn
  <2>4. CASE ok
    BY <2>1, <2>2, <2>4 DEF Sole
  <2>5. CASE ~ok
    BY <2>1, <2>2, <2>3, <2>5 DEF Sole
  <2> QED BY <2>4, <2>5
<1>5. CASE CallSetPriority(t) \/ TestPriority(t) \/ SetPriority(t) \/ CallIsValid(t)
           \/ CallWait(t) \/ CallClose(t) \/ CloseEvent(t) \/ CloseMutex(t)
  <2>1. UNCHANGED <<is_valid, childVars>>
    BY <1>5 DEF CallSetPriority, TestPriority, SetPriority, CallIsValid, CallWait, CallClose,
       CloseEvent, CloseMutex, objectVars
  <2>2. PICK place :
          /\ Goto(t, place)
          /\ place \in Tested => is_valid
          /\ place \in Untested => ~is_valid
    <3>1. CASE CallSetPriority(t)
      BY <3>1 DEF CallSetPriority
    <3>2. CASE TestPriority(t)
      BY <3>2 DEF TestPriority
    <3>3. CASE SetPriority(t) \/ CloseMutex(t)
      BY <3>3 DEF SetPriority, CloseMutex
    <3>4. CASE CallIsValid(t)
      BY <3>4 DEF CallIsValid
    <3>5. CASE CallWait(t) \/ CallClose(t)
      BY <3>5 DEF CallWait, CallClose
    <3>6. CASE CloseEvent(t)
      BY <1>1, <3>6 DEF CloseEvent
    <3> QED BY <1>5, <3>1, <3>2, <3>3, <3>4, <3>5, <3>6
  <2> QED BY <2>1, <2>2, SoleMove
<1>6. CASE PollTest(t) \/ PollBlock(t) \/ PollHigh(t) \/ PollLow(t) \/ CountIn(t)
           \/ EventTest(t) \/ EventBlock(t) \/ EventHigh(t)
  <2>1. UNCHANGED <<is_valid, childVars>> /\ is_valid
    BY <1>1, <1>6 DEF PollTest, PollBlock, PollHigh, PollLow, CountIn, EventTest,
       EventBlock, EventHigh, objectVars
  <2>2. PICK place : Goto(t, place) /\ place \notin Untested
    BY <1>6 DEF PollTest, PollBlock, PollHigh, PollLow, CountIn, EventTest, EventBlock,
       EventHigh
  <2> QED BY <2>1, <2>2, SoleMove
<1>7. CASE WaitTest(t)
  <2>1. PICK place \in {"wait_lock", "idle", "close_event"} :
          Goto(t, place) /\ (place = "wait_lock" <=> is_valid)
    BY <1>7 DEF WaitTest, Caller
  <2> QED BY <1>7, <2>1, SoleMove DEF WaitTest, objectVars
<1>8. CASE CountOut(t)
  <2>1. Counted = {t}
    BY <1>8 DEF CountOut, Counted, OneCaller
  <2>2. i_wait_count = 1
    BY <2>1, FS_Singleton DEF IInv, CountIsRight
  <2>3. i_wait_count' = 0
    BY <1>8, <2>2 DEF CountOut
  <2>4. Goto(t, "join") /\ UNCHANGED <<is_valid, childVars>> /\ is_valid
    BY <1>1, <1>8, <2>3 DEF CountOut
  <2> QED BY <2>4, SoleMove
<1>9. CASE Join(t)
  <2>1. is_valid' = FALSE /\ joins' = joins + 1 /\ child' = child /\ joins = 0
    BY <1>1, <1>9 DEF Join, Sole
  <2>2. \A u \in Thread : pc'[u] \in {"idle", "close_event"}
    BY <1>9, Moved DEF Join, Caller, OneCaller, IInv
  <2> QED BY <2>1, <2>2 DEF Sole
<1> QED
  BY <1>2, <1>3, <1>4, <1>5, <1>6, <1>7, <1>8, <1>9 DEF Call, Step

LEMMA SoleIsInductive ==
  ASSUME OneCaller
  PROVE  Spec => [](IInv /\ Sole)
<1>1. Init => IInv /\ Sole
  BY InvInit DEF Init, Sole, Tested, Untested, Inside, Creating
<1>2. IInv /\ Sole /\ [Next]_vars => (IInv /\ Sole)'
  <2> SUFFICES ASSUME IInv, Sole, [Next]_vars PROVE Sole'
    BY InvKept
  <2>1. CASE UNCHANGED vars
    BY <2>1 DEF Sole, vars, objectVars, childVars, callVars
  <2>2. CASE Child \/ \E t \in Thread : DeadlinePasses(t) \/ WakeSpuriously(t)
    <3>1. UNCHANGED <<is_valid, joins, pc>> /\ (child = "none" => child' = "none")
      BY <2>2 DEF Child, ChildReturns, ChildExits, DeadlinePasses, WakeSpuriously,
         objectVars, childVars, callVars
    <3> QED BY <3>1 DEF Sole
  <2> QED BY <2>1, <2>2, SoleStep DEF Next
<1> QED BY <1>1, <1>2, PTL DEF Spec

\* One thread that creates, polls, waits and closes joins each child once,
\* whatever wakes it.
THEOREM JoinsOnce ==
  ASSUME OneCaller
  PROVE  Spec => []JoinedOnce
<1>1. Sole => JoinedOnce
  BY DEF Sole, JoinedOnce
<1> QED BY <1>1, SoleIsInductive, PTL

\* And its vm_thread_close leaves no child behind.
THEOREM NoneLeftBehind ==
  ASSUME OneCaller
  PROVE  Spec => ClosedMeansCollected
<1>1. Sole => \A t \in Thread : pc[t] = "close_mutex" /\ child # "none" => joins > 0
  BY DEF Sole, Untested
<1>2. IInv /\ Sole /\ [Next]_vars =>
        [\A t \in Thread :
           pc[t] = "close_mutex" /\ pc'[t] = "idle" /\ child # "none" => joins > 0]_vars
  BY <1>1
<1> QED BY <1>2, SoleIsInductive, PTL DEF Spec, ClosedMeansCollected

\* Nor does its vm_thread_set_priority use the handle of a joined thread.
THEOREM PriorityIsLive ==
  ASSUME OneCaller
  PROVE  Spec => []PriorityOfLiveThread
<1>1. Sole => PriorityOfLiveThread
  BY DEF Sole, Tested, PriorityOfLiveThread
<1> QED BY <1>1, SoleIsInductive, PTL
=============================================================================
