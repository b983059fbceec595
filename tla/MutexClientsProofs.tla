------------------------- MODULE MutexClientsProofs ------------------------
(***************************************************************************)
(* What MutexClients guarantees for any number of threads, whether or not  *)
(* the mutex is destroyed in use.                                          *)
(***************************************************************************)
EXTENDS MutexClients, TLAPS

Inv == TypeOK /\ MutualExclusion

LEMMA InitInv == Init => Inv
  BY OwnerAssumption
     DEF Init, Inv, TypeOK, MutexTypeOK, MutexInit, MutualExclusion, Status

LEMMA LifecycleStep ==
  ASSUME Inv, Lifecycle
  PROVE  Inv'
  <1> USE DEF Inv, TypeOK, MutexTypeOK, MutualExclusion, mutexVars
  <1>1. CASE \E granted \in BOOLEAN : Create(granted)
    <2> PICK granted \in BOOLEAN : Create(granted)
      BY <1>1
    <2>1. owner = NoOwner /\ held = {} /\ UNCHANGED <<pc, ret, held>>
      BY DEF Create, Quiet
    <2>2. CASE granted
      BY <2>1, <2>2, OwnerAssumption DEF Create, InitMutex
    <2>3. CASE ~granted
      BY <2>1, <2>3, OwnerAssumption DEF Create, InitMutex, PDestroy
    <2> QED
      BY <2>2, <2>3
  <1>2. CASE Destroy
    <2>1. UNCHANGED <<owner, pc, ret, held>>
      BY <1>2 DEF Destroy, DestroyMutex, PDestroy
    <2>2. /\ is_valid' \in BOOLEAN
          /\ handle' \in {"none", "ready", "destroyed"}
          /\ is_valid' => handle' = "ready"
      <3>1. CASE PDestroy /\ is_valid' = FALSE
        BY <3>1 DEF PDestroy
      <3>2. CASE UNCHANGED mutexVars
        BY <3>2
      <3> QED
        BY <1>2, <3>1, <3>2 DEF Destroy, DestroyMutex
    <2> QED
      BY <2>1, <2>2
  <1>3. CASE Invalidate
    BY <1>3 DEF Invalidate, SetInvalid
  <1> QED
    BY <1>1, <1>2, <1>3 DEF Lifecycle

LEMMA CallStep ==
  ASSUME Inv, NEW t \in Thread, Call(t)
  PROVE  Inv'
  BY DEF Inv, TypeOK, MutexTypeOK, MutualExclusion, mutexVars, Call, Enter,
         Reject, Status

LEMMA LockStep ==
  ASSUME Inv, NEW t \in Thread,
         Acquire(t) \/ TryAcquire(t) \/ Release(t)
  PROVE  Inv'
  <1> USE OwnerAssumption
      DEF Inv, TypeOK, MutexTypeOK, MutualExclusion, Return, Status
  <1>1. CASE Acquire(t)
    BY <1>1 DEF Acquire, LockOK, PAcquire
  <1>2. CASE TryAcquire(t)
    BY <1>2 DEF TryAcquire, TryLockOK, PAcquire
  <1>3. CASE Release(t)
    BY <1>3 DEF Release, UnlockOK
  <1> QED
    BY <1>1, <1>2, <1>3

LEMMA FailStep ==
  ASSUME Inv, NEW t \in Thread,
         Refuse(t) \/ TryBusy(t) \/ TryRefuse(t) \/ RefuseUnlock(t)
  PROVE  Inv' /\ owner' = owner
  <1>1. UNCHANGED <<mutexVars, held>>
    BY DEF Refuse, LockFails, TryBusy, TryLockBusy, TryRefuse, TryLockFails,
           RefuseUnlock, UnlockFails, PInvalid, PBusy, mutexVars
  <1>2. /\ pc' = [pc EXCEPT ![t] = "idle"]
        /\ \E status \in Status : ret' = [ret EXCEPT ![t] = status]
    BY DEF Refuse, TryBusy, TryRefuse, RefuseUnlock, Return, Status
  <1> QED
    BY <1>1, <1>2 DEF Inv, TypeOK, MutexTypeOK, MutualExclusion, mutexVars

LEMMA NextInv == Inv /\ [Next]_vars => Inv'
  <1> SUFFICES ASSUME Inv, [Next]_vars PROVE Inv'
    OBVIOUS
  <1>1. CASE UNCHANGED vars
    BY <1>1 DEF vars, Inv, TypeOK, MutexTypeOK, MutualExclusion
  <1> QED
    BY <1>1, LifecycleStep, CallStep, LockStep, FailStep DEF Next, Prompt

\* Inv is an invariant of the code, for any threads and kinds of mutex.
THEOREM Invariance == Spec => []Inv
  BY InitInv, NextInv, PTL DEF Spec

\* At any time at most one thread is between its lock and its unlock, and it
\* owns the POSIX mutex.
THEOREM Exclusive == Spec => []MutualExclusion
  BY Invariance, PTL DEF Inv

\* Types, for any threads and kinds of mutex.
THEOREM TypeCorrect == Spec => []TypeOK
  BY Invariance, PTL DEF Inv

\* A consequence in the usual form.
COROLLARY NoTwoHolders ==
  Spec => [](\A t, u \in held : t = u)
  <1>1. Inv => \A t, u \in held : t = u
    BY DEF Inv, MutualExclusion
  <1> QED
    BY <1>1, Invariance, PTL

LEMMA OwnerStep ==
  ASSUME Inv, [Next]_vars, NEW t \in Thread, owner = t, owner' # t
  PROVE  pc[t] = "unlock" /\ ret'[t] = "VM_OK"
  <1> USE DEF Inv, TypeOK, MutexTypeOK, MutualExclusion, mutexVars
  <1>0. t \in held /\ owner # NoOwner
    BY OwnerAssumption
  <1>1. ~Lifecycle
    BY <1>0 DEF Lifecycle, Create, Destroy, DestroyMutex, PDestroy, Quiet,
                Invalidate, SetInvalid
  <1>2. ASSUME NEW u \in Thread, Acquire(u) \/ TryAcquire(u)
        PROVE  FALSE
    BY <1>0, <1>2 DEF Acquire, LockOK, TryAcquire, TryLockOK, PAcquire
  <1>3. ASSUME NEW u \in Thread, Call(u)
        PROVE  FALSE
    BY <1>3 DEF Call, Enter, Reject
  <1>4. ASSUME NEW u \in Thread,
               Refuse(u) \/ TryBusy(u) \/ TryRefuse(u) \/ RefuseUnlock(u)
        PROVE  FALSE
    BY <1>4, FailStep
  <1>5. PICK u \in Thread : Release(u)
    BY <1>1, <1>2, <1>3, <1>4 DEF Next, Prompt, vars
  <1> QED
    BY <1>5 DEF Release, UnlockOK, Return

\* Misuse by others does not release a mutex: only its owner's unlock does.
THEOREM ReleasedByOwner == Spec => OnlyOwnerReleases
  <1>1. Inv /\ [Next]_vars
          => [\A t \in Thread :
                owner = t /\ owner' # t => pc[t] = "unlock" /\ ret'[t] = "VM_OK"]_vars
    BY OwnerStep
  <1> QED
    BY <1>1, InitInv, NextInv, PTL DEF Spec, OnlyOwnerReleases
=============================================================================
