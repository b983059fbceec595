---------------------------- MODULE MutexClients ---------------------------
(***************************************************************************)
(* Threads that call the functions of vm_mutex_linux32.c on one mutex, in  *)
(* any order and with any mistake: locking twice, unlocking what they do   *)
(* not hold, destroying what is in use.                                    *)
(***************************************************************************)
EXTENDS VmMutex

CONSTANT DestroyInUse     \* TRUE: the mutex may be destroyed while in use

ASSUME UseAssumption == DestroyInUse \in BOOLEAN

VARIABLES
  pc,       \* pc[t]: the function t is in, past its validity test, or "idle"
  ret,      \* ret[t]: the status of t's last call, "none" while it runs
  held      \* history: the threads whose lock succeeded and no unlock since

vars == <<is_valid, handle, owner, pc, ret, held>>

CallName == {"lock", "try_lock", "unlock"}
Status == {"none", "VM_OK", "VM_TIMEOUT", "VM_OPERATION_FAILED",
           "VM_NOT_INITIALIZED"}

TypeOK ==
  /\ MutexTypeOK
  /\ pc \in [Thread -> CallName \union {"idle"}]
  /\ ret \in [Thread -> Status]
  /\ held \subseteq Thread
  /\ is_valid => handle = "ready"

\* A mutex starts its life with vm_mutex_set_invalid.
Init ==
  /\ MutexInit
  /\ pc = [t \in Thread |-> "idle"]
  /\ ret = [t \in Thread |-> "none"]
  /\ held = {}

-----------------------------------------------------------------------------
\* Nobody is inside a call and nobody holds the mutex.
Quiet == held = {} /\ \A t \in Thread : pc[t] = "idle"

\* Creating a mutex in use makes two of one: callers never do.
Create(granted) ==
  /\ Quiet
  /\ InitMutex(granted)
  /\ UNCHANGED <<pc, ret, held>>

Destroy ==
  /\ DestroyInUse \/ Quiet
  /\ DestroyMutex
  /\ UNCHANGED <<pc, ret, held>>

Invalidate ==
  /\ Quiet
  /\ SetInvalid
  /\ UNCHANGED <<pc, ret, held>>

-----------------------------------------------------------------------------
\* The unlocked test of is_valid passes.
Enter(t, f) ==
  /\ pc[t] = "idle"
  /\ is_valid
  /\ pc' = [pc EXCEPT ![t] = f]
  /\ ret' = [ret EXCEPT ![t] = "none"]
  /\ UNCHANGED <<mutexVars, held>>

\* The unlocked test fails: the call returns at once.
Reject(t, f) ==
  /\ pc[t] = "idle"
  /\ ~is_valid
  /\ ret' = [ret EXCEPT ![t] = "VM_NOT_INITIALIZED"]
  /\ UNCHANGED <<mutexVars, pc, held>>

Return(t, status) ==
  /\ pc' = [pc EXCEPT ![t] = "idle"]
  /\ ret' = [ret EXCEPT ![t] = status]

Acquire(t) ==
  /\ pc[t] = "lock"
  /\ LockOK(t)
  /\ Return(t, "VM_OK")
  /\ held' = held \union {t}

Refuse(t) ==
  /\ pc[t] = "lock"
  /\ LockFails(t)
  /\ Return(t, "VM_OPERATION_FAILED")
  /\ UNCHANGED held

TryAcquire(t) ==
  /\ pc[t] = "try_lock"
  /\ TryLockOK(t)
  /\ Return(t, "VM_OK")
  /\ held' = held \union {t}

TryBusy(t) ==
  /\ pc[t] = "try_lock"
  /\ TryLockBusy
  /\ Return(t, "VM_TIMEOUT")
  /\ UNCHANGED held

TryRefuse(t) ==
  /\ pc[t] = "try_lock"
  /\ TryLockFails
  /\ Return(t, "VM_OPERATION_FAILED")
  /\ UNCHANGED held

Release(t) ==
  /\ pc[t] = "unlock"
  /\ UnlockOK(t)
  /\ Return(t, "VM_OK")
  /\ held' = held \ {t}

RefuseUnlock(t) ==
  /\ pc[t] = "unlock"
  /\ UnlockFails(t)
  /\ Return(t, "VM_OPERATION_FAILED")
  /\ UNCHANGED held

-----------------------------------------------------------------------------
\* What a thread inside a call does next; only Acquire may have to wait.
Prompt(t) ==
  \/ Refuse(t)
  \/ TryAcquire(t)
  \/ TryBusy(t)
  \/ TryRefuse(t)
  \/ Release(t)
  \/ RefuseUnlock(t)

Call(t) == \E f \in CallName : Enter(t, f) \/ Reject(t, f)

Lifecycle ==
  \/ \E granted \in BOOLEAN : Create(granted)
  \/ Destroy
  \/ Invalidate

Next ==
  \/ Lifecycle
  \/ \E t \in Thread : Call(t) \/ Acquire(t) \/ Prompt(t)

Spec == Init /\ [][Next]_vars

\* Running threads run; a holder unlocks some day; POSIX does not promise
\* first come, first served, but a mutex that keeps becoming free does not
\* pass the same waiter over for ever.
Fairness == \A t \in Thread :
  /\ WF_vars(Prompt(t))
  /\ SF_vars(Acquire(t))
  /\ SF_vars(t \in held /\ Enter(t, "unlock"))

FairSpec == Spec /\ Fairness

-----------------------------------------------------------------------------
\* "Lock the mutex": the threads between a successful lock and a successful
\* unlock are exactly the owner of the POSIX mutex, one thread or none, even
\* when the mutex is destroyed under them.
MutualExclusion == held = {t \in Thread : owner = t}

\* Nobody but the owner gives the mutex up: an unlock by another thread, a
\* second lock and a destruction of the mutex in use leave the owner alone.
OnlyOwnerReleases ==
  [][\A t \in Thread :
       owner = t /\ owner' # t => pc[t] = "unlock" /\ ret'[t] = "VM_OK"]_vars

\* "Lock the mutex with blocking": every lock returns, that of the owner too,
\* provided holders unlock and nobody destroys the mutex in use (its holder's
\* unlock would be refused from then on).
LockReturns ==
  \A t \in Thread : (pc[t] = "lock") ~> (pc[t] = "idle" \/ ~is_valid)
=============================================================================
