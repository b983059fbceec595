------------------------------ MODULE VmMutex ------------------------------
(***************************************************************************)
(* The mutex object of vm_mutex_linux32.c: libvm's validity flag in front  *)
(* of an error-checking POSIX mutex.  Every function first tests the flag, *)
(* without any lock, and then calls pthread; the pieces below are the      *)
(* pthread calls with what the function makes of their result.  The POSIX  *)
(* mutex is external: the operators whose name starts with P say what a    *)
(* call on it does, as vm_mutex_linux32.c relies on it.                    *)
(***************************************************************************)
CONSTANTS Thread, NoOwner

ASSUME OwnerAssumption == NoOwner \notin Thread

VARIABLES
  is_valid,    \* the flag
  handle,      \* the POSIX mutex: "none", "ready" or "destroyed"
  owner        \* the thread that has locked it, or NoOwner

mutexVars == <<is_valid, handle, owner>>

MutexTypeOK ==
  /\ is_valid \in BOOLEAN
  /\ handle \in {"none", "ready", "destroyed"}
  /\ owner \in Thread \union {NoOwner}

\* Only an initialised mutex is ever locked by a call that starts then.
MutexInit ==
  /\ is_valid = FALSE
  /\ handle = "none"
  /\ owner = NoOwner

-----------------------------------------------------------------------------
\* POSIX.  A blocked pthread_mutex_lock can take over a mutex that is
\* destroyed under it; a later one gets EINVAL.  Destroying a locked mutex
\* fails with EBUSY and changes nothing.
PAcquire(t) ==
  /\ owner = NoOwner
  /\ handle # "none"
  /\ owner' = t
  /\ UNCHANGED handle

PInvalid == handle # "ready" /\ UNCHANGED <<handle, owner>>

PBusy == owner # NoOwner /\ UNCHANGED <<handle, owner>>

PDestroy ==
  /\ handle' = IF owner = NoOwner THEN "destroyed" ELSE handle
  /\ UNCHANGED owner

-----------------------------------------------------------------------------
SetInvalid ==
  /\ is_valid' = FALSE
  /\ UNCHANGED <<handle, owner>>

\* vm_mutex_destroy: the result of pthread_mutex_destroy is not looked at.
DestroyMutex ==
  \/ is_valid /\ PDestroy /\ is_valid' = FALSE
  \/ ~is_valid /\ UNCHANGED mutexVars

\* vm_mutex_init destroys what it finds and then asks for a new mutex, which
\* the system may refuse.
InitMutex(granted) ==
  /\ is_valid' = granted
  /\ \/ granted /\ handle' = "ready" /\ owner' = NoOwner
     \/ ~granted /\ is_valid /\ PDestroy
     \/ ~granted /\ ~is_valid /\ UNCHANGED <<handle, owner>>

LockOK(t) ==
  /\ PAcquire(t)
  /\ UNCHANGED is_valid

BugLockFails(t) ==
  /\ PInvalid
  /\ UNCHANGED is_valid

\* VM_OPERATION_FAILED: EDEADLK for the owner, or EINVAL.
LockFails(t) ==
  /\ \/ owner = t /\ UNCHANGED <<handle, owner>>
     \/ PInvalid
  /\ UNCHANGED is_valid

BugTryLockOK(t) ==
  /\ owner' = t
  /\ UNCHANGED <<is_valid, handle>>

TryLockOK(t) ==
  /\ handle = "ready"
  /\ PAcquire(t)
  /\ UNCHANGED is_valid

\* VM_TIMEOUT: EBUSY, for the owner as for others.
TryLockBusy ==
  /\ PBusy
  /\ UNCHANGED is_valid

TryLockFails ==
  /\ PInvalid
  /\ UNCHANGED is_valid

UnlockOK(t) ==
  /\ owner = t
  /\ handle = "ready"
  /\ owner' = NoOwner
  /\ UNCHANGED <<is_valid, handle>>

BugUnlockFails(t) ==
  /\ owner' = NoOwner
  /\ UNCHANGED <<is_valid, handle>>

\* VM_OPERATION_FAILED: EPERM for a thread that is not the owner, or EINVAL.
UnlockFails(t) ==
  /\ \/ owner # t /\ UNCHANGED <<handle, owner>>
     \/ PInvalid
  /\ UNCHANGED is_valid
=============================================================================
