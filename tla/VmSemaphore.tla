---------------------------- MODULE VmSemaphore ----------------------------
(***************************************************************************)
(* The semaphore object of vm_semaphore_linux32.c: its count and the body  *)
(* of each function between pthread_mutex_lock and pthread_mutex_unlock.   *)
(* As in VmEvent a body is one atomic step, cut only at the condition      *)
(* wait.  Operators named Bug... are mistakes a maintainer could make;     *)
(* nothing uses them but the sensitivity runs the README describes.        *)
(***************************************************************************)
EXTENDS Integers, PthreadCond

VARIABLE count     \* the value; negative means invalid

semVars == <<count, asleep, woken, expired>>

\* The test every function makes before it takes the mutex.
IsValid == count >= 0

SetInvalid ==
  /\ count' = -1
  /\ UNCHANGED condVars

\* vm_semaphore_init takes any count, a negative one included.
InitSem(c) ==
  /\ count' = c
  /\ CondRenew

BugPostBody ==
  /\ count' = count + 1
  /\ \/ count = 1 /\ CondSignal
     \/ count # 1 /\ UNCHANGED condVars

\* if (0 == sem->count++) pthread_cond_signal
PostBody ==
  /\ count' = count + 1
  /\ \/ count = 0 /\ CondSignal
     \/ count # 0 /\ UNCHANGED condVars

\* A wait finds the count at zero and blocks.
WaitBlock(t) ==
  /\ count = 0
  /\ Sleep(t)
  /\ UNCHANGED count

\* A wait, or a try_wait, does not find it at zero.
WaitThrough ==
  /\ count # 0
  /\ count' = count - 1
  /\ UNCHANGED condVars

\* The condition wait returns 0: the count is not looked at again.
WaitWoken(t) ==
  /\ ReturnWoken(t)
  /\ count' = count - 1

BugWaitExpired(t) ==
  /\ ReturnExpired(t)
  /\ count' = count - 1

\* The condition wait returns ETIMEDOUT: nothing is taken.
WaitExpired(t) ==
  /\ ReturnExpired(t)
  /\ UNCHANGED count

\* try_wait finds the count at zero.
TryFails ==
  /\ count = 0
  /\ UNCHANGED semVars

DestroySem ==
  /\ count' = IF count >= 0 THEN -1 ELSE count
  /\ UNCHANGED condVars
=============================================================================
