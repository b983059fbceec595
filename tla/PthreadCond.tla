---------------------------- MODULE PthreadCond ----------------------------
(***************************************************************************)
(* The POSIX condition variable as libvm uses it: an external component.   *)
(*                                                                         *)
(* libvm blocks on a condition variable in vm_event_linux32.c and          *)
(* vm_semaphore_linux32.c, always with the object's own mutex held.  A     *)
(* thread inside pthread_cond_(timed)wait is in one of three sets:         *)
(*   asleep   blocked in the queue, the mutex released;                    *)
(*   woken    taken off the queue, about to lock the mutex again and to    *)
(*            return 0;                                                    *)
(*   expired  its deadline passed, about to lock the mutex again and to    *)
(*            return ETIMEDOUT.                                            *)
(* Between leaving the queue and locking the mutex anything may happen to  *)
(* the object: that gap is what makes these primitives hard.               *)
(***************************************************************************)

CONSTANT Thread    \* the threads of the process

VARIABLES asleep, woken, expired

condVars == <<asleep, woken, expired>>

\* The threads inside pthread_cond_wait or pthread_cond_timedwait.
Blocked == asleep \union woken \union expired

CondTypeOK ==
  /\ asleep \subseteq Thread
  /\ woken \subseteq Thread
  /\ expired \subseteq Thread

\* A thread is at one place of the call.
CondDisjoint ==
  /\ asleep \intersect woken = {}
  /\ asleep \intersect expired = {}
  /\ woken \intersect expired = {}

CondInit ==
  /\ asleep = {}
  /\ woken = {}
  /\ expired = {}

\* pthread_cond_init on memory that may hold anything.
CondRenew ==
  /\ asleep' = {}
  /\ woken' = {}
  /\ expired' = {}

\* Entering the call: release the mutex and block, in one atomic step.
Sleep(t) ==
  /\ asleep' = asleep \union {t}
  /\ UNCHANGED <<woken, expired>>

\* pthread_cond_signal: any one blocked thread, none if nobody is blocked.
CondSignal ==
  \/ /\ asleep = {}
     /\ UNCHANGED condVars
  \/ \E t \in asleep :
       /\ asleep' = asleep \ {t}
       /\ woken' = woken \union {t}
       /\ UNCHANGED expired

\* pthread_cond_broadcast.
CondBroadcast ==
  /\ asleep' = {}
  /\ woken' = woken \union asleep
  /\ UNCHANGED expired

\* POSIX lets the call return 0 although nobody signalled.
SpuriousWakeup(t) ==
  /\ t \in asleep
  /\ asleep' = asleep \ {t}
  /\ woken' = woken \union {t}
  /\ UNCHANGED expired

\* The deadline of a timed wait passes.
Expire(t) ==
  /\ t \in asleep
  /\ asleep' = asleep \ {t}
  /\ expired' = expired \union {t}
  /\ UNCHANGED woken

\* The call returns, with the mutex held again.
ReturnWoken(t) ==
  /\ t \in woken
  /\ woken' = woken \ {t}
  /\ UNCHANGED <<asleep, expired>>

ReturnExpired(t) ==
  /\ t \in expired
  /\ expired' = expired \ {t}
  /\ UNCHANGED <<asleep, woken>>
=============================================================================
