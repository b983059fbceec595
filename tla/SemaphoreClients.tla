-------------------------- MODULE SemaphoreClients -------------------------
(***************************************************************************)
(* Threads that call the functions of vm_semaphore_linux32.c on one        *)
(* semaphore, in any order: the unlocked validity test, then the body, and *)
(* after a condition wait the rest of the body.  Whether the condition     *)
(* wait may return unsignalled is a constant: POSIX lets it, and most of   *)
(* what a semaphore should promise the code keeps only until it happens:   *)
(* the properties say so with a history variable.                          *)
(***************************************************************************)
EXTENDS VmSemaphore

CONSTANTS
  Taker,               \* the threads that may decrement
  TakeCall,            \* the decrementing functions they call
  InitCount,           \* the counts semaphores are created with
  SpuriousWakeups,     \* TRUE: pthread_cond_wait may return unsignalled
  MaxCount             \* bound: nobody starts a post from this count up

ASSUME ClientAssumption ==
  /\ Taker \subseteq Thread
  /\ TakeCall \subseteq {"wait", "timedwait", "try_wait"}
  /\ InitCount \subseteq Int
  /\ SpuriousWakeups \in BOOLEAN
  /\ MaxCount \in Nat

VARIABLES
  pc,      \* pc[t]: the function t is in, "idle" outside
  ret,     \* ret[t]: the status of t's last call, "none" while it runs
  unsignalled  \* history: a condition wait has returned unsignalled

vars == <<count, asleep, woken, expired, pc, ret, unsignalled>>

Status == {"none", "VM_OK", "VM_TIMEOUT", "VM_NOT_INITIALIZED"}

TypeOK ==
  /\ count \in Int
  /\ CondTypeOK
  /\ pc \in [Thread -> TakeCall \union {"post", "idle"}]
  /\ ret \in [Thread -> Status]
  /\ unsignalled \in BOOLEAN
  /\ CondDisjoint
  /\ \A t \in Blocked : pc[t] \in {"wait", "timedwait"}
  /\ \A t \in expired : pc[t] = "timedwait"

\* A semaphore starts its life with vm_semaphore_set_invalid.
Init ==
  /\ count = -1
  /\ CondInit
  /\ pc = [t \in Thread |-> "idle"]
  /\ ret = [t \in Thread |-> "none"]
  /\ unsignalled = FALSE

-----------------------------------------------------------------------------
\* Creation and destruction take no lock: callers make these calls only when
\* no other call is under way.
Quiet == \A t \in Thread : pc[t] = "idle"

Create(c) ==
  /\ Quiet
  /\ InitSem(c)
  /\ UNCHANGED <<pc, ret, unsignalled>>

Destroy ==
  /\ Quiet
  /\ DestroySem
  /\ UNCHANGED <<pc, ret, unsignalled>>

Invalidate ==
  /\ Quiet
  /\ SetInvalid
  /\ UNCHANGED <<pc, ret, unsignalled>>

-----------------------------------------------------------------------------
MayCall(t, f) ==
  /\ pc[t] = "idle"
  /\ f # "post" => t \in Taker

\* The unlocked test of count passes.
Enter(t, f) ==
  /\ MayCall(t, f)
  /\ IsValid
  /\ f = "post" => count < MaxCount
  /\ pc' = [pc EXCEPT ![t] = f]
  /\ ret' = [ret EXCEPT ![t] = "none"]
  /\ UNCHANGED <<semVars, unsignalled>>

\* The unlocked test fails: the call returns at once.
Reject(t, f) ==
  /\ MayCall(t, f)
  /\ ~IsValid
  /\ ret' = [ret EXCEPT ![t] = "VM_NOT_INITIALIZED"]
  /\ UNCHANGED <<semVars, pc, unsignalled>>

Return(t, status) ==
  /\ pc' = [pc EXCEPT ![t] = "idle"]
  /\ ret' = [ret EXCEPT ![t] = status]
  /\ UNCHANGED unsignalled

Post(t) ==
  /\ pc[t] = "post"
  /\ PostBody
  /\ Return(t, "VM_OK")

\* A take that has made the test and has not blocked yet.
AtBody(t) == pc[t] \in TakeCall /\ t \notin Blocked

Block(t) ==
  /\ AtBody(t) /\ pc[t] # "try_wait"
  /\ WaitBlock(t)
  /\ UNCHANGED <<pc, ret, unsignalled>>

Fail(t) ==
  /\ AtBody(t) /\ pc[t] = "try_wait"
  /\ TryFails
  /\ Return(t, "VM_TIMEOUT")

Through(t) ==
  /\ AtBody(t)
  /\ WaitThrough
  /\ Return(t, "VM_OK")

Woken(t) ==
  /\ WaitWoken(t)
  /\ Return(t, "VM_OK")

TimedOut(t) ==
  /\ WaitExpired(t)
  /\ Return(t, "VM_TIMEOUT")

-----------------------------------------------------------------------------
\* Steps of the operating system.
DeadlinePasses(t) ==
  /\ pc[t] = "timedwait"
  /\ Expire(t)
  /\ UNCHANGED <<count, pc, ret, unsignalled>>

WakeSpuriously(t) ==
  /\ SpuriousWakeups
  /\ SpuriousWakeup(t)
  /\ unsignalled' = TRUE
  /\ UNCHANGED <<count, pc, ret>>

-----------------------------------------------------------------------------
\* What a thread inside a call does next.
Step(t) ==
  \/ Post(t)
  \/ Block(t)
  \/ Fail(t)
  \/ Through(t)
  \/ Woken(t)
  \/ TimedOut(t)

Call(t) == \E f \in TakeCall \union {"post"} : Enter(t, f) \/ Reject(t, f)

Lifecycle ==
  \/ \E c \in InitCount : Create(c)
  \/ Destroy
  \/ Invalidate

Next ==
  \/ Lifecycle
  \/ \E t \in Thread :
       Call(t) \/ Step(t) \/ DeadlinePasses(t) \/ WakeSpuriously(t)

Spec == Init /\ [][Next]_vars

\* The scheduler runs every thread that can run, and clocks advance.  Nobody
\* has to call anything.
Fairness == \A t \in Thread : WF_vars(Step(t)) /\ WF_vars(DeadlinePasses(t))

FairSpec == Spec /\ Fairness

-----------------------------------------------------------------------------
\* A semaphore in use stays valid: no take drives the count below zero, where
\* every function takes the semaphore for a destroyed one.  Kept for one taker,
\* and for pollers, until a condition wait returns unsignalled: the taker then
\* takes a unit that may not be there.  A second taker breaks it too.
CallsOnValidSemaphore ==
  ~unsignalled /\ (\E t \in Thread : pc[t] # "idle") => IsValid

\* A sleeper and a unit to take do not coexist unless a woken waiter is about
\* to take it: the signal of vm_semaphore_post is enough for one taker,
\* spurious wakeups or not.
NoLostWakeup == asleep # {} /\ count > 0 => woken # {}

\* "Decrease the semaphore value with blocking" (vm_semaphore.h): a take
\* under way on a semaphore with a positive value ends.
TakeReturns ==
  \A t \in Thread :
    (pc[t] \in TakeCall /\ count > 0) ~> (pc[t] = "idle" \/ count <= 0)

\* What the semaphore promises, until a condition wait returns unsignalled:
\* AbstractSemaphore.
Abstract == INSTANCE AbstractSemaphore WITH
  value  <- IF count >= 0 THEN count ELSE 0,
  live   <- count >= 0

ImplementsAbstract ==
  /\ Abstract!Init
  /\ [][~unsignalled' => [Abstract!Next]_(Abstract!vars)]_vars
=============================================================================
