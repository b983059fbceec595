----------------------- MODULE SemaphoreClientsProofs ----------------------
(***************************************************************************)
(* What SemaphoreClients guarantees for any number of threads, any initial *)
(* count and any bound on posts.  Types hold for every use.  To one taker, *)
(* or to pollers, no wakeup is lost; and the count stays right until a     *)
(* condition wait returns unsignalled, which POSIX permits.  The runs that *)
(* end in a violation show what a second taker does.                       *)
(***************************************************************************)
EXTENDS SemaphoreClients, TLAPS

OneTaker == \A t, u \in Taker : t = u

PollersOnly == TakeCall \subseteq {"try_wait"}

\* One thread takes, or nobody blocks.
SafeUse == OneTaker \/ PollersOnly

\* Only takers are inside the taking functions.
TakersTake == \A t \in Thread : pc[t] \notin {"idle", "post"} => t \in Taker

LEMMA TypeInit == Init => TypeOK /\ TakersTake
  <1> SUFFICES ASSUME Init
               PROVE  TypeOK /\ TakersTake
    OBVIOUS
  <1>1. unsignalled \in BOOLEAN
    BY DEF Init
  <1> QED
    BY <1>1, ClientAssumption
       DEF Init, TypeOK, TakersTake, CondTypeOK, CondInit, CondDisjoint, Blocked,
           Status

LEMMA TypeLifecycle ==
  ASSUME TypeOK, TakersTake, Lifecycle
  PROVE  TypeOK' /\ TakersTake'
  <1> USE DEF TypeOK, TakersTake, CondTypeOK, CondDisjoint, Blocked, condVars
  <1>1. CASE \E c \in InitCount : Create(c)
    BY <1>1, ClientAssumption DEF Create, InitSem, CondRenew
  <1>2. CASE Destroy
    BY <1>2 DEF Destroy, DestroySem
  <1>3. CASE Invalidate
    BY <1>3 DEF Invalidate, SetInvalid
  <1> QED
    BY <1>1, <1>2, <1>3 DEF Lifecycle

LEMMA TypeCall ==
  ASSUME TypeOK, TakersTake, NEW t \in Thread, Call(t)
  PROVE  TypeOK' /\ TakersTake'
  <1> USE DEF TypeOK, TakersTake, CondTypeOK, CondDisjoint, Blocked, condVars,
              semVars, Status
  <1> PICK f \in TakeCall \union {"post"} : Enter(t, f) \/ Reject(t, f)
    BY DEF Call
  <1>1. CASE Enter(t, f)
    BY <1>1, ClientAssumption DEF Enter, MayCall
  <1>2. CASE Reject(t, f)
    BY <1>2 DEF Reject, MayCall
  <1> QED
    BY <1>1, <1>2

LEMMA TypeStep ==
  ASSUME TypeOK, TakersTake, NEW t \in Thread, Step(t)
  PROVE  TypeOK' /\ TakersTake'
  <1> USE DEF TypeOK, TakersTake, CondTypeOK, CondDisjoint, Blocked, condVars,
              semVars, Status, Return
  <1>1. CASE Post(t)
    BY <1>1 DEF Post, PostBody, CondSignal
  <1>2. CASE Block(t)
    BY <1>2, ClientAssumption DEF Block, AtBody, WaitBlock, Sleep
  <1>3. CASE Fail(t)
    BY <1>3 DEF Fail, AtBody, TryFails
  <1>4. CASE Through(t)
    BY <1>4 DEF Through, AtBody, WaitThrough
  <1>5. CASE Woken(t)
    BY <1>5 DEF Woken, WaitWoken, ReturnWoken
  <1>6. CASE TimedOut(t)
    BY <1>6 DEF TimedOut, WaitExpired, ReturnExpired
  <1> QED
    BY <1>1, <1>2, <1>3, <1>4, <1>5, <1>6 DEF Step

LEMMA TypeNext == TypeOK /\ TakersTake /\ [Next]_vars => TypeOK' /\ TakersTake'
  <1> SUFFICES ASSUME TypeOK, TakersTake, [Next]_vars
               PROVE  TypeOK' /\ TakersTake'
    OBVIOUS
  <1>1. ASSUME NEW t \in Thread, DeadlinePasses(t)
        PROVE  TypeOK' /\ TakersTake'
    BY <1>1 DEF DeadlinePasses, Expire, TypeOK, TakersTake, CondTypeOK,
                CondDisjoint, Blocked
  <1>2. CASE UNCHANGED vars
    BY <1>2 DEF vars, TypeOK, TakersTake, CondTypeOK, CondDisjoint, Blocked
  <1>3. ASSUME NEW t \in Thread, WakeSpuriously(t)
        PROVE  TypeOK' /\ TakersTake'
    BY <1>3 DEF WakeSpuriously, SpuriousWakeup, TypeOK, TakersTake, CondTypeOK,
                CondDisjoint, Blocked
  <1> QED
    BY <1>1, <1>2, <1>3, TypeLifecycle, TypeCall, TypeStep DEF Next

\* Types, and where the threads inside a condition wait are, for every use.
THEOREM TypeCorrect == Spec => []TypeOK
  BY TypeInit, TypeNext, PTL DEF Spec

-----------------------------------------------------------------------------
\* Only an unsignalled wakeup writes the history variable.
LEMMA HistoryKept ==
  ASSUME \/ Lifecycle
         \/ \E t \in Thread : Call(t) \/ Step(t) \/ DeadlinePasses(t)
         \/ UNCHANGED vars
  PROVE  unsignalled' = unsignalled
  BY DEF Lifecycle, Create, Destroy, Invalidate, Call, Enter, Reject, Step, Post,
         Block, Fail, Through, Woken, TimedOut, Return, DeadlinePasses, vars

\* What holds in safe use as long as every wakeup was signalled: a woken waiter
\* has a unit to take, and a sleeper none.
Inv ==
  /\ TypeOK
  /\ TakersTake
  /\ ~unsignalled
  /\ CallsOnValidSemaphore
  /\ woken # {} => count >= 1
  /\ asleep # {} => count = 0

\* The inductive invariant.
IInv == TypeOK /\ TakersTake /\ (unsignalled \/ Inv)

\* A thread inside a condition wait is then the only taker there is, and no
\* poller.
LEMMA OneBlocked ==
  ASSUME SafeUse, TypeOK, TakersTake, NEW t \in Blocked
  PROVE  /\ ~PollersOnly
         /\ \A u \in Thread : pc[u] \notin {"idle", "post"} => u = t
  <1>1. t \in Thread /\ pc[t] \in {"wait", "timedwait"}
    BY DEF TypeOK, CondTypeOK, Blocked
  <1>2. t \in Taker
    BY <1>1 DEF TakersTake
  <1>3. ~PollersOnly
    BY <1>1 DEF PollersOnly, TypeOK
  <1> QED
    BY <1>2, <1>3 DEF SafeUse, OneTaker, TakersTake

LEMMA InvLifecycle ==
  ASSUME Inv, Lifecycle
  PROVE  CallsOnValidSemaphore' /\ asleep' = {} /\ woken' = {}
  <1>1. \A t \in Thread : pc[t] = "idle" /\ pc'[t] = "idle"
    BY DEF Lifecycle, Create, Destroy, Invalidate, Quiet
  <1>2. Blocked = {}
    BY <1>1 DEF Inv, TypeOK, CondTypeOK, Blocked
  <1> QED
    BY <1>1, <1>2
       DEF CallsOnValidSemaphore, Blocked, Lifecycle, Create, InitSem,
           CondRenew, Destroy, DestroySem, Invalidate, SetInvalid, condVars

LEMMA InvStep ==
  ASSUME SafeUse, Inv, NEW t \in Thread, Step(t)
  PROVE  /\ count' >= 0
         /\ woken' # {} => count' >= 1
         /\ asleep' # {} => count' = 0
  <1>0. pc[t] # "idle" /\ count \in Nat
    <2>1. pc[t] # "idle"
      BY ClientAssumption
         DEF Inv, TypeOK, CondTypeOK, Blocked, Step, Post, Block, Fail, Through,
             Woken, TimedOut, AtBody, WaitWoken, ReturnWoken, WaitExpired,
             ReturnExpired
    <2> QED
      BY <2>1 DEF Inv, TypeOK, CallsOnValidSemaphore, IsValid
  <1>1. CASE Post(t)
    <2>1. \A u, v \in asleep : u = v
      BY OneBlocked DEF Inv, TypeOK, CondTypeOK, Blocked
    <2> QED
      BY <1>0, <1>1, <2>1 DEF Inv, Post, PostBody, CondSignal, condVars
  <1>2. CASE Block(t)
    BY <1>0, <1>2 DEF Inv, Block, WaitBlock, Sleep
  <1>3. CASE Fail(t)
    BY <1>0, <1>3 DEF Inv, Fail, TryFails, semVars
  <1>4. CASE Through(t)
    <2>1. t \notin Blocked /\ pc[t] \notin {"idle", "post"}
      BY <1>4, <1>0, ClientAssumption DEF Through, AtBody
    <2>2. Blocked = {}
      BY <2>1, OneBlocked DEF Inv
    <2> QED
      BY <1>0, <1>4, <2>2 DEF Through, WaitThrough, Blocked, condVars
  <1>5. CASE Woken(t)
    <2>1. t \in woken /\ woken' = woken \ {t} /\ asleep' = asleep
      BY <1>5 DEF Woken, WaitWoken, ReturnWoken
    <2>2. \A u \in Blocked : u = t
      BY <2>1, OneBlocked DEF Inv, TypeOK, CondTypeOK, Blocked
    <2>3. woken' = {} /\ asleep' = {}
      BY <2>1, <2>2 DEF Inv, TypeOK, CondDisjoint, Blocked
    <2> QED
      BY <1>0, <1>5, <2>1, <2>3 DEF Inv, Woken, WaitWoken
  <1>6. CASE TimedOut(t)
    BY <1>0, <1>6 DEF Inv, TimedOut, WaitExpired, ReturnExpired
  <1> QED
    BY <1>1, <1>2, <1>3, <1>4, <1>5, <1>6 DEF Step

LEMMA InvNext ==
  ASSUME SafeUse, Inv, [Next]_vars
  PROVE  Inv' \/ unsignalled'
  <1>0. TypeOK' /\ TakersTake'
    BY TypeNext DEF Inv
  <1>1. CASE Lifecycle
    BY <1>0, <1>1, InvLifecycle, HistoryKept DEF Inv
  <1>2. ASSUME NEW t \in Thread, Call(t)
        PROVE  Inv'
    <2>1. ~unsignalled'
      BY <1>2, HistoryKept DEF Inv
    <2> QED
      BY <1>0, <1>2, <2>1
         DEF Inv, Call, Enter, Reject, CallsOnValidSemaphore, IsValid, semVars
  <1>3. ASSUME NEW t \in Thread, Step(t)
        PROVE  Inv'
    <2>1. ~unsignalled'
      BY <1>3, HistoryKept DEF Inv
    <2> QED
      BY <1>0, <1>3, <2>1, InvStep DEF Inv, CallsOnValidSemaphore, IsValid
  <1>4. ASSUME NEW t \in Thread, DeadlinePasses(t)
        PROVE  Inv'
    BY <1>0, <1>4
       DEF Inv, DeadlinePasses, Expire, CallsOnValidSemaphore, IsValid
  <1>5. CASE UNCHANGED vars
    BY <1>0, <1>5 DEF Inv, CallsOnValidSemaphore, IsValid, vars
  <1>6. ASSUME NEW t \in Thread, WakeSpuriously(t)
        PROVE  unsignalled'
    BY <1>6 DEF WakeSpuriously
  <1> QED
    BY <1>1, <1>2, <1>3, <1>4, <1>5, <1>6 DEF Next

LEMMA InvInit == Init => Inv
  BY TypeInit DEF Inv, Init, CondInit, CallsOnValidSemaphore

\* What holds until a wakeup is unsignalled is an invariant of safe use.
THEOREM Invariance ==
  ASSUME SafeUse
  PROVE  Spec => []IInv
  <1>1. Init => IInv
    BY InvInit, TypeInit DEF IInv
  <1>2. IInv /\ [Next]_vars => IInv'
    <2> SUFFICES ASSUME IInv, [Next]_vars PROVE IInv'
      OBVIOUS
    <2>1. TypeOK' /\ TakersTake'
      BY TypeNext DEF IInv
    <2>2. unsignalled => unsignalled'
      BY HistoryKept DEF Next, WakeSpuriously
    <2> QED
      BY <2>1, <2>2, InvNext DEF IInv
  <1> QED
    BY <1>1, <1>2, PTL DEF Spec

\* With pollers only, or with one taker, a semaphore in use never looks
\* destroyed, whatever is posted and taken, until a condition wait returns
\* unsignalled.
THEOREM StaysValid ==
  ASSUME SafeUse
  PROVE  Spec => []CallsOnValidSemaphore
  <1>1. IInv => CallsOnValidSemaphore
    BY DEF IInv, Inv, CallsOnValidSemaphore
  <1> QED
    BY <1>1, Invariance, PTL

\* The other half holds with spurious wakeups too: the count may go below zero
\* then, but nobody sleeps while it is positive.
NoSleeperOnUnits == asleep # {} => count <= 0

LEMMA NoSleeperNext ==
  ASSUME SafeUse, TypeOK, TakersTake, NoSleeperOnUnits, [Next]_vars
  PROVE  NoSleeperOnUnits'
  <1> USE DEF NoSleeperOnUnits
  <1>0. count \in Int
    BY DEF TypeOK
  <1>1. CASE Lifecycle
    <2>1. Quiet
      BY <1>1 DEF Lifecycle, Create, Destroy, Invalidate
    <2>2. Blocked = {}
      BY <2>1 DEF Quiet, TypeOK, CondTypeOK, Blocked
    <2> QED
      BY <1>1, <2>2 DEF Blocked, Lifecycle, Create, InitSem, CondRenew, Destroy,
                        DestroySem, Invalidate, SetInvalid, condVars
  <1>2. ASSUME NEW t \in Thread, Call(t)
        PROVE  NoSleeperOnUnits'
    BY <1>2 DEF Call, Enter, Reject, semVars
  <1>3. ASSUME NEW t \in Thread, Step(t)
        PROVE  NoSleeperOnUnits'
    <2>1. CASE Post(t)
      <3>1. \A u, v \in asleep : u = v
        BY OneBlocked DEF TypeOK, CondTypeOK, Blocked
      <3> QED
        BY <1>0, <2>1, <3>1 DEF Post, PostBody, CondSignal, condVars
    <2>2. CASE Block(t)
      BY <2>2 DEF Block, WaitBlock
    <2>3. CASE Fail(t) \/ Through(t)
      BY <1>0, <2>3 DEF Fail, TryFails, Through, WaitThrough, semVars, condVars
    <2>4. CASE Woken(t) \/ TimedOut(t)
      BY <1>0, <2>4 DEF Woken, WaitWoken, ReturnWoken, TimedOut, WaitExpired,
                        ReturnExpired
    <2> QED
      BY <1>3, <2>1, <2>2, <2>3, <2>4 DEF Step
  <1>4. ASSUME NEW t \in Thread, DeadlinePasses(t) \/ WakeSpuriously(t)
        PROVE  NoSleeperOnUnits'
    BY <1>4 DEF DeadlinePasses, Expire, WakeSpuriously, SpuriousWakeup
  <1>5. CASE UNCHANGED vars
    BY <1>5 DEF vars
  <1> QED
    BY <1>1, <1>2, <1>3, <1>4, <1>5 DEF Next

\* With one taker, or with pollers only, no wakeup is lost, spurious ones or
\* not.
THEOREM WakeupNotLost ==
  ASSUME SafeUse
  PROVE  Spec => []NoLostWakeup
  <1> DEFINE J == TypeOK /\ TakersTake /\ NoSleeperOnUnits
  <1>1. Init => J
    BY TypeInit DEF Init, CondInit, NoSleeperOnUnits
  <1>2. J /\ [Next]_vars => J'
    BY TypeNext, NoSleeperNext
  <1>3. J => NoLostWakeup
    BY DEF NoLostWakeup, NoSleeperOnUnits, TypeOK
  <1> QED
    BY <1>1, <1>2, <1>3, PTL DEF Spec

-----------------------------------------------------------------------------
\* Refinement: every step of a semaphore in safe use is a step of
\* AbstractSemaphore or leaves it alone.
LEMMA AbstractInit == Init => Abstract!Init
  BY DEF Init, Abstract!Init

LEMMA AbstractLifecycle ==
  ASSUME Lifecycle, count' \in Int
  PROVE  Abstract!Renew
  <1>1. Quiet /\ UNCHANGED <<pc, ret>>
    BY DEF Lifecycle, Create, Destroy, Invalidate
  <1>2. (count' >= 0) \in BOOLEAN
    BY SMT
  <1> QED
    BY <1>1, <1>2 DEF Quiet, Abstract!Renew, Abstract!Quiet

LEMMA AbstractCall ==
  ASSUME Inv, NEW t \in Thread, Call(t)
  PROVE  Abstract!Enter(t)
  <1> PICK f \in TakeCall \union {"post"} : Enter(t, f) \/ Reject(t, f)
    BY DEF Call
  <1>1. f \in {"wait", "timedwait", "try_wait", "post"}
    BY ClientAssumption
  <1>2. CASE Enter(t, f)
    BY <1>1, <1>2 DEF Enter, MayCall, IsValid, semVars, Abstract!Enter
  <1>3. CASE Reject(t, f)
    BY <1>3 DEF Reject, MayCall, IsValid, semVars, Abstract!Enter
  <1> QED
    BY <1>2, <1>3

LEMMA AbstractStep ==
  ASSUME SafeUse, Inv, NEW t \in Thread, Step(t), ~Block(t)
  PROVE  Abstract!Post(t) \/ Abstract!Take(t) \/ Abstract!GiveUp(t)
  <1>0. /\ pc[t] # "idle" /\ count \in Nat
        /\ count' \in Nat
        /\ t \in Blocked => pc[t] \in {"wait", "timedwait"}
        /\ pc[t] # "post" => t \in Taker
    <2>1. pc[t] # "idle"
      BY ClientAssumption
         DEF Inv, TypeOK, CondTypeOK, Blocked, Step, Post, Block, Fail, Through,
             Woken, TimedOut, AtBody, WaitWoken, ReturnWoken, WaitExpired,
             ReturnExpired
    <2>2. count' \in Nat
      BY InvStep, TypeNext DEF Next, Inv, TypeOK
    <2> QED
      BY <2>1, <2>2
         DEF Inv, TypeOK, TakersTake, CallsOnValidSemaphore, IsValid
  <1> USE DEF Return, Abstract!Leave
  <1>1. CASE Post(t)
    BY <1>0, <1>1 DEF Post, PostBody, Abstract!Post
  <1>2. CASE Fail(t)
    BY <1>0, <1>2 DEF Fail, AtBody, TryFails, semVars, Abstract!GiveUp
  <1>3. CASE Through(t)
    BY <1>0, <1>3, ClientAssumption
       DEF Through, AtBody, WaitThrough, Abstract!Take
  <1>4. CASE Woken(t)
    <2>1. count >= 1 /\ pc[t] # "post"
      BY <1>0, <1>4 DEF Inv, Woken, WaitWoken, ReturnWoken, Blocked
    <2> QED
      BY <1>0, <1>4, <2>1 DEF Woken, WaitWoken, Abstract!Take
  <1>5. CASE TimedOut(t)
    BY <1>0, <1>5
       DEF Inv, TypeOK, TimedOut, WaitExpired, ReturnExpired, Abstract!GiveUp
  <1> QED
    BY <1>1, <1>2, <1>3, <1>4, <1>5 DEF Step

\* With pollers only, or with one taker, vm_semaphore is a counting semaphore
\* until a condition wait returns unsignalled: every successful take removes one
\* unit that was there, every post adds one, and a timeout takes nothing.
THEOREM IsASemaphore ==
  ASSUME SafeUse
  PROVE  Spec => ImplementsAbstract
  <1>1. ASSUME Inv, Inv', [Next]_vars
        PROVE  [Abstract!Next]_(Abstract!vars)
    <2> USE DEF Abstract!Next, Abstract!vars
    <2>1. CASE Lifecycle
      BY <1>1, <2>1, AbstractLifecycle DEF Inv, TypeOK
    <2>2. ASSUME NEW t \in Thread, Call(t)
          PROVE  Abstract!Next
      BY <1>1, <2>2, AbstractCall
    <2>3. ASSUME NEW t \in Thread, Step(t)
          PROVE  [Abstract!Next]_(Abstract!vars)
      <3>1. CASE Block(t)
        BY <3>1 DEF Block, WaitBlock
      <3>2. CASE ~Block(t)
        BY <1>1, <2>3, <3>2, AbstractStep
      <3> QED
        BY <3>1, <3>2
    <2>4. ASSUME NEW t \in Thread, DeadlinePasses(t)
          PROVE  UNCHANGED (Abstract!vars)
      BY <2>4 DEF DeadlinePasses
    <2>5. CASE UNCHANGED vars
      BY <2>5 DEF vars
    <2>6. ASSUME NEW t \in Thread
          PROVE  ~WakeSpuriously(t)
      BY <1>1 DEF WakeSpuriously, Inv
    <2> QED
      BY <1>1, <2>1, <2>2, <2>3, <2>4, <2>5, <2>6 DEF Next
  <1>2. IInv /\ IInv' /\ [Next]_vars
          => [~unsignalled' => [Abstract!Next]_(Abstract!vars)]_vars
    <2> SUFFICES ASSUME IInv, IInv', [Next]_vars, ~unsignalled'
                 PROVE  [Abstract!Next]_(Abstract!vars)
      OBVIOUS
    <2>1. ~unsignalled
      BY HistoryKept DEF Next, WakeSpuriously
    <2> QED
      BY <1>1, <2>1 DEF IInv
  <1> QED
    BY <1>2, AbstractInit, Invariance, PTL DEF Spec, ImplementsAbstract
=============================================================================
