---------------------------- MODULE EventClients ---------------------------
(***************************************************************************)
(* Threads that call the functions of vm_event_linux32.c on one event, in  *)
(* any order.  A call is two steps at least: the validity test, made       *)
(* without the mutex, and the body, made with it; a wait that blocks has a *)
(* third, when its condition wait returns.                                 *)
(***************************************************************************)
EXTENDS VmEvent

CONSTANTS
  Waiter,              \* the threads that may wait
  WaitCall,            \* the waiting functions they call
  Kind,                \* the kinds of event created: TRUE manual, FALSE auto
  SpuriousWakeups      \* TRUE: pthread_cond_wait may return unsignalled

ASSUME ClientAssumption ==
  /\ Waiter \subseteq Thread
  /\ WaitCall \subseteq {"wait", "timed_wait"}
  /\ Kind \subseteq BOOLEAN /\ Kind # {}
  /\ SpuriousWakeups \in BOOLEAN

VARIABLES
  pc,      \* pc[t]: the function t is in, "idle" outside
  ret,     \* ret[t]: the status of t's last call, "none" while it runs
  high,    \* history: the event was high at some time since t's call began
  unsignalled  \* history: the waits under way that nobody's signal woke

vars == <<state, manual, asleep, woken, expired, pc, ret, high, unsignalled>>

SetCall  == {"signal", "reset", "pulse"}
Status   == {"none", "VM_OK", "VM_TIMEOUT", "VM_NOT_INITIALIZED"}

TypeOK ==
  /\ EventTypeOK
  /\ pc \in [Thread -> WaitCall \union SetCall \union {"idle"}]
  /\ ret \in [Thread -> Status]
  /\ high \in [Thread -> BOOLEAN]
  /\ unsignalled \subseteq Thread
  /\ CondDisjoint
  /\ \A t \in Blocked : pc[t] \in WaitCall

\* An event starts its life with vm_event_set_invalid.
Init ==
  /\ state = -1
  /\ manual \in Kind
  /\ CondInit
  /\ pc = [t \in Thread |-> "idle"]
  /\ ret = [t \in Thread |-> "none"]
  /\ high = [t \in Thread |-> FALSE]
  /\ unsignalled = {}

-----------------------------------------------------------------------------
\* Creation and destruction take no lock: POSIX leaves them undefined while
\* another thread uses the mutex or the condition variable, so callers make
\* these calls only when no other call is under way.
Quiet == \A t \in Thread : pc[t] = "idle"

Create(m, s) ==
  /\ Quiet
  /\ InitEvent(m, s)
  /\ UNCHANGED <<pc, ret, high, unsignalled>>

Destroy ==
  /\ Quiet
  /\ DestroyEvent
  /\ UNCHANGED <<pc, ret, high, unsignalled>>

Invalidate ==
  /\ Quiet
  /\ SetInvalid
  /\ UNCHANGED <<pc, ret, high, unsignalled>>

-----------------------------------------------------------------------------
MayCall(t, f) ==
  /\ pc[t] = "idle"
  /\ f \in WaitCall => t \in Waiter

\* The unlocked test of state passes.
Enter(t, f) ==
  /\ MayCall(t, f)
  /\ IsValid
  /\ pc' = [pc EXCEPT ![t] = f]
  /\ ret' = [ret EXCEPT ![t] = "none"]
  /\ high' = [high EXCEPT ![t] = (state = 1)]
  /\ UNCHANGED <<eventVars, unsignalled>>

\* The unlocked test fails: the call returns at once.
Reject(t, f) ==
  /\ MayCall(t, f)
  /\ ~IsValid
  /\ ret' = [ret EXCEPT ![t] = "VM_NOT_INITIALIZED"]
  /\ high' = [high EXCEPT ![t] = FALSE]
  /\ UNCHANGED <<eventVars, pc, unsignalled>>

Return(t, status) ==
  /\ pc' = [pc EXCEPT ![t] = "idle"]
  /\ ret' = [ret EXCEPT ![t] = status]
  /\ unsignalled' = unsignalled \ {t}

\* The event is high for a moment at least: every call under way saw it.
SeenHigh == high' = [t \in Thread |-> high[t] \/ pc[t] # "idle"]

Signal(t) ==
  /\ pc[t] = "signal"
  /\ SignalBody
  /\ SeenHigh
  /\ Return(t, "VM_OK")

Reset(t) ==
  /\ pc[t] = "reset"
  /\ ResetBody
  /\ Return(t, "VM_OK")
  /\ UNCHANGED high

Pulse(t) ==
  /\ pc[t] = "pulse"
  /\ PulseBody
  /\ SeenHigh
  /\ Return(t, "VM_OK")

\* A wait that has made the test and has not blocked yet.
AtBody(t) == pc[t] \in WaitCall /\ t \notin Blocked

Block(t) ==
  /\ AtBody(t)
  /\ WaitBlock(t)
  /\ UNCHANGED <<pc, ret, high, unsignalled>>

Through(t) ==
  /\ AtBody(t)
  /\ WaitThrough
  /\ Return(t, "VM_OK")
  /\ UNCHANGED high

Woken(t) ==
  /\ WaitWoken(t)
  /\ Return(t, "VM_OK")
  /\ UNCHANGED high

BugTimedOutOK(t) ==
  /\ WaitExpired(t)
  /\ Return(t, "VM_OK")
  /\ UNCHANGED high

TimedOut(t) ==
  /\ WaitExpired(t)
  /\ Return(t, "VM_TIMEOUT")
  /\ UNCHANGED high

-----------------------------------------------------------------------------
\* Steps of the operating system.
DeadlinePasses(t) ==
  /\ pc[t] = "timed_wait"
  /\ Expire(t)
  /\ UNCHANGED <<state, manual, pc, ret, high, unsignalled>>

WakeSpuriously(t) ==
  /\ SpuriousWakeups
  /\ SpuriousWakeup(t)
  /\ unsignalled' = unsignalled \union {t}
  /\ UNCHANGED <<state, manual, pc, ret, high>>

-----------------------------------------------------------------------------
\* What a thread inside a call does next.
Step(t) ==
  \/ Signal(t)
  \/ Reset(t)
  \/ Pulse(t)
  \/ Block(t)
  \/ Through(t)
  \/ Woken(t)
  \/ TimedOut(t)

Call(t) == \E f \in WaitCall \union SetCall : Enter(t, f) \/ Reject(t, f)

Lifecycle ==
  \/ \E m \in Kind, s \in {0, 1} : Create(m, s)
  \/ Destroy
  \/ Invalidate

Next ==
  \/ Lifecycle
  \/ \E t \in Thread :
       Call(t) \/ Step(t) \/ DeadlinePasses(t) \/ WakeSpuriously(t)

Spec == Init /\ [][Next]_vars

\* The scheduler runs every thread that can run, and clocks advance.  Nobody
\* has to call anything.
Fairness == \A t \in Thread : WF_vars(Step(t)) /\ WF_vars(DeadlinePasses(t))

FairSpec == Spec /\ Fairness

-----------------------------------------------------------------------------
\* A high manual event has no sleeper: signal wakes all of them, and a wait
\* that finds the event high does not block (vm_event_signal, vm_event_wait).
ManualHighNoSleeper == manual /\ state = 1 => asleep = {}

\* A high auto event with sleepers has a waiter on its way: the one
\* pthread_cond_signal has not been spent on nobody, whatever barging waits,
\* timeouts, resets and pulses did in between.
AutoHighHasWakeup ==
  ~manual /\ state = 1 /\ asleep # {} => woken # {}

\* "Wait for event to be high with blocking" (the comment on vm_event_wait):
\* a wait returns VM_OK only if the event was high at some time of the call, or
\* if its own condition wait returned unsignalled, for the code tests the state
\* once.  Nobody else's unsignalled return, and no timeout, is an excuse.
OKOnlyIfHigh ==
  [][\A t \in Thread :
       pc[t] \in WaitCall /\ ret'[t] = "VM_OK" => high[t] \/ t \in unsignalled]_vars

\* "return 1 if signaled" (vm_event.h on vm_event_timed_wait): a timed wait
\* that reports VM_TIMEOUT has not used up a signal.  The code breaks it: a
\* wait whose deadline passed lowers an auto event as one that was woken does.
TimeoutKeepsSignal ==
  [][\A t \in Thread : pc[t] = "timed_wait" /\ ret'[t] = "VM_TIMEOUT"
       => state' = state]_vars

\* A high manual event lets every waiter go, unless it is made low first.
ManualHighReleasesAll ==
  \A t \in Thread :
    (manual /\ state = 1 /\ pc[t] \in WaitCall) ~> (pc[t] = "idle" \/ state # 1)

\* A high auto event on which threads sleep is consumed.
AutoHighIsConsumed == (~manual /\ state = 1 /\ asleep # {}) ~> (state # 1)

-----------------------------------------------------------------------------
\* What the event promises: AbstractEvent.  A woken waiter of an auto event
\* still has to lower it, so the event counts as up only without one.
Abstract == INSTANCE AbstractEvent WITH
  up       <- state = 1 /\ (manual \/ woken = {}),
  waiting  <- asleep,
  released <- woken

\* Every step but the unsignalled return of a condition wait, which
\* AbstractEvent knows nothing of, is one of its steps; what the woken waiter
\* does afterwards is again.
ImplementsAbstract ==
  /\ Abstract!Init
  /\ [][\/ \E t \in Thread : WakeSpuriously(t)
        \/ [Abstract!Next]_(Abstract!vars)]_vars
=============================================================================
