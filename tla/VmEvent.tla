------------------------------ MODULE VmEvent ------------------------------
(***************************************************************************)
(* The event object of vm_event_linux32.c: the fields of vm_event and the  *)
(* body of each function between pthread_mutex_lock and                    *)
(* pthread_mutex_unlock.  A body holds the event's mutex throughout and    *)
(* gives it up only inside pthread_cond_(timed)wait, so each of the pieces *)
(* below is one atomic step.  Who runs them and when is the business of    *)
(* the modules that use this one: EventClients and VmThread.  Operators    *)
(* named Bug... are mistakes a maintainer could make; nothing uses them    *)
(* but the sensitivity runs the README describes.                          *)
(***************************************************************************)
EXTENDS Integers, PthreadCond

VARIABLES
  state,     \* -1 invalid, 0 low, 1 high
  manual     \* TRUE: manual reset, FALSE: auto reset

eventVars == <<state, manual, asleep, woken, expired>>

EventTypeOK ==
  /\ state \in -1..1
  /\ manual \in BOOLEAN
  /\ CondTypeOK

\* The test every function makes before it takes the mutex.
IsValid == state >= 0

SetInvalid ==
  /\ state' = -1
  /\ UNCHANGED <<manual, condVars>>

\* vm_event_init: fields, a new condition variable, a new mutex.  Nothing of
\* an earlier incarnation is destroyed.
InitEvent(m, s) ==
  /\ manual' = m
  /\ state' = IF s # 0 THEN 1 ELSE 0
  /\ CondRenew

BugNotify == CondSignal

\* Broadcast to the waiters of a manual event, signal one of an auto event.
Notify ==
  \/ manual /\ CondBroadcast
  \/ ~manual /\ CondSignal

SignalBody ==
  \/ /\ state = 0
     /\ state' = 1
     /\ Notify
     /\ UNCHANGED manual
  \/ /\ state # 0
     /\ UNCHANGED eventVars

ResetBody ==
  /\ state' = IF state = 1 THEN 0 ELSE state
  /\ UNCHANGED <<manual, condVars>>

PulseBody ==
  /\ Notify
  /\ state' = 0
  /\ UNCHANGED manual

BugConsumeNever == UNCHANGED <<state, manual>>

\* What a wait leaves in the event before it unlocks, whatever woke it.
Consume ==
  /\ state' = IF manual THEN state ELSE 0
  /\ UNCHANGED manual

\* vm_event_(timed_)wait finds the event low: block on the condition variable.
WaitBlock(t) ==
  /\ state = 0
  /\ Sleep(t)
  /\ UNCHANGED <<state, manual>>

BugWaitThrough ==
  /\ Consume
  /\ UNCHANGED condVars

\* vm_event_(timed_)wait does not find it low: no blocking.
WaitThrough ==
  /\ state # 0
  /\ Consume
  /\ UNCHANGED condVars

\* The condition wait returns 0.  The event is not looked at again.
WaitWoken(t) ==
  /\ ReturnWoken(t)
  /\ Consume

\* The condition wait returns ETIMEDOUT.
WaitExpired(t) ==
  /\ ReturnExpired(t)
  /\ Consume

DestroyEvent ==
  /\ state' = IF state >= 0 THEN -1 ELSE state
  /\ UNCHANGED <<manual, condVars>>
=============================================================================
