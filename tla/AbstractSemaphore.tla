------------------------- MODULE AbstractSemaphore -------------------------
(***************************************************************************)
(* A counting semaphore: a live one has a value, a post adds one, a take   *)
(* needs one and removes one, and only its users end its life, while       *)
(* nobody is inside.                                                       *)
(***************************************************************************)
EXTENDS Naturals

CONSTANTS Thread, Taker

VARIABLES live, value, pc, ret

vars == <<live, value, pc, ret>>

Init ==
  /\ live = FALSE
  /\ value = 0
  /\ pc = [t \in Thread |-> "idle"]
  /\ ret = [t \in Thread |-> "none"]

Quiet == \A t \in Thread : pc[t] = "idle"

\* A new semaphore, or none.
Renew ==
  /\ Quiet
  /\ live' \in BOOLEAN
  /\ value' \in Nat
  /\ ~live' => value' = 0
  /\ UNCHANGED <<pc, ret>>

\* Nobody is turned away from a live semaphore, nobody gets into a dead one.
Enter(t) ==
  /\ pc[t] = "idle"
  /\ \/ live /\ pc' \in {[pc EXCEPT ![t] = f] : f \in {"wait", "timedwait", "try_wait", "post"}}
             /\ ret' = [ret EXCEPT ![t] = "none"]
     \/ ~live /\ ret' = [ret EXCEPT ![t] = "VM_NOT_INITIALIZED"] /\ UNCHANGED pc
  /\ UNCHANGED <<live, value>>

Leave(t, status) ==
  /\ pc[t] # "idle"
  /\ live' = live
  /\ pc' = [pc EXCEPT ![t] = "idle"]
  /\ ret' = [ret EXCEPT ![t] = status]

Post(t) ==
  /\ pc[t] = "post"
  /\ value' = value + 1
  /\ Leave(t, "VM_OK")

Take(t) ==
  /\ pc[t] # "post" /\ t \in Taker
  /\ value > 0
  /\ value' = value - 1
  /\ Leave(t, "VM_OK")

\* A timed take may report a timeout; try_wait only when there is nothing.
GiveUp(t) ==
  /\ \/ pc[t] = "timedwait"
     \/ pc[t] = "try_wait" /\ value = 0
  /\ UNCHANGED value
  /\ Leave(t, "VM_TIMEOUT")

Next ==
  \/ Renew
  \/ \E t \in Thread : Enter(t) \/ Post(t) \/ Take(t) \/ GiveUp(t)

Spec == Init /\ [][Next]_vars
=============================================================================
