--------------------------- MODULE AbstractThread ---------------------------
(***************************************************************************)
(* What a thread object promises on every system, of vm_thread.h: threads  *)
(* are started one after the other, each ends with its function, and each  *)
(* is collected once before the next is started; and "wait until a thread  *)
(* exists" (exits): no wait returns while the thread runs.  The last       *)
(* waiter may collect it on its way out.                                   *)
(***************************************************************************)
CONSTANT Thread    \* the threads that wait

VARIABLES
  phase,     \* of the latest thread
  waiting    \* who is inside a wait

vars == <<phase, waiting>>

TypeOK ==
  /\ phase \in {"none", "running", "returned", "collected"}
  /\ waiting \subseteq Thread

Init == phase = "none" /\ waiting = {}

Start ==
  /\ phase \in {"none", "collected"}
  /\ phase' = "running"
  /\ UNCHANGED waiting

Finish ==
  /\ phase = "running"
  /\ phase' = "returned"
  /\ UNCHANGED waiting

Wait(t) ==
  /\ t \notin waiting
  /\ waiting' = waiting \union {t}
  /\ UNCHANGED phase

Return(t) ==
  /\ t \in waiting
  /\ phase # "running"
  /\ waiting' = waiting \ {t}
  /\ UNCHANGED phase

\* By a waiter that returns with it, or by somebody who need not wait.
Collect ==
  /\ phase = "returned"
  /\ phase' = "collected"
  /\ waiting' = waiting \/ \E t \in waiting : waiting' = waiting \ {t}

Next ==
  \/ Start \/ Finish \/ Collect
  \/ \E t \in Thread : Wait(t) \/ Return(t)

Spec == Init /\ [][Next]_vars
=============================================================================
