------------------------------ MODULE MCThread -----------------------------
(* Model values and callers for checking VmThread. *)
EXTENDS VmThread

CONSTANTS t1, t2, t3

\* One thread creates, uses and closes the object.
SingleUser == [t \in Thread |-> Function]

\* One thread creates, everybody waits; nobody closes.
Waiters == [t \in Thread |-> IF t = t1 THEN {"create", "wait"} ELSE {"wait"}]

\* t1 creates, waits and closes; the others wait, poll and set the priority.
Sharers ==
  [t \in Thread |-> IF t = t1 THEN {"create", "wait", "close"}
                   ELSE {"wait", "is_valid", "set_priority"}]
=============================================================================
