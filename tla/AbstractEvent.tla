--------------------------- MODULE AbstractEvent ---------------------------
(***************************************************************************)
(* What an event promises its users.  A thread that waits is let go by a   *)
(* signal, a pulse or an event that is up, never otherwise.  A manual      *)
(* event lets every waiter go and stays up; an auto event lets one go per  *)
(* signal.  A signal that comes while a released waiter has not left yet   *)
(* may be merged with the one that released it (a stuttering step).        *)
(***************************************************************************)
CONSTANTS Thread, Kind

VARIABLES
  manual,     \* the kind of the event
  up,         \* a wait does not block
  waiting,    \* blocked threads
  released    \* threads let go that have not returned yet

vars == <<manual, up, waiting, released>>

Init ==
  /\ manual \in Kind
  /\ up = FALSE
  /\ waiting = {}
  /\ released = {}

\* A new event, or none (destroyed): nobody is inside.
Renew ==
  /\ waiting = {} /\ released = {}
  /\ manual' \in Kind
  /\ up' \in BOOLEAN
  /\ UNCHANGED <<waiting, released>>

ReleaseAll ==
  /\ waiting' = {}
  /\ released' = released \union waiting

ReleaseOne ==
  \E t \in waiting :
    /\ waiting' = waiting \ {t}
    /\ released' = released \union {t}

\* The event stays down when the signal goes to a waiter of an auto event.
Signal ==
  /\ \/ manual /\ ReleaseAll /\ up' = TRUE
     \/ ~manual /\ ReleaseOne /\ up' = FALSE
     \/ waiting = {} /\ up' = TRUE /\ UNCHANGED <<waiting, released>>
  /\ UNCHANGED manual

Reset ==
  /\ up' = FALSE
  /\ UNCHANGED <<manual, waiting, released>>

Pulse ==
  /\ \/ manual /\ ReleaseAll
     \/ ~manual /\ ReleaseOne
     \/ waiting = {} /\ UNCHANGED <<waiting, released>>
  /\ up' = FALSE
  /\ UNCHANGED manual

\* A wait blocks only on an event that is down.
Block(t) ==
  /\ ~up
  /\ waiting' = waiting \union {t}
  /\ UNCHANGED <<manual, up, released>>

\* A wait that finds the event up returns, and takes an auto event down.
Pass ==
  /\ up
  /\ up' = manual
  /\ UNCHANGED <<manual, waiting, released>>

Leave(t) ==
  /\ t \in released
  /\ released' = released \ {t}
  /\ UNCHANGED <<manual, up, waiting>>

GiveUp(t) ==
  /\ t \in waiting
  /\ waiting' = waiting \ {t}
  /\ UNCHANGED <<manual, up, released>>

Next ==
  \/ Renew
  \/ Signal
  \/ Reset
  \/ Pulse
  \/ Pass
  \/ \E t \in Thread : Block(t) \/ Leave(t) \/ GiveUp(t)

Spec == Init /\ [][Next]_vars
=============================================================================
