---------------------------- MODULE MCSemaphore ----------------------------
(* Model values for checking SemaphoreClients. *)
EXTENDS SemaphoreClients

CONSTANTS w1, w2, p1, p2

MCInitCount == {-1, 0, 1}
=============================================================================
