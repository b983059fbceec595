------------------------------ MODULE MCMutex ------------------------------
(* Model values for checking MutexClients. *)
EXTENDS MutexClients

CONSTANTS t1, t2, t3
=============================================================================
