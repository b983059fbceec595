------------------------------ MODULE MCEvent ------------------------------
(* Model values for checking EventClients. *)
EXTENDS EventClients

CONSTANTS w1, w2, s1
=============================================================================
