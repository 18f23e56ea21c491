------------------------------ MODULE MCMxNetconn ------------------------------
(* Instances of MxNetconn for TLC. *)
EXTENDS MxNetconn

CONSTANTS a1, a2
=============================================================================
