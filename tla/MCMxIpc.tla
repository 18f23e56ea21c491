-------------------------------- MODULE MCMxIpc --------------------------------
(* Instances of MxIpc for TLC. *)
EXTENDS MxIpc

CONSTANTS net, c1
=============================================================================
