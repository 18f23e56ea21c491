------------------------------ MODULE MCOtaPal ------------------------------
(* The platform layer with sets of faults to choose from. *)
EXTENDS OtaPal
=============================================================================
