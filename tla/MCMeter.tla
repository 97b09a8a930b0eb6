------------------------------ MODULE MCMeter ------------------------------
(* Meter on a small instance. *)
EXTENDS Meter, TLC
=============================================================================
