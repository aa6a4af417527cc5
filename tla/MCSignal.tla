------------------------------- MODULE MCSignal -------------------------------
(* The channels and the dispatches are model values of the .cfg. *)
EXTENDS Signal
=============================================================================
