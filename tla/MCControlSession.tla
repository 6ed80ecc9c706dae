-------------------------- MODULE MCControlSession --------------------------
(* Model checking of ControlSession. *)
EXTENDS ControlSession

CONSTANTS s1, s2
=============================================================================
