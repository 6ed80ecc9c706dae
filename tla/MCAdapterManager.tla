-------------------------- MODULE MCAdapterManager --------------------------
(* Model checking of AdapterManager. *)
EXTENDS AdapterManager

CONSTANTS i1, i2, e1, e2, e3
=============================================================================
