-------------------------- MODULE MCEphemeralManager --------------------------
(* EphemeralManager for TLC. *)
EXTENDS EphemeralManager

CONSTANTS p1, t1, t2, t3
===============================================================================
