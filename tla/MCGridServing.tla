---------------------------- MODULE MCGridServing ---------------------------
(* GridServing for TLC: a hysteresis of two measurements, as in the code.   *)
EXTENDS GridServing
============================================================================
