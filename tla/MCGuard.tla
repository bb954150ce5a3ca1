------------------------------- MODULE MCGuard -------------------------------
(* Values for model-checking ProcessGuard.tla. *)
EXTENDS ProcessGuard

CONSTANTS t1, t2, t3
=============================================================================
