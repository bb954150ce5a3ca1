------------------------------- MODULE MCServe -------------------------------
(* Values for model-checking Serve.tla. *)
EXTENDS Serve

CONSTANTS c1, c2, k1, k2
=============================================================================
