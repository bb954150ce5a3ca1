----------------------------- MODULE MCLifecycle -----------------------------
(* Values for model-checking Lifecycle.tla. *)
EXTENDS Lifecycle
=============================================================================
