------------------------------ MODULE MCRoster -------------------------------
(* Values for model-checking Roster.tla. *)
EXTENDS Roster

CONSTANTS c1, c2, c3, r1, r2, f1, f2
=============================================================================
