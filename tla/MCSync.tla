------------------------------- MODULE MCSync -------------------------------
(* Values for model-checking Sync.tla. *)
EXTENDS Sync

CONSTANTS c1, c2

\* A client pauses, or it plays from a new position: each change of the flag, a
\* seek without one, and a report that changes nothing.
MCPlaystates == {<<TRUE, FALSE>>, <<FALSE, TRUE>>}
=============================================================================
