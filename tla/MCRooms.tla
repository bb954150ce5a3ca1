------------------------------- MODULE MCRooms -------------------------------
(* Values for model-checking Rooms.tla. *)
EXTENDS Rooms, TLC

CONSTANTS c1, c2, k1, k2, k3, k4, ann, empty

\* "ann" has 3 of at most 4 characters; names of the empty base are all
\* underscores.
MCBases == {ann, empty}
MCBaseLen == [b \in MCBases |-> IF b = ann THEN 3 ELSE 0]

\* "ann_" and "ann__", which is too long and cut to "ann_"
MCRequests == {<<ann, 1>>, <<ann, 2>>}
OneRequest == {<<ann, 0>>}

Symmetry == Permutations(Clients) \cup Permutations(Copies)
=============================================================================
