------------------------------ MODULE Registry ------------------------------
(***************************************************************************)
(* What username allocation promises, whatever the interleaving: a         *)
(* connection owns at most one username, a username has at most one owner, *)
(* a claim is one indivisible step, and an owned name changes hands only   *)
(* after its owner released it.  Rooms.tla implements this specification.  *)
(***************************************************************************)
CONSTANTS Clients,   \* connections
          Username,  \* usernames
          None       \* "owns no username"

VARIABLE owner       \* the username each connection owns, or None

Init == owner = [c \in Clients |-> None]

Claim(c, n) ==
    /\ owner[c] = None
    /\ \A d \in Clients : owner[d] # n
    /\ owner' = [owner EXCEPT ![c] = n]

Release(c) ==
    /\ owner[c] # None
    /\ owner' = [owner EXCEPT ![c] = None]

Next == \E c \in Clients : Release(c) \/ \E n \in Username : Claim(c, n)

Spec == Init /\ [][Next]_owner
=============================================================================
