------------------------------- MODULE Names -------------------------------
(***************************************************************************)
(* Usernames and the choice of a free one (internal/syncplay/room.go,      *)
(* findFreeUsername).  The algorithm looks at a username only through its  *)
(* trailing underscores, so a username is a pair <<base, n>>: a base that  *)
(* does not end in '_', followed by n underscores.                         *)
(***************************************************************************)
EXTENDS Naturals

CONSTANTS Bases,              \* username bases, none of which ends in '_'
          BaseLen,            \* the length of each base; 0 for the empty one
          MaxUsernameLength,  \* protocol.go: MaxUsernameLength
          MaxUnderscores      \* bound on the underscores of a username

ASSUME NamesAssumption ==
    /\ MaxUsernameLength \in Nat
    /\ MaxUnderscores \in Nat
    /\ BaseLen \in [Bases -> 0..MaxUsernameLength]

Username == Bases \X (0..MaxUnderscores)

Length(u) == BaseLen[u[1]] + u[2]

\* truncateText(username, MaxUsernameLength): a base fits, so only
\* underscores are cut off.
Truncated(u) ==
    IF Length(u) <= MaxUsernameLength
    THEN u
    ELSE <<u[1], MaxUsernameLength - BaseLen[u[1]]>>

\* n is what findFreeUsername(u) returns when the names in use are taken: the
\* requested name if nobody has it, else the shortest free name with its base.
IsFreeName(n, taken, u) ==
    /\ n \in Username \ taken
    /\ n[1] = u[1]
    /\ Truncated(u) \notin taken => n = Truncated(u)
    /\ Truncated(u) \in taken =>
          /\ Length(n) > 0
          /\ \A k \in 0 .. (n[2] - 1) : <<n[1], k>> \in taken \/ Length(<<n[1], k>>) = 0

\* Faulty: a conflicting name is not stripped of its underscores.
FirstTryUnstripped(taken, u) == Truncated(u)

\* Where the loop starts: the requested name when nobody has it, else the name
\* stripped of its underscores, "_" standing for the empty one.
FirstTry(taken, u) ==
    LET t == Truncated(u) IN
    IF t \notin taken THEN t
    ELSE <<u[1], IF BaseLen[u[1]] = 0 THEN 1 ELSE 0>>

\* The loop: with how many underscores it stops if it gets to k, for each k.
Underscores(taken, base) ==
    LET append[k \in 0 .. MaxUnderscores] ==
            IF <<base, k>> \in taken /\ k < MaxUnderscores THEN append[k + 1] ELSE k
    IN append

\* The same as findFreeUsername computes it: append an underscore while the
\* name is taken.  (MaxUnderscores is large enough for the loop to end.)
FoundName(taken, u) ==
    LET first == FirstTry(taken, u) IN
    <<first[1], Underscores(taken, first[1])[first[2]]>>
=============================================================================
