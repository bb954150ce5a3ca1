----------------------------- MODULE RoomsProofs -----------------------------
(***************************************************************************)
(* Proofs about Rooms.tla: its type invariant, that usernames are unique   *)
(* and that name allocation implements Registry.tla, for any number of     *)
(* connections, any rooms, and with or without live timeouts and messages  *)
(* that arrive after a close.                                              *)
(*                                                                         *)
(* The last part is about the loop that looks for a free username.         *)
(***************************************************************************)
EXTENDS Rooms, FiniteSetTheorems, TLAPS

USE RoomsAssumption

\* Initially every variable has its type.
LEMMA TypeInit == Init => TypeOK
  BY DEF Init, TypeOK, ReaderPC, CleanPC, LoggedIn

\* A Hello keeps the types: it logs in a connection that had no name.
LEMMA TypeHello ==
    ASSUME TypeOK, NEW c \in Clients, NEW u \in Requests, NEW rn \in RoomNames,
           Hello(c, u, rn)
    PROVE  TypeOK'
  <1>1. PICK n \in Username : names' = names \cup {n} /\ name' = [name EXCEPT ![c] = n]
    BY DEF Hello
  <1>2. /\ pc' = [pc EXCEPT ![c] = "move"]
        /\ target' = [target EXCEPT ![c] = rn]
        /\ UNCHANGED <<rooms, members, room, old, dest, cleanVars>>
    BY DEF Hello
  <1> QED BY <1>1, <1>2 DEF TypeOK, ReaderPC, CleanPC, LoggedIn, cleanVars

\* The other messages only move the reader on.
LEMMA TypeMessage ==
    ASSUME TypeOK, NEW c \in Clients, Message(c)
    PROVE  TypeOK'
  <1>1. CASE \E rn \in RoomNames : SetRoom(c, rn)
    BY <1>1 DEF SetRoom, TypeOK, ReaderPC, CleanPC, LoggedIn, registryVars, cleanVars
  <1>2. CASE \E rn \in RoomNames : \E u \in Requests : Hello(c, u, rn)
    BY <1>2, TypeHello
  <1>3. CASE RejectHello(c)
    BY <1>3 DEF RejectHello, TypeOK, ReaderPC, CleanPC, LoggedIn, registryVars, cleanVars
  <1>4. CASE ClientError(c)
    BY <1>4 DEF ClientError, TypeOK, ReaderPC, CleanPC, LoggedIn, registryVars, cleanVars
  <1>5. CASE Fail(c)
    BY <1>5 DEF Fail, TypeOK, ReaderPC, CleanPC, LoggedIn, registryVars, cleanVars
  <1> QED BY <1>1, <1>2, <1>3, <1>4, <1>5 DEF Message

\* moveWatcher keeps the types.
LEMMA TypeMove ==
    ASSUME TypeOK, NEW c \in Clients, Move(c)
    PROVE  TypeOK'
  <1>1. CASE ReadOldRoom(c)
    BY <1>1 DEF ReadOldRoom, TypeOK, ReaderPC, CleanPC, LoggedIn, registryVars, cleanVars
  <1>2. CASE LeaveOldRoom(c)
    <2>1. members' \in [Objects -> SUBSET Clients]
      BY <1>2 DEF LeaveOldRoom, TypeOK, Left
    <2> QED BY <1>2, <2>1 DEF LeaveOldRoom, TypeOK, ReaderPC, CleanPC, LoggedIn, cleanVars
  <1>3. CASE PruneOldRoom(c)
    <2>1. rooms' \in [RoomNames -> Objects \cup {None}]
      BY <1>3 DEF PruneOldRoom, TypeOK, Pruned
    <2> QED BY <1>3, <2>1 DEF PruneOldRoom, TypeOK, ReaderPC, CleanPC, LoggedIn, cleanVars
  <1>4. CASE LookupRoom(c)
    <2>1. target[c] \in RoomNames
      BY <1>4 DEF LookupRoom, TypeOK
    <2>2. PICK o \in Objects : /\ dest' = [dest EXCEPT ![c] = o]
                               /\ rooms' = rooms \/ rooms' = [rooms EXCEPT ![target[c]] = o]
      <3>1. CASE rooms[target[c]] # None
        BY <1>4, <2>1, <3>1 DEF LookupRoom, TypeOK
      <3>2. CASE rooms[target[c]] = None
        <4>1. PICK i \in Copies : /\ rooms' = [rooms EXCEPT ![target[c]] = <<target[c], i>>]
                                  /\ dest' = [dest EXCEPT ![c] = <<target[c], i>>]
          BY <1>4, <3>2 DEF LookupRoom
        <4>2. <<target[c], i>> \in Objects
          BY <2>1 DEF Objects
        <4> QED BY <4>1, <4>2
      <3> QED BY <3>1, <3>2
    <2>3. o # None
      OBVIOUS
    <2>4. rooms' \in [RoomNames -> Objects \cup {None}]
      BY <2>1, <2>2 DEF TypeOK
    <2>5. /\ pc' = [pc EXCEPT ![c] = "join"]
          /\ target' = [target EXCEPT ![c] = None]
          /\ UNCHANGED <<names, name, room, old, cleanVars>>
      BY <1>4 DEF LookupRoom
    <2>6. members' \in [Objects -> SUBSET Clients]
      BY <1>4 DEF LookupRoom, TypeOK
    <2> QED BY <1>4, <2>2, <2>3, <2>4, <2>5, <2>6
            DEF LookupRoom, TypeOK, ReaderPC, CleanPC, LoggedIn, cleanVars
  <1>5. CASE JoinRoom(c)
    <2>1. members' \in [Objects -> SUBSET Clients]
      BY <1>5 DEF JoinRoom, TypeOK, Entered
    <2> QED BY <1>5, <2>1 DEF JoinRoom, TypeOK, ReaderPC, CleanPC, LoggedIn, cleanVars
  <1> QED BY <1>1, <1>2, <1>3, <1>4, <1>5 DEF Move

\* Entering cleanup(), running it and returning from it keeps the types.
LEMMA TypeCleanup ==
    ASSUME TypeOK, NEW c \in Clients,
           ReaderCleanup(c) \/ ReaderCleaned(c) \/ TickerTimeout(c) \/ Cleanup(c)
    PROVE  TypeOK'
  <1>1. CASE ReaderCleanup(c) \/ TickerTimeout(c)
    BY <1>1 DEF ReaderCleanup, TickerTimeout, StartCleanup, TypeOK, ReaderPC, CleanPC,
                LoggedIn, registryVars, readerVars
  <1>2. CASE ReaderCleaned(c)
    BY <1>2 DEF ReaderCleaned, TypeOK, ReaderPC, CleanPC, LoggedIn, registryVars, cleanVars
  <1>3. CASE ReleaseName(c)
    BY <1>3 DEF ReleaseName, TypeOK, ReaderPC, CleanPC, LoggedIn, readerVars
  <1>4. CASE UnlinkWatcher(c)
    <2>1. members' \in [Objects -> SUBSET Clients]
      BY <1>4 DEF UnlinkWatcher, TypeOK, Left
    <2> QED BY <1>4, <2>1 DEF UnlinkWatcher, TypeOK, ReaderPC, CleanPC, LoggedIn, readerVars
  <1>5. CASE PruneLastRoom(c)
    <2>1. rooms' \in [RoomNames -> Objects \cup {None}]
      BY <1>5 DEF PruneLastRoom, TypeOK, Pruned
    <2> QED BY <1>5, <2>1 DEF PruneLastRoom, TypeOK, ReaderPC, CleanPC, LoggedIn, readerVars
  <1> QED BY <1>1, <1>2, <1>3, <1>4, <1>5 DEF Cleanup

\* A step that changes nothing keeps the types.
LEMMA TypeStutter == TypeOK /\ UNCHANGED vars => TypeOK'
  BY DEF TypeOK, vars, LoggedIn

LEMMA TypeNext == TypeOK /\ [Next]_vars => TypeOK'
  BY TypeMessage, TypeMove, TypeCleanup, TypeStutter DEF Next, Terminated

\* Every variable keeps its type and no step of moveWatcher, removeWatcher or
\* cleanup() dereferences a nil room or the name of a user that is not logged in.
THEOREM TypeCorrect == Spec => []TypeOK
  BY TypeInit, TypeNext, PTL DEF Spec
-----------------------------------------------------------------------------
\* The inductive invariant behind unique usernames: the reservations are those
\* of the holders, and no two holders share one.
NamesInv == TypeOK /\ ReservedNames /\ DistinctNames

\* A connection that has not logged in holds no name, and will hold the one it
\* claims: its cleanup(), if it ran, released nothing.
LEMMA HolderNamed ==
    ASSUME TypeOK, NEW c \in Clients
    PROVE  /\ Holds(c) => name[c] \in Username
           /\ ~LoggedIn(c) => cpc[c] \in {"off", "blank"}
  BY DEF TypeOK, Holds, LoggedIn

\* What the invariant needs to know of a step that neither claims nor releases
\* a name: nobody's name changes and the same connections are holders.
Quiet == names' = names /\ name' = name /\ \A c \in Clients : Holds(c)' = Holds(c)

LEMMA QuietKeepsNames ==
    ASSUME ReservedNames, DistinctNames, Quiet
    PROVE  ReservedNames' /\ DistinctNames'
  BY DEF ReservedNames, DistinctNames, Quiet

\* Messages other than Hello, moveWatcher, and cleanup() outside removeWatcher's
\* first half are quiet.
LEMMA QuietMessage ==
    ASSUME TypeOK, NEW c \in Clients,
           \/ \E rn \in RoomNames : SetRoom(c, rn)
           \/ RejectHello(c) \/ ClientError(c) \/ Fail(c)
    PROVE  Quiet
  BY DEF TypeOK, Quiet, Holds, LoggedIn, SetRoom, RejectHello, ClientError, Fail,
         registryVars, cleanVars

LEMMA QuietMove ==
    ASSUME TypeOK, NEW c \in Clients, Move(c)
    PROVE  Quiet
  BY DEF TypeOK, Quiet, Holds, LoggedIn, Move, ReadOldRoom, LeaveOldRoom, PruneOldRoom,
         LookupRoom, JoinRoom, registryVars, cleanVars

LEMMA QuietCleanup ==
    ASSUME TypeOK, NEW c \in Clients,
           \/ ReaderCleanup(c) \/ ReaderCleaned(c) \/ TickerTimeout(c)
           \/ UnlinkWatcher(c) \/ PruneLastRoom(c)
    PROVE  Quiet
  <1>1. CASE ReaderCleanup(c) \/ TickerTimeout(c)
    BY <1>1 DEF TypeOK, Quiet, Holds, LoggedIn, ReaderCleanup, TickerTimeout, StartCleanup,
                registryVars
  <1>2. CASE ReaderCleaned(c)
    BY <1>2 DEF Quiet, Holds, LoggedIn, ReaderCleaned, registryVars, cleanVars
  <1>3. CASE UnlinkWatcher(c)
    BY <1>3 DEF TypeOK, Quiet, Holds, LoggedIn, UnlinkWatcher
  <1>4. CASE PruneLastRoom(c)
    BY <1>4 DEF TypeOK, Quiet, Holds, LoggedIn, PruneLastRoom
  <1> QED BY <1>1, <1>2, <1>3, <1>4

\* What a Hello does to the names: the name it claims was reserved by nobody.
LEMMA HelloClaims ==
    ASSUME NamesInv, NEW c \in Clients, NEW u \in Requests, NEW rn \in RoomNames,
           Hello(c, u, rn)
    PROVE  \E n \in Username :
              /\ ~Holds(c)
              /\ \A d \in Clients : Holds(d) => name[d] # n
              /\ names' = names \cup {n}
              /\ name' = [name EXCEPT ![c] = n]
              /\ Holds(c)'
              /\ \A d \in Clients \ {c} : Holds(d)' = Holds(d)
  <1>1. PICK n \in Username : /\ IsFreeName(n, Taken, u)
                              /\ names' = names \cup {n}
                              /\ name' = [name EXCEPT ![c] = n]
    BY DEF Hello
  <1>2. n \notin names
    BY <1>1 DEF IsFreeName, Taken
  <1>3. \A d \in Clients : Holds(d) => name[d] # n
    BY <1>2 DEF NamesInv, ReservedNames
  <1>4. ~LoggedIn(c) /\ cpc' = cpc
    BY DEF Hello, cleanVars
  <1>5. ~Holds(c) /\ cpc[c] \in {"off", "blank"}
    BY <1>4, HolderNamed DEF NamesInv, Holds
  <1>6. Holds(c)' /\ \A d \in Clients \ {c} : Holds(d)' = Holds(d)
    BY <1>1, <1>4, <1>5 DEF NamesInv, TypeOK, Holds, LoggedIn
  <1> QED BY <1>1, <1>3, <1>5, <1>6

\* What the first half of removeWatcher does to the names.
LEMMA ReleaseFrees ==
    ASSUME NamesInv, NEW c \in Clients, ReleaseName(c)
    PROVE  /\ Holds(c) /\ ~Holds(c)'
           /\ names' = names \ {name[c]}
           /\ name' = name
           /\ \A d \in Clients \ {c} : Holds(d)' = Holds(d)
  BY DEF NamesInv, TypeOK, Holds, LoggedIn, ReleaseName

LEMMA NamesInit == Init => NamesInv
  <1> SUFFICES ASSUME Init PROVE ReservedNames /\ DistinctNames
    BY TypeInit DEF NamesInv
  <1>1. \A c \in Clients : ~Holds(c)
    BY DEF Init, Holds, LoggedIn
  <1>2. names = {}
    BY DEF Init
  <1> QED BY <1>1, <1>2 DEF ReservedNames, DistinctNames

\* Case distinction over Next, for the two proofs below.
LEMMA NamesStep ==
    ASSUME TypeOK, [Next]_vars
    PROVE  \/ Quiet
           \/ \E c \in Clients : ReleaseName(c)
           \/ \E c \in Clients, u \in Requests, rn \in RoomNames : Hello(c, u, rn)
  <1>1. CASE UNCHANGED vars
    BY <1>1 DEF Quiet, Holds, LoggedIn, vars
  <1>2. CASE Next
    <2>1. CASE Terminated
      BY <2>1, <1>1 DEF Terminated
    <2>2. CASE \E c \in Clients : Message(c)
      BY <2>2, QuietMessage DEF Message
    <2>3. CASE \E c \in Clients : Move(c)
      BY <2>3, QuietMove
    <2>4. CASE \E c \in Clients : \/ ReaderCleanup(c) \/ ReaderCleaned(c)
                                  \/ TickerTimeout(c) \/ Cleanup(c)
      BY <2>4, QuietCleanup DEF Cleanup
    <2> QED BY <1>2, <2>1, <2>2, <2>3, <2>4 DEF Next
  <1> QED BY <1>1, <1>2

LEMMA NamesNext == NamesInv /\ [Next]_vars => NamesInv'
  <1> SUFFICES ASSUME NamesInv, [Next]_vars PROVE ReservedNames' /\ DistinctNames'
    BY TypeNext DEF NamesInv
  <1>1. CASE Quiet
    BY <1>1, QuietKeepsNames DEF NamesInv
  <1>2. CASE \E c \in Clients : ReleaseName(c)
    <2>1. PICK c \in Clients : ReleaseName(c)
      BY <1>2
    <2>2. DistinctNames'
      BY <2>1, ReleaseFrees DEF NamesInv, DistinctNames
    <2>3. \A d \in Clients \ {c} : Holds(d) => name[d] # name[c]
      BY <2>1, ReleaseFrees DEF NamesInv, DistinctNames
    <2>4. ReservedNames'
      BY <2>1, <2>3, ReleaseFrees DEF NamesInv, ReservedNames
    <2> QED BY <2>2, <2>4
  <1>3. CASE \E c \in Clients, u \in Requests, rn \in RoomNames : Hello(c, u, rn)
    <2>1. PICK c \in Clients, u \in Requests, rn \in RoomNames : Hello(c, u, rn)
      BY <1>3
    <2>2. PICK n \in Username :
              /\ ~Holds(c)
              /\ \A d \in Clients : Holds(d) => name[d] # n
              /\ names' = names \cup {n}
              /\ name' = [name EXCEPT ![c] = n]
              /\ Holds(c)'
              /\ \A d \in Clients \ {c} : Holds(d)' = Holds(d)
      BY <2>1, HelloClaims
    <2>3. /\ name'[c] = n
          /\ \A d \in Clients \ {c} : name'[d] = name[d]
      BY <2>2 DEF NamesInv, TypeOK
    <2>4. DistinctNames'
      BY <2>2, <2>3 DEF NamesInv, DistinctNames
    <2>5. ReservedNames'
      BY <2>2, <2>3 DEF NamesInv, ReservedNames
    <2> QED BY <2>4, <2>5
  <1> QED BY <1>1, <1>2, <1>3, NamesStep DEF NamesInv

LEMMA NamesInvariant == Spec => []NamesInv
  BY NamesInit, NamesNext, PTL DEF Spec

\* No two connections ever go by the same username, whatever the interleaving
\* of Hellos, room changes, disconnections, timeouts and cleanups.
THEOREM UniqueNames == Spec => []DistinctNames
  <1>1. NamesInv => DistinctNames
    BY DEF NamesInv
  <1> QED BY <1>1, NamesInvariant, PTL

\* RoomManager.names is always the set of the usernames in use: no reservation
\* is lost to somebody else's release, and none leaks.
THEOREM NamesReserved == Spec => []ReservedNames
  <1>1. NamesInv => ReservedNames
    BY DEF NamesInv
  <1> QED BY <1>1, NamesInvariant, PTL
-----------------------------------------------------------------------------
\* The refinement mapping: the connection owns the username it holds.
Owner == [c \in Clients |-> IF Holds(c) THEN name[c] ELSE None]

LEMMA OwnerInit == Init => Reg!Init
  BY DEF Init, Reg!Init, Holds, LoggedIn

LEMMA OwnerStep == NamesInv /\ [Next]_vars => [Reg!Next]_Owner
  <1> SUFFICES ASSUME NamesInv, [Next]_vars PROVE Reg!Next \/ Owner' = Owner
    OBVIOUS
  <1>1. CASE Quiet
    BY <1>1 DEF Quiet, Owner
  <1>2. CASE \E c \in Clients : ReleaseName(c)
    <2>1. PICK c \in Clients : ReleaseName(c)
      BY <1>2
    <2>2. name[c] # None
      BY <2>1, ReleaseFrees, HolderNamed DEF NamesInv
    <2>3. Owner' = [Owner EXCEPT ![c] = None]
      BY <2>1, ReleaseFrees DEF Owner
    <2>4. Reg!Release(c)
      BY <2>1, <2>2, <2>3, ReleaseFrees DEF Reg!Release, Owner
    <2> QED BY <2>4 DEF Reg!Next
  <1>3. CASE \E c \in Clients, u \in Requests, rn \in RoomNames : Hello(c, u, rn)
    <2>1. PICK c \in Clients, u \in Requests, rn \in RoomNames : Hello(c, u, rn)
      BY <1>3
    <2>2. PICK n \in Username :
              /\ ~Holds(c)
              /\ \A d \in Clients : Holds(d) => name[d] # n
              /\ names' = names \cup {n}
              /\ name' = [name EXCEPT ![c] = n]
              /\ Holds(c)'
              /\ \A d \in Clients \ {c} : Holds(d)' = Holds(d)
      BY <2>1, HelloClaims
    <2>3. /\ name'[c] = n
          /\ \A d \in Clients \ {c} : name'[d] = name[d]
      BY <2>2 DEF NamesInv, TypeOK
    <2>4. Owner' = [Owner EXCEPT ![c] = n]
      BY <2>2, <2>3 DEF Owner
    <2>5. n # None
      OBVIOUS
    <2>6. Reg!Claim(c, n)
      BY <2>2, <2>4, <2>5 DEF Reg!Claim, Owner
    <2> QED BY <2>6 DEF Reg!Next
  <1> QED BY <1>1, <1>2, <1>3, NamesStep DEF NamesInv

\* Name allocation implements Registry: a claim is atomic and exclusive, and a
\* name changes hands only after its owner released it.
THEOREM ImplementsRegistry == Spec => RegistrySpec
  <1>1. Init /\ [][Next]_vars /\ []NamesInv => Reg!Init /\ [][Reg!Next]_Owner
    BY OwnerInit, OwnerStep, PTL
  <1> QED BY <1>1, NamesInvariant, PTL DEF Spec, RegistrySpec, Reg!Spec, Owner
-----------------------------------------------------------------------------
\* The loop of findFreeUsername.  A recursive function is what it is said to be
\* if such a function exists, and that it computes what it should is shown for
\* the least counterexample: both take the least element of a set of naturals.

\* Some well-founded relation orders the naturals.
LEMMA NaturalsWellFounded ==
    \E less : IsWellFoundedOn(less, Nat) /\ \A n, m \in Nat : n < m => <<n, m>> \in less
  <1>1. IsWellFoundedOn(OpToRel(<, Nat), Nat)
    BY NatLessThanWellFounded
  <1>2. \A n, m \in Nat : n < m => <<n, m>> \in OpToRel(<, Nat)
    BY DEF OpToRel
  <1> QED BY <1>1, <1>2

\* Every set of naturals has a least element.
LEMMA LeastNatural ==
    ASSUME NEW S, S \subseteq Nat, S # {}
    PROVE  \E m \in S : \A n \in S : m <= n
  <1>1. PICK less : IsWellFoundedOn(less, Nat) /\ \A n, m \in Nat : n < m => <<n, m>> \in less
    BY NaturalsWellFounded
  <1>4. IsWellFoundedOn(less, Nat)
    BY <1>1
  <1>2. PICK m \in S : \A n \in S : ~ (<<n, m>> \in less)
    BY <1>4, WFMin
  <1>3. ASSUME NEW n \in S PROVE ~ (n < m)
    BY <1>1, <1>2, Zenon
  <1> QED BY <1>2, <1>3

\* The loop that has got to k stops at j.
StopsAt(taken, base, k, j) ==
    /\ k <= j
    /\ j = MaxUnderscores \/ <<base, j>> \notin taken
    /\ \A i \in k .. (j - 1) : <<base, i>> \in taken

\* It stops somewhere, and nowhere else.
LEMMA LoopStops ==
    ASSUME NEW taken, NEW base, NEW k \in 0 .. MaxUnderscores
    PROVE  /\ \E j \in 0 .. MaxUnderscores : StopsAt(taken, base, k, j)
           /\ \A i, j \in 0 .. MaxUnderscores :
                  StopsAt(taken, base, k, i) /\ StopsAt(taken, base, k, j) => i = j
  <1> DEFINE Ends == {j \in k .. MaxUnderscores : j = MaxUnderscores \/ <<base, j>> \notin taken}
  <1>1. Ends \subseteq Nat /\ MaxUnderscores \in Ends
    BY NamesAssumption
  <1>2. PICK j \in Ends : \A i \in Ends : j <= i
    BY <1>1, LeastNatural
  <1>3. StopsAt(taken, base, k, j) /\ j \in 0 .. MaxUnderscores
    BY <1>2, NamesAssumption DEF StopsAt
  <1>4. ASSUME NEW i \in 0 .. MaxUnderscores, NEW m \in 0 .. MaxUnderscores,
               StopsAt(taken, base, k, i), StopsAt(taken, base, k, m), i < m
        PROVE  FALSE
    BY <1>4, NamesAssumption DEF StopsAt
  <1> QED BY <1>3, <1>4, NamesAssumption

\* The function that the loop computes exists, ...
LEMMA LoopDefined ==
    ASSUME NEW taken, NEW base
    PROVE  Underscores(taken, base) =
               [k \in 0 .. MaxUnderscores |->
                   IF <<base, k>> \in taken /\ k < MaxUnderscores
                   THEN Underscores(taken, base)[k + 1] ELSE k]
  <1> DEFINE Stop == [k \in 0 .. MaxUnderscores |->
                         CHOOSE j \in 0 .. MaxUnderscores : StopsAt(taken, base, k, j)]
             Unfold(f) == [k \in 0 .. MaxUnderscores |->
                              IF <<base, k>> \in taken /\ k < MaxUnderscores THEN f[k + 1] ELSE k]
  <1>1. ASSUME NEW k \in 0 .. MaxUnderscores
        PROVE  Stop[k] \in 0 .. MaxUnderscores /\ StopsAt(taken, base, k, Stop[k])
    BY LoopStops
  <1> HIDE DEF Stop
  <1>2. ASSUME NEW k \in 0 .. MaxUnderscores
        PROVE  Stop[k] = IF <<base, k>> \in taken /\ k < MaxUnderscores THEN Stop[k + 1] ELSE k
    <2>1. CASE <<base, k>> \in taken /\ k < MaxUnderscores
      <3>1. k + 1 \in 0 .. MaxUnderscores
        BY <2>1, NamesAssumption
      <3>2. StopsAt(taken, base, k, Stop[k + 1]) /\ Stop[k + 1] \in 0 .. MaxUnderscores
        BY <1>1, <2>1, <3>1, NamesAssumption DEF StopsAt
      <3> QED BY <1>1, <2>1, <3>2, LoopStops
    <2>2. CASE ~(<<base, k>> \in taken /\ k < MaxUnderscores)
      <3>1. StopsAt(taken, base, k, k)
        BY <2>2, NamesAssumption DEF StopsAt
      <3> QED BY <1>1, <2>2, <3>1, LoopStops
    <2> QED BY <2>1, <2>2
  <1>3. Stop = Unfold(Stop)
    <2>1. Stop = [k \in 0 .. MaxUnderscores |-> Stop[k]]
      BY DEF Stop
    <2> QED BY <1>2, <2>1
  <1>4. \E f : f = Unfold(f)
    BY <1>3
  <1>5. Underscores(taken, base) = CHOOSE f : f = Unfold(f)
    BY DEF Underscores
  <1> HIDE DEF Unfold
  <1>6. Underscores(taken, base) = Unfold(Underscores(taken, base))
    BY <1>4, <1>5, Zenon
  <1> QED BY <1>6 DEF Unfold

\* ... and it is where the loop stops.
LEMMA LoopComputes ==
    ASSUME NEW taken, NEW base, NEW k \in 0 .. MaxUnderscores
    PROVE  /\ Underscores(taken, base)[k] \in 0 .. MaxUnderscores
           /\ StopsAt(taken, base, k, Underscores(taken, base)[k])
  <1> DEFINE f == Underscores(taken, base)
             Right(i) == f[i] \in 0 .. MaxUnderscores /\ StopsAt(taken, base, i, f[i])
             Wrong == {d \in 0 .. MaxUnderscores : ~ Right(MaxUnderscores - d)}
  <1> HIDE DEF f
  <1>0. f = [m \in 0 .. MaxUnderscores |->
                IF <<base, m>> \in taken /\ m < MaxUnderscores THEN f[m + 1] ELSE m]
    BY LoopDefined DEF f
  <1>1. ASSUME NEW i \in 0 .. MaxUnderscores
        PROVE  f[i] = IF <<base, i>> \in taken /\ i < MaxUnderscores THEN f[i + 1] ELSE i
    BY <1>0
  <1>2. Wrong = {}
    <2> SUFFICES ASSUME Wrong # {} PROVE FALSE
      OBVIOUS
    <2>1. PICK d \in Wrong : \A e \in Wrong : d <= e
      <3>1. Wrong \subseteq Nat
        BY NamesAssumption
      <3> HIDE DEF Wrong
      <3> QED BY <3>1, LeastNatural
    <2> DEFINE i == MaxUnderscores - d
    <2>2. i \in 0 .. MaxUnderscores /\ ~ Right(i) /\ d \in 0 .. MaxUnderscores
      BY <2>1, NamesAssumption
    <2>3. CASE <<base, i>> \in taken /\ i < MaxUnderscores
      <3>1. Right(i + 1)
        <4>1. d - 1 \in 0 .. MaxUnderscores /\ i + 1 = MaxUnderscores - (d - 1)
          BY <2>2, <2>3, NamesAssumption
        <4>2. d - 1 \notin Wrong
          BY <2>1, <2>2
        <4> QED BY <4>1, <4>2
      <3>2. f[i] = f[i + 1]
        BY <1>1, <2>2, <2>3
      <3>3. Right(i)
        BY <2>2, <2>3, <3>1, <3>2, NamesAssumption DEF StopsAt
      <3> QED BY <2>2, <3>3
    <2>4. CASE ~(<<base, i>> \in taken /\ i < MaxUnderscores)
      <3>1. f[i] = i
        BY <1>1, <2>2, <2>4
      <3>2. Right(i)
        BY <2>2, <2>4, <3>1, NamesAssumption DEF StopsAt
      <3> QED BY <2>2, <3>2
    <2> QED BY <2>3, <2>4
  <1>3. MaxUnderscores - k \in 0 .. MaxUnderscores /\ MaxUnderscores - (MaxUnderscores - k) = k
    BY NamesAssumption
  <1>4. Right(k)
    BY <1>2, <1>3
  <1> QED BY <1>4 DEF f

\* The loop started as findFreeUsername starts it finds the free name, and there
\* is no other, provided that some name with that base is free.
LEMMA FoundIsFree ==
    ASSUME NEW taken, NEW u \in Username, Length(u) > 0,
           \E k \in 1 .. MaxUnderscores : <<u[1], k>> \notin taken
    PROVE  {n \in Username : IsFreeName(n, taken, u)} = {FoundName(taken, u)}
  <1> DEFINE b == u[1]
             t == Truncated(u)
             start == FirstTry(taken, u)[2]
             j == Underscores(taken, b)[start]
  <1>1. b \in Bases /\ u = <<b, u[2]>> /\ u[2] \in 0 .. MaxUnderscores /\ BaseLen[b] \in 0 .. MaxUsernameLength
    BY NamesAssumption DEF Username
  <1>2. t \in Username /\ t[1] = b
    BY <1>1, NamesAssumption DEF Truncated, Username, Length
  <1>3. start \in 0 .. MaxUnderscores /\ FirstTry(taken, u)[1] = b
    BY <1>1, <1>2, NamesAssumption DEF FirstTry, Username, Length
  <1>4. FoundName(taken, u) = <<b, j>>
    BY <1>3 DEF FoundName
  <1>5. j \in 0 .. MaxUnderscores /\ StopsAt(taken, b, start, j)
    BY <1>3, LoopComputes
  <1> HIDE DEF j
  <1>6. CASE t \notin taken
    <2>1. t = <<b, start>>
      BY <1>2, <1>6 DEF FirstTry, Username
    <2>2. j = start
      BY <1>3, <1>5, <1>6, <2>1, NamesAssumption DEF StopsAt
    <2>3. \A n \in Username : IsFreeName(n, taken, u) <=> n = t
      BY <1>2, <1>6 DEF IsFreeName
    <2> QED BY <1>2, <1>4, <2>1, <2>2, <2>3
  <1>7. CASE t \in taken
    <2>1. start = IF BaseLen[b] = 0 THEN 1 ELSE 0
      BY <1>7 DEF FirstTry
    <2> HIDE DEF start
    <2>2. PICK k \in 1 .. MaxUnderscores : <<b, k>> \notin taken
      OBVIOUS
    <2>3. j <= k /\ <<b, j>> \notin taken /\ start <= j
      BY <1>3, <1>5, <2>1, <2>2, NamesAssumption DEF StopsAt
    <2>4. ASSUME NEW i \in 0 .. (j - 1)
          PROVE  <<b, i>> \in taken \/ Length(<<b, i>>) = 0
      BY <1>1, <1>3, <1>5, <2>1, NamesAssumption DEF StopsAt, Length
    <2>5. <<b, j>> \in Username /\ Length(<<b, j>>) > 0
      BY <1>1, <1>5, <2>1, <2>3, NamesAssumption DEF Username, Length
    <2>6. IsFreeName(<<b, j>>, taken, u)
      BY <1>7, <2>3, <2>4, <2>5 DEF IsFreeName
    <2>7. ASSUME NEW n \in Username, IsFreeName(n, taken, u)
          PROVE  n = <<b, j>>
      <3>1. /\ n = <<b, n[2]>> /\ n[2] \in 0 .. MaxUnderscores
            /\ n \notin taken /\ Length(n) > 0
            /\ \A i \in 0 .. (n[2] - 1) : <<b, i>> \in taken \/ Length(<<b, i>>) = 0
        BY <1>7, <2>7 DEF IsFreeName, Username
      <3>2. ~(n[2] < j)
        BY <1>5, <2>4, <3>1, NamesAssumption
      <3>3. ~(j < n[2])
        BY <1>1, <1>5, <2>3, <2>5, <3>1, NamesAssumption
      <3> QED BY <1>5, <3>1, <3>2, <3>3, NamesAssumption
    <2> QED BY <1>4, <2>5, <2>6, <2>7
  <1> QED BY <1>6, <1>7

\* The model lets names grow further than all connections together can need.
Enough == IsFiniteSet(Clients) /\ Cardinality(Clients) < MaxUnderscores

\* Too few names are in use for all those with one base to be taken.
LEMMA SomeNameFree ==
    ASSUME NamesInv, Enough, NEW b \in Bases
    PROVE  \E k \in 1 .. MaxUnderscores : <<b, k>> \notin Taken
  <1> SUFFICES ASSUME \A k \in 1 .. MaxUnderscores : <<b, k>> \in Taken PROVE FALSE
    OBVIOUS
  <1> DEFINE Bearer == [k \in 1 .. MaxUnderscores |-> CHOOSE c \in Clients : name[c] = <<b, k>>]
  <1>1. \A n \in Taken : \E c \in Clients : name[c] = n
    BY DEF Taken, NamesInv, ReservedNames
  <1>2. ASSUME NEW k \in 1 .. MaxUnderscores
        PROVE  Bearer[k] \in Clients /\ name[Bearer[k]] = <<b, k>>
    BY <1>1
  <1>3. Bearer \in [1 .. MaxUnderscores -> Clients]
    BY <1>2
  <1> HIDE DEF Bearer
  <1>4. Bearer \in Injection(1 .. MaxUnderscores, Clients)
    BY <1>2, <1>3 DEF Injection, IsInjective
  <1>5. Cardinality(1 .. MaxUnderscores) <= Cardinality(Clients)
    BY <1>4, FS_Injection DEF Enough
  <1>6. Cardinality(1 .. MaxUnderscores) = MaxUnderscores
    BY FS_Interval, NamesAssumption
  <1>7. Cardinality(Clients) \in Nat
    BY FS_CardinalityType DEF Enough
  <1> QED BY <1>5, <1>6, <1>7, NamesAssumption DEF Enough

\* Whatever names are in use, findFreeUsername finds the one name it should, and
\* so no Hello is left without a username.
THEOREM FreeNameFound == ASSUME Enough PROVE Spec => []LoopFindsFreeName
  <1>1. NamesInv => LoopFindsFreeName
    <2> SUFFICES ASSUME NamesInv, NEW u \in Username, Length(u) > 0
                 PROVE  {n \in Username : IsFreeName(n, Taken, u)} = {FoundName(Taken, u)}
      BY DEF LoopFindsFreeName
    <2>1. u[1] \in Bases
      BY DEF Username
    <2> QED BY <2>1, SomeNameFree, FoundIsFree
  <1> QED BY <1>1, NamesInvariant, PTL
=============================================================================
