---------------------------- MODULE MembersProofs ----------------------------
(***************************************************************************)
(* Proofs about Rooms.tla: no empty room is kept, whatever happens; and,   *)
(* on a calm network, both directions of the membership relation agree,    *)
(* nobody is evicted and nobody who has left is still a member.  Also, a   *)
(* connection that ended without cleanup() is left to its ticker.          *)
(*                                                                         *)
(* The first rests on Tended: an empty room in the map has somebody who    *)
(* will enter or prune it.  For the others cleanup() and moveWatcher must  *)
(* not work on one watcher at once (Apart), so that what either of them    *)
(* has read is still so when it acts on it (Current), and a watcher whose  *)
(* name has been released must be out of reach for the next owner of its   *)
(* name (Bygone).                                                          *)
(***************************************************************************)
EXTENDS RoomsProofs

\* The room map's keys are the rooms' names.
Keyed == \A rn \in RoomNames : rooms[rn] # None => rooms[rn][1] = rn

\* c is about to enter Room object o, or to delete it if it is empty.
Minds(c, o) ==
    \/ pc[c] = "join" /\ dest[c] = o
    \/ pc[c] = "prune" /\ old[c] = o
    \/ cpc[c] = "prune" /\ cold[c] = o

Tended ==
    \A rn \in RoomNames :
        rooms[rn] # None /\ members[rooms[rn]] = {} => \E c \in Clients : Minds(c, rooms[rn])

TendedInv == TypeOK /\ Keyed /\ Tended
-----------------------------------------------------------------------------
\* No empty room is kept.

LEMMA TendedInit == Init => TendedInv
  BY TypeInit DEF Init, TendedInv, Keyed, Tended

\* Steps that neither change the map nor a room, and leave everybody as mindful.
LEMMA TendedQuiet ==
    ASSUME TendedInv, UNCHANGED <<rooms, members>>,
           \A e \in Clients, o \in Objects : Minds(e, o) => Minds(e, o)'
    PROVE  Keyed' /\ Tended'
  BY DEF TendedInv, TypeOK, Keyed, Tended

LEMMA TendedMessage ==
    ASSUME TendedInv, NEW c \in Clients, Message(c)
    PROVE  Keyed' /\ Tended'
  <1>1. /\ UNCHANGED <<rooms, members, old, dest, cpc, cold>>
        /\ pc[c] = "read" /\ \A e \in Clients \ {c} : pc'[e] = pc[e]
    BY DEF TendedInv, TypeOK, Message, SetRoom, Hello, RejectHello, ClientError, Fail, CanRead,
           registryVars, cleanVars
  <1>2. \A e \in Clients, o \in Objects : Minds(e, o) => Minds(e, o)'
    BY <1>1 DEF Minds
  <1> QED BY <1>1, <1>2, TendedQuiet

\* A watcher that leaves a room is bound to prune it.
LEMMA TendedLeave ==
    ASSUME TendedInv, NEW c \in Clients, LeaveOldRoom(c) \/ UnlinkWatcher(c)
    PROVE  Keyed' /\ Tended'
  <1>1. PICK left \in Objects :
            /\ members' = Left(left, c)
            /\ Minds(c, left)'
    BY DEF LeaveOldRoom, UnlinkWatcher, TendedInv, TypeOK, Minds
  <1>2. rooms' = rooms /\ \A o \in Objects : o # left => members'[o] = members[o]
    BY <1>1 DEF LeaveOldRoom, UnlinkWatcher, TendedInv, TypeOK, Left
  <1>3. \A e \in Clients, o \in Objects : Minds(e, o) => Minds(e, o)'
    BY DEF LeaveOldRoom, UnlinkWatcher, TendedInv, TypeOK, Minds, cleanVars, readerVars
  <1> QED BY <1>1, <1>2, <1>3 DEF TendedInv, TypeOK, Keyed, Tended

\* Pruning an empty room drops it from the map: what is left there, somebody
\* else minds.
LEMMA TendedPrune ==
    ASSUME TendedInv, NEW c \in Clients, PruneOldRoom(c) \/ PruneLastRoom(c)
    PROVE  Keyed' /\ Tended'
  <1>1. PICK left \in Objects :
            /\ rooms' = Pruned(left) /\ members' = members
            /\ \A e \in Clients, o \in Objects : Minds(e, o) => Minds(e, o)' \/ o = left
    BY DEF PruneOldRoom, PruneLastRoom, TendedInv, TypeOK, Minds, cleanVars, readerVars
  <1>2. left[1] \in RoomNames
    BY DEF Objects
  <1>3. \A rn \in RoomNames : rooms'[rn] # None =>
            rooms'[rn] = rooms[rn] /\ (members[left] = {} => rn # left[1])
    BY <1>1, <1>2 DEF Pruned, TendedInv, TypeOK
  <1>4. \A rn \in RoomNames : rooms'[rn] # None /\ members[rooms[rn]] = {} => rooms[rn] # left
    BY <1>3 DEF TendedInv, Keyed
  <1> QED BY <1>1, <1>3, <1>4 DEF TendedInv, TypeOK, Keyed, Tended

\* What getRoom finds or makes.
LEMMA LookedUp ==
    ASSUME TypeOK, NEW c \in Clients, LookupRoom(c)
    PROVE  \E o \in Objects :
              /\ dest' = [dest EXCEPT ![c] = o]
              /\ \/ rooms[target[c]] = o /\ UNCHANGED <<rooms, members>>
                 \/ /\ rooms[target[c]] = None /\ Fresh(o) /\ o[1] = target[c]
                    /\ rooms' = [rooms EXCEPT ![target[c]] = o]
                    /\ members' = [members EXCEPT ![o] = {}]
  <1>1. target[c] \in RoomNames
    BY DEF LookupRoom, TypeOK
  <1>2. CASE rooms[target[c]] # None
    BY <1>1, <1>2 DEF LookupRoom, TypeOK
  <1>3. CASE rooms[target[c]] = None
    <2>1. PICK i \in Copies :
              /\ Fresh(<<target[c], i>>)
              /\ rooms' = [rooms EXCEPT ![target[c]] = <<target[c], i>>]
              /\ members' = [members EXCEPT ![<<target[c], i>>] = {}]
              /\ dest' = [dest EXCEPT ![c] = <<target[c], i>>]
      BY <1>3 DEF LookupRoom
    <2>2. <<target[c], i>> \in Objects
      BY <1>1 DEF Objects
    <2> QED BY <1>3, <2>1, <2>2
  <1> QED BY <1>2, <1>3

\* A new room is empty until the watcher that created it has entered.
LEMMA TendedLookup ==
    ASSUME TendedInv, NEW c \in Clients, LookupRoom(c)
    PROVE  Keyed' /\ Tended'
  <1>1. /\ target[c] \in RoomNames /\ pc[c] = "lookup" /\ pc' = [pc EXCEPT ![c] = "join"]
        /\ UNCHANGED <<old, cpc, cold>>
    BY DEF LookupRoom, TendedInv, TypeOK, cleanVars
  <1>2. \A e \in Clients, o \in Objects : Minds(e, o) => Minds(e, o)'
    BY <1>1 DEF LookupRoom, TendedInv, TypeOK, Minds
  <1>3. CASE rooms[target[c]] # None
    BY <1>2, <1>3, TendedQuiet DEF LookupRoom
  <1>4. CASE rooms[target[c]] = None
    <2>1. PICK new \in Objects :
              /\ Fresh(new) /\ new[1] = target[c]
              /\ rooms' = [rooms EXCEPT ![target[c]] = new]
              /\ members' = [members EXCEPT ![new] = {}]
              /\ dest' = [dest EXCEPT ![c] = new]
      BY RoomsAssumption, <1>4, LookedUp DEF TendedInv
    <2>2. dest'[c] = new /\ pc'[c] = "join"
      BY <1>1, <2>1 DEF TendedInv, TypeOK
    <2>3. Minds(c, new)'
      BY <2>2 DEF Minds
    <2>4. \A rn \in RoomNames : rn # target[c] => rooms'[rn] = rooms[rn]
      BY <2>1 DEF TendedInv, TypeOK
    <2>5. rooms'[target[c]] = new
      BY <1>1, <2>1 DEF TendedInv, TypeOK
    <2>6. \A rn \in RoomNames : rooms[rn] # None => members'[rooms[rn]] = members[rooms[rn]]
      BY <2>1 DEF Fresh, TendedInv, TypeOK
    <2>7. Keyed'
      BY <2>1, <2>4, <2>5 DEF TendedInv, Keyed
    <2>8. ASSUME NEW rn \in RoomNames, rooms'[rn] # None, members'[rooms'[rn]] = {}
          PROVE  \E e \in Clients : Minds(e, rooms[rn])'
      <3>1. CASE rn = target[c]
        BY <2>3, <2>5, <3>1 DEF Minds
      <3>2. CASE rn # target[c]
        <4>1. rooms'[rn] = rooms[rn] /\ rooms[rn] \in Objects \ {None} /\ members[rooms[rn]] = {}
          BY <2>4, <2>6, <2>8, <3>2 DEF TendedInv, TypeOK
        <4>2. PICK e \in Clients : Minds(e, rooms[rn])
          BY <4>1 DEF TendedInv, Tended
        <4> QED BY <1>2, <4>1, <4>2 DEF Minds
      <3> QED BY <3>1, <3>2
    <2>9. Tended'
      BY <2>8 DEF Tended
    <2> QED BY <2>7, <2>9
  <1> QED BY <1>3, <1>4

LEMMA TendedJoin ==
    ASSUME TendedInv, NEW c \in Clients, JoinRoom(c)
    PROVE  Keyed' /\ Tended'
  <1>1. dest[c] \in Objects
    BY DEF JoinRoom, TendedInv, TypeOK
  <1>2. c \in members'[dest[c]] /\ \A o \in Objects : o # dest[c] => members'[o] = members[o]
    BY <1>1 DEF JoinRoom, Entered, TendedInv, TypeOK
  <1>3. \A e \in Clients, o \in Objects : Minds(e, o) => Minds(e, o)' \/ o = dest[c]
    BY DEF JoinRoom, TendedInv, TypeOK, Minds, cleanVars
  <1>4. rooms' = rooms
    BY DEF JoinRoom
  <1> QED BY <1>1, <1>2, <1>3, <1>4 DEF TendedInv, TypeOK, Keyed, Tended

\* The other steps of moveWatcher and cleanup().
LEMMA TendedOther ==
    ASSUME TendedInv, NEW c \in Clients,
           \/ ReadOldRoom(c) \/ ReaderCleanup(c) \/ ReaderCleaned(c)
           \/ TickerTimeout(c) \/ ReleaseName(c)
    PROVE  Keyed' /\ Tended'
  <1>1. UNCHANGED <<rooms, members>>
    BY DEF ReadOldRoom, ReaderCleanup, ReaderCleaned, TickerTimeout, ReleaseName, registryVars
  <1>2. \A e \in Clients, o \in Objects : Minds(e, o) => Minds(e, o)'
    <2>1. CASE ReadOldRoom(c)
      BY <2>1 DEF ReadOldRoom, TendedInv, TypeOK, Minds, cleanVars
    <2>2. CASE ReaderCleanup(c) \/ TickerTimeout(c)
      BY <2>2 DEF ReaderCleanup, TickerTimeout, StartCleanup, TendedInv, TypeOK, Minds, readerVars
    <2>3. CASE ReaderCleaned(c)
      BY <2>3 DEF ReaderCleaned, TendedInv, TypeOK, Minds, cleanVars
    <2>4. CASE ReleaseName(c)
      BY <2>4 DEF ReleaseName, TendedInv, TypeOK, Minds, readerVars
    <2> QED BY <2>1, <2>2, <2>3, <2>4
  <1> QED BY <1>1, <1>2, TendedQuiet

LEMMA TendedNext == TendedInv /\ [Next]_vars => TendedInv'
  <1> SUFFICES ASSUME TendedInv, [Next]_vars PROVE Keyed' /\ Tended'
    BY TypeNext DEF TendedInv
  <1>1. ASSUME NEW c \in Clients,
               \/ Message(c) \/ Move(c) \/ ReaderCleanup(c) \/ ReaderCleaned(c)
               \/ TickerTimeout(c) \/ Cleanup(c)
        PROVE  Keyed' /\ Tended'
    BY <1>1, TendedMessage, TendedLeave, TendedPrune, TendedLookup, TendedJoin, TendedOther
    DEF Move, Cleanup
  <1>2. CASE UNCHANGED vars
    BY <1>2, TendedQuiet DEF vars, Minds
  <1> QED BY <1>1, <1>2 DEF Next, Terminated

\* No room is leaked: once nobody is moving or leaving, the map holds no empty
\* room, in spite of timeouts that strike while the reader is at work.
THEOREM EmptyRoomsGo == Spec => []NoEmptyRoomKept
  <1>1. TendedInv => NoEmptyRoomKept
    BY DEF TendedInv, Tended, NoEmptyRoomKept, AtRest, Minds
  <1>2. Spec => []TendedInv
    BY TendedInit, TendedNext, PTL DEF Spec
  <1> QED BY <1>1, <1>2, PTL
-----------------------------------------------------------------------------
\* A logged-in connection that waits for input, or has ended without cleanup(),
\* is in a room.
Housed ==
    \A c \in Clients : cpc[c] = "off" =>
        /\ pc[c] \in {"read", "gone"} /\ LoggedIn(c) => room[c] # None
        /\ pc[c] = "gone" => LoggedIn(c)

HousedInv == TypeOK /\ Housed

LEMMA HousedNext == HousedInv /\ [Next]_vars => HousedInv'
  <1> SUFFICES ASSUME HousedInv, [Next]_vars PROVE Housed'
    BY TypeNext DEF HousedInv
  <1> USE DEF HousedInv, TypeOK, Housed, LoggedIn, registryVars, readerVars, cleanVars
  <1>1. ASSUME NEW c \in Clients, Message(c) PROVE Housed'
    BY <1>1 DEF Message, SetRoom, Hello, RejectHello, ClientError, Fail, CanRead
  <1>2. ASSUME NEW c \in Clients, Move(c) PROVE Housed'
    BY <1>2 DEF Move, ReadOldRoom, LeaveOldRoom, PruneOldRoom, LookupRoom, JoinRoom
  <1>3. ASSUME NEW c \in Clients, ReaderCleanup(c) \/ ReaderCleaned(c) \/ TickerTimeout(c)
        PROVE  Housed'
    BY <1>3 DEF ReaderCleanup, ReaderCleaned, TickerTimeout, StartCleanup
  <1>4. ASSUME NEW c \in Clients, Cleanup(c) PROVE Housed'
    BY <1>4 DEF Cleanup, ReleaseName, UnlinkWatcher, PruneLastRoom
  <1>5. CASE UNCHANGED vars
    BY <1>5 DEF vars
  <1> QED BY <1>1, <1>2, <1>3, <1>4, <1>5 DEF Next, Terminated

\* A connection whose reader has returned without cleanup() is one that its state
\* ticker looks at: sendPeriodicState skips a watcher without a room, and would
\* never time it out (server.go, dispatch of an Error; state.go,
\* sendPeriodicState).
TickerFinds ==
    \A c \in Clients : pc[c] = "gone" /\ cpc[c] = "off" => LoggedIn(c) /\ room[c] # None

\* The ticker finds every connection that nobody else will clean up, whatever the
\* interleaving of moves, timeouts and late messages.
THEOREM AbandonedIsFound == Spec => []TickerFinds
  <1>1. Init => HousedInv
    BY TypeInit DEF Init, HousedInv, Housed, LoggedIn
  <1>2. HousedInv => TickerFinds
    BY DEF HousedInv, Housed, TickerFinds
  <1>3. Spec => []HousedInv
    BY <1>1, HousedNext, PTL DEF Spec
  <1> QED BY <1>2, <1>3, PTL
-----------------------------------------------------------------------------
\* Membership on a calm network.

\* Neither does a ticker end a connection whose reader is at work, nor does a
\* reader find anything after a close.
Calm == ~LiveTimeouts /\ ~LateMessages

\* cleanup() runs after the reader's last step, and before any login or after it.
Apart ==
    \A c \in Clients :
        /\ cpc[c] # "off" => pc[c] \in {"read", "dropping", "closing", "gone"}
        /\ pc[c] = "read" => cpc[c] \in {"off", "done", "blank"}
        /\ cpc[c] = "blank" => ~LoggedIn(c)

\* The rooms that moveWatcher and removeWatcher remember are the watcher's.
Current ==
    \A c \in Clients :
        /\ pc[c] = "leave" => old[c] = room[c]
        /\ pc[c] \in {"prune", "lookup", "join"} => room[c] = None
        /\ pc[c] # "join" => dest[c] = None
        /\ cpc[c] = "unlink" => cold[c] = room[c]
        /\ cpc[c] \in {"prune", "done"} => room[c] = None
        /\ ~LoggedIn(c) => room[c] = None

\* The next owner of a name cannot come to the room of the previous one, who is
\* still there: that room has been dropped from the map.
Bygone ==
    \A c, d \in Clients :
        Holds(c) /\ cpc[d] = "unlink" /\ name[c] = name[d] =>
            dest[c] # room[d] /\ \A rn \in RoomNames : rooms[rn] # room[d]

CalmInv == NamesInv /\ Apart /\ Current /\ Bygone /\ SlotsAgree
-----------------------------------------------------------------------------
LEMMA CalmInit == Init => CalmInv
  <1> SUFFICES ASSUME Init PROVE Apart /\ Current /\ Bygone /\ SlotsAgree
    BY NamesInit DEF CalmInv
  <1> QED BY RoomsAssumption DEF Init, Apart, Current, Bygone, SlotsAgree, LoggedIn

\* Both goroutines of a connection take the steps they are left.
LEMMA ApartNext ==
    ASSUME Calm, CalmInv, NEW c \in Clients,
           \/ Message(c) \/ Move(c) \/ ReaderCleanup(c) \/ ReaderCleaned(c)
           \/ TickerTimeout(c) \/ Cleanup(c)
    PROVE  Apart'
  <1> USE RoomsAssumption DEF CalmInv, NamesInv, Apart, TypeOK, LoggedIn
  <1>1. CASE Message(c)
    BY <1>1 DEF Calm, Message, SetRoom, Hello, RejectHello, ClientError, Fail, CanRead,
                registryVars, cleanVars, LoggedIn
  <1>2. CASE Move(c)
    BY <1>2 DEF Move, ReadOldRoom, LeaveOldRoom, PruneOldRoom, LookupRoom, JoinRoom,
                registryVars, cleanVars
  <1>3. CASE ReaderCleanup(c)
    BY <1>3 DEF ReaderCleanup, StartCleanup, registryVars, readerVars
  <1>4. CASE ReaderCleaned(c)
    BY <1>4 DEF ReaderCleaned, registryVars, cleanVars
  <1>5. CASE TickerTimeout(c)
    BY <1>5 DEF Calm, TickerTimeout, StartCleanup, registryVars, readerVars
  <1>6. CASE Cleanup(c)
    BY <1>6 DEF Cleanup, ReleaseName, UnlinkWatcher, PruneLastRoom, readerVars
  <1> QED BY <1>1, <1>2, <1>3, <1>4, <1>5, <1>6

LEMMA CurrentNext ==
    ASSUME Calm, CalmInv, NEW c \in Clients,
           \/ Message(c) \/ Move(c) \/ ReaderCleanup(c) \/ ReaderCleaned(c)
           \/ TickerTimeout(c) \/ Cleanup(c)
    PROVE  Current'
  <1> USE RoomsAssumption DEF CalmInv, NamesInv, Apart, Current, TypeOK, LoggedIn
  <1>1. CASE Message(c)
    BY <1>1 DEF Calm, Message, SetRoom, Hello, RejectHello, ClientError, Fail, CanRead,
                registryVars, cleanVars, LoggedIn
  <1>2. CASE ReadOldRoom(c)
    BY <1>2 DEF ReadOldRoom, registryVars, cleanVars
  <1>3. CASE LeaveOldRoom(c)
    BY <1>3 DEF LeaveOldRoom, registryVars, cleanVars
  <1>4. CASE PruneOldRoom(c)
    BY <1>4 DEF PruneOldRoom, registryVars, cleanVars
  <1>5. CASE LookupRoom(c)
    <2>1. PICK o \in Objects : dest' = [dest EXCEPT ![c] = o]
      BY <1>5, LookedUp
    <2>2. /\ UNCHANGED <<name, room, old, cpc, cold>>
          /\ pc[c] = "lookup" /\ pc' = [pc EXCEPT ![c] = "join"]
      BY <1>5 DEF LookupRoom, cleanVars
    <2> QED BY <2>1, <2>2
  <1>6. CASE JoinRoom(c)
    BY <1>6 DEF JoinRoom, cleanVars
  <1>7. CASE ReaderCleanup(c)
    BY <1>7 DEF ReaderCleanup, StartCleanup, registryVars, readerVars
  <1>8. CASE ReaderCleaned(c)
    BY <1>8 DEF ReaderCleaned, registryVars, cleanVars
  <1>9. CASE TickerTimeout(c)
    BY <1>9 DEF Calm, TickerTimeout, StartCleanup, registryVars, readerVars
  <1>10. CASE Cleanup(c)
    BY <1>10 DEF Cleanup, ReleaseName, UnlinkWatcher, PruneLastRoom, readerVars
  <1> QED BY <1>1, <1>2, <1>3, <1>4, <1>5, <1>6, <1>7, <1>8, <1>9, <1>10 DEF Move

\* Nobody in the room that c is about to enter goes by its name: a holder of the
\* name would be c, and a watcher that has given it up is out of reach.
LEMMA NobodyEvicted ==
    ASSUME Calm, CalmInv, NEW c \in Clients, JoinRoom(c)
    PROVE  \A d \in members[dest[c]] : name[d] # name[c]
  <1> SUFFICES ASSUME NEW d \in members[dest[c]], name[d] = name[c] PROVE FALSE
    OBVIOUS
  <1> USE RoomsAssumption DEF CalmInv, NamesInv, TypeOK
  <1>1. /\ pc[c] = "join" /\ dest[c] \in Objects /\ LoggedIn(c) /\ cpc[c] = "off"
        /\ room[c] = None
    BY DEF JoinRoom, Apart, Current
  <1>2. d \in Clients /\ room[d] = dest[c] /\ d # c
    BY <1>1 DEF SlotsAgree
  <1>3. Holds(c) /\ LoggedIn(d)
    BY <1>1, <1>2 DEF Holds, LoggedIn
  <1>4. ~Holds(d)
    BY <1>2, <1>3 DEF DistinctNames
  <1>5. cpc[d] = "unlink"
    BY <1>1, <1>2, <1>3, <1>4 DEF Holds, Current, CleanPC
  <1> QED BY <1>2, <1>3, <1>5 DEF Bygone

LEMMA SlotsNext ==
    ASSUME Calm, CalmInv, NEW c \in Clients,
           \/ Message(c) \/ Move(c) \/ ReaderCleanup(c) \/ ReaderCleaned(c)
           \/ TickerTimeout(c) \/ Cleanup(c)
    PROVE  SlotsAgree'
  <1> USE RoomsAssumption DEF CalmInv, NamesInv, Apart, Current, TypeOK, LoggedIn, SlotsAgree
  <1>1. CASE Message(c) \/ ReaderCleanup(c) \/ ReaderCleaned(c) \/ TickerTimeout(c) \/ ReleaseName(c)
    BY <1>1 DEF Message, SetRoom, Hello, RejectHello, ClientError, Fail,
                ReaderCleanup, ReaderCleaned, TickerTimeout, StartCleanup, ReleaseName, registryVars, cleanVars
  <1>2. CASE ReadOldRoom(c) \/ PruneOldRoom(c) \/ PruneLastRoom(c)
    BY <1>2 DEF ReadOldRoom, PruneOldRoom, PruneLastRoom, registryVars, cleanVars
  <1>3. CASE LeaveOldRoom(c)
    BY <1>3 DEF LeaveOldRoom, Left
  <1>4. CASE UnlinkWatcher(c)
    BY <1>4 DEF UnlinkWatcher, Left
  <1>5. CASE LookupRoom(c)
    <2>1. PICK new \in Objects :
              members' = members \/ (Fresh(new) /\ members' = [members EXCEPT ![new] = {}])
      BY <1>5, LookedUp
    <2>2. room' = room
      BY <1>5 DEF LookupRoom
    <2> QED BY <2>1, <2>2 DEF Fresh
  <1>6. CASE JoinRoom(c)
    <2>1. /\ pc[c] = "join" /\ dest[c] \in Objects /\ room[c] = None
          /\ room' = [room EXCEPT ![c] = dest[c]]
      BY <1>6 DEF JoinRoom
    <2>2. \A d \in members[dest[c]] : name[d] # name[c]
      BY <1>6, NobodyEvicted DEF CalmInv
    <2>3. members' = [members EXCEPT ![dest[c]] = {d \in @ : name[d] # name[c]} \cup {c}]
      BY <1>6 DEF JoinRoom, Entered
    <2>4. {d \in members[dest[c]] : name[d] # name[c]} = members[dest[c]]
      BY <2>2
    <2>5. members' = [members EXCEPT ![dest[c]] = members[dest[c]] \cup {c}]
      BY <2>3, <2>4
    <2> QED BY <2>1, <2>5
  <1> QED BY <1>1, <1>2, <1>3, <1>4, <1>5, <1>6 DEF Move, Cleanup

LEMMA BygoneNext ==
    ASSUME Calm, CalmInv, NEW c \in Clients,
           \/ Message(c) \/ Move(c) \/ ReaderCleanup(c) \/ ReaderCleaned(c)
           \/ TickerTimeout(c) \/ Cleanup(c)
    PROVE  Bygone'
  <1> USE RoomsAssumption DEF CalmInv, NamesInv, Apart, Current, TypeOK, LoggedIn, Bygone, Holds
  <1>1. ASSUME NEW u \in Requests, NEW rn \in RoomNames, Hello(c, u, rn) PROVE Bygone'
    BY <1>1 DEF Hello, Taken, IsFreeName, SlotsAgree, cleanVars
  <1>2. CASE (\E rn \in RoomNames : SetRoom(c, rn)) \/ RejectHello(c) \/ ClientError(c) \/ Fail(c)
    BY <1>2 DEF SetRoom, RejectHello, ClientError, Fail, registryVars, cleanVars
  <1>3. CASE ReadOldRoom(c)
    BY <1>3 DEF ReadOldRoom, registryVars, cleanVars
  <1>4. CASE LeaveOldRoom(c)
    BY <1>4 DEF LeaveOldRoom, cleanVars
  <1>5. CASE PruneOldRoom(c)
    BY <1>5 DEF PruneOldRoom, Pruned, cleanVars
  <1>6. CASE LookupRoom(c)
    <2>1. PICK o \in Objects :
              /\ dest' = [dest EXCEPT ![c] = o]
              /\ \/ rooms' = rooms /\ rooms[target[c]] = o
                 \/ Fresh(o) /\ rooms' = [rooms EXCEPT ![target[c]] = o]
      BY <1>6, LookedUp
    <2>2. UNCHANGED <<name, room, cpc>> /\ target[c] \in RoomNames
      BY <1>6 DEF LookupRoom, cleanVars
    <2> QED BY <2>1, <2>2 DEF Fresh
  <1>7. CASE JoinRoom(c)
    BY <1>7 DEF JoinRoom, cleanVars
  <1>8. CASE ReaderCleanup(c) \/ ReaderCleaned(c) \/ TickerTimeout(c)
    BY <1>8 DEF ReaderCleanup, ReaderCleaned, TickerTimeout, StartCleanup, registryVars, readerVars, cleanVars
  <1>9. CASE ReleaseName(c)
    BY <1>9 DEF ReleaseName, DistinctNames, readerVars
  <1>10. CASE UnlinkWatcher(c)
    BY <1>10 DEF UnlinkWatcher, readerVars
  <1>11. CASE PruneLastRoom(c)
    BY <1>11 DEF PruneLastRoom, Pruned, readerVars
  <1> QED BY <1>1, <1>2, <1>3, <1>4, <1>5, <1>6, <1>7, <1>8, <1>9, <1>10, <1>11 DEF Message, Move, Cleanup

LEMMA CalmNext == Calm /\ CalmInv /\ [Next]_vars => CalmInv'
  <1> SUFFICES ASSUME Calm, CalmInv, [Next]_vars PROVE Apart' /\ Current' /\ Bygone' /\ SlotsAgree'
    BY NamesNext DEF CalmInv
  <1>1. CASE UNCHANGED vars
    BY <1>1 DEF vars, CalmInv, Apart, Current, Bygone, SlotsAgree, Holds, LoggedIn
  <1>2. CASE Next /\ ~UNCHANGED vars
    BY <1>2, ApartNext, CurrentNext, BygoneNext, SlotsNext DEF Next, Terminated
  <1> QED BY <1>1, <1>2

LEMMA CalmInvariant == ASSUME Calm PROVE Spec => []CalmInv
  <1>1. CalmInv /\ [Next]_vars => CalmInv'
    BY CalmNext
  <1> QED BY <1>1, CalmInit, PTL DEF Spec

\* On a calm network a Room object lists a watcher exactly when the watcher is in
\* that room, however Hellos, moves and departures interleave.
THEOREM MembershipAgrees == ASSUME Calm PROVE Spec => []SlotsAgree
  <1>1. CalmInv => SlotsAgree
    BY DEF CalmInv
  <1> QED BY <1>1, CalmInvariant, PTL

\* On a calm network nobody who has left is still a member of a room.
THEOREM NobodyHaunts == ASSUME Calm PROVE Spec => []NoGhosts
  <1>1. CalmInv => NoGhosts
    BY RoomsAssumption DEF CalmInv, NamesInv, TypeOK, Apart, Current, SlotsAgree, NoGhosts, Over
  <1> QED BY <1>1, CalmInvariant, PTL

\* Whoever leaves a room's list does so by a step of its own.
LEMMA OwnExitOnly ==
    ASSUME Calm, CalmInv, [Next]_vars, NEW c \in Clients, NEW o \in Objects,
           c \in members[o], c \notin members'[o]
    PROVE  OwnExit(c)
  <1> USE RoomsAssumption DEF CalmInv, NamesInv, TypeOK
  <1>1. PICK e \in Clients :
            \/ LeaveOldRoom(e) \/ UnlinkWatcher(e) \/ LookupRoom(e) \/ JoinRoom(e)
    BY DEF Next, Terminated, vars, Message, SetRoom, Hello, RejectHello, ClientError, Fail,
           Move, ReadOldRoom, PruneOldRoom, ReaderCleanup, ReaderCleaned, TickerTimeout,
           Cleanup, ReleaseName, PruneLastRoom, registryVars
  <1>2. CASE LeaveOldRoom(e)
    BY <1>2 DEF LeaveOldRoom, Left, OwnExit
  <1>3. CASE UnlinkWatcher(e)
    BY <1>3 DEF UnlinkWatcher, Left, OwnExit
  <1>4. CASE LookupRoom(e)
    BY <1>4, LookedUp DEF Fresh, SlotsAgree
  <1>5. CASE JoinRoom(e)
    BY <1>5, NobodyEvicted DEF JoinRoom, Entered
  <1> QED BY <1>1, <1>2, <1>3, <1>4, <1>5

\* On a calm network no step of somebody else takes a watcher out of its room.
THEOREM NobodyIsEvicted == ASSUME Calm PROVE Spec => NoEviction
  <1>1. CalmInv /\ [Next]_vars =>
            [\A c \in Clients, o \in Objects :
                c \in members[o] /\ c \notin members'[o] => OwnExit(c)]_vars
    BY OwnExitOnly
  <1>2. Spec => []CalmInv
    BY CalmInvariant
  <1> QED BY <1>1, <1>2, PTL DEF Spec, NoEviction
=============================================================================
