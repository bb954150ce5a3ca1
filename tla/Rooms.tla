-------------------------------- MODULE Rooms --------------------------------
(***************************************************************************)
(* Rooms, watchers and usernames of the syncplay server                    *)
(* (internal/syncplay: server.go, room.go, state.go).                      *)
(*                                                                         *)
(* Each connection has a reader goroutine (handleConnection) and, once     *)
(* logged in, a state ticker goroutine.  Either of them may run cleanup(). *)
(* A step of this module is one critical section of RoomManager.mu or      *)
(* Room.mu; everything a goroutine does between two of them is local.      *)
(* A connection logs in at most once, so its watcher is named after it.    *)
(***************************************************************************)
EXTENDS Names, FiniteSets

CONSTANTS Clients,       \* connections, each used for one session
          RoomNames,     \* room names
          Copies,        \* distinguishes Room objects of the same name
          Requests,      \* the usernames clients ask for in Hello
          None,          \* nil
          LiveTimeouts,  \* may the protocol timeout fire while the reader runs?
          LateMessages   \* may the reader find buffered lines after a close?

Objects == RoomNames \X Copies      \* *Room pointers: <<name, identity>>

ASSUME RoomsAssumption ==
    /\ Requests \subseteq Username
    /\ None \notin Username \cup RoomNames \cup Objects
    /\ LiveTimeouts \in BOOLEAN
    /\ LateMessages \in BOOLEAN

VARIABLES
    names,    \* RoomManager.names: the reserved usernames
    rooms,    \* RoomManager.rooms: room name -> Room object or None
    members,  \* Room.watchers: the watchers in each Room object's map
    name,     \* Watcher.name; None until the connection has logged in
    room,     \* Watcher.room
    pc,       \* where the reader goroutine is
    target,   \* moveWatcher's parameter roomName
    old,      \* moveWatcher's local oldRoom
    dest,     \* moveWatcher's local room
    cpc,      \* where cleanup() is; "off" = not entered, i.e. closed is false
    cold      \* removeWatcher's local oldRoom, in cleanup()

vars == <<names, rooms, members, name, room, pc, target, old, dest, cpc, cold>>
readerVars == <<pc, target, old, dest>>
cleanVars == <<cpc, cold>>
registryVars == <<names, rooms, members, name, room>>

ReaderPC == {"read",      \* blocked in ReadBytes
             "move", "leave", "prune", "lookup", "join",    \* in moveWatcher
             "dropping",  \* in dropWithError, returning to the read loop
             "closing",   \* in cleanup() on the way out
             "gone"}      \* handleConnection returned
CleanPC == {"off", "release", "unlink", "prune",
            "done",       \* cleanup() finished
            "blank"}      \* cleanup() finished before any login

Init ==
    /\ names = {}
    /\ rooms = [rn \in RoomNames |-> None]
    /\ members = [o \in Objects |-> {}]
    /\ name = [c \in Clients |-> None]
    /\ room = [c \in Clients |-> None]
    /\ pc = [c \in Clients |-> "read"]
    /\ target = [c \in Clients |-> None]
    /\ old = [c \in Clients |-> None]
    /\ dest = [c \in Clients |-> None]
    /\ cpc = [c \in Clients |-> "off"]
    /\ cold = [c \in Clients |-> None]
-----------------------------------------------------------------------------
\* Operations on the shared state, each executed inside a critical section.

LoggedIn(c) == name[c] # None

\* Faulty: only the watchers in rooms count, so two Hellos can claim one name.
TakenInRooms ==
    { name[d] : d \in { x \in Clients :
          \E rn \in RoomNames : rooms[rn] # None /\ x \in members[rooms[rn]] } }

\* Faulty: only reservations count, so a watcher still in its room after the
\* release of its name can be evicted.
TakenReserved == names

\* The names findFreeUsername avoids: the reserved ones, and those of the
\* watchers in the rooms of the room map.
Taken ==
    names \cup { name[d] : d \in { x \in Clients :
                     \E rn \in RoomNames : rooms[rn] # None /\ x \in members[rooms[rn]] } }

\* A Room object nothing refers to (any more), which newRoom may return.
Fresh(o) ==
    /\ \A rn \in RoomNames : rooms[rn] # o
    /\ \A c \in Clients : o \notin {room[c], old[c], dest[c], cold[c]}

\* Room.watchers is keyed by name: entering evicts a watcher of the same name.
Entered(o, c) ==
    [members EXCEPT ![o] = {d \in @ : name[d] # name[c]} \cup {c}]

\* Room.removeWatcher clears the slot only if this very watcher owns it.
Left(o, c) == [members EXCEPT ![o] = @ \ {c}]

\* deleteRoomIfEmpty deletes the map entry by the room's name.
Pruned(o) == IF members[o] = {} THEN [rooms EXCEPT ![o[1]] = None] ELSE rooms
-----------------------------------------------------------------------------
\* The reader goroutine: messages.

\* The reader has a line to dispatch: from the open connection or, when
\* LateMessages, from the buffer of a connection that is already closed.
CanRead(c) ==
    /\ pc[c] = "read"
    /\ cpc[c] \in {"done", "blank"} => LateMessages

\* Faulty: a repeated Hello registers again.
HelloAgain(c, u, rn) ==
    /\ CanRead(c)
    /\ \E n \in Username :
          /\ IsFreeName(n, Taken, u)
          /\ names' = names \cup {n}
          /\ name' = [name EXCEPT ![c] = n]
    /\ pc' = [pc EXCEPT ![c] = "move"]
    /\ target' = [target EXCEPT ![c] = rn]
    /\ UNCHANGED <<rooms, members, room, old, dest, cleanVars>>

\* An acceptable Hello of a connection that is not logged in: reserve a free
\* username, create the watcher, go on to moveWatcher.  (A repeated Hello is
\* only answered.)
Hello(c, u, rn) ==
    /\ CanRead(c)
    /\ ~LoggedIn(c)
    /\ \E n \in Username :
          /\ IsFreeName(n, Taken, u)
          /\ names' = names \cup {n}
          /\ name' = [name EXCEPT ![c] = n]
    /\ pc' = [pc EXCEPT ![c] = "move"]
    /\ target' = [target EXCEPT ![c] = rn]
    /\ UNCHANGED <<rooms, members, room, old, dest, cleanVars>>

\* A Hello without name, version, room or password, or a TLS handshake that
\* failed: cleanup() runs, but the read loop goes on.
RejectHello(c) ==
    /\ CanRead(c)
    /\ ~LoggedIn(c)
    /\ pc' = [pc EXCEPT ![c] = "dropping"]
    /\ UNCHANGED <<registryVars, target, old, dest, cleanVars>>

\* {"Set": {"room": ...}}
SetRoom(c, rn) ==
    /\ CanRead(c)
    /\ LoggedIn(c)
    /\ pc' = [pc EXCEPT ![c] = "move"]
    /\ target' = [target EXCEPT ![c] = rn]
    /\ UNCHANGED <<registryVars, old, dest, cleanVars>>

\* {"Error": ...}: the reader returns and closes the connection, without
\* cleanup(); the state ticker keeps running.
ClientError(c) ==
    /\ CanRead(c)
    /\ LoggedIn(c)
    /\ pc' = [pc EXCEPT ![c] = "gone"]
    /\ UNCHANGED <<registryVars, target, old, dest, cleanVars>>

\* End of input, read timeout, closed connection, malformed line, or any other
\* message before Hello: cleanup() and return.
Fail(c) ==
    /\ pc[c] = "read"
    /\ pc' = [pc EXCEPT ![c] = "closing"]
    /\ UNCHANGED <<registryVars, target, old, dest, cleanVars>>
-----------------------------------------------------------------------------
\* The reader goroutine: RoomManager.moveWatcher, one step per critical section.

\* Faulty: no check that the watcher has a room.
ReadOldRoomUnchecked(c) ==
    /\ pc[c] = "move"
    /\ old' = [old EXCEPT ![c] = room[c]]
    /\ pc' = [pc EXCEPT ![c] = "leave"]
    /\ UNCHANGED <<registryVars, target, dest, cleanVars>>

\* Faulty: the watcher is added to the new room without leaving the old one.
ReadOldRoomOnly(c) ==
    /\ pc[c] = "move"
    /\ pc' = [pc EXCEPT ![c] = "lookup"]
    /\ UNCHANGED <<registryVars, target, old, dest, cleanVars>>

ReadOldRoom(c) ==
    /\ pc[c] = "move"
    /\ old' = [old EXCEPT ![c] = room[c]]
    /\ pc' = [pc EXCEPT ![c] = IF room[c] = None THEN "lookup" ELSE "leave"]
    /\ UNCHANGED <<registryVars, target, dest, cleanVars>>

LeaveOldRoom(c) ==
    /\ pc[c] = "leave"
    /\ members' = Left(old[c], c)
    /\ room' = [room EXCEPT ![c] = None]
    /\ pc' = [pc EXCEPT ![c] = "prune"]
    /\ UNCHANGED <<names, rooms, name, target, old, dest, cleanVars>>

PruneOldRoom(c) ==
    /\ pc[c] = "prune"
    /\ rooms' = Pruned(old[c])
    /\ old' = [old EXCEPT ![c] = None]
    /\ pc' = [pc EXCEPT ![c] = "lookup"]
    /\ UNCHANGED <<names, members, name, room, target, dest, cleanVars>>

\* getRoom: the room of that name, created when the map has none.
LookupRoom(c) ==
    /\ pc[c] = "lookup"
    /\ LET rn == target[c] IN
       \/ /\ rooms[rn] # None
          /\ dest' = [dest EXCEPT ![c] = rooms[rn]]
          /\ UNCHANGED <<rooms, members>>
       \/ /\ rooms[rn] = None
          /\ \E i \in Copies :
                /\ Fresh(<<rn, i>>)
                /\ rooms' = [rooms EXCEPT ![rn] = <<rn, i>>]
                /\ members' = [members EXCEPT ![<<rn, i>>] = {}]
                /\ dest' = [dest EXCEPT ![c] = <<rn, i>>]
    /\ pc' = [pc EXCEPT ![c] = "join"]
    /\ target' = [target EXCEPT ![c] = None]
    /\ UNCHANGED <<names, name, room, old, cleanVars>>

\* addWatcher.  After the first one handleHello starts the state ticker.
JoinRoom(c) ==
    /\ pc[c] = "join"
    /\ members' = Entered(dest[c], c)
    /\ room' = [room EXCEPT ![c] = dest[c]]
    /\ dest' = [dest EXCEPT ![c] = None]
    /\ pc' = [pc EXCEPT ![c] = "read"]
    /\ UNCHANGED <<names, rooms, name, target, old, cleanVars>>
-----------------------------------------------------------------------------
\* Client.cleanup: closeMu admits one goroutine, closed makes it run once.

StartCleanup(c) ==
    /\ cpc[c] = "off"
    /\ cpc' = [cpc EXCEPT ![c] = IF LoggedIn(c) THEN "release" ELSE "blank"]

\* The reader enters cleanup() ...
ReaderCleanup(c) ==
    /\ pc[c] \in {"closing", "dropping"}
    /\ StartCleanup(c)
    /\ UNCHANGED <<registryVars, readerVars, cold>>

\* ... and leaves it when it is complete, whoever ran it.
ReaderCleaned(c) ==
    /\ pc[c] \in {"closing", "dropping"}
    /\ cpc[c] \in {"done", "blank"}
    /\ pc' = [pc EXCEPT ![c] = IF pc[c] = "closing" THEN "gone" ELSE "read"]
    /\ UNCHANGED <<registryVars, target, old, dest, cleanVars>>

\* Faulty: nobody times out a connection whose reader is gone.
TickerTimeoutOfReader(c) ==
    /\ LoggedIn(c)
    /\ room[c] # None
    /\ pc[c] # "gone"
    /\ StartCleanup(c)
    /\ UNCHANGED <<registryVars, readerVars, cold>>

\* sendPeriodicState finds the watcher in a room and no message for
\* ProtocolTimeout, and enters cleanup() through dropWithError.
TickerTimeout(c) ==
    /\ LoggedIn(c)
    /\ room[c] # None
    /\ pc[c] = "gone" \/ LiveTimeouts
    /\ StartCleanup(c)
    /\ UNCHANGED <<registryVars, readerVars, cold>>

\* Faulty: the reservation is never released.
ReleaseNameKept(c) ==
    /\ cpc[c] = "release"
    /\ cold' = [cold EXCEPT ![c] = room[c]]
    /\ cpc' = [cpc EXCEPT ![c] = IF room[c] = None THEN "done" ELSE "unlink"]
    /\ UNCHANGED <<registryVars, readerVars>>

\* Faulty: the watcher is left in its room.
ReleaseNameOnly(c) ==
    /\ cpc[c] = "release"
    /\ names' = names \ {name[c]}
    /\ cpc' = [cpc EXCEPT ![c] = "done"]
    /\ UNCHANGED <<rooms, members, name, room, readerVars, cold>>

\* RoomManager.removeWatcher, first critical section: release the username
\* and remember the room.
ReleaseName(c) ==
    /\ cpc[c] = "release"
    /\ names' = names \ {name[c]}
    /\ cold' = [cold EXCEPT ![c] = room[c]]
    /\ cpc' = [cpc EXCEPT ![c] = IF room[c] = None THEN "done" ELSE "unlink"]
    /\ UNCHANGED <<rooms, members, name, room, readerVars>>

UnlinkWatcher(c) ==
    /\ cpc[c] = "unlink"
    /\ members' = Left(cold[c], c)
    /\ room' = [room EXCEPT ![c] = None]
    /\ cpc' = [cpc EXCEPT ![c] = "prune"]
    /\ UNCHANGED <<names, rooms, name, readerVars, cold>>

\* Faulty: the last watcher leaves and the room stays in the map.
PruneLastRoomSkipped(c) ==
    /\ cpc[c] = "prune"
    /\ cold' = [cold EXCEPT ![c] = None]
    /\ cpc' = [cpc EXCEPT ![c] = "done"]
    /\ UNCHANGED <<registryVars, readerVars>>

\* deleteRoomIfEmpty, then conn.Close().
PruneLastRoom(c) ==
    /\ cpc[c] = "prune"
    /\ rooms' = Pruned(cold[c])
    /\ cold' = [cold EXCEPT ![c] = None]
    /\ cpc' = [cpc EXCEPT ![c] = "done"]
    /\ UNCHANGED <<names, members, name, room, readerVars>>
-----------------------------------------------------------------------------
\* Every connection has ended and is cleaned up.
Over(c) == pc[c] = "gone" /\ cpc[c] \in {"done", "blank"}
Terminated == (\A c \in Clients : Over(c)) /\ UNCHANGED vars

Message(c) ==
    \/ \E rn \in RoomNames : SetRoom(c, rn) \/ \E u \in Requests : Hello(c, u, rn)
    \/ RejectHello(c) \/ ClientError(c) \/ Fail(c)
Move(c) ==
    \/ ReadOldRoom(c) \/ LeaveOldRoom(c) \/ PruneOldRoom(c)
    \/ LookupRoom(c) \/ JoinRoom(c)
Cleanup(c) == ReleaseName(c) \/ UnlinkWatcher(c) \/ PruneLastRoom(c)

Next ==
    \/ \E c \in Clients : \/ Message(c) \/ Move(c)
                          \/ ReaderCleanup(c) \/ ReaderCleaned(c)
                          \/ TickerTimeout(c) \/ Cleanup(c)
    \/ Terminated

Spec == Init /\ [][Next]_vars

\* Goroutines that can run do run; a reader whose connection is closed and
\* whose buffer is empty gets the read error.  Nothing makes a client send.
Fairness ==
    \A c \in Clients :
        /\ WF_vars(Move(c)) /\ WF_vars(ReaderCleanup(c)) /\ WF_vars(ReaderCleaned(c))
        /\ WF_vars(Cleanup(c))
        /\ WF_vars(pc[c] = "gone" /\ TickerTimeout(c))
        /\ WF_vars(cpc[c] \in {"done", "blank"} /\ Fail(c))

FairSpec == Spec /\ Fairness
-----------------------------------------------------------------------------
\* Values of every variable, and no nil dereference: whoever is about to leave,
\* prune or join a Room object has one.
TypeOK ==
    /\ names \subseteq Username
    /\ rooms \in [RoomNames -> Objects \cup {None}]
    /\ members \in [Objects -> SUBSET Clients]
    /\ name \in [Clients -> Username \cup {None}]
    /\ room \in [Clients -> Objects \cup {None}]
    /\ pc \in [Clients -> ReaderPC]
    /\ target \in [Clients -> RoomNames \cup {None}]
    /\ old \in [Clients -> Objects \cup {None}]
    /\ dest \in [Clients -> Objects \cup {None}]
    /\ cpc \in [Clients -> CleanPC]
    /\ cold \in [Clients -> Objects \cup {None}]
    /\ \A c \in Clients :
          /\ pc[c] \in {"move", "leave", "prune", "lookup", "join"} => LoggedIn(c)
          /\ pc[c] \in {"leave", "prune"} => old[c] # None
          /\ pc[c] \in {"move", "leave", "prune", "lookup"} => target[c] # None
          /\ pc[c] = "join" => dest[c] # None
          /\ cpc[c] \notin {"off", "blank"} => LoggedIn(c)
          /\ cpc[c] \in {"unlink", "prune"} => cold[c] # None

\* The username reservation of a connection: taken by Hello, given up by the
\* first half of removeWatcher, and kept by a connection whose cleanup() ran
\* before it logged in.
Holds(c) == LoggedIn(c) /\ cpc[c] \in {"off", "release", "blank"}

\* No two connections ever go by the same username at the same time, whatever
\* the order in which Hellos, disconnections and timeouts interleave: the
\* purpose of RoomManager.names (room.go, findFreeUsername).
DistinctNames ==
    \A c, d \in Clients : Holds(c) /\ Holds(d) /\ name[c] = name[d] => c = d

\* RoomManager.names is exactly the set of usernames held: a release never
\* drops somebody else's reservation, and none is left behind (room.go,
\* removeWatcher).
ReservedNames == names = { name[c] : c \in { d \in Clients : Holds(d) } }

\* The two directions of the membership relation agree: a Room object lists a
\* watcher exactly when the watcher points at that room (room.go, addWatcher
\* and removeWatcher).
SlotsAgree ==
    \A c \in Clients, o \in Objects : c \in members[o] <=> room[c] = o

\* A connection that has ended and is cleaned up is in no room: no ghost users.
NoGhosts == \A c \in Clients : Over(c) => \A o \in Objects : c \notin members[o]

\* This step is the connection's own removal of its watcher from a room.
OwnExit(c) ==
    \/ pc[c] = "leave" /\ pc'[c] = "prune"
    \/ cpc[c] = "unlink" /\ cpc'[c] = "prune"

\* Only a watcher's own goroutines take it out of a room: a watcher that enters
\* under the same username never evicts it (room.go, findFreeUsername avoids the
\* room-registered names too, and removeWatcher checks whose slot it clears).
NoEviction ==
    [][\A c \in Clients, o \in Objects :
          c \in members[o] /\ c \notin members'[o] => OwnExit(c)]_vars

\* A user that holds its username is never evicted from its room.
HoldersStay ==
    [][\A c \in Clients, o \in Objects :
          Holds(c) /\ room[c] = o /\ c \in members[o] /\ c \notin members'[o]
          => OwnExit(c)]_vars

\* Once nobody is moving or leaving, the room map holds no empty room: rooms
\* are not leaked (room.go, deleteRoomIfEmpty).
AtRest == \A c \in Clients : pc[c] \in {"read", "gone"} /\ cpc[c] \in {"off", "done", "blank"}
NoEmptyRoomKept ==
    AtRest => \A rn \in RoomNames : rooms[rn] # None => members[rooms[rn]] # {}

\* A logged-in user whose reader waits for input is in the room that the room
\* map has under that room's name, where List and later arrivals find them.
Listed ==
    \A c \in Clients :
        pc[c] = "read" /\ cpc[c] = "off" /\ room[c] # None => rooms[room[c][1]] = room[c]

\* With whatever names in use, the loop of findFreeUsername ends in the one name
\* that IsFreeName describes: nobody has it, it keeps the base asked for, and it
\* is the request itself when that is free (room.go, findFreeUsername).
LoopFindsFreeName ==
    \A u \in Username :
        Length(u) > 0 => { n \in Username : IsFreeName(n, Taken, u) } = {FoundName(Taken, u)}

\* A connection whose reader has returned is eventually in no room and holds no
\* username, also when it is left to the state ticker's timeout to clean up.
EndedIsForgotten ==
    \A c \in Clients :
        pc[c] = "gone" ~> ~Holds(c) /\ \A o \in Objects : c \notin members[o]

\* Rooms implements Registry.
Reg == INSTANCE Registry
           WITH owner <- [c \in Clients |-> IF Holds(c) THEN name[c] ELSE None]
RegistrySpec == Reg!Spec
=============================================================================
