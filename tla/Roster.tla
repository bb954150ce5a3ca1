------------------------------- MODULE Roster --------------------------------
(***************************************************************************)
(* The user lists that the clients show (internal/syncplay/server.go:      *)
(* sendJoinMessage, sendLeftMessage, sendRoomSwitchMessage, handleSet,     *)
(* handleList and cleanup; room.go broadcastRoom, getAllWatchers).         *)
(*                                                                         *)
(* Every logged-in connection has a reader goroutine that handles one      *)
(* message at a time: it changes its own room or file, takes a list of     *)
(* watchers, and writes to one of them after the other, while the readers  *)
(* of those do the same.  A step is one critical section of a Room or a    *)
(* Watcher or one write.  A write is in order with the others to the same  *)
(* client, so that it changes what this client shows at once.              *)
(*                                                                         *)
(* Names are distinct and every reader cleans up after itself; Rooms.tla   *)
(* has what happens otherwise, and the races in looking up a room.         *)
(* Readiness is sent like files are and left out, chat leaves no state.    *)
(***************************************************************************)
EXTENDS FiniteSets

CONSTANTS Conns,     \* connections, each with a username of its own
          RoomNames,
          Files,
          Listers,   \* the connections whose clients ask for Lists
          None

\* What is said or shown of a user
Entries == [room : RoomNames, file : Files \cup {None}]
Kinds == {"joined", "left", "present"}
Events == [user : Conns, kind : Kinds, room : RoomNames, file : Files \cup {None}]

ASSUME RosterAssumption ==
    /\ Listers \subseteq Conns
    /\ None \notin Conns \cup RoomNames \cup Files \cup Entries \cup [to : Conns, event : Events]

VARIABLES
    room,   \* Watcher.room
    file,   \* Watcher.file
    pc,     \* where each reader is
    dest,   \* handleSet's roomName
    todo,   \* the watchers its loop has still to come to
    peers,  \* sendJoinMessage's watchers
    draft,  \* the message it is about to write: [to, event], or None
    reply,  \* handleList's userlist
    view    \* external: what each client shows of each user

loopVars == <<dest, todo, peers, draft, reply>>
vars == <<room, file, pc, loopVars, view>>

Blank == [d \in Conns |-> None]

Init ==
    /\ room = [c \in Conns |-> None]
    /\ file = [c \in Conns |-> None]
    /\ pc = [c \in Conns |-> "out"]
    /\ dest = [c \in Conns |-> None]
    /\ todo = [c \in Conns |-> {}]
    /\ peers = [c \in Conns |-> {}]
    /\ draft = [c \in Conns |-> None]
    /\ reply = [c \in Conns |-> Blank]
    /\ view = [c \in Conns |-> Blank]

\* room.getWatchers() of c's room, and the other watchers among them
Watchers(c) == {d \in Conns : room[d] = room[c]}
Others(c) == Watchers(c) \ {c}

Closed(c) == pc[c] \in {"closed", "closing", "gone"}

Goto(c, label) == pc' = [pc EXCEPT ![c] = label]
-----------------------------------------------------------------------------
\* External: what a client makes of a Set.user message.  One without a file
\* leaves the file as it is, unless the user has just joined.
Shown(entry, event) ==
    IF event.kind = "left" THEN None
    ELSE [room |-> event.room,
          file |-> IF event.file = None /\ event.kind = "present" /\ entry # None
                   THEN entry.file ELSE event.file]

\* writeRaw drops what is for a closed connection.
Deliver(to, event) ==
    view' = IF Closed(to) THEN view
            ELSE [view EXCEPT ![to][event.user] = Shown(@, event)]

About(user, kind, r, f) == [user |-> user, kind |-> kind, room |-> r, file |-> f]

\* One round of a loop that writes the same event to each watcher in turn.
SendTo(c, d, event) ==
    /\ d \in todo[c]
    /\ todo' = [todo EXCEPT ![c] = @ \ {d}]
    /\ Deliver(d, event)
    /\ UNCHANGED <<room, file, pc, dest, peers, draft, reply>>

\* One round of a loop that reads a watcher's file first, ...
PrepareFor(c, d, to, event) ==
    /\ d \in todo[c] /\ draft[c] = None
    /\ todo' = [todo EXCEPT ![c] = @ \ {d}]
    /\ draft' = [draft EXCEPT ![c] = [to |-> to, event |-> event]]
    /\ UNCHANGED <<room, file, pc, dest, peers, reply, view>>

\* ... and then writes.
Write(c) ==
    /\ draft[c] # None
    /\ Deliver(draft[c].to, draft[c].event)
    /\ draft' = [draft EXCEPT ![c] = None]
    /\ UNCHANGED <<room, file, pc, dest, todo, peers, reply>>

Finished(c, loop) == pc[c] = loop /\ todo[c] = {} /\ draft[c] = None

\* A list of watchers, and the loop over them.
Snapshot(c, from, watchers, loop) ==
    /\ pc[c] = from
    /\ todo' = [todo EXCEPT ![c] = watchers]
    /\ Goto(c, loop)
    /\ UNCHANGED <<room, file, draft, reply, view>>
-----------------------------------------------------------------------------
\* handleHello: moveWatcher adds the watcher to its room; sendJoinMessage then
\* takes the list of watchers, ...
Enter(c, r) ==
    /\ pc[c] = "out"
    /\ room' = [room EXCEPT ![c] = r]
    /\ Goto(c, "entered")
    /\ UNCHANGED <<file, loopVars, view>>

StartJoin(c) ==
    /\ Snapshot(c, "entered", Others(c), "join")
    /\ peers' = [peers EXCEPT ![c] = Others(c)]
    /\ UNCHANGED dest

\* ... tells each of them, with the file of the one that is told, ...
PrepareJoined(c, d) ==
    /\ pc[c] = "join"
    /\ PrepareFor(c, d, d, About(c, "joined", room[c], file[d]))

\* ... and sends the newcomer what they are.
StartGreeting(c) ==
    /\ Finished(c, "join")
    /\ Snapshot(c, "join", peers[c], "greet")
    /\ peers' = [peers EXCEPT ![c] = {}]
    /\ UNCHANGED dest

PreparePresent(c, d) ==
    /\ pc[c] = "greet"
    /\ PrepareFor(c, d, c, About(d, "present", room[c], file[d]))

EndHandler(c) ==
    /\ \E loop \in {"greet", "show"} : Finished(c, loop)
    /\ Goto(c, "idle")
    /\ UNCHANGED <<room, file, loopVars, view>>
-----------------------------------------------------------------------------
\* handleSet with a room: sendLeftMessage tells the others, ...
SwitchRoom(c, r) ==
    /\ Snapshot(c, "idle", Others(c), "leave")
    /\ dest' = [dest EXCEPT ![c] = r]
    /\ UNCHANGED peers

\* cleanup: from here on nothing is written to the client.
Disconnect(c) ==
    /\ pc[c] = "idle"
    /\ view' = [view EXCEPT ![c] = Blank]
    /\ Goto(c, "closed")
    /\ UNCHANGED <<room, file, loopVars>>

StartLeft(c) ==
    /\ Snapshot(c, "closed", Others(c), "closing")
    /\ UNCHANGED <<dest, peers>>

SendLeft(c, d) ==
    /\ pc[c] \in {"leave", "closing"}
    /\ SendTo(c, d, About(c, "left", room[c], None))

\* Faulty: the watcher stays in the list of its room.
RemoveWatcherNot(c) ==
    /\ Finished(c, "leave") \/ Finished(c, "closing")
    /\ Goto(c, IF pc[c] = "closing" THEN "gone" ELSE "add")
    /\ UNCHANGED <<room, file, loopVars, view>>

\* ... moveWatcher removes the watcher from its room, ...
RemoveWatcher(c) ==
    /\ Finished(c, "leave") \/ Finished(c, "closing")
    /\ room' = [room EXCEPT ![c] = None]
    /\ file' = IF pc[c] = "closing" THEN [file EXCEPT ![c] = None] ELSE file
    /\ Goto(c, IF pc[c] = "closing" THEN "gone" ELSE "add")
    /\ UNCHANGED <<loopVars, view>>

\* ... and adds it to the other, ...
AddWatcher(c) ==
    /\ pc[c] = "add"
    /\ room' = [room EXCEPT ![c] = dest[c]]
    /\ dest' = [dest EXCEPT ![c] = None]
    /\ Goto(c, "switched")
    /\ UNCHANGED <<file, todo, peers, draft, reply, view>>

\* ... whose members are told by sendRoomSwitchMessage, ...
StartSwitch(c) ==
    /\ Snapshot(c, "switched", Watchers(c), "tell")
    /\ UNCHANGED <<dest, peers>>

SendSwitch(c, d) ==
    /\ pc[c] = "tell"
    /\ SendTo(c, d, About(c, "present", room[c], None))

\* Faulty: tells the client of nobody.
StartLookNot(c) ==
    /\ Finished(c, "tell")
    /\ Snapshot(c, "tell", {}, "greet")
    /\ UNCHANGED <<dest, peers>>

\* ... before a second list of them is sent to the client.
StartLook(c) ==
    /\ Finished(c, "tell")
    /\ Snapshot(c, "tell", Others(c), "greet")
    /\ UNCHANGED <<dest, peers>>
-----------------------------------------------------------------------------
\* handleSet with a file: setFile, ...
SetFile(c, f) ==
    /\ pc[c] = "idle"
    /\ file' = [file EXCEPT ![c] = f]
    /\ Goto(c, "filed")
    /\ UNCHANGED <<room, loopVars, view>>

\* ... and a broadcast.
StartShow(c) ==
    /\ Snapshot(c, "filed", Watchers(c), "show")
    /\ UNCHANGED <<dest, peers>>

SendFile(c, d) ==
    /\ pc[c] = "show"
    /\ SendTo(c, d, About(c, "present", room[c], file[c]))
-----------------------------------------------------------------------------
\* handleList: getAllWatchers, ...
AskList(c) ==
    /\ c \in Listers
    /\ Snapshot(c, "idle", {d \in Conns : room[d] # None}, "list")
    /\ UNCHANGED <<dest, peers>>

\* Faulty: lists the users of the client's room.
ReadListedLocal(c, d) ==
    /\ pc[c] = "list" /\ d \in todo[c]
    /\ todo' = [todo EXCEPT ![c] = @ \ {d}]
    /\ reply' = [reply EXCEPT ![c][d] =
                     IF room[d] # room[c] THEN None ELSE [room |-> room[d], file |-> file[d]]]
    /\ UNCHANGED <<room, file, pc, dest, peers, draft, view>>

\* ... the room and the file of each, ...
ReadListed(c, d) ==
    /\ pc[c] = "list" /\ d \in todo[c]
    /\ todo' = [todo EXCEPT ![c] = @ \ {d}]
    /\ reply' = [reply EXCEPT ![c][d] =
                     IF room[d] = None THEN None ELSE [room |-> room[d], file |-> file[d]]]
    /\ UNCHANGED <<room, file, pc, dest, peers, draft, view>>

\* ... and the reply, which replaces what the client shows.
WriteList(c) ==
    /\ Finished(c, "list")
    /\ view' = [view EXCEPT ![c] = reply[c]]
    /\ reply' = [reply EXCEPT ![c] = Blank]
    /\ Goto(c, "idle")
    /\ UNCHANGED <<room, file, dest, todo, peers, draft>>
-----------------------------------------------------------------------------
Handler(c) ==
    \/ StartJoin(c) \/ StartGreeting(c) \/ EndHandler(c) \/ Write(c)
    \/ StartLeft(c) \/ RemoveWatcher(c) \/ AddWatcher(c) \/ StartSwitch(c) \/ StartLook(c)
    \/ StartShow(c) \/ WriteList(c)
    \/ \E d \in Conns :
          \/ PrepareJoined(c, d) \/ PreparePresent(c, d) \/ SendLeft(c, d)
          \/ SendSwitch(c, d) \/ SendFile(c, d) \/ ReadListed(c, d)

Message(c) ==
    \/ \E r \in RoomNames : Enter(c, r) \/ SwitchRoom(c, r)
    \/ \E f \in Files : SetFile(c, f)
    \/ AskList(c) \/ Disconnect(c)

Next == \E c \in Conns : Handler(c) \/ Message(c)

Spec == Init /\ [][Next]_vars

\* A handler, once begun, goes on; no client has to send anything.
FairSpec == Spec /\ \A c \in Conns : WF_vars(Handler(c))
-----------------------------------------------------------------------------
TypeOK ==
    /\ room \in [Conns -> RoomNames \cup {None}]
    /\ file \in [Conns -> Files \cup {None}]
    /\ pc \in [Conns -> {"out", "entered", "join", "greet", "idle", "leave", "closed",
                         "closing", "gone", "add", "switched", "tell", "filed", "show", "list"}]
    /\ dest \in [Conns -> RoomNames \cup {None}]
    /\ todo \in [Conns -> SUBSET Conns]
    /\ peers \in [Conns -> SUBSET Conns]
    /\ draft \in [Conns -> [to : Conns, event : Events] \cup {None}]
    /\ reply \in [Conns -> [Conns -> Entries \cup {None}]]
    /\ view \in [Conns -> [Conns -> Entries \cup {None}]]
    /\ \A c \in Conns : room[c] = None <=> pc[c] \in {"out", "gone", "add"}

\* Members of one room see each other there, once neither is in the middle of a
\* handler: whichever came later has told the other and been told.  A client
\* that asks for Lists may miss someone, who came while the reply was made
\* (sendJoinMessage, sendRoomSwitchMessage).
NobodyMissing ==
    \A c, d \in Conns :
        pc[c] = "idle" /\ pc[d] = "idle" /\ room[c] = room[d] /\ c # d /\ c \notin Listers =>
            view[c][d] # None /\ view[c][d].room = room[d]

\* What a user shares is shown to the others of the room, with the file set
\* (the comment in sendJoinMessage).
FilesRight ==
    \A c, d \in Conns :
        /\ \A e \in Conns : pc[e] \in {"out", "idle", "gone"}
        /\ room[c] # None /\ room[d] = room[c] /\ c # d
        => view[c][d] # None /\ view[c][d].file = file[d]

Resting(c) == pc[c] \in {"out", "idle", "gone"}

\* A client that asks for Lists shows everyone where they are, with their
\* files, once the others rest, whatever it missed or was told too late
\* (handleList).
ListHeals ==
    \A c \in Listers :
        /\ <>[](pc[c] \in {"idle", "list"} /\ \A d \in Conns \ {c} : Resting(d))
        /\ []<><<AskList(c)>>_vars
        => <>[](\A d \in Conns :
                   view[c][d] = IF room[d] = None THEN None
                                ELSE [room |-> room[d], file |-> file[d]])
=============================================================================
