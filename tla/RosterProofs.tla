---------------------------- MODULE RosterProofs ----------------------------
(***************************************************************************)
(* Proofs about Roster.tla, for any connections, rooms, files and any set  *)
(* of clients that ask for Lists.                                          *)
(*                                                                         *)
(* Of two members of a room it is not the one who came later that tells    *)
(* the other, but whoever took a list of watchers while both were there.   *)
(* Tended says that for every entry that is missing someone has it on a    *)
(* list, in a draft, or is still going to take a list.                     *)
(***************************************************************************)
EXTENDS Roster, TLAPS

\* A handler that is to add the watcher to a room has one.
Headed == \A c \in Conns : pc[c] \in {"leave", "add"} => dest[c] # None

\* A draft is about its writer, or for it, and about the writer's room.
DraftRight ==
    \A c \in Conns : draft[c] # None =>
        /\ draft[c].event.room = room[c]
        /\ \/ pc[c] = "join" /\ draft[c].event.user = c /\ draft[c].event.kind = "joined"
           \/ pc[c] = "greet" /\ draft[c].to = c /\ draft[c].event.kind = "present"

Asked == \A c \in Conns : pc[c] = "list" => c \in Listers

\* c shows d in the room where d is.
Shows(c, d) == view[c][d] # None /\ view[c][d].room = room[d]

\* d has yet to tell c that it is there.
Owes(d, c) ==
    \/ pc[d] \in {"entered", "switched"}
    \/ pc[d] \in {"join", "tell"} /\ c \in todo[d]
    \/ pc[d] = "join" /\ draft[d] # None /\ draft[d].to = c

\* c's own handler has yet to send c that d is there.
Looks(c, d) ==
    \/ pc[c] \in {"entered", "switched", "tell"}
    \/ pc[c] = "join" /\ d \in peers[c]
    \/ pc[c] = "greet" /\ d \in todo[c]
    \/ pc[c] = "greet" /\ draft[c] # None /\ draft[c].event.user = d

\* c is to show d: both are in one room, and d is not on its way out.
Meet(c, d) ==
    /\ room[c] # None /\ room[c] = room[d] /\ c # d
    /\ ~Closed(c) /\ pc[d] \notin {"leave", "closed", "closing"}

Tended ==
    \A c, d \in Conns : c \notin Listers /\ Meet(c, d) => Shows(c, d) \/ Owes(d, c) \/ Looks(c, d)

IInv == TypeOK /\ Headed /\ DraftRight /\ Asked /\ Tended
-----------------------------------------------------------------------------
USE RosterAssumption

LEMMA InitInv == Init => IInv
<1> SUFFICES ASSUME Init PROVE IInv
    OBVIOUS
<1>1. TypeOK
    BY DEF Init, TypeOK, Blank
<1>2. Headed /\ DraftRight /\ Asked /\ Tended
    BY DEF Init, Headed, DraftRight, Asked, Tended, Meet
<1> QED
    BY <1>1, <1>2 DEF IInv

\* What a delivery does to the user lists.
LEMMA Delivered ==
    ASSUME TypeOK, NEW to \in Conns, NEW event \in Events, Deliver(to, event)
    PROVE  /\ view' \in [Conns -> [Conns -> Entries \cup {None}]]
           /\ \A c, d \in Conns : c # to \/ d # event.user => view'[c][d] = view[c][d]
           /\ ~Closed(to) /\ event.kind # "left" =>
                  view'[to][event.user] # None /\ view'[to][event.user].room = event.room
<1> DEFINE entry == Shown(view[to][event.user], event)
<1>1. event.user \in Conns /\ view[to][event.user] \in Entries \cup {None}
    BY DEF TypeOK, Events
<1>2. entry \in Entries \cup {None} /\ (event.kind # "left" => entry # None /\ entry.room = event.room)
    BY <1>1 DEF Shown, Entries, Events
<1>3. CASE Closed(to)
    BY <1>3 DEF Deliver, TypeOK
<1>4. CASE ~Closed(to)
    <2>1. view' = [view EXCEPT ![to] = [@ EXCEPT ![event.user] = entry]]
        BY <1>4 DEF Deliver
    <2> HIDE DEF entry
    <2> QED
        BY <1>1, <1>2, <2>1, <1>4 DEF TypeOK
<1> QED
    BY <1>3, <1>4

-----------------------------------------------------------------------------
\* The messages that are written.

\* Who is about to say something of a watcher of its room says it of that room.
LEMMA Spoken ==
    ASSUME TypeOK, NEW c \in Conns, NEW d \in Conns, NEW kind \in Kinds,
           pc[c] \notin {"out", "gone", "add"}, NEW f \in Files \cup {None}
    PROVE  About(d, kind, room[c], f) \in Events
BY DEF TypeOK, About, Events

LEMMA WriteStep ==
    ASSUME TypeOK, NEW c \in Conns, Write(c)
    PROVE  draft[c].to \in Conns /\ draft[c].event \in Events /\ TypeOK'
<1>1. draft[c] \in [to : Conns, event : Events]
    BY DEF Write, TypeOK
<1>2. view' \in [Conns -> [Conns -> Entries \cup {None}]]
    BY <1>1, Delivered DEF Write
<1> QED
    BY <1>1, <1>2 DEF Write, TypeOK

LEMMA SendStep ==
    ASSUME TypeOK, NEW c \in Conns, NEW d \in Conns, SendLeft(c, d) \/ SendSwitch(c, d) \/ SendFile(c, d)
    PROVE  \E kind \in {"left", "present"}, f \in Files \cup {None} :
              /\ About(c, kind, room[c], f) \in Events
              /\ kind = "left" <=> pc[c] \in {"leave", "closing"}
              /\ SendTo(c, d, About(c, kind, room[c], f))
              /\ TypeOK'
<1>1. PICK kind \in {"left", "present"}, f \in Files \cup {None} :
          /\ pc[c] \in {"leave", "closing", "tell", "show"}
          /\ kind = "left" <=> pc[c] \in {"leave", "closing"}
          /\ SendTo(c, d, About(c, kind, room[c], f))
    BY DEF SendLeft, SendSwitch, SendFile, TypeOK
<1>2. About(c, kind, room[c], f) \in Events
    BY <1>1, Spoken DEF Kinds
<1>3. view' \in [Conns -> [Conns -> Entries \cup {None}]]
    BY <1>1, <1>2, Delivered DEF SendTo
<1> QED
    BY <1>1, <1>2, <1>3 DEF SendTo, TypeOK

LEMMA PrepareStep ==
    ASSUME TypeOK, NEW c \in Conns, NEW d \in Conns, PrepareJoined(c, d) \/ PreparePresent(c, d)
    PROVE  \E to \in Conns, event \in Events :
              /\ PrepareFor(c, d, to, event)
              /\ event.room = room[c]
              /\ \/ pc[c] = "join" /\ to = d /\ event.user = c /\ event.kind = "joined"
                 \/ pc[c] = "greet" /\ to = c /\ event.user = d /\ event.kind = "present"
              /\ TypeOK'
<1>1. PICK to \in Conns, user \in Conns, kind \in Kinds :
          /\ PrepareFor(c, d, to, About(user, kind, room[c], file[d]))
          /\ \/ pc[c] = "join" /\ to = d /\ user = c /\ kind = "joined"
             \/ pc[c] = "greet" /\ to = c /\ user = d /\ kind = "present"
    BY DEF PrepareJoined, PreparePresent, Kinds
<1> DEFINE event == About(user, kind, room[c], file[d])
<1>2. event \in Events
    BY <1>1, Spoken DEF TypeOK
<1>3. event.room = room[c] /\ event.user = user /\ event.kind = kind
    BY DEF About
<1> HIDE DEF event
<1>4. draft' \in [Conns -> [to : Conns, event : Events] \cup {None}]
    BY <1>1, <1>2 DEF PrepareFor, TypeOK, event
<1>5. TypeOK'
    BY <1>1, <1>4 DEF PrepareFor, TypeOK
<1> QED
    BY <1>1, <1>2, <1>3, <1>5 DEF event
-----------------------------------------------------------------------------
\* Types

LEMMA TypeStep == ASSUME TypeOK, Headed, NEW c \in Conns, Handler(c) \/ Message(c) PROVE TypeOK'
<1>1. ASSUME NEW from, NEW loop, NEW watchers \in SUBSET Conns, Snapshot(c, from, watchers, loop),
             <<from, loop>> \in
                 {<<"entered", "join">>, <<"join", "greet">>, <<"closed", "closing">>, <<"idle", "leave">>,
                  <<"switched", "tell">>, <<"tell", "greet">>, <<"filed", "show">>, <<"idle", "list">>},
             dest' \in [Conns -> RoomNames \cup {None}], peers' \in [Conns -> SUBSET Conns]
      PROVE  TypeOK'
    <2>1. todo' \in [Conns -> SUBSET Conns]
        BY <1>1 DEF TypeOK, Snapshot
    <2>2. \A d \in Conns : room'[d] = None <=> pc'[d] \in {"out", "gone", "add"}
        BY <1>1 DEF TypeOK, Snapshot, Goto
    <2>3. pc' = [pc EXCEPT ![c] = loop] /\ UNCHANGED <<room, file, draft, reply, view>>
        BY <1>1 DEF Snapshot, Goto
    <2>4. loop \in {"join", "greet", "closing", "leave", "tell", "show", "list"}
        BY <1>1
    <2> QED
        BY <1>1, <2>1, <2>2, <2>3, <2>4 DEF TypeOK
<1>2. Others(c) \in SUBSET Conns /\ Watchers(c) \in SUBSET Conns
    BY DEF Others, Watchers
<1>3. CASE StartJoin(c)
    BY <1>1, <1>2, <1>3 DEF StartJoin, TypeOK
<1>4. CASE StartGreeting(c)
    BY <1>1, <1>4 DEF StartGreeting, TypeOK
<1>5. CASE StartLeft(c) \/ StartSwitch(c) \/ StartLook(c) \/ StartShow(c)
    <2>1. dest' \in [Conns -> RoomNames \cup {None}] /\ peers' \in [Conns -> SUBSET Conns]
        BY <1>5 DEF StartLeft, StartSwitch, StartLook, StartShow, TypeOK
    <2>2. CASE StartLeft(c) \/ StartShow(c)
        BY <1>1, <1>2, <2>1, <2>2 DEF StartLeft, StartShow
    <2>3. CASE StartSwitch(c) \/ StartLook(c)
        BY <1>1, <1>2, <2>1, <2>3 DEF StartSwitch, StartLook
    <2> QED
        BY <1>5, <2>2, <2>3
<1>6. CASE AskList(c)
    <2>1. {d \in Conns : room[d] # None} \in SUBSET Conns
        OBVIOUS
    <2> QED
        BY <1>1, <1>6, <2>1 DEF AskList, TypeOK
<1>7. ASSUME NEW r \in RoomNames, SwitchRoom(c, r) PROVE TypeOK'
    BY <1>1, <1>2, <1>7 DEF SwitchRoom, TypeOK
<1>8. CASE EndHandler(c)
    BY <1>8 DEF TypeOK, EndHandler, Finished, Goto, loopVars
<1>9. CASE RemoveWatcher(c)
    BY <1>9 DEF TypeOK, RemoveWatcher, Finished, Goto, loopVars
<1>10. ASSUME NEW r \in RoomNames, Enter(c, r) PROVE TypeOK'
    BY <1>10 DEF TypeOK, Enter, Goto, loopVars
<1>11. ASSUME NEW f \in Files, SetFile(c, f) PROVE TypeOK'
    BY <1>11 DEF TypeOK, SetFile, Goto, loopVars
<1>12. CASE AddWatcher(c)
    <2>1. dest[c] \in RoomNames
        BY <1>12 DEF AddWatcher, Headed, TypeOK
    <2>2. room' = [room EXCEPT ![c] = dest[c]] /\ pc' = [pc EXCEPT ![c] = "switched"]
        BY <1>12 DEF AddWatcher, Goto
    <2>3. \A d \in Conns : room'[d] = None <=> pc'[d] \in {"out", "gone", "add"}
        BY <2>1, <2>2 DEF TypeOK
    <2> QED
        BY <1>12, <2>1, <2>2, <2>3 DEF AddWatcher, TypeOK
<1>13. CASE Disconnect(c)
    <2>1. Blank \in [Conns -> Entries \cup {None}]
        BY DEF Blank
    <2> QED
        BY <1>13, <2>1 DEF TypeOK, Disconnect, Goto, loopVars
<1>14. CASE WriteList(c)
    <2>1. Blank \in [Conns -> Entries \cup {None}]
        BY DEF Blank
    <2>2. view' \in [Conns -> [Conns -> Entries \cup {None}]]
        BY <1>14 DEF TypeOK, WriteList
    <2> QED
        BY <1>14, <2>1, <2>2 DEF TypeOK, WriteList, Finished, Goto
<1>15. ASSUME NEW d \in Conns, ReadListed(c, d) PROVE TypeOK'
    <2> DEFINE entry == IF room[d] = None THEN None ELSE [room |-> room[d], file |-> file[d]]
    <2>1. entry \in Entries \cup {None}
        BY DEF TypeOK, Entries
    <2>2. reply' = [reply EXCEPT ![c] = [@ EXCEPT ![d] = entry]]
        BY <1>15 DEF ReadListed
    <2> HIDE DEF entry
    <2>3. reply' \in [Conns -> [Conns -> Entries \cup {None}]]
        BY <2>1, <2>2 DEF TypeOK
    <2> QED
        BY <1>15, <2>3 DEF TypeOK, ReadListed
<1> QED
    BY <1>3, <1>4, <1>5, <1>6, <1>7, <1>8, <1>9, <1>10, <1>11, <1>12, <1>13, <1>14, <1>15,
       WriteStep, SendStep, PrepareStep
    DEF Handler, Message
-----------------------------------------------------------------------------
\* Destinations, drafts and Lists

LEMMA PlacesStep ==
    ASSUME IInv, NEW c \in Conns, Handler(c) \/ Message(c)
    PROVE  Headed' /\ DraftRight' /\ Asked'
<1> USE DEF IInv, TypeOK, Headed, DraftRight, Asked
<1>1. CASE \/ StartJoin(c) \/ StartGreeting(c) \/ StartLeft(c)
           \/ StartSwitch(c) \/ StartLook(c) \/ StartShow(c) \/ AskList(c)
    BY <1>1 DEF StartJoin, StartGreeting, StartLeft, StartSwitch, StartLook,
                StartShow, AskList, Snapshot, Finished, Goto
<1>2. CASE EndHandler(c) \/ Disconnect(c) \/ WriteList(c)
    BY <1>2 DEF EndHandler, Disconnect, WriteList, Finished, Goto, loopVars
<1>3. CASE RemoveWatcher(c)
    BY <1>3 DEF RemoveWatcher, Finished, Goto, loopVars
<1>4. CASE AddWatcher(c)
    BY <1>4 DEF AddWatcher, Goto
<1>5. ASSUME NEW r \in RoomNames, Enter(c, r) \/ SwitchRoom(c, r) PROVE Headed' /\ DraftRight' /\ Asked'
    BY <1>5 DEF Enter, SwitchRoom, Snapshot, Goto, loopVars
<1>6. ASSUME NEW f \in Files, SetFile(c, f) PROVE Headed' /\ DraftRight' /\ Asked'
    BY <1>6 DEF SetFile, Goto, loopVars
<1>7. CASE Write(c)
    BY <1>7 DEF Write
<1>8. ASSUME NEW d \in Conns, PrepareJoined(c, d) \/ PreparePresent(c, d)
      PROVE  Headed' /\ DraftRight' /\ Asked'
    <2>1. PICK to \in Conns, event \in Events :
              /\ PrepareFor(c, d, to, event)
              /\ event.room = room[c]
              /\ \/ pc[c] = "join" /\ to = d /\ event.user = c /\ event.kind = "joined"
                 \/ pc[c] = "greet" /\ to = c /\ event.user = d /\ event.kind = "present"
              /\ TypeOK'
        BY <1>8, PrepareStep
    <2> QED
        BY <2>1 DEF PrepareFor
<1>9. ASSUME NEW d \in Conns, SendLeft(c, d) \/ SendSwitch(c, d) \/ SendFile(c, d) \/ ReadListed(c, d)
      PROVE  Headed' /\ DraftRight' /\ Asked'
    BY <1>9 DEF SendLeft, SendSwitch, SendFile, SendTo, ReadListed
<1> QED
    BY <1>1, <1>2, <1>3, <1>4, <1>5, <1>6, <1>7, <1>8, <1>9 DEF Handler, Message
-----------------------------------------------------------------------------
\* Nobody is missing without somebody to see to it.

\* Taking a list: whoever is in the room is on it.
LEMMA TendedLists ==
    ASSUME IInv, NEW c \in Conns,
           \/ StartJoin(c) \/ StartGreeting(c) \/ StartLeft(c) \/ StartSwitch(c)
           \/ StartLook(c) \/ StartShow(c) \/ AskList(c)
           \/ \E r \in RoomNames : SwitchRoom(c, r)
    PROVE  Tended'
<1> USE DEF IInv, Tended, Meet, Shows, Owes, Looks, Closed, DraftRight, TypeOK,
            Snapshot, Others, Watchers, Finished, Goto
<1>1. CASE StartJoin(c) \/ StartSwitch(c) \/ StartLook(c)
    BY <1>1 DEF StartJoin, StartSwitch, StartLook
<1>2. CASE StartGreeting(c)
    BY <1>2 DEF StartGreeting
<1>3. CASE StartLeft(c) \/ StartShow(c) \/ AskList(c)
    BY <1>3 DEF StartLeft, StartShow, AskList
<1>4. ASSUME NEW r \in RoomNames, SwitchRoom(c, r) PROVE Tended'
    BY <1>4 DEF SwitchRoom
<1> QED
    BY <1>1, <1>2, <1>3, <1>4

\* Entering, leaving and the other steps that write to nobody.
LEMMA TendedMoves ==
    ASSUME IInv, NEW c \in Conns,
           \/ EndHandler(c) \/ RemoveWatcher(c) \/ AddWatcher(c) \/ Disconnect(c) \/ WriteList(c)
           \/ \E r \in RoomNames : Enter(c, r)
           \/ \E f \in Files : SetFile(c, f)
           \/ \E d \in Conns : ReadListed(c, d)
    PROVE  Tended'
<1> USE DEF IInv, Tended, Meet, Shows, Owes, Looks, Closed, DraftRight, TypeOK,
            Finished, Goto, loopVars
<1>1. CASE EndHandler(c)
    BY <1>1 DEF EndHandler
<1>2. CASE Disconnect(c)
    BY <1>2 DEF Disconnect
<1>3. CASE RemoveWatcher(c)
    BY <1>3 DEF RemoveWatcher
<1>4. CASE AddWatcher(c)
    BY <1>4 DEF AddWatcher, Headed
<1>5. CASE WriteList(c)
    BY <1>5 DEF WriteList, Asked
<1>6. ASSUME NEW r \in RoomNames, Enter(c, r) PROVE Tended'
    BY <1>6 DEF Enter
<1>7. ASSUME NEW f \in Files, SetFile(c, f) PROVE Tended'
    BY <1>7 DEF SetFile
<1>8. ASSUME NEW d \in Conns, ReadListed(c, d) PROVE Tended'
    <2>1. /\ UNCHANGED <<room, pc, peers, draft, view>>
          /\ \A e \in Conns : e # c => todo'[e] = todo[e]
          /\ pc[c] = "list"
        BY <1>8 DEF ReadListed
    <2> QED
        BY <2>1
<1> QED
    BY <1>1, <1>2, <1>5, <1>6, <1>7, <1>8, <1>3, <1>4

\* Whoever is struck off a list has a draft written about or to it, ...
LEMMA TendedPrepare ==
    ASSUME IInv, NEW c \in Conns, NEW d \in Conns, PrepareJoined(c, d) \/ PreparePresent(c, d)
    PROVE  Tended'
<1>1. PICK to \in Conns, event \in Events :
          /\ PrepareFor(c, d, to, event)
          /\ \/ pc[c] = "join" /\ to = d /\ event.user = c
             \/ pc[c] = "greet" /\ to = c /\ event.user = d
    BY PrepareStep DEF IInv
<1>2. /\ UNCHANGED <<room, pc, peers, view>>
      /\ todo' = [todo EXCEPT ![c] = @ \ {d}]
      /\ draft[c] = None /\ draft' = [draft EXCEPT ![c] = [to |-> to, event |-> event]]
    BY <1>1 DEF PrepareFor
<1>3. /\ draft'[c] # None /\ draft'[c].to = to /\ draft'[c].event = event
      /\ \A e \in Conns \ {c} : draft'[e] = draft[e]
    BY <1>2 DEF IInv, TypeOK
<1>4. \A e \in Conns : todo'[e] = IF e = c THEN todo[c] \ {d} ELSE todo[e]
    BY <1>2 DEF IInv, TypeOK
<1>5. SUFFICES ASSUME NEW a \in Conns, NEW b \in Conns, a \notin Listers, Meet(a, b)'
               PROVE  Shows(a, b)' \/ Owes(b, a)' \/ Looks(a, b)'
    BY DEF Tended
<1>6. Shows(a, b) \/ Owes(b, a) \/ Looks(a, b)
    BY <1>2, <1>5 DEF IInv, Tended, Meet, Closed
<1>7. CASE Shows(a, b)
    BY <1>2, <1>7 DEF Shows
<1>8. CASE Owes(b, a)
    BY <1>1, <1>2, <1>3, <1>4, <1>8 DEF Owes
<1>9. CASE Looks(a, b)
    BY <1>1, <1>2, <1>3, <1>4, <1>9 DEF Looks
<1> QED
    BY <1>6, <1>7, <1>8, <1>9

\* ... which then shows what the invariant asks for, ...
LEMMA TendedWrite == ASSUME IInv, NEW c \in Conns, Write(c) PROVE Tended'
<1> DEFINE to == draft[c].to
           event == draft[c].event
<1>1. to \in Conns /\ event \in Events /\ Deliver(to, event)
    BY WriteStep DEF IInv, Write
<1>2. event.kind # "left" /\ event.room = room[c] /\ (event.user = c \/ to = c)
    BY DEF IInv, DraftRight, Write
<1> HIDE DEF to, event
<1>3. /\ \A a, b \in Conns : a # to \/ b # event.user => view'[a][b] = view[a][b]
      /\ ~Closed(to) => view'[to][event.user] # None /\ view'[to][event.user].room = room[c]
    BY <1>1, <1>2, Delivered DEF IInv
<1>4. /\ UNCHANGED <<room, pc, todo, peers>>
      /\ \A e \in Conns : e # c => draft'[e] = draft[e]
    BY DEF Write, IInv, TypeOK
<1>5. SUFFICES ASSUME NEW a \in Conns, NEW b \in Conns, a \notin Listers, Meet(a, b)'
               PROVE  Shows(a, b)' \/ Owes(b, a)' \/ Looks(a, b)'
    BY DEF Tended
<1>6. Meet(a, b) /\ (Shows(a, b) \/ Owes(b, a) \/ Looks(a, b))
    BY <1>4, <1>5 DEF IInv, Tended, Meet, Closed
<1>7. CASE a = to /\ b = event.user
    <2>1. room[c] = room[b]
        BY <1>2, <1>6, <1>7 DEF Meet
    <2> QED
        BY <1>3, <1>4, <1>6, <1>7, <2>1 DEF Meet, Shows
<1>8. CASE a # to \/ b # event.user
    <2>1. CASE Shows(a, b)
        BY <1>3, <1>4, <1>8, <2>1 DEF Shows
    <2>2. CASE Owes(b, a)
        BY <1>4, <1>8, <2>2 DEF Owes, IInv, DraftRight, to, event
    <2>3. CASE Looks(a, b)
        BY <1>4, <1>8, <2>3 DEF Looks, IInv, DraftRight, to, event
    <2> QED
        BY <1>6, <2>1, <2>2, <2>3
<1> QED
    BY <1>7, <1>8

\* ... as a broadcast does; a goodbye is said only by those about to go.
LEMMA TendedSend ==
    ASSUME IInv, NEW c \in Conns, NEW d \in Conns, SendLeft(c, d) \/ SendSwitch(c, d) \/ SendFile(c, d)
    PROVE  Tended'
<1>1. PICK kind \in {"left", "present"}, f \in Files \cup {None} :
          /\ About(c, kind, room[c], f) \in Events
          /\ kind = "left" <=> pc[c] \in {"leave", "closing"}
          /\ SendTo(c, d, About(c, kind, room[c], f))
    BY SendStep DEF IInv
<1>2. /\ UNCHANGED <<room, pc, peers, draft>>
      /\ \A e \in Conns : todo'[e] = IF e = c THEN todo[c] \ {d} ELSE todo[e]
      /\ pc[c] \in {"leave", "closing", "tell", "show"}
    BY <1>1 DEF SendTo, IInv, TypeOK, SendLeft, SendSwitch, SendFile
<1>3. /\ \A a, b \in Conns : a # d \/ b # c => view'[a][b] = view[a][b]
      /\ ~Closed(d) /\ kind # "left" => view'[d][c] # None /\ view'[d][c].room = room[c]
    BY <1>1, Delivered DEF SendTo, About, IInv
<1>4. SUFFICES ASSUME NEW a \in Conns, NEW b \in Conns, a \notin Listers, Meet(a, b)'
               PROVE  Shows(a, b)' \/ Owes(b, a)' \/ Looks(a, b)'
    BY DEF Tended
<1>5. Meet(a, b) /\ (Shows(a, b) \/ Owes(b, a) \/ Looks(a, b))
    BY <1>2, <1>4 DEF IInv, Tended, Meet, Closed
<1>6. CASE a = d /\ b = c
    BY <1>1, <1>2, <1>3, <1>5, <1>6 DEF Meet, Shows
<1>7. CASE a # d \/ b # c
    BY <1>2, <1>3, <1>5, <1>7 DEF Shows, Owes, Looks
<1> QED
    BY <1>6, <1>7

LEMMA StepInv == IInv /\ [Next]_vars => IInv'
<1> SUFFICES ASSUME IInv, [Next]_vars PROVE IInv'
    OBVIOUS
<1>1. ASSUME NEW c \in Conns, Handler(c) \/ Message(c) PROVE IInv'
    <2>1. TypeOK' /\ Headed' /\ DraftRight' /\ Asked'
        BY <1>1, TypeStep, PlacesStep DEF IInv
    <2>2. Tended'
        BY <1>1, TendedLists, TendedMoves, TendedPrepare, TendedWrite, TendedSend
        DEF Handler, Message
    <2> QED
        BY <2>1, <2>2 DEF IInv
<1>2. CASE UNCHANGED vars
    BY <1>2 DEF vars, loopVars, IInv, TypeOK, Headed, DraftRight, Asked, Tended, Meet, Closed,
                Shows, Owes, Looks
<1> QED
    BY <1>1, <1>2 DEF Next
-----------------------------------------------------------------------------
\* The inductive invariant holds throughout.
THEOREM Invariance == Spec => []IInv
BY InitInv, StepInv, PTL DEF Spec

\* The lists, drafts and views have their types, and a reader between two
\* handlers or in one has a room exactly when its watcher is in it.
THEOREM TypeCorrect == Spec => []TypeOK
<1>1. IInv => TypeOK
    BY DEF IInv
<1> QED
    BY <1>1, Invariance, PTL

\* Members of a room whose handlers are done see each other there, however their
\* joins, switches, files and departures interleaved.
THEOREM NobodyStaysMissing == Spec => []NobodyMissing
<1>1. IInv => NobodyMissing
    <2> SUFFICES ASSUME IInv, NEW c \in Conns, NEW d \in Conns,
                        pc[c] = "idle", pc[d] = "idle", room[c] = room[d], c # d, c \notin Listers
                 PROVE  Shows(c, d)
        BY DEF NobodyMissing, Shows
    <2>1. Meet(c, d)
        BY DEF Meet, Closed, IInv, TypeOK
    <2>2. ~Owes(d, c) /\ ~Looks(c, d)
        BY DEF Owes, Looks
    <2> QED
        BY <2>1, <2>2 DEF IInv, Tended
<1> QED
    BY <1>1, Invariance, PTL
=============================================================================
