-------------------------------- MODULE Sync --------------------------------
(***************************************************************************)
(* Synchronisation of the play state within one room (internal/syncplay:   *)
(* state.go, room.go updateState and setPaused, server.go                  *)
(* forcePositionUpdate): who may change it and who is told.                *)
(*                                                                         *)
(* Every member has a reader goroutine, which handles the State messages   *)
(* of its connection one at a time, and a ticker goroutine, which sends    *)
(* the periodic State.  All of them work on the room and on every member's *)
(* serverIgnoringOnTheFly; a step is one critical section, one unlocked    *)
(* read of playState, or one write to a connection.                        *)
(*                                                                         *)
(* The play state is the pause flag; a seek is a forced update that leaves *)
(* it alone.  Positions, latencies and clientIgnoringOnTheFly do not       *)
(* influence any of this and are left out.  A write of a forced State may  *)
(* fail, which the server only logs.                                       *)
(***************************************************************************)
EXTENDS Naturals, Sequences, FiniteSets

CONSTANTS Conns,       \* the logged-in connections in the room
          None,        \* no value
          Playstates,  \* what clients report: pairs <<paused, doSeek>>
          MaxEvents,   \* bound: reports of playstates and failed writes
          MaxQueued    \* bound: States on their way to a client when its
                       \* ticker fires, and from it when it reports

ASSUME SyncAssumption ==
    /\ None \notin BOOLEAN
    /\ None \notin Conns
    /\ None \notin [to : Conns, n : Nat]
    /\ Playstates \subseteq BOOLEAN \X BOOLEAN
    /\ MaxEvents \in Nat
    /\ MaxQueued \in Nat

VARIABLES
    paused,  \* Room.playState = StatePaused
    mute,    \* Client.serverIgnoringOnTheFly
    inbox,   \* the State messages on their way from each client
    outbox,  \* the State messages on their way to each client
    shown,   \* external: the pause flag of the last State each client received
    left,    \* external: events that may still happen
    lost,    \* the forced States to each client whose write has failed
    pc,      \* where each reader is
    play,    \* handleState's paused (None when the message has no playstate)
    seek,    \* handleState's doSeek
    say,     \* forcePositionUpdate's paused
    todo,    \* the members forcePositionUpdate has still to send to
    draft,   \* the forced State about to be written: [to, n], or None
    tpc,     \* where each ticker is
    tsay     \* sendPeriodicState's paused

ignoreVars == <<mute, lost>>
queueVars == <<inbox, outbox>>
clientVars == <<shown, left>>
jobVars == <<play, seek, say, todo, draft>>
tickerVars == <<tpc, tsay>>
vars == <<paused, ignoreVars, queueVars, clientVars, pc, jobVars, tickerVars>>

\* A State from a client: ack > 0 acknowledges a forced State.
Reports == [ack : Nat, play : BOOLEAN \cup {None}, seek : BOOLEAN]
\* A State to a client: n > 0 marks a forced one (ignoringOnTheFly.server).
States == [paused : BOOLEAN, n : Nat]

Init ==
    /\ paused = TRUE
    /\ mute = [c \in Conns |-> 0]
    /\ lost = [c \in Conns |-> {}]
    /\ inbox = [c \in Conns |-> <<>>]
    /\ outbox = [c \in Conns |-> <<>>]
    /\ shown = [c \in Conns |-> TRUE]
    /\ left = MaxEvents
    /\ pc = [c \in Conns |-> "read"]
    /\ play = [c \in Conns |-> None]
    /\ seek = [c \in Conns |-> FALSE]
    /\ say = [c \in Conns |-> None]
    /\ todo = [c \in Conns |-> {}]
    /\ draft = [c \in Conns |-> None]
    /\ tpc = [c \in Conns |-> "wait"]
    /\ tsay = [c \in Conns |-> None]
-----------------------------------------------------------------------------
\* External: the clients.  A client acknowledges every forced State it receives
\* and reports a playstate of its choice, with an acknowledgement or without.

Receive(c) ==
    /\ outbox[c] # <<>>
    /\ outbox' = [outbox EXCEPT ![c] = Tail(@)]
    /\ shown' = [shown EXCEPT ![c] = Head(outbox[c]).paused]
    /\ LET n == Head(outbox[c]).n
           ack == [ack |-> n, play |-> None, seek |-> FALSE]
       IN inbox' = IF n = 0 THEN inbox ELSE [inbox EXCEPT ![c] = Append(@, ack)]
    /\ UNCHANGED <<paused, ignoreVars, left, pc, jobVars, tickerVars>>

Report(c, p, s) ==
    /\ left > 0
    /\ Len(inbox[c]) < MaxQueued
    /\ left' = left - 1
    /\ inbox' = [inbox EXCEPT ![c] = Append(@, [ack |-> 0, play |-> p, seek |-> s])]
    /\ UNCHANGED <<paused, ignoreVars, outbox, shown, pc, jobVars, tickerVars>>
-----------------------------------------------------------------------------
\* The reader goroutine.

\* serverIgnoringOnTheFly after an acknowledgement of n.
Acked(m, n) == IF n > 0 /\ m = n THEN 0 ELSE m

\* The part of handleState that is under stateMu
TakeIgnores(c, r) ==
    /\ mute' = [mute EXCEPT ![c] = Acked(@, r.ack)]
    /\ lost' = [lost EXCEPT ![c] = IF mute'[c] = 0 THEN {} ELSE @]

\* Faulty: a State without a playstate goes on to updateState as well.
HandleStateUnchecked(c) ==
    /\ pc[c] = "read"
    /\ inbox[c] # <<>>
    /\ inbox' = [inbox EXCEPT ![c] = Tail(@)]
    /\ LET r == Head(inbox[c]) IN
       /\ TakeIgnores(c, r)
       /\ IF mute'[c] = 0
          THEN /\ pc' = [pc EXCEPT ![c] = "update"]
               /\ play' = [play EXCEPT ![c] = r.play]
               /\ seek' = [seek EXCEPT ![c] = r.seek]
          ELSE UNCHANGED <<pc, play, seek>>
    /\ UNCHANGED <<paused, outbox, clientVars, say, todo, draft, tickerVars>>

\* handleState up to its Unlock: take the acknowledgement, and go on to
\* updateState only if no forced State is outstanding.
HandleState(c) ==
    /\ pc[c] = "read"
    /\ inbox[c] # <<>>
    /\ inbox' = [inbox EXCEPT ![c] = Tail(@)]
    /\ LET r == Head(inbox[c]) IN
       /\ TakeIgnores(c, r)
       /\ IF mute'[c] = 0 /\ r.play # None
          THEN /\ pc' = [pc EXCEPT ![c] = "update"]
               /\ play' = [play EXCEPT ![c] = r.play]
               /\ seek' = [seek EXCEPT ![c] = r.seek]
          ELSE UNCHANGED <<pc, play, seek>>
    /\ UNCHANGED <<paused, outbox, clientVars, say, todo, draft, tickerVars>>

\* updateState compares the reported pause flag with the room's.
Compare(c) ==
    /\ pc[c] = "update"
    /\ pc' = [pc EXCEPT ![c] = IF play[c] # paused THEN "set"
                               ELSE IF seek[c] THEN "force" ELSE "read"]
    /\ play' = [play EXCEPT ![c] = IF @ # paused THEN @ ELSE None]
    /\ seek' = [seek EXCEPT ![c] = FALSE]
    /\ UNCHANGED <<paused, ignoreVars, queueVars, clientVars, say, todo, draft, tickerVars>>

\* Room.setPaused
SetPaused(c) ==
    /\ pc[c] = "set"
    /\ paused' = play[c]
    /\ play' = [play EXCEPT ![c] = None]
    /\ pc' = [pc EXCEPT ![c] = "force"]
    /\ UNCHANGED <<ignoreVars, queueVars, clientVars, seek, say, todo, draft, tickerVars>>

\* forcePositionUpdate reads the pause flag and takes the list of members.
StartForce(c) ==
    /\ pc[c] = "force"
    /\ say' = [say EXCEPT ![c] = paused]
    /\ todo' = [todo EXCEPT ![c] = Conns]
    /\ pc' = [pc EXCEPT ![c] = "send"]
    /\ UNCHANGED <<paused, ignoreVars, queueVars, clientVars, play, seek, draft, tickerVars>>

\* Faulty: the forced State carries the counter of before the increment.
CountForcedLate(c, d) ==
    /\ pc[c] = "send"
    /\ d \in todo[c]
    /\ mute' = [mute EXCEPT ![d] = @ + 1]
    /\ draft' = [draft EXCEPT ![c] = [to |-> d, n |-> mute[d]]]
    /\ todo' = [todo EXCEPT ![c] = @ \ {d}]
    /\ pc' = [pc EXCEPT ![c] = "write"]
    /\ UNCHANGED <<paused, lost, queueVars, clientVars, play, seek, say, tickerVars>>

\* sendState(forced) to member d: count it under d's stateMu ...
CountForced(c, d) ==
    /\ pc[c] = "send"
    /\ d \in todo[c]
    /\ mute' = [mute EXCEPT ![d] = @ + 1]
    /\ draft' = [draft EXCEPT ![c] = [to |-> d, n |-> mute[d] + 1]]
    /\ todo' = [todo EXCEPT ![c] = @ \ {d}]
    /\ pc' = [pc EXCEPT ![c] = "write"]
    /\ UNCHANGED <<paused, lost, queueVars, clientVars, play, seek, say, tickerVars>>

\* ... and go on to the next after the write, ...
EndWrite(c) ==
    /\ pc[c] = "write"
    /\ draft' = [draft EXCEPT ![c] = None]
    /\ pc' = [pc EXCEPT ![c] = IF todo[c] = {} THEN "read" ELSE "send"]
    /\ say' = [say EXCEPT ![c] = IF todo[c] = {} THEN None ELSE @]
    /\ UNCHANGED <<paused, mute, inbox, shown, play, seek, todo, tickerVars>>

\* ... under d's writeMu, has succeeded ...
WriteForced(c) ==
    /\ EndWrite(c)
    /\ outbox' = [outbox EXCEPT ![draft[c].to] =
                      Append(@, [paused |-> say[c], n |-> draft[c].n])]
    /\ UNCHANGED <<left, lost>>

\* ... or failed.
WriteFails(c) ==
    /\ EndWrite(c)
    /\ left > 0
    /\ left' = left - 1
    /\ lost' = [lost EXCEPT ![draft[c].to] = @ \cup {draft[c].n}]
    /\ UNCHANGED outbox
-----------------------------------------------------------------------------
\* The ticker goroutine: sendPeriodicState.

ReadTick(c) ==
    /\ tpc[c] = "wait"
    /\ Len(outbox[c]) < MaxQueued
    /\ tsay' = [tsay EXCEPT ![c] = paused]
    /\ tpc' = [tpc EXCEPT ![c] = "check"]
    /\ UNCHANGED <<paused, ignoreVars, queueVars, clientVars, pc, jobVars>>

\* Faulty: the periodic State is sent only after some forced State.
CheckTickMuted(c) ==
    /\ tpc[c] = "check"
    /\ tpc' = [tpc EXCEPT ![c] = IF mute[c] # 0 THEN "write" ELSE "wait"]
    /\ tsay' = [tsay EXCEPT ![c] = IF mute[c] # 0 THEN @ ELSE None]
    /\ UNCHANGED <<paused, ignoreVars, queueVars, clientVars, pc, jobVars>>

\* Nothing is sent while a forced State is outstanding.
CheckTick(c) ==
    /\ tpc[c] = "check"
    /\ tpc' = [tpc EXCEPT ![c] = IF mute[c] = 0 THEN "write" ELSE "wait"]
    /\ tsay' = [tsay EXCEPT ![c] = IF mute[c] = 0 THEN @ ELSE None]
    /\ UNCHANGED <<paused, ignoreVars, queueVars, clientVars, pc, jobVars>>

WriteTick(c) ==
    /\ tpc[c] = "write"
    /\ outbox' = [outbox EXCEPT ![c] = Append(@, [paused |-> tsay[c], n |-> 0])]
    /\ tpc' = [tpc EXCEPT ![c] = "wait"]
    /\ tsay' = [tsay EXCEPT ![c] = None]
    /\ UNCHANGED <<paused, ignoreVars, inbox, clientVars, pc, jobVars>>
-----------------------------------------------------------------------------
Reader(c) ==
    \/ HandleState(c) \/ Compare(c) \/ SetPaused(c) \/ StartForce(c)
    \/ (\E d \in Conns : CountForced(c, d)) \/ WriteForced(c) \/ WriteFails(c)
Ticker(c) == ReadTick(c) \/ CheckTick(c) \/ WriteTick(c)
Client(c) == Receive(c) \/ \E r \in Playstates : Report(c, r[1], r[2])

Next == \E c \in Conns : Reader(c) \/ Ticker(c) \/ Client(c)

Spec == Init /\ [][Next]_vars

\* Goroutines run, tickers tick, and States reach the clients.  No client has to
\* report anything.
FairSpec ==
    /\ Spec
    /\ \A c \in Conns : WF_vars(Reader(c)) /\ WF_vars(Ticker(c)) /\ WF_vars(Receive(c))
-----------------------------------------------------------------------------
TypeOK ==
    /\ paused \in BOOLEAN
    /\ mute \in [Conns -> Nat]
    /\ lost \in [Conns -> SUBSET Nat]
    /\ inbox \in [Conns -> Seq(Reports)]
    /\ outbox \in [Conns -> Seq(States)]
    /\ shown \in [Conns -> BOOLEAN]
    /\ left \in 0 .. MaxEvents
    /\ pc \in [Conns -> {"read", "update", "set", "force", "send", "write"}]
    /\ play \in [Conns -> BOOLEAN \cup {None}]
    /\ seek \in [Conns -> BOOLEAN]
    /\ say \in [Conns -> BOOLEAN \cup {None}]
    /\ todo \in [Conns -> SUBSET Conns]
    /\ draft \in [Conns -> [to : Conns, n : Nat] \cup {None}]
    /\ tpc \in [Conns -> {"wait", "check", "write"}]
    /\ tsay \in [Conns -> BOOLEAN \cup {None}]
    /\ \A c \in Conns :
          /\ pc[c] \in {"update", "set"} <=> play[c] # None
          /\ pc[c] \in {"send", "write"} <=> say[c] # None
          /\ pc[c] = "write" <=> draft[c] # None
          /\ pc[c] = "send" => todo[c] # {}
          /\ tpc[c] = "wait" <=> tsay[c] = None

\* The forced State with count n is still to be acknowledged by c: about to be
\* written, on its way, or its acknowledgement is.
Outstanding(c, n) ==
    \/ \E d \in Conns : draft[d] # None /\ draft[d].to = c /\ draft[d].n = n
    \/ \E i \in 1 .. Len(outbox[c]) : outbox[c][i].n = n
    \/ \E i \in 1 .. Len(inbox[c]) : inbox[c][i].ack = n

\* The server is never deaf to a client for good, unless the write of the last
\* forced State to it failed: while it ignores the client's reports, the very
\* State whose acknowledgement ends that is outstanding.  So an earlier write
\* that failed does no harm (state.go, sendState and handleState).
NeverDeaf ==
    \A c \in Conns : mute[c] # 0 => Outstanding(c, mute[c]) \/ mute[c] \in lost[c]

\* However reports, broadcasts and ticks interleave, once clients report no more
\* every one of them, except where the last forced State was not written, ends up
\* showing the room's play state, and the server listens to it again (state.go,
\* sendState and handleState).
Converges ==
    <>[](\A c \in Conns : mute[c] \notin lost[c] => shown[c] = paused /\ mute[c] = 0)
=============================================================================
