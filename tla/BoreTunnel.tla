----------------------------- MODULE BoreTunnel -----------------------------
(***************************************************************************)
(* The bore client (internal/tunnel/bore_native.go, dialer.go): run with   *)
(* its first connection and the reconnections, and what Stop does to the   *)
(* control connection.                                                     *)
(*                                                                         *)
(* Connections are Conn objects of the program: closing one frees its      *)
(* identity for a later dial once neither ctrlConn nor Stop refers to it.  *)
(* The relay is external: it may refuse, answer or drop a connection at    *)
(* any time.  Messages on the control connection other than the last one   *)
(* change nothing here.  The data connections they start are left out: run *)
(* knows nothing of them, and Stop does not close them.                    *)
(***************************************************************************)
EXTENDS Tunnel, Naturals

CONSTANTS Conns,             \* connections to the relay
          DegradedThreshold, \* degradedThreshold
          Proxied            \* the relay is dialled through a proxy (proxyURL)

ASSUME BoreAssumption ==
    /\ None \notin Conns
    /\ Proxied \in BOOLEAN
    /\ DegradedThreshold \in Nat \ {0}

VARIABLES
    rpc,       \* where run is, or off when this client is not the one in use
    first,     \* run has not got its first connection yet
    failures,  \* reconnectLoop's failures, counted up to DegradedThreshold
    sock,      \* each connection: closed, open, or dialled by a goroutine of
               \* DialContext that nobody waits for (late, adrift, stray)
    conn,      \* run's conn
    ctrl,      \* ctrlConn
    sconn      \* Stop's conn

runVars == <<rpc, first, failures, conn>>
boreVars == <<runVars, sock, ctrl, sconn>>

BoreInit(place) ==
    /\ rpc = place
    /\ first = TRUE
    /\ failures = 0
    /\ sock = [c \in Conns |-> "closed"]
    /\ conn = None
    /\ ctrl = None
    /\ sconn = None

Fresh(c) == sock[c] = "closed" /\ c \notin {ctrl, sconn}

Unconnected == {"dial", "failed", "lost", "degrade", "sleep", "gone"}
Connected == {"shake", "publish", "read", "close"}
-----------------------------------------------------------------------------
\* connectOnce: DialContext answers in time with a connection ...
Dialed(c) ==
    /\ rpc = "dial"
    /\ Fresh(c)
    /\ sock' = [sock EXCEPT ![c] = "open"]
    /\ conn' = c
    /\ rpc' = "shake"
    /\ UNCHANGED <<tunnelVars, first, failures, ctrl, sconn>>

\* ... or with an error, ...
DialFails ==
    /\ rpc = "dial"
    /\ rpc' = "failed"
    /\ UNCHANGED <<tunnelVars, first, failures, conn, sock, ctrl, sconn>>

\* ... or its context ends first, and the dial goes on by itself.
DialTimesOut(c) ==
    /\ rpc = "dial"
    /\ Fresh(c)
    /\ sock' = [sock EXCEPT ![c] = "late"]
    /\ rpc' = "failed"
    /\ UNCHANGED <<tunnelVars, first, failures, conn, ctrl, sconn>>

\* dialOnce: the late dial connects or fails within the Dialer's Timeout, but a
\* proxy that has been connected to is given no deadline for its answer.
LateDial(c) ==
    /\ sock[c] = "late"
    /\ \/ \E kind \in {"stray", "closed"} : sock' = [sock EXCEPT ![c] = kind]
       \/ Proxied /\ sock' = [sock EXCEPT ![c] = "adrift"]
    /\ UNCHANGED <<tunnelVars, runVars, ctrl, sconn>>

\* The proxy answers, or fails, and so does the late dial.
ProxyAnswers(c) ==
    /\ sock[c] = "adrift"
    /\ \E kind \in {"stray", "closed"} : sock' = [sock EXCEPT ![c] = kind]
    /\ UNCHANGED <<tunnelVars, runVars, ctrl, sconn>>

\* DialContext's second goroutine closes what the late dial got.
CloseStray(c) ==
    /\ sock[c] = "stray"
    /\ sock' = [sock EXCEPT ![c] = "closed"]
    /\ UNCHANGED <<tunnelVars, runVars, ctrl, sconn>>

Abandoned(c) == LateDial(c) \/ ProxyAnswers(c) \/ CloseStray(c)

\* Faulty: a failed handshake leaves the connection open.
HandshakeLeaks ==
    /\ rpc = "shake"
    /\ \/ rpc' = "publish" /\ UNCHANGED conn
       \/ rpc' = "failed" /\ conn' = None
    /\ UNCHANGED <<tunnelVars, first, failures, sock, ctrl, sconn>>

\* The handshake with the relay, within its deadline.
Handshake ==
    /\ rpc = "shake"
    /\ \/ rpc' = "publish" /\ UNCHANGED <<conn, sock>>
       \/ rpc' = "failed" /\ sock' = [sock EXCEPT ![conn] = "closed"] /\ conn' = None
    /\ UNCHANGED <<tunnelVars, first, failures, ctrl, sconn>>

\* The locked end of connectOnce, if Stop has not been called ...
Publish(a) ==
    /\ rpc = "publish" /\ ~closed
    /\ ctrl' = conn
    /\ SetState("ready", a)
    /\ rpc' = "read"
    /\ first' = FALSE
    /\ UNCHANGED <<firstErr, closed, done, spc, failures, conn, sock, sconn>>

\* ... and if it has.
PublishRefused ==
    /\ rpc = "publish" /\ closed
    /\ sock' = [sock EXCEPT ![conn] = "closed"]
    /\ conn' = None
    /\ rpc' = "failed"
    /\ UNCHANGED <<tunnelVars, first, failures, ctrl, sconn>>
-----------------------------------------------------------------------------
\* Faulty: the error is stored, but nobody is told.
FirstFailsSilently ==
    /\ rpc = "failed" /\ first
    /\ firstErr' = TRUE
    /\ KeepState
    /\ rpc' = "gone"
    /\ UNCHANGED <<closed, done, spc, first, failures, conn, sock, ctrl, sconn>>

\* run: the first connection failed.
FirstFails ==
    /\ rpc = "failed" /\ first
    /\ firstErr' = TRUE
    /\ IF closed THEN KeepState ELSE SetState("degraded", None)
    /\ rpc' = "gone"
    /\ UNCHANGED <<closed, done, spc, first, failures, conn, sock, ctrl, sconn>>

\* controlLoop ends: the relay hangs up or reports an error, or Stop closed
\* the connection or done.
ControlEnds ==
    /\ rpc = "read"
    /\ rpc' = "close"
    /\ UNCHANGED <<tunnelVars, first, failures, conn, sock, ctrl, sconn>>

\* run closes the connection ...
CloseControl ==
    /\ rpc = "close"
    /\ sock' = [sock EXCEPT ![conn] = "closed"]
    /\ conn' = None
    /\ rpc' = "lost"
    /\ UNCHANGED <<tunnelVars, first, failures, ctrl, sconn>>

\* Faulty: closed is not looked at in the section that changes the state.
LostUnchecked ==
    /\ rpc = "lost"
    /\ rpc' = "sleep" /\ SetState("reconnecting", None)
    /\ failures' = 0
    /\ UNCHANGED <<firstErr, closed, done, spc, first, conn, sock, ctrl, sconn>>

\* ... and begins to reconnect, unless stopped.
Lost ==
    /\ rpc = "lost"
    /\ IF closed
       THEN rpc' = "gone" /\ KeepState
       ELSE rpc' = "sleep" /\ SetState("reconnecting", None)
    /\ failures' = 0
    /\ UNCHANGED <<firstErr, closed, done, spc, first, conn, sock, ctrl, sconn>>

\* reconnectLoop: the backoff, or done
Backoff ==
    /\ rpc = "sleep"
    /\ \/ done /\ rpc' = "gone"
       \/ rpc' = "dial"
    /\ UNCHANGED <<tunnelVars, first, failures, conn, sock, ctrl, sconn>>

\* Faulty: at the threshold run returns instead of slowing down.
RetryGivesUp ==
    /\ rpc = "failed" /\ ~first
    /\ IF closed
       THEN rpc' = "gone" /\ UNCHANGED failures
       ELSE LET n == failures + 1 IN
            /\ failures' = IF n < DegradedThreshold THEN n ELSE DegradedThreshold
            /\ rpc' = IF n < DegradedThreshold THEN "sleep" ELSE "gone"
    /\ UNCHANGED <<tunnelVars, first, conn, sock, ctrl, sconn>>

\* Faulty: the threshold is passed by one, and counted past.
RetryMiscounts ==
    /\ rpc = "failed" /\ ~first
    /\ failures' = failures + 1
    /\ rpc' = IF closed THEN "gone" ELSE IF failures < DegradedThreshold THEN "sleep" ELSE "degrade"
    /\ UNCHANGED <<tunnelVars, first, conn, sock, ctrl, sconn>>

\* The attempt failed: isClosed, and the count.
RetryFails ==
    /\ rpc = "failed" /\ ~first
    /\ IF closed
       THEN rpc' = "gone" /\ UNCHANGED failures
       ELSE LET n == failures + 1 IN
            /\ failures' = IF n < DegradedThreshold THEN n ELSE DegradedThreshold
            /\ rpc' = IF n < DegradedThreshold THEN "sleep" ELSE "degrade"
    /\ UNCHANGED <<tunnelVars, first, conn, sock, ctrl, sconn>>

Degrade ==
    /\ rpc = "degrade"
    /\ IF state = "reconnecting" THEN SetState("degraded", None) ELSE KeepState
    /\ rpc' = "sleep"
    /\ UNCHANGED <<firstErr, closed, done, spc, first, failures, conn, sock, ctrl, sconn>>

Running ==
    \/ \E c \in Conns : Dialed(c) \/ DialTimesOut(c)
    \/ DialFails \/ Handshake
    \/ \E a \in Addrs : Publish(a)
    \/ PublishRefused \/ FirstFails \/ CloseControl
    \/ Lost \/ Backoff \/ RetryFails \/ Degrade
-----------------------------------------------------------------------------
\* Faulty: Stop forgets the control connection, so run keeps reading from it.
BoreMarkOnly(s) == MarkStopped(s) /\ UNCHANGED boreVars

BoreMark(s) ==
    /\ MarkStopped(s)
    /\ sconn' = IF closed THEN sconn ELSE ctrl
    /\ UNCHANGED <<runVars, sock, ctrl>>

BoreCloseDone(s) == CloseDone(s) /\ UNCHANGED boreVars

\* Stop closes the control connection it found, which run may have closed.
CloseConn(s) ==
    /\ spc[s] = "close"
    /\ sock' = IF sconn = None THEN sock ELSE [sock EXCEPT ![sconn] = "closed"]
    /\ sconn' = None
    /\ spc' = [spc EXCEPT ![s] = "returned"]
    /\ UNCHANGED <<stateVars, callerVars, done, runVars, ctrl>>

BoreStopping(s) == rpc # "off" /\ (BoreMark(s) \/ BoreCloseDone(s) \/ CloseConn(s))

BoreNext ==
    \/ Running \/ ControlEnds
    \/ \E c \in Conns : Abandoned(c)
    \/ \E s \in Stoppers : BoreStopping(s)

\* run waits 3 s for a dial and 30 s for the handshake.  A read from a connection
\* fails once Stop has closed it; otherwise the relay may stay for ever.  A late
\* dial ends in time unless it waits for a proxy, which need not answer.
BoreFairness ==
    /\ WF_<<tunnelVars, boreVars>>(Running)
    /\ WF_<<tunnelVars, boreVars>>(rpc = "read" /\ sock[conn] = "closed" /\ ControlEnds)
    /\ \A c \in Conns : WF_<<tunnelVars, boreVars>>(LateDial(c) \/ CloseStray(c))
    /\ \A s \in Stoppers :
           WF_<<tunnelVars, boreVars>>(spc[s] # "idle" /\ BoreStopping(s))
-----------------------------------------------------------------------------
BoreTypeOK ==
    /\ rpc \in Unconnected \cup Connected \cup {"off"}
    /\ first \in BOOLEAN
    /\ failures \in 0..DegradedThreshold
    /\ sock \in [Conns -> {"closed", "open", "late", "adrift", "stray"}]
    /\ conn \in Conns \cup {None}
    /\ ctrl \in Conns \cup {None}
    /\ sconn \in Conns \cup {None}
    /\ conn # None <=> rpc \in Connected
    /\ \A c \in Conns : sock[c] = "adrift" => Proxied
=============================================================================
