-------------------------------- MODULE Serve --------------------------------
(***************************************************************************)
(* The life of the syncplay server's connections (internal/syncplay/       *)
(* server.go): Serve accepts them, handleConnection serves each in a       *)
(* goroutine of its own, a logged-in connection has a state ticker         *)
(* goroutine besides, and Close stops everything.                          *)
(*                                                                         *)
(* What handleConnection does with messages is the subject of Rooms.tla    *)
(* and Sync.tla.                                                           *)
(***************************************************************************)
EXTENDS Naturals, FiniteSets

CONSTANTS Conns,    \* connections that clients open
          Closers,  \* goroutines that call Close
          None      \* no connection

ASSUME ServeAssumption == None \notin Conns /\ IsFiniteSet(Conns)

VARIABLES
    closing,    \* Server.closing
    conns,      \* Server.conns
    wg,         \* the counter of Server.wg
    listening,  \* Server.listener is open
    sock,       \* the server's end of each connection
    spc,        \* where Serve is
    sconn,      \* Serve's local conn
    hpc,        \* where handleConnection is
    ticker,     \* the state ticker goroutine of each connection
    kpc,        \* where Close is
    kconns      \* Close's local conns

vars == <<closing, conns, wg, listening, sock, spc, sconn, hpc, ticker, kpc, kconns>>
serveVars == <<spc, sconn>>
closeVars == <<kpc, kconns>>

SockState == {"none", "open", "closed"}
ServePC == {"accept", "error", "register", "returned"}
HandlerPC == {"none", "running", "unregister", "close", "finish", "returned"}
TickerState == {"none", "running", "stopping", "returned"}   \* stopping: done is closed
ClosePC == {"idle", "listener", "conns", "wait", "returned"}

Init ==
    /\ closing = FALSE
    /\ conns = {}
    /\ wg = 0
    /\ listening = TRUE
    /\ sock = [c \in Conns |-> "none"]
    /\ spc = "accept"
    /\ sconn = None
    /\ hpc = [c \in Conns |-> "none"]
    /\ ticker = [c \in Conns |-> "none"]
    /\ kpc = [k \in Closers |-> "idle"]
    /\ kconns = [k \in Closers |-> {}]
-----------------------------------------------------------------------------
\* Serve

Accept(c) ==
    /\ spc = "accept"
    /\ listening
    /\ sock[c] = "none"
    /\ sock' = [sock EXCEPT ![c] = "open"]
    /\ sconn' = c
    /\ spc' = "register"
    /\ UNCHANGED <<closing, conns, wg, listening, hpc, ticker, closeVars>>

\* Accept fails, for a passing reason or because the listener is closed.
AcceptError ==
    /\ spc = "accept"
    /\ spc' = "error"
    /\ UNCHANGED <<closing, conns, wg, listening, sock, sconn, hpc, ticker, closeVars>>

CheckClosing ==
    /\ spc = "error"
    /\ spc' = IF closing THEN "returned" ELSE "accept"
    /\ UNCHANGED <<closing, conns, wg, listening, sock, sconn, hpc, ticker, closeVars>>

\* Faulty: the connection is registered whether or not the server is closing.
RegisterAlways ==
    /\ spc = "register"
    /\ conns' = conns \cup {sconn}
    /\ wg' = wg + 1
    /\ hpc' = [hpc EXCEPT ![sconn] = "running"]
    /\ sconn' = None
    /\ spc' = "accept"
    /\ UNCHANGED <<closing, listening, sock, ticker, closeVars>>

\* Faulty: a connection that arrives while the server closes is dropped unclosed.
RegisterForgetful ==
    /\ spc = "register"
    /\ IF closing
       THEN UNCHANGED <<conns, wg, hpc>>
       ELSE /\ conns' = conns \cup {sconn}
            /\ wg' = wg + 1
            /\ hpc' = [hpc EXCEPT ![sconn] = "running"]
    /\ sconn' = None
    /\ spc' = "accept"
    /\ UNCHANGED <<closing, listening, sock, ticker, closeVars>>

\* Under Server.mu: refuse the connection when closing, else register it, count
\* its goroutine and start it.
Register ==
    /\ spc = "register"
    /\ IF closing
       THEN /\ sock' = [sock EXCEPT ![sconn] = "closed"]
            /\ UNCHANGED <<conns, wg, hpc>>
       ELSE /\ conns' = conns \cup {sconn}
            /\ wg' = wg + 1
            /\ hpc' = [hpc EXCEPT ![sconn] = "running"]
            /\ UNCHANGED sock
    /\ sconn' = None
    /\ spc' = "accept"
    /\ UNCHANGED <<closing, listening, ticker, closeVars>>
-----------------------------------------------------------------------------
\* handleConnection and its ticker

\* Hello: the ticker starts (startStateLoop).
Login(c) ==
    /\ hpc[c] = "running"
    /\ ticker[c] = "none"
    /\ ticker' = [ticker EXCEPT ![c] = "running"]
    /\ UNCHANGED <<closing, conns, wg, listening, sock, serveVars, hpc, closeVars>>

\* cleanup() tells the ticker to stop and closes the connection.
StopTicker(c) ==
    ticker' = [ticker EXCEPT ![c] = IF @ = "running" THEN "stopping" ELSE @]

\* The read fails or a message drops the connection: cleanup() and return.
Drop(c) ==
    /\ hpc[c] = "running"
    /\ StopTicker(c)
    /\ sock' = [sock EXCEPT ![c] = "closed"]
    /\ hpc' = [hpc EXCEPT ![c] = "unregister"]
    /\ UNCHANGED <<closing, conns, wg, listening, serveVars, closeVars>>

\* An Error message of a logged-in client: return without cleanup().
ClientError(c) ==
    /\ hpc[c] = "running"
    /\ ticker[c] # "none"
    /\ hpc' = [hpc EXCEPT ![c] = "unregister"]
    /\ UNCHANGED <<closing, conns, wg, listening, sock, serveVars, ticker, closeVars>>

\* Faulty: wg.Done() is called here and by Finish.
UnregisterDone(c) ==
    /\ hpc[c] = "unregister"
    /\ conns' = conns \ {c}
    /\ wg' = wg - 1
    /\ hpc' = [hpc EXCEPT ![c] = "close"]
    /\ UNCHANGED <<closing, listening, sock, serveVars, ticker, closeVars>>

\* The deferred calls, last one first.
Unregister(c) ==
    /\ hpc[c] = "unregister"
    /\ conns' = conns \ {c}
    /\ hpc' = [hpc EXCEPT ![c] = "close"]
    /\ UNCHANGED <<closing, wg, listening, sock, serveVars, ticker, closeVars>>

CloseSock(c) ==
    /\ hpc[c] = "close"
    /\ sock' = [sock EXCEPT ![c] = "closed"]
    /\ hpc' = [hpc EXCEPT ![c] = "finish"]
    /\ UNCHANGED <<closing, conns, wg, listening, serveVars, ticker, closeVars>>

Finish(c) ==
    /\ hpc[c] = "finish"
    /\ wg' = wg - 1
    /\ hpc' = [hpc EXCEPT ![c] = "returned"]
    /\ UNCHANGED <<closing, conns, listening, sock, serveVars, ticker, closeVars>>

\* Faulty: closes the connection, and tells nobody that it is done.
TickerTimeoutSilent(c) ==
    /\ ticker[c] = "running"
    /\ sock' = [sock EXCEPT ![c] = "closed"]
    /\ UNCHANGED <<closing, conns, wg, listening, serveVars, hpc, ticker, closeVars>>

\* The ticker finds the protocol timeout expired and runs cleanup() itself.
TickerTimeout(c) ==
    /\ ticker[c] = "running"
    /\ StopTicker(c)
    /\ sock' = [sock EXCEPT ![c] = "closed"]
    /\ UNCHANGED <<closing, conns, wg, listening, serveVars, hpc, closeVars>>

TickerReturn(c) ==
    /\ ticker[c] = "stopping"
    /\ ticker' = [ticker EXCEPT ![c] = "returned"]
    /\ UNCHANGED <<closing, conns, wg, listening, sock, serveVars, hpc, closeVars>>
-----------------------------------------------------------------------------
\* Close

\* Faulty: the connections are not looked at.
MarkClosingOnly(k) ==
    /\ kpc[k] = "idle"
    /\ closing' = TRUE
    /\ kpc' = [kpc EXCEPT ![k] = "listener"]
    /\ UNCHANGED <<conns, wg, listening, sock, serveVars, hpc, ticker, kconns>>

\* Under Server.mu.
MarkClosing(k) ==
    /\ kpc[k] = "idle"
    /\ closing' = TRUE
    /\ kconns' = [kconns EXCEPT ![k] = conns]
    /\ kpc' = [kpc EXCEPT ![k] = "listener"]
    /\ UNCHANGED <<conns, wg, listening, sock, serveVars, hpc, ticker>>

CloseListener(k) ==
    /\ kpc[k] = "listener"
    /\ listening' = FALSE
    /\ kpc' = [kpc EXCEPT ![k] = "conns"]
    /\ UNCHANGED <<closing, conns, wg, sock, serveVars, hpc, ticker, kconns>>

CloseConn(k, c) ==
    /\ kpc[k] = "conns"
    /\ c \in kconns[k]
    /\ sock' = [sock EXCEPT ![c] = "closed"]
    /\ kconns' = [kconns EXCEPT ![k] = @ \ {c}]
    /\ UNCHANGED <<closing, conns, wg, listening, serveVars, hpc, ticker, kpc>>

StartWait(k) ==
    /\ kpc[k] = "conns"
    /\ kconns[k] = {}
    /\ kpc' = [kpc EXCEPT ![k] = "wait"]
    /\ UNCHANGED <<closing, conns, wg, listening, sock, serveVars, hpc, ticker, kconns>>

\* wg.Wait() returns.
Waited(k) ==
    /\ kpc[k] = "wait"
    /\ wg = 0
    /\ kpc' = [kpc EXCEPT ![k] = "returned"]
    /\ UNCHANGED <<closing, conns, wg, listening, sock, serveVars, hpc, ticker, kconns>>
-----------------------------------------------------------------------------
Terminated ==
    /\ spc = "returned"
    /\ \A c \in Conns : hpc[c] \in {"none", "returned"} /\ ticker[c] \in {"none", "returned"}
    /\ \A k \in Closers : kpc[k] = "returned"
    /\ UNCHANGED vars

Serving == (\E c \in Conns : Accept(c)) \/ AcceptError \/ CheckClosing \/ Register
Returning(c) == Unregister(c) \/ CloseSock(c) \/ Finish(c)
Handling(c) == Login(c) \/ Drop(c) \/ ClientError(c) \/ Returning(c)
Ticking(c) == TickerTimeout(c) \/ TickerReturn(c)
Closing(k) ==
    \/ MarkClosing(k) \/ CloseListener(k) \/ (\E c \in Conns : CloseConn(k, c))
    \/ StartWait(k) \/ Waited(k)

Next ==
    \/ Serving
    \/ \E c \in Conns : Handling(c) \/ Ticking(c)
    \/ \E k \in Closers : Closing(k)
    \/ Terminated

Spec == Init /\ [][Next]_vars

\* Every goroutine that can go on does.  A client may stay connected for ever
\* and keep sending: only the reader of a closed connection must fail.  Nobody
\* has to call Close.
FairSpec ==
    /\ Spec
    /\ WF_vars(Serving)
    /\ \A c \in Conns : /\ WF_vars(sock[c] = "closed" /\ Drop(c))
                        /\ WF_vars(Returning(c))
                        /\ WF_vars(hpc[c] = "returned" /\ TickerTimeout(c))
                        /\ WF_vars(TickerReturn(c))
    /\ \A k \in Closers : WF_vars(kpc[k] # "idle" /\ Closing(k))
-----------------------------------------------------------------------------
TypeOK ==
    /\ closing \in BOOLEAN
    /\ conns \subseteq Conns
    /\ wg \in Nat
    /\ listening \in BOOLEAN
    /\ sock \in [Conns -> SockState]
    /\ spc \in ServePC
    /\ sconn \in Conns \cup {None}
    /\ hpc \in [Conns -> HandlerPC]
    /\ ticker \in [Conns -> TickerState]
    /\ kpc \in [Closers -> ClosePC]
    /\ kconns \in [Closers -> SUBSET Conns]
    /\ spc = "register" <=> sconn # None

\* handleConnection has not returned.
Alive(c) == hpc[c] \notin {"none", "returned"}

\* Once a Close has returned no handleConnection is running, none is registered
\* and no connection is open but for one that Serve is about to refuse, also when
\* a connection was being accepted meanwhile or several goroutines closed the
\* server.
ClosedIsEmpty ==
    (\E k \in Closers : kpc[k] = "returned") =>
        conns = {} /\ \A c \in Conns : ~Alive(c) /\ (sock[c] = "open" => c = sconn)

\* A Close that was called returns, though clients may keep sending.
CloseReturns == \A k \in Closers : kpc[k] = "listener" ~> kpc[k] = "returned"

\* After a Close, Serve returns and every connection it had accepted is closed.
AllClosed == closing ~> spc = "returned" /\ \A c \in Conns : sock[c] # "open"

\* After a Close every state ticker comes to an end as well, though Close does not
\* wait for it: also that of a client whose Error message has ended the reader
\* without cleanup() (server.go dispatch, state.go startStateLoop).
TickersEnd == <>[]closing => <>[](\A c \in Conns : ticker[c] \in {"none", "returned"})
=============================================================================
