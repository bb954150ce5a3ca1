----------------------------- MODULE ServeProofs -----------------------------
(***************************************************************************)
(* Proofs about Serve.tla: when Close has returned, no handleConnection    *)
(* is running, none is registered and no connection is left open, and      *)
(* Close waits only for closed connections, for any number of connections  *)
(* and of concurrent calls of Close.                                       *)
(***************************************************************************)
EXTENDS Serve, FiniteSetTheorems, TLAPS

LEMMA TypeInit == Init => TypeOK
  <1> SUFFICES ASSUME Init PROVE TypeOK
    OBVIOUS
  <1>1. closing \in BOOLEAN /\ listening \in BOOLEAN
    BY Zenon DEF Init
  <1>2. /\ sock \in [Conns -> SockState]
        /\ hpc \in [Conns -> HandlerPC]
        /\ ticker \in [Conns -> TickerState]
        /\ kpc \in [Closers -> ClosePC]
        /\ kconns \in [Closers -> SUBSET Conns]
    BY DEF Init, SockState, HandlerPC, TickerState, ClosePC
  <1>3. conns \subseteq Conns /\ wg \in Nat
    BY DEF Init
  <1>4. spc \in ServePC /\ sconn \in Conns \cup {None} /\ (spc = "register" <=> sconn # None)
    BY DEF Init, ServePC
  <1> QED BY <1>1, <1>2, <1>3, <1>4 DEF TypeOK

LEMMA TypeServing ==
    ASSUME TypeOK, Serving
    PROVE  TypeOK'
  <1>1. CASE \E c \in Conns : Accept(c)
    BY <1>1, ServeAssumption
       DEF Accept, TypeOK, SockState, ServePC, closeVars
  <1>2. CASE AcceptError
    BY <1>2 DEF AcceptError, TypeOK, ServePC, closeVars
  <1>3. CASE CheckClosing
    BY <1>3 DEF CheckClosing, TypeOK, ServePC, closeVars
  <1>4. CASE Register
    <2>1. sconn \in Conns
      BY <1>4 DEF Register, TypeOK
    <2> QED BY <1>4, <2>1 DEF Register, TypeOK, SockState, ServePC, HandlerPC, closeVars
  <1> QED BY <1>1, <1>2, <1>3, <1>4 DEF Serving

\* The connections whose handleConnection has not returned.
AliveSet == { c \in Conns : Alive(c) }

\* The inductive invariant, but for wg's type, which needs the count.
Bookkeeping ==
    /\ TypeOK
    /\ wg = Cardinality(AliveSet)
    /\ conns \subseteq { c \in Conns : hpc[c] \in {"running", "unregister"} }
    /\ \A c \in Conns : sock[c] = "none" => hpc[c] = "none"
    /\ spc = "register" => hpc[sconn] = "none" /\ sock[sconn] # "none"
    /\ \A k \in Closers : kpc[k] # "idle" => closing
    /\ \A k \in Closers : kpc[k] = "returned" => AliveSet = {}

LEMMA AliveFinite == IsFiniteSet(AliveSet)
  BY ServeAssumption, FS_Subset DEF AliveSet

LEMMA InitBookkeeping == Init => Bookkeeping
  <1> SUFFICES ASSUME Init PROVE Bookkeeping
    OBVIOUS
  <1>1. AliveSet = {}
    BY DEF Init, AliveSet, Alive
  <1> QED BY <1>1, TypeInit, FS_EmptySet DEF Init, Bookkeeping

LEMMA ServingBookkeeping ==
    ASSUME Bookkeeping, Serving
    PROVE  Bookkeeping'
  <1>0. TypeOK'
    BY TypeServing DEF Bookkeeping
  <1>1. CASE \E c \in Conns : Accept(c)
    <2>1. PICK c \in Conns : Accept(c)
      BY <1>1
    <2>2. hpc' = hpc /\ AliveSet' = AliveSet
      BY <2>1 DEF Accept, AliveSet, Alive
    <2>3. spc' = "register" => hpc'[sconn'] = "none" /\ sock'[sconn'] # "none"
      BY <2>1, <2>2 DEF Accept, Bookkeeping, TypeOK
    <2> QED BY <1>0, <2>1, <2>2, <2>3 DEF Accept, Bookkeeping, TypeOK, closeVars
  <1>2. CASE AcceptError \/ CheckClosing
    <2>1. AliveSet' = AliveSet
      BY <1>2 DEF AcceptError, CheckClosing, AliveSet, Alive
    <2> QED BY <1>0, <1>2, <2>1 DEF AcceptError, CheckClosing, Bookkeeping, closeVars
  <1>3. CASE Register /\ closing
    <2>1. AliveSet' = AliveSet
      BY <1>3 DEF Register, AliveSet, Alive
    <2> QED BY <1>0, <1>3, <2>1 DEF Register, Bookkeeping, TypeOK, closeVars
  <1>4. CASE Register /\ ~closing
    <2>1. sconn \in Conns /\ hpc[sconn] = "none"
      BY <1>4 DEF Register, Bookkeeping, TypeOK
    <2>2. AliveSet' = AliveSet \cup {sconn}
      BY <1>4, <2>1 DEF Register, AliveSet, Alive, Bookkeeping, TypeOK
    <2>3. sconn \notin AliveSet
      BY <2>1 DEF AliveSet, Alive
    <2>4. Cardinality(AliveSet') = Cardinality(AliveSet) + 1
      BY <2>2, <2>3, AliveFinite, FS_AddElement
    <2>5. \A c \in Conns : sock'[c] = "none" => hpc'[c] = "none"
      BY <1>4, <2>1 DEF Register, Bookkeeping, TypeOK
    <2>6. \A k \in Closers : kpc[k] = "idle"
      BY <1>4 DEF Bookkeeping
    <2>7. conns' \subseteq { c \in Conns : hpc'[c] \in {"running", "unregister"} }
      BY <1>4, <2>1 DEF Register, Bookkeeping, TypeOK
    <2> QED BY <1>0, <1>4, <2>4, <2>5, <2>6, <2>7 DEF Register, Bookkeeping, closeVars
  <1> QED BY <1>1, <1>2, <1>3, <1>4 DEF Serving

\* What every step of a connection's goroutines leaves alone.
LEMMA HandlingBookkeeping ==
    ASSUME Bookkeeping, NEW c \in Conns, Handling(c) \/ Ticking(c)
    PROVE  Bookkeeping'
  <1>1. CASE Login(c) \/ Ticking(c)
    <2>1. AliveSet' = AliveSet /\ hpc' = hpc
      BY <1>1 DEF Login, Ticking, TickerTimeout, TickerReturn, AliveSet, Alive
    <2>2. TypeOK'
      BY <1>1 DEF Login, Ticking, TickerTimeout, TickerReturn, StopTicker, Bookkeeping, TypeOK,
                  SockState, TickerState, serveVars, closeVars
    <2>3. \A d \in Conns : sock'[d] = "none" => sock[d] = "none"
      BY <1>1 DEF Login, Ticking, TickerTimeout, TickerReturn, Bookkeeping, TypeOK
    <2>4. UNCHANGED <<wg, conns, closing, kpc, spc, sconn>>
      BY <1>1 DEF Login, Ticking, TickerTimeout, TickerReturn, serveVars, closeVars
    <2>5. spc = "register" => sconn \in Conns
      BY DEF Bookkeeping, TypeOK
    <2> QED BY <2>1, <2>2, <2>3, <2>4, <2>5 DEF Bookkeeping
  <1>2. CASE Drop(c) \/ ClientError(c) \/ Unregister(c) \/ CloseSock(c)
    <2>1. AliveSet' = AliveSet
      BY <1>2 DEF Drop, ClientError, Unregister, CloseSock, AliveSet, Alive, Bookkeeping, TypeOK
    <2>2. TypeOK'
      BY <1>2 DEF Drop, ClientError, Unregister, CloseSock, StopTicker, Bookkeeping, TypeOK,
                  SockState, TickerState, HandlerPC, serveVars, closeVars
    <2>3. /\ \A d \in Conns : sock'[d] = "none" => sock[d] = "none"
          /\ \A d \in Conns : d # c => hpc'[d] = hpc[d]
          /\ hpc[c] # "none"
      BY <1>2 DEF Drop, ClientError, Unregister, CloseSock, Bookkeeping, TypeOK
    <2>4. UNCHANGED <<wg, closing, kpc, spc, sconn>>
      BY <1>2 DEF Drop, ClientError, Unregister, CloseSock, serveVars, closeVars
    <2>5. spc = "register" => sconn \in Conns
      BY DEF Bookkeeping, TypeOK
    <2>6. conns' \subseteq { d \in Conns : hpc'[d] \in {"running", "unregister"} }
      BY <1>2 DEF Drop, ClientError, Unregister, CloseSock, Bookkeeping, TypeOK
    <2> QED BY <2>1, <2>2, <2>3, <2>4, <2>5, <2>6 DEF Bookkeeping
  <1>3. CASE Finish(c)
    <2>1. AliveSet' = AliveSet \ {c} /\ c \in AliveSet
      BY <1>3 DEF Finish, AliveSet, Alive, Bookkeeping, TypeOK
    <2>2. Cardinality(AliveSet') = Cardinality(AliveSet) - 1
      BY <2>1, AliveFinite, FS_RemoveElement
    <2>3. wg' = Cardinality(AliveSet')
      BY <1>3, <2>2 DEF Finish, Bookkeeping
    <2>4. IsFiniteSet(AliveSet')
      BY <2>1, AliveFinite, FS_RemoveElement
    <2>5. wg' \in Nat
      BY <2>3, <2>4, FS_CardinalityType
    <2>6. TypeOK'
      BY <1>3, <2>5 DEF Finish, Bookkeeping, TypeOK, HandlerPC, serveVars, closeVars
    <2>7. /\ \A d \in Conns : d # c => hpc'[d] = hpc[d]
          /\ hpc[c] = "finish"
      BY <1>3 DEF Finish, Bookkeeping, TypeOK
    <2>8. UNCHANGED <<conns, closing, kpc, spc, sconn, sock>>
      BY <1>3 DEF Finish, serveVars, closeVars
    <2>9. spc = "register" => sconn \in Conns
      BY DEF Bookkeeping, TypeOK
    <2> QED BY <2>1, <2>3, <2>6, <2>7, <2>8, <2>9 DEF Bookkeeping
  <1> QED BY <1>1, <1>2, <1>3 DEF Handling, Returning

LEMMA ClosingBookkeeping ==
    ASSUME Bookkeeping, NEW k \in Closers, Closing(k)
    PROVE  Bookkeeping'
  <1>1. AliveSet' = AliveSet /\ hpc' = hpc
    BY DEF Closing, MarkClosing, CloseListener, CloseConn, StartWait, Waited, AliveSet, Alive
  <1>2. TypeOK'
    <2>1. closing' \in BOOLEAN /\ listening' \in BOOLEAN
      BY Zenon DEF Closing, MarkClosing, CloseListener, CloseConn, StartWait, Waited,
                   Bookkeeping, TypeOK
    <2>2. /\ sock' \in [Conns -> SockState]
          /\ kpc' \in [Closers -> ClosePC]
          /\ kconns' \in [Closers -> SUBSET Conns]
      BY DEF Closing, MarkClosing, CloseListener, CloseConn, StartWait, Waited,
             Bookkeeping, TypeOK, SockState, ClosePC
    <2>3. UNCHANGED <<wg, conns, hpc, ticker, spc, sconn>>
      BY DEF Closing, MarkClosing, CloseListener, CloseConn, StartWait, Waited, serveVars
    <2> QED BY <2>1, <2>2, <2>3 DEF Bookkeeping, TypeOK
  <1>3. UNCHANGED <<wg, conns, spc, sconn>>
    BY DEF Closing, MarkClosing, CloseListener, CloseConn, StartWait, Waited, serveVars
  <1>4. \A d \in Conns : sock'[d] = "none" => sock[d] = "none"
    BY DEF Closing, MarkClosing, CloseListener, CloseConn, StartWait, Waited, Bookkeeping, TypeOK
  <1>5. \A j \in Closers : kpc'[j] # "idle" => closing'
    BY DEF Closing, MarkClosing, CloseListener, CloseConn, StartWait, Waited, Bookkeeping, TypeOK
  <1>6. \A j \in Closers : kpc'[j] = "returned" => AliveSet = {}
    <2>1. CASE Waited(k)
      <3>1. Cardinality(AliveSet) = 0
        BY <2>1 DEF Waited, Bookkeeping
      <3> QED BY <3>1, AliveFinite, FS_EmptySet
    <2>2. CASE ~Waited(k)
      BY <2>2 DEF Closing, MarkClosing, CloseListener, CloseConn, StartWait, Bookkeeping, TypeOK
    <2> QED BY <2>1, <2>2
  <1>7. spc = "register" => sconn \in Conns
    BY DEF Bookkeeping, TypeOK
  <1> QED BY <1>1, <1>2, <1>3, <1>4, <1>5, <1>6, <1>7 DEF Bookkeeping

LEMMA StutterBookkeeping == Bookkeeping /\ UNCHANGED vars => Bookkeeping'
  BY DEF Bookkeeping, TypeOK, AliveSet, Alive, vars

LEMMA BookkeepingInvariant == Spec => []Bookkeeping
  <1>1. Bookkeeping /\ [Next]_vars => Bookkeeping'
    BY ServingBookkeeping, HandlingBookkeeping, ClosingBookkeeping, StutterBookkeeping
       DEF Next, Terminated
  <1> QED BY <1>1, InitBookkeeping, PTL DEF Spec

\* Every variable keeps its type; the wait group's counter never goes below zero.
THEOREM TypeCorrect == Spec => []TypeOK
  <1>1. Bookkeeping => TypeOK
    BY DEF Bookkeeping
  <1> QED BY <1>1, BookkeepingInvariant, PTL

-----------------------------------------------------------------------------
\* A registered connection has a reader, ...
Registered == \A c \in Conns : hpc[c] = "running" => c \in conns

\* ... a Close that has begun is still to close those that are open, ...
Pursued ==
    \A k \in Closers :
        /\ kpc[k] = "wait" => kconns[k] = {}
        /\ kpc[k] \in {"listener", "conns", "wait"} =>
              \A c \in Conns : hpc[c] = "running" /\ sock[c] # "closed" => c \in kconns[k]

\* ... and an open connection is Serve's, or has a handler that will close it.
Owned ==
    \A c \in Conns :
        sock[c] = "open" => c = sconn \/ hpc[c] \in {"running", "unregister", "close"}

ServeInv == Bookkeeping /\ Registered /\ Pursued /\ Owned

LEMMA ServeInit == Init => ServeInv
  <1> SUFFICES ASSUME Init PROVE ServeInv
    OBVIOUS
  <1>1. Registered /\ Pursued /\ Owned
    BY DEF Init, Registered, Pursued, Owned
  <1> QED BY <1>1, InitBookkeeping DEF ServeInv

LEMMA ServingPursued ==
    ASSUME ServeInv, Serving
    PROVE  Registered' /\ Pursued' /\ Owned'
  <1> USE DEF ServeInv, Bookkeeping, TypeOK, Registered, Pursued, Owned, closeVars
  <1>1. CASE \E c \in Conns : Accept(c)
    BY <1>1, ServeAssumption DEF Accept
  <1>2. CASE AcceptError \/ CheckClosing
    BY <1>2 DEF AcceptError, CheckClosing
  <1>3. CASE Register /\ closing
    BY <1>3 DEF Register
  <1>4. CASE Register /\ ~closing
    <2>1. sconn \in Conns /\ \A k \in Closers : kpc'[k] = "idle"
      BY <1>4 DEF Register
    <2> QED BY <1>4, <2>1 DEF Register
  <1> QED BY <1>1, <1>2, <1>3, <1>4 DEF Serving

LEMMA HandlingPursued ==
    ASSUME ServeInv, NEW c \in Conns, Handling(c) \/ Ticking(c)
    PROVE  Registered' /\ Pursued' /\ Owned'
  <1> USE DEF ServeInv, Bookkeeping, TypeOK, Registered, Pursued, Owned, serveVars, closeVars
  <1>1. CASE Login(c)
    BY <1>1 DEF Login
  <1>2. CASE Drop(c)
    BY <1>2 DEF Drop
  <1>3. CASE ClientError(c)
    BY <1>3 DEF ClientError
  <1>4. CASE Unregister(c)
    BY <1>4 DEF Unregister
  <1>5. CASE CloseSock(c)
    BY <1>5 DEF CloseSock
  <1>6. CASE Finish(c)
    BY <1>6 DEF Finish
  <1>7. CASE TickerTimeout(c)
    BY <1>7 DEF TickerTimeout
  <1>8. CASE TickerReturn(c)
    BY <1>8 DEF TickerReturn
  <1> QED BY <1>1, <1>2, <1>3, <1>4, <1>5, <1>6, <1>7, <1>8 DEF Handling, Returning, Ticking

LEMMA ClosingPursued ==
    ASSUME ServeInv, NEW k \in Closers, Closing(k)
    PROVE  Registered' /\ Pursued' /\ Owned'
  <1> USE DEF ServeInv, Bookkeeping, TypeOK, Registered, Pursued, Owned, serveVars
  <1>1. CASE MarkClosing(k)
    BY <1>1 DEF MarkClosing
  <1>2. CASE CloseListener(k)
    BY <1>2 DEF CloseListener
  <1>3. CASE \E c \in Conns : CloseConn(k, c)
    BY <1>3 DEF CloseConn
  <1>4. CASE StartWait(k)
    BY <1>4 DEF StartWait
  <1>5. CASE Waited(k)
    BY <1>5 DEF Waited
  <1> QED BY <1>1, <1>2, <1>3, <1>4, <1>5 DEF Closing

LEMMA ServeNext == ServeInv /\ [Next]_vars => ServeInv'
  <1> SUFFICES ASSUME ServeInv, [Next]_vars PROVE ServeInv'
    OBVIOUS
  <1>1. Bookkeeping'
    BY ServingBookkeeping, HandlingBookkeeping, ClosingBookkeeping, StutterBookkeeping
       DEF Next, Terminated, ServeInv
  <1>2. UNCHANGED vars => Registered' /\ Pursued' /\ Owned'
    BY DEF vars, ServeInv, Registered, Pursued, Owned
  <1> QED BY <1>1, <1>2, ServingPursued, HandlingPursued, ClosingPursued
          DEF Next, Terminated, ServeInv

LEMMA ServeInvariant == Spec => []ServeInv
  BY ServeInit, ServeNext, PTL DEF Spec

\* When a Close has returned, no connection is served, registered or left open,
\* whatever Serve was doing meanwhile and however many goroutines closed the
\* server.
THEOREM CloseIsComplete == Spec => []ClosedIsEmpty
  <1>1. ServeInv => ClosedIsEmpty
    <2> SUFFICES ASSUME ServeInv, NEW k \in Closers, kpc[k] = "returned"
                 PROVE  conns = {} /\ \A c \in Conns : ~Alive(c) /\ (sock[c] = "open" => c = sconn)
      BY DEF ClosedIsEmpty
    <2>1. \A c \in Conns : ~Alive(c)
      BY DEF ServeInv, Bookkeeping, AliveSet
    <2>2. conns = {}
      BY <2>1 DEF ServeInv, Bookkeeping, Alive
    <2> QED BY <2>1, <2>2 DEF ServeInv, Owned, Alive
  <1> QED BY <1>1, ServeInvariant, PTL

\* A Close that waits for the handlers waits for none whose client could keep it
\* busy: every connection that is still read from has been closed.  So a client
\* that keeps sending cannot hold up Close (server.go, Close).
WaitsForClosed ==
    \A k \in Closers, c \in Conns :
        kpc[k] = "wait" /\ hpc[c] = "running" => sock[c] = "closed"

\* Close waits only for connections that are closed, for any number of closers
\* and of connections, also such as were accepted while it began.
THEOREM CloseNeverStuck == Spec => []WaitsForClosed
  <1>1. ServeInv => WaitsForClosed
    BY DEF ServeInv, Pursued, WaitsForClosed
  <1> QED BY <1>1, ServeInvariant, PTL
=============================================================================
