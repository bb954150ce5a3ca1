------------------------------- MODULE Tunnel -------------------------------
(***************************************************************************)
(* What the two tunnel clients (internal/tunnel: bore_native.go and        *)
(* frp_native.go) have in common: the state they publish, WaitReady and    *)
(* Stop.  The Go code is written twice, word for word but for the socket   *)
(* that bore's Stop closes.                                                *)
(*                                                                         *)
(* A step is one critical section of the client's mu, or one operation on  *)
(* a channel or a socket outside it.                                       *)
(***************************************************************************)
CONSTANTS Callers,   \* goroutines that call WaitReady
          Stoppers,  \* goroutines that call Stop
          Addrs,     \* public addresses
          None       \* no address, no connection

ASSUME TunnelAssumption == None \notin Addrs

VARIABLES
    state,     \* the published State
    addr,      \* publicAddr
    firstErr,  \* firstErr # nil
    closed,    \* closed
    done,      \* the channel done is closed
    wpc,       \* where each caller of WaitReady is
    woken,     \* callers in the select whose copy of stateCh is closed
    answer,    \* what each caller's last WaitReady returned
    spc        \* where each call of Stop is

stateVars == <<state, addr, firstErr, closed>>
callerVars == <<wpc, woken, answer>>
tunnelVars == <<stateVars, callerVars, done, spc>>

State == {"starting", "ready", "reconnecting", "degraded", "stopped"}
Failed == "error"

TunnelInit ==
    /\ state = "starting"
    /\ addr = None
    /\ firstErr = FALSE
    /\ closed = FALSE
    /\ done = FALSE
    /\ wpc = [c \in Callers |-> "idle"]
    /\ woken = {}
    /\ answer = [c \in Callers |-> None]
    /\ spc = [s \in Stoppers |-> "idle"]

Selecting == {c \in Callers : wpc[c] = "select"}

\* setStateLocked: every caller that waits holds the channel closed here.
SetState(s, a) ==
    /\ state' = s
    /\ addr' = a
    /\ woken' = Selecting
    /\ UNCHANGED <<wpc, answer>>

KeepState == UNCHANGED <<state, addr, callerVars>>
-----------------------------------------------------------------------------
\* WaitReady: the locked snapshot at the head of the loop, and what follows
\* from it.  Callers may call again and again.
Look(c) ==
    /\ wpc[c] = "look"
    /\ IF state = "ready" \/ state = "stopped" \/ firstErr
       THEN /\ wpc' = [wpc EXCEPT ![c] = "idle"]
            /\ answer' = [answer EXCEPT ![c] = IF state = "ready" THEN addr ELSE Failed]
       ELSE /\ wpc' = [wpc EXCEPT ![c] = "select"]
            /\ UNCHANGED answer
    /\ UNCHANGED <<stateVars, woken, done, spc>>

CallWait(c) ==
    /\ wpc[c] = "idle"
    /\ wpc' = [wpc EXCEPT ![c] = "look"]
    /\ UNCHANGED <<stateVars, woken, answer, done, spc>>

\* <-ch
Wake(c) ==
    /\ c \in woken
    /\ wpc' = [wpc EXCEPT ![c] = "look"]
    /\ woken' = woken \ {c}
    /\ UNCHANGED <<stateVars, answer, done, spc>>

\* <-ctx.Done(), which may come at any time, or <-b.done
GiveUp(c) ==
    /\ wpc[c] = "select"
    /\ wpc' = [wpc EXCEPT ![c] = "idle"]
    /\ answer' = [answer EXCEPT ![c] = Failed]
    /\ woken' = woken \ {c}
    /\ UNCHANGED <<stateVars, done, spc>>

Waiting(c) == CallWait(c) \/ Look(c) \/ Wake(c) \/ GiveUp(c)
-----------------------------------------------------------------------------
\* Stop: only the first call does anything.
MarkStopped(s) ==
    /\ spc[s] = "idle"
    /\ IF closed
       THEN spc' = [spc EXCEPT ![s] = "returned"] /\ UNCHANGED <<closed, state, addr, callerVars>>
       ELSE /\ spc' = [spc EXCEPT ![s] = "marked"]
            /\ closed' = TRUE
            /\ SetState("stopped", None)
    /\ UNCHANGED <<firstErr, done>>

CloseDone(s) ==
    /\ spc[s] = "marked"
    /\ done' = TRUE
    /\ spc' = [spc EXCEPT ![s] = "close"]
    /\ UNCHANGED <<stateVars, callerVars>>
-----------------------------------------------------------------------------
TunnelTypeOK ==
    /\ state \in State
    /\ addr \in Addrs \cup {None}
    /\ firstErr \in BOOLEAN
    /\ closed \in BOOLEAN
    /\ done \in BOOLEAN
    /\ wpc \in [Callers -> {"idle", "look", "select"}]
    /\ woken \subseteq Selecting
    /\ answer \in [Callers -> Addrs \cup {None, Failed}]
    /\ spc \in [Stoppers -> {"idle", "marked", "close", "returned"}]
=============================================================================
