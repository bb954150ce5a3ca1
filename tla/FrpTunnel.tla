----------------------------- MODULE FrpTunnel ------------------------------
(***************************************************************************)
(* The frp client (internal/tunnel/frp_native.go): run, which runs the frp *)
(* library's service, and monitor, which polls the status of the proxy and *)
(* publishes a state from it.                                              *)
(*                                                                         *)
(* The service is external: it reconnects by itself, changes the proxy's   *)
(* status at will while it runs, and ends after done or with an error.  A  *)
(* status is the address derived from a running proxy, or None.            *)
(***************************************************************************)
EXTENDS Tunnel

VARIABLES
    fpc,     \* where run is, or off when this client is not the one in use
    status,  \* external: what statusFn would return
    mpc,     \* where monitor is
    seen,    \* the status monitor read
    since    \* notRunningSince is set

monitorVars == <<mpc, seen, since>>
frpVars == <<fpc, status, monitorVars>>

FrpInit(place) ==
    /\ fpc = place
    /\ status = None
    /\ mpc = "none"
    /\ seen = None
    /\ since = FALSE
-----------------------------------------------------------------------------
\* run: the configuration or NewService fails.
FailFirst ==
    /\ fpc = "setup"
    /\ firstErr' = TRUE
    /\ IF closed THEN KeepState ELSE SetState("degraded", None)
    /\ fpc' = "gone"
    /\ UNCHANGED <<closed, done, spc, status, monitorVars>>

\* The service and monitor are started, unless Stop was first.
Install ==
    /\ fpc = "setup"
    /\ IF closed
       THEN fpc' = "gone" /\ UNCHANGED mpc
       ELSE fpc' = "serve" /\ mpc' = "poll"
    /\ UNCHANGED <<tunnelVars, status, seen, since>>

ServiceMoves ==
    /\ fpc = "serve"
    /\ status' \in Addrs \cup {None}
    /\ UNCHANGED <<tunnelVars, fpc, monitorVars>>

\* svc.Run returns: its context was cancelled, or it failed.
ServiceEnds ==
    /\ fpc = "serve"
    /\ status' = None
    /\ fpc' = "ended"
    /\ UNCHANGED <<tunnelVars, monitorVars>>

\* run looks at the state only if svc.Run failed.  Without an error it returns
\* after done at the earliest, when closed holds and the state stays as it is.
RunReturns ==
    /\ fpc = "ended"
    /\ IF ~closed /\ state = "starting"
       THEN firstErr' = TRUE /\ SetState("degraded", None)
       ELSE KeepState /\ UNCHANGED firstErr
    /\ fpc' = "gone"
    /\ UNCHANGED <<closed, done, spc, status, monitorVars>>
-----------------------------------------------------------------------------
\* monitor: done ...
MonitorDone ==
    /\ mpc = "poll" /\ done
    /\ mpc' = "gone"
    /\ UNCHANGED <<tunnelVars, fpc, status, seen, since>>

\* ... or a tick, after which the status is read without the lock ...
Poll ==
    /\ mpc = "poll"
    /\ seen' = status
    /\ mpc' = "update"
    /\ UNCHANGED <<tunnelVars, fpc, status, since>>

\* Faulty: an address that changes while the proxy runs is not published.
PublishRunningOnce ==
    /\ seen # None
    /\ since' = FALSE
    /\ \/ state # "ready" /\ SetState("ready", seen)
       \/ state = "ready" /\ KeepState

\* ... and published under it ...
PublishRunning ==
    /\ seen # None
    /\ since' = FALSE
    /\ \/ (state # "ready" \/ addr # seen) /\ SetState("ready", seen)
       \/ state = "ready" /\ addr = seen /\ KeepState

\* While the proxy is not running, enough time (degradedAfter) may have passed
\* since an earlier tick found it so.
PublishNotRunning ==
    /\ seen = None
    /\ since' = TRUE
    /\ \/ state = "ready" /\ SetState("reconnecting", None)
       \/ state = "reconnecting" /\ since /\ SetState("degraded", None)
       \/ state # "ready" /\ KeepState

Update ==
    /\ mpc = "update" /\ state # "stopped"
    /\ mpc' = "poll"
    /\ PublishRunning \/ PublishNotRunning
    /\ UNCHANGED <<firstErr, closed, done, spc, fpc, status, seen>>

\* ... unless the tunnel was stopped meanwhile.
UpdateStopped ==
    /\ mpc = "update" /\ state = "stopped"
    /\ mpc' = "gone"
    /\ UNCHANGED <<tunnelVars, fpc, status, seen, since>>

FrpStopping(s) ==
    /\ fpc # "off"
    /\ \/ MarkStopped(s)
       \/ CloseDone(s)
       \/ /\ spc[s] = "close"
          /\ spc' = [spc EXCEPT ![s] = "returned"]
          /\ UNCHANGED <<stateVars, callerVars, done>>
    /\ UNCHANGED frpVars

FrpNext ==
    \/ FailFirst \/ Install
    \/ ServiceMoves \/ ServiceEnds \/ RunReturns
    \/ MonitorDone \/ Poll \/ Update \/ UpdateStopped
    \/ \E s \in Stoppers : FrpStopping(s)

\* The service need not end before done, and no status has to come.
FrpFairness ==
    /\ WF_<<tunnelVars, frpVars>>(Install \/ FailFirst)
    /\ WF_<<tunnelVars, frpVars>>(done /\ ServiceEnds)
    /\ WF_<<tunnelVars, frpVars>>(RunReturns)
    /\ WF_<<tunnelVars, frpVars>>(MonitorDone \/ Poll)
    /\ WF_<<tunnelVars, frpVars>>(Update \/ UpdateStopped)
    /\ \A s \in Stoppers :
           WF_<<tunnelVars, frpVars>>(spc[s] # "idle" /\ FrpStopping(s))
-----------------------------------------------------------------------------
FrpTypeOK ==
    /\ fpc \in {"off", "setup", "serve", "ended", "gone"}
    /\ status \in Addrs \cup {None}
    /\ mpc \in {"none", "poll", "update", "gone"}
    /\ seen \in Addrs \cup {None}
    /\ since \in BOOLEAN
    /\ status # None => fpc = "serve"
=============================================================================
