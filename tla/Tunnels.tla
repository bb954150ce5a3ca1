------------------------------ MODULE Tunnels -------------------------------
(***************************************************************************)
(* A tunnel as the lifecycle manager sets it up (manager.go setupTunnels): *)
(* one client, of the configured type, together with the goroutines that   *)
(* wait for it and stop it.  The variables of the other client rest.       *)
(***************************************************************************)
EXTENDS BoreTunnel, FrpTunnel

vars == <<tunnelVars, boreVars, frpVars>>

\* The client is created and started: bore for every type but frp.
setupTunnels ==
    \/ BoreInit("dial") /\ FrpInit("off")
    \/ BoreInit("off") /\ FrpInit("setup")

Init == TunnelInit /\ setupTunnels

Next ==
    \/ BoreNext /\ UNCHANGED frpVars
    \/ FrpNext /\ UNCHANGED boreVars
    \/ \E c \in Callers : Waiting(c) /\ UNCHANGED <<boreVars, frpVars>>

Spec == Init /\ [][Next]_vars

FairSpec == Spec /\ BoreFairness /\ FrpFairness
-----------------------------------------------------------------------------
TypeOK ==
    /\ TunnelTypeOK /\ BoreTypeOK /\ FrpTypeOK
    /\ rpc = "off" <=> fpc # "off"

\* Both clients keep the promises of the interface (tunnel.go State, Tunnel):
\* an address is shown exactly while ready, and stopped is final, whatever run
\* and monitor were about to publish when Stop came.
Contract == INSTANCE TunnelContract
ContractSpec == Contract!Spec

\* A caller of WaitReady that is asleep has nothing to be told: the state is
\* neither ready nor stopped and no error is recorded, or it is being woken.
NoMissedWakeup ==
    \A c \in Selecting \ woken : state \notin {"ready", "stopped"} /\ ~firstErr

\* Every control connection that a dial handed to run is closed unless run still
\* works with it: a handshake that fails, or that Stop overtakes, closes it.  What
\* becomes of late dials is StopEnds' concern.
NoLeak ==
    \A c \in Conns : sock[c] = "open" => conn = c /\ rpc \in Connected

\* bore gives up for two reasons only: its first connection failed, or Stop.
NeverGivesUp == rpc = "gone" => closed \/ (firstErr /\ first)

Quiet ==
    /\ rpc \in {"off", "gone"} /\ \A c \in Conns : sock[c] \in {"closed", "adrift"}
    /\ fpc \in {"off", "gone"} /\ mpc \in {"none", "gone"}

\* Stop ends run and monitor, and every control connection is closed in the end,
\* also one whose dial outlives its context; except that a late dial through a
\* proxy may be adrift for as long as the proxy does not answer (dialOnce).
StopEnds == closed ~> Quiet

\* frp follows the service: when the proxy stays as it is, its address is what
\* the tunnel shows, or no address when it is not running.
FollowsStatus ==
    \A a \in Addrs \cup {None} :
        <>[](fpc = "serve" /\ status = a) => <>[](closed \/ addr = a)
=============================================================================
