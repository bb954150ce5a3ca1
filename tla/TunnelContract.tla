--------------------------- MODULE TunnelContract ---------------------------
(***************************************************************************)
(* What the interface Tunnel (internal/tunnel/tunnel.go) promises of any   *)
(* implementation: the states of a tunnel's health, the moves between      *)
(* them, and when it shows a public address.  BoreTunnel and FrpTunnel     *)
(* implement it.                                                           *)
(***************************************************************************)
CONSTANTS Addrs,  \* public addresses
          None    \* "no address"

VARIABLES state,  \* State()
          addr    \* the address it holds

Init == state = "starting" /\ addr = None

\* The tunnel becomes ready, or ready at another address.
BecomeReady(a) ==
    /\ state # "stopped"
    /\ state' = "ready"
    /\ addr' = a

\* A ready tunnel loses its connection, and its address with it.
Lose ==
    /\ state = "ready"
    /\ state' = "reconnecting"
    /\ addr' = None

\* The first attempt fails, or recovery takes too long.
Degrade ==
    /\ state \in {"starting", "reconnecting"}
    /\ state' = "degraded"
    /\ addr' = None

\* Stopped is final.
Stop ==
    /\ state # "stopped"
    /\ state' = "stopped"
    /\ addr' = None

Next == (\E a \in Addrs : BecomeReady(a)) \/ Lose \/ Degrade \/ Stop

Spec == Init /\ [][Next]_<<state, addr>>
=============================================================================
