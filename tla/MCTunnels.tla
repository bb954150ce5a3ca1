------------------------------ MODULE MCTunnels ------------------------------
(* Values for model-checking Tunnels.tla. *)
EXTENDS Tunnels, TLC

CONSTANTS w1, s1, s2, a1, a2, k1, k2, k3
=============================================================================
