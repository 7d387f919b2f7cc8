------------------------------ MODULE MCTunnel ------------------------------
(***************************************************************************)
(* Bounds for Tunnel: how much is sent each way.                            *)
(***************************************************************************)
EXTENDS Tunnel

OneEach == [d \in Dirs |-> 1]
TwoUp == [OneEach EXCEPT !["up"] = 2]
TwoDown == [OneEach EXCEPT !["down"] = 2]
=============================================================================
