------------------------------ MODULE MCStack ------------------------------
(* The userspace IP stack with a UDP socket, its port table, the WireGuard *)
(* device below it and the statistics of both.  One of them is chosen and  *)
(* moves; the others stay as they started, so that the state space is the  *)
(* sum of theirs.                                                          *)
EXTENDS Netstack, NetPorts, WgTunnel, Observer

VARIABLE moves

Init ==
  /\ moves \in {"sockets", "ports", "device", "observer"}
  /\ NInit /\ PInit /\ TInit /\ OInit

Next ==
  /\ UNCHANGED moves
  /\ \/ moves = "sockets" /\ NNext /\ UNCHANGED <<portVars, wgVars, obsVars>>
     \/ moves = "ports" /\ PNext /\ UNCHANGED <<netVars, wgVars, obsVars>>
     \/ moves = "device" /\ TNext /\ UNCHANGED <<netVars, portVars, obsVars>>
     \/ moves = "observer" /\ ONext /\ UNCHANGED <<netVars, portVars, wgVars>>

Spec ==
  /\ Init /\ [][Next]_<<moves, netVars, portVars, wgVars, obsVars>>
  /\ moves = "sockets" => NFairness
  /\ moves = "device" => TFairness
=============================================================================
