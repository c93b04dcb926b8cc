----------------------------- MODULE MCGossip -----------------------------
(* Two instances that are peers.  Both look for one path and find it at    *)
(* different latencies; only a looks for the other.                        *)
EXTENDS Gossip

CONSTANTS a, b,         \* the instances
          path1, path2  \* the paths

MCPeers == [n \in Nodes |-> Nodes \ {n}]
MCLatencies == [n \in Nodes |->
    [p \in Paths |-> IF p = path1 THEN IF n = a THEN {1, 2} ELSE {1}
                     ELSE IF n = a THEN {1} ELSE {}]]
===========================================================================
