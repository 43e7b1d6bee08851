----------------------------- MODULE MCAsPanel -----------------------------
(* Two peers of two systems, in one network or two, one inbound and one    *)
(* outbound, for TLC.                                                      *)
EXTENDS AsPanel

MCPeers     == 0..1
MCAs        == [p \in MCPeers |-> IF p = 1 THEN "B" ELSE "A"]
MCNet       == [p \in MCPeers |-> IF p = 1 THEN "ipv6" ELSE "ipv4"]
MCOneNet    == [p \in MCPeers |-> "ipv4"]
MCDirection == [p \in MCPeers |-> IF p = 1 THEN "IN" ELSE "OUT"]
MCSnapshots == {{}, {1}, MCPeers}
=============================================================================
