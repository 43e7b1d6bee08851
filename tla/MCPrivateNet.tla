---------------------------- MODULE MCPrivateNet ----------------------------
(* Two peers of one network for TLC, of which the one with the id 1 comes  *)
(* and goes; the other one's id is 0.  The second network has no peers.    *)
EXTENDS PrivateNet

MCPeers     == 0..1
MCNet       == [p \in MCPeers |-> "onion"]
MCSnapshots == {{0}, {0, 1}}

\* For the run that is to find one trace: the peer with the id 1 alone.
OnePeer  == {1}
OneNet   == [p \in OnePeer |-> "onion"]
OneThere == {OnePeer}
=============================================================================
