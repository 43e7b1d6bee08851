----------------------------- MODULE MCPeerGeo -----------------------------
(* Instances of PeerGeo for TLC.                                           *)
EXTENDS PeerGeo, TLC

PublicHostsAreSymmetric == Permutations(PublicHosts)
=============================================================================
