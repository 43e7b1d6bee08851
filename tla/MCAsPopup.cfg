CONSTANTS
  None = None
  Peers <- MCPeers
  Systems = {"A", "B"}
  Nets = {"ipv4", "ipv6"}
  As <- MCAs
  Net <- MCNet
  Direction <- MCDirection
  MaxSegments = 1
  Kinds = {"net", "conntype", "nav"}
  Inputs = {"escape", "peer", "chip", "map", "private"}
  Snapshots <- MCSnapshots
  MaxTimers = 1
SPECIFICATION Spec
INVARIANTS ViewsAgree WayOut
PROPERTY FilterKeepsItsTooltip
