\* Both peers in one network, so that a category can gain and lose peers.
CONSTANTS
  None = None
  Peers <- MCPeers
  Systems = {"A", "B"}
  Nets = {"ipv4", "ipv6"}
  As <- MCAs
  Net <- MCOneNet
  Direction <- MCDirection
  MaxSegments = 1
  Kinds = {"cat", "conntype", "provider", "nav", "conn-provider", "conn-out", "conn-others", "all-providers", "insight-fastest", "insight-stable"}
  Inputs = {"title", "escape", "donut", "map", "panel"}
  Snapshots <- MCSnapshots
  MaxTimers = 0
SPECIFICATION Spec
INVARIANTS TypeOK ViewsAgree PollSettles WayOut
