CONSTANTS
  None = None
  Peers <- MCPeers
  Nets = {"onion", "i2p"}
  Net <- MCNet
  Types = {"stable"}
  Snapshots <- MCSnapshots
  MaxLate = 0
  Again = {}
SPECIFICATION Spec
INVARIANTS TypeOK PopupIsOfSelection LinesAreExplained
PROPERTIES LeavingIsFinal PanelIsOfSelection
