CONSTANTS
  None = None
  Peers <- OnePeer
  Nets = {"onion"}
  Net <- OneNet
  Types = {"stable"}
  Snapshots <- OneThere
  MaxLate = 1
  Again = {"panel"}
SPECIFICATION Spec
INVARIANT NothingStays
