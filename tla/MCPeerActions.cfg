\* An IPv4 and an onion peer, one dialog or client at a time, and two polls
\* that may overtake each other, scheduled fairly.
CONSTANTS
  ip = ip
  onion = onion
  d1 = d1
  p1 = p1
  p2 = p2
  Hosts = {ip, onion}
  IpHosts = {ip}
  Dialogs = {d1}
  Polls = {p1, p2}
  MaxPeers = 2
SPECIFICATION FairSpec
INVARIANTS
  TypeOK
  BanHitsItsPeer
  SuccessIsTrue
PROPERTIES
  NoDisconnectAfterFailure
  GoneForGood
