\* Two public hosts, both threads scheduled fairly, the database disabled.
CONSTANTS
  h1 = h1
  h2 = h2
  Hosts = {h1, h2}
  PublicHosts = {h1, h2}
  GeoEnabled = FALSE
  Found = {"city"}
  MaxPeers = 1
SPECIFICATION FairSpec
PROPERTIES
  EveryPeerIsResolved
  DeferredLookupsDrain
  Implements
