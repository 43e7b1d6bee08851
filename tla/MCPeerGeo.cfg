\* Two public hosts, which are interchangeable, and a private one; the
\* database enabled.
CONSTANTS
  h1 = h1
  h2 = h2
  private = private
  Hosts = {h1, h2, private}
  PublicHosts = {h1, h2}
  GeoEnabled = TRUE
  Found = {"city"}
  MaxPeers = 1
SPECIFICATION Spec
SYMMETRY PublicHostsAreSymmetric
INVARIANTS
  TypeOK
  OnlyPublicHostsLeave
  PendingIsOutstanding
  SkippedIsRemembered
