\* Two threads report, a price request and the lookup thread, scheduled
\* fairly together with the monitor.
CONSTANTS
  c1 = c1
  c2 = c2
  Callers = {c1, c2}
SPECIFICATION FairSpec
INVARIANTS
  TypeOK
  RedIsWatched
PROPERTIES
  RecoversWhileWatched
