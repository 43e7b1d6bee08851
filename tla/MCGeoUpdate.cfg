\* Two threads update at once, the button and a timer; any two hosts may be
\* published, the operator may remove geo.db, the process be killed twice.
CONSTANTS
  u1 = u1
  u2 = u2
  h1 = h1
  h2 = h2
  Updaters = {u1, u2}
  Hosts = {h1, h2}
  Datasets <- AllDatasets
  MayRemove = TRUE
  MaxCrashes = 2
SPECIFICATION FairSpec
INVARIANTS
  TypeOK
  LockIsHeldByUpdate
  StagingIsTidy
  UpToDateMeansNothingNew
PROPERTIES
  RowsAreKept
  UpdateEnds
