SPECIFICATION FairSpec
CONSTANTS
  s1 = s1
  i1 = i1
  i2 = i2
  None = None
  Servers <- OneServer
  Inbounds <- TwoInbounds
  Contents <- UpAndDown
  Healthy <- Up
  StaleAfter = 0
  MaxTime = 1
  MaxQueued = 1
PROPERTY ImplementsRecords
INVARIANT StateIsNewest
PROPERTY NoSnapshotLost
PROPERTY SparedOnceSeen
PROPERTY CatalogueFollowsSnapshots
CHECK_DEADLOCK FALSE
PROPERTY ServersBecomeEligible
