SPECIFICATION FairSpec
CONSTANTS
  Producers = {prod}
  Consumers = {c1, c2}
  MaxRunning = 2
  MaxSegs = 2
  MaxRetries = 1
  MaxSets = 2
  SembufFlags <- UndoOnly
INVARIANTS TypeOK SegmentHasAnOwner HoldsLockOnlyAroundShm
PROPERTIES SemSpec CloseEndsConsumer
