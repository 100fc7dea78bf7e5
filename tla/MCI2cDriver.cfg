SPECIFICATION FairSpec
CONSTANTS
  Procs = {p1}
  TxLen <- MCTxLen
  RxLen <- MCRxLen
  BufLen = 3
  MaxCuts = 2
  MaxFaults = 1
INVARIANTS TypeOK MeasurementIsWhole HandlerOwnsBuffers IndexBound
PROPERTY WaitEnds
\* A transfer that is never reported leaves its reader asleep.
CHECK_DEADLOCK FALSE
