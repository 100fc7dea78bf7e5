SPECIFICATION FairSpec
CONSTANTS
  Clients = {c1, c2}
  MaxBlocks = 2
INVARIANTS TypeOK LockIntegrity PressureNearTemperature UndisturbedAnswer
PROPERTIES EveryZombieReaped CloseStopsReader
\* The server stops, by its signals and by its errors.
CHECK_DEADLOCK FALSE
