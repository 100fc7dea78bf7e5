SPECIFICATION FairSpec
CONSTANTS
  Clients = {c1, c2}
  MaxBlocks = 2
PROPERTY CloseStopsServer
CHECK_DEADLOCK FALSE
