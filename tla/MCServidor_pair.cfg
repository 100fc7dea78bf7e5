SPECIFICATION FairSpec
CONSTANTS
  Clients = {c1, c2}
  MaxBlocks = 2
INVARIANT AnswerIsAPair
CHECK_DEADLOCK FALSE
