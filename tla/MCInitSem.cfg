SPECIFICATION FairSpec
CONSTANTS
  Procs = {p1, p2, p3}
  MaxRetries = 1
  MaxSets = 2
  SembufFlags <- SomeGarbage
  Removers = {p1}
  Signalled = {p1}
  Killable = {p1, p2}
  Operator = TRUE
INVARIANTS TypeOK MutualExclusion InitialisedBeforeUse NoLostToken
PROPERTIES LockSpec NobodyWaitsForever
