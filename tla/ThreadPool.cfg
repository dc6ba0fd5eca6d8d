SPECIFICATION FairSpec
CONSTANTS
  c1 = c1
  Workers = {w1, w2}
  Clients = {c1, c2}
  JobsPerClient = 3
  QueueSize = 2
  Unguarded <- FirstOfC1
  MaxSpurious = 1
  None = None
INVARIANTS
  NobodyOversleeps
  CalledOnce
  DeadlinesExact
PROPERTIES
  PoolSpec
