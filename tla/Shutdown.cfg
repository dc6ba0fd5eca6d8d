SPECIFICATION FairSpec
CONSTANTS
  FrontendThread = f
  b1 = b1
  b2 = b2
  BackendThreads <- TwoThreads
  Runner = w
  Main = main
  Handler = handler
  None = None
  MaxAlarms = 1
  MaxBackendJobs = 1
INVARIANTS
  FreedIsUnused
PROPERTIES
  CleanupEnds
  HandlerEnds
CHECK_DEADLOCK FALSE
