SPECIFICATION FairSpec
CONSTANTS
  Poll = Poll
  Postcode = Postcode
  Idle = Idle
  BackendThreads = {b1, b2}
  FrontendQueueLen = 4
  BackendQueueLen = 3
  Disabled <- Cpu
  PollCycle = 2
  MayHang <- Gpu
  MaxDisks = 1
  MaxFaults = 2
PROPERTIES
  EachPublishedForever
  EachShown
  PostcodeShown
  HangStopsDaemon
CHECK_DEADLOCK FALSE
