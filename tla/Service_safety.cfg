SPECIFICATION Spec
CONSTANTS
  Poll = Poll
  Postcode = Postcode
  Idle = Idle
  BackendThreads = {b1, b2}
  FrontendQueueLen = 5
  BackendQueueLen = 4
  Disabled <- Gpu
  PollCycle = 2
  MayHang <- AllMetrics
  MaxDisks = 2
  MaxFaults = 1
SYMMETRY ThreadSymmetry
INVARIANTS
  TypeOK
  OnePlace
  BitmapExact
  HddListFresh
  NoBlockedAdd
PROPERTIES
  RefreshSpec
CHECK_DEADLOCK FALSE
