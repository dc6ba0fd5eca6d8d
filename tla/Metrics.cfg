SPECIFICATION Spec
CONSTANTS
  NULL = NULL
  NoCore = NoCore
  TableSize = 8
  Bunch = 2
  MaxFaults = 2
  Machines <- AllMachines
INVARIANTS
  TablesHold
  LookupExact
  GpuReaderReady
  ShownIsMeasured
PROPERTY OneItemAtATime
CHECK_DEADLOCK FALSE
