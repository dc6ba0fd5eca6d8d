SPECIFICATION Spec
CONSTANTS
  NULL = NULL
  NoCore = NoCore
  TableSize = 8
  Bunch = 2
  MaxFaults = 2
  Machines <- DirtyMachine
INVARIANT FirstThreadSetsFrequency
CHECK_DEADLOCK FALSE
