SPECIFICATION FairSpec
CONSTANTS
  j1 = j1
  j2 = j2
  j3 = j3
  None = None
  Jobs = {j1, j2, j3}
  Delay = 2
  MaxLate = 1
  Machines = {TRUE, FALSE}
INVARIANTS
  EarliestFirst
  NodesHeldOnce
  NoTaskOverstays
  AlarmIsReal
PROPERTIES
  HungJobIsCaught
