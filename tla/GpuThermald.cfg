SPECIFICATION FairSpec
CONSTANTS
  Temps <- FewTemps
  TempLimit = 10
  PowerMin = 1000
  PowerMax = 6000
  Presets <- TwoPresets
  PowerOptions <- UnsetOrTooMuch
  Unset = Unset
  Machines = {TRUE, FALSE}
  MaxFaults = 1
INVARIANTS
  TypeOK
  OutputInRange
  IntegralBounded
  GpuFollows
PROPERTIES
  ControlsForever
  HotGetsMinimum
  CoolGetsMaximum
CHECK_DEADLOCK FALSE
