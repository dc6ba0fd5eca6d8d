SPECIFICATION FairSpec
CONSTANTS
  Temps <- FewTemps
  TempLimit = 10
  PowerMin = 1000
  PowerMax = 6000
  Presets <- TwoPresets
  PowerOptions <- UnsetOrTooMuch
  Unset = Unset
  Machines = {TRUE}
  MaxFaults = 0
PROPERTIES
  AlwaysControlsForever
CHECK_DEADLOCK FALSE
