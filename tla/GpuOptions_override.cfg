SPECIFICATION Spec
CONSTANTS
  MaxArgs = 1
  MaxLines = 2
INVARIANTS
  CommandLineOverrides
CHECK_DEADLOCK FALSE
