SPECIFICATION Spec
CONSTANTS
  MaxArgs = 2
  MaxLines = 2
INVARIANTS
  PrecedenceKept
  AbortsExactly
CHECK_DEADLOCK FALSE
