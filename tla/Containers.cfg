SPECIFICATION ContainersSpec
CONSTANTS
  Elem <- Numbers
  MaxLen = 3
  Nodes <- ThreeNodes
  Key <- TwoEqual
  NULL = NULL
INVARIANTS
  TailIsPastCount
  Linked
PROPERTIES
  FifoSpec
  ListSpec
