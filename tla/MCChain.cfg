SPECIFICATION Spec
CONSTANTS
  Node <- ChainNode
  Outputs <- ChainOutputs
  Kind <- ChainKind
  Table <- ChainTable
  Args <- ChainArgs
  Batch = {"sort"}
  Echo = {"src", "sort"}
  MayFail = {"src"}
  BadRegex = {}
  Line = {0, 1, 2, 3}
  EOF = 0
  Capacity = 2
  MaxEofs = 3
INVARIANTS
  TypeOK
  InOrder
  RunsOnEveryToken
PROPERTIES
  ImplementsFlow
