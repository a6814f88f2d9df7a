SPECIFICATION Spec
CONSTANTS
  Node <- FaultsNode
  Outputs <- FaultsOutputs
  Kind <- FaultsKind
  Table <- FaultsTable
  Args <- FaultsArgs
  Batch = {"src", "batch"}
  Echo = {"src"}
  MayFail = {"src", "batch"}
  BadRegex = {"filter"}
  Line = {0, 1, 2}
  EOF = 0
  Capacity = 2
  MaxEofs = 5
INVARIANTS
  
  NothingAfterEof
  RunsOncePerToken

  
CHECK_DEADLOCK FALSE
