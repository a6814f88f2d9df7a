SPECIFICATION Spec
CONSTANTS
  Node <- DropNode
  Outputs <- DropOutputs
  Kind <- DropKind
  Table <- DropTable
  Args <- DropArgs
  Batch = {}
  Echo = {"cmd"}
  MayFail = {}
  BadRegex = {}
  Line = {0, 1, 2}
  EOF = 0
  Capacity = 2
  MaxEofs = 3
INVARIANTS
  RunsOnEveryToken
