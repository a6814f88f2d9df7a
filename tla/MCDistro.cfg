SPECIFICATION Spec
CONSTANTS
  Node <- DistroNode
  Outputs <- DistroOutputs
  Kind <- DistroKind
  Table <- DistroTable
  Args <- DistroArgs
  Batch = {}
  Echo = {"w2", "join"}
  MayFail = {}
  BadRegex = {}
  Line = {0, 1, 2}
  EOF = 0
  Capacity = 1
  MaxEofs = 4
INVARIANTS
  ClosesAfterEveryEof
  KilledAtTheEnd
PROPERTIES
  FollowsFlow
  ExitUnlessKilled
CHECK_DEADLOCK FALSE
