SPECIFICATION Spec
CONSTANTS
  Order <- JoinOrder
  Edge <- JoinEdge
  Kind <- JoinKind
  Batch = {}
  Fails = {}
  Args <- TwoArgs
  Line <- Lines
  EOF = 9
  MaxStops = 0
PROPERTY Finishes
CHECK_DEADLOCK FALSE
