SPECIFICATION Spec
CONSTANTS
  Graph = {1, 2}
  Nodes <- WindowNodes
  First = 1
  MaxRuns = 2
INVARIANTS
  TypeOK
  WindowAgrees
  OutlivesThread
PROPERTIES
  OneExecution
  ButtonReturns
  TerminateReturns
