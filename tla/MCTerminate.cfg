SPECIFICATION Spec
CONSTANTS
  Graph = {1, 2}
  Nodes <- WindowNodes
  First = 1
  MaxRuns = 1
PROPERTIES
  TerminateHits
