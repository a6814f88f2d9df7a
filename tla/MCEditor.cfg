SPECIFICATION EditorSpec
CONSTANTS
  Plain = {a, b}
  Concat = {c}
  ConcatPorts = 2
  Id <- PlainOrConcat
  QNode = {q1, q2, q3, q4}
  NoNode = NoNode
  Ports <- PortsOf
  MaxParallel = 2
  MaxSaved = 2
SYMMETRY Symmetry
INVARIANTS
  EditorTypeOK
  Agreement
  RootFlag
  Acyclic
  NothingHidden
PROPERTIES
  RefusalChangesNothing
  ImportKeepsGraph
  StaysFaithful
  BreaksOnlyMisled
CHECK_DEADLOCK FALSE
