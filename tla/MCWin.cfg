SPECIFICATION Spec
CONSTANTS
  Order <- MixOrder
  Edge <- MixEdge
  Kind <- MixKind
  Batch = {"cmd"}
  Fails = {"cmd"}
  Args <- MixArgs
  Line <- Lines
  EOF = 9
  MaxStops = 1
INVARIANTS TypeOK ClosedTogether GetsAll
PROPERTIES StopEnds FinishesOrHeldUp
CHECK_DEADLOCK FALSE
