SPECIFICATION Spec
CONSTANTS
  Dir <- MCDir
  File <- MCFile
  Present <- MCPresent
  Inputs <- MCInputs
  Self = "."
  Debounce = 2
  Limit = 3
  MaxTime = 2
  MaxChanges = 3
  MaxQueue = 3
INVARIANTS WatchesInputs
CHECK_DEADLOCK FALSE
