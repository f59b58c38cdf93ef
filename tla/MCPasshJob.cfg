SPECIFICATION Spec
CONSTANTS
  Options <- MCOptions
  StdinIsTty = TRUE
  MaxStops = 0
  MaxChunks = 1
CHECK_DEADLOCK FALSE
INVARIANT ChildHasExited
