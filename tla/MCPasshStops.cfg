SPECIFICATION FairSpec
CONSTANTS
  Options <- MCOptions
  StdinIsTty = TRUE
  MaxStops = 1
  MaxChunks = 0
CHECK_DEADLOCK FALSE
PROPERTY EndNoticed
