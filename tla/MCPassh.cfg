SPECIFICATION FairSpec
CONSTANTS
  Options <- MCOptions
  StdinIsTty = TRUE
  MaxStops = 1
  MaxChunks = 2
CHECK_DEADLOCK FALSE
INVARIANTS TypeOK AtMostTries AllPrinted
PROPERTY EndNoticedUnstopped
