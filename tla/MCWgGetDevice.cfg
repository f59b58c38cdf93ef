SPECIFICATION FairSpec
CONSTANTS
  k1 = k1  k2 = k2  k3 = k3
  i1 = i1  i2 = i2  i3 = i3  i4 = i4
  Tables <- MCTables
  MaxIps = 3
  MaxAhead = 2
  MaxDisturbances = 2
INVARIANTS
  TypeOK
  ReadsOneInstant
  CrashNeedsShort
PROPERTIES
  ImplementsRead
  ReturnsIfUndisturbed
CHECK_DEADLOCK FALSE
