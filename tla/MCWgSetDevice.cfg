SPECIFICATION HistoryFairSpec
CONSTANTS
  Callers = {c1, c2}
  k1 = k1  k2 = k2
  i1 = i1  i2 = i2  i3 = i3
  Keys = {k1, k2}
  Ips = {i1, i2, i3}
  NoPeer = NoPeer
  None = None
  Requests <- MCRequests
INVARIANTS
  TypeOK
  StreamInOrder
  SuccessComplete
  BareOnlyIfMixed
PROPERTIES
  SuccessExact
  ImplementsConfigure
  CallReturns
CHECK_DEADLOCK FALSE
