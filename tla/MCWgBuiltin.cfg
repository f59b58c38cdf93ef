SPECIFICATION FairSpec
CONSTANTS
  Shells = {s1, s2}
  Names = {wg0, wg1}
INVARIANTS
  TypeOK
  OnlyARaceFails
  BareHasCause
PROPERTIES
  DevicesPrintsAll
  CommandsEnd
CHECK_DEADLOCK FALSE
