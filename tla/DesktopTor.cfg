SPECIFICATION FairSpec
CONSTANTS
  MaxCalls = 3
  MaxRestarts = 1
  System = System
CHECK_DEADLOCK FALSE
INVARIANTS
  ShownIsSo
  StopFindsTor
PROPERTIES
  CallsReturn
