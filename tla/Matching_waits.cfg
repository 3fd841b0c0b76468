SPECIFICATION Spec
CONSTANTS
  Users = {a, b}
  Sessions = {i}
  MaxSockets = 2
  MaxUnderWay = 1
  NoSocket = NoSocket
  NoSession = NoSession
INVARIANT WaitsAfterAccepting
