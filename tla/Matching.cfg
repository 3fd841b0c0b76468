SPECIFICATION Spec
CONSTANTS
  Users = {a, b}
  Sessions = {i}
  MaxSockets = 3
  MaxUnderWay = 1
  NoSocket = NoSocket
  NoSession = NoSession
SYMMETRY Symmetry
INVARIANTS
  TypeOK
  MapsAgree
  ConnectedByBoth
PROPERTY EndsAreTold
