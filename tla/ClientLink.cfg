SPECIFICATION Spec
CONSTANTS
  p = p
  q = q
  Peers = {p, q}
  MaxSockets = 2
  MaxConns = 2
  MaxAwaits = 1
  NoPeer = NoPeer
SYMMETRY AnyPeer
INVARIANTS
  TypeOK
  HealthTracks
  NotStranded
