SPECIFICATION Spec
CONSTANTS
  a = a
  b = b
  sb = sb
  sc = sc
  direct = direct
  grouped = grouped
  link1 = link1
  signal = signal
  g = g
  Users = {a, b}
  Groups = {g}
  Sockets = {sb, sc}
  Msgs = {direct, grouped, link1, signal}
  Kind <- MsgKind
  From <- FromA
  Dest <- ToB
  Ids <- DeviceIds
  Lists <- BothList
  MaxPending = 1
  Movers = {b}
  MaxSends <- DirectTwice
  MaxFrames = 2
  MaxRestarts = 1
  NoSocket = NoSocket
  NoUser = NoUser
INVARIANTS
  QueuedMeansAbsent
  EntriesLeadSomewhere
  OnceWhileRemembered
PROPERTIES
  FanoutComplete
