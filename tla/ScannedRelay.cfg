SPECIFICATION Spec
CONSTANTS
  a = a
  b = b
  b1 = b1
  b2 = b2
  x = x
  y = y
  direct = direct
  grouped = grouped
  signal = signal
  Users = {a, b}
  Groups = {g}
  Conns = {b1, b2}
  Addresses = {x, y}
  IP <- Address
  Ids <- DeviceIds
  Msgs = {direct, grouped, signal}
  Kind <- MsgKind
  From <- FromA
  Dest <- ToB
  MemberLists <- Lists
  Condemned = {y}
  MaxSends <- DirectTwice
  MaxEvents = 2
  NoConn = NoConn
  NoUser = NoUser
CHECK_DEADLOCK FALSE
INVARIANTS
  MessagesOnce
  EntriesLead
  VerdictHolds
