SPECIFICATION FairSpec
CONSTANTS
  a = a
  b = b
  ca = ca
  cb = cb
  m1 = m1
  m2 = m2
  NoUser = NoUser
  NoConn = NoConn
  NoMsg = NoMsg
  Ctl = Ctl
  Users = {a, b}
  Conns = {ca, cb}
  Msgs = {m1, m2}
  BufCap = 1
  Ids <- PairIds
  Kind <- AllContacts
  From <- FromA
  Dest <- ToB
INVARIANTS
  NoDuplicate
PROPERTIES
  Mailbox
  HandlerReturns
  TransitEnds
