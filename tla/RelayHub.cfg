SPECIFICATION Spec
CONSTANTS
  a = a
  b = b
  ca = ca
  cb = cb
  m1 = m1
  m2 = m2
  NoUser = NoUser
  NoConn = NoConn
  NoMsg = NoMsg
  Ctl = Ctl
  Users = {a, b}
  Conns = {ca, cb}
  Msgs = {m1, m2}
  BufCap = 1
  Ids <- ExchangeIds
  Kind <- AllMessages
  From <- FromB
  Dest <- ToA
SYMMETRY Frames
INVARIANTS
  RegisteredOpen
  Confined
  SenderOrder
PROPERTIES
  NewestWins
  Mailbox
  LossNeedsCause
