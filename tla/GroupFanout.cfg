SPECIFICATION Spec
CONSTANTS
  a = a
  b = b
  c = c
  Users = {a, b, c}
  Movers = {b, c}
  Messages = {m}
  From <- FromA
  Lists <- Created
  Slack = 1
  Blank = Blank
  Nobody = Nobody
INVARIANTS
  TypeOK
  ListAgrees
  OnlyMembers
  CompleteUnlessDisturbed
