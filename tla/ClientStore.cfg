SPECIFICATION Spec
CONSTANTS
  x = x
  y = y
  g = g
  came = came
  gone = gone
  said = said
  t1 = t1
  t2 = t2
  t3 = t3
  Contacts = {x, y}
  Groups = {g}
  Received = {came}
  Sent = {gone, said}
  In <- Where
  Expiring = {gone}
  Tasks = {t1, t2, t3}
  MaxStarts = 3
  MaxFailures = 1
  Me = Me
  NoWrite = NoWrite
SYMMETRY AnyTask
CHECK_DEADLOCK FALSE
INVARIANTS
  TypeOK
  ChangesLast
  RemovalHolds
