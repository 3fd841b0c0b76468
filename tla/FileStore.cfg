SPECIFICATION FairSpec
CONSTANTS
  twice = twice
  once = once
  Files = {twice, once}
  Requests = {r1, r2, r3, r4}
  MaxOf <- Limits
  MaxFilesInMemory = 1
  NoFile = NoFile
INVARIANTS
  LimitUnlessRaced
  AvailableUntilUsed
PROPERTIES
  ExpiredGoes
