SPECIFICATION Spec
CONSTANTS
  Conns = {c1, c2}
  Nonces = {n1, n2}
  Stamps = {0, 2, 4}
  Skew = 1
  Stall = 1
  Ttl <- TightTtl
  Limit = 2
  Window = 3
  Horizon = 7
  Never = Never
SYMMETRY Symmetry
INVARIANTS
  TypeOK
  HandledOnce
  RateExact
