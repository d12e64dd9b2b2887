SPECIFICATION Spec
CONSTANTS
  h1 = h1
  h2 = h2
  Workers = {w1, w2, w3}
  Hosts <- SameHostTwice
  ConnectionsPerHost = 2
  Closers = {w1}
  RawUsers = {w2}
  OpenMayFail = TRUE
  MaxCalls = 2
SYMMETRY Symmetry
INVARIANTS
  TypeOK
  CountExact
CHECK_DEADLOCK FALSE
