SPECIFICATION Spec
CONSTANTS
  h1 = h1
  h2 = h2
  Workers = {w1, w2, w3}
  Hosts <- TwoHosts
  ConnectionsPerHost = 1
  Closers = {w1}
  RawUsers = {}
  OpenMayFail = TRUE
  MaxCalls = 2
SYMMETRY Symmetry
INVARIANTS
  ExclusiveLease
  HostLimit
  ReturnNeverBlocks
  NoPanic
  NoOrphanSocket
  ClosedMeansClosed
PROPERTY
  ImplementsLeasePool
CHECK_DEADLOCK FALSE
