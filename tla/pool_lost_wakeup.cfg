SPECIFICATION Spec
CONSTANTS
  h1 = h1
  h2 = h2
  Workers = {w1, w2}
  Hosts <- OneHost
  ConnectionsPerHost = 1
  Closers = {}
  RawUsers = {}
  OpenMayFail = TRUE
  MaxCalls = 1
INVARIANTS
  NoStrandedWaiter
CHECK_DEADLOCK FALSE
