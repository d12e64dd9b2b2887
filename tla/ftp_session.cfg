SPECIFICATION SessionSpec
CONSTANTS
  h1 = h1
  Hosts <- OneHost
  ConnectionsPerHost = 2
  Workers <- Goroutines
  Closers = {0}
  RawUsers = {}
  OpenMayFail = TRUE
  MaxCalls = 5
  MaxParallels = 3
  Methods = {"download", "upload"}
  Pieces = 3
INVARIANTS
  NeverWaits
  ClosedWhenUnused
  EndedLeavesNothing
PROPERTIES
  SessionEnds
CHECK_DEADLOCK FALSE
