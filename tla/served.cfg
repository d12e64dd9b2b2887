SPECIFICATION Spec
CONSTANTS
  c1 = c1
  c2 = c2
  c3 = c3
  o1 = o1
  Handlers = {c1, c2, c3, o1}
  Others = {o1}
  MaxConnections = 2
  FileLength = 4
  Directions = {"download", "upload"}
INVARIANTS
  CountsClients
  WithinLimit
  DestIsPrefix
  RetrieveIsComplete
  StoredInPlace
  StoreIsComplete
PROPERTY TransferEnds
