CONSTANTS
  Ops <- AllOps
  ActiveTransfers = {TRUE, FALSE}
  AcceptMayFail = FALSE
  ClientCloses = TRUE
SPECIFICATION Spec
INVARIANTS PoolSync NoStaleAnswer RangeStartsAtOffset
