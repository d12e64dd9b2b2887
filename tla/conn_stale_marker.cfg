CONSTANTS
  Ops <- AllOps
  ActiveTransfers = {FALSE}
  AcceptMayFail = FALSE
  ClientCloses = FALSE
SPECIFICATION Spec
INVARIANT StartsAtOffset
