CONSTANTS
  c1 = c1  c2 = c2  v1 = v1
  Callers <- MCCallers
  Owner <- c1
  Vendors <- MCVendors
  Worker = worker
  Nobody = nobody
SPECIFICATION NodeSpec
CHECK_DEADLOCK FALSE
INVARIANTS
  StoppedIsGone
  NothingOutlivesNode
PROPERTY ShutdownEnds
