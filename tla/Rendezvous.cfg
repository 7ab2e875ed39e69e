CONSTANTS
  Procs = {p1, p2, p3}
  Ghost = ghost
  None = None
  Empty = Empty
SPECIFICATION Spec
SYMMETRY Processes
INVARIANT TypeOK
INVARIANT OneOwner
INVARIANT ServingReachable
INVARIANT UninitLeavesNoDaemon
CHECK_DEADLOCK FALSE
