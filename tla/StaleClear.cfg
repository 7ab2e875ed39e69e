CONSTANTS
  Procs = {p1, p2}
  Ghost = ghost
  None = None
  Empty = Empty
SPECIFICATION Spec
SYMMETRY Processes
PROPERTY StaleClearSparesTheLiving
CHECK_DEADLOCK FALSE
