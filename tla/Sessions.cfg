CONSTANTS
  c1 = c1
  c2 = c2
  Conns = {c1, c2}
  NoConn = NoConn
  Says <- ClientAndController
  ForceClose = TRUE
SPECIFICATION FairSpec
INVARIANT TypeOK
INVARIANT DrainedIsQuiet
PROPERTY LiveClientKept
PROPERTY ControlAnswered
PROPERTY DeadClientsReaped
CHECK_DEADLOCK FALSE
