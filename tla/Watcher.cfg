CONSTANTS
  p1 = p1
  p2 = p2
  Paths = {p1, p2}
  Tree = Tree
  Control = Control
  SCOPED_SYNC_MAX_PENDING = 1
  MAX_CONSECUTIVE_SYNC_ERRORS = 2
  MaxChanges = 2
  MaxEdits = 2
SPECIFICATION FairSpec
INVARIANT TypeOK
INVARIANT NoForgottenChange
INVARIANT RecoveryScheduled
PROPERTY ChangeIndexed
PROPERTY StopEnds
CHECK_DEADLOCK FALSE
