CONSTANTS
  Procs = {p1, p2}
  Dirs = {d1, d2}
  Locks = {l1, l2}
  None = None
  MaxAttempts = 1
  MaxIntrusions = 2
SPECIFICATION FairSpec
INVARIANT TypeOK
INVARIANT ValidLeaseExcludesOthers
INVARIANT UndisturbedExclusion
INVARIANT TakeoverFindsMissing
PROPERTY AcquisitionReturns
CONSTRAINT IdentitiesInOrder
