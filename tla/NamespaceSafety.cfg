CONSTANTS
  MaxSequence = 9
  Procs = {p1, p2}
  InitialNamespaces <- AllNamespaces
  SequenceBound = 3
  MaxRemovals = 1
SPECIFICATION Spec
SYMMETRY Processes
INVARIANT TypeOK
INVARIANT CurrentIsComplete
INVARIANT ReaderSeesFinishedIndex
INVARIANT AlwaysRepairable
PROPERTY TombstoneOutlivesRebuild
PROPERTY OnlyInitRevives
PROPERTY SuccessIsReal
