CONSTANTS
  MaxSequence = 9
  Procs = {p1, p2}
  InitialNamespaces <- OutdatedOnly
  SequenceBound = 2
  MaxRemovals = 0
SPECIFICATION FairSpec
PROPERTY CommandsEnd
