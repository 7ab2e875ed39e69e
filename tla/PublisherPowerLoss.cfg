CONSTANTS
  MaxSequence = 3
  Readers = {r1}
  InitialSlots <- PublishedPairs
  ParentSync = {"synced", "unsupported", "error"}
  OrderedDirectory = FALSE
SPECIFICATION Spec
INVARIANT PowerLossKeepsAuthority
INVARIANT PublishedIsAuthoritative
INVARIANT LeasedClassificationExact
