CONSTANTS
  MaxSequence = 4
  Readers = {}
  InitialSlots <- AnyPairs
  ParentSync = {"synced", "unsupported", "error"}
  OrderedDirectory = TRUE
SPECIFICATION Spec
INVARIANT TypeOK
PROPERTY NeverCorrupted
PROPERTY ImplementsRegister
