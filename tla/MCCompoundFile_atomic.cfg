SPECIFICATION Spec
CONSTANTS
  BlocksPerSection = 3
  Empty = Empty
  Broken = Broken
  Writers = {w1, w2}
  Idle = Idle
  MaxSections = 2
  MaxBlocks = 1
  MaxWrites = 3
  PhaseTwoDeaths = FALSE
  Faults = {"data"}
INVARIANT RecoverableReserved
PROPERTY ImplementsAtomicFile
