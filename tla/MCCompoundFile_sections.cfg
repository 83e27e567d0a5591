SPECIFICATION Spec
CONSTANTS
  BlocksPerSection = 4
  Empty = Empty
  Broken = Broken
  Writers = {w1, w2}
  Idle = Idle
  MaxSections = 1
  MaxBlocks = 2
  MaxWrites = 2
  PhaseTwoDeaths = FALSE
  Faults = {"first", "second", "data"}
INVARIANT BlocksPartitioned
INVARIANT SearchesMissNothing
