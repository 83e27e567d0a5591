SPECIFICATION Spec
CONSTANTS
  BlocksPerSection = 3
  Empty = Empty
  Broken = Broken
  Writers = {w1}
  Idle = Idle
  MaxSections = 2
  MaxBlocks = 1
  MaxWrites = 3
  PhaseTwoDeaths = TRUE
  Faults = {}
PROPERTY StoredByCommitOnly
