SPECIFICATION Spec
CONSTANTS
  MaxSlot = 6
  MaxVolatile = 3
  MaxCommits = 3
  MaxCached = 1
  Faults = {"metadata"}
INVARIANT CommittedTreeOnFile
