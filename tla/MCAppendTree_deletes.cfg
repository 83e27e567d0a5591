SPECIFICATION Spec
CONSTANTS
  Keys = {1, 2, 3}
  Size = 3
  MaxSlot = 7
  MaxCommits = 3
  Overcopied = 0
  Deletes = TRUE
INVARIANT NeverAnotherRecord
PROPERTY DeleteIsLocal
