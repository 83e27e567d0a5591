SPECIFICATION Spec
CONSTANTS
  Keys = {1, 2, 3, 4, 5}
  Size = 3
  MaxSlot = 6
  MaxCommits = 3
  Overcopied = 1
  Deletes = FALSE
INVARIANT SearchTree
INVARIANT LinksAgree
PROPERTY ImplementsKeyStore
