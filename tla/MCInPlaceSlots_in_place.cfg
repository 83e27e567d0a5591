SPECIFICATION Spec
CONSTANTS
  MaxSlots = 5
  MaxCreated = 1
  MaxTransactions = 3
  MaxAfter = 1
  MaxOpens = 2
INVARIANT OneOwner
INVARIANT RollBackRestores
INVARIANT StoredIntact
