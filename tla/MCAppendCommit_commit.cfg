SPECIFICATION Spec
CONSTANTS
  MaxSlot = 6
  MaxVolatile = 3
  MaxCommits = 3
  MaxCached = 1
  Faults = {"index", "flush", "metadata"}
INVARIANT DurableIntact
INVARIANT SlotPartition
INVARIANT CacheCoherent
INVARIANT RootNewest
PROPERTY WorkingTreeKept
PROPERTY DamageNeedsTwoOwners
