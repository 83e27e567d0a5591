SPECIFICATION Spec
CONSTANTS
  MaxSlot = 7
  MaxWrite = 3
INVARIANT StructuresAgree
INVARIANT BlocksMaximal
INVARIANT NeverThrows
PROPERTY ImplementsAllocator
PROPERTY SlotForEachNode
