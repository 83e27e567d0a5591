SPECIFICATION PartsSpec
CONSTANTS
  KeySize = 16
  Keys <- MCKeys
  Ticks <- MCTicks
  Payloads <- MCPayloads
  MaxPointer = 70
  Serializers = {"Int", "String"}
  Size = 3
  NodeCount = 2
  LogKeys = {k1, k2, k3}
  Hole = Hole
  MaxRecords = 4
  MaxCrashes = 2
  Batch = 50
  TreeKeys = {1, 2, 3, 4, 5}
  TreeValues = {0, 1}
  Indexes = {a, b}
  Weights = {1, 2, 3}
  MaxCount = 6
CHECK_DEADLOCK FALSE
INVARIANT PartsTypeOK
INVARIANT PayloadsReadBack
INVARIANT NodesReadBack
INVARIANT OwnRecordsReadable
INVARIANT OneLossPerCrash
INVARIANT EnumerationsMatch
INVARIANT NearlyBalanced
PROPERTY LogOnlyGrows
PROPERTY ImplementsSortedMap
PROPERTY ImplementsPriorityQueue
