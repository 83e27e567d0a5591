SPECIFICATION Spec
CONSTANTS
  Messages = {m1, m2, m3}
  Poison = {m3}
  MaxFailures = 2
CHECK_DEADLOCK FALSE
INVARIANT NothingLost
INVARIANT DuplicatesBounded
INVARIANT SentInOrder
PROPERTY StoredUnlessBehindPoison
