----------------------------- MODULE SortedMap -----------------------------
(***************************************************************************)
(* What IBinarySearchTree<TKey, TValue> (File_System_ES/Tree) promises its *)
(* user: a map from keys to values.                                        *)
(***************************************************************************)
EXTENDS Naturals, Functions

CONSTANTS
  Keys,      \* keys used
  Values     \* values stored, numbers

VARIABLES
  map,       \* the pairs in the map
  reply      \* removed and value of the last TryRemove, <<>> after another call

vars == <<map, reply>>

\* What the updateValueFactory of a caller makes of a value.
Update(value) == CHOOSE next \in Values : next # value

Without(m, key) == Restrict(m, DOMAIN m \ {key})
With(m, key, value) == [k \in DOMAIN m \cup {key} |-> IF k = key THEN value ELSE m[k]]

Init == map = [k \in {} |-> 0] /\ reply = <<>>

Add(key, value) ==
  /\ map' = With(map, key, value)
  /\ reply' = <<>>

AddOrUpdate(key, value) ==
  /\ map' = With(map, key, IF key \in DOMAIN map THEN Update(map[key]) ELSE value)
  /\ reply' = <<>>

TryRemove(key) ==
  /\ map' = Without(map, key)
  /\ reply' = IF key \in DOMAIN map THEN <<TRUE, map[key]>> ELSE <<FALSE>>

Next ==
  \E key \in Keys :
    \/ \E value \in Values : Add(key, value) \/ AddOrUpdate(key, value)
    \/ TryRemove(key)

Spec == Init /\ [][Next]_vars
=============================================================================
