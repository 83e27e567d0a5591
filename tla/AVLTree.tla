------------------------------ MODULE AVLTree ------------------------------
(***************************************************************************)
(* The immutable search tree of File_System_ES/Tree: AVLTree and           *)
(* EmptyAVLTree, with the stack its enumerations use.  A tree is a record; *)
(* every operation makes a new one.  deepCopyKey and deepCopyValue, which  *)
(* copy, and the comparer, which orders numbers, are left out, as is       *)
(* LocateNearest, which asks a predicate of the caller.                    *)
(***************************************************************************)
EXTENDS Integers, Sequences, FiniteSetsExt, SequencesExt

CONSTANTS
  Keys,      \* keys used, numbers
  Values     \* values stored, at least two

VARIABLES
  tree,      \* the newest tree
  reply      \* removed and value of the last TryRemove, <<>> after another call

vars == <<tree, reply>>

Empty == [height |-> 0, count |-> 0]
IsEmpty(t) == t.height = 0

\* Mutant of Node: Count leaves out the right subtree.
Node_Uncounted(key, value, left, right) ==
  [key |-> key, value |-> value, left |-> left, right |-> right,
   height |-> 1 + Max({left.height, right.height}),
   count |-> 1 + left.count]

\* The constructor of AVLTree.
Node(key, value, left, right) ==
  [key |-> key, value |-> value, left |-> left, right |-> right,
   height |-> 1 + Max({left.height, right.height}),
   count |-> 1 + left.count + right.count]

\* What the updateValueFactory of a caller makes of a value.
Update(value) == CHOOSE next \in Values : next # value

-----------------------------------------------------------------------------
\* Balancing

Balance(t) == IF IsEmpty(t) THEN 0 ELSE t.right.height - t.left.height
IsRightHeavy(t) == Balance(t) >= 2
IsLeftHeavy(t) == Balance(t) <= -2

RotateLeft(t) ==
  IF IsEmpty(t.right) THEN t
  ELSE Node(t.right.key, t.right.value,
            Node(t.key, t.value, t.left, t.right.left), t.right.right)

RotateRight(t) ==
  IF IsEmpty(t.left) THEN t
  ELSE Node(t.left.key, t.left.value, t.left.left,
            Node(t.key, t.value, t.left.right, t.right))

DoubleLeft(t) ==
  IF IsEmpty(t.right) THEN t ELSE RotateLeft(Node(t.key, t.value, t.left, RotateRight(t.right)))

DoubleRight(t) ==
  IF IsEmpty(t.left) THEN t ELSE RotateRight(Node(t.key, t.value, RotateLeft(t.left), t.right))

\* Mutant of MakeBalanced: single rotations only.
MakeBalanced_Singly(t) ==
  IF IsRightHeavy(t) THEN RotateLeft(t) ELSE IF IsLeftHeavy(t) THEN RotateRight(t) ELSE t

MakeBalanced(t) ==
  IF IsRightHeavy(t) THEN (IF IsLeftHeavy(t.right) THEN DoubleLeft(t) ELSE RotateLeft(t))
  ELSE IF IsLeftHeavy(t) THEN (IF IsRightHeavy(t.left) THEN DoubleRight(t) ELSE RotateRight(t))
  ELSE t

-----------------------------------------------------------------------------
\* Operations on trees

RECURSIVE Search(_, _)
Search(t, key) ==
  IF IsEmpty(t) \/ key = t.key THEN t
  ELSE Search(IF key > t.key THEN t.right ELSE t.left, key)

\* A key that is there keeps its node, which is not balanced again.
RECURSIVE Added(_, _, _)
Added(t, key, value) ==
  IF IsEmpty(t) THEN Node(key, value, Empty, Empty)
  ELSE IF key = t.key THEN Node(key, value, t.left, t.right)
  ELSE IF key > t.key THEN MakeBalanced(Node(t.key, t.value, t.left, Added(t.right, key, value)))
  ELSE MakeBalanced(Node(t.key, t.value, Added(t.left, key, value), t.right))

RECURSIVE AddedOrUpdated(_, _, _)
AddedOrUpdated(t, key, value) ==
  IF IsEmpty(t) THEN Node(key, value, Empty, Empty)
  ELSE MakeBalanced(
         IF key > t.key THEN Node(t.key, t.value, t.left, AddedOrUpdated(t.right, key, value))
         ELSE IF key < t.key THEN Node(t.key, t.value, AddedOrUpdated(t.left, key, value), t.right)
         ELSE Node(key, Update(t.value), t.left, t.right))

\* Mutant of Successor: the rightmost node.
RECURSIVE Last_Right(_)
Last_Right(t) == IF IsEmpty(t.right) THEN t ELSE Last_Right(t.right)

\* The leftmost node below a right child, which takes the place of a removed key.
RECURSIVE Successor(_)
Successor(t) == IF IsEmpty(t.left) THEN t ELSE Successor(t.left)

RECURSIVE Removed(_, _)
Removed(t, key) ==
  IF IsEmpty(t) THEN t
  ELSE MakeBalanced(
         IF key < t.key THEN Node(t.key, t.value, Removed(t.left, key), t.right)
         ELSE IF key > t.key THEN Node(t.key, t.value, t.left, Removed(t.right, key))
         ELSE IF IsEmpty(t.right) THEN t.left
         ELSE IF IsEmpty(t.left) THEN t.right
         ELSE LET successor == Successor(t.right) IN
              Node(successor.key, successor.value, t.left, Removed(t.right, successor.key)))

-----------------------------------------------------------------------------
\* Enumerations

\* EnumerateInOrder: go left with the nodes passed on the stack, yield the top
\* of the stack, go on to the right of it.
RECURSIVE In_Order(_, _)
In_Order(current, stack) ==
  IF ~ IsEmpty(current) THEN In_Order(current.left, <<current>> \o stack)
  ELSE IF stack = <<>> THEN <<>>
  ELSE <<Head(stack)>> \o In_Order(Head(stack).right, Tail(stack))

EnumerateInOrder(t) == In_Order(t, <<>>)

\* EnumerateInReverseOrder: the same with the sides exchanged.
RECURSIVE Reverse_Order(_, _)
Reverse_Order(current, stack) ==
  IF ~ IsEmpty(current) THEN Reverse_Order(current.right, <<current>> \o stack)
  ELSE IF stack = <<>> THEN <<>>
  ELSE <<Head(stack)>> \o Reverse_Order(Head(stack).left, Tail(stack))

EnumerateInReverseOrder(t) == Reverse_Order(t, <<>>)

\* What the four range enumerations yield, as nodes.
RECURSIVE GreaterThan(_, _)

\* Mutant of GreaterThan: a key at or below the bound ends it.
GreaterThan_Ending(t, bound) ==
  IF IsEmpty(t) \/ t.key <= bound THEN <<>>
  ELSE GreaterThan(t.left, bound) \o <<t>> \o GreaterThan(t.right, bound)

GreaterThan(t, bound) ==
  IF IsEmpty(t) THEN <<>>
  ELSE IF t.key <= bound THEN GreaterThan(t.right, bound)
  ELSE GreaterThan(t.left, bound) \o <<t>> \o GreaterThan(t.right, bound)

RECURSIVE GreaterThanOrEqual(_, _)
GreaterThanOrEqual(t, bound) ==
  IF IsEmpty(t) THEN <<>>
  ELSE IF t.key < bound THEN GreaterThanOrEqual(t.right, bound)
  ELSE GreaterThanOrEqual(t.left, bound) \o <<t>> \o GreaterThanOrEqual(t.right, bound)

RECURSIVE LessThan(_, _)
LessThan(t, bound) ==
  IF IsEmpty(t) THEN <<>>
  ELSE (IF t.key < bound THEN LessThan(t.right, bound) ELSE <<>>)
       \o (IF t.key <= bound THEN <<t>> ELSE <<>>) \o LessThan(t.left, bound)

RECURSIVE LessThanOrEqual(_, _)
LessThanOrEqual(t, bound) ==
  IF IsEmpty(t) THEN <<>>
  ELSE (IF t.key < bound THEN LessThanOrEqual(t.right, bound) ELSE <<>>)
       \o (IF t.key <= bound THEN <<t>> ELSE <<>>) \o LessThanOrEqual(t.left, bound)

-----------------------------------------------------------------------------
Init == tree = Empty /\ reply = <<>>

Add(key, value) ==
  /\ tree' = Added(tree, key, value)
  /\ reply' = <<>>

AddOrUpdate(key, value) ==
  /\ tree' = AddedOrUpdated(tree, key, value)
  /\ reply' = <<>>

\* The two out parameters come from the node that has the key, or from the empty
\* tree below which it would be.
TryRemove(key) ==
  LET found == Search(tree, key) IN
  /\ tree' = Removed(tree, key)
  /\ reply' = IF IsEmpty(found) THEN <<FALSE>> ELSE <<TRUE, found.value>>

Next ==
  \E key \in Keys :
    \/ \E value \in Values : Add(key, value) \/ AddOrUpdate(key, value)
    \/ TryRemove(key)

Spec == Init /\ [][Next]_vars

-----------------------------------------------------------------------------
\* Properties

RECURSIVE Nodes(_)
Nodes(t) == IF IsEmpty(t) THEN {} ELSE {t} \cup Nodes(t.left) \cup Nodes(t.right)

\* Keys, values and the stored height and Count of every subtree.
TypeOK ==
  /\ \A n \in Nodes(tree) :
       /\ n.key \in Keys /\ n.value \in Values
       /\ n.count = Cardinality(Nodes(n))
       /\ n.height = 1 + Max({n.left.height, n.right.height})
  /\ reply \in {<<>>, <<FALSE>>} \cup {<<TRUE, value>> : value \in Values}

\* What Search finds: it passes a node that is on the wrong side of another.
Found == {key \in Keys : ~ IsEmpty(Search(tree, key))}

\* Whatever rotations and removals moved nodes, Search finds for every key the
\* value put last, and TryRemove says what it took.
Map == INSTANCE SortedMap WITH map <- [key \in Found |-> Search(tree, key).value]
ImplementsSortedMap == Map!Spec

KeysOf(nodes) == [i \in DOMAIN nodes |-> nodes[i].key]
Ascending(keys) == SetToSortSeq(keys, <)
Descending(keys) == SetToSortSeq(keys, >)

\* The enumerations, which go down and up again by their stack, yield every key
\* that Search finds once, in their order.
EnumeratesAll ==
  /\ KeysOf(EnumerateInOrder(tree)) = Ascending(Found)
  /\ KeysOf(EnumerateInReverseOrder(tree)) = Descending(Found)

\* The range enumerations skip subtrees by the key of their node alone; they
\* yield exactly the keys in the range, for every bound.  The range of LessThan
\* has its bound in it, as that of LessThanOrEqual.
RangesMatch ==
  \A bound \in Keys :
    /\ KeysOf(GreaterThan(tree, bound)) = Ascending({k \in Found : k > bound})
    /\ KeysOf(GreaterThanOrEqual(tree, bound)) = Ascending({k \in Found : k >= bound})
    /\ KeysOf(LessThan(tree, bound)) = Descending({k \in Found : k <= bound})
    /\ KeysOf(LessThanOrEqual(tree, bound)) = Descending({k \in Found : k <= bound})

EnumerationsMatch == EnumeratesAll /\ RangesMatch

\* The heights of two siblings differ by two at most, although MakeBalanced
\* takes a single rotation where a child leans the other way by one, and never
\* looks at the result.
NearlyBalanced == \A n \in Nodes(tree) : Balance(n) \in -2 .. 2
=============================================================================
