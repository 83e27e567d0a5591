--------------------------- MODULE PriorityQueue ---------------------------
(***************************************************************************)
(* What BasicHeap<TIndex> (File_System_ES/Basic_Heap.cs) promises: Pop     *)
(* takes an index of least weight among those pushed and not popped yet.   *)
(***************************************************************************)
EXTENDS Integers, Bags

CONSTANTS
  Indexes,     \* values of type TIndex
  Weights      \* weights used, numbers

VARIABLES
  content,     \* the bag of entries
  popped       \* what the last Pop returned, <<>> before and after a Push

Init == content = EmptyBag /\ popped = <<>>

Push(index, weight) ==
  /\ content' = content (+) SetToBag({[index |-> index, weight |-> weight]})
  /\ popped' = <<>>

Pop ==
  \E entry \in BagToSet(content) :
    /\ \A other \in BagToSet(content) : entry.weight <= other.weight
    /\ content' = content (-) SetToBag({entry})
    /\ popped' = <<entry.index>>

Next == Pop \/ \E index \in Indexes, weight \in Weights : Push(index, weight)

Spec == Init /\ [][Next]_<<content, popped>>
=============================================================================
