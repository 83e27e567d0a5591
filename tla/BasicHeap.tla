----------------------------- MODULE BasicHeap -----------------------------
(***************************************************************************)
(* The binary heap of File_System_ES/Basic_Heap.cs.  Positions count from  *)
(* 0 as in the code; InnerList[p] is At(list, p).                          *)
(***************************************************************************)
EXTENDS Integers, Sequences, SequencesExt

CONSTANTS
  Indexes,     \* values of type TIndex
  Weights,     \* weights used
  MaxCount     \* bound: entries in the heap

VARIABLES
  InnerList,   \* entries, least weight first
  popped       \* what the last Pop returned, <<>> before and after a Push

vars == <<InnerList, popped>>

At(list, p) == list[p + 1]
Lighter(list, p, q) == At(list, p).weight < At(list, q).weight
Swapped(list, p, q) == [list EXCEPT ![p + 1] = At(list, q), ![q + 1] = At(list, p)]

\* A loop whose body is Round, on a list and a position: h after n rounds, which is
\* the one element of after[n].
Iterated(Round(_), h, n) ==
  LET after[r \in Nat] == IF r = 0 THEN {h} ELSE {Round(x) : x \in after[r - 1]}
  IN CHOOSE last \in after[n] : TRUE

\* The loop of Push: an entry lighter than its parent changes places with it.
Parent(p) == (p - 1) \div 2
Up_Round(h) ==
  IF h.p # 0 /\ Lighter(h.list, h.p, Parent(h.p))
  THEN [list |-> Swapped(h.list, h.p, Parent(h.p)), p |-> Parent(h.p)]
  ELSE h
Sifted_Up(list, p) == Iterated(Up_Round, [list |-> list, p |-> p], Len(list)).list

\* The entry to go down to: the lighter child, if one is lighter than its parent.
Lightest(list, p) ==
  LET p1 == 2 * p + 1
      p2 == 2 * p + 2
      left == IF Len(list) > p1 /\ Lighter(list, p1, p) THEN p1 ELSE p
  IN IF Len(list) > p2 /\ Lighter(list, p2, left) THEN p2 ELSE left

\* Mutant of Down_Round: a node whose right child would be past the end is left.
Down_Round_Short(h) ==
  LET next == Lightest(h.list, h.p) IN
  IF next = h.p \/ Len(h.list) <= 2 * h.p + 2 THEN h
  ELSE [list |-> Swapped(h.list, h.p, next), p |-> next]

\* The loop of Pop: an entry changes places with its lightest child.
Down_Round(h) ==
  LET next == Lightest(h.list, h.p) IN
  IF next = h.p THEN h ELSE [list |-> Swapped(h.list, h.p, next), p |-> next]
Sifted_Down(list, p) == Iterated(Down_Round, [list |-> list, p |-> p], Len(list)).list

Init == InnerList = <<>> /\ popped = <<>>

Push(index, weight) ==
  LET added == Append(InnerList, [index |-> index, weight |-> weight]) IN
  /\ Len(InnerList) < MaxCount
  /\ InnerList' = Sifted_Up(added, Len(InnerList))
  /\ popped' = <<>>

\* The last entry takes the place of the first and goes down.  An empty heap
\* throws before anything has changed.
Pop ==
  /\ InnerList # <<>>
  /\ InnerList' = Sifted_Down(Front([InnerList EXCEPT ![1] = Last(InnerList)]), 0)
  /\ popped' = <<At(InnerList, 0).index>>

Next == Pop \/ \E index \in Indexes, weight \in Weights : Push(index, weight)

Spec == Init /\ [][Next]_vars
=============================================================================
