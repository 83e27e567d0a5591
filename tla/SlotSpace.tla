----------------------------- MODULE SlotSpace -----------------------------
(***************************************************************************)
(* Space of the index file of File_System_ES/Append, counted in slots of   *)
(* Block_Size bytes.  Slot k (k >= 1) stands for the byte address          *)
(* 8 + (k - 1) * Block_Size; the address 0, which the code uses for "no    *)
(* address yet", is no slot.                                               *)
(*                                                                         *)
(* The operators say which slots a commit may be given and what the free   *)
(* space is afterwards, with the free blocks seen as the set of the slots  *)
(* they cover.  FreeSpace.tla has the blocks themselves.                   *)
(***************************************************************************)
EXTENDS Naturals, FiniteSets

\* Slots taken beyond the end of the file when the free blocks are too few.
Appended(free, n) == IF n <= Cardinality(free) THEN 0 ELSE n - Cardinality(free)

\* The block added at the end of the file: its first k slots.
TailSlots(pointer, k) == pointer .. (pointer + k - 1)

\* Sets of slots Commit may assign to n volatile nodes: slots of free blocks
\* while they last, and only then slots at the end of the file.
Allocations(free, pointer, n) ==
  IF n <= Cardinality(free)
  THEN {A \in SUBSET free : Cardinality(A) = n}
  ELSE {free \cup TailSlots(pointer, Appended(free, n))}

\* Mutant of PointerAfter: the end of the file stays where it was.
Pointer_Kept(free, pointer, n) == pointer

\* _index_Pointer once n nodes have been given a slot.
PointerAfter(free, pointer, n) == pointer + Appended(free, n)
=============================================================================
