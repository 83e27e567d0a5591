--------------------------- MODULE SlotAllocator ---------------------------
(***************************************************************************)
(* What Pending_Changes promises about the slots of the index file: each   *)
(* one below the pointer is in use by a node, freed by the changes of the  *)
(* commit to come, free, or lost by a restart; a commit is given slots     *)
(* that are free, or new at the end of the file.                           *)
(***************************************************************************)
EXTENDS SlotSpace

CONSTANTS
  MaxSlot,    \* bound: slots of the index file
  MaxWrite    \* bound: nodes one commit writes

VARIABLES
  used,       \* slots of the nodes of the tree
  freed,      \* slots of the nodes renewed since the last commit
  free,       \* slots the next commit may be given
  pointer     \* the first slot never used

vars == <<used, freed, free, pointer>>

Init == used = {} /\ freed = {} /\ free = {} /\ pointer = 1

\* A node of the tree is renewed: its slot is free after the next commit.
Free_Address(a) ==
  /\ a \in used
  /\ used' = used \ {a}
  /\ freed' = freed \cup {a}
  /\ UNCHANGED <<free, pointer>>

\* n nodes are written; the slots freed meanwhile become free.
Commit(n) ==
  /\ PointerAfter(free, pointer, n) <= MaxSlot + 1
  /\ \E A \in Allocations(free, pointer, n) :
       /\ used' = used \cup A
       /\ free' = (free \ A) \cup freed
  /\ freed' = {}
  /\ pointer' = PointerAfter(free, pointer, n)

\* The lists of free and freed slots do not survive the process; the tree on
\* file still has the slots that were freed and not committed.
Reopen ==
  /\ used' = used \cup freed
  /\ freed' = {} /\ free' = {}
  /\ UNCHANGED pointer

Next ==
  \/ \E a \in used : Free_Address(a)
  \/ \E n \in 1 .. MaxWrite : Commit(n)
  \/ Reopen

Spec == Init /\ [][Next]_vars

\* No slot has two owners: what a commit is given is not the slot of a node of
\* the tree, nor one the tree on file may still need.
NoTwoOwners ==
  /\ used \cap freed = {}
  /\ (used \cup freed) \cap free = {}
  /\ used \cup freed \cup free \subseteq {s \in 1 .. MaxSlot : s < pointer}
=============================================================================
