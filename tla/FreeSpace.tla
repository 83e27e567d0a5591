----------------------------- MODULE FreeSpace -----------------------------
(***************************************************************************)
(* The free space of File_System_ES/Append/Pending_Changes: the free       *)
(* blocks, kept in groups of equal length (Empty_Slots, a list of          *)
(* Block_Group) and indexed by their first address and by the address      *)
(* after their last.  The three structures share the Block objects, which  *)
(* are the numbers in DOMAIN space.block here.  Lengths and addresses are  *)
(* counted in slots (see SlotSpace.tla), so Block_Size is 1.               *)
(*                                                                         *)
(* A Dictionary enumerates its entries in an order that depends on the     *)
(* removals before: which blocks of a group are taken first is left open.  *)
(***************************************************************************)
EXTENDS Naturals, Sequences, SequencesExt, FiniteSetsExt

CONSTANTS
  MaxSlot,    \* bound: slots of the index file, and Block objects alive
  MaxWrite    \* bound: nodes one commit writes

ASSUME MaxSlotAssumption == MaxSlot \in Nat

VARIABLES
  space,      \* the free blocks: objects, groups and the two indexes
  freed,      \* Freed_Empty_Slots, in the order the addresses were freed
  pointer,    \* _index_Pointer
  used        \* slots of the nodes of the tree, the ones Free_Address is given

vars == <<space, freed, pointer, used>>

Empty == [x \in {} |-> x]
NoSpace == [block |-> Empty, groups |-> <<>>, base |-> Empty, end |-> Empty, thrown |-> FALSE]

Init == space = NoSpace /\ freed = <<>> /\ pointer = 1 /\ used = {}

Without(f, a) == [x \in DOMAIN f \ {a} |-> f[x]]
With(f, a, b) == [x \in DOMAIN f \cup {a} |-> IF x = a THEN b ELSE f[x]]
End_Address(block) == block.base + block.length

-----------------------------------------------------------------------------
\* Groups of blocks of one length

Has_Group(groups, length) == \E i \in DOMAIN groups : groups[i].length = length

\* The index the loops of Fix_Block_Position_In_Groups end with.
Last_Group(groups, length) ==
  CHOOSE i \in DOMAIN groups :
    /\ groups[i].length = length
    /\ \A j \in DOMAIN groups : groups[j].length = length => j <= i

\* The group of that length gets the block, a new group if there is none.
Put_In_Group(groups, length, address, b) ==
  IF Has_Group(groups, length)
  THEN [groups EXCEPT ![Last_Group(groups, length)].blocks = With(@, address, b)]
  ELSE Append(groups, [length |-> length, blocks |-> With(Empty, address, b)])

\* Mutant of Remove_From_Group: the group goes with the block.
Remove_Group(groups, length, address) == RemoveAt(groups, Last_Group(groups, length))

\* A group that loses its last block goes.
Remove_From_Group(groups, length, address) ==
  LET i == Last_Group(groups, length)
      left == Without(groups[i].blocks, address)
  IN IF left = Empty THEN RemoveAt(groups, i) ELSE [groups EXCEPT ![i].blocks = left]

\* Block b moves to the group of its new length, or to none if that is 0.  The
\* code indexes Empty_Slots with -1, which throws, when no group has the old one.
Fix_Block_Position_In_Groups(sp, b, oldAddress, newAddress, oldLength, newLength) ==
  IF ~ Has_Group(sp.groups, oldLength)
  THEN [sp EXCEPT !.thrown = TRUE]
  ELSE LET groups == Remove_From_Group(sp.groups, oldLength, oldAddress) IN
       [sp EXCEPT !.groups =
          IF newLength = 0 THEN groups ELSE Put_In_Group(groups, newLength, newAddress, b)]

-----------------------------------------------------------------------------
\* Giving space back

\* A new block of one slot, in a group and in both indexes.
Insert_Block(sp, address) ==
  LET b == CHOOSE i \in 1 .. MaxSlot : i \notin DOMAIN sp.block IN
  [sp EXCEPT !.block = With(@, b, [base |-> address, length |-> 1]),
             !.groups = Put_In_Group(@, 1, address, b),
             !.base = With(@, address, b),
             !.end = With(@, address + 1, b)]

\* The freed slot follows a free block: the block grows by it, and by the block
\* that follows the slot if there is one.
Append_To_Before(sp, address) ==
  LET b == sp.end[address]
      before == sp.block[b]
      merges == address + 1 \in DOMAIN sp.base
      a == sp.base[address + 1]
      grown == before.length + 1 + (IF merges THEN sp.block[a].length ELSE 0)
      cleared ==
        IF merges
        THEN [Fix_Block_Position_In_Groups(sp, a, address + 1, 0, sp.block[a].length, 0)
                EXCEPT !.base = Without(@, address + 1), !.block = Without(@, a)]
        ELSE sp
      moved == [cleared EXCEPT
                  !.block[b].length = grown,
                  !.end = With(Without(@, address), before.base + grown, b)]
  IN Fix_Block_Position_In_Groups(moved, b, before.base, before.base, before.length, grown)

\* Mutant of Prepend_To_After: the old address stays in the index.
Prepend_Keeps_Base(sp, address) ==
  LET a == sp.base[address + 1]
      length == sp.block[a].length
      moved == [sp EXCEPT !.base = With(sp.base, address, a),
                          !.block[a] = [base |-> address, length |-> length + 1]]
  IN Fix_Block_Position_In_Groups(moved, a, address + 1, address, length, length + 1)

\* The freed slot precedes a free block, and follows none.
Prepend_To_After(sp, address) ==
  LET a == sp.base[address + 1]
      after == sp.block[a]
      moved == [sp EXCEPT
                  !.base = With(Without(@, address + 1), address, a),
                  !.block[a] = [base |-> address, length |-> after.length + 1]]
  IN Fix_Block_Position_In_Groups(moved, a, address + 1, address, after.length, after.length + 1)

\* Mutant of Add_Block_Address: only the block before is looked for.
Add_After_Only(sp, address) ==
  IF address \in DOMAIN sp.end THEN Append_To_Before(sp, address) ELSE Insert_Block(sp, address)

\* One turn of the loop of Add_Block_Address_To_Available_Space.
Add_Block_Address(sp, address) ==
  IF address \in DOMAIN sp.end THEN Append_To_Before(sp, address)
  ELSE IF address + 1 \in DOMAIN sp.base THEN Prepend_To_After(sp, address)
  ELSE Insert_Block(sp, address)

Add_Block_Address_To_Available_Space(sp) == FoldLeft(Add_Block_Address, sp, freed)

-----------------------------------------------------------------------------
\* Taking space

Blocks_Of(group) == {group.blocks[a] : a \in DOMAIN group.blocks}
Length_Of(b) == space.block[b].length
Total(blocks) == MapThenSumSet(Length_Of, blocks)

\* The sets of blocks the search may return for n slots: whole groups in the
\* order of the list, then blocks of one more group until n is reached; every
\* block there is when that is not enough.
Look_For_Available_Blocks(n) ==
  LET groups == space.groups
      Before(k) == UNION {Blocks_Of(groups[i]) : i \in 1 .. k - 1}
      Enough(k) == {C \in {Before(k) \cup part : part \in (SUBSET Blocks_Of(groups[k])) \ {{}}} :
                      n <= Total(C) /\ Total(C) < n + groups[k].length}
  IN IF n >= Total(DOMAIN space.block)
     THEN {DOMAIN space.block}
     ELSE UNION {Enough(k) : k \in DOMAIN groups}

\* Mutant of Used_Length: always the whole block.
Used_Whole(chosen, n, b) == Length_Of(b)

\* Slots of b used when n nodes fill the chosen blocks in address order.
Used_Length(chosen, n, b) ==
  LET lower == Total({c \in chosen : space.block[c].base < space.block[b].base}) IN
  IF lower >= n THEN 0 ELSE Min({n - lower, Length_Of(b)})

\* The slots the nodes get: the used ones of the blocks, then the end of file.
Addresses(chosen, n) ==
  LET Part(b) == space.block[b].base .. space.block[b].base + Used_Length(chosen, n, b) - 1
  IN (UNION {Part(b) : b \in chosen}) \cup (pointer .. pointer + (n - Min({n, Total(chosen)})) - 1)

\* Mutant of Block_Usage_Finished: the block loses its end instead.
Block_Loses_End(sp, b, usedLength) ==
  LET old == sp.block[b]
      rest == [base |-> old.base, length |-> old.length - usedLength]
      moved == [sp EXCEPT !.block[b] = rest, !.end = Without(@, End_Address(old))]
      fixed == Fix_Block_Position_In_Groups(moved, b, old.base, old.base, old.length, rest.length)
  IN IF rest.length = 0
     THEN [fixed EXCEPT !.base = Without(@, old.base), !.block = Without(@, b)]
     ELSE [fixed EXCEPT !.end = With(@, End_Address(rest), b)]

\* The block loses the slots that were used at its start.
Block_Usage_Finished(sp, b, usedLength) ==
  LET old == sp.block[b]
      rest == [base |-> old.base + usedLength, length |-> old.length - usedLength]
      moved == [sp EXCEPT !.block[b] = rest, !.base = Without(@, old.base)]
      fixed == Fix_Block_Position_In_Groups(moved, b, old.base, rest.base, old.length, rest.length)
  IN IF rest.length = 0
     THEN [fixed EXCEPT !.end = Without(@, End_Address(rest)), !.block = Without(@, b)]
     ELSE [fixed EXCEPT !.base = With(@, rest.base, b)]

\* The loop of Commit over the chosen blocks, in address order.
Blocks_Finished(chosen, n) ==
  LET Highest(blocks) ==
        CHOOSE b \in blocks : \A c \in blocks : space.block[c].base <= space.block[b].base
      Finish(b, sp) == Block_Usage_Finished(sp, b, Used_Length(chosen, n, b))
  IN MapThenFoldSet(Finish, space, LAMBDA b : b, Highest, chosen)

-----------------------------------------------------------------------------
\* The operations

\* Renew_Node_And_Dispose_Space of a node that has an address.
Free_Address(address) ==
  /\ address \in used
  /\ freed' = Append(freed, address)
  /\ used' = used \ {address}
  /\ UNCHANGED <<space, pointer>>

\* Commit writes n nodes, at least those whose addresses were freed.
Commit(n) ==
  /\ n >= Len(freed)
  /\ \E chosen \in Look_For_Available_Blocks(n) :
       LET taken == Blocks_Finished(chosen, n)
           appended == n - Min({n, Total(chosen)})
       IN /\ pointer + appended <= MaxSlot + 1
          /\ pointer' = pointer + appended
          /\ used' = used \cup Addresses(chosen, n)
          /\ space' = Add_Block_Address_To_Available_Space(taken)
  /\ freed' = <<>>

\* A new process: the constructor starts with empty lists, and the slots freed
\* but not committed belong to the tree on file.
Reopen ==
  /\ space' = NoSpace
  /\ freed' = <<>>
  /\ used' = used \cup Range(freed)
  /\ UNCHANGED pointer

Next ==
  \/ \E address \in used : Free_Address(address)
  \/ \E n \in 1 .. MaxWrite : Commit(n)
  \/ Reopen

Spec == Init /\ [][Next]_vars

-----------------------------------------------------------------------------
\* Properties

Slots_Of(b) == space.block[b].base .. End_Address(space.block[b]) - 1
Free == UNION {Slots_Of(b) : b \in DOMAIN space.block}

TypeOK ==
  /\ DOMAIN space.block \subseteq 1 .. MaxSlot
  /\ \A b \in DOMAIN space.block :
       space.block[b] \in [base : 1 .. MaxSlot, length : 1 .. MaxSlot]
  /\ DOMAIN space.base \cup DOMAIN space.end \subseteq 1 .. MaxSlot + 1
  /\ space.thrown \in BOOLEAN
  /\ freed \in Seq(1 .. MaxSlot)
  /\ pointer \in 1 .. MaxSlot + 1
  /\ used \subseteq 1 .. MaxSlot

\* The blocks lie in the file, and the three structures hold the same ones, each under its own address and
\* length, and no group is empty or listed twice: whichever way a block is
\* looked up, what the others say of it is current.
StructuresAgree ==
  /\ TypeOK
  /\ space.base = [a \in {space.block[b].base : b \in DOMAIN space.block} |->
                     CHOOSE b \in DOMAIN space.block : space.block[b].base = a]
  /\ space.end = [a \in {End_Address(space.block[b]) : b \in DOMAIN space.block} |->
                    CHOOSE b \in DOMAIN space.block : End_Address(space.block[b]) = a]
  /\ \A i, j \in DOMAIN space.groups :
       space.groups[i].length = space.groups[j].length => i = j
  /\ \A i \in DOMAIN space.groups :
       LET group == space.groups[i] IN
       /\ DOMAIN group.blocks # {}
       /\ \A a \in DOMAIN group.blocks :
            space.block[group.blocks[a]] = [base |-> a, length |-> group.length]
  /\ UNION {Blocks_Of(space.groups[i]) : i \in DOMAIN space.groups} = DOMAIN space.block

\* Free blocks never touch: a slot that comes back is merged with its free
\* neighbours on both sides, and taking space from the start of a block leaves
\* no seam.
BlocksMaximal ==
  \A b, c \in DOMAIN space.block :
    b # c => End_Address(space.block[b]) < space.block[c].base
             \/ End_Address(space.block[c]) < space.block[b].base

\* No step indexes Empty_Slots with -1.
NeverThrows == ~ space.thrown

\* Every node written has a slot of its own that no other node had, however the
\* blocks are used up, partly, wholly and past the end of the file.
SlotForEachNode ==
  [][\A n \in 1 .. MaxWrite : Commit(n) => Cardinality(used' \ used) = n]_vars

\* The blocks implement the slots: seen as the set of the slots they cover,
\* every operation is one of the allocator.
Allocator == INSTANCE SlotAllocator WITH free <- Free, freed <- Range(freed)
ImplementsAllocator == Allocator!Spec
=============================================================================
