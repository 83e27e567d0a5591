----------------------------- MODULE NodeLayout -----------------------------
(***************************************************************************)
(* The bytes of the nodes of a commit: Node_Factory.To_Bytes_In_Buffer     *)
(* copies nodes one after the other into a buffer that Pending_Changes     *)
(* writes in one piece, and From_Bytes reads a node from its slot          *)
(* (File_System_ES/Append).  Both leave the keys to a serializer.          *)
(*                                                                         *)
(* A byte is named by the field it is part of, its position in an array    *)
(* and its place in the value; NoByte is a byte of a new buffer.  Strings  *)
(* are keys of at most sixteen ASCII characters.                           *)
(***************************************************************************)
EXTENDS Naturals, Sequences

CONSTANTS
  Serializers,  \* those used, of "Int", "Long", "Guid" and "String"
  Size,         \* keys a node has room for
  NodeCount     \* nodes in the buffer

VARIABLES
  serializer,   \* the serializer of the tree
  nodes,        \* the nodes of the buffer: Key_Num and IsLeaf of each
  buffer,       \* offset -> byte
  written       \* how many nodes are in the buffer

vars == <<serializer, nodes, buffer, written>>

NoByte == <<>>
Byte(n, field, i, b) == <<n, field, i, b>>

\* Serialized_Size_For_Single_Key_In_Bytes.
Key_Size == CASE serializer = "Int" -> 4 [] serializer = "Long" -> 8 [] OTHER -> 16

\* Node_Factory.Size_In_Bytes, the Block_Size of the tree.
Block_Size == 4 + 1 + Key_Size * Size + 8 * (Size + 1)
Slot(n) == (n - 1) * Block_Size
Pointers_Offset == 5 + Key_Size * Size

\* Memcpy of count values of width bytes, those of a field of node n, to offset at.
Copied(target, at, n, field, width, count) ==
  [p \in DOMAIN target |->
     IF p \in at .. at + width * count - 1
     THEN Byte(n, field, (p - at) \div width, (p - at) % width)
     ELSE target[p]]

\* Mutant of Keys_Copied: one key less.
Keys_Copied_Short(key_num) == IF key_num = 0 THEN 0 ELSE key_num - 1

\* How many keys To_Buffer copies.
Keys_Copied(key_num) == IF serializer \in {"Int", "Long"} THEN key_num + 1 ELSE key_num

\* Node_Factory.To_Bytes_In_Buffer.
To_Bytes_In_Buffer(n) ==
  LET num == nodes[n].num
      numbered == Copied(buffer, Slot(n), n, "num", 4, 1)
      marked == Copied(numbered, Slot(n) + 4, n, "leaf", 1, 1)
      keyed == Copied(marked, Slot(n) + 5, n, "key", Key_Size, Keys_Copied(num))
  IN Copied(keyed, Slot(n) + Pointers_Offset, n, "pointer", 8, num + 1)

Read(at, width) == [b \in 0 .. width - 1 |-> buffer[at + b]]

\* Where in its slot Get_Instances takes key i from: Guid_Serializer does not
\* use the startIndex it is given.
Key_Offset(i) == (IF serializer = "Guid" THEN 0 ELSE 5) + i * Key_Size

\* Node_Factory.From_Bytes of the slot of node n.
Num_Read(n) == Read(Slot(n), 4)
Leaf_Read(n) == Read(Slot(n) + 4, 1)
Key_Read(n, i) == Read(Slot(n) + Key_Offset(i), Key_Size)
Pointer_Read(n, i) == Read(Slot(n) + Pointers_Offset + 8 * i, 8)

\* A node is split when it is full, so that no commit writes a full one.
Init ==
  /\ serializer \in Serializers
  /\ nodes \in [1 .. NodeCount -> [num : 0 .. Size - 1, leaf : BOOLEAN]]
  /\ buffer = [p \in 0 .. NodeCount * Block_Size - 1 |-> NoByte]
  /\ written = 0

\* The loop over the nodes of a block in Pending_Changes.Commit.
Write_Node ==
  /\ written < NodeCount
  /\ buffer' = To_Bytes_In_Buffer(written + 1)
  /\ written' = written + 1
  /\ UNCHANGED <<serializer, nodes>>

Next == Write_Node

Spec == Init /\ [][Next]_vars

-----------------------------------------------------------------------------
\* Properties

Field(n, field, i, width) == [b \in 0 .. width - 1 |-> Byte(n, field, i, b)]

\* Every node in the buffer reads back as it was written, whatever is copied
\* for its neighbours: its header, its Key_Num keys and one pointer more.
NodesReadBack ==
  \A n \in 1 .. written :
    /\ Num_Read(n) = Field(n, "num", 0, 4)
    /\ Leaf_Read(n) = Field(n, "leaf", 0, 1)
    /\ \A i \in 0 .. nodes[n].num - 1 : Key_Read(n, i) = Field(n, "key", i, Key_Size)
    /\ \A i \in 0 .. nodes[n].num : Pointer_Read(n, i) = Field(n, "pointer", i, 8)
=============================================================================
