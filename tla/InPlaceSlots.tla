---------------------------- MODULE InPlaceSlots ----------------------------
(***************************************************************************)
(* The older tree (UpdateInPlace): a put or a delete writes the nodes from *)
(* a leaf to the root at once, to empty slots and then at the end of the   *)
(* file, and frees the slots they had.  Commit writes the address of the   *)
(* root, and what was freed since the last one is empty; RollBack makes    *)
(* empty what was reserved and cuts the file.                              *)
(*                                                                         *)
(* A tree is the set of slots its nodes are in; keys and shape are left    *)
(* out.  The file is a FileStream: what Commit writes is in its buffer     *)
(* until the stream is moved.  A list of addresses is the number of times  *)
(* each slot is in it; which empty slot is next is left open.              *)
(*                                                                         *)
(* When a write throws nothing but a RollBack of the caller undoes what    *)
(* was done so far.  A caller may go on without: where the root object     *)
(* then leads is left open.  When it even commits, addresses come to be in *)
(* the queue twice; that one operation takes both is left out.             *)
(***************************************************************************)
EXTENDS Naturals, FiniteSets

CONSTANTS
  MaxSlots,          \* bound: slots of the file
  MaxCreated,        \* bound: nodes that splits create in one operation
  MaxTransactions,   \* bound
  MaxAfter,          \* bound: operations of a process after a write threw, and not rolled back
  MaxOpens           \* bound: processes

ASSUME BoundsAssumption ==
  /\ MaxSlots \in Nat \ {0} /\ MaxCreated \in Nat /\ MaxAfter \in Nat
  /\ MaxTransactions \in Nat \ {0} /\ MaxOpens \in Nat \ {0}

Slots == 1 .. MaxSlots
NoRoot == {}              \* null; a tree has at least one node

VARIABLES
  index,              \* the transaction that wrote each slot, 0 for none or a write that threw
  length,             \* slots the file extends over
  stored,             \* the tree at the root address on file
  header,             \* the same as the stream has it: Commit does not flush
  root,               \* UncommittedRoot: the slots of the working tree
  empty, reserved, freed,
  first,              \* the first slot of this process
  pointer,            \* _index_Pointer
  committedPointer,
  transaction,        \* number of the transaction
  failed,             \* operations since one in which a write threw, that one included, 0 for none
  careless,           \* a transaction in which a write threw was committed
  opens               \* processes so far

file == <<index, length, stored, header>>
lists == <<empty, reserved, freed>>
pointers == <<first, pointer, committedPointer>>
vars == <<file, root, lists, pointers, transaction, failed, careless, opens>>

-----------------------------------------------------------------------------
\* Lists of addresses

Nothing == [s \in Slots |-> 0]
Once(S) == [s \in Slots |-> IF s \in S THEN 1 ELSE 0]
With(list, more) == [s \in Slots |-> list[s] + more[s]]
Without(list, S) == [s \in Slots |-> IF s \in S THEN list[s] - 1 ELSE list[s]]
Members(list) == {s \in Slots : list[s] > 0}

\* Write_Node takes a slot from the queue as long as there is one, then the
\* slots at the end of the file: n writes take these and move the pointer to end.
Allocates(taken, end, n) ==
  /\ taken \subseteq Members(empty) /\ end \in pointer .. MaxSlots + 1
  /\ Cardinality(taken) + (end - pointer) = n
  /\ end > pointer => taken = Members(empty)

\* The file extends to the last slot written.
Extended(end) == IF end > length THEN end - 1 ELSE length

Taken(taken, end) == taken \cup (pointer .. end - 1)
Written(S) == [s \in Slots |-> IF s \in S THEN transaction ELSE index[s]]

-----------------------------------------------------------------------------
Init ==
  /\ index = Once({1}) /\ length = 1
  /\ stored = Nothing /\ header = Nothing
  /\ root = {1}
  /\ empty = Nothing /\ reserved = Nothing /\ freed = Nothing
  /\ first = 1 /\ pointer = 2 /\ committedPointer = 1
  /\ transaction = 1 /\ failed = 0 /\ careless = FALSE /\ opens = 1

\* The lists after slots of the queue are taken and others freed.
Lists_After(taken, old) ==
  /\ empty' = Without(empty, taken)
  /\ reserved' = With(reserved, Once(taken))
  /\ freed' = With(freed, Once(old))

\* An operation after one that failed.
Goes_On ==
  /\ failed <= MaxAfter
  /\ failed' = IF failed = 0 THEN 0 ELSE failed + 1

\* Mutant of Rewrite: the nodes keep their slots, the created ones get new.
Rewrite_In_Place(path, created) ==
  /\ root # NoRoot /\ Goes_On
  /\ \E taken \in SUBSET Members(empty), end \in pointer .. MaxSlots + 1 :
       /\ Allocates(taken, end, created)
       /\ index' = Written(path \cup Taken(taken, end))
       /\ length' = Extended(end) /\ pointer' = end
       /\ root' = root \cup Taken(taken, end)
       /\ Lists_After(taken, {})
  /\ stored' = header
  /\ UNCHANGED <<header, first, committedPointer, transaction, careless, opens>>

\* Put of a new key, Delete: the nodes of a path and what splits create are
\* written, and the root is the last of them.
Rewrite(path, created) ==
  /\ root # NoRoot /\ Goes_On
  /\ \E taken \in SUBSET Members(empty), end \in pointer .. MaxSlots + 1 :
       /\ Allocates(taken, end, Cardinality(path) + created)
       /\ index' = Written(Taken(taken, end))
       /\ length' = Extended(end) /\ pointer' = end
       /\ root' = (root \ path) \cup Taken(taken, end)
       /\ Lists_After(taken, path)
  /\ stored' = header
  /\ UNCHANGED <<header, first, committedPointer, transaction, careless, opens>>

\* The last of n writes throws: a slot of the queue is reserved by then, the
\* pointer has not moved for one at the end.  The root object stays, but it may
\* have its new address already, keys and pointers too: it leads to slots the
\* tree had and to slots just taken.
Rewrite_Throws(path, n) ==
  /\ root # NoRoot /\ failed <= MaxAfter
  /\ \E taken \in SUBSET Members(empty), end \in pointer .. MaxSlots + 1, old \in SUBSET path :
     \E s \in IF end > pointer THEN {end - 1} ELSE taken :
       /\ Allocates(taken, end, n) /\ Cardinality(old) < n
       /\ index' = [Written(Taken(taken, end)) EXCEPT ![s] = 0]
       /\ length' = Extended(end)
       /\ pointer' = IF end > pointer THEN s ELSE end
       /\ Lists_After(taken, old)
       /\ root' \in (SUBSET (root \cup Taken(taken, end))) \ {NoRoot}
  /\ stored' = header /\ failed' = failed + 1
  /\ UNCHANGED <<header, first, committedPointer, transaction, careless, opens>>

\* Get, and whatever moves the stream.
Seek ==
  /\ root # NoRoot
  /\ stored' = header
  /\ UNCHANGED <<index, length, header, root, lists, pointers, transaction, failed, careless, opens>>

\* The tree at the address of the root: what its slots hold or, where the write
\* threw, should hold.
Tree == [s \in Slots |-> IF s \notin root THEN 0 ELSE IF index[s] > 0 THEN index[s] ELSE transaction]

\* Mutant of Commit: the slots that were freed are empty, and still freed.
Commit_Keeps_Freed ==
  /\ root # NoRoot
  /\ transaction < MaxTransactions /\ transaction' = transaction + 1
  /\ header' = Tree /\ stored' = header
  /\ committedPointer' = pointer
  /\ careless' = (careless \/ failed > 0)
  /\ empty' = With(empty, freed) /\ UNCHANGED freed /\ reserved' = Nothing
  /\ UNCHANGED <<index, length, root, first, pointer, failed, opens>>

Commit ==
  /\ root # NoRoot
  /\ transaction < MaxTransactions /\ transaction' = transaction + 1
  /\ header' = Tree /\ stored' = header
  /\ committedPointer' = pointer
  /\ careless' = (careless \/ failed > 0)
  /\ empty' = With(empty, freed) /\ freed' = Nothing /\ reserved' = Nothing
  /\ UNCHANGED <<index, length, root, first, pointer, failed, opens>>

\* Mutant of RollBack: the slots that were freed are empty as well.
RollBack_Recycles ==
  /\ empty' = With(With(empty, reserved), freed) /\ reserved' = Nothing /\ freed' = Nothing
  /\ root' = NoRoot /\ failed' = IF careless THEN failed ELSE 0
  /\ length' = committedPointer - 1 /\ pointer' = committedPointer
  /\ index' = [s \in Slots |-> IF s < committedPointer THEN index[s] ELSE 0]
  /\ stored' = header
  /\ UNCHANGED <<header, first, committedPointer, transaction, careless, opens>>

\* RollBack, by the caller or by a Commit whose write throws, or that finds no
\* root.  Root was never set: nothing but RollBack and Commit does not throw
\* from now on.
RollBack ==
  /\ empty' = With(empty, reserved) /\ reserved' = Nothing /\ freed' = Nothing
  /\ root' = NoRoot /\ failed' = IF careless THEN failed ELSE 0
  /\ length' = committedPointer - 1 /\ pointer' = committedPointer
  /\ index' = [s \in Slots |-> IF s < committedPointer THEN index[s] ELSE 0]
  /\ stored' = header
  /\ UNCHANGED <<header, first, committedPointer, transaction, careless, opens>>

\* The process dies, with what Commit wrote if it is in the buffer, and another
\* one opens the file: the tree there is not read, an empty root is written
\* after it.
Open ==
  /\ opens < MaxOpens /\ opens' = opens + 1
  /\ first' = length + 1 /\ first' \in Slots
  /\ index' = [index EXCEPT ![first'] = transaction]
  /\ length' = first' /\ pointer' = first' + 1 /\ committedPointer' = first'
  /\ root' = {first'} /\ header' = stored /\ failed' = 0
  /\ empty' = Nothing /\ reserved' = Nothing /\ freed' = Nothing
  /\ UNCHANGED <<stored, transaction, careless>>

Next ==
  \/ \E path \in (SUBSET root) \ {{}} :
       \/ \E created \in 0 .. MaxCreated : Rewrite(path, created)
       \/ \E n \in 1 .. Cardinality(path) + MaxCreated : Rewrite_Throws(path, n)
  \/ Seek \/ Commit \/ RollBack \/ Open

Spec == Init /\ [][Next]_vars

-----------------------------------------------------------------------------
\* Properties

Lists == [Slots -> Nat]

TypeOK ==
  /\ index \in [Slots -> 0 .. MaxTransactions]
  /\ stored \in [Slots -> 0 .. MaxTransactions] /\ header \in [Slots -> 0 .. MaxTransactions]
  /\ root \in SUBSET Slots
  /\ empty \in Lists /\ reserved \in Lists /\ freed \in Lists
  /\ length \in 0 .. MaxSlots
  /\ first \in Slots /\ pointer \in first .. MaxSlots + 1 /\ committedPointer \in first .. pointer
  /\ transaction \in 1 .. MaxTransactions /\ failed \in Nat /\ careless \in BOOLEAN
  /\ opens \in 1 .. MaxOpens

\* The slots of the process: the working tree has it, or it is empty, or it was
\* freed in this transaction, each of them once, until a write throws.
InUse(s) == IF s \in root THEN 1 ELSE 0
OneOwner ==
  root # NoRoot /\ failed = 0 /\ ~ careless =>
    \A s \in first .. pointer - 1 : InUse(s) + empty[s] + freed[s] = 1

\* Whatever a transaction did, wherever it failed and however it went on after
\* that, RollBack leaves every slot either to the tree the stream has the address
\* of or to the queue: none is lost and none of that tree's is given out.
RollBackRestores ==
  root = NoRoot /\ ~ careless =>
    \A s \in first .. pointer - 1 : empty[s] = IF header[s] > 0 THEN 0 ELSE 1

\* The nodes of the tree at the root address on file are as they were written,
\* whenever the process dies, although that address is written late and whatever
\* operations follow a write that threw, until one of them is committed: Commit
\* does not ask, and then the address may be that of a slot never written, and
\* slots of the tree are in the queue.
StoredIntact == ~ careless => \A s \in Members(stored) : index[s] = stored[s]
=============================================================================
