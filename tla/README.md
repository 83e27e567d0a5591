# Specifications of MessageMonitor

This directory is a TLA+ development of the MessageMonitor repository. The
repository holds an experimental storage engine (`src/File_System_ES`) and a
monitor for NServiceBus queues (`src/MessageMonitor.Service`,
`src/MessagesMonitor`, `src/MessageMonitor.Web`). The storage engine is where most of
the state, the crashes and the orders nobody tested are, and where the modules
start. The program is C#. The only JavaScript is that of the libraries under
`src/MessageMonitor.Web/Scripts` (jQuery, Knockout, Modernizr): third-party files
that come with the web site's template, of which nothing is modelled.

## The system

### The append tree (`src/File_System_ES/Append`)

A B+ tree over three streams: *index* (nodes, one fixed-size slot each), *data*
(records, appended) and *metadata* (eight bytes: the address of the root).

| part | state | operations |
|---|---|---|
| `BPlusTree<T>` (`BPTree.cs`, `BPTree.persistence.cs`) | `Root`, the streams, `_index_Pointer`, `_data_Pointer` | constructor and `Init`, `Get`, `Put`, `Delete`, `Commit`, `Flush` |
| `Node<T>` (`Node.cs`) | keys, pointers, children in memory, parent, address, `Is_Volatile` | `Insert_Key`, `Split`, `Get_Data_Address` |
| `Node_Factory<T>` | a queue of spare nodes, an event, and the thread that fills the queue | `Create_New`, `Build`, reading and writing a node's bytes |
| `Cache_LRU` | nodes by address | `Get`, `Put`, `Invalidate` |
| `Pending_Changes<T>` | `Uncommitted_Root`, `Freed_Empty_Slots`, free blocks in `Empty_Slots` and two address indexes | `Free_Address`, `Append_New_Root`, `Commit` |
| `Data` | record layout | `To_Bytes`, `From_Bytes` |

Nothing is updated in place. `Put` renews the leaf and every ancestor: each gets
`Address = 0`, its old address goes to `Freed_Empty_Slots`, and the root becomes
`Uncommitted_Root`. `BPlusTree.Commit` drops the freed addresses from the cache and
calls `Pending_Changes.Commit`, which looks for free blocks, gives every volatile
node an address, writes the nodes, takes the used space out of the blocks, flushes
and adds the freed slots to the blocks; then the new root address is written to the
metadata stream and flushed. The lists of free space are not persisted: a new
process starts with none and appends at the end of the file.

What makes it correct: at any instant the metadata file heads a tree whose nodes
are all on file as they were committed; a slot has one owner; the structures that
describe free space agree; cache and file agree; the tree is a search tree whatever
is in memory, in the cache or on file; a reader gets what was put, and after a
restart what was committed.

What is hard: the process dying between two writes; a write that throws in the
middle of `Commit` and the process going on; slots recycled while an older root
still needs them; cached nodes that are the tree's own objects; splits that move
children some of which are in memory and some on file; `Delete`, which changes
memory only.

### The other parts

* **Update-in-place tree** (`UpdateInPlace/`): the older tree. Every `Put` and
  `Delete` writes nodes at once, to slots from `Empty_Slots` or at the end of the
  file; `Commit` writes the root address and moves `Freed_Empty_Slots` to
  `Empty_Slots`; `RollBack` puts `Reserved_Empty_Slots` back and cuts the file. What is hard: the
  header in the buffer of the stream, a write that throws in the middle of a `Put`.
* **Transacted compound file** (`New_Stream_Layer.cs`, `storage.cs`): a file of
  blocks in sections, each section with two checksummed headers written in two
  phases; whoever opens the file says which headers to load. What is hard: dying
  or throwing in either phase, and threads that are in the middle of a `Write`.
* **Trees and heap** (`Tree/`, `Basic_Heap.cs`): an immutable AVL tree with its
  enumerations, a stack for them, a binary heap.
* **Audit queue listener** (`MSMQ/NServiceBus_Queue_Listener.cs`): peek, receive in
  a queue transaction, `SendLocal` outside of it, commit or abort, peek again. The
  endpoint hands the message to `Audit_Handler`, whose **appender**
  (`MessagesMonitor/Services`) stores a document in RavenDB. What is hard: a
  failure between any two of these, messages that cannot be mapped.
* **Error queue saga** (`Sagas/Check_Error_Queue_Saga.cs`): nothing starts it.
* **Web site, benchmarks, samples**: no state of their own.

`PROJECT.json` lists every part, and under `hazards` the places where each can go
wrong in a way a unit test would hardly reach.

## Modules

| module | what it is |
|---|---|
| `SlotSpace` | which slots a commit may be given, as operators on sets |
| `AppendCommit` | the commit protocol with crashes and failing writes |
| `SlotAllocator` | what the free-space bookkeeping promises |
| `FreeSpace` | the bookkeeping itself: blocks, groups, two indexes; implements `SlotAllocator` |
| `KeyStore` | what the tree promises its user |
| `AppendTree` | the tree with its nodes, cache and file; implements `KeyStore` |
| `DataLog` | the data file, written through the buffer of its stream |
| `RecordLayout` | the bytes of a record |
| `NodeLayout` | the bytes of the nodes of a commit, with each serializer of keys |
| `NodePool` | the two threads of `Node_Factory` |
| `InPlaceSlots` | the slots of the update-in-place tree |
| `AtomicFile` | what a transacted file promises |
| `CompoundFile` | the compound file; implements `AtomicFile` |
| `SortedMap` | what a search tree promises |
| `AVLTree` | the AVL tree; implements `SortedMap` |
| `PriorityQueue` | what a heap promises |
| `BasicHeap` | the heap; implements `PriorityQueue` |
| `AuditQueue` | the way of audit messages from their queue to the document store |
| `Parts` | the parts that share no state and have proofs (`RecordLayout`, `NodeLayout`, `DataLog`, `NodePool`, `BasicHeap`) side by side |
| `MCParts` | `Parts` and `AVLTree` in one instance for TLC, one part working at a time |
| `AppendCommitProofs`, `FreeSpaceProofs`, `AppendTreeProofs`, `AppendTreeOrderProofs`, `PartsProofs`, `InPlaceSlotsProofs`, `CompoundFileProofs`, `AuditQueueProofs` | the theorems |

`AppendCommit` and `SlotAllocator` extend `SlotSpace`, as does `AppendTree` for the
slots of its commits; `FreeSpace` shows that the real bookkeeping gives no commit a
slot that `SlotSpace` would not. So the three views of one program lean on each
other: the protocol on the allocator, the allocator on the blocks, the tree on both.

A slot is `Block_Size` bytes of the index file; slot *k* is the byte address
`8 + (k - 1) * Block_Size`. `_index_Pointer` is `Math.Max(8, Length)` when the file is
opened, and all nodes are written in whole slots.

### `AppendCommit`

A tree is the set of slots its nodes occupy, each with the number of the commit
that wrote it (its *stamp*); keys and shape are left out. `index`, `metadata` are the
files; `durable` is the tree the root on file heads, recorded when the root is
written. `tree` and `volatile` are the working tree: the slots of the nodes that are
not volatile, and how many volatile nodes there are. `assigned` holds the addresses
of volatile nodes that have one, which outside of `Commit` is only so after a commit
failed. Any write of a node, the flush after them and any write of the root address may throw
(`Faults`); `failed` remembers which of the three has, so that a property can say until when it holds.
The lists of free and freed addresses are sets here, with `twice` the slots they may hold more than
once: after a write of a node that throws, a `Put` frees addresses that are free already, and the
blocks made of them overlap. From there on `Counts`, `Unused` and the parameter `shared` of `Put` leave open how
many slots the volatile nodes get and which of them stay free. That is an over-approximation, but for one thing:
that such lists may make a later `Commit` throw by themselves is left out.

| action | code |
|---|---|
| `Open` | constructor and `Init`; the file ends after its last slot with a node |
| `Crash` | the process dies; only the files stay |
| `Read_Node_From_Pointer` | a node comes from the file and is cached |
| `Put` | `Insert_in_node`: any set of nodes with the root in it is renewed, some are created |
| `Delete` | a leaf loses a key in memory: it is not renewed, and the cache, if it holds this very leaf (`Reduced`), is ahead of the file; a root that is the whole tree and volatile may lose its last key |
| `Begin_Commit` | cache invalidation, `Find_All_Pending_Nodes_From`, the search for blocks, `Update_Addresses_From` |
| `Write_Node`, `Write_Node_Fails` | the writes in address order, one of them throwing |
| `Flush_And_Recycle` | the rest of `Pending_Changes.Commit` |
| `Flush_Fails` | the flush throws: the blocks are used and the nodes no longer volatile, but the freed slots not recycled, nor the root address written |
| `Write_Metadata`, `Write_Metadata_Fails` | the root address, written and flushed, or the write throws |

`Init` of an empty file makes a pending empty leaf, and a root without keys is
treated like none.

### `FreeSpace` and `SlotAllocator`

`FreeSpace.space` has the block objects and the three structures that refer to
them. The loops of the code are folds. `Dictionary` order is left open (any subset of
the last group that is just enough), because .NET's order depends on earlier
removals. `used` is the ghost of the tree: the slots `Free_Address` may be given.

### `AppendTree` and `KeyStore`

Nodes are records with whole arrays, because `Get_Data_Address` reads beyond
`Key_Num` and `Split` leaves keys there. An object is a number in `heap`. `line`
says that the cache holds this very object, so that changing the node changes
what the cache has. A record of the data file is named by its key: `Put` never
replaces the value of a key. A commit is one step here; `AppendCommit` has its parts.
`ImplementsKeyStore` ties each operation to its own of the store (`AsTheStore`): a `Put` of a key is the store's `Put` of this key, a
`Commit` its `Commit`, `Reopen` its `Restart`, and a `Get` that reads nodes changes neither set. This is more than the
refinement, which a `Put` that adds nothing would pass.
`Overcopied` is how many keys beyond `Key_Num` the serializer writes with a node: 1 for
`Int_Serializer` and `Long_Serializer` (`Basic_Types.cs:32`, `:74`), 0 for the others.
`Get_Data_Address` gives `NotFound` where the code throws; pointer 0, which fills the
arrays beyond `Key_Num`, is the address of the first record put.

The loops and the recursion of the code are rounds: `Find_Round` goes down one node,
`Insert_Round` is one call of `Insert_in_node`, `Renew_Round` goes up one node, `Find_Pending_Round` looks at
one node for a commit. `Iterated` repeats a round often enough, and a round that has nothing left
to do changes nothing. `NoLine` is what zero bytes are read as: a node without keys, as in a slot never written.

### `DataLog`

The data stream is a `FileStream` (`Benchmarks/BPlusTree.cs:37`), whose buffer is in
the memory of the process. `log` is the file, `buffer` the record in the buffer,
`pointer` is `_data_Pointer`. `Put` and `Get` move the stream, which writes the
buffer out first; a record larger than the buffer passes it by. `Commit` puts the tree on
file (`stored`) and leaves the data stream alone. `Close` ends the process in good order,
`Crash` without its buffer; both reopen the files. The tree is a function from keys
to addresses, counted in records; the stream is modelled from how
`BPTree.persistence.cs` uses it.

### `RecordLayout` and `NodeLayout`

`RecordLayout` has bytes as numbers: `To_Bytes` is its five copies in their order, and
`From_Bytes` takes the key, the value's length and the value from where the code takes
them, out of a buffer four bytes longer than the record, the rest of which may be the
next record or, at the end of the file, zeros. `Write_Data` appends to the file; any
record may be read back at any time, so that reading is part of the properties. `KeySize` is that of the serializer:
4, 8 or 16.

`NodeLayout` names each byte by the field, position and place it comes from, so that one
look says whether a node reads back. It has the buffer of one commit: nodes of several
sizes side by side, each in its `Block_Size` bytes.

### `NodePool`

The builder thread is `WaitOne`, `Enqueue` fifty times, `Reset`; the thread of the tree is
`TryDequeue`, `Count`, `Set`, each a step of its own because the code holds no lock over two
of them. There is one thread that builds, one queue and one event. `New_Node` is
`Create_New` with an empty queue.

### `InPlaceSlots`

A list of addresses is how many times each slot is in it, so that a slot given back
twice shows. `index` has the transaction that wrote each slot. A `Put` or a `Delete` is
`Rewrite`: the nodes of a path from a leaf to the root (any non-empty set of slots of the
tree) and up to `MaxCreated` more are written, first to empty slots, then at the end.
`Rewrite_Throws` is any prefix of it that ends in a write that throws. Nothing in the code rolls back then. The
caller may, or go on: `failed` counts its operations since the throw, `MaxAfter` of which TLC follows. Where the root object
leads after a throw depends on how far the operation got, and is left open. `Commit` does not ask either: `careless` says that a
transaction in which a write threw was committed, and `Tree` is what the root address then leads to. `header` is the root address as the stream has it and `stored` as the file has
it: `Commit` does not flush, and whatever moves the stream afterwards does. A transaction is cut at `committedPointer`.

### `CompoundFile` and `AtomicFile`

Handles and blocks are numbered alike, `BlocksPerSection` to a section of which the first and
the last number are its headers. A header is the table of the section's handles, each with
the set of blocks its value is in. `Write` is two steps, as in the code: `TakeBlocks` under
the lock, then the data and the table under the lock again. The write of the data may throw (`Write_Throws`):
the blocks are then no longer free and no handle has them (`leaked`), until the tables are loaded again. `Begin_Commit` to
`End_Commit` hold the lock; each header is a step, between which the process may `Die` or,
with `Faults`, a write may throw. The next process opens the file by `LoadingRule`, which the
caller gives as the comments on it say: `Primary` if the delegate of the last commit was
called, else `Secondary`. `Die` is the end of one process and the opening by the next.

### `AVLTree`, `BasicHeap` and what they implement

Trees are records, as the code's are immutable objects; each operation makes a new one.
`AddOrUpdate` takes a function of the caller, here one that changes the value. The
enumerations keep their stack: `RangesMatch` says what each of them yields. In the heap
positions count from 0 as in the code. The loops of `Push` and `Pop` are rounds on a list and a position
(`Up_Round`, `Down_Round`), repeated as often as the list is long (`Iterated`): a round that would break leaves both as they are.

### `AuditQueue`

`arrivals` is the history of what came; `queue` the audit queue; a received message stays
its head until `Commit` takes it, since the queue transaction alone decides. `local` is how many copies
the endpoint's own queue has, `documents` how many were stored: a document without an id gets
a new one. `Map` is `Convert` and `To_NServiceBus_Audit_Message`, which throw for a message
without the headers they dereference (`Poison`). `Call_Throws`, `Handler_Throws` and `Die` are
the failures. External, from how the code uses them: the queue, whose aborted receive puts
the message back at its place; the endpoint, which hands a message out until its handler
has returned (`Configure_This_Endpoint` takes the transactional transport as it comes; a
message whose retries are used up goes to the error queue, which the model counts as
still handed out); the document store. `transaction.Begin` before the `try` and an `Abort` that throws end
the callback without another peek, as `Die` does.

## Runs

| run | shows | bounds |
|---|---|---|
| `commit` | whatever instant the process dies at: the committed tree is on file until a write throws (`DurableIntact`); each slot has one owner, cached nodes are current, but for what `Delete` took from them, and the living process keeps its working tree until the write of a *node* throws (`SlotPartition`, `CacheCoherent`, `WorkingTreeKept`); after that, damage comes only from a slot with two owners (`DamageNeedsTwoOwners`); the root on file always leads to its whole tree (`RootNewest`) | 6 slots, 3 volatile nodes, 3 commits, one node in the cache at a time; nodes, flush and root may throw |
| `recycled_early` | **violated**: a metadata write that throws, then another commit, and the tree on file is overwritten | the same, but only metadata writes throw |
| `blocks` | blocks, groups and indexes agree; blocks are maximal; the code never indexes a list with -1; each node to write gets a slot; the blocks implement the allocator | 7 slots, 3 nodes a commit |
| `tree` | search tree, links between nodes, with the key too many that `Int_Serializer` writes; each operation is the one of the key store | 5 keys, order 3, 6 slots, 3 commits |
| `deletes` | with `Delete` and a serializer that copies `Key_Num` keys, no record of another key, no other key lost | 3 keys, order 3, 7 slots, 3 commits |
| `pool` | the queue of nodes is bounded; it starves at `Reset` only; an empty one is filled again or starved | the batch of the code: 50 |
| `audit` | no audit message is lost, none overtakes another, the failures bound the duplicates, and what has no poison ahead of it is stored | 3 messages, one of them poison; 2 failures |
| `atomic` | the compound file implements a file whose commit is one step, with deaths between the headers of the first phase and writes of data that throw; no block that would be loaded is given out | 2 sections of one data block, 2 writers, 3 writes |
| `sections` | blocks are partitioned, those that a throw leaked apart, and no search starts too late, with commits and writes of data that throw | 1 section of two data blocks, values of one and two blocks, 2 writers, 2 writes that succeed and any number that throw |
| `two_deaths` | **violated**: see below | 2 sections, 3 writes |
| `in_place` | a slot has one owner until a write throws; `RollBack` restores the lists and the tree on file stays whole, however the caller goes on, until it commits a transaction in which a write threw | 5 slots, one node created by an operation, 3 transactions, one operation after one that threw, 2 processes |
| `parts` | each part of `MCParts` on its own; see below | see below |

`parts` has five parts, of which a behaviour moves one: they share no state, and the run is their
sum. Its properties are those of the parts' modules:

* records: every value reads back, with keys of 16 bytes, also at the end of the file
  (`PayloadsReadBack`; a file of 70 bytes, values of 0, 1 and 3 bytes);
* the data file: a process reads what it put, although records pass through the buffer and
  addresses that lead nowhere are taken again (`OwnRecordsReadable`); a record on file never
  changes (`LogOnlyGrows`); a process that dies takes one record with it (`OneLossPerCrash`; 3 keys, 4 records, 2 deaths);
* nodes: those written side by side read back, with `Int_Serializer`, which writes a key too many,
  and `String_Serializer` (`NodesReadBack`; 2 nodes of 3 keys);
* the AVL tree implements a map (`ImplementsSortedMap`), its enumerations and ranges are right
  (`EnumerationsMatch`), it leans by two at most (`NearlyBalanced`; 5 keys, 2 values);
* the heap implements a priority queue (`ImplementsPriorityQueue`; 6 entries of 2 indexes and 3 weights);
* files, heights and counts are well formed (`PartsTypeOK`).

The bounds let the interesting things happen: one cached node is enough, because what `CacheCoherent` says is about one slot; three commits are what it takes to
free a slot, recycle it and use it again, for `AppendCommit` and for `AppendTree` alike: the slots that the second commit
supersedes are free at its end, and the third writes to them; seven slots hold three separate free
blocks with a gap to merge; two deaths let a lost address be taken and lost again;
five keys in a tree of order 3 split the root and a leaf below an inner node that has children in
memory and on file (with six slots a tree of three levels is never committed, only held in memory; the theorems have no such bound).
That the third commit matters shows when the loop that invalidates the cache is taken out of `Commit` (`Kept_Cached`): a slot that was written again is
then read as the node that had it before, and `ImplementsKeyStore` fails. Three transactions of the older tree free a slot of a tree that was committed,
recycle it and roll that back, and one operation after one that threw is what it takes to free a slot that is in use; two sections are what makes a header phase stop half
way, and two blocks in one what makes a value need neighbours; five keys of the AVL tree make every
rotation and the removal of a node with two subtrees; six entries give the heap a node
with one child at every turn; with three messages there is one before, one behind and
one poison, and two failures hit both sides of `SendLocal`.

Deadlock is checked in every run but two. `audit` ends when all is stored and the failures are
used up; in `parts`, the loop over the nodes of a block ends. In all others a state
can be left by dying, reading or reopening.

### Where the code differs from its documentation

Two runs show a disagreement as a counterexample:

* `TODO.txt:8` orders a commit "wait for writing => update root node address =>
  flush => add "deleted" nodes addresses to the update empty slots". The code adds
  them before the root address is written (`Pending_Changes.cs:332`, then
  `BPTree.cs:61`). Dying in between is harmless, since the lists die too; a metadata
  write that throws is not (`recycled_early`): the process
  goes on with the old root on file and its slots free.
* The comments on `LoadingRule` (`New_Stream_Layer.cs:154`, `:161`) promise the state of the last commit or of the
  one before it. They hold for a death in the first phase (`atomic`). Opening writes no
  header, so that a death in the second phase and then one
  in the first phase of the next commit restore a state two commits old (`two_deaths`).

The others were met while modelling. The modules follow the code, and their properties are stated
around the disagreement:

* `TODO.txt:10` says that a commit that fails returns its slots and cleans the freed
  ones. The code does nothing: addresses stay on volatile nodes, and the next `Put`
  frees slots that are free already. This is why the properties of `AppendCommit` end with a node
  write that throws, and what `DamageNeedsTwoOwners` is about. A flush that throws is harmless: the nodes are in the
  stream and part of the working tree, and what was freed stays freed until the next commit.
* No `Put` of the older tree asks whether the one before it failed, and neither does `Commit` (`UpdateInPlace/BPTree.cs:42`, `:109`).
  `Write_Node` sets `node.Address` before it writes (`BPTree.persistence.cs:56`), and has freed slots before it throws. Operations that follow do
  no harm to the tree on file, and a `RollBack` after them still restores the lists. Committing does: without its antecedent `~ careless`, `StoredIntact` is
  violated in four states, by a write that throws, a `Commit` and a `Put`, which takes a slot that the tree on file has.
* A write of the data of a value that throws (`New_Stream_Layer.cs:621`) leaks the blocks that `TakeBlocks` took: nothing
  gives them back until a `Rollback`, a `Clear` or the next opening. `BlocksPartitioned` names them (`leaked`) next to the free blocks, those in values and those
  a thread holds.
* `Delete` (`BPTree.cs:141`) changes the leaf without renewing it. After a cache miss the cache holds that very object (`BPTree.persistence.cs:54`) and is then ahead of
  the file, which keeps the key. `CacheCoherent` allows this and nothing else.
* `TODO.txt:3` and `:8` have one queue of data and index writes, and a commit that
  waits for it before it updates the root address. `Commit` flushes the index and the
  metadata stream, never the data stream: if the process ends without
  closing its streams, the last record is lost, and the next process writes another
  record at the address the tree has for it. `OneLossPerCrash` is what is left.
* `Node.cs:149` throws for a key that is not there. `Get_Data_Address` compares the key with
  all of `Keys`, so that the last key of a leaf is found after its `Delete`, and
  `default(T)` in any leaf that is not full. `NeverAnotherRecord` allows the first; the keys of the
  runs leave out 0, which is `default(T)`.
* `Int_Serializer` and `Long_Serializer` write one key more than the node has: a deleted key goes to
  the file without its pointer, and is found there with pointer 0, the address of another key's
  record. `deletes` has `Overcopied = 0`, the other serializers.
* `Guid_Serializer.Get_Instances` leaves out `startIndex` (`Basic_Types.cs:123`): no key of a node reads back. The
  run has `Int_Serializer` and `String_Serializer`.
* `Data.To_Bytes` gives a key of any size four bytes, and the time stamp and the version lie in
  the rest. A key of eight or sixteen bytes does not read back; values do.
* `src/TODO.txt:4` has the audit part "store messages from queue". A message that cannot be mapped is
  put back at the head of its queue and received again, for ever; hence `StoredUnlessBehindPoison`.
* After a throw in the second phase of a commit of the compound file, blocks of the new tables are
  unreserved, and a `Write` without a commit destroys them. After a throw in the first phase, `Rollback`
  loads the headers of the failed commit; with more than one section it may
  load a table of each commit, whose blocks overlap: this is why `sections`, where commits throw, has one
  section, and in `atomic`, with two, only writes of values do.
* `LessThan` is line for line `LessThanOrEqual` (`AVLTree.cs:169`); `RangesMatch` says so. `MakeBalanced` rotates once
  where it should rotate twice: the tree leans by two, not by more (`NearlyBalanced`).

## Fairness

Most of the code runs one call at a time and every call ends: those specifications have
no fairness conditions and no liveness property. Two have.

* `NodePool`: `WF_vars(Build)`, because the builder is a running thread with no way to stop; and
  `WF_vars(Count \/ Set)`, because a call of `Create_New` that has taken a node goes on. Nothing
  makes the tree ask for a node, so that `TryDequeue` has no fairness. Weak fairness is
  enough: nobody but the thread itself takes away what it can do next.
* `AuditQueue`: `WF_vars(queue_PeekCompleted)`, because the peek completes when there is a message and the
  callback ends in a `finally` with another peek; `WF_vars(Audit_Handler)`, because the endpoint hands out
  what is in its queue. Failures are bounded by `MaxFailures`, and no fairness asks for
  one. Nothing makes messages arrive.

## Proofs

Each module that needs induction over numbers or finite sets begins with the lemmas for it (`LeastNumber`, `NumberInduction`,
`SubsetInduction`, and for sums `SumsExist`), with what is to be shown written as membership in a set.

`AppendCommitProofs` proves, for all values of the constants and with any write throwing at any time:

* `TypeCorrect`: `TypeOK`.
* `SlotsPartitioned`, `WorkingTreeSurvives` and `CacheIsCoherent`: `SlotPartition`, `WorkingTreeKept` and
  `CacheCoherent`, which speak of the time until the write of a node throws, with flushes and metadata writes that throw, and
  with `Delete`.
* `CommittedTreeSurvives`: `DurableIntact`, until any write throws; a flush may.
* `RootIsNewest`: `RootNewest`, always.

The argument: none of the invariants is inductive alone. `Base` adds to the types
what a commit under way knows (`Target`): the slots it writes are an allocation of
the free space, and those already written carry the stamp of this commit. `Space`
adds to the partition that no volatile node has an address outside of a commit, and that no slot is in the lists twice; it
is what fails when a node write throws, and holds until then (`SpaceUntilFailure`). From both, `TargetUnused` says that the
slots being written belong to no tree and no list. `Durability` adds that every slot of the tree
on file is in the working tree or among the freed slots until the next root is
written, so that no allocation can contain it. The cache and the root add facts of
the same kind. Each step lemma has one case per action.

* `DamageTakesTwoOwners`: `DamageNeedsTwoOwners`, until a metadata write throws. That a slot of the tree on file is in
  the working tree, freed, or lost to this process (`Kept`) survives every failing write of a
  node. Lost slots are `OutOfReach`: in no list and before the end, so that no commit is given one. What is
  overwritten is then a slot that the working tree or the freed slots hold while a commit has it.

All rest on `AllocationShape`: an allocation consists of free slots and of all slots
between the old and the new end of the file.

`FreeSpaceProofs` proves of the real bookkeeping, for every size of the file and of the commits:

* `StructuresStayInStep`, `NoSeams`, `GroupAlwaysFound`: `StructuresAgree`, `BlocksMaximal`, `NeverThrows`.
* `BlocksImplementAllocator`: `ImplementsAllocator`, the refinement of `SlotAllocator`; `OneOwner` proves
  `NoTwoOwners` of the allocator, and `BlocksOwnNothing` brings it back to the blocks.
* `EachNodeItsSlot`: `SlotForEachNode`, a commit of *n* nodes takes *n* slots.

The invariant is a `Consistent` space that covers no used slot. The steps of the code are
proved to keep it one at a time: a block leaves or joins its group (`GroupLosesBlock`, `GroupGainsBlock`, with
the group itself added or removed), an index entry moves, then one slot is given back in each of the three
ways `Insert_or_Merge` may find neighbours (`Inserted`, `Prepended`, `Appended_To_Before`), then one block is used up or cut
(`BlockUsed`). The loops are folds over sets; `SubsetInduction` carries each step to the whole
fold, in any order (`SlotsReturned`, `BlocksFinished`). `TotalCounts` adds up the lengths of the blocks a
commit found, and `PartsFill` shows that those blocks, the last one cut, are exactly the slots
handed out. `MaxSlotAssumption` only says that the end of the file is a number.

`PartsProofs` proves `OwnRecordsAreReadable`, `LossIsBounded`, `LogIsAppendOnly` and `StreamTypes` of the data stream, whatever
the number of records and deaths. The file has no holes, and the buffer holds at most the record after its last
one (`StreamInv`); so each death adds at most one key to `Lost`, the keys
of the tree on file whose address leads to no record of theirs. `NodesAreReadBack` says that
the nodes of a commit read back for every size of nodes and commits and every serializer but `Guid_Serializer`,
whose keys do not: the slots of a buffer lie apart, each copy stays inside its
slot or writes a byte that the next copy writes again, and pointers come after keys (`NodeCopied`, `HeldKept`).

`RecordTypes` and `ValuesAreReadBack` say that records read back, for every size of key up to 16 and all
values of fewer than 2^31 - 20 bytes. `Copying` says what one copy leaves alone, `RecordBytes` that after
all five the length and the value are where `From_Bytes` looks, `Lengths` that the four bytes of a
length give the length; a record stays `Placed` in a file that only grows. The time stamp
overwrites the key, not the length, and the value is copied last.

`HeapImplementsPriorityQueue` is the refinement of `PriorityQueue` by `BasicHeap` (`ImplementsPriorityQueue`), for every set of
indexes, all weights and every order of calls; `WeightAssumption` only says that weights are numbers. The invariant `HeapInv` is that
no entry is lighter than its parent, so that the first is one of the lightest (`FirstIsLightest`). Inside `Push` that holds but
for the entry on its way up (`HeapBut`, kept by `UpRound`), inside `Pop` but for the one on its way down
(`HeapAbove`, kept by `DownRound`, since the lighter child goes up); the loops end because the position gets smaller in the one
and larger in the other (`SiftedUp`, `SiftedDown`). An exchange is a bijection of positions, so
that the bag of entries stays the same (`ExchangeKeepsBag`); `LastForFirst` is the one place where an entry leaves it.

`PartsProofs` proves `PoolTypes`, `PoolStaysBounded` and `StarvationIsAtReset` of `NodePool`, for every size of a
batch. The measure (`PoolInv`): nodes in the queue, plus those of the batch under way or asked for by a
set event (`Under_Way`), plus a batch for a consumer about to set the event (`Asked_For`), are fewer
than three batches. The consumer counts fewer than one batch before it asks, and by then the
builder has at most one under way.

`AppendTreeProofs` proves of the tree itself, for every order of the tree, every set of keys and every history of calls,
commits and restarts:

* `LinksAlwaysAgree`: `LinksAgree`.
* `OwnRecordsOnly`: what `Get` finds, now or in a process that opens the files as they are, is the record of the key it was
  asked for, or nothing, or address 0 when the serializer copies a key too many. Without such a serializer this
  is `OthersRecordsNever`: `NeverAnotherRecord`, with `Delete`.

The invariant is `Holds(P)`, with any set `P` of addresses, since none of this depends on where nodes are. In it every node
in memory, in the cache and on file is `Sound`: right of a key of a leaf is its record, at every position of the arrays and not only
below `Key_Num`, because this is where `Get_Data_Address` looks. Inserting, splitting, deleting and writing keep a node
sound, each by its own lemma (`GrownIsSound`, `LeftIsSound`, `RightIsSound`, `RemovedIsSound`, `WrittenIsSound`); a key
that `Delete` or `Split` leaves behind still has its record beside it. Deleting and splitting are safe for this reason only.
The links are `Joined` (a child knows its parent, and is at one position), `Risen` (above a volatile node all are volatile)
and `Depths`: every node has a depth, smaller than the number of nodes, one more than that of its parent. Depths are what
makes the loops end within their rounds: `LoopEnds` carries a measure through one, `LoopStays` an invariant. In the middle
of `Insert_in_node` the links do not agree: a node that was split has a child nobody points at yet (`Offered`), and the node
above it may not be volatile. `CallsWithin` says how far they disagree, and that it is over when the calls end (`Done`).

`AppendTreeOrderProofs` extends it and is about the order of keys along whole paths, in memory, in the cache and on file together:

* `TreeImplementsKeyStore`: `ImplementsKeyStore` and `Store!Spec`, the refinement of `KeyStore` with each operation tied to the store's: a `Put` adds
  its key and no other, whichever nodes it splits; a commit stores exactly the keys that are working; a restart brings back
  exactly what was stored; reading changes neither.
* `AlwaysASearchTree`: `SearchTree`, what a reader finds that goes down every path.
* `OneRecordPerKey`: `NeverAnotherRecord` once more, here with the serializers that copy a key too many.

All three assume `Deletes = FALSE`: a `Delete` renews no node, so that whether it reaches the file depends on what else
the leaf is written for, and the tree is then no `KeyStore` (`BPTree.cs:147`). Those about what `Get` finds assume `0 \notin Keys`, since `0` stands for
`default(T)`, which `Get_Data_Address` finds in every leaf that is not full (`Node.cs:145`).

The invariant of nodes cannot say this, for a search depends on all the nodes above. The tree is therefore named: a set of nodes,
each with what a walk sees of it, the set of keys that lead to it, its level, and its place, which is an object in memory
or a slot of the file. `GoodTree` says that these fit: keys are in order and in the range of their node, a child has the part of its
parent's range between two keys and is one level below, nodes of a level have ranges apart, nodes have places apart, and a leaf has exactly
the keys of the tree in its range. `Represents` ties such a tree to `heap` and `disk`; `Space` and `CacheTrue` say that its slots, the
freed and the free ones are apart, that a node that is not volatile is as on file, and that the cache holds what is
on file wherever a slot is not free. The inductive invariant is `TreesGood`: the process has such a tree for some set of
keys (`Working`), and the file one for another (`StoredTree`). `StepWorks` says what every step makes of the two sets (`TreeStep`).

On the trees themselves there are four lemmas: a leaf gets a key (`LeafGrows`), a full child is cut in two (`TreeCut`), the root gets
one above it (`RootCovered`), nodes move to other places (`TreeMoved`). Each operation is then a sequence of these: reading
a child moves it from its slot to an object (`ReadLoads`); a `Put` is a walk (`WalkEnds`), then one call after the other, each with the
split of the last still to be told to the parent (`PuttingRound`, `PutWorks`); a commit moves all volatile nodes to new slots
(`CommitWorks`). For the commit, `PendingAll` says that the search for pending nodes finds every volatile node once
and nothing else, and `AddressesGiven` that each gets a slot of its own that no tree uses; so the tree that the file held before is left whole until the
root changes. Loops end because a walk goes one level down with each round, and a path has no more nodes than the heap and the
file have (`NodesFew`). `TreesRead` and `TreesSearch` turn the named tree back into what `Get` and a reader find.

`InPlaceSlotsProofs` proves `InPlaceTypes`, `SlotsHaveOneOwner`, `RollBackLosesNothing` and `StoredTreeStaysIntact`. The
invariant `IInv` adds to the types what `RollBack` relies on: no slot from
`committedPointer` on is empty, reserved or in the tree of the header (`Ranges`); each one before it belongs
to that tree, or is empty, or is reserved (`Committed`); a slot of the working tree has
no other owner (`Owned`), until a write throws; the trees of the header and of the file are as they
were written (`Intact`). All four (`Sound`) hold until a transaction in which a write threw is committed (`careless`): what fails
before that moves slots from `empty` to `reserved`, or into `freed` more than once, and a slot of the header's tree leaves `freed` only by a commit. That the header is
in the buffer does no harm because slots freed by a commit are written only after the
stream has been moved, which brings the header to the file.

`AuditQueueProofs` proves `AuditTypes`, `NoMessageLost` and `NoOvertaking`. The queue is a suffix of `arrivals`;
whatever is before it has been sent, and so has its head once the listener is at
`Commit`.

`CompoundFileProofs` proves, for every size of a section and any number of sections, handles, values and threads,
`PartitionedAlways` (`BlocksPartitioned`), `SearchesStartEarly` (`SearchesMissNothing`), `NothingOverwritten`
(`RecoverableReserved`), `StoredByCommit` (`StoredByCommitOnly`) and `FileIsAtomic`: the file implements `AtomicFile`.
The last three assume what `NoLoss` says: no write of a commit throws, and the process does not die between the
delegate and the end of a commit. Writes of values may throw in all of them. `two_deaths` shows that `StoredByCommitOnly` fails without the second. `SearchesStartEarly`
assumes nothing: its invariant, `Ranged`, is kept by every step, also by a commit or a `Write` that throws and by a death at any
instant. `PartitionedAlways` assumes `NoLoss` or that the file has one section, as in the run `sections`, where commits throw. In a file of several, a
commit that throws leaves headers of two commits behind, and a rollback may load a table in which two handles have the same
block; with one section each header is the whole table of some commit (`WholeHeaders`), which had none. `ReloadKeeps` is the step where the
two differ. The invariant `IInv` has five parts besides the types and `InRange`. `Owned` is the partition block by
block, with the leaked ones as a part of their own; `Unshared` says that what a thread holds between the halves of `Write` is its own, and that the old blocks
it has looked up are still those of its handle. `Agreement` says in which sections the tables of the
headers are the one in memory: in those that are not dirty, and in those a phase has written, so that
at the end of each phase a whole set of headers is the table in memory. `Recoverable` says that what the next process loads has no block in
two values, none that a thread is about to write, and none that is not reserved except in phase 2, when it is the table in memory.
`Found` is `SearchesMissNothing`, while the lock is held too. The layout is proved apart: `BetweenHeaders`
says that the numbers of the sections are exactly what lies between headers, which is how the code
computes the free blocks when it opens a file. For the refinement, a write changes one value because its blocks
belong to no other handle and to nothing stored.

`AuditQueueProofs` also proves `DuplicatesPaidFor` (`DuplicatesBounded`), for any finite set of messages: a sum over them grows by
one only in a step that leaves a surplus copy or document, and such a step comes after a call that threw or a
death, which `failures` counted. `Owed` is the copy that is sure to come, when the
head of the queue was sent and is back at the peek: it is paid for when the failure happens, not when the copy is made.

Only checked by TLC:

* of `AppendTree`, `DeleteIsLocal`: the ranges of the proof above would have to be told of keys that a leaf no longer has, while its
  separators stay and its file copy still has them;
* `AVLTree`, whose recursive operators no theorem can reach: `EnumerationsMatch`, `NearlyBalanced`, the part of `PartsTypeOK`
  about the trees, and the refinement `ImplementsSortedMap`;
* the liveness properties, `Refilled` and `StoredUnlessBehindPoison`.

## Plan

1. The step from `AppendCommit` to an abstract atomic commit, as a refinement.
2. `CompoundFile` with `CommitOnWrite`, with values of sixteen blocks and more, and with `AddSection` dying
   before its headers are on file, and their proofs.
3. `AppendTree` with `Delete` as a refinement: `KeyStore` with a stored set that a commit need not bring up to date, and from it
   `DeleteIsLocal`.

## Not modelled

* Statistics, `Pending_ChangesV2` (a copy of `Pending_Changes`), `Length_Comparer`,
  `Empty_Space` and `Update_Addresses_From_Base`, which nothing uses; `RollBack` of the
  append tree, which only throws; `Fast.cs`, which nothing calls.
* The error queue saga: no code publishes the event it waits for, because `Start_Monitoring_Queue` adds a handler for
  `PeekCompleted` and begins no peek, and no message starts the saga. The prototype
  of a domain (`Domain/Prototype.cs`) and the projections have no caller either.
* `LocateNearest` of the AVL tree, which asks a predicate of its caller, and the functions
  that copy keys and values.
* Strings of more than sixteen bytes as keys: `String_Serializer` cuts or overruns them by the
  length of their encoding, of which the modules have no notion.
* Of the append tree, exceptions that lists with an address in them twice may cause in a later `Commit`. Of the older tree, an operation that
  takes the same slot from the queue twice, which needs a transaction in which a write threw to be committed first. Of the compound file, deaths and
  throws while `AddSection` writes the headers of a new section.
* Files of more than 2^31 bytes, whose offsets overflow in the compound file.
* The web site, its third-party scripts and the programs that drive the components.
* Several threads in one tree: no code of the tree takes a lock, and no
  caller shares one.
