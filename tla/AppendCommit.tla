---------------------------- MODULE AppendCommit ----------------------------
(***************************************************************************)
(* The commit protocol of File_System_ES/Append/BPTree.cs together with    *)
(* Pending_Changes.Commit: a copy-on-write tree whose nodes live in the    *)
(* slots of the index file, whose root address lives in the metadata file, *)
(* and whose superseded slots are recycled by later commits.               *)
(*                                                                         *)
(* A tree is the set of slots its nodes occupy, each with the stamp (the   *)
(* number of the commit) its node was written with; the shape of the tree  *)
(* and the keys in the nodes are left to AppendTree.tla.  A function from  *)
(* Slots to stamps stands for a file, a tree or the node cache; stamp 0    *)
(* means the slot is blank, or not part of the tree, or not cached.        *)
(*                                                                         *)
(* The process may be killed before any step: what it had not handed to a  *)
(* file is lost.  A slot that is only partly written when the process dies *)
(* is the case where it is overwritten: the old node is gone either way.   *)
(*                                                                         *)
(* free and freed are sets, the lists of the code are not.  The slots they *)
(* may hold more than once are in twice; a write of a node has to throw    *)
(* before there are any (SlotPartition).  Free blocks then overlap, and    *)
(* nodes may share a slot: how many nodes are volatile and which slots     *)
(* stay free is over-approximated from there on.  That the corrupted lists *)
(* may make a later Commit throw (FreeSpace!NeverThrows) is left out.      *)
(***************************************************************************)
EXTENDS SlotSpace

CONSTANTS
  MaxSlot,          \* bound: slots of the index file
  MaxVolatile,      \* bound: volatile nodes one commit writes
  MaxCommits,       \* bound: commits attempted, also the largest stamp
  MaxCached,        \* bound: nodes in the cache
  Faults            \* which calls may throw: the writes of nodes ("index"), the
                    \* flush after them ("flush"), the write of the root ("metadata")

ASSUME BoundsAssumption ==
  MaxSlot \in Nat /\ MaxVolatile \in Nat \ {0} /\ MaxCommits \in Nat /\ MaxCached \in Nat
ASSUME FaultsAssumption == Faults \subseteq {"index", "flush", "metadata"}

Slots == 1 .. MaxSlot
Dirty == MaxCommits + 1   \* a cached node renewed in memory since it was read
Reduced(stamp) == Dirty + stamp   \* a cached leaf that lost keys to Delete only
NoTree == [s \in Slots |-> 0]

VARIABLES
  \* files
  index,          \* the stamp in each slot of the index file
  metadata,       \* root address in the metadata file, 0 when none
  durable,        \* the tree that root heads, as it was committed
  durableKeyed,   \* whether that root has a key (Node.IsValid)
  \* memory of the process
  phase,          \* "down", "idle", or the step Commit has reached
  tree,           \* slots of the nodes that are not volatile
  volatile,       \* number of volatile nodes
  assigned,       \* addresses given to volatile nodes
  root,           \* address of the working root, 0 while it has none
  keyed,          \* whether the working root has a key, as it is or will be on file
  pending,        \* Has_Pending_Changes: Uncommitted_Root # null
  freed,          \* Freed_Empty_Slots
  free,           \* slots covered by the blocks of Empty_Slots
  twice,          \* slots that these lists, or the nodes, may hold more than once
  pointer,        \* _index_Pointer
  cache,          \* Cache_LRU: the node kept for each address
  toWrite,        \* slots Commit has still to write
  attempt,        \* commits begun since the files were created
  lost,           \* slots no list knows of since the last restart
  \* history
  failed          \* the members of Faults that have thrown

files == <<index, metadata, durable, durableKeyed>>
space == <<freed, free, twice, pointer, lost>>
nodes == <<tree, volatile, assigned, root, keyed, pending>>
vars == <<files, space, nodes, phase, cache, toWrite, attempt, failed>>

Pages(t) == {s \in Slots : t[s] # 0}

Init ==
  /\ index = NoTree /\ metadata = 0 /\ durable = NoTree /\ durableKeyed = FALSE
  /\ phase = "down" /\ tree = NoTree /\ volatile = 0 /\ assigned = {}
  /\ root = 0 /\ keyed = FALSE /\ pending = FALSE
  /\ freed = {} /\ free = {} /\ twice = {} /\ pointer = 1 /\ lost = {}
  /\ cache = NoTree /\ toWrite = {} /\ attempt = 0 /\ failed = {}

-----------------------------------------------------------------------------
\* Opening the files and losing the process

\* The constructor and Init: the free lists start empty and new slots go after
\* the end of the file.  A root without keys, like no root at all, is replaced
\* by a new empty leaf that is pending.
Open ==
  /\ phase = "down"
  /\ phase' = "idle"
  /\ IF metadata # 0 /\ durableKeyed
     THEN /\ tree' = durable /\ volatile' = 0
          /\ root' = metadata /\ keyed' = TRUE /\ pending' = FALSE
     ELSE /\ tree' = NoTree /\ volatile' = 1
          /\ root' = 0 /\ keyed' = FALSE /\ pending' = TRUE
  /\ \E p \in 1 .. MaxSlot + 1 :
       /\ \A s \in Slots : s >= p => index[s] = 0
       /\ p > 1 => index[p - 1] # 0
       /\ pointer' = p
       /\ lost' = {s \in Slots : s < p} \ Pages(tree')
  /\ UNCHANGED <<files, assigned, freed, free, twice, cache, toWrite, attempt, failed>>

\* The process dies and its memory with it.
Crash ==
  /\ phase # "down"
  /\ phase' = "down"
  /\ tree' = NoTree /\ volatile' = 0 /\ assigned' = {}
  /\ root' = 0 /\ keyed' = FALSE /\ pending' = FALSE
  /\ freed' = {} /\ free' = {} /\ twice' = {} /\ pointer' = 1 /\ lost' = {}
  /\ cache' = NoTree /\ toWrite' = {}
  /\ UNCHANGED <<files, attempt, failed>>

-----------------------------------------------------------------------------
\* Reading and changing the tree

\* Find_Leaf_Node follows a pointer, so not to the root, to a node that is not in
\* memory: it comes from the cache, or from the file and is then cached.
Read_Node_From_Pointer(s) ==
  /\ phase = "idle"
  /\ tree[s] # 0
  /\ s = root => s \in twice
  /\ cache[s] = 0
  /\ Cardinality({x \in Slots : cache[x] # 0}) < MaxCached
  /\ cache' = [cache EXCEPT ![s] = index[s]]
  /\ UNCHANGED <<files, space, nodes, phase, toWrite, attempt, failed>>

\* Put of a new key: Insert_in_node renews the leaf and every ancestor, root
\* included, and adds the nodes its splits create.  A renewed node gives its
\* address back, be it the slot of a node on file or one that a Commit that
\* failed had assigned.  The cache holds the very object that was read on a
\* miss, and a copy on a hit: renewing changes the first, not the second.
\* shared are the slots a second node keeps.
Put(onFile, unwritten, shared, created, changed) ==
  /\ phase = "idle"
  /\ onFile \subseteq Pages(tree)
  /\ unwritten \subseteq assigned
  /\ shared \subseteq twice
  /\ root # 0 => root \in onFile \cup unwritten
  /\ changed \subseteq {s \in onFile : cache[s] # 0}
  /\ volatile' = volatile + Cardinality(onFile) + created
  /\ volatile' \in 1 .. MaxVolatile
  /\ tree' = [s \in Slots |-> IF s \in onFile \ shared THEN 0 ELSE tree[s]]
  /\ assigned' = assigned \ (unwritten \ shared)
  /\ freed' = freed \cup onFile \cup unwritten
  /\ twice' = twice \cup ((onFile \cup unwritten) \cap (freed \cup free))
                    \cup (onFile \cap unwritten)
  /\ cache' = [s \in Slots |-> IF s \in changed THEN Dirty ELSE cache[s]]
  /\ root' = 0 /\ keyed' = TRUE /\ pending' = TRUE
  /\ UNCHANGED <<files, free, pointer, lost, phase, toWrite, attempt, failed>>

\* Delete of a key: the leaf changes in memory, is not renewed and not dropped
\* from the cache, which holds that very leaf if it was read on a miss; the file
\* keeps the key.  Only of a volatile leaf will the change be written: one that
\* is the root, and the whole tree, may lose its last key that way.
Delete ==
  /\ phase = "idle"
  /\ \/ /\ \E s \in Pages(tree) : /\ cache[s] \in 1 .. MaxCommits
                                  /\ cache' = [cache EXCEPT ![s] = Reduced(@)]
        /\ keyed' = keyed
     \/ /\ volatile = 1 /\ Pages(tree) = {}
        /\ keyed' = FALSE
        /\ cache' = cache
  /\ UNCHANGED <<files, space, tree, volatile, assigned, root, pending, phase,
                 toWrite, attempt, failed>>

-----------------------------------------------------------------------------
\* Commit, step by step

\* Mutant of Invalidated: the loop over Freed_Empty_Slots is missing.
Cache_Kept == cache

\* The cache without the addresses that were freed.
Invalidated == [s \in Slots |-> IF s \in freed THEN 0 ELSE cache[s]]

\* How many slots the volatile nodes get: one each, unless two may share one.
Counts == IF twice = {} \/ volatile = 0 THEN {volatile} ELSE 1 .. MaxVolatile

\* BPlusTree.Commit drops the freed addresses from the cache; Pending_Changes
\* picks the space and gives every volatile node an address, the lowest one to
\* the root, from which Update_Addresses_From starts.
Begin_Commit ==
  /\ phase = "idle"
  /\ pending
  /\ attempt < MaxCommits
  /\ attempt' = attempt + 1
  /\ cache' = Invalidated
  /\ \E n \in Counts :
       /\ volatile' = n
       /\ PointerAfter(free, pointer, n) <= MaxSlot + 1
       /\ \E A \in Allocations(free, pointer, n) :
            /\ assigned' = A
            /\ toWrite' = A
            /\ IF n = 0
               THEN root' = root
               ELSE \E r \in A : (\A s \in A : r <= s) /\ root' = r
  /\ phase' = "writing"
  /\ UNCHANGED <<files, space, tree, keyed, pending, failed>>

\* Nodes go to the file in the order of their addresses.
Write_Node ==
  /\ phase = "writing"
  /\ \E s \in toWrite :
       /\ \A x \in toWrite : s <= x
       /\ index' = [index EXCEPT ![s] = attempt]
       /\ toWrite' = toWrite \ {s}
  /\ UNCHANGED <<metadata, durable, durableKeyed, space, nodes, phase, cache, attempt, failed>>

\* A Write throws: the exception leaves Commit, and leaves the volatile nodes
\* with the addresses they were given.
Write_Node_Fails ==
  /\ "index" \in Faults
  /\ phase = "writing"
  /\ toWrite # {}
  /\ toWrite' = {}
  /\ phase' = "idle"
  /\ failed' = failed \cup {"index"}
  /\ UNCHANGED <<files, space, nodes, cache, attempt>>

\* What Block_Usage_Finished leaves of the free blocks: not the used slots,
\* unless an overlapping block has them too.
Unused(overlapping) == free \ (assigned \ overlapping)

\* Mutant of Recycled: the used space stays in the free blocks.
Used_Stays_Free(overlapping) == free \cup freed

\* Add_Block_Address_To_Available_Space puts the freed slots into the free blocks.
Recycled(overlapping) == Unused(overlapping) \cup freed

\* Everything is written: the used space leaves the free blocks and the nodes are
\* no longer volatile.
Nodes_Written ==
  /\ phase = "writing"
  /\ toWrite = {}
  /\ pointer' = PointerAfter(free, pointer, volatile)
  /\ tree' = [s \in Slots |-> IF s \in assigned THEN attempt ELSE tree[s]]
  /\ twice' = twice \cup (assigned \cap Pages(tree))
  /\ volatile' = 0
  /\ assigned' = {}
  /\ UNCHANGED <<files, lost, root, keyed, pending, cache, toWrite, attempt>>

\* Then the stream is flushed and the freed slots become free.
Flush_And_Recycle ==
  /\ Nodes_Written
  /\ \E overlapping \in SUBSET (assigned \cap twice) : free' = Recycled(overlapping)
  /\ freed' = {}
  /\ phase' = "flushed"
  /\ UNCHANGED failed

\* Or the flush throws, before the freed slots are recycled and the root address
\* is written; the nodes are part of the working tree all the same.
Flush_Fails ==
  /\ "flush" \in Faults
  /\ Nodes_Written
  /\ \E overlapping \in SUBSET (assigned \cap twice) : free' = Unused(overlapping)
  /\ freed' = freed
  /\ phase' = "idle"
  /\ failed' = failed \cup {"flush"}

\* Mutants of Write_Metadata: the root address goes out before the nodes, or it
\* is not flushed and may not reach the file.
Root_Before_Nodes ==
  /\ phase = "writing"
  /\ metadata' = root
  /\ durable' = tree
  /\ durableKeyed' = keyed
  /\ pending' = FALSE
  /\ phase' = "idle"
  /\ UNCHANGED <<index, space, tree, volatile, assigned, root, keyed, cache, toWrite, attempt, failed>>
Root_Not_Flushed ==
  /\ phase = "flushed"
  /\ \/ metadata' = root /\ durable' = tree /\ durableKeyed' = keyed
     \/ UNCHANGED <<metadata, durable, durableKeyed>>
  /\ pending' = FALSE
  /\ phase' = "idle"
  /\ UNCHANGED <<index, space, tree, volatile, assigned, root, keyed, cache, toWrite, attempt, failed>>

\* The root address is written and flushed; the new root replaces the old one.
Write_Metadata ==
  /\ phase = "flushed"
  /\ metadata' = root
  /\ durable' = tree
  /\ durableKeyed' = keyed
  /\ pending' = FALSE
  /\ phase' = "idle"
  /\ UNCHANGED <<index, space, tree, volatile, assigned, root, keyed, cache, toWrite, attempt, failed>>

\* The write of the root address throws: Uncommitted_Root stays.
Write_Metadata_Fails ==
  /\ "metadata" \in Faults
  /\ phase = "flushed"
  /\ phase' = "idle"
  /\ failed' = failed \cup {"metadata"}
  /\ UNCHANGED <<files, space, nodes, cache, toWrite, attempt>>

Commit ==
  \/ Begin_Commit
  \/ Write_Node
  \/ Write_Node_Fails
  \/ Flush_And_Recycle
  \/ Flush_Fails
  \/ Write_Metadata
  \/ Write_Metadata_Fails

Next ==
  \/ Open
  \/ Crash
  \/ \E s \in Slots : Read_Node_From_Pointer(s)
  \/ \E onFile \in SUBSET Pages(tree), unwritten \in SUBSET assigned :
       \E shared \in SUBSET (twice \cap (onFile \cup unwritten)),
          created \in 0 .. MaxVolatile - volatile,
          changed \in SUBSET {s \in onFile : cache[s] # 0} :
         Put(onFile, unwritten, shared, created, changed)
  \/ Delete
  \/ Commit

Spec == Init /\ [][Next]_vars

-----------------------------------------------------------------------------
\* Properties

TypeOK ==
  /\ index \in [Slots -> 0 .. MaxCommits]
  /\ metadata \in 0 .. MaxSlot
  /\ durable \in [Slots -> 0 .. MaxCommits]
  /\ durableKeyed \in BOOLEAN
  /\ phase \in {"down", "idle", "writing", "flushed"}
  /\ tree \in [Slots -> 0 .. MaxCommits]
  /\ volatile \in 0 .. MaxVolatile
  /\ assigned \subseteq Slots
  /\ root \in 0 .. MaxSlot
  /\ keyed \in BOOLEAN /\ pending \in BOOLEAN
  /\ freed \subseteq Slots
  /\ free \subseteq Slots
  /\ twice \subseteq Slots
  /\ pointer \in 1 .. MaxSlot + 1
  /\ lost \subseteq Slots
  /\ cache \in [Slots -> 0 .. Dirty + MaxCommits]
  /\ toWrite \subseteq Slots
  /\ attempt \in 0 .. MaxCommits
  /\ failed \subseteq Faults

\* The tree that the metadata file heads is in the index file, every node as
\* its commit wrote it.  ("=> !commit = wait for writing => update root node
\* address => flush => add "deleted" nodes addresses to the update empty slots",
\* TODO.txt:8.)
CommittedTreeOnFile == \A s \in Slots : durable[s] # 0 => index[s] = durable[s]

\* Whatever instant the process dies at, the committed tree is on file, although
\* slots are recycled by Add_Block_Address_To_Available_Space while an older root
\* is still there; until a write throws.  A flush that throws does no harm.
DurableIntact == failed \subseteq {"flush"} => CommittedTreeOnFile

\* The nodes of the working tree that are not volatile can be read from the
\* file, although Pending_Changes keeps handing out slots of the same file.
TreeIntact == \A s \in Slots : tree[s] # 0 => index[s] = tree[s]

\* While the process lives it keeps a readable tree: a Commit whose metadata
\* write failed can be followed by more changes and by another Commit, and no
\* node of the working tree is overwritten on the way.
WorkingTreeKept ==
  [][phase # "down" /\ "index" \notin failed /\ TreeIntact => TreeIntact']_vars

\* Every slot of the file is in exactly one of the tree, the freed slots, the
\* free blocks and the slots lost by a restart, and there only once: nothing
\* leaks, nothing is freed twice, and no commit is given a slot in use.
OneOwner ==
  /\ Pages(tree) \cup freed \cup free \cup lost = {s \in Slots : s < pointer}
  /\ free \cap (Pages(tree) \cup freed \cup lost) = {}
  /\ freed \cap (Pages(tree) \cup lost) = {}
  /\ lost \cap Pages(tree) = {}
  /\ twice = {}

\* That is so while the process lives, flushes and metadata writes that throw
\* included; it takes the write of a node that throws to give a slot a second
\* owner.
SlotPartition == phase # "down" /\ "index" \notin failed => OneOwner

\* A cached node of the working tree is the node on file, or that leaf without
\* the keys Delete took from it; it is no node that had the slot before and no
\* renewed one: Commit invalidates an address before its slot can hold another
\* node, and a renewed node has no entry under an address of the tree.
CacheCurrent ==
  \A s \in Slots : tree[s] # 0 => cache[s] \in {0, index[s], Reduced(index[s])}
CacheCoherent == "index" \notin failed => CacheCurrent

\* Copy on write all the way up: the root on file is part of its tree and no
\* node below it is younger than it, so that it leads to all of them, whatever
\* failed before.
RootNewest ==
  metadata # 0 =>
    /\ durable[metadata] # 0
    /\ \A s \in Slots : durable[s] <= durable[metadata]

\* With writes of nodes that fail, the tree on file is damaged only through a
\* slot that the volatile node of a failed commit gave back: a slot that is
\* being written while the working tree or the freed list holds it too.
DamageNeedsTwoOwners ==
  [][\A s \in Slots :
       "metadata" \notin failed /\ durable[s] # 0 /\ index'[s] # index[s]
         => s \in toWrite /\ s \in Pages(tree) \cup freed]_vars
=============================================================================
