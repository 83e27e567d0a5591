----------------------------- MODULE AppendTree -----------------------------
(***************************************************************************)
(* The B+ tree of File_System_ES/Append with its nodes: BPlusTree<T>,      *)
(* Node<T>, the part of Node_Factory<T> that reads, writes and copies      *)
(* nodes, and the addresses Pending_Changes<T> gives at Commit.            *)
(*                                                                         *)
(* Node objects are numbers in DOMAIN heap; 0 is null.  A node keeps the   *)
(* whole arrays of the code, what lies beyond Key_Num included.  A pointer *)
(* of a leaf is the address of a data record; the record of a key is       *)
(* written once, by the Put that inserts the key, and is named by the key  *)
(* here.  The steps inside Commit, and the process dying between them, are *)
(* in AppendCommit.tla; here a commit is one step.                         *)
(***************************************************************************)
EXTENDS SlotSpace, Integers, Sequences, SequencesExt, FiniteSetsExt

CONSTANTS
  Keys,          \* keys used; 0 is default(T), which fills unused positions
  Size,          \* order of the tree: keys a node has room for
  MaxSlot,       \* bound: slots of the index file
  MaxCommits,    \* bound: commits before the files are left alone
  Deletes,       \* TRUE: Delete is called as well
  Overcopied     \* keys beyond Key_Num that To_Buffer of the serializer copies: 1 for
                 \* Int_Serializer and Long_Serializer, 0 for the others

ASSUME SizeAssumption == Size \in Nat /\ Size >= 3
ASSUME OvercopiedAssumption == Overcopied \in {0, 1}
ASSUME KeysAssumption == Keys \subseteq Nat
ASSUME BoundsAssumption == MaxSlot \in Nat /\ MaxCommits \in Nat

VARIABLES
  heap,       \* node objects reachable from the working root
  root,       \* Uncommitted_Root if there is one, else Root
  pending,    \* Has_Pending_Changes
  cache,      \* Cache_LRU: address -> node
  disk,       \* index file: address -> node as written
  metadata,   \* root address on file
  freed,      \* Freed_Empty_Slots
  free,       \* slots of Empty_Slots
  pointer,    \* _index_Pointer
  commits     \* commits so far

vars == <<heap, root, pending, cache, disk, metadata, freed, free, pointer, commits>>

Slots == 1 .. MaxSlot
\* new Node(factory, size, isLeaf); line is the address under which the cache
\* holds this very object, 0 when it does not.
New_Node(isLeaf) ==
  [leaf |-> isLeaf, num |-> 0,
   keys |-> [i \in 0 .. Size - 1 |-> 0], ptrs |-> [i \in 0 .. Size |-> 0],
   kids |-> [i \in 0 .. Size |-> 0],
   parent |-> 0, addr |-> 0, vol |-> TRUE, line |-> 0]

\* What zero bytes are read as: a slot that was never written, and what lies
\* beyond the end of the file.  It has no keys and is not valid.
NoLine ==
  [leaf |-> FALSE, num |-> 0, keys |-> New_Node(FALSE).keys, ptrs |-> New_Node(FALSE).ptrs]
NoFile == [s \in Slots |-> NoLine]
Line(file, address) == IF address \in Slots THEN file[address] ELSE NoLine

New_Id(h) == CHOOSE n \in 1 .. Cardinality(DOMAIN h) + 1 : n \notin DOMAIN h
With(f, x, y) == [z \in DOMAIN f \cup {x} |-> IF z = x THEN y ELSE f[z]]

\* What the cache keeps of a node, and Create_New_One_Detached_Like_This copies.
Content(n) == [leaf |-> n.leaf, num |-> n.num, keys |-> n.keys, ptrs |-> n.ptrs]

\* To_Bytes_In_Buffer writes Key_Num keys, or one more, and Key_Num + 1
\* pointers; the rest of the slot is zero.  From_Bytes reads all the keys and as
\* many pointers as were written.
Written(n) ==
  [leaf |-> n.leaf, num |-> n.num,
   keys |-> [i \in DOMAIN n.keys |-> IF i < n.num + Overcopied THEN n.keys[i] ELSE 0],
   ptrs |-> [i \in DOMAIN n.ptrs |-> IF i <= n.num THEN n.ptrs[i] ELSE 0]]

\* A node read from the cache or the file, attached to the tree.
Node_From(content, parent, address, line) ==
  [leaf |-> content.leaf, num |-> content.num, keys |-> content.keys, ptrs |-> content.ptrs,
   kids |-> [i \in 0 .. Size |-> 0],
   parent |-> parent, addr |-> address, vol |-> FALSE, line |-> line]

\* A cache line that is an object of the tree changes with it.
Synchronised(h, c) ==
  [a \in Slots |->
     IF \E n \in DOMAIN h : h[n].line = a
     THEN Content(h[CHOOSE n \in DOMAIN h : h[n].line = a])
     ELSE c[a]]

-----------------------------------------------------------------------------
\* Finding a leaf

\* A loop whose body is Round: m after n rounds, which is the one element of
\* after[n].
Iterated(Round(_), m, n) ==
  LET after[r \in Nat] == IF r = 0 THEN {m} ELSE {Round(x) : x \in after[r - 1]}
  IN CHOOSE last \in after[n] : TRUE

\* A path passes nodes in memory, and below them nodes in slots, each once.
Nodes_On_A_Path == Cardinality(DOMAIN heap) + MaxSlot

\* Mutant of Child_Index: the key that is found is not passed.
Child_Index_Before(n, key) == Cardinality({i \in 0 .. n.num - 1 : n.keys[i] < key})

\* The child to follow: BinarySearch among the first Key_Num keys, and one
\* further when the key itself is found.
Child_Index(n, key) == Cardinality({i \in 0 .. n.num - 1 : n.keys[i] <= key})

\* Read_Node_From_Pointer: the child comes from the cache as a copy, or from the
\* file and then the cache holds the object itself.
Read_Node_From_Pointer(m, parent, i) ==
  LET address == m.heap[parent].ptrs[i]
      id == New_Id(m.heap)
      hit == Line(m.cache, address) # NoLine
      content == Line(IF hit THEN m.cache ELSE disk, address)
      child == Node_From(content, parent, address, IF hit THEN 0 ELSE address)
  IN [heap |-> With([m.heap EXCEPT ![parent].kids[i] = id], id, child),
      cache |-> [m.cache EXCEPT ![address] = content],
      leaf |-> id]

\* One round of the loop of Find_Leaf_Node; a node without keys makes it throw.
Find_Round(m, key) ==
  LET n == m.heap[m.leaf]
      i == Child_Index(n, key)
      down == IF n.kids[i] # 0
              THEN [m EXCEPT !.leaf = n.kids[i]]
              ELSE Read_Node_From_Pointer(m, m.leaf, i)
  IN IF m.leaf = 0 \/ n.leaf THEN m
     ELSE IF down.heap[down.leaf].num = 0 THEN [down EXCEPT !.leaf = 0]
     ELSE down

Find_Leaf_Node(key) ==
  LET Round(m) == Find_Round(m, key) IN
  Iterated(Round, [heap |-> heap, cache |-> cache, leaf |-> root], Nodes_On_A_Path)

Found_Leaf(walk) == walk.leaf # 0 /\ walk.heap[walk.leaf].leaf

Has_Key(n, key) == \E i \in 0 .. n.num - 1 : n.keys[i] = key

\* The outcome of a Get that throws.
NotFound == -1

\* Mutant of Get_Data_Address: the pointer left of the key.
Get_Left_Address(n, key) ==
  LET found == {i \in DOMAIN n.keys : n.keys[i] = key} IN
  IF found = {} THEN NotFound ELSE n.ptrs[Min(found)]

\* Get_Data_Address looks at every position of Keys, used or not.
Get_Data_Address(n, key) ==
  LET found == {i \in DOMAIN n.keys : n.keys[i] = key} IN
  IF found = {} THEN NotFound ELSE n.ptrs[Min(found) + 1]

-----------------------------------------------------------------------------
\* Inserting in nodes

\* f with value put at position at, and what was there up to last - 1 moved up.
Shifted(f, at, last, value) ==
  [i \in DOMAIN f |-> IF i = at THEN value ELSE IF at < i /\ i <= last THEN f[i - 1] ELSE f[i]]

\* Node.Insert_Key.
Grown(n, key, address, child) ==
  LET x == Cardinality({i \in 0 .. n.num - 1 : n.keys[i] < key}) IN
  [n EXCEPT !.keys = Shifted(n.keys, x, n.num, key),
            !.ptrs = Shifted(n.ptrs, x + 1, n.num + 1, address),
            !.kids = Shifted(n.kids, x + 1, n.num + 1, child),
            !.num = n.num + 1]
Insert_Key(h, id, key, address, child) ==
  LET inserted == [h EXCEPT ![id] = Grown(@, key, address, child)]
  IN IF child = 0 THEN inserted ELSE [inserted EXCEPT ![child].parent = id]

\* Renew_Node_And_Dispose_Space.
Renewed(n) == [n EXCEPT !.vol = TRUE, !.addr = 0]
Renew(m, id) ==
  [m EXCEPT !.freed = @ \cup ({m.heap[id].addr} \ {0}),
            !.heap = [m.heap EXCEPT ![id] = Renewed(@)]]

\* The loop at the end of Insert_in_node: node goes up to the root.
Renew_Round(m) ==
  LET parent == m.heap[m.node].parent IN
  IF parent = 0 THEN m ELSE [Renew(m, parent) EXCEPT !.node = parent]

Renew_Ancestors(m) ==
  LET top == Iterated(Renew_Round, m, Cardinality(DOMAIN m.heap)) IN
  [top EXCEPT !.root = top.node, !.node = 0]

\* Mutant of Children_Moved: the children keep the parent they had.
Children_Left(h, moved, parent) == h

\* The children that Split moves get the new node for parent.
Children_Moved(h, moved, parent) ==
  [n \in DOMAIN h |-> IF n \in moved THEN [h[n] EXCEPT !.parent = parent] ELSE h[n]]

\* Node.Split: the upper keys and children move to a new node on the right.  The
\* left one keeps its old keys beyond Key_Num, and its first pointer is the address
\* of the new node, which has none yet.
Half == Size \div 2
Upper(f, count) == [i \in DOMAIN f |-> IF i < count THEN f[i + Half + 1] ELSE 0]

Left_Part(n) ==
  IF n.leaf THEN [n EXCEPT !.num = Half + 1, !.ptrs = [n.ptrs EXCEPT ![0] = 0]]
  ELSE [n EXCEPT !.num = Half]

Right_Part(n) ==
  LET count == Size - Half - 1
      ptrs == Upper(n.ptrs, count + 1)
  IN [leaf |-> n.leaf, num |-> count, keys |-> Upper(n.keys, count),
      ptrs |-> IF n.leaf THEN [ptrs EXCEPT ![0] = n.ptrs[0]] ELSE ptrs,
      kids |-> Upper(n.kids, count + 1),
      parent |-> n.parent, addr |-> 0, vol |-> TRUE, line |-> 0]

Split(h, id) ==
  LET n == h[id]
      right == New_Id(h)
      moved == {Right_Part(n).kids[i] : i \in 0 .. Size} \ {0}
      parted == With([h EXCEPT ![id] = Left_Part(n)], right, Right_Part(n))
  IN [heap |-> Children_Moved(parted, moved, right),
      right |-> right,
      mid |-> n.keys[IF n.leaf THEN Half + 1 ELSE Half]]

\* The root above two nodes that were one.
New_Root(left, right, key) ==
  [New_Node(FALSE) EXCEPT
     !.num = 1,
     !.keys = [i \in 0 .. Size - 1 |-> IF i = 0 THEN key ELSE 0],
     !.kids = [i \in 0 .. Size |-> IF i = 0 THEN left ELSE IF i = 1 THEN right ELSE 0]]
Raised(h, left, right, key) ==
  LET top == New_Id(h) IN
  With(Children_Moved(h, {left, right}, top), top, New_Root(left, right, key))

\* One call of BPlusTree.Insert_in_node: w.node gets a key and, when that fills
\* it, is split; the next call is for its parent, up to a new root.  When it is
\* not full its ancestors are renewed.  Node 0 is no call.
Insert_Round(w) ==
  LET renewed == Renew(w, w.node)
      inserted == [renewed EXCEPT !.heap = Insert_Key(renewed.heap, w.node, w.key, w.address, w.child)]
      split == Split(inserted.heap, w.node)
      parent == split.heap[w.node].parent
  IN IF w.node = 0 THEN w
     ELSE IF inserted.heap[w.node].num < Size THEN Renew_Ancestors(inserted)
     ELSE IF parent = 0
     THEN [inserted EXCEPT !.heap = Raised(split.heap, w.node, split.right, split.mid),
                           !.root = New_Id(split.heap), !.node = 0]
     ELSE [inserted EXCEPT !.heap = split.heap, !.node = parent,
                           !.key = split.mid, !.address = 0, !.child = split.right]

\* Insert_in_node for a leaf of h: as many calls as there are nodes above it.
Insert_in_node(h, leaf, key, address) ==
  Iterated(Insert_Round,
           [heap |-> h, freed |-> freed, root |-> root,
            node |-> leaf, key |-> key, address |-> address, child |-> 0],
           Cardinality(DOMAIN h))

-----------------------------------------------------------------------------
\* The operations

Init ==
  /\ disk = NoFile /\ metadata = 0 /\ pointer = 1 /\ commits = 0
  /\ heap = [n \in {1} |-> New_Node(TRUE)] /\ root = 1 /\ pending = TRUE
  /\ cache = NoFile /\ freed = {} /\ free = {}

\* The process ends between two operations; the constructor and Init open the
\* files again.  A root with keys is taken, otherwise the tree is a new empty
\* leaf, which is pending.
Reopen ==
  LET line == Line(disk, metadata)
      valid == metadata # 0 /\ line.num > 0
  IN
  /\ heap' = [n \in {1} |-> IF valid
                            THEN [Node_From(line, 0, metadata, 0) EXCEPT !.vol = TRUE]
                            ELSE New_Node(TRUE)]
  /\ root' = 1
  /\ pending' = ~ valid
  /\ cache' = NoFile
  /\ freed' = {} /\ free' = {}
  /\ UNCHANGED <<disk, metadata, pointer, commits>>

\* Nodes read on the way stay in memory and in the cache.
Get(key) ==
  LET walk == Find_Leaf_Node(key) IN
  /\ heap' = walk.heap
  /\ cache' = walk.cache
  /\ UNCHANGED <<root, pending, disk, metadata, freed, free, pointer, commits>>

\* Put of a key that is there changes no node.
Put(key) ==
  LET walk == Find_Leaf_Node(key)
      put == Insert_in_node(walk.heap, walk.leaf, key, key)
  IN /\ Found_Leaf(walk)
     /\ ~ Has_Key(walk.heap[walk.leaf], key)
     /\ heap' = put.heap
     /\ cache' = Synchronised(put.heap, walk.cache)
     /\ freed' = put.freed
     /\ root' = put.root
     /\ pending' = TRUE
     /\ UNCHANGED <<disk, metadata, free, pointer, commits>>

\* Mutant of Removed: one entry too far.
Removed_Late(f, at, last) == [i \in DOMAIN f |-> f[IF at < i /\ i < last THEN i + 1 ELSE i]]

\* Delete_Key_In_Node: what follows position at moves down, up to last.
Removed(f, at, last) == [i \in DOMAIN f |-> f[IF at <= i /\ i < last THEN i + 1 ELSE i]]

\* Delete changes the leaf in memory and renews nothing.
Delete(key) ==
  LET walk == Find_Leaf_Node(key)
      leaf == walk.heap[walk.leaf]
      x == Min({i \in 0 .. leaf.num - 1 : leaf.keys[i] = key})
      without == [leaf EXCEPT !.keys = Removed(leaf.keys, x, leaf.num - 1),
                              !.ptrs = Removed(leaf.ptrs, x + 1, leaf.num),
                              !.num = leaf.num - 1]
      left == [walk.heap EXCEPT ![walk.leaf] = without]
  IN /\ Deletes
     /\ Found_Leaf(walk)
     /\ Has_Key(leaf, key)
     /\ heap' = left
     /\ cache' = Synchronised(left, walk.cache)
     /\ UNCHANGED <<root, pending, disk, metadata, freed, free, pointer, commits>>

\* Find_All_Pending_Nodes_From, in the order Update_Addresses_From gives them
\* addresses: a node before its children, and only through volatile nodes.  todo
\* is what the calls under way have still to look at.
Find_Pending_Round(v) ==
  LET id == Head(v.todo)
      kids == [i \in 1 .. heap[id].num + 1 |-> heap[id].kids[i - 1]]
  IN IF v.todo = <<>> THEN v
     ELSE IF id = 0 \/ ~ heap[id].vol THEN [v EXCEPT !.todo = Tail(@)]
     ELSE [found |-> Append(v.found, id), todo |-> kids \o Tail(v.todo)]

Pending_Nodes ==
  Iterated(Find_Pending_Round, [found |-> <<>>, todo |-> <<root>>],
           1 + Cardinality(DOMAIN heap) * Size).found

\* Mutant of Invalidated: the cache keeps the nodes of the slots.
Kept_Cached(c, addresses) == c

\* Invalidate for each of the addresses.
Invalidated(c, addresses) == [s \in Slots |-> IF s \in addresses THEN NoLine ELSE c[s]]

\* BPlusTree.Commit and Pending_Changes.Commit: the freed addresses leave the
\* cache, every volatile node gets an address and goes to the file with the
\* addresses of its children, and Root becomes a copy of the root without
\* children.
Commit ==
  LET volatile == Pending_Nodes IN
  /\ pending
  /\ commits < MaxCommits
  /\ PointerAfter(free, pointer, Len(volatile)) <= MaxSlot + 1
  /\ \E A \in Allocations(free, pointer, Len(volatile)) :
       LET Rank(s) == Cardinality({a \in A : a <= s})
           Address(n) == CHOOSE s \in A : volatile[Rank(s)] = n
           New_Pointer(n, i) ==
             LET kid == heap[n].kids[i] IN
             IF i <= heap[n].num /\ kid \in ToSet(volatile) THEN Address(kid) ELSE heap[n].ptrs[i]
           Assigned(n) == [heap[n] EXCEPT !.addr = Address(n),
                             !.ptrs = [i \in 0 .. Size |-> New_Pointer(n, i)]]
       IN /\ disk' = [s \in Slots |->
                        IF s \in A
                        THEN Written(Assigned(volatile[Rank(s)]))
                        ELSE disk[s]]
          /\ heap' = [n \in {1} |-> [Assigned(root) EXCEPT
                                       !.kids = [i \in 0 .. Size |-> 0], !.line = 0]]
          /\ metadata' = Address(root)
          /\ free' = (free \ A) \cup freed
  /\ root' = 1
  /\ pending' = FALSE
  /\ cache' = Invalidated(cache, freed)
  /\ freed' = {}
  /\ pointer' = PointerAfter(free, pointer, Len(volatile))
  /\ commits' = commits + 1

Next ==
  \/ Reopen
  \/ \E key \in Keys : Get(key) \/ Put(key) \/ Delete(key)
  \/ Commit

Spec == Init /\ [][Next]_vars

-----------------------------------------------------------------------------
\* Properties

\* Parents and children in memory point at each other, a child that is on file
\* is where its parent says, and above a volatile node all are volatile: renewing
\* goes up by Parent, and Commit finds volatile nodes and updates pointers
\* through Children, whatever splits moved in between.
LinksAgree ==
  \A id \in DOMAIN heap :
    /\ id = root => heap[id].parent = 0
    /\ \A i \in 0 .. heap[id].num :
         LET kid == heap[id].kids[i] IN
         kid # 0 =>
           /\ heap[kid].parent = id
           /\ IF heap[kid].vol THEN heap[id].vol ELSE heap[kid].addr = heap[id].ptrs[i]

\* The child a walk would reach, read or not.
Kid(n, i) ==
  IF n.kids[i] # 0 THEN heap[n.kids[i]]
  ELSE LET address == n.ptrs[i] IN
       Node_From(Line(IF Line(cache, address) # NoLine THEN cache ELSE disk, address), 0, address, 0)

\* What is below a node: each child with its depth, and with the keys that the
\* separators around it leave of those that belong below the node.
Children_Of(visit) ==
  LET n == visit.node
      Between(i) == {key \in visit.keys : /\ i > 0 => n.keys[i - 1] <= key
                                          /\ i < n.num => key < n.keys[i]}
  IN IF n.leaf THEN {}
     ELSE {[node |-> Kid(n, i), keys |-> Between(i), depth |-> visit.depth + 1] : i \in 0 .. n.num}

\* Every node of the tree, level by level.
Visits ==
  LET Round(m) == [seen |-> m.seen \cup m.last, last |-> UNION {Children_Of(visit) : visit \in m.last}]
      top == [node |-> heap[root], keys |-> Keys, depth |-> 0]
  IN Iterated(Round, [seen |-> {}, last |-> {top}], Nodes_On_A_Path).seen

\* The tree a reader walks, in memory, in the cache and on file together, is a
\* search tree: keys in order, each below the separators that lead to it, all
\* leaves at one depth, no node left full, and none empty but the root.
SearchTree ==
  /\ \A visit \in Visits :
       LET n == visit.node IN
       /\ \A i \in 0 .. n.num - 1 : n.keys[i] \in visit.keys
       /\ \A i \in 1 .. n.num - 1 : n.keys[i - 1] < n.keys[i]
       /\ n.num < Size
       /\ n.num = 0 => visit.depth = 0
  /\ \A v, w \in Visits : v.node.leaf /\ w.node.leaf => v.depth = w.depth

\* The node a walk ends at: a leaf, or one without keys.
Leaf_Under(key) ==
  LET Round(n) == IF n.leaf \/ n.num = 0 THEN n ELSE Kid(n, Child_Index(n, key)) IN
  Iterated(Round, heap[root], Nodes_On_A_Path)

\* The same in a process that opens the files as they are.
Stored_Leaf(key) ==
  LET Round(n) == IF n.leaf \/ n.num = 0 THEN n ELSE Line(disk, n.ptrs[Child_Index(n, key)]) IN
  Iterated(Round, Line(disk, metadata), MaxSlot)

\* What Get returns, now or in a process that opens the files as they are: the
\* record of some key, or NotFound when it throws.  It does not mind a root that is empty.
Result(key) ==
  LET leaf == Leaf_Under(key) IN
  IF ~ leaf.leaf \/ (leaf.num = 0 /\ leaf # heap[root]) THEN NotFound
  ELSE Get_Data_Address(leaf, key)
File_Result(key) ==
  LET leaf == Stored_Leaf(key) IN
  IF ~ leaf.leaf \/ leaf.num = 0 THEN NotFound ELSE Get_Data_Address(leaf, key)

\* Get returns the record of the key it was asked for, or throws: keys and
\* pointers of a node move together, and what is left of old keys beyond
\* Key_Num leads to no other record.
NeverAnotherRecord ==
  \A key \in Keys : {Result(key), File_Result(key)} \subseteq {NotFound, key}

Readable == {key \in Keys : Result(key) = key}
Stored == {key \in Keys : File_Result(key) = key}

\* Keys among the first Key_Num of the leaf their walk ends at.
Present == {key \in Keys : Has_Key(Leaf_Under(key), key)}

\* Delete takes its key, and no other, and what is left can be read.
DeleteIsLocal ==
  [][\A key \in Keys :
       Delete(key) => Present' = Present \ {key} /\ Present' \subseteq Readable']_vars

\* Without Delete, the tree is the set of keys, each operation the one it is for:
\* Put adds its key and no other, Commit makes exactly the working keys survive,
\* reopening brings back exactly those, and nodes that a Get reads change nothing,
\* whichever nodes were split and whichever slots and cache lines are used again.
\* A behaviour with these steps is one of Store!Spec.
Store == INSTANCE KeyStore WITH working <- Readable, stored <- Stored
AsTheStore ==
  /\ \A key \in Keys : Put(key) => Store!Put(key)
  /\ Commit => Store!Commit
  /\ Reopen => Store!Restart
  /\ heap' # heap /\ (\E key \in Keys : Get(key)) => UNCHANGED Store!vars
ImplementsKeyStore == Store!Init /\ [][AsTheStore]_vars
=============================================================================
