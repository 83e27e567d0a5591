-------------------------- MODULE AppendTreeProofs --------------------------
(***************************************************************************)
(* Theorems about AppendTree.tla, for every order of the tree, every set   *)
(* of keys and every history of calls, restarts included.                  *)
(*                                                                         *)
(* First the loops of the code, then what a single node keeps, then the    *)
(* links between nodes, through the reads of a walk and the splits of an   *)
(* insertion; after them one lemma for each operation, and the theorems.   *)
(* The order of keys is in AppendTreeOrderProofs.                          *)
(***************************************************************************)
EXTENDS AppendTree, SequenceTheorems, FiniteSetTheorems, WellFoundedInduction, TLAPS

-----------------------------------------------------------------------------
\* Numbers

\* A set of numbers that is not empty has a least one.
LEMMA LeastNumber ==
  ASSUME NEW S \in SUBSET Nat, S # {}
  PROVE  \E m \in S : \A k \in S : m <= k
<1> DEFINE Less == OpToRel(<, Nat)
<1>1. PICK m \in S : \A k \in S : ~ (<<k, m>> \in Less)
  BY NatLessThanWellFounded, WFMin
<1>2. \A i, j \in Nat : i < j => <<i, j>> \in Less
  BY SMT DEF OpToRel
<1> HIDE DEF Less
<1>3. \A k \in S : ~ (k < m)
  BY <1>1, <1>2
<1>4. QED
  BY <1>3

\* What holds of 0 and goes from a number to the next holds of all.
LEMMA NumberInduction ==
  ASSUME NEW G, 0 \in G, \A k \in Nat : k \in G => k + 1 \in G
  PROVE  \A n \in Nat : n \in G
<1> SUFFICES ASSUME NEW n \in Nat, n \notin G
             PROVE  FALSE
  OBVIOUS
<1>1. PICK m \in Nat \ G : \A k \in Nat \ G : m <= k
  BY LeastNumber
<1>2. m # 0 /\ m - 1 \in Nat /\ m - 1 \in G
  BY <1>1
<1>3. QED
  BY <1>1, <1>2

-----------------------------------------------------------------------------
\* Loops

\* The states a loop with the body next is in after its rounds, in the form
\* Iterated has them.
IsLoop(S, m, next, f) ==
  /\ f = [r \in Nat |-> IF r = 0 THEN {m} ELSE {next[x] : x \in f[r - 1]}]
  /\ \A r \in Nat : f[r] # {} /\ f[r] \subseteq S

\* There are such states: the ends of the sequences of rounds.
LEMMA LoopExists ==
  ASSUME NEW S, NEW m \in S, NEW next \in [S -> S]
  PROVE  \E f : IsLoop(S, m, next, f)
<1> DEFINE Run(s, r) == s[0] = m /\ \A j \in 0 .. r - 1 : s[j + 1] = next[s[j]]
           f == [r \in Nat |-> {s[r] : s \in {t \in [0 .. r -> S] : Run(t, r)}}]
<1>0. \A r \in Nat : f[r] = {s[r] : s \in {t \in [0 .. r -> S] : Run(t, r)}}
  OBVIOUS
<1>1. f[0] = {m}
  <2> DEFINE t == [j \in 0 .. 0 |-> m]
  <2>1. \A s \in [0 .. 0 -> S] : Run(s, 0) => s[0] = m
    OBVIOUS
  <2>2. t \in [0 .. 0 -> S] /\ Run(t, 0) /\ t[0] = m
    OBVIOUS
  <2>3. f[0] = {s[0] : s \in {u \in [0 .. 0 -> S] : Run(u, 0)}}
    BY <1>0
  <2> HIDE DEF t, f, Run
  <2>4. QED
    BY <2>1, <2>2, <2>3
<1>2. ASSUME NEW r \in Nat
      PROVE  f[r + 1] = {next[x] : x \in f[r]}
  <2>1. ASSUME NEW y \in f[r + 1]
        PROVE  y \in {next[x] : x \in f[r]}
    <3>1. PICK s \in [0 .. r + 1 -> S] : Run(s, r + 1) /\ y = s[r + 1]
      BY <2>1
    <3> DEFINE t == [j \in 0 .. r |-> s[j]]
    <3>2. t \in [0 .. r -> S] /\ t[r] = s[r]
      OBVIOUS
    <3>3. Run(t, r)
      <4>1. \A j \in 0 .. r : t[j] = s[j]
        OBVIOUS
      <4>2. \A j \in 0 .. r - 1 : j \in 0 .. r /\ j + 1 \in 0 .. r /\ j \in 0 .. (r + 1) - 1
        OBVIOUS
      <4>3. s[0] = m /\ \A j \in 0 .. (r + 1) - 1 : s[j + 1] = next[s[j]]
        BY <3>1
      <4> HIDE DEF t
      <4>4. QED
        BY <4>1, <4>2, <4>3
    <3>4. s[r] \in f[r]
      <4> HIDE DEF t, Run
      <4>1. QED
        BY <1>0, <3>2, <3>3
    <3>5. y = next[s[r]]
      BY <3>1
    <3>6. QED
      BY <3>4, <3>5
  <2>2. ASSUME NEW x \in f[r]
        PROVE  next[x] \in f[r + 1]
    <3>1. PICK s \in [0 .. r -> S] : Run(s, r) /\ x = s[r]
      BY <2>2
    <3> DEFINE t == [j \in 0 .. r + 1 |-> IF j = r + 1 THEN next[s[r]] ELSE s[j]]
    <3>2. t \in [0 .. r + 1 -> S] /\ t[r + 1] = next[x]
      BY <3>1
    <3>3. Run(t, r + 1)
      <4>1. \A j \in 0 .. r : t[j] = s[j]
        OBVIOUS
      <4>2. \A j \in 0 .. (r + 1) - 1 :
              j \in 0 .. r /\ ((j \in 0 .. r - 1 /\ j + 1 \in 0 .. r) \/ j = r)
        OBVIOUS
      <4>3. s[0] = m /\ \A j \in 0 .. r - 1 : s[j + 1] = next[s[j]]
        BY <3>1
      <4>4. t[r + 1] = next[s[r]] /\ 0 \in 0 .. r
        OBVIOUS
      <4> HIDE DEF t
      <4>5. QED
        BY <4>1, <4>2, <4>3, <4>4
    <3>4. QED
      <4> HIDE DEF t, Run
      <4>1. r + 1 \in Nat
        OBVIOUS
      <4>2. QED
        BY <1>0, <3>2, <3>3, <4>1
  <2> HIDE DEF f
  <2>3. QED
    BY <2>1, <2>2
<1>3. \A r \in Nat : f[r] \subseteq S
  OBVIOUS
<1>4. DOMAIN f = Nat
  OBVIOUS
<1> DEFINE g == [r \in Nat |-> IF r = 0 THEN {m} ELSE {next[x] : x \in f[r - 1]}]
<1>5. f = g
  <2> HIDE DEF f
  <2>1. ASSUME NEW r \in Nat
        PROVE  f[r] = g[r]
    <3>1. CASE r = 0
      BY <1>1, <3>1
    <3>2. CASE r # 0
      <4>1. r - 1 \in Nat /\ (r - 1) + 1 = r
        BY <3>2
      <4>2. f[(r - 1) + 1] = {next[x] : x \in f[r - 1]}
        BY <1>2, <4>1
      <4>3. QED
        BY <3>2, <4>1, <4>2
    <3>3. QED
      BY <3>1, <3>2
  <2>2. f = [r \in Nat |-> f[r]]
    <3>1. [r \in Nat |-> f[r]] = f
      BY <1>4 DEF f
    <3>2. QED
      BY <3>1
  <2> HIDE DEF g
  <2>3. g = [r \in Nat |-> g[r]]
    BY DEF g
  <2>4. QED
    BY <2>1, <2>2, <2>3
<1> HIDE DEF f
<1>6. \A r \in Nat : f[r] # {}
  <2> DEFINE G == {r \in Nat : f[r] # {}}
  <2>1. 0 \in G
    BY <1>1
  <2>2. ASSUME NEW r \in Nat, r \in G
        PROVE  r + 1 \in G
    BY <1>2, <2>2
  <2>3. \A r \in Nat : r \in G
    <3> HIDE DEF G
    <3>1. QED
      BY <2>1, <2>2, NumberInduction
  <2>4. QED
    BY <2>3
<1>7. IsLoop(S, m, next, f)
  BY <1>3, <1>5, <1>6 DEF IsLoop
<1>8. QED
  BY <1>7

\* What starts in a set that the body of a loop does not leave stays there.
LEMMA LoopStays ==
  ASSUME NEW S, NEW m \in S, NEW next \in [S -> S], NEW after, NEW n \in Nat,
         after[0] = {m},
         \A r \in Nat : after[r] \subseteq S => after[r + 1] = {next[x] : x \in after[r]}
  PROVE  (CHOOSE last \in after[n] : TRUE) \in S
<1> DEFINE G == {r \in Nat : after[r] # {} /\ after[r] \subseteq S}
<1>1. 0 \in G
  OBVIOUS
<1>2. ASSUME NEW r \in Nat, r \in G
      PROVE  r + 1 \in G
  BY <1>2
<1>3. n \in G
  <2> HIDE DEF G
  <2>1. QED
    BY <1>1, <1>2, NumberInduction
<1>4. QED
  BY <1>3

\* When each round of a loop goes from one set of a family to the one before, the
\* loop ends in the first.
LEMMA LoopEnds ==
  ASSUME NEW S, NEW next \in [S -> S], NEW after, NEW n \in Nat, NEW F \in [Nat -> SUBSET S],
         after[0] # {} /\ after[0] \subseteq F[n],
         \A r \in Nat : after[r] \subseteq S => after[r + 1] = {next[x] : x \in after[r]},
         \A k \in Nat : \A x \in F[k + 1] : next[x] \in F[k]
  PROVE  (CHOOSE last \in after[n] : TRUE) \in F[0]
<1> DEFINE G == {r \in Nat : r <= n => after[r] # {} /\ after[r] \subseteq F[n - r]}
<1>1. 0 \in G
  OBVIOUS
<1>2. ASSUME NEW r \in Nat, r \in G
      PROVE  r + 1 \in G
  <2> SUFFICES ASSUME r + 1 <= n
               PROVE  after[r + 1] # {} /\ after[r + 1] \subseteq F[n - (r + 1)]
    OBVIOUS
  <2> DEFINE k == n - (r + 1)
  <2>1. r <= n /\ k \in Nat /\ n - r = k + 1
    OBVIOUS
  <2> HIDE DEF k
  <2>2. after[r] # {} /\ after[r] \subseteq F[k + 1]
    BY <1>2, <2>1
  <2>3. F[k + 1] \subseteq S
    BY <2>1
  <2>4. after[r + 1] = {next[x] : x \in after[r]}
    BY <2>2, <2>3
  <2>5. after[r + 1] # {} /\ after[r + 1] \subseteq F[k]
    BY <2>1, <2>2, <2>4
  <2>6. QED
    BY <2>5 DEF k
<1>3. n \in G
  <2> HIDE DEF G
  <2>1. QED
    BY <1>1, <1>2, NumberInduction
<1>4. after[n] # {} /\ after[n] \subseteq F[n - n] /\ n - n = 0
  BY <1>3
<1>5. QED
  BY <1>4

-----------------------------------------------------------------------------
\* Nodes and heaps.  P is whatever addresses and pointers are: nothing is said of
\* them here, so that what follows holds of a file in any state.

\* What every node is like.
NodesOf(P) ==
  [leaf : BOOLEAN, num : 0 .. Size, keys : [0 .. Size - 1 -> Nat], ptrs : [0 .. Size -> P],
   kids : [0 .. Size -> Nat], parent : Nat, addr : P, vol : BOOLEAN, line : P]

\* Right of a key in a leaf is its record; only a key beyond Key_Num that a
\* serializer has copied has no pointer instead.
Owned(n) ==
  \A i \in 0 .. Size - 1 :
    \/ n.ptrs[i + 1] = n.keys[i]
    \/ Overcopied = 1 /\ i >= n.num /\ n.ptrs[i + 1] = 0

\* A leaf owns its records and has no children.
Sound(n) == n.leaf => Owned(n) /\ \A i \in 0 .. Size : n.kids[i] = 0

\* What a slot or a cache line may hold.
LinesOf(P) ==
  {l \in [leaf : BOOLEAN, num : 0 .. Size - 1,
          keys : [0 .. Size - 1 -> Nat], ptrs : [0 .. Size -> P]] : l.leaf => Owned(l)}

\* An inner node with a key.
Inner(h, id) == id \in DOMAIN h /\ ~ h[id].leaf /\ h[id].num # 0

\* A heap: every node sound, its children in the heap, and its parent an inner
\* node with a key.
IsHeap(P, h) ==
  /\ DOMAIN h \subseteq Nat \ {0} /\ IsFiniteSet(DOMAIN h)
  /\ h \in [DOMAIN h -> NodesOf(P)]
  /\ \A id \in DOMAIN h :
       /\ Sound(h[id])
       /\ \A i \in 0 .. Size : h[id].kids[i] \in DOMAIN h \cup {0}
       /\ h[id].parent # 0 => Inner(h, h[id].parent)

\* No node is full.
Room(h) == \A id \in DOMAIN h : h[id].num < Size

\* The heaps between two operations.
HeapsOf(P) == {h \in UNION {[D -> NodesOf(P)] : D \in SUBSET Nat} : IsHeap(P, h) /\ Room(h)}

\* What the proofs need of the numbers of the code.
LEMMA Numbers ==
  /\ Size \in Nat /\ Size >= 3 /\ Size # 0 /\ 0 \in 0 .. Size - 1 /\ 0 \in 0 .. Size
  /\ Overcopied \in {0, 1}
  /\ \A i \in 0 .. Size - 1 : i \in 0 .. Size /\ i + 1 \in 0 .. Size
  /\ 0 \in 0 .. Size - 1
BY SizeAssumption, OvercopiedAssumption

\* A new node.
LEMMA NewNode ==
  ASSUME NEW P, 0 \in P, NEW leaf \in BOOLEAN
  PROVE  New_Node(leaf) \in NodesOf(P) /\ Sound(New_Node(leaf))
BY Numbers DEF New_Node, NodesOf, Sound, Owned

\* A blank slot.
LEMMA BlankLine == ASSUME NEW P, 0 \in P PROVE NoLine \in LinesOf(P)
BY Numbers DEF NoLine, New_Node, LinesOf

\* A node that is new has a number of its own.
LEMMA NewIdIsNew ==
  ASSUME NEW h, DOMAIN h \subseteq Nat \ {0}, IsFiniteSet(DOMAIN h)
  PROVE  New_Id(h) \in Nat \ {0} /\ New_Id(h) \notin DOMAIN h
<1> DEFINE n == Cardinality(DOMAIN h)
<1>1. n \in Nat
  BY FS_CardinalityType
<1>2. \E i \in 1 .. n + 1 : i \notin DOMAIN h
  <2> SUFFICES ASSUME \A i \in 1 .. n + 1 : i \in DOMAIN h
               PROVE  FALSE
    OBVIOUS
  <2>1. (1 .. n + 1) \subseteq DOMAIN h
    OBVIOUS
  <2>2. Cardinality(1 .. n + 1) <= n
    BY <2>1, FS_Subset
  <2>3. Cardinality(1 .. n + 1) = n + 1
    BY <1>1, FS_Interval
  <2>4. QED
    BY <1>1, <2>2, <2>3
<1>3. New_Id(h) \in 1 .. n + 1 /\ New_Id(h) \notin DOMAIN h
  BY <1>2 DEF New_Id
<1>4. QED
  BY <1>1, <1>3

\* A node added to a heap.
LEMMA WithShape ==
  ASSUME NEW f, NEW x, NEW y
  PROVE  /\ DOMAIN With(f, x, y) = DOMAIN f \cup {x}
         /\ With(f, x, y)[x] = y
         /\ \A z \in DOMAIN f \ {x} : With(f, x, y)[z] = f[z]
         /\ With(f, x, y) = [z \in DOMAIN f \cup {x} |-> With(f, x, y)[z]]
BY DEF With

-----------------------------------------------------------------------------
\* Finding a leaf

\* Positions below num that are counted are at most num.
LEMMA CountOfPositions ==
  ASSUME NEW num \in Nat, NEW B \in SUBSET (0 .. num - 1)
  PROVE  Cardinality(B) \in 0 .. num
<1>1. IsFiniteSet(0 .. num - 1) /\ Cardinality(0 .. num - 1) = num
  <2>1. CASE num = 0
    <3>1. 0 .. num - 1 = {}
      BY <2>1
    <3>2. QED
      BY <2>1, <3>1, FS_EmptySet
  <2>2. CASE num # 0
    BY <2>2, FS_Interval
  <2>3. QED
    BY <2>1, <2>2
<1>2. IsFiniteSet(B) /\ Cardinality(B) <= num
  BY <1>1, FS_Subset
<1>3. QED
  BY <1>2, FS_CardinalityType

\* The child to follow is one of those a node has room for.
LEMMA ChildIndexInRange ==
  ASSUME NEW n, n.num \in 0 .. Size, NEW key
  PROVE  Child_Index(n, key) \in 0 .. n.num
<1>1. n.num \in Nat
  BY Numbers
<1>2. QED
  BY <1>1, CountOfPositions DEF Child_Index

\* A node read from a line is sound, and has no children in memory.
LEMMA NodeFromLine ==
  ASSUME NEW P, 0 \in P, NEW l \in LinesOf(P), NEW parent \in Nat, NEW a \in P, NEW line \in P
  PROVE  LET n == Node_From(l, parent, a, line) IN
         /\ n \in NodesOf(P) /\ Sound(n) /\ n.num < Size
         /\ n.leaf = l.leaf /\ n.num = l.num /\ n.parent = parent /\ n.addr = a
         /\ \A i \in 0 .. Size : n.kids[i] = 0
<1> DEFINE leaf == l.leaf  num == l.num  keys == l.keys  ptrs == l.ptrs
           n == Node_From(l, parent, a, line)
<1>1. /\ leaf \in BOOLEAN /\ num \in 0 .. Size - 1 /\ (leaf => Owned(l))
      /\ keys \in [0 .. Size - 1 -> Nat] /\ ptrs \in [0 .. Size -> P]
  BY DEF LinesOf
<1>2. num \in 0 .. Size /\ num < Size
  <2> HIDE DEF num
  <2>1. QED
    BY <1>1, Numbers
<1> DEFINE zeros == [i \in 0 .. Size |-> 0]
<1>3. n = [leaf |-> leaf, num |-> num, keys |-> keys, ptrs |-> ptrs, kids |-> zeros,
           parent |-> parent, addr |-> a, vol |-> FALSE, line |-> line]
  BY DEF Node_From
<1>4. zeros \in [0 .. Size -> Nat] /\ \A i \in 0 .. Size : zeros[i] = 0
  OBVIOUS
<1>5. leaf => \A i \in 0 .. Size - 1 : ptrs[i + 1] = keys[i] \/ (Overcopied = 1 /\ i >= num /\ ptrs[i + 1] = 0)
  BY <1>1 DEF Owned
<1> HIDE DEF leaf, num, keys, ptrs, zeros, n
<1>6. n \in NodesOf(P)
  BY <1>1, <1>2, <1>3, <1>4 DEF NodesOf
<1>7. /\ n.leaf = leaf /\ n.num = num /\ n.parent = parent /\ n.addr = a
      /\ n.keys = keys /\ n.ptrs = ptrs /\ n.kids = zeros
  BY <1>3
<1>8. Sound(n)
  BY <1>4, <1>5, <1>7 DEF Sound, Owned
<1>9. QED
  BY <1>2, <1>4, <1>6, <1>7, <1>8 DEF n, leaf, num

\* A node that gets a child.
LEMMA KidSet ==
  ASSUME NEW P, NEW n \in NodesOf(P), NEW i \in 0 .. Size, NEW id \in Nat
  PROVE  LET k == [n EXCEPT !.kids[i] = id] IN
         /\ k \in NodesOf(P) /\ k.leaf = n.leaf /\ k.num = n.num /\ k.parent = n.parent
         /\ k.keys = n.keys /\ k.ptrs = n.ptrs /\ k.vol = n.vol /\ k.addr = n.addr
         /\ \A j \in 0 .. Size : k.kids[j] = IF j = i THEN id ELSE n.kids[j]
BY DEF NodesOf

\* k is h with a child attached below parent.
IsAttached(h, k, parent, i, id, child) ==
  /\ DOMAIN k = DOMAIN h \cup {id} /\ id \notin DOMAIN h /\ id # 0 /\ k[id] = child
  /\ \A x \in DOMAIN h :
       /\ k[x].leaf = h[x].leaf /\ k[x].num = h[x].num /\ k[x].parent = h[x].parent
       /\ k[x].ptrs = h[x].ptrs /\ k[x].vol = h[x].vol /\ k[x].addr = h[x].addr
       /\ \A j \in 0 .. Size :
            k[x].kids[j] = IF x = parent /\ j = i THEN id ELSE h[x].kids[j]

\* A child that was read is attached below an inner node.
LEMMA Attached ==
  ASSUME NEW P, NEW h \in HeapsOf(P), NEW parent, Inner(h, parent), NEW i \in 0 .. Size,
         NEW child \in NodesOf(P), Sound(child), child.num < Size, child.parent = parent,
         \A j \in 0 .. Size : child.kids[j] = 0
  PROVE  LET id == New_Id(h)
             k == With([h EXCEPT ![parent].kids[i] = id], id, child)
         IN k \in HeapsOf(P) /\ IsAttached(h, k, parent, i, id, child)
<1> DEFINE id == New_Id(h)
           g == [h EXCEPT ![parent].kids[i] = id]
           k == With(g, id, child)
           n == h[parent]
<1>1. IsHeap(P, h) /\ Room(h)
  BY DEF HeapsOf
<1>2. id \in Nat \ {0} /\ id \notin DOMAIN h
  BY <1>1, NewIdIsNew DEF IsHeap
<1>3. parent \in DOMAIN h /\ n \in NodesOf(P) /\ ~ n.leaf /\ n.num # 0
  BY <1>1 DEF IsHeap, Inner
<1>4. /\ DOMAIN g = DOMAIN h
      /\ \A x \in DOMAIN h \ {parent} : g[x] = h[x]
      /\ g[parent] = [n EXCEPT !.kids[i] = id]
  BY <1>3
<1> HIDE DEF id, g
<1>0. /\ DOMAIN k = DOMAIN g \cup {id} /\ k[id] = child
      /\ \A x \in DOMAIN g \ {id} : k[x] = g[x]
      /\ k = [x \in DOMAIN g \cup {id} |-> k[x]]
  BY DEF k, With
<1> HIDE DEF k
<1>5. /\ DOMAIN k = DOMAIN h \cup {id} /\ k[id] = child
      /\ \A x \in DOMAIN h \ {parent} : k[x] = h[x]
      /\ k[parent] = [n EXCEPT !.kids[i] = id]
  BY <1>0, <1>2, <1>3, <1>4
<1>6. /\ k[parent] \in NodesOf(P) /\ k[parent].leaf = n.leaf /\ k[parent].num = n.num
      /\ k[parent].parent = n.parent /\ k[parent].ptrs = n.ptrs
      /\ k[parent].vol = n.vol /\ k[parent].addr = n.addr
      /\ \A j \in 0 .. Size : k[parent].kids[j] = IF j = i THEN id ELSE n.kids[j]
  <2>1. id \in Nat
    BY <1>2
  <2> HIDE DEF n
  <2>2. QED
    BY <1>3, <1>5, <2>1, KidSet
<1>7. \A x \in DOMAIN h : k[x].leaf = h[x].leaf /\ k[x].num = h[x].num /\ k[x].parent = h[x].parent
  BY <1>5, <1>6
<1>8. \A p : Inner(h, p) => Inner(k, p)
  BY <1>5, <1>7 DEF Inner
<1>9. \A x \in DOMAIN k : k[x] \in NodesOf(P)
  BY <1>1, <1>5, <1>6 DEF IsHeap
<1>10. k \in [DOMAIN k -> NodesOf(P)]
  <2>1. k = [x \in DOMAIN k |-> k[x]]
    BY <1>0
  <2>2. QED
    BY <1>9, <2>1
<1>11. DOMAIN k \subseteq Nat \ {0} /\ IsFiniteSet(DOMAIN k)
  BY <1>1, <1>2, <1>5, FS_AddElement DEF IsHeap
<1>12. ASSUME NEW x \in DOMAIN k
       PROVE  /\ Sound(k[x]) /\ k[x].num < Size
              /\ \A j \in 0 .. Size : k[x].kids[j] \in DOMAIN k \cup {0}
              /\ k[x].parent # 0 => Inner(k, k[x].parent)
  <2>1. CASE x = id
    BY <1>5, <1>8, <2>1
  <2>2. CASE x = parent
    BY <1>1, <1>3, <1>5, <1>6, <1>8, <2>2 DEF IsHeap, Room, Sound
  <2>3. CASE x \notin {id, parent}
    BY <1>1, <1>5, <1>8, <2>3 DEF IsHeap, Room
  <2>4. QED
    BY <2>1, <2>2, <2>3
<1>13. IsHeap(P, k) /\ Room(k)
  BY <1>10, <1>11, <1>12 DEF IsHeap, Room
<1>14. k \in HeapsOf(P)
  BY <1>10, <1>11, <1>13 DEF HeapsOf
<1>15. IsAttached(h, k, parent, i, id, child)
  BY <1>2, <1>5, <1>6, ZenonT(30) DEF IsAttached
<1>16. QED
  BY <1>14, <1>15 DEF id, g, k

-----------------------------------------------------------------------------
\* Links.  Depths counts down from the root, and parents and children agree.

\* d is how far below a node without parent each node is.
Depths(h, d) ==
  /\ d \in [DOMAIN h -> Nat]
  /\ \A id \in DOMAIN h : /\ d[id] < Cardinality(DOMAIN h)
                          /\ h[id].parent # 0 => d[id] = d[h[id].parent] + 1

\* A child in memory has its parent, is volatile or where its parent says, and is
\* at one position only.
Joined(h) ==
  \A id \in DOMAIN h : \A i \in 0 .. h[id].num :
    LET kid == h[id].kids[i] IN
    kid # 0 => /\ h[kid].parent = id
               /\ h[kid].vol \/ h[kid].addr = h[id].ptrs[i]
               /\ \A j \in 0 .. h[id].num : h[id].kids[j] = kid => j = i

\* Above a volatile node all are volatile, those that x is the parent of excepted.
Risen(h, x) ==
  \A id \in DOMAIN h : h[id].vol /\ h[id].parent \notin {0, x} => h[h[id].parent].vol

\* The links agree; x is a node under way to its new parent, 0 between operations.
Linked(h, d, x) == Depths(h, d) /\ Joined(h) /\ Risen(h, x)
Links(h) == \E d : Linked(h, d, 0)

\* A node that is read is linked to its parent.
LEMMA AttachedLinks ==
  ASSUME NEW P, NEW h \in HeapsOf(P), Links(h), NEW k, NEW w,
         Inner(h, w.parent), w.i \in 0 .. h[w.parent].num, h[w.parent].kids[w.i] = 0,
         IsAttached(h, k, w.parent, w.i, w.id, w.child),
         w.child.parent = w.parent, ~ w.child.vol, w.child.addr = h[w.parent].ptrs[w.i],
         \A j \in 0 .. Size : w.child.kids[j] = 0, w.child.num \in 0 .. Size
  PROVE  Links(k)
<1> DEFINE parent == w.parent  id == w.id  child == w.child  at == w.i
<1>1. /\ IsHeap(P, h) /\ IsFiniteSet(DOMAIN h) /\ parent \in DOMAIN h
      /\ \A x \in DOMAIN h : h[x] \in NodesOf(P) /\ h[x].num \in 0 .. Size
  BY DEF HeapsOf, IsHeap, Inner, NodesOf
<1>2. /\ DOMAIN k = DOMAIN h \cup {id} /\ id \notin DOMAIN h /\ id # 0 /\ k[id] = child
      /\ \A x \in DOMAIN h :
           /\ k[x].leaf = h[x].leaf /\ k[x].num = h[x].num /\ k[x].parent = h[x].parent
           /\ k[x].ptrs = h[x].ptrs /\ k[x].vol = h[x].vol /\ k[x].addr = h[x].addr
           /\ \A j \in 0 .. Size :
                k[x].kids[j] = IF x = parent /\ j = at THEN id ELSE h[x].kids[j]
  BY DEF IsAttached
<1>3. \A x \in DOMAIN h : h[x].parent = 0 \/ h[x].parent \in DOMAIN h
  BY <1>1 DEF IsHeap, Inner
<1>4. PICK d : Linked(h, d, 0)
  BY DEF Links
<1> DEFINE e == [x \in DOMAIN k |-> IF x = id THEN d[parent] + 1 ELSE d[x]]
<1>5. Depths(k, e)
  <2>1. Cardinality(DOMAIN k) = Cardinality(DOMAIN h) + 1 /\ Cardinality(DOMAIN h) \in Nat
    BY <1>1, <1>2, FS_AddElement, FS_CardinalityType, SMTT(30)
  <2>2. d \in [DOMAIN h -> Nat] /\ \A x \in DOMAIN h : d[x] < Cardinality(DOMAIN h)
    BY <1>4 DEF Depths, Linked
  <2>3. e \in [DOMAIN k -> Nat] /\ e[id] = d[parent] + 1 /\ \A x \in DOMAIN h : e[x] = d[x]
    BY <1>1, <1>2, <2>2
  <2> HIDE DEF e
  <2>4. \A x \in DOMAIN k : e[x] < Cardinality(DOMAIN k)
    BY <1>1, <1>2, <2>1, <2>2, <2>3
  <2>5. ASSUME NEW x \in DOMAIN h, h[x].parent # 0
        PROVE  e[x] = e[h[x].parent] + 1
    BY <1>3, <1>4, <2>3, <2>5 DEF Depths, Linked
  <2>6. \A x \in DOMAIN k : k[x].parent # 0 => e[x] = e[k[x].parent] + 1
    BY <1>1, <1>2, <2>3, <2>5
  <2>7. QED
    BY <2>3, <2>4, <2>6 DEF Depths
<1>6. Joined(k)
  <2> SUFFICES ASSUME NEW x \in DOMAIN k, NEW i \in 0 .. k[x].num, k[x].kids[i] # 0
               PROVE  /\ k[k[x].kids[i]].parent = x
                      /\ k[k[x].kids[i]].vol \/ k[k[x].kids[i]].addr = k[x].ptrs[i]
                      /\ \A j \in 0 .. k[x].num : k[x].kids[j] = k[x].kids[i] => j = i
    BY DEF Joined
  <2>0. \A num \in 0 .. Size : \A j \in 0 .. num : j \in 0 .. Size
    BY Numbers
  <2>1. x # id
    BY <1>2, <2>0
  <2>2. /\ x \in DOMAIN h /\ i \in 0 .. h[x].num /\ k[x].num = h[x].num
        /\ \A j \in 0 .. h[x].num : j \in 0 .. Size
    <3>1. x \in DOMAIN h /\ k[x].num = h[x].num /\ h[x].num \in 0 .. Size
      BY <1>1, <1>2, <2>1
    <3>2. QED
      BY <2>0, <3>1
  <2>3. CASE x = parent /\ i = at
    <3>1. k[x].kids[i] = id
      BY <1>2, <2>2, <2>3
    <3>2. \A j \in 0 .. h[x].num : j # at => k[x].kids[j] = h[x].kids[j] /\ h[x].kids[j] # id
      BY <1>1, <1>2, <2>2, <2>3 DEF IsHeap
    <3>3. QED
      BY <1>2, <2>2, <2>3, <3>1, <3>2
  <2>4. CASE ~ (x = parent /\ i = at)
    <3>1. k[x].kids[i] = h[x].kids[i] /\ h[x].kids[i] \in DOMAIN h
      BY <1>1, <1>2, <2>2, <2>4 DEF IsHeap
    <3>2. /\ h[h[x].kids[i]].parent = x
          /\ h[h[x].kids[i]].vol \/ h[h[x].kids[i]].addr = h[x].ptrs[i]
          /\ \A j \in 0 .. h[x].num : h[x].kids[j] = h[x].kids[i] => j = i
      BY <1>4, <2>2, <3>1 DEF Linked, Joined
    <3>3. \A j \in 0 .. h[x].num : k[x].kids[j] = h[x].kids[i] => k[x].kids[j] = h[x].kids[j]
      BY <1>2, <2>2, <3>1
    <3>4. QED
      BY <1>2, <2>2, <3>1, <3>2, <3>3
  <2>5. QED
    BY <2>3, <2>4
<1>7. Risen(k, 0)
  BY <1>2, <1>3, <1>4 DEF Linked, Risen
<1>8. QED
  BY <1>5, <1>6, <1>7 DEF Links, Linked

\* The index file and the cache.
CachesOf(P) == [Slots -> LinesOf(P)]

\* A node a walk or a root can be at.
Stands(h, id) == id \in DOMAIN h /\ (h[id].leaf \/ h[id].num # 0)

\* A walk adds nodes and changes the children of the others only.
Extends(h, g) ==
  \A id \in DOMAIN h :
    id \in DOMAIN g /\ g[id].leaf = h[id].leaf /\ g[id].num = h[id].num /\ g[id].parent = h[id].parent

\* What a walk from a heap h is like.
WalksOf(P, h) ==
  {m \in [heap : HeapsOf(P), cache : CachesOf(P), leaf : Nat] :
     Extends(h, m.heap) /\ Links(m.heap) /\ (m.leaf # 0 => Stands(m.heap, m.leaf))}

\* A line of a file or a cache, or a blank one.
LEMMA LineShape ==
  ASSUME NEW P, 0 \in P, NEW file \in CachesOf(P), NEW address
  PROVE  Line(file, address) \in LinesOf(P)
BY BlankLine DEF Line, CachesOf

\* The nodes that were there still are after one more is attached.
LEMMA AttachedExtends ==
  ASSUME NEW P, NEW h \in HeapsOf(P), NEW parent \in DOMAIN h, NEW i \in 0 .. Size, NEW child
  PROVE  Extends(h, With([h EXCEPT ![parent].kids[i] = New_Id(h)], New_Id(h), child))
<1> DEFINE id == New_Id(h)
           g == [h EXCEPT ![parent].kids[i] = id]
<1>1. IsHeap(P, h)
  BY DEF HeapsOf
<1>2. id \notin DOMAIN h
  BY <1>1, NewIdIsNew DEF IsHeap
<1>3. ASSUME NEW x \in DOMAIN h
      PROVE  /\ x \in DOMAIN g /\ g[x].leaf = h[x].leaf /\ g[x].num = h[x].num
             /\ g[x].parent = h[x].parent
  <2>1. h[x] \in NodesOf(P)
    BY <1>1 DEF IsHeap
  <2>2. QED
    BY <2>1 DEF NodesOf
<1> HIDE DEF id, g
<1>4. Extends(h, With(g, id, child))
  BY <1>2, <1>3 DEF Extends, With
<1>5. QED
  BY <1>4 DEF id, g

\* One child read: the step of a walk into what is not in memory.
LEMMA ReadKeeps ==
  ASSUME NEW P, 0 \in P, disk \in CachesOf(P), NEW h, NEW m \in WalksOf(P, h),
         Inner(m.heap, m.leaf), NEW i \in 0 .. m.heap[m.leaf].num, m.heap[m.leaf].kids[i] = 0
  PROVE  LET r == Read_Node_From_Pointer(m, m.leaf, i) IN
         /\ r \in [heap : HeapsOf(P), cache : CachesOf(P), leaf : Nat]
         /\ r.leaf # 0 /\ r.leaf \in DOMAIN r.heap /\ Extends(h, r.heap) /\ Links(r.heap)
<1> DEFINE g == m.heap  parent == m.leaf  id == New_Id(g)
           address == g[parent].ptrs[i]
           hit == Line(m.cache, address) # NoLine
           file == IF hit THEN m.cache ELSE disk
           content == Line(file, address)
           place == IF hit THEN 0 ELSE address
           child == Node_From(content, parent, address, place)
           k == With([g EXCEPT ![parent].kids[i] = id], id, child)
           c == [m.cache EXCEPT ![address] = content]
<1>1. /\ g \in HeapsOf(P) /\ m.cache \in CachesOf(P) /\ parent \in Nat
      /\ Extends(h, g)
  BY DEF WalksOf
<1>2. parent \in DOMAIN g /\ g[parent] \in NodesOf(P)
  BY <1>1 DEF HeapsOf, IsHeap, Inner
<1>3. address \in P /\ i \in 0 .. Size
  <2>1. g[parent].num \in 0 .. Size /\ g[parent].ptrs \in [0 .. Size -> P]
    BY <1>2 DEF NodesOf
  <2>2. i \in 0 .. Size
    BY <2>1, Numbers
  <2>3. QED
    BY <2>1, <2>2
<1>4. file \in CachesOf(P) /\ place \in P
  BY <1>1, <1>3
<1>5. content \in LinesOf(P)
  <2> HIDE DEF file, address
  <2>1. QED
    BY <1>4, LineShape
<1>6. /\ child \in NodesOf(P) /\ Sound(child) /\ child.num < Size /\ child.parent = parent
      /\ \A j \in 0 .. Size : child.kids[j] = 0
      /\ ~ child.vol /\ child.addr = address
  <2>1. ~ child.vol
    BY DEF Node_From
  <2> HIDE DEF content, address, place, parent
  <2>2. QED
    BY <1>1, <1>3, <1>4, <1>5, <2>1, NodeFromLine
<1>14. Inner(g, parent) /\ g[parent].kids[i] = 0 /\ i \in 0 .. g[parent].num /\ Links(g)
  BY DEF WalksOf
<1>15. k \in HeapsOf(P) /\ IsAttached(g, k, parent, i, id, child)
  <2> HIDE DEF child, parent, g
  <2>2. QED
    BY <1>1, <1>3, <1>6, <1>14, Attached
<1>7. k \in HeapsOf(P) /\ id \in DOMAIN k /\ id # 0
  BY <1>15, Zenon DEF IsAttached
<1>16. Links(k)
  <2> DEFINE w == [parent |-> parent, i |-> i, id |-> id, child |-> child]
  <2>1. w.parent = parent /\ w.i = i /\ w.id = id /\ w.child = child
    OBVIOUS
  <2>2. child.num \in 0 .. Size /\ child.addr = g[parent].ptrs[i]
    BY <1>6, Zenon DEF NodesOf
  <2> HIDE DEF w, child, parent, g, k, id
  <2>3. QED
    BY <1>1, <1>6, <1>14, <1>15, <2>1, <2>2, AttachedLinks
<1>8. Extends(g, k)
  <2> HIDE DEF child, parent, g
  <2>1. QED
    BY <1>1, <1>2, <1>3, AttachedExtends
<1>9. Extends(h, k)
  BY <1>1, <1>8, Zenon DEF Extends
<1>10. c \in CachesOf(P)
  <2> HIDE DEF content, address
  <2>1. QED
    BY <1>1, <1>5 DEF CachesOf
<1>11. id \in Nat
  BY <1>7, Zenon DEF HeapsOf, IsHeap
<1>12. Read_Node_From_Pointer(m, m.leaf, i) = [heap |-> k, cache |-> c, leaf |-> id]
  BY DEF Read_Node_From_Pointer
<1> HIDE DEF k, c, id
<1>13. QED
  BY <1>7, <1>9, <1>10, <1>11, <1>12, <1>16

\* A round leaves the walk at a node with keys, at a leaf, or nowhere.
LEMMA FindRoundKeeps ==
  ASSUME NEW P, 0 \in P, disk \in CachesOf(P), NEW h, NEW m \in WalksOf(P, h), NEW key
  PROVE  Find_Round(m, key) \in WalksOf(P, h)
<1> DEFINE n == m.heap[m.leaf]
           i == Child_Index(n, key)
           down == IF n.kids[i] # 0
                   THEN [m EXCEPT !.leaf = n.kids[i]]
                   ELSE Read_Node_From_Pointer(m, m.leaf, i)
<1>1. CASE m.leaf = 0 \/ n.leaf
  BY <1>1 DEF Find_Round
<1>2. CASE m.leaf # 0 /\ ~ n.leaf
  <2>1. /\ m \in [heap : HeapsOf(P), cache : CachesOf(P), leaf : Nat]
        /\ Extends(h, m.heap) /\ Stands(m.heap, m.leaf) /\ Links(m.heap)
    BY <1>2 DEF WalksOf
  <2>2. Inner(m.heap, m.leaf)
    BY <1>2, <2>1 DEF Stands, Inner
  <2>3. IsHeap(P, m.heap) /\ m.leaf \in DOMAIN m.heap
    BY <2>1, <2>2 DEF HeapsOf, Inner
  <2>4. n \in NodesOf(P)
    BY <2>3 DEF IsHeap
  <2>5. n.num \in 0 .. Size
    BY <2>4, SMTT(30) DEF NodesOf
  <2>6. i \in 0 .. Size /\ i \in 0 .. n.num
    <3> HIDE DEF n
    <3>1. Child_Index(n, key) \in 0 .. n.num
      BY <2>5, ChildIndexInRange
    <3>2. QED
      BY <2>5, <3>1, Numbers
  <2>7. /\ down \in [heap : HeapsOf(P), cache : CachesOf(P), leaf : Nat]
        /\ down.leaf # 0 /\ down.leaf \in DOMAIN down.heap /\ Extends(h, down.heap)
        /\ Links(down.heap)
    <3>1. CASE n.kids[i] = 0
      <4>1. down = Read_Node_From_Pointer(m, m.leaf, i)
        BY <3>1
      <4>3. m.heap[m.leaf].kids[i] = 0 /\ i \in 0 .. m.heap[m.leaf].num
        BY <2>6, <3>1
      <4> HIDE DEF i, down, n
      <4>2. QED
        BY <2>2, <4>1, <4>3, ReadKeeps
    <3>2. CASE n.kids[i] # 0
      <4>1. n.kids[i] \in DOMAIN m.heap /\ n.kids[i] \in Nat
        <5> HIDE DEF i
        <5>1. QED
          BY <2>3, <2>6, <3>2 DEF IsHeap
      <4>2. down = [heap |-> m.heap, cache |-> m.cache, leaf |-> n.kids[i]]
        <5> HIDE DEF n, i
        <5>1. QED
          BY <2>1, <3>2
      <4> HIDE DEF n, i, down
      <4>3. QED
        BY <2>1, <3>2, <4>1, <4>2
    <3>3. QED
      BY <3>1, <3>2
  <2>8. Find_Round(m, key) = IF down.heap[down.leaf].num = 0 THEN [down EXCEPT !.leaf = 0] ELSE down
    BY <1>2, Zenon DEF Find_Round
  <2> HIDE DEF down
  <2>9. CASE down.heap[down.leaf].num = 0
    <3>1. Find_Round(m, key) = [heap |-> down.heap, cache |-> down.cache, leaf |-> 0]
      BY <2>7, <2>8, <2>9
    <3>2. QED
      BY <2>7, <3>1 DEF WalksOf
  <2>10. CASE down.heap[down.leaf].num # 0
    BY <2>7, <2>8, <2>10 DEF WalksOf, Stands
  <2>11. QED
    BY <2>9, <2>10
<1>3. QED
  BY <1>1, <1>2

\* What a walk leaves behind, wherever it ends.
LEMMA WalkKeeps ==
  ASSUME NEW P, 0 \in P, disk \in CachesOf(P), heap \in HeapsOf(P), cache \in CachesOf(P),
         Stands(heap, root), Links(heap), NEW key
  PROVE  Find_Leaf_Node(key) \in WalksOf(P, heap)
<1> DEFINE S == WalksOf(P, heap)
           m == [heap |-> heap, cache |-> cache, leaf |-> root]
           next == [x \in S |-> Find_Round(x, key)]
           E(after) == after = [r \in Nat |-> IF r = 0 THEN {m} ELSE {Find_Round(x, key) : x \in after[r - 1]}]
           after == CHOOSE f : E(f)
<1>1. m \in S
  <2>1. root \in Nat /\ root \in DOMAIN heap
    BY DEF Stands, HeapsOf, IsHeap
  <2>2. Extends(heap, heap)
    BY DEF Extends
  <2>3. QED
    BY <2>1, <2>2 DEF WalksOf
<1>2. \A x \in S : Find_Round(x, key) \in S
  BY FindRoundKeeps
<1> HIDE DEF S, m
<1>3. next \in [S -> S] /\ \A x \in S : next[x] = Find_Round(x, key)
  BY <1>2
<1> HIDE DEF next
<1>4. PICK f : IsLoop(S, m, next, f)
  BY <1>1, <1>3, LoopExists
<1>5. E(f)
  <2>1. ASSUME NEW r \in Nat, r # 0
        PROVE  {next[x] : x \in f[r - 1]} = {Find_Round(x, key) : x \in f[r - 1]}
    <3>1. r - 1 \in Nat
      BY <2>1
    <3>2. \A x \in f[r - 1] : next[x] = Find_Round(x, key)
      BY <1>3, <1>4, <3>1 DEF IsLoop
    <3>3. QED
      BY <3>2
  <2>2. f = [r \in Nat |-> IF r = 0 THEN {m} ELSE {next[x] : x \in f[r - 1]}]
    BY <1>4 DEF IsLoop
  <2>3. QED
    BY <2>1, <2>2
<1>6. E(after)
  <2> HIDE DEF E
  <2>1. QED
    BY <1>5
<1> HIDE DEF after
<1>7. after[0] = {m}
  BY <1>6
<1>8. ASSUME NEW r \in Nat, after[r] \subseteq S
      PROVE  after[r + 1] = {next[x] : x \in after[r]}
  <2>1. after[r + 1] = {Find_Round(x, key) : x \in after[r]}
    <3>1. r + 1 \in Nat /\ r + 1 # 0 /\ (r + 1) - 1 = r
      OBVIOUS
    <3>2. QED
      BY <1>6, <3>1
  <2>2. QED
    BY <1>3, <1>8, <2>1
<1>9. Nodes_On_A_Path \in Nat
  <2>1. Cardinality(DOMAIN heap) \in Nat
    BY FS_CardinalityType DEF HeapsOf, IsHeap
  <2>2. QED
    BY <2>1, BoundsAssumption DEF Nodes_On_A_Path
<1>10. (CHOOSE last \in after[Nodes_On_A_Path] : TRUE) \in S
  BY <1>1, <1>3, <1>7, <1>8, <1>9, LoopStays
<1>11. QED
  BY <1>10 DEF Find_Leaf_Node, Iterated, after, m, S

-----------------------------------------------------------------------------
\* Inserting in nodes

\* The heaps within an operation, where a node may be full.
AnyHeapsOf(P) == {h \in UNION {[D -> NodesOf(P)] : D \in SUBSET Nat} : IsHeap(P, h)}

\* What the loops of Insert_in_node work on.
PutsOf(P) ==
  [heap : AnyHeapsOf(P), freed : SUBSET P, root : Nat, node : Nat, key : Nat,
   address : P, child : Nat]

\* h and g differ in what renewing changes.
Alike(h, g) ==
  /\ DOMAIN g = DOMAIN h
  /\ \A id \in DOMAIN h :
       /\ g[id].leaf = h[id].leaf /\ g[id].num = h[id].num /\ g[id].keys = h[id].keys
       /\ g[id].ptrs = h[id].ptrs /\ g[id].kids = h[id].kids /\ g[id].parent = h[id].parent

\* g is h with node id renewed.
IsRenewed(h, g, id) ==
  /\ Alike(h, g) /\ g[id].vol
  /\ \A x \in DOMAIN h \ {id} : g[x].vol = h[x].vol /\ g[x].addr = h[x].addr

\* A heap of nodes that differ so is one.
LEMMA AlikeIsHeap ==
  ASSUME NEW P, NEW h \in AnyHeapsOf(P), NEW g \in [DOMAIN h -> NodesOf(P)], Alike(h, g)
  PROVE  /\ g \in AnyHeapsOf(P)
         /\ Room(h) => Room(g)
         /\ \A id : Stands(h, id) => Stands(g, id)
<1>1. IsHeap(P, h) /\ DOMAIN h \subseteq Nat
  BY DEF AnyHeapsOf, IsHeap
<1>2. \A id : Inner(h, id) => Inner(g, id)
  BY DEF Alike, Inner
<1>3. ASSUME NEW id \in DOMAIN h
      PROVE  /\ Sound(g[id]) /\ \A i \in 0 .. Size : g[id].kids[i] \in DOMAIN g \cup {0}
             /\ g[id].parent # 0 => Inner(g, g[id].parent)
  <2>1. /\ g[id].leaf = h[id].leaf /\ g[id].num = h[id].num /\ g[id].keys = h[id].keys
        /\ g[id].ptrs = h[id].ptrs /\ g[id].kids = h[id].kids /\ g[id].parent = h[id].parent
        /\ DOMAIN g = DOMAIN h
    BY DEF Alike
  <2>2. Sound(h[id])
    BY <1>1 DEF IsHeap
  <2>3. Sound(g[id])
    BY <2>1, <2>2 DEF Sound, Owned
  <2>4. QED
    BY <1>1, <1>2, <2>1, <2>3 DEF IsHeap
<1>4. IsHeap(P, g)
  BY <1>1, <1>3 DEF IsHeap
<1>5. g \in AnyHeapsOf(P)
  BY <1>1, <1>4 DEF AnyHeapsOf
<1>6. QED
  BY <1>5 DEF Alike, Room, Stands

\* A node and its slot are renewed: nothing a walk looks at changes.
LEMMA RenewKeeps ==
  ASSUME NEW P, 0 \in P, NEW m \in PutsOf(P), NEW id \in DOMAIN m.heap
  PROVE  LET r == Renew(m, id) IN
         /\ r \in PutsOf(P) /\ Alike(m.heap, r.heap)
         /\ r.root = m.root /\ r.node = m.node /\ r.key = m.key /\ r.address = m.address
         /\ r.child = m.child
         /\ IsFiniteSet(m.freed) => IsFiniteSet(r.freed)
         /\ IsRenewed(m.heap, r.heap, id)
<1> DEFINE h == m.heap  n == h[id]
           r == Renewed(n)
           g == [h EXCEPT ![id] = r]
           freed_then == m.freed \cup ({n.addr} \ {0})
<1>1. h \in AnyHeapsOf(P) /\ IsHeap(P, h) /\ h \in [DOMAIN h -> NodesOf(P)]
  BY DEF PutsOf, AnyHeapsOf, IsHeap
<1>2. n \in NodesOf(P)
  BY <1>1
<1>3. /\ r \in NodesOf(P)
      /\ r.leaf = n.leaf /\ r.num = n.num /\ r.keys = n.keys
      /\ r.ptrs = n.ptrs /\ r.kids = n.kids /\ r.parent = n.parent /\ r.vol = TRUE
  <2> HIDE DEF n
  <2>1. QED
    BY <1>2 DEF Renewed, NodesOf
<1>5. g \in [DOMAIN h -> NodesOf(P)]
  <2> HIDE DEF r
  <2>1. QED
    BY <1>1, <1>3
<1>6. Alike(h, g) /\ IsRenewed(h, g, id)
  <2> HIDE DEF r
  <2>1. QED
    BY <1>1, <1>3 DEF Alike, IsRenewed
<1>7. freed_then \in SUBSET P /\ (IsFiniteSet(m.freed) => IsFiniteSet(freed_then))
  <2>1. n.addr \in P /\ m.freed \in SUBSET P
    BY <1>2 DEF NodesOf, PutsOf
  <2>2. IsFiniteSet({n.addr} \ {0})
    <3>1. IsFiniteSet({n.addr})
      BY FS_Singleton
    <3>2. QED
      BY <3>1, FS_Subset
  <2>3. QED
    BY <2>1, <2>2, FS_Union
<1>8. g \in AnyHeapsOf(P)
  <2> HIDE DEF h, g
  <2>1. QED
    BY <1>1, <1>5, <1>6, AlikeIsHeap
<1>9. Renew(m, id) = [heap |-> g, freed |-> freed_then, root |-> m.root, node |-> m.node,
                      key |-> m.key, address |-> m.address, child |-> m.child]
  <2>1. Renew(m, id) = [m EXCEPT !.freed = freed_then, !.heap = g]
    BY DEF Renew
  <2> HIDE DEF freed_then, g
  <2>2. QED
    BY <1>7, <1>8, <2>1 DEF PutsOf
<1> HIDE DEF g, freed_then
<1>10. QED
  BY <1>6, <1>7, <1>8, <1>9 DEF PutsOf

\* What the links are between.
LEMMA HeapShape ==
  ASSUME NEW P, NEW h \in AnyHeapsOf(P)
  PROVE  /\ IsFiniteSet(DOMAIN h) /\ 0 \notin DOMAIN h
         /\ \A x \in DOMAIN h :
              /\ h[x].num \in Nat /\ (h[x].parent = 0 \/ h[x].parent \in DOMAIN h)
              /\ \A i \in 0 .. h[x].num : i \in 0 .. Size /\ h[x].kids[i] \in DOMAIN h \cup {0}
<1>1. /\ IsFiniteSet(DOMAIN h) /\ 0 \notin DOMAIN h /\ IsHeap(P, h)
      /\ \A x \in DOMAIN h : h[x] \in NodesOf(P)
  BY DEF AnyHeapsOf, IsHeap
<1>2. \A num \in 0 .. Size : num \in Nat /\ \A i \in 0 .. num : i \in 0 .. Size
  BY Numbers
<1>3. \A x \in DOMAIN h : h[x].num \in 0 .. Size
  BY <1>1 DEF NodesOf
<1>4. \A x \in DOMAIN h : \A i \in 0 .. h[x].num : i \in 0 .. Size
  BY <1>2, <1>3
<1>5. \A x \in DOMAIN h : h[x].parent = 0 \/ h[x].parent \in DOMAIN h
  BY <1>1 DEF IsHeap, Inner
<1>6. QED
  BY <1>1, <1>2, <1>3, <1>4, <1>5 DEF IsHeap

\* A node renewed: its children may be volatile now, its parent may not be yet.
LEMMA RenewLinks ==
  ASSUME NEW P, NEW h \in AnyHeapsOf(P), NEW g, NEW id \in DOMAIN h, IsRenewed(h, g, id)
  PROVE  \A d : Linked(h, d, id) => Linked(g, d, h[id].parent)
<1> SUFFICES ASSUME NEW d, Linked(h, d, id)
             PROVE  Linked(g, d, h[id].parent)
  OBVIOUS
<1>1. /\ DOMAIN g = DOMAIN h /\ g[id].vol
      /\ \A x \in DOMAIN h :
           /\ g[x].num = h[x].num /\ g[x].ptrs = h[x].ptrs /\ g[x].kids = h[x].kids
           /\ g[x].parent = h[x].parent
           /\ x # id => g[x].vol = h[x].vol /\ g[x].addr = h[x].addr
  BY DEF IsRenewed, Alike
<1>2. \A x \in DOMAIN h : /\ h[x].parent = 0 \/ h[x].parent \in DOMAIN h
                          /\ \A i \in 0 .. h[x].num : h[x].kids[i] \in DOMAIN h \cup {0}
  BY HeapShape
<1>3. Depths(g, d)
  BY <1>1 DEF Linked, Depths
<1>4. Joined(g)
  BY <1>1, <1>2 DEF Linked, Joined
<1>5. Risen(g, h[id].parent)
  <2> SUFFICES ASSUME NEW x \in DOMAIN h, g[x].vol, h[x].parent \notin {0, h[id].parent}
               PROVE  g[h[x].parent].vol
    BY <1>1 DEF Risen
  <2>1. x # id /\ h[x].vol
    BY <1>1
  <2>2. QED
    BY <1>1, <1>2, <2>1 DEF Linked, Risen
<1>6. QED
  BY <1>3, <1>4, <1>5 DEF Linked

\* Renewing never fills a node, and the root stays one.
Steady(w) == Room(w.heap) /\ IsFiniteSet(w.freed) /\ Stands(w.heap, w.root)

\* What Renew_Ancestors works on.
ClimbsOf(P) == {w \in PutsOf(P) : Steady(w) /\ Stands(w.heap, w.node)}

\* One ancestor renewed.
LEMMA RenewRoundKeeps ==
  ASSUME NEW P, 0 \in P, NEW m \in ClimbsOf(P)
  PROVE  LET parent == m.heap[m.node].parent IN
         /\ Renew_Round(m) \in ClimbsOf(P)
         /\ parent = 0 => Renew_Round(m) = m
         /\ parent # 0 => /\ parent \in DOMAIN m.heap /\ Renew_Round(m).node = parent
                         /\ IsRenewed(m.heap, Renew_Round(m).heap, parent)
<1> DEFINE h == m.heap  parent == h[m.node].parent  r == Renew(m, parent)
<1>1. /\ m \in PutsOf(P) /\ Room(h) /\ IsFiniteSet(m.freed)
      /\ Stands(h, m.root) /\ Stands(h, m.node)
  BY DEF ClimbsOf, Steady
<1>2. h \in AnyHeapsOf(P)
  BY <1>1 DEF PutsOf
<1>3. CASE parent = 0
  BY <1>3 DEF Renew_Round
<1>4. CASE parent # 0
  <2>1. Inner(h, parent)
    BY <1>1, <1>2, <1>4 DEF AnyHeapsOf, IsHeap, Stands
  <2>2. parent \in DOMAIN h /\ Stands(h, parent)
    BY <2>1 DEF Inner, Stands
  <2>3. /\ r \in PutsOf(P) /\ Alike(h, r.heap) /\ r.root = m.root
        /\ IsFiniteSet(r.freed) /\ IsRenewed(h, r.heap, parent)
    <3> HIDE DEF parent
    <3>1. QED
      BY <1>1, <2>2, RenewKeeps
  <2> HIDE DEF h, parent, r
  <2>4. r.heap \in [DOMAIN h -> NodesOf(P)]
    BY <2>3 DEF PutsOf, AnyHeapsOf, IsHeap, Alike
  <2>5. Room(r.heap) /\ Stands(r.heap, m.root) /\ Stands(r.heap, parent)
    BY <1>1, <1>2, <2>2, <2>3, <2>4, AlikeIsHeap
  <2>6. parent \in Nat
    BY <1>2, <2>2 DEF AnyHeapsOf, IsHeap
  <2>7. Renew_Round(m) = [r EXCEPT !.node = parent]
    BY <1>4 DEF Renew_Round, r, parent, h
  <2>8. Renew_Round(m) = [heap |-> r.heap, freed |-> r.freed, root |-> r.root, node |-> parent,
                          key |-> r.key, address |-> r.address, child |-> r.child]
    BY <2>3, <2>7 DEF PutsOf
  <2>9. Renew_Round(m) \in ClimbsOf(P)
    BY <2>3, <2>5, <2>6, <2>8 DEF ClimbsOf, Steady, PutsOf
  <2>10. Renew_Round(m).node = parent /\ Renew_Round(m).heap = r.heap
    BY <2>8
  <2>11. QED
    BY <1>4, <2>2, <2>3, <2>9, <2>10 DEF h, parent
<1>5. QED
  BY <1>3, <1>4

\* Climbs that reach the top within k rounds: linked, but for the parent of the node.
ClimbsWithin(P, k) ==
  {m \in ClimbsOf(P) :
     LET parent == m.heap[m.node].parent IN
     \E d : Linked(m.heap, d, parent) /\ (parent # 0 => d[m.node] <= k)}

\* One round is one node less.
LEMMA RenewRoundLinks ==
  ASSUME NEW P, 0 \in P, NEW k \in Nat, NEW m \in ClimbsWithin(P, k + 1)
  PROVE  Renew_Round(m) \in ClimbsWithin(P, k)
<1> DEFINE h == m.heap  parent == h[m.node].parent  r == Renew_Round(m)
<1>1. m \in ClimbsOf(P)
  BY DEF ClimbsWithin
<1>2. PICK d : Linked(h, d, parent) /\ (parent # 0 => d[m.node] <= k + 1)
  BY DEF ClimbsWithin
<1>3. /\ r \in ClimbsOf(P) /\ (parent = 0 => r = m)
      /\ parent # 0 => parent \in DOMAIN h /\ r.node = parent /\ IsRenewed(h, r.heap, parent)
  BY <1>1, RenewRoundKeeps
<1>4. CASE parent = 0
  BY <1>1, <1>2, <1>3, <1>4 DEF ClimbsWithin
<1>5. CASE parent # 0
  <2>1. h \in AnyHeapsOf(P) /\ m.node \in DOMAIN h
    BY <1>1 DEF ClimbsOf, PutsOf, Stands
  <2>2. Linked(r.heap, d, h[parent].parent) /\ r.heap[parent].parent = h[parent].parent
    <3>1. r.heap[parent].parent = h[parent].parent
      BY <1>3, <1>5 DEF IsRenewed, Alike
    <3> HIDE DEF h, parent, r
    <3>2. QED
      BY <1>2, <1>3, <1>5, <2>1, <3>1, RenewLinks
  <2>3. d[m.node] = d[parent] + 1 /\ d[parent] \in Nat /\ d[m.node] <= k + 1
    BY <1>2, <1>3, <1>5, <2>1 DEF Linked, Depths
  <2>4. d[parent] <= k
    BY <2>3
  <2> HIDE DEF parent, h
  <2>5. Linked(r.heap, d, r.heap[r.node].parent) /\ d[r.node] <= k
    BY <1>3, <1>5, <2>2, <2>4
  <2>6. QED
    BY <1>3, <1>5, <2>5 DEF ClimbsWithin
<1>6. QED
  BY <1>4, <1>5

\* What a Put ends with: all is linked, and the root has no parent.
Done(w) == Links(w.heap) /\ w.heap[w.root].parent = 0

\* All ancestors renewed; the one at the top is the root.
LEMMA RenewAncestorsKeeps ==
  ASSUME NEW P, 0 \in P, NEW m \in ClimbsOf(P)
  PROVE  LET r == Renew_Ancestors(m) IN
         /\ r \in PutsOf(P) /\ Steady(r) /\ r.node = 0
         /\ (\E d : Linked(m.heap, d, m.heap[m.node].parent)) => Done(r)
<1> DEFINE S == ClimbsOf(P)
           start == m
           next == [x \in S |-> Renew_Round(x)]
           E(f) == f = [r \in Nat |-> IF r = 0 THEN {start} ELSE {Renew_Round(x) : x \in f[r - 1]}]
           after == CHOOSE f : E(f)
<1>1. start \in S
  OBVIOUS
<1>2. \A x \in S : Renew_Round(x) \in S
  BY RenewRoundKeeps
<1> HIDE DEF S, start
<1>3. next \in [S -> S] /\ \A x \in S : next[x] = Renew_Round(x)
  BY <1>2
<1> HIDE DEF next
<1>4. PICK f : IsLoop(S, start, next, f)
  BY <1>1, <1>3, LoopExists
<1>5. E(f)
  <2>1. ASSUME NEW r \in Nat, r # 0
        PROVE  {next[x] : x \in f[r - 1]} = {Renew_Round(x) : x \in f[r - 1]}
    <3>1. r - 1 \in Nat
      BY <2>1
    <3>2. \A x \in f[r - 1] : next[x] = Renew_Round(x)
      BY <1>3, <1>4, <3>1 DEF IsLoop
    <3>3. QED
      BY <3>2
  <2>2. f = [r \in Nat |-> IF r = 0 THEN {start} ELSE {next[x] : x \in f[r - 1]}]
    BY <1>4 DEF IsLoop
  <2>3. QED
    BY <2>1, <2>2
<1>6. E(after)
  <2> HIDE DEF E
  <2>1. QED
    BY <1>5
<1> HIDE DEF after
<1>7. after[0] = {start}
  BY <1>6
<1>8. ASSUME NEW r \in Nat, after[r] \subseteq S
      PROVE  after[r + 1] = {next[x] : x \in after[r]}
  <2>1. after[r + 1] = {Renew_Round(x) : x \in after[r]}
    <3>1. r + 1 \in Nat /\ r + 1 # 0 /\ (r + 1) - 1 = r
      OBVIOUS
    <3>2. QED
      BY <1>6, <3>1
  <2>2. QED
    BY <1>3, <1>8, <2>1
<1>9. Cardinality(DOMAIN m.heap) \in Nat
  BY FS_CardinalityType DEF ClimbsOf, PutsOf, AnyHeapsOf, IsHeap
<1>10. (CHOOSE last \in after[Cardinality(DOMAIN m.heap)] : TRUE) \in S
  BY <1>1, <1>3, <1>7, <1>8, <1>9, LoopStays
<1> DEFINE top == CHOOSE last \in after[Cardinality(DOMAIN m.heap)] : TRUE
<1>11. Renew_Ancestors(m) = [top EXCEPT !.root = top.node, !.node = 0]
  BY DEF Renew_Ancestors, Iterated, after, start
<1> HIDE DEF top
<1>12. top \in PutsOf(P) /\ Steady(top) /\ Stands(top.heap, top.node)
  BY <1>10 DEF S, ClimbsOf, top
<1>13. Renew_Ancestors(m) = [heap |-> top.heap, freed |-> top.freed, root |-> top.node, node |-> 0,
                             key |-> top.key, address |-> top.address, child |-> top.child]
  BY <1>11, <1>12 DEF PutsOf
<1>14. ASSUME \E d : Linked(m.heap, d, m.heap[m.node].parent)
       PROVE  Links(top.heap) /\ top.heap[top.node].parent = 0
  <2> DEFINE count == Cardinality(DOMAIN m.heap)
             F == [k \in Nat |-> ClimbsWithin(P, k)]
  <2>1. F \in [Nat -> SUBSET S] /\ \A k \in Nat : F[k] = ClimbsWithin(P, k)
    BY DEF S, ClimbsWithin
  <2>2. m \in ClimbsWithin(P, count)
    <3>1. PICK d : Linked(m.heap, d, m.heap[m.node].parent)
      BY <1>14
    <3>2. m.node \in DOMAIN m.heap
      BY DEF ClimbsOf, Stands
    <3>3. d[m.node] <= count
      BY <1>9, <3>1, <3>2 DEF Linked, Depths
    <3> HIDE DEF count
    <3>4. QED
      BY <3>1, <3>3 DEF ClimbsWithin
  <2>3. ASSUME NEW k \in Nat, NEW x \in F[k + 1]
        PROVE  next[x] \in F[k]
    <3>1. x \in ClimbsWithin(P, k + 1) /\ x \in S /\ k + 1 \in Nat
      BY <2>1, <2>3
    <3>2. QED
      BY <1>3, <2>1, <3>1, RenewRoundLinks
  <2>4. after[0] # {} /\ after[0] \subseteq F[count]
    BY <1>7, <1>9, <2>1, <2>2 DEF start
  <2>11. \A r \in Nat : after[r] \subseteq S => after[r + 1] = {next[x] : x \in after[r]}
    BY <1>8
  <2>12. \A k \in Nat : \A x \in F[k + 1] : next[x] \in F[k]
    BY <2>3
  <2>13. count \in Nat /\ top = CHOOSE last \in after[count] : TRUE
    BY <1>9 DEF top
  <2> HIDE DEF F, count
  <2>5. top \in F[0]
    BY <1>3, <2>1, <2>4, <2>11, <2>12, <2>13, LoopEnds, SMTT(30)
  <2>6. PICK d : /\ Linked(top.heap, d, top.heap[top.node].parent)
                 /\ top.heap[top.node].parent # 0 => d[top.node] <= 0
    BY <2>1, <2>5 DEF ClimbsWithin
  <2>7. top.node \in DOMAIN top.heap /\ top.heap \in AnyHeapsOf(P)
    BY <1>12 DEF Stands, PutsOf
  <2>8. top.heap[top.node].parent = 0 \/ top.heap[top.node].parent \in DOMAIN top.heap
    BY <2>7, HeapShape
  <2>9. top.heap[top.node].parent = 0
    <3> SUFFICES ASSUME top.heap[top.node].parent # 0
                 PROVE  FALSE
      OBVIOUS
    <3>1. d[top.node] = d[top.heap[top.node].parent] + 1 /\ d[top.heap[top.node].parent] \in Nat
      BY <2>6, <2>7, <2>8 DEF Linked, Depths
    <3>2. QED
      BY <2>6, <3>1
  <2>10. QED
    BY <2>6, <2>9 DEF Links
<1>15. QED
  BY <1>12, <1>13, <1>14 DEF PutsOf, Steady, Done

\* What an array with a value put in is, and where everything went.
IsShifted(g, f, m, V, at, last, value) ==
  /\ g \in [0 .. m -> V]
  /\ \A i \in 0 .. m :
       g[i] = IF i = at THEN value ELSE IF at < i /\ i <= last THEN f[i - 1] ELSE f[i]

\* Shifted keeps the domain, and moves up what was between the two positions.
LEMMA ShiftedShape ==
  \A m \in Nat, at \in Nat, last \in Nat :
    \A V : \A f \in [0 .. m -> V] : \A value \in V :
      IsShifted(Shifted(f, at, last, value), f, m, V, at, last, value)
<1> SUFFICES ASSUME NEW m \in Nat, NEW at \in Nat, NEW last \in Nat, NEW V,
                    NEW f \in [0 .. m -> V], NEW value \in V
             PROVE  IsShifted(Shifted(f, at, last, value), f, m, V, at, last, value)
  OBVIOUS
<1>1. \A i \in 0 .. m : at < i => i - 1 \in 0 .. m
  OBVIOUS
<1>2. QED
  BY <1>1 DEF Shifted, IsShifted

\* g is n with a child, and its pointer, put in after position at.
Pushed(n, g, child) ==
  \E at \in 0 .. n.num : \A i \in 0 .. n.num + 1 :
    /\ i <= at => g.kids[i] = n.kids[i] /\ g.ptrs[i] = n.ptrs[i]
    /\ i = at + 1 => g.kids[i] = child
    /\ i > at + 1 => g.kids[i] = n.kids[i - 1] /\ g.ptrs[i] = n.ptrs[i - 1]

\* A key and its pointer go to matching places, and what they push up stays
\* together; a key left behind beyond Key_Num is pushed over.
LEMMA GrownIsSound ==
  ASSUME NEW P, NEW n \in NodesOf(P), Sound(n), n.num < Size,
         NEW key \in Nat, NEW address \in P, NEW child \in Nat,
         n.leaf => child = 0 /\ address = key
  PROVE  LET g == Grown(n, key, address, child) IN
         /\ g \in NodesOf(P) /\ Sound(g)
         /\ g.num = n.num + 1 /\ g.leaf = n.leaf /\ g.parent = n.parent
         /\ g.vol = n.vol /\ g.addr = n.addr /\ Pushed(n, g, child)
         /\ \A i \in 0 .. Size : g.kids[i] = child \/ \E j \in 0 .. Size : g.kids[i] = n.kids[j]
<1> DEFINE num == n.num
           x == Cardinality({i \in 0 .. num - 1 : n.keys[i] < key})
           keys == Shifted(n.keys, x, num, key)
           ptrs == Shifted(n.ptrs, x + 1, num + 1, address)
           kids == Shifted(n.kids, x + 1, num + 1, child)
           g == Grown(n, key, address, child)
<1>1. /\ n.leaf \in BOOLEAN /\ num \in 0 .. Size - 1 /\ n.keys \in [0 .. Size - 1 -> Nat]
      /\ n.ptrs \in [0 .. Size -> P] /\ n.kids \in [0 .. Size -> Nat] /\ n.parent \in Nat
      /\ n.addr \in P /\ n.vol \in BOOLEAN /\ n.line \in P
  BY Numbers DEF NodesOf
<1>2. num \in Nat /\ Size - 1 \in Nat /\ Size \in Nat
  BY <1>1, Numbers
<1>3. x \in 0 .. num
  <2> HIDE DEF num
  <2>1. {i \in 0 .. num - 1 : n.keys[i] < key} \in SUBSET (0 .. num - 1)
    OBVIOUS
  <2>2. QED
    BY <1>2, <2>1, CountOfPositions
<1> HIDE DEF x, num
<1>4. x \in Nat /\ x + 1 \in Nat /\ num + 1 \in Nat /\ num + 1 \in 0 .. Size
  BY <1>1, <1>2, <1>3
<1>5. /\ keys \in [0 .. Size - 1 -> Nat]
      /\ \A i \in 0 .. Size - 1 :
           keys[i] = IF i = x THEN key ELSE IF x < i /\ i <= num THEN n.keys[i - 1] ELSE n.keys[i]
  <2>1. IsShifted(keys, n.keys, Size - 1, Nat, x, num, key)
    BY <1>1, <1>2, <1>4, ShiftedShape
  <2>2. QED
    BY <2>1 DEF IsShifted
<1>6. /\ ptrs \in [0 .. Size -> P]
      /\ \A i \in 0 .. Size :
           ptrs[i] = IF i = x + 1 THEN address
                     ELSE IF x + 1 < i /\ i <= num + 1 THEN n.ptrs[i - 1] ELSE n.ptrs[i]
  <2>1. IsShifted(ptrs, n.ptrs, Size, P, x + 1, num + 1, address)
    BY <1>1, <1>2, <1>4, ShiftedShape
  <2>2. QED
    BY <2>1 DEF IsShifted
<1>7. /\ kids \in [0 .. Size -> Nat]
      /\ \A i \in 0 .. Size :
           kids[i] = IF i = x + 1 THEN child
                     ELSE IF x + 1 < i /\ i <= num + 1 THEN n.kids[i - 1] ELSE n.kids[i]
  <2>1. IsShifted(kids, n.kids, Size, Nat, x + 1, num + 1, child)
    BY <1>1, <1>2, <1>4, ShiftedShape
  <2>2. QED
    BY <2>1 DEF IsShifted
<1>8. g = [n EXCEPT !.keys = keys, !.ptrs = ptrs, !.kids = kids, !.num = num + 1]
  BY DEF Grown, x, num
<1> HIDE DEF keys, ptrs, kids, g
<1>9. /\ g \in NodesOf(P) /\ g.leaf = n.leaf /\ g.num = num + 1 /\ g.parent = n.parent
      /\ g.vol = n.vol /\ g.addr = n.addr
      /\ g.keys = keys /\ g.ptrs = ptrs /\ g.kids = kids
  BY <1>4, <1>5, <1>6, <1>7, <1>8 DEF NodesOf
<1>10. ASSUME NEW i \in 0 .. Size
       PROVE  kids[i] = child \/ \E j \in 0 .. Size : kids[i] = n.kids[j]
  <2>1. CASE x + 1 < i /\ i <= num + 1 /\ i # x + 1
    <3>1. i - 1 \in 0 .. Size
      BY <1>2, <1>4, <2>1
    <3>2. QED
      BY <1>7, <2>1, <3>1
  <2>2. CASE ~ (x + 1 < i /\ i <= num + 1)
    BY <1>7, <2>2
  <2>3. QED
    BY <1>4, <2>1, <2>2
<1>11. ASSUME n.leaf
       PROVE  Owned(g) /\ \A i \in 0 .. Size : kids[i] = 0
  <2>1. child = 0 /\ address = key /\ Owned(n) /\ \A i \in 0 .. Size : n.kids[i] = 0
    BY <1>11 DEF Sound
  <2>2. ASSUME NEW i \in 0 .. Size - 1
        PROVE  \/ ptrs[i + 1] = keys[i]
               \/ Overcopied = 1 /\ i >= num + 1 /\ ptrs[i + 1] = 0
    <3>1. i \in Nat /\ i + 1 \in 0 .. Size /\ (i + 1) - 1 = i
      BY Numbers
    <3>2. CASE i = x
      BY <1>5, <1>6, <2>1, <3>1, <3>2
    <3>3. CASE x < i /\ i <= num
      <4>1. i - 1 \in 0 .. Size - 1 /\ ~ (i - 1 >= num) /\ (i - 1) + 1 = i /\ i # x /\ i + 1 # x + 1
            /\ x + 1 < i + 1 /\ i + 1 <= num + 1
        BY <1>2, <1>4, <3>1, <3>3
      <4>2. n.ptrs[i] = n.keys[i - 1]
        BY <2>1, <4>1 DEF Owned, num
      <4>3. keys[i] = n.keys[i - 1]
        BY <1>5, <3>3, <4>1
      <4>4. ptrs[i + 1] = n.ptrs[i]
        BY <1>6, <3>1, <4>1
      <4>5. QED
        BY <4>2, <4>3, <4>4
    <3>4. CASE i # x /\ ~ (x < i /\ i <= num)
      <4>1. keys[i] = n.keys[i]
        BY <1>5, <3>4
      <4>2. i + 1 # x + 1 /\ ~ (x + 1 < i + 1 /\ i + 1 <= num + 1) /\ (i >= num => i >= num + 1)
        BY <1>2, <1>3, <1>4, <3>1, <3>4
      <4>3. ptrs[i + 1] = n.ptrs[i + 1]
        BY <1>6, <3>1, <4>2
      <4>4. n.ptrs[i + 1] = n.keys[i] \/ (Overcopied = 1 /\ i >= num /\ n.ptrs[i + 1] = 0)
        BY <2>1 DEF Owned, num
      <4>5. QED
        BY <4>1, <4>2, <4>3, <4>4
    <3>5. QED
      BY <3>2, <3>3, <3>4
  <2>3. Owned(g)
    BY <1>9, <2>2 DEF Owned
  <2>4. QED
    BY <1>10, <2>1, <2>3
<1>12. Sound(g)
  BY <1>9, <1>11 DEF Sound
<1>14. Pushed(n, g, child)
  <2>1. \A i \in 0 .. num + 1 :
          /\ i <= x => g.kids[i] = n.kids[i] /\ g.ptrs[i] = n.ptrs[i]
          /\ i = x + 1 => g.kids[i] = child
          /\ i > x + 1 => g.kids[i] = n.kids[i - 1] /\ g.ptrs[i] = n.ptrs[i - 1]
    <3> SUFFICES ASSUME NEW i \in 0 .. num + 1
                 PROVE  /\ i <= x => g.kids[i] = n.kids[i] /\ g.ptrs[i] = n.ptrs[i]
                        /\ i = x + 1 => g.kids[i] = child
                        /\ i > x + 1 => g.kids[i] = n.kids[i - 1] /\ g.ptrs[i] = n.ptrs[i - 1]
      OBVIOUS
    <3>1. /\ i \in 0 .. Size
          /\ i <= x => i # x + 1 /\ ~ (x + 1 < i)
          /\ i > x + 1 => i # x + 1 /\ x + 1 < i /\ i <= num + 1
      BY <1>2, <1>4
    <3>2. QED
      BY <1>6, <1>7, <1>9, <3>1
  <2>2. QED
    BY <1>3, <2>1 DEF Pushed, num
<1>13. QED
  BY <1>9, <1>10, <1>12, <1>14 DEF g, num

\* A heap that a step makes of another: inner nodes stay inner nodes, and a parent
\* is null, the one a node had, or an inner node.
LEMMA HeapFollows ==
  ASSUME NEW P, NEW h \in AnyHeapsOf(P), NEW g, g \in [DOMAIN g -> NodesOf(P)],
         DOMAIN h \subseteq DOMAIN g, DOMAIN g \subseteq Nat \ {0}, IsFiniteSet(DOMAIN g),
         \A x \in DOMAIN h : Inner(h, x) => Inner(g, x),
         \A x \in DOMAIN g :
           /\ Sound(g[x]) /\ \A i \in 0 .. Size : g[x].kids[i] \in DOMAIN g \cup {0}
           /\ \/ g[x].parent = 0
              \/ x \in DOMAIN h /\ g[x].parent = h[x].parent
              \/ Inner(g, g[x].parent)
  PROVE  g \in AnyHeapsOf(P)
<1>1. IsHeap(P, h)
  BY DEF AnyHeapsOf
<1>2. ASSUME NEW x \in DOMAIN g, g[x].parent # 0
      PROVE  Inner(g, g[x].parent)
  <2>1. CASE x \in DOMAIN h /\ g[x].parent = h[x].parent
    <3>1. Inner(h, h[x].parent)
      BY <1>1, <1>2, <2>1 DEF IsHeap
    <3>2. h[x].parent \in DOMAIN h
      BY <3>1 DEF Inner
    <3>3. QED
      BY <2>1, <3>1, <3>2
  <2>2. QED
    BY <1>2, <2>1
<1>3. IsHeap(P, g)
  BY <1>2 DEF IsHeap
<1>4. QED
  BY <1>3 DEF AnyHeapsOf

\* g is h with a child put in node id.
IsGrown(h, g, id, child) ==
  /\ DOMAIN g = DOMAIN h
  /\ \A x \in DOMAIN h :
       /\ g[x].vol = h[x].vol /\ g[x].addr = h[x].addr
       /\ g[x].parent = IF child # 0 /\ x = child THEN id ELSE h[x].parent
  /\ \A x \in DOMAIN h \ {id} :
       g[x].num = h[x].num /\ g[x].ptrs = h[x].ptrs /\ g[x].kids = h[x].kids
  /\ g[id].num = h[id].num + 1 /\ Pushed(h[id], g[id], child)

\* A key is inserted in a node that is not full, with its record or its child.
LEMMA InsertKeyKeeps ==
  ASSUME NEW P, NEW h \in AnyHeapsOf(P), Room(h), NEW w,
         /\ Stands(h, w.node) /\ w.key \in Nat /\ w.address \in P
         /\ w.child \in DOMAIN h \cup {0}
         /\ h[w.node].leaf => w.child = 0 /\ w.address = w.key
  PROVE  LET g == Insert_Key(h, w.node, w.key, w.address, w.child) IN
         /\ g \in AnyHeapsOf(P) /\ DOMAIN g = DOMAIN h
         /\ \A x \in DOMAIN h :
              /\ g[x].leaf = h[x].leaf
              /\ g[x].num = IF x = w.node THEN h[x].num + 1 ELSE h[x].num
         /\ IsGrown(h, g, w.node, w.child)
<1> DEFINE id == w.node  key == w.key  address == w.address  child == w.child
           n == h[id]
           m == Grown(n, key, address, child)
           k == [h EXCEPT ![id] = m]
           g == Insert_Key(h, id, key, address, child)
<1>1. IsHeap(P, h) /\ DOMAIN h \subseteq Nat \ {0} /\ IsFiniteSet(DOMAIN h) /\ h \in [DOMAIN h -> NodesOf(P)]
  BY DEF AnyHeapsOf, IsHeap
<1>2. /\ id \in DOMAIN h /\ n \in NodesOf(P) /\ Sound(n) /\ n.num < Size
      /\ key \in Nat /\ address \in P /\ child \in DOMAIN h \cup {0} /\ child \in Nat
      /\ n.leaf => child = 0 /\ address = key
      /\ \A i \in 0 .. Size : n.kids[i] \in DOMAIN h \cup {0}
  BY <1>1 DEF Stands, Room, IsHeap
<1>3. /\ m \in NodesOf(P) /\ Sound(m)
      /\ m.num = n.num + 1 /\ m.leaf = n.leaf /\ m.parent = n.parent
      /\ m.vol = n.vol /\ m.addr = n.addr /\ Pushed(n, m, child)
      /\ \A i \in 0 .. Size : m.kids[i] = child \/ \E j \in 0 .. Size : m.kids[i] = n.kids[j]
  <2> HIDE DEF n, key, address, child, m
  <2>1. QED
    BY <1>2, GrownIsSound DEF m
<1>4. \A i \in 0 .. Size : m.kids[i] \in DOMAIN h \cup {0}
  <2> HIDE DEF m, n, child
  <2>1. QED
    BY <1>2, <1>3
<1>5. n.num \in Nat /\ m.num # 0
  <2> HIDE DEF m, n
  <2>1. n.num \in 0 .. Size
    BY <1>2 DEF NodesOf
  <2>2. QED
    BY <1>3, <2>1
<1>6. /\ k \in [DOMAIN h -> NodesOf(P)] /\ k[id] = m
      /\ \A x \in DOMAIN h \ {id} : k[x] = h[x]
  <2> HIDE DEF m
  <2>1. QED
    BY <1>1, <1>2, <1>3
<1>7. g = IF child = 0 THEN k ELSE [k EXCEPT ![child].parent = id]
  BY DEF Insert_Key
<1> HIDE DEF m, k, g
<1>8. /\ g \in [DOMAIN h -> NodesOf(P)] /\ DOMAIN g = DOMAIN h
      /\ \A x \in DOMAIN h :
           /\ g[x].leaf = k[x].leaf /\ g[x].num = k[x].num /\ g[x].keys = k[x].keys
           /\ g[x].ptrs = k[x].ptrs /\ g[x].kids = k[x].kids
           /\ g[x].vol = k[x].vol /\ g[x].addr = k[x].addr
           /\ g[x].parent = IF child # 0 /\ x = child THEN id ELSE k[x].parent
  <2> HIDE DEF child, id
  <2>1. CASE child = 0
    BY <1>6, <1>7, <2>1
  <2>2. CASE child # 0
    <3>1. child \in DOMAIN h /\ id \in Nat
      BY <1>1, <1>2, <2>2
    <3>2. k[child] \in NodesOf(P)
      BY <1>6, <3>1
    <3> DEFINE c == [k[child] EXCEPT !.parent = id]
    <3>3. /\ c \in NodesOf(P) /\ c.leaf = k[child].leaf /\ c.num = k[child].num
          /\ c.keys = k[child].keys /\ c.ptrs = k[child].ptrs /\ c.kids = k[child].kids
          /\ c.parent = id /\ c.vol = k[child].vol /\ c.addr = k[child].addr
      BY <3>1, <3>2 DEF NodesOf
    <3>4. g = [k EXCEPT ![child] = c]
      BY <1>7, <2>2
    <3> HIDE DEF c
    <3>5. QED
      BY <1>6, <2>2, <3>1, <3>3, <3>4
  <2>3. QED
    BY <2>1, <2>2
<1>9. \A x \in DOMAIN h : Sound(g[x])
  <2>1. \A x \in DOMAIN h : Sound(k[x])
    BY <1>1, <1>3, <1>6 DEF IsHeap
  <2>2. QED
    BY <1>8, <2>1 DEF Sound, Owned
<1>10. \A x \in DOMAIN h : /\ g[x].leaf = h[x].leaf
                           /\ g[x].num = IF x = id THEN h[x].num + 1 ELSE h[x].num
  BY <1>3, <1>6, <1>8
<1>11. \A x \in DOMAIN h : Inner(h, x) => Inner(g, x)
  BY <1>3, <1>5, <1>6, <1>8 DEF Inner
<1>12. \A x \in DOMAIN h : \A i \in 0 .. Size : g[x].kids[i] \in DOMAIN h \cup {0}
  BY <1>1, <1>4, <1>6, <1>8 DEF IsHeap
<1>13. ASSUME NEW x \in DOMAIN h
       PROVE  \/ g[x].parent = h[x].parent
              \/ Inner(g, g[x].parent)
  <2>1. CASE child # 0 /\ x = child
    <3>1. ~ n.leaf
      BY <1>2, <2>1
    <3>2. Inner(g, id)
      BY <1>2, <1>3, <1>5, <1>6, <1>8, <3>1 DEF Inner
    <3>3. QED
      BY <1>8, <2>1, <3>2
  <2>2. CASE ~ (child # 0 /\ x = child)
    BY <1>3, <1>6, <1>8, <2>2
  <2>3. QED
    BY <2>1, <2>2
<1>14. g \in AnyHeapsOf(P)
  <2> HIDE DEF id, child, n
  <2>1. QED
    BY <1>1, <1>8, <1>9, <1>11, <1>12, <1>13, HeapFollows
<1>16. IsGrown(h, g, id, child)
  <2>1. Pushed(n, g[id], child)
    BY <1>2, <1>3, <1>6, <1>8 DEF Pushed
  <2> HIDE DEF child
  <2>2. \A x \in DOMAIN h : k[x].vol = h[x].vol /\ k[x].addr = h[x].addr /\ k[x].parent = h[x].parent
    BY <1>3, <1>6
  <2>3. QED
    BY <1>2, <1>3, <1>6, <1>8, <2>1, <2>2 DEF IsGrown
<1>15. QED
  BY <1>8, <1>10, <1>14, <1>16 DEF g

\* Where a full node is cut: both parts have a key, and neither is full.
LEMMA Halves ==
  /\ Half \in Nat /\ Half >= 1 /\ Half + 1 < Size
  /\ Size - Half - 1 \in Nat /\ Size - Half - 1 >= 1 /\ Size - Half - 1 < Size
<1>1. Size \in Nat /\ Size >= 3
  BY Numbers
<1>2. Size \div 2 \in Nat /\ 2 * (Size \div 2) <= Size /\ Size <= 2 * (Size \div 2) + 1
  BY <1>1
<1> DEFINE q == Size \div 2
<1> HIDE DEF q
<1>3. q \in Nat /\ 2 * q <= Size /\ Size <= 2 * q + 1
  BY <1>2 DEF q
<1>4. q >= 1 /\ q + 1 < Size /\ Size - q - 1 \in Nat /\ Size - q - 1 >= 1 /\ Size - q - 1 < Size
  BY <1>1, <1>3
<1>5. QED
  BY <1>3, <1>4 DEF q, Half

\* The left part keeps the keys with their records.
LEMMA LeftIsSound ==
  ASSUME NEW P, 0 \in P, NEW n \in NodesOf(P), Sound(n), n.num = Size
  PROVE  LET l == Left_Part(n) IN
         /\ l \in NodesOf(P) /\ Sound(l) /\ l.num # 0 /\ l.num < Size
         /\ l.leaf = n.leaf /\ l.parent = n.parent /\ l.kids = n.kids
         /\ l.vol = n.vol /\ l.addr = n.addr /\ (~ n.leaf => l.num = Half /\ l.ptrs = n.ptrs)
<1> DEFINE ptrs == [n.ptrs EXCEPT ![0] = 0]
           l == Left_Part(n)
<1>1. /\ Half \in 0 .. Size /\ Half + 1 \in 0 .. Size /\ Half # 0 /\ Half + 1 # 0
      /\ Half < Size /\ Half + 1 < Size
  BY Halves, Numbers
<1>2. CASE ~ n.leaf
  <2>1. l = [n EXCEPT !.num = Half]
    BY <1>2 DEF Left_Part
  <2> HIDE DEF l
  <2>2. /\ l \in NodesOf(P) /\ l.num = Half /\ l.leaf = n.leaf /\ l.parent = n.parent
        /\ l.kids = n.kids /\ l.vol = n.vol /\ l.addr = n.addr /\ l.ptrs = n.ptrs
    BY <1>1, <2>1 DEF NodesOf
  <2>3. QED
    BY <1>1, <1>2, <2>2 DEF Sound, l
<1>3. CASE n.leaf
  <2>1. ptrs \in [0 .. Size -> P] /\ \A i \in 0 .. Size - 1 : ptrs[i + 1] = n.ptrs[i + 1]
    BY Numbers DEF NodesOf
  <2>2. l = [n EXCEPT !.num = Half + 1, !.ptrs = ptrs]
    BY <1>3 DEF Left_Part
  <2> HIDE DEF l, ptrs
  <2>3. /\ l \in NodesOf(P) /\ l.num = Half + 1 /\ l.leaf = n.leaf /\ l.parent = n.parent
        /\ l.kids = n.kids /\ l.keys = n.keys /\ l.ptrs = ptrs
        /\ l.vol = n.vol /\ l.addr = n.addr
    BY <1>1, <2>1, <2>2 DEF NodesOf
  <2>4. \A i \in 0 .. Size - 1 : n.ptrs[i + 1] = n.keys[i]
    <3>1. \A i \in 0 .. Size - 1 : ~ (i >= Size)
      BY Numbers
    <3>2. QED
      BY <1>3, <3>1 DEF Sound, Owned
  <2>5. Owned(l)
    BY <2>1, <2>3, <2>4 DEF Owned
  <2>6. QED
    BY <1>1, <1>3, <2>3, <2>5 DEF Sound, l
<1>4. QED
  BY <1>2, <1>3

\* r has the children and pointers of n from Half + 1 on.
IsUpper(n, r) ==
  \A i \in 0 .. Size :
    IF i <= Size - Half - 1
    THEN r.kids[i] = n.kids[i + Half + 1] /\ (~ n.leaf => r.ptrs[i] = n.ptrs[i + Half + 1])
    ELSE r.kids[i] = 0

\* The right part takes keys and records from the same places.
LEMMA RightIsSound ==
  ASSUME NEW P, 0 \in P, NEW n \in NodesOf(P), Sound(n), n.num = Size
  PROVE  LET r == Right_Part(n) IN
         /\ r \in NodesOf(P) /\ Sound(r) /\ r.num # 0 /\ r.num < Size
         /\ r.leaf = n.leaf /\ r.parent = n.parent
         /\ r.vol /\ r.num = Size - Half - 1 /\ IsUpper(n, r)
         /\ \A i \in 0 .. Size : r.kids[i] = 0 \/ \E j \in 0 .. Size : r.kids[i] = n.kids[j]
<1> DEFINE count == Size - Half - 1
           keys == Upper(n.keys, count)
           pointers == Upper(n.ptrs, count + 1)
           ptrs == IF n.leaf THEN [pointers EXCEPT ![0] = n.ptrs[0]] ELSE pointers
           kids == Upper(n.kids, count + 1)
           r == Right_Part(n)
<1>1. /\ n.leaf \in BOOLEAN /\ n.keys \in [0 .. Size - 1 -> Nat]
      /\ n.ptrs \in [0 .. Size -> P] /\ n.kids \in [0 .. Size -> Nat] /\ n.parent \in Nat
  BY DEF NodesOf
<1>2. /\ count \in 0 .. Size /\ count # 0 /\ count < Size /\ count \in Nat /\ count + 1 \in Nat
      /\ Half \in Nat /\ Size \in Nat /\ count + Half + 1 = Size
  BY Halves, Numbers
<1> HIDE DEF count
<1>3. /\ \A i \in 0 .. Size - 1 : i < count => i + Half + 1 \in 0 .. Size - 1
      /\ \A i \in 0 .. Size : i < count + 1 => i + Half + 1 \in 0 .. Size
  BY <1>2
<1>0. /\ DOMAIN n.keys = 0 .. Size - 1 /\ \A i \in 0 .. Size - 1 : n.keys[i] \in Nat
      /\ DOMAIN n.ptrs = 0 .. Size /\ \A i \in 0 .. Size : n.ptrs[i] \in P
      /\ DOMAIN n.kids = 0 .. Size /\ \A i \in 0 .. Size : n.kids[i] \in Nat
  BY <1>1
<1>4. /\ keys \in [0 .. Size - 1 -> Nat]
      /\ \A i \in 0 .. Size - 1 : keys[i] = IF i < count THEN n.keys[i + Half + 1] ELSE 0
  BY <1>0, <1>3 DEF Upper
<1>5. /\ pointers \in [0 .. Size -> P]
      /\ \A i \in 0 .. Size : pointers[i] = IF i < count + 1 THEN n.ptrs[i + Half + 1] ELSE 0
  BY <1>0, <1>3 DEF Upper
<1>6. /\ kids \in [0 .. Size -> Nat]
      /\ \A i \in 0 .. Size : kids[i] = IF i < count + 1 THEN n.kids[i + Half + 1] ELSE 0
  BY <1>0, <1>3 DEF Upper
<1>7. r = [leaf |-> n.leaf, num |-> count, keys |-> keys, ptrs |-> ptrs, kids |-> kids,
           parent |-> n.parent, addr |-> 0, vol |-> TRUE, line |-> 0]
  BY DEF Right_Part, count
<1> HIDE DEF keys, pointers, kids, r
<1>8. /\ ptrs \in [0 .. Size -> P]
      /\ \A i \in 0 .. Size - 1 : ptrs[i + 1] = pointers[i + 1]
  <2>1. n.ptrs[0] \in P
    BY <1>1, Numbers
  <2>2. QED
    BY <1>5, <2>1, Numbers
<1> HIDE DEF ptrs
<1>9. r \in NodesOf(P)
  BY <1>1, <1>2, <1>4, <1>6, <1>7, <1>8 DEF NodesOf
<1>10. /\ r.leaf = n.leaf /\ r.num = count /\ r.keys = keys /\ r.ptrs = ptrs /\ r.kids = kids
       /\ r.parent = n.parent /\ r.vol = TRUE
  BY <1>7
<1>14. IsUpper(n, r)
  <2> SUFFICES ASSUME NEW i \in 0 .. Size
               PROVE  IF i <= count
                      THEN kids[i] = n.kids[i + Half + 1] /\ (~ n.leaf => ptrs[i] = n.ptrs[i + Half + 1])
                      ELSE kids[i] = 0
    BY <1>10 DEF IsUpper, count
  <2>1. i \in Nat /\ (i <= count <=> i < count + 1)
    BY <1>2
  <2>2. ~ n.leaf => ptrs = pointers
    BY DEF ptrs
  <2>3. QED
    BY <1>5, <1>6, <2>1, <2>2
<1>11. ASSUME NEW i \in 0 .. Size
       PROVE  kids[i] = 0 \/ \E j \in 0 .. Size : kids[i] = n.kids[j]
  BY <1>3, <1>6
<1>12. ASSUME n.leaf
       PROVE  Owned(r) /\ \A i \in 0 .. Size : kids[i] = 0
  <2>1. \A i \in 0 .. Size - 1 : n.ptrs[i + 1] = n.keys[i]
    <3>1. \A i \in 0 .. Size - 1 : ~ (i >= Size)
      BY Numbers
    <3>2. QED
      BY <1>12, <3>1 DEF Sound, Owned
  <2>2. ASSUME NEW i \in 0 .. Size - 1
        PROVE  ptrs[i + 1] = keys[i]
    <3>1. i + 1 \in 0 .. Size /\ i \in Nat
      BY Numbers
    <3>2. ptrs[i + 1] = pointers[i + 1]
      BY <1>8
    <3>3. CASE i < count
      <4>1. i + Half + 1 \in 0 .. Size - 1 /\ i + 1 < count + 1 /\ (i + 1) + Half + 1 = (i + Half + 1) + 1
        BY <1>2, <1>3, <3>1, <3>3
      <4>2. pointers[i + 1] = n.ptrs[(i + 1) + Half + 1] /\ keys[i] = n.keys[i + Half + 1]
        BY <1>4, <1>5, <3>1, <3>3, <4>1
      <4>3. QED
        BY <2>1, <3>2, <4>1, <4>2
    <3>4. CASE ~ (i < count)
      <4>1. ~ (i + 1 < count + 1)
        BY <1>2, <3>1, <3>4
      <4>2. QED
        BY <1>4, <1>5, <3>1, <3>2, <3>4, <4>1
    <3>5. QED
      BY <3>3, <3>4
  <2>3. QED
    BY <1>11, <1>12, <1>10, <2>2 DEF Owned, Sound
<1>13. QED
  BY <1>2, <1>9, <1>10, <1>11, <1>12, <1>14 DEF Sound, r, count

\* The nodes with a new parent, and the others.
LEMMA ChildrenMovedShape ==
  ASSUME NEW P, NEW h, \A x \in DOMAIN h : h[x] \in NodesOf(P), NEW moved, NEW parent \in Nat
  PROVE  LET g == Children_Moved(h, moved, parent) IN
         /\ g \in [DOMAIN h -> NodesOf(P)] /\ DOMAIN g = DOMAIN h
         /\ \A x \in DOMAIN h :
              /\ g[x].leaf = h[x].leaf /\ g[x].num = h[x].num /\ g[x].keys = h[x].keys
              /\ g[x].ptrs = h[x].ptrs /\ g[x].kids = h[x].kids
              /\ g[x].vol = h[x].vol /\ g[x].addr = h[x].addr
              /\ g[x].parent = IF x \in moved THEN parent ELSE h[x].parent
<1> DEFINE g == Children_Moved(h, moved, parent)
<1>1. g = [x \in DOMAIN h |-> IF x \in moved THEN [h[x] EXCEPT !.parent = parent] ELSE h[x]]
  BY DEF Children_Moved
<1>2. ASSUME NEW x \in DOMAIN h
      PROVE  LET c == [h[x] EXCEPT !.parent = parent] IN
             /\ c \in NodesOf(P)
             /\ c.leaf = h[x].leaf /\ c.num = h[x].num /\ c.keys = h[x].keys
             /\ c.ptrs = h[x].ptrs /\ c.kids = h[x].kids /\ c.parent = parent
             /\ c.vol = h[x].vol /\ c.addr = h[x].addr
  <2>1. h[x] \in NodesOf(P)
    OBVIOUS
  <2>2. QED
    BY <2>1 DEF NodesOf
<1> HIDE DEF g
<1>3. QED
  BY <1>1, <1>2 DEF g

\* g is h with node id cut in two.
IsSplit(h, g, id, right) ==
  LET moved == {g[right].kids[i] : i \in 0 .. Size} \ {0} IN
  /\ right \notin DOMAIN h /\ right # 0 /\ DOMAIN g = DOMAIN h \cup {right}
  /\ \A x \in DOMAIN g :
       g[x].parent = IF x \in moved THEN right ELSE IF x = right THEN h[id].parent ELSE h[x].parent
  /\ \A x \in DOMAIN h : g[x].vol = h[x].vol /\ g[x].addr = h[x].addr /\ g[x].kids = h[x].kids
  /\ \A x \in DOMAIN h \ {id} : g[x].num = h[x].num /\ g[x].ptrs = h[x].ptrs
  /\ g[right].vol /\ g[right].num = Size - Half - 1 /\ IsUpper(h[id], g[right])
  /\ g[id].num \in 0 .. Size
  /\ ~ h[id].leaf => g[id].num = Half /\ g[id].ptrs = h[id].ptrs

\* A full node is split: no node is full then, and the children that moved have
\* the new inner node for parent.
LEMMA SplitKeeps ==
  ASSUME NEW P, 0 \in P, NEW h \in AnyHeapsOf(P), NEW id \in DOMAIN h, h[id].num = Size,
         \A x \in DOMAIN h \ {id} : h[x].num < Size
  PROVE  LET s == Split(h, id) IN
         /\ s.heap \in AnyHeapsOf(P) /\ Room(s.heap) /\ s.mid \in Nat
         /\ s.right \in DOMAIN s.heap /\ id \in DOMAIN s.heap
         /\ Stands(s.heap, id) /\ \A x : Stands(h, x) => Stands(s.heap, x)
         /\ IsSplit(h, s.heap, id, s.right)
<1> DEFINE n == h[id]
           right == New_Id(h)
           l == Left_Part(n)
           r == Right_Part(n)
           moved == {r.kids[i] : i \in 0 .. Size} \ {0}
           first == [h EXCEPT ![id] = l]
           parted == With(first, right, r)
           g == Children_Moved(parted, moved, right)
           D == DOMAIN h \cup {right}
<1>1. IsHeap(P, h) /\ DOMAIN h \subseteq Nat \ {0} /\ IsFiniteSet(DOMAIN h) /\ h \in [DOMAIN h -> NodesOf(P)]
  BY DEF AnyHeapsOf, IsHeap
<1>2. right \in Nat \ {0} /\ right \notin DOMAIN h
  BY <1>1, NewIdIsNew
<1>3. n \in NodesOf(P) /\ Sound(n) /\ n.num = Size
      /\ \A i \in 0 .. Size : n.kids[i] \in DOMAIN h \cup {0}
  BY <1>1 DEF IsHeap
<1>4. /\ l \in NodesOf(P) /\ Sound(l) /\ l.num # 0 /\ l.num < Size
      /\ l.leaf = n.leaf /\ l.parent = n.parent /\ l.kids = n.kids
      /\ l.vol = n.vol /\ l.addr = n.addr /\ (~ n.leaf => l.num = Half /\ l.ptrs = n.ptrs)
  <2> HIDE DEF n
  <2>1. QED
    BY <1>3, LeftIsSound
<1>5. /\ r \in NodesOf(P) /\ Sound(r) /\ r.num # 0 /\ r.num < Size
      /\ r.leaf = n.leaf /\ r.parent = n.parent
      /\ r.vol /\ r.num = Size - Half - 1 /\ IsUpper(n, r)
      /\ \A i \in 0 .. Size : r.kids[i] = 0 \/ \E j \in 0 .. Size : r.kids[i] = n.kids[j]
  <2> HIDE DEF n
  <2>1. QED
    BY <1>3, RightIsSound
<1>6. Split(h, id) = [heap |-> g, right |-> right, mid |-> n.keys[IF n.leaf THEN Half + 1 ELSE Half]]
  BY DEF Split
<1>7. n.keys[IF n.leaf THEN Half + 1 ELSE Half] \in Nat
  <2>1. Half \in 0 .. Size - 1 /\ Half + 1 \in 0 .. Size - 1
    BY Halves, Numbers
  <2>2. QED
    BY <1>3, <2>1 DEF NodesOf
<1>8. /\ first \in [DOMAIN h -> NodesOf(P)] /\ first[id] = l
      /\ \A x \in DOMAIN h \ {id} : first[x] = h[x]
  <2> HIDE DEF l
  <2>1. QED
    BY <1>1, <1>4
<1> HIDE DEF first, l, r, right
<1>9. /\ DOMAIN parted = D /\ parted[right] = r /\ parted[id] = l
      /\ \A x \in DOMAIN h \ {id} : parted[x] = h[x]
      /\ \A x \in D : parted[x] \in NodesOf(P)
  <2>1. DOMAIN parted = DOMAIN first \cup {right} /\ parted[right] = r
        /\ \A x \in DOMAIN first : x # right => parted[x] = first[x]
    BY DEF With
  <2> HIDE DEF parted
  <2>2. DOMAIN parted = D /\ parted[right] = r /\ parted[id] = l
        /\ \A x \in DOMAIN h \ {id} : parted[x] = h[x]
    BY <1>2, <1>8, <2>1
  <2>3. QED
    BY <1>1, <1>4, <1>5, <2>2
<1> HIDE DEF parted
<1>10. \A x \in moved : ~ n.leaf /\ x \in DOMAIN h
  <2> SUFFICES ASSUME NEW i \in 0 .. Size, r.kids[i] # 0
               PROVE  ~ n.leaf /\ r.kids[i] \in DOMAIN h
    OBVIOUS
  <2>1. ~ r.leaf
    BY <1>5 DEF Sound
  <2>2. QED
    BY <1>3, <1>5, <2>1
<1> HIDE DEF moved
<1>11. /\ g \in [D -> NodesOf(P)] /\ DOMAIN g = D
       /\ \A x \in D :
            /\ g[x].leaf = parted[x].leaf /\ g[x].num = parted[x].num /\ g[x].keys = parted[x].keys
            /\ g[x].ptrs = parted[x].ptrs /\ g[x].kids = parted[x].kids
            /\ g[x].vol = parted[x].vol /\ g[x].addr = parted[x].addr
            /\ g[x].parent = IF x \in moved THEN right ELSE parted[x].parent
  <2>1. right \in Nat /\ \A x \in DOMAIN parted : parted[x] \in NodesOf(P)
    BY <1>2, <1>9
  <2>2. QED
    BY <1>9, <2>1, ChildrenMovedShape
<1> HIDE DEF g
<1>12. Inner(g, right) \/ moved = {}
  <2>1. CASE n.leaf
    BY <1>10, <2>1
  <2>2. CASE ~ n.leaf
    BY <1>5, <1>9, <1>11, <2>2 DEF Inner
  <2>3. QED
    BY <2>1, <2>2
<1>13. \A x \in DOMAIN h : /\ g[x].leaf = h[x].leaf
                           /\ h[x].num # 0 => g[x].num # 0
                           /\ g[x].num < Size
  BY <1>4, <1>9, <1>11
<1>14. \A x \in DOMAIN h : Inner(h, x) => Inner(g, x)
  BY <1>11, <1>13 DEF Inner
<1>15. \A x \in D : Sound(g[x])
  <2>1. \A x \in D : Sound(parted[x])
    BY <1>1, <1>4, <1>5, <1>9 DEF IsHeap
  <2>2. QED
    BY <1>11, <2>1 DEF Sound, Owned
<1>16. \A x \in D : \A i \in 0 .. Size : g[x].kids[i] \in D \cup {0}
  <2>1. \A x \in DOMAIN h \ {id} : \A i \in 0 .. Size : parted[x].kids[i] \in D \cup {0}
    BY <1>1, <1>9 DEF IsHeap
  <2>2. \A i \in 0 .. Size : l.kids[i] \in D \cup {0} /\ r.kids[i] \in D \cup {0}
    BY <1>3, <1>4, <1>5
  <2>3. QED
    BY <1>9, <1>11, <2>1, <2>2
<1>17. ASSUME NEW x \in D
       PROVE  \/ g[x].parent = 0
              \/ x \in DOMAIN h /\ g[x].parent = h[x].parent
              \/ Inner(g, g[x].parent)
  <2>1. CASE x \in moved
    BY <1>11, <1>12, <2>1
  <2>2. CASE x \notin moved /\ x = right
    <3>1. g[x].parent = n.parent
      BY <1>5, <1>9, <1>11, <2>2
    <3>2. n.parent = 0 \/ Inner(h, n.parent)
      BY <1>1 DEF IsHeap
    <3>3. QED
      BY <1>14, <3>1, <3>2 DEF Inner
  <2>3. CASE x \notin moved /\ x # right
    BY <1>4, <1>9, <1>11, <2>3
  <2>4. QED
    BY <2>1, <2>2, <2>3
<1>18. D \subseteq Nat \ {0} /\ IsFiniteSet(D)
  BY <1>1, <1>2, FS_AddElement
<1>19. g \in AnyHeapsOf(P)
  <2>1. DOMAIN h \subseteq DOMAIN g
    BY <1>11
  <2> HIDE DEF D
  <2>2. QED
    BY <1>11, <1>14, <1>15, <1>16, <1>17, <1>18, <2>1, HeapFollows
<1>20. Room(g)
  BY <1>5, <1>9, <1>11, <1>13 DEF Room
<1>21. \A x : Stands(h, x) => Stands(g, x)
  BY <1>11, <1>13 DEF Stands
<1>22. Stands(g, id)
  BY <1>3, <1>11, <1>13, Numbers DEF Stands
<1>24. IsSplit(h, g, id, right)
  <2>1. moved = {g[right].kids[i] : i \in 0 .. Size} \ {0}
    BY <1>9, <1>11 DEF moved
  <2>2. /\ right \notin DOMAIN h /\ right # 0 /\ DOMAIN g = DOMAIN h \cup {right}
    BY <1>2, <1>11
  <2>3. \A x \in DOMAIN g :
       g[x].parent = IF x \in moved THEN right ELSE IF x = right THEN h[id].parent ELSE h[x].parent
    BY <1>2, <1>4, <1>5, <1>9, <1>11
  <2>4. \A x \in DOMAIN h : g[x].vol = h[x].vol /\ g[x].addr = h[x].addr /\ g[x].kids = h[x].kids
    BY <1>4, <1>9, <1>11
  <2>5. \A x \in DOMAIN h \ {id} : g[x].num = h[x].num /\ g[x].ptrs = h[x].ptrs
    BY <1>9, <1>11
  <2>6. g[right].vol /\ g[right].num = Size - Half - 1 /\ IsUpper(n, g[right])
    BY <1>5, <1>9, <1>11 DEF IsUpper
  <2>7. g[id].num \in 0 .. Size /\ (~ n.leaf => g[id].num = Half /\ g[id].ptrs = n.ptrs)
    <3>1. g[id] \in NodesOf(P)
      BY <1>11
    <3>2. QED
      BY <1>4, <1>9, <1>11, <3>1 DEF NodesOf
  <2> HIDE DEF n
  <2>8. QED
    BY <2>1, <2>2, <2>3, <2>4, <2>5, <2>6, <2>7 DEF IsSplit, n
<1>23. QED
  BY <1>6, <1>7, <1>11, <1>19, <1>20, <1>21, <1>22, <1>24

\* A new root with one key and two children.
LEMMA NewRoot ==
  ASSUME NEW P, 0 \in P, NEW left \in Nat, NEW right \in Nat, NEW key \in Nat
  PROVE  LET n == New_Root(left, right, key) IN
         /\ n \in NodesOf(P) /\ Sound(n) /\ ~ n.leaf /\ n.num = 1 /\ n.parent = 0
         /\ \A i \in 0 .. Size : n.kids[i] \in {left, right, 0}
         /\ n.vol /\ n.kids[0] = left /\ n.kids[1] = right
<1> DEFINE b == New_Node(FALSE)
           keys == [i \in 0 .. Size - 1 |-> IF i = 0 THEN key ELSE 0]
           kids == [i \in 0 .. Size |-> IF i = 0 THEN left ELSE IF i = 1 THEN right ELSE 0]
           n == New_Root(left, right, key)
<1>1. b \in NodesOf(P) /\ b.leaf = FALSE /\ b.parent = 0 /\ b.vol = TRUE
  <2>1. b \in NodesOf(P)
    BY NewNode
  <2>2. QED
    BY <2>1 DEF New_Node
<1>2. keys \in [0 .. Size - 1 -> Nat] /\ kids \in [0 .. Size -> Nat] /\ 1 \in 0 .. Size
      /\ \A i \in 0 .. Size : kids[i] \in {left, right, 0}
      /\ kids[0] = left /\ kids[1] = right
  BY Numbers
<1>3. n = [b EXCEPT !.num = 1, !.keys = keys, !.kids = kids]
  BY DEF New_Root
<1> HIDE DEF b, keys, kids, n
<1>4. n \in NodesOf(P) /\ n.leaf = FALSE /\ n.num = 1 /\ n.parent = 0 /\ n.kids = kids
      /\ n.vol = TRUE
  BY <1>1, <1>2, <1>3 DEF NodesOf
<1>5. QED
  BY <1>2, <1>4 DEF Sound, n

\* g is h with node top above two nodes that had no parent.
IsRaised(h, g, top, left, right) ==
  /\ top \notin DOMAIN h /\ top # 0 /\ DOMAIN g = DOMAIN h \cup {top}
  /\ \A x \in DOMAIN h :
       /\ g[x].vol = h[x].vol /\ g[x].addr = h[x].addr /\ g[x].num = h[x].num
       /\ g[x].ptrs = h[x].ptrs /\ g[x].kids = h[x].kids
       /\ g[x].parent = IF x \in {left, right} THEN top ELSE h[x].parent
  /\ g[top].vol /\ g[top].num = 1 /\ g[top].parent = 0
  /\ g[top].kids[0] = left /\ g[top].kids[1] = right

\* The heap with the new root in it.
LEMMA RaisedKeeps ==
  ASSUME NEW P, 0 \in P, NEW h \in AnyHeapsOf(P), Room(h),
         NEW left \in DOMAIN h, NEW right \in DOMAIN h, NEW key \in Nat
  PROVE  LET g == Raised(h, left, right, key) IN
         /\ g \in AnyHeapsOf(P) /\ Room(g) /\ Stands(g, New_Id(h)) /\ New_Id(h) \in Nat
         /\ IsRaised(h, g, New_Id(h), left, right)
<1> DEFINE top == New_Id(h)
           r == New_Root(left, right, key)
           k == Children_Moved(h, {left, right}, top)
           g == With(k, top, r)
           D == DOMAIN h \cup {top}
<1>1. /\ IsHeap(P, h) /\ DOMAIN h \subseteq Nat \ {0} /\ IsFiniteSet(DOMAIN h)
      /\ \A x \in DOMAIN h : h[x] \in NodesOf(P)
  BY DEF AnyHeapsOf, IsHeap
<1>2. top \in Nat \ {0} /\ top \notin DOMAIN h
  BY <1>1, NewIdIsNew
<1>3. /\ r \in NodesOf(P) /\ Sound(r) /\ ~ r.leaf /\ r.num = 1 /\ r.parent = 0
      /\ \A i \in 0 .. Size : r.kids[i] \in {left, right, 0}
      /\ r.vol /\ r.kids[0] = left /\ r.kids[1] = right
  <2>1. left \in Nat /\ right \in Nat
    BY <1>1
  <2>2. QED
    BY <2>1, NewRoot
<1> HIDE DEF top, r
<1>4. /\ k \in [DOMAIN h -> NodesOf(P)] /\ DOMAIN k = DOMAIN h
      /\ \A x \in DOMAIN h :
           /\ k[x].leaf = h[x].leaf /\ k[x].num = h[x].num /\ k[x].keys = h[x].keys
           /\ k[x].ptrs = h[x].ptrs /\ k[x].kids = h[x].kids
           /\ k[x].vol = h[x].vol /\ k[x].addr = h[x].addr
           /\ k[x].parent = IF x \in {left, right} THEN top ELSE h[x].parent
  <2>1. top \in Nat
    BY <1>2
  <2>2. QED
    BY <1>1, <2>1, ChildrenMovedShape
<1> HIDE DEF k
<1>5. /\ DOMAIN g = D /\ g[top] = r /\ g \in [D -> NodesOf(P)]
      /\ \A x \in DOMAIN h : g[x] = k[x]
  BY <1>2, <1>3, <1>4 DEF With
<1> HIDE DEF g
<1>6. Inner(g, top)
  BY <1>3, <1>5 DEF Inner
<1>7. \A x \in DOMAIN h : Inner(h, x) => Inner(g, x)
  BY <1>4, <1>5 DEF Inner
<1>8. \A x \in D : Sound(g[x])
  <2>1. \A x \in DOMAIN h : Sound(h[x])
    BY <1>1 DEF IsHeap
  <2>2. \A x \in DOMAIN h : Sound(k[x])
    BY <1>4, <2>1 DEF Sound, Owned
  <2>3. QED
    BY <1>3, <1>5, <2>2
<1>9. \A x \in D : \A i \in 0 .. Size : g[x].kids[i] \in D \cup {0}
  BY <1>1, <1>3, <1>4, <1>5 DEF IsHeap
<1>10. \A x \in D : \/ g[x].parent = 0
                    \/ x \in DOMAIN h /\ g[x].parent = h[x].parent
                    \/ Inner(g, g[x].parent)
  BY <1>3, <1>4, <1>5, <1>6
<1>11. D \subseteq Nat \ {0} /\ IsFiniteSet(D) /\ DOMAIN h \subseteq D
  BY <1>1, <1>2, FS_AddElement
<1>12. g \in AnyHeapsOf(P)
  <2> HIDE DEF D
  <2>1. QED
    BY <1>5, <1>7, <1>8, <1>9, <1>10, <1>11, HeapFollows
<1>13. Room(g)
  BY <1>1, <1>3, <1>4, <1>5, Numbers DEF Room
<1>14. Stands(g, top)
  BY <1>3, <1>5 DEF Stands
<1>16. IsRaised(h, g, top, left, right)
  BY <1>2, <1>3, <1>4, <1>5 DEF IsRaised
<1>15. QED
  BY <1>2, <1>12, <1>13, <1>14, <1>16 DEF Raised, g, k, top, r

-----------------------------------------------------------------------------
\* Links through an insertion

\* The child that a call adds has its parent already, and is nowhere among the
\* children of it.
Offered(h, id, child) ==
  child # 0 => /\ child \in DOMAIN h /\ h[child].vol /\ h[child].parent = id
               /\ \A i \in 0 .. h[id].num : h[id].kids[i] # child

\* A node with one more child: the links of its other children go with them.
LEMMA GrowLinks ==
  ASSUME NEW P, NEW h \in AnyHeapsOf(P), NEW g, NEW w,
         w.id \in DOMAIN h, IsGrown(h, g, w.id, w.child), Offered(h, w.id, w.child)
  PROVE  \A d, x : Linked(h, d, x) => Linked(g, d, x)
<1> SUFFICES ASSUME NEW d, NEW z, Linked(h, d, z)
             PROVE  Linked(g, d, z)
  OBVIOUS
<1> DEFINE id == w.id  child == w.child
<1>1. /\ DOMAIN g = DOMAIN h
      /\ \A x \in DOMAIN h : /\ g[x].vol = h[x].vol /\ g[x].addr = h[x].addr
                             /\ g[x].parent = h[x].parent
      /\ \A x \in DOMAIN h \ {id} :
           g[x].num = h[x].num /\ g[x].ptrs = h[x].ptrs /\ g[x].kids = h[x].kids
      /\ g[id].num = h[id].num + 1
  BY DEF IsGrown, Offered
<1>2. /\ 0 \notin DOMAIN h
      /\ \A x \in DOMAIN h :
           /\ h[x].num \in Nat
           /\ h[x].parent = 0 \/ h[x].parent \in DOMAIN h
           /\ \A i \in 0 .. h[x].num : h[x].kids[i] \in DOMAIN h \cup {0}
  BY HeapShape
<1>3. Depths(g, d)
  BY <1>1 DEF Linked, Depths
<1>4. Risen(g, z)
  BY <1>1, <1>2 DEF Linked, Risen
<1>5. Joined(g)
  <2>0. Joined(h)
    BY DEF Linked
  <2>1. ASSUME NEW x \in DOMAIN h, x # id, NEW i \in 0 .. g[x].num, g[x].kids[i] # 0
        PROVE  /\ g[g[x].kids[i]].parent = x
               /\ g[g[x].kids[i]].vol \/ g[g[x].kids[i]].addr = g[x].ptrs[i]
               /\ \A j \in 0 .. g[x].num : g[x].kids[j] = g[x].kids[i] => j = i
    <3>1. g[x].num = h[x].num /\ g[x].ptrs = h[x].ptrs /\ g[x].kids = h[x].kids
      BY <1>1, <2>1
    <3>2. h[x].kids[i] \in DOMAIN h
      BY <1>2, <2>1, <3>1
    <3>3. QED
      BY <1>1, <2>0, <2>1, <3>1, <3>2 DEF Joined
  <2>2. ASSUME NEW i \in 0 .. g[id].num, g[id].kids[i] # 0
        PROVE  /\ g[g[id].kids[i]].parent = id
               /\ g[g[id].kids[i]].vol \/ g[g[id].kids[i]].addr = g[id].ptrs[i]
               /\ \A j \in 0 .. g[id].num : g[id].kids[j] = g[id].kids[i] => j = i
    <3> DEFINE n == h[id]  m == g[id]  num == h[id].num
    <3>1. Pushed(n, m, child) /\ num \in Nat /\ m.num = num + 1
      BY <1>1, <1>2 DEF IsGrown
    <3>2. PICK at \in 0 .. num : \A k \in 0 .. num + 1 :
            /\ k <= at => m.kids[k] = n.kids[k] /\ m.ptrs[k] = n.ptrs[k]
            /\ k = at + 1 => m.kids[k] = child
            /\ k > at + 1 => m.kids[k] = n.kids[k - 1] /\ m.ptrs[k] = n.ptrs[k - 1]
      BY <3>1 DEF Pushed
    <3> DEFINE Old(k) == IF k <= at THEN k ELSE k - 1
    <3>3. \A k \in 0 .. num + 1 : k # at + 1 =>
            /\ Old(k) \in 0 .. num /\ m.kids[k] = n.kids[Old(k)] /\ m.ptrs[k] = n.ptrs[Old(k)]
      <4> HIDE DEF n, m, num
      <4>1. QED
        BY <3>1, <3>2
    <3>4. \A k, l \in 0 .. num + 1 : k # at + 1 /\ l # at + 1 /\ Old(k) = Old(l) => k = l
      <4> HIDE DEF num
      <4>1. QED
        BY <3>1
    <3>5. \A k \in 0 .. num : n.kids[k] # 0 =>
            /\ n.kids[k] \in DOMAIN h /\ h[n.kids[k]].parent = id
            /\ h[n.kids[k]].vol \/ h[n.kids[k]].addr = n.ptrs[k]
            /\ \A l \in 0 .. num : n.kids[l] = n.kids[k] => l = k
      BY <1>2, <2>0 DEF Joined
    <3>6. m.kids[at + 1] = child
      BY <3>1, <3>2
    <3>7. i \in 0 .. num + 1
      BY <2>2, <3>1
    <3>8. \A k \in 0 .. num : child # 0 => n.kids[k] # child
      BY DEF Offered
    <3>9. CASE i = at + 1
      <4>1. g[child].parent = id /\ g[child].vol
        BY <1>1, <2>2, <3>6, <3>9 DEF Offered
      <4>2. \A k \in 0 .. num + 1 : m.kids[k] = child => k = at + 1
        <5> HIDE DEF n, m, num, Old, child
        <5>1. QED
          BY <2>2, <3>3, <3>6, <3>8, <3>9, SMTT(30) DEF m
      <4>3. QED
        BY <3>1, <3>6, <3>9, <4>1, <4>2
    <3>10. CASE i # at + 1
      <4> DEFINE o == Old(i)
      <4>1. o \in 0 .. num /\ m.kids[i] = n.kids[o] /\ m.ptrs[i] = n.ptrs[o]
        BY <3>3, <3>7, <3>10
      <4>2. /\ n.kids[o] \in DOMAIN h /\ h[n.kids[o]].parent = id
            /\ h[n.kids[o]].vol \/ h[n.kids[o]].addr = n.ptrs[o]
            /\ \A l \in 0 .. num : n.kids[l] = n.kids[o] => l = o
        BY <2>2, <3>5, <4>1
      <4>3. \A k \in 0 .. num + 1 : m.kids[k] = n.kids[o] => k = i
        <5> SUFFICES ASSUME NEW k \in 0 .. num + 1, m.kids[k] = n.kids[o]
                     PROVE  k = i
          OBVIOUS
        <5>1. k # at + 1
          BY <2>2, <3>6, <3>8, <4>1
        <5>2. Old(k) = o
          BY <3>3, <4>2, <5>1
        <5>3. QED
          BY <3>4, <3>7, <3>10, <5>1, <5>2
      <4>4. QED
        BY <1>1, <3>1, <4>1, <4>2, <4>3
    <3>11. QED
      BY <3>9, <3>10
  <2>3. QED
    BY <1>1, <2>1, <2>2 DEF Joined
<1>6. QED
  BY <1>3, <1>4, <1>5 DEF Linked

\* The right part has the depth of the node, and is offered to its parent.
IsLinkedSplit(h, g, w) ==
  \A d : Linked(h, d, h[w.id].parent) =>
    /\ g[w.id].parent = h[w.id].parent /\ g[w.right].parent = h[w.id].parent
    /\ h[w.id].parent # 0 => Offered(g, h[w.id].parent, w.right)
    /\ \E e : /\ Linked(g, e, h[w.id].parent)
              /\ e[w.right] = d[w.id] /\ \A x \in DOMAIN h : e[x] = d[x]

\* A node cut in two.
LEMMA SplitLinks ==
  ASSUME NEW P, NEW h \in AnyHeapsOf(P), NEW g, NEW w,
         w.id \in DOMAIN h /\ h[w.id].num = Size /\ IsSplit(h, g, w.id, w.right),
         h[w.id].leaf => \A i \in 0 .. Size : h[w.id].kids[i] = 0
  PROVE  IsLinkedSplit(h, g, w)
<1> SUFFICES ASSUME NEW d, Linked(h, d, h[w.id].parent)
             PROVE  /\ g[w.id].parent = h[w.id].parent /\ g[w.right].parent = h[w.id].parent
                    /\ h[w.id].parent # 0 => Offered(g, h[w.id].parent, w.right)
                    /\ \E e : /\ Linked(g, e, h[w.id].parent)
                              /\ e[w.right] = d[w.id] /\ \A x \in DOMAIN h : e[x] = d[x]
  BY DEF IsLinkedSplit
<1> DEFINE id == w.id  right == w.right  n == h[id]  p == n.parent
           moved == {g[right].kids[i] : i \in 0 .. Size} \ {0}
<1>1. /\ right \notin DOMAIN h /\ right # 0 /\ DOMAIN g = DOMAIN h \cup {right}
      /\ \A x \in DOMAIN g :
           g[x].parent = IF x \in moved THEN right ELSE IF x = right THEN p ELSE h[x].parent
      /\ \A x \in DOMAIN h : g[x].vol = h[x].vol /\ g[x].addr = h[x].addr /\ g[x].kids = h[x].kids
      /\ \A x \in DOMAIN h \ {id} : g[x].num = h[x].num /\ g[x].ptrs = h[x].ptrs
      /\ g[right].vol /\ g[right].num = Size - Half - 1 /\ IsUpper(n, g[right])
      /\ g[id].num \in 0 .. Size
      /\ ~ n.leaf => g[id].num = Half /\ g[id].ptrs = n.ptrs
  BY DEF IsSplit
<1>2. /\ IsFiniteSet(DOMAIN h) /\ 0 \notin DOMAIN h
      /\ \A x \in DOMAIN h :
           /\ h[x].num \in Nat /\ (h[x].parent = 0 \/ h[x].parent \in DOMAIN h)
           /\ \A i \in 0 .. h[x].num : i \in 0 .. Size /\ h[x].kids[i] \in DOMAIN h \cup {0}
  BY HeapShape
<1>3. /\ id \in DOMAIN h /\ n.num = Size /\ Depths(h, d) /\ Joined(h) /\ Risen(h, p)
  BY DEF Linked
<1>4. /\ d \in [DOMAIN h -> Nat]
      /\ \A x \in DOMAIN h : d[x] < Cardinality(DOMAIN h)
      /\ \A x \in DOMAIN h : h[x].parent # 0 => d[x] = d[h[x].parent] + 1
  BY <1>3 DEF Depths
<1>5. \A x \in DOMAIN h : h[x].parent # x
  <2> SUFFICES ASSUME NEW x \in DOMAIN h, h[x].parent = x
               PROVE  FALSE
    OBVIOUS
  <2>1. d[x] = d[x] + 1 /\ d[x] \in Nat
    BY <1>2, <1>4
  <2>2. QED
    BY <2>1
<1>6. \A k \in 0 .. Size : n.kids[k] # 0 =>
        /\ ~ n.leaf /\ n.kids[k] \in DOMAIN h /\ h[n.kids[k]].parent = id
        /\ h[n.kids[k]].vol \/ h[n.kids[k]].addr = n.ptrs[k]
        /\ \A l \in 0 .. Size : n.kids[l] = n.kids[k] => l = k
  BY <1>2, <1>3 DEF Joined
<1>7. /\ Half \in Nat /\ Size \in Nat /\ Half + 1 < Size /\ Size - Half - 1 \in Nat
  BY Halves, Numbers
<1>8. \A i \in 0 .. Size :
        /\ i <= Size - Half - 1 =>
             /\ i + Half + 1 \in 0 .. Size /\ g[right].kids[i] = n.kids[i + Half + 1]
             /\ ~ n.leaf => g[right].ptrs[i] = n.ptrs[i + Half + 1]
        /\ ~ (i <= Size - Half - 1) => g[right].kids[i] = 0
  <2> HIDE DEF n, right
  <2>1. QED
    BY <1>1, <1>7 DEF IsUpper
<1>9. \A x \in moved : /\ x \in DOMAIN h /\ h[x].parent = id
                       /\ \E k \in 0 .. Size : k > Half /\ n.kids[k] = x
  <2> SUFFICES ASSUME NEW i \in 0 .. Size, g[right].kids[i] # 0
               PROVE  /\ g[right].kids[i] \in DOMAIN h /\ h[g[right].kids[i]].parent = id
                      /\ \E k \in 0 .. Size : k > Half /\ n.kids[k] = g[right].kids[i]
    OBVIOUS
  <2>1. i <= Size - Half - 1 /\ i + Half + 1 \in 0 .. Size /\ g[right].kids[i] = n.kids[i + Half + 1]
    BY <1>8
  <2>2. i + Half + 1 > Half
    BY <1>7
  <2> HIDE DEF n, right
  <2>3. QED
    BY <1>6, <2>1, <2>2
<1> HIDE DEF moved
<1>10. /\ \A x \in DOMAIN h : g[x].parent = IF x \in moved THEN right ELSE h[x].parent
       /\ g[right].parent = p /\ id \notin moved /\ g[id].parent = p
  <2>1. right \notin moved
    BY <1>1, <1>9
  <2>2. id \notin moved
    BY <1>3, <1>5, <1>9
  <2>3. QED
    BY <1>1, <1>3, <2>1, <2>2
<1> DEFINE e == [x \in DOMAIN g |-> IF x = right THEN d[id] ELSE d[x]]
<1>11. e[right] = d[id] /\ (\A x \in DOMAIN h : e[x] = d[x]) /\ e \in [DOMAIN g -> Nat]
  BY <1>1, <1>3, <1>4
<1> HIDE DEF e
<1>12. Depths(g, e)
  <2>1. Cardinality(DOMAIN g) = Cardinality(DOMAIN h) + 1 /\ Cardinality(DOMAIN h) \in Nat
    BY <1>1, <1>2, FS_AddElement, FS_CardinalityType
  <2>2. \A x \in DOMAIN g : e[x] < Cardinality(DOMAIN g)
    BY <1>1, <1>3, <1>4, <1>11, <2>1
  <2>3. ASSUME NEW x \in DOMAIN h, g[x].parent # 0
        PROVE  e[x] = e[g[x].parent] + 1
    <3>1. CASE x \in moved
      BY <1>2, <1>3, <1>4, <1>9, <1>10, <1>11, <3>1
    <3>2. CASE x \notin moved
      BY <1>2, <1>4, <1>10, <1>11, <2>3, <3>2
    <3>3. QED
      BY <3>1, <3>2
  <2>4. p # 0 => e[right] = e[p] + 1
    BY <1>2, <1>3, <1>4, <1>11
  <2>5. QED
    BY <1>1, <1>10, <1>11, <2>2, <2>3, <2>4 DEF Depths
<1>13. Risen(g, p)
  <2> SUFFICES ASSUME NEW x \in DOMAIN g, g[x].vol, g[x].parent \notin {0, p}
               PROVE  g[g[x].parent].vol
    BY DEF Risen
  <2>1. x \in DOMAIN h
    BY <1>1, <1>10
  <2>2. CASE x \in moved
    BY <1>1, <1>10, <2>1, <2>2
  <2>3. CASE x \notin moved
    BY <1>1, <1>2, <1>3, <1>10, <2>1, <2>3 DEF Risen
  <2>4. QED
    BY <2>2, <2>3
<1>14. Joined(g)
  <2> SUFFICES ASSUME NEW x \in DOMAIN g, NEW i \in 0 .. g[x].num, g[x].kids[i] # 0
               PROVE  /\ g[g[x].kids[i]].parent = x
                      /\ g[g[x].kids[i]].vol \/ g[g[x].kids[i]].addr = g[x].ptrs[i]
                      /\ \A j \in 0 .. g[x].num : g[x].kids[j] = g[x].kids[i] => j = i
    BY DEF Joined
  <2>1. CASE x \in DOMAIN h /\ x # id
    <3>1. g[x].num = h[x].num /\ g[x].ptrs = h[x].ptrs /\ g[x].kids = h[x].kids
      BY <1>1, <2>1
    <3>2. /\ h[x].kids[i] \in DOMAIN h /\ h[h[x].kids[i]].parent = x
          /\ h[h[x].kids[i]].vol \/ h[h[x].kids[i]].addr = h[x].ptrs[i]
          /\ \A j \in 0 .. h[x].num : h[x].kids[j] = h[x].kids[i] => j = i
      BY <1>2, <1>3, <2>1, <3>1 DEF Joined
    <3>3. h[x].kids[i] \notin moved
      BY <1>9, <2>1, <3>2
    <3>4. QED
      BY <1>1, <1>10, <3>1, <3>2, <3>3
  <2>2. CASE x = id
    <3>1. n.kids[i] # 0 /\ ~ n.leaf /\ g[id].num = Half /\ g[id].ptrs = n.ptrs /\ g[id].kids = n.kids
      <4>1. g[id].kids = n.kids
        BY <1>1, <1>3
      <4>2. CASE n.leaf
        <5>1. DOMAIN n.kids = 0 .. Size
          BY <1>3 DEF AnyHeapsOf, IsHeap, NodesOf
        <5>2. i \in 0 .. Size
          BY <1>1, <2>2, Numbers
        <5>3. QED
          BY <1>6, <2>2, <4>1, <4>2, <5>2
      <4>3. CASE ~ n.leaf
        BY <1>1, <2>2, <4>1, <4>3
      <4>4. QED
        BY <4>2, <4>3
    <3>2. \A j \in 0 .. Half : j \in 0 .. Size /\ ~ (j > Half)
      BY <1>7
    <3>3. /\ n.kids[i] \in DOMAIN h /\ h[n.kids[i]].parent = id
          /\ h[n.kids[i]].vol \/ h[n.kids[i]].addr = n.ptrs[i]
          /\ \A l \in 0 .. Size : n.kids[l] = n.kids[i] => l = i
      BY <1>6, <2>2, <3>1, <3>2
    <3>4. n.kids[i] \notin moved
      BY <1>9, <2>2, <3>1, <3>2, <3>3
    <3> HIDE DEF n, id
    <3>5. QED
      BY <1>1, <1>10, <2>2, <3>1, <3>2, <3>3, <3>4
  <2>3. CASE x = right
    <3>1. i \in 0 .. Size /\ i <= Size - Half - 1 /\ g[x].num = Size - Half - 1
      BY <1>1, <1>7, <2>3
    <3> DEFINE Up(k) == k + Half + 1
    <3>2. /\ Up(i) \in 0 .. Size /\ g[x].kids[i] = n.kids[Up(i)]
          /\ ~ n.leaf => g[x].ptrs[i] = n.ptrs[Up(i)]
      BY <1>8, <2>3, <3>1
    <3>3. /\ ~ n.leaf /\ n.kids[Up(i)] \in DOMAIN h
          /\ h[n.kids[Up(i)]].vol \/ h[n.kids[Up(i)]].addr = n.ptrs[Up(i)]
          /\ \A l \in 0 .. Size : n.kids[l] = n.kids[Up(i)] => l = Up(i)
      <4> HIDE DEF n, Up
      <4>1. QED
        BY <1>6, <3>2
    <3>4. g[x].kids[i] \in moved
      BY <2>3, <3>1 DEF moved
    <3>5. \A j \in 0 .. g[x].num : g[x].kids[j] = g[x].kids[i] => j = i
      <4> SUFFICES ASSUME NEW j \in 0 .. g[x].num, g[x].kids[j] = g[x].kids[i]
                   PROVE  j = i
        OBVIOUS
      <4>1. j \in 0 .. Size /\ j <= Size - Half - 1
        BY <1>7, <3>1
      <4>2. Up(j) \in 0 .. Size /\ n.kids[Up(j)] = n.kids[Up(i)]
        BY <1>8, <2>3, <3>2, <4>1
      <4>3. Up(j) = Up(i)
        <5> HIDE DEF Up, n
        <5>1. QED
          BY <3>3, <4>2
      <4>4. QED
        BY <1>7, <4>3
    <3> HIDE DEF n, Up
    <3>6. QED
      BY <1>1, <1>10, <2>3, <3>2, <3>3, <3>4, <3>5
  <2>4. QED
    BY <1>1, <2>1, <2>2, <2>3
<1>15. p # 0 => Offered(g, p, right)
  <2>1. p # 0 => p \in DOMAIN h /\ p # id
    BY <1>2, <1>3, <1>5
  <2>2. p # 0 => g[p].num = h[p].num /\ g[p].kids = h[p].kids
    BY <1>1, <2>1
  <2>3. p # 0 => \A i \in 0 .. g[p].num : g[p].kids[i] # right
    BY <1>1, <1>2, <2>1, <2>2
  <2>4. QED
    BY <1>1, <1>10, <2>3 DEF Offered
<1>16. Linked(g, e, p)
  BY <1>12, <1>13, <1>14 DEF Linked
<1>17. QED
  BY <1>10, <1>11, <1>15, <1>16

\* A root put above the two parts of the old one.
LEMMA RaiseLinks ==
  ASSUME NEW P, NEW h \in AnyHeapsOf(P), NEW g, NEW w,
         /\ w.left \in DOMAIN h /\ w.right \in DOMAIN h /\ w.left # w.right
         /\ h[w.left].parent = 0 /\ h[w.right].parent = 0
         /\ h[w.left].vol /\ h[w.right].vol
         /\ IsRaised(h, g, w.top, w.left, w.right)
  PROVE  \A d : Linked(h, d, 0) /\ d[w.left] = d[w.right] => Links(g)
<1> SUFFICES ASSUME NEW d, Linked(h, d, 0), d[w.left] = d[w.right]
             PROVE  Links(g)
  OBVIOUS
<1> DEFINE top == w.top  left == w.left  right == w.right
<1>1. /\ left \in DOMAIN h /\ right \in DOMAIN h /\ left # right
      /\ h[left].parent = 0 /\ h[right].parent = 0 /\ h[left].vol /\ h[right].vol
      /\ top \notin DOMAIN h /\ top # 0 /\ DOMAIN g = DOMAIN h \cup {top}
      /\ \A x \in DOMAIN h :
           /\ g[x].vol = h[x].vol /\ g[x].addr = h[x].addr /\ g[x].num = h[x].num
           /\ g[x].ptrs = h[x].ptrs /\ g[x].kids = h[x].kids
           /\ g[x].parent = IF x \in {left, right} THEN top ELSE h[x].parent
      /\ g[top].vol /\ g[top].num = 1 /\ g[top].parent = 0
      /\ g[top].kids[0] = left /\ g[top].kids[1] = right
  BY DEF IsRaised
<1>2. /\ IsFiniteSet(DOMAIN h) /\ 0 \notin DOMAIN h
      /\ \A x \in DOMAIN h :
           /\ h[x].parent = 0 \/ h[x].parent \in DOMAIN h
           /\ \A i \in 0 .. h[x].num : h[x].kids[i] \in DOMAIN h \cup {0}
  BY HeapShape
<1>3. /\ d \in [DOMAIN h -> Nat]
      /\ \A x \in DOMAIN h : d[x] < Cardinality(DOMAIN h)
      /\ \A x \in DOMAIN h : h[x].parent # 0 => d[x] = d[h[x].parent] + 1
      /\ d[left] = d[right] /\ Joined(h) /\ Risen(h, 0)
  BY DEF Linked, Depths
<1> HIDE DEF top, left, right
<1> DEFINE e == [x \in DOMAIN g |-> IF x = top THEN d[left] ELSE d[x] + 1]
<1>4. e[top] = d[left] /\ (\A x \in DOMAIN h : e[x] = d[x] + 1) /\ e \in [DOMAIN g -> Nat]
  BY <1>1, <1>3
<1> HIDE DEF e
<1>5. Depths(g, e)
  <2>1. Cardinality(DOMAIN g) = Cardinality(DOMAIN h) + 1 /\ Cardinality(DOMAIN h) \in Nat
    BY <1>1, <1>2, FS_AddElement, FS_CardinalityType
  <2>2. \A x \in DOMAIN g : e[x] < Cardinality(DOMAIN g)
    BY <1>1, <1>3, <1>4, <2>1
  <2>3. ASSUME NEW x \in DOMAIN h, g[x].parent # 0
        PROVE  e[x] = e[g[x].parent] + 1
    <3>1. CASE x \in {left, right}
      BY <1>1, <1>3, <1>4, <3>1
    <3>2. CASE x \notin {left, right}
      <4>1. g[x].parent = h[x].parent /\ h[x].parent \in DOMAIN h /\ d[x] = d[h[x].parent] + 1
        BY <1>1, <1>2, <1>3, <2>3, <3>2
      <4>2. QED
        BY <1>4, <4>1
    <3>3. QED
      BY <3>1, <3>2
  <2>4. QED
    BY <1>1, <1>4, <2>2, <2>3 DEF Depths
<1>6. Risen(g, 0)
  BY <1>1, <1>2, <1>3 DEF Risen
<1>7. Joined(g)
  <2>1. ASSUME NEW x \in DOMAIN h, NEW i \in 0 .. g[x].num, g[x].kids[i] # 0
        PROVE  /\ g[g[x].kids[i]].parent = x
               /\ g[g[x].kids[i]].vol \/ g[g[x].kids[i]].addr = g[x].ptrs[i]
               /\ \A j \in 0 .. g[x].num : g[x].kids[j] = g[x].kids[i] => j = i
    <3>1. g[x].num = h[x].num /\ g[x].ptrs = h[x].ptrs /\ g[x].kids = h[x].kids
      BY <1>1
    <3>2. /\ h[x].kids[i] \in DOMAIN h /\ h[h[x].kids[i]].parent = x
          /\ h[h[x].kids[i]].vol \/ h[h[x].kids[i]].addr = h[x].ptrs[i]
          /\ \A j \in 0 .. h[x].num : h[x].kids[j] = h[x].kids[i] => j = i
      BY <1>2, <1>3, <2>1, <3>1 DEF Joined
    <3>3. h[x].kids[i] \notin {left, right}
      BY <1>1, <1>2, <3>2
    <3>4. QED
      BY <1>1, <3>1, <3>2, <3>3
  <2>2. ASSUME NEW i \in 0 .. g[top].num, g[top].kids[i] # 0
        PROVE  /\ g[g[top].kids[i]].parent = top /\ g[g[top].kids[i]].vol
               /\ \A j \in 0 .. g[top].num : g[top].kids[j] = g[top].kids[i] => j = i
    <3>1. \A j \in 0 .. 1 : j = 0 \/ j = 1
      OBVIOUS
    <3>2. \A j \in 0 .. g[top].num : j = 0 \/ j = 1
      BY <1>1, <3>1
    <3>3. i = 0 \/ i = 1
      BY <3>2
    <3>4. QED
      BY <1>1, <3>2, <3>3
  <2>3. QED
    BY <1>1, <2>1, <2>2 DEF Joined
<1>8. QED
  BY <1>5, <1>6, <1>7 DEF Links, Linked

\* A call of Insert_in_node: into a leaf goes a key with its record, into an inner
\* node a key with a child.
Call(w) ==
  /\ Stands(w.heap, w.node) /\ w.child \in DOMAIN w.heap \cup {0}
  /\ w.heap[w.node].leaf => w.child = 0 /\ w.address = w.key

\* What Insert_Round works on.
CallsOf(P) == {w \in PutsOf(P) : Steady(w) /\ (w.node # 0 => Call(w))}

\* Calls that end within k rounds.
CallsWithin(P, k) ==
  {w \in CallsOf(P) :
     IF w.node = 0 THEN Done(w)
     ELSE /\ Offered(w.heap, w.node, w.child)
          /\ \E d : Linked(w.heap, d, w.node) /\ d[w.node] < k}

\* One call, and what it leaves to the next.
LEMMA InsertRoundKeeps ==
  ASSUME NEW P, 0 \in P, NEW w \in CallsOf(P)
  PROVE  /\ Insert_Round(w) \in CallsOf(P)
         /\ \A k \in Nat : w \in CallsWithin(P, k + 1) => Insert_Round(w) \in CallsWithin(P, k)
<1> DEFINE renewed == Renew(w, w.node)
           grown == Insert_Key(renewed.heap, w.node, w.key, w.address, w.child)
           inserted == [renewed EXCEPT !.heap = grown]
           split == Split(inserted.heap, w.node)
           parent == split.heap[w.node].parent
<1>1. CASE w.node = 0
  BY <1>1 DEF Insert_Round, CallsWithin
<1>2. CASE w.node # 0
  <2> DEFINE h == w.heap  id == w.node
  <2>1. /\ w \in PutsOf(P) /\ Steady(w) /\ Call(w)
        /\ h \in AnyHeapsOf(P) /\ id \in DOMAIN h /\ Room(h)
    BY <1>2 DEF CallsOf, Call, Stands, PutsOf, Steady
  <2>2. /\ renewed \in PutsOf(P) /\ Alike(h, renewed.heap)
        /\ renewed.root = w.root /\ renewed.node = id /\ renewed.key = w.key
        /\ renewed.address = w.address /\ renewed.child = w.child
        /\ IsFiniteSet(renewed.freed) /\ IsRenewed(h, renewed.heap, id)
    <3>1. IsFiniteSet(w.freed)
      BY <2>1 DEF Steady
    <3>2. QED
      BY <2>1, <3>1, RenewKeeps
  <2> HIDE DEF renewed
  <2>3. renewed.heap \in [DOMAIN h -> NodesOf(P)] /\ renewed.heap \in AnyHeapsOf(P)
    BY <2>2 DEF PutsOf, AnyHeapsOf, IsHeap, Alike
  <2>4. Room(renewed.heap) /\ Stands(renewed.heap, w.root) /\ Stands(renewed.heap, id)
    <3>1. \A x : Stands(h, x) => Stands(renewed.heap, x)
      <4> HIDE DEF h
      <4>1. QED
        BY <2>1, <2>2, <2>3, AlikeIsHeap
    <3>2. Room(renewed.heap)
      BY <2>1, <2>2 DEF Room, Alike
    <3>3. QED
      BY <2>1, <3>1, <3>2 DEF Steady, Call
  <2>5. /\ w.key \in Nat /\ w.address \in P /\ w.child \in DOMAIN renewed.heap \cup {0}
        /\ renewed.heap[id].leaf => w.child = 0 /\ w.address = w.key
    BY <2>1, <2>2 DEF PutsOf, Call, Alike
  <2>6. /\ grown \in AnyHeapsOf(P) /\ DOMAIN grown = DOMAIN renewed.heap
        /\ \A x \in DOMAIN renewed.heap :
             /\ grown[x].leaf = renewed.heap[x].leaf
             /\ grown[x].num = IF x = id THEN renewed.heap[x].num + 1 ELSE renewed.heap[x].num
        /\ IsGrown(renewed.heap, grown, id, w.child)
    BY <2>3, <2>4, <2>5, InsertKeyKeeps
  <2>7. inserted = [heap |-> grown, freed |-> renewed.freed, root |-> renewed.root,
                    node |-> renewed.node, key |-> renewed.key, address |-> renewed.address,
                    child |-> renewed.child]
    BY <2>2 DEF PutsOf
  <2> HIDE DEF grown, inserted
  <2>8. /\ inserted \in PutsOf(P) /\ inserted.heap = grown /\ inserted.root = w.root
        /\ inserted.node = id /\ IsFiniteSet(inserted.freed)
    BY <2>2, <2>6, <2>7 DEF PutsOf
  <2>9. /\ DOMAIN grown = DOMAIN h /\ id \in DOMAIN grown
        /\ \A x \in DOMAIN grown \ {id} : grown[x].num < Size
        /\ renewed.heap[id].num \in 0 .. Size - 1 /\ grown[id].num = renewed.heap[id].num + 1
    <3>1. renewed.heap[id] \in NodesOf(P) /\ renewed.heap[id].num < Size
      BY <2>1, <2>3, <2>4 DEF Room, Stands
    <3>2. renewed.heap[id].num \in 0 .. Size - 1
      BY <3>1, Numbers DEF NodesOf
    <3>3. QED
      BY <2>1, <2>2, <2>3, <2>4, <2>6, <3>2 DEF Room, Alike
  <2>10. \A x : Stands(renewed.heap, x) => Stands(grown, x)
    <3>1. grown[id].num # 0
      BY <2>9
    <3>2. QED
      BY <2>6, <3>1 DEF Stands
  <2>14. ASSUME NEW d, Linked(h, d, id), Offered(h, id, w.child)
         PROVE  Linked(grown, d, grown[id].parent) /\ grown[id].vol
    <3>1. Linked(renewed.heap, d, h[id].parent)
      <4> HIDE DEF h, id
      <4>1. QED
        BY <2>1, <2>2, <2>14, RenewLinks
    <3>2. Offered(renewed.heap, id, w.child) /\ renewed.heap[id].vol /\ renewed.heap[id].parent = h[id].parent
      BY <2>1, <2>2, <2>14 DEF Offered, IsRenewed, Alike
    <3> DEFINE u == [id |-> id, child |-> w.child]
    <3>3. u.id = id /\ u.child = w.child /\ id \in DOMAIN renewed.heap
      BY <2>1, <2>2 DEF Alike
    <3>4. Linked(grown, d, h[id].parent)
      <4> HIDE DEF u, id, h
      <4>1. QED
        BY <2>3, <2>6, <3>1, <3>2, <3>3, GrowLinks
    <3>5. grown[id].parent = h[id].parent /\ grown[id].vol
      BY <2>6, <3>2, <3>3 DEF IsGrown, Offered
    <3>6. QED
      BY <3>4, <3>5
  <2>15. ASSUME NEW k \in Nat, w \in CallsWithin(P, k + 1)
         PROVE  \E d : Linked(grown, d, grown[id].parent) /\ d[id] < k + 1 /\ grown[id].vol
    <3>1. PICK d : Linked(h, d, id) /\ d[id] < k + 1 /\ Offered(h, id, w.child)
      BY <1>2, <2>15 DEF CallsWithin
    <3>2. QED
      BY <2>14, <3>1
  <2>11. CASE inserted.heap[id].num < Size
    <3>1. Room(grown)
      BY <2>8, <2>9, <2>11 DEF Room
    <3>2. inserted \in ClimbsOf(P)
      BY <2>4, <2>8, <2>10, <3>1 DEF ClimbsOf, Steady
    <3>3. Renew_Ancestors(inserted) \in PutsOf(P) /\ Steady(Renew_Ancestors(inserted))
          /\ Renew_Ancestors(inserted).node = 0
      BY <3>2, RenewAncestorsKeeps
    <3>4. Insert_Round(w) = Renew_Ancestors(inserted)
      BY <1>2, <2>11 DEF Insert_Round, inserted, grown, renewed
    <3>5. Insert_Round(w) \in CallsOf(P)
      BY <3>3, <3>4 DEF CallsOf
    <3>6. ASSUME NEW k \in Nat, w \in CallsWithin(P, k + 1)
          PROVE  Insert_Round(w) \in CallsWithin(P, k)
      <4>1. \E d : Linked(inserted.heap, d, inserted.heap[inserted.node].parent)
        BY <2>8, <2>15, <3>6
      <4>2. Done(Renew_Ancestors(inserted))
        BY <3>2, <4>1, RenewAncestorsKeeps
      <4>3. QED
        BY <3>3, <3>4, <3>5, <4>2 DEF CallsWithin
    <3>7. QED
      BY <3>5, <3>6
  <2>12. CASE ~ (inserted.heap[id].num < Size)
    <3>1. grown[id].num = Size
      BY <2>8, <2>9, <2>12, Numbers
    <3>2. /\ split.heap \in AnyHeapsOf(P) /\ Room(split.heap) /\ split.mid \in Nat
          /\ split.right \in DOMAIN split.heap /\ id \in DOMAIN split.heap
          /\ Stands(split.heap, id) /\ \A x : Stands(grown, x) => Stands(split.heap, x)
          /\ IsSplit(grown, split.heap, id, split.right)
      BY <2>6, <2>8, <2>9, <3>1, SplitKeeps
    <3> HIDE DEF split
    <3>3. Stands(split.heap, w.root)
      BY <2>4, <2>10, <3>2
    <3>4. split.right \in Nat
      BY <3>2 DEF AnyHeapsOf, IsHeap
    <3>8. ASSUME NEW k \in Nat, w \in CallsWithin(P, k + 1)
          PROVE  \E d, e :
                   /\ Linked(grown, d, parent) /\ Linked(split.heap, e, parent) /\ d[id] < k + 1
                   /\ e[split.right] = d[id] /\ \A x \in DOMAIN grown : e[x] = d[x]
                   /\ grown[id].parent = parent /\ split.heap[split.right].parent = parent
                   /\ split.heap[id].vol /\ split.heap[split.right].vol
                   /\ split.right \notin DOMAIN grown
                   /\ parent # 0 => Offered(split.heap, parent, split.right)
      <4>1. PICK d : Linked(grown, d, grown[id].parent) /\ d[id] < k + 1 /\ grown[id].vol
        BY <2>15, <3>8
      <4> DEFINE u == [id |-> id, right |-> split.right]
      <4>2. u.id = id /\ u.right = split.right
        OBVIOUS
      <4>3. grown[id].leaf => \A i \in 0 .. Size : grown[id].kids[i] = 0
        BY <2>6, <2>9 DEF AnyHeapsOf, IsHeap, Sound
      <4>4. /\ split.heap[id].parent = grown[id].parent
            /\ split.heap[split.right].parent = grown[id].parent
            /\ grown[id].parent # 0 => Offered(split.heap, grown[id].parent, split.right)
            /\ \E e : /\ Linked(split.heap, e, grown[id].parent)
                      /\ e[split.right] = d[id] /\ \A x \in DOMAIN grown : e[x] = d[x]
        <5> DEFINE g == split.heap
        <5>1. IsSplit(grown, g, u.id, u.right)
          BY <3>2, <4>2
        <5>2. u.id \in DOMAIN grown /\ grown[u.id].num = Size
          BY <2>9, <3>1, <4>2
        <5>3. grown[u.id].leaf => \A i \in 0 .. Size : grown[u.id].kids[i] = 0
          BY <4>2, <4>3
        <5>4. Linked(grown, d, grown[u.id].parent)
          BY <4>1, <4>2
        <5> HIDE DEF u, g, id
        <5>5. /\ g[u.id].parent = grown[u.id].parent /\ g[u.right].parent = grown[u.id].parent
              /\ grown[u.id].parent # 0 => Offered(g, grown[u.id].parent, u.right)
              /\ \E e : /\ Linked(g, e, grown[u.id].parent)
                        /\ e[u.right] = d[u.id] /\ \A x \in DOMAIN grown : e[x] = d[x]
          <6>1. grown \in AnyHeapsOf(P)
            BY <2>6
          <6>2. IsLinkedSplit(grown, g, u)
            BY <5>1, <5>2, <5>3, <6>1, SplitLinks
          <6>3. QED
            BY <5>4, <6>2 DEF IsLinkedSplit
        <5>6. QED
          BY <4>2, <5>5 DEF g
      <4>5. parent = grown[id].parent
        BY <4>4
      <4>6. split.heap[id].vol /\ split.heap[split.right].vol /\ split.right \notin DOMAIN grown
        BY <2>9, <3>2, <4>1 DEF IsSplit
      <4> HIDE DEF parent
      <4>7. QED
        BY <4>1, <4>4, <4>5, <4>6
    <3>5. CASE parent = 0
      <4> DEFINE top == New_Id(split.heap)
                 raised == Raised(split.heap, id, split.right, split.mid)
      <4>1. /\ raised \in AnyHeapsOf(P) /\ Room(raised) /\ Stands(raised, top) /\ top \in Nat
            /\ IsRaised(split.heap, raised, top, id, split.right)
        <5> HIDE DEF id
        <5>1. QED
          BY <3>2, RaisedKeeps
      <4>2. Insert_Round(w) = [inserted EXCEPT !.heap = raised, !.root = top, !.node = 0]
        BY <1>2, <2>12, <3>5 DEF Insert_Round, inserted, grown, renewed, split
      <4> HIDE DEF top, raised
      <4>3. Insert_Round(w) = [heap |-> raised, freed |-> inserted.freed, root |-> top, node |-> 0,
                               key |-> inserted.key, address |-> inserted.address,
                               child |-> inserted.child]
        BY <2>8, <4>1, <4>2 DEF PutsOf
      <4>4. Insert_Round(w) \in CallsOf(P)
        BY <2>8, <4>1, <4>3 DEF CallsOf, PutsOf, Steady
      <4>5. ASSUME NEW k \in Nat, w \in CallsWithin(P, k + 1)
            PROVE  Insert_Round(w) \in CallsWithin(P, k)
        <5>1. PICK d, e :
                   /\ Linked(split.heap, e, 0)
                   /\ e[split.right] = d[id] /\ \A x \in DOMAIN grown : e[x] = d[x]
                   /\ split.heap[split.right].parent = 0
                   /\ split.heap[id].vol /\ split.heap[split.right].vol
                   /\ split.right \notin DOMAIN grown
          BY <3>5, <3>8, <4>5
        <5> DEFINE u == [top |-> top, left |-> id, right |-> split.right]
                   g == split.heap
        <5>2. u.top = top /\ u.left = id /\ u.right = split.right
          OBVIOUS
        <5>3. /\ u.left \in DOMAIN g /\ u.right \in DOMAIN g /\ u.left # u.right
              /\ g[u.left].parent = 0 /\ g[u.right].parent = 0
              /\ g[u.left].vol /\ g[u.right].vol
              /\ IsRaised(g, raised, u.top, u.left, u.right)
          BY <2>9, <3>2, <3>5, <4>1, <5>1
        <5>4. Linked(g, e, 0) /\ e[u.left] = e[u.right] /\ g \in AnyHeapsOf(P)
          BY <2>9, <3>2, <5>1
        <5> HIDE DEF u, g, id
        <5>5. Links(raised)
          BY <5>3, <5>4, RaiseLinks
        <5>6. raised[top].parent = 0
          BY <4>1 DEF IsRaised
        <5>7. Done(Insert_Round(w)) /\ Insert_Round(w).node = 0
          BY <4>3, <5>5, <5>6 DEF Done
        <5>8. QED
          BY <4>4, <5>7 DEF CallsWithin
      <4>6. QED
        BY <4>4, <4>5
    <3>6. CASE parent # 0
      <4>1. Inner(split.heap, parent)
        BY <3>2, <3>6 DEF AnyHeapsOf, IsHeap
      <4>2. Stands(split.heap, parent) /\ parent \in Nat /\ ~ split.heap[parent].leaf
        BY <3>2, <4>1 DEF Inner, Stands, AnyHeapsOf, IsHeap
      <4>3. Insert_Round(w) = [inserted EXCEPT !.heap = split.heap, !.node = parent,
                                               !.key = split.mid, !.address = 0, !.child = split.right]
        BY <1>2, <2>12, <3>6 DEF Insert_Round, inserted, grown, renewed, split
      <4> HIDE DEF parent
      <4>4. Insert_Round(w) = [heap |-> split.heap, freed |-> inserted.freed, root |-> inserted.root,
                               node |-> parent, key |-> split.mid, address |-> 0,
                               child |-> split.right]
        BY <2>8, <3>2, <3>4, <4>2, <4>3 DEF PutsOf
      <4>5. Insert_Round(w) \in CallsOf(P)
        BY <2>8, <3>2, <3>3, <3>4, <4>2, <4>4 DEF CallsOf, PutsOf, Steady, Call
      <4>6. ASSUME NEW k \in Nat, w \in CallsWithin(P, k + 1)
            PROVE  Insert_Round(w) \in CallsWithin(P, k)
        <5>1. PICK d, e :
                   /\ Linked(grown, d, parent) /\ Linked(split.heap, e, parent) /\ d[id] < k + 1
                   /\ \A x \in DOMAIN grown : e[x] = d[x]
                   /\ grown[id].parent = parent
                   /\ Offered(split.heap, parent, split.right)
          BY <3>6, <3>8, <4>6
        <5>2. parent \in DOMAIN grown
          BY <2>6, <2>9, <3>6, <5>1, HeapShape
        <5>3. d[id] = d[parent] + 1 /\ d[parent] \in Nat /\ d[id] < k + 1
          BY <2>9, <3>6, <5>1, <5>2 DEF Linked, Depths
        <5>4. e[parent] < k
          BY <5>1, <5>2, <5>3
        <5>5. /\ Insert_Round(w).node = parent /\ Insert_Round(w).heap = split.heap
              /\ Insert_Round(w).child = split.right
          BY <4>4
        <5>6. QED
          BY <3>6, <4>5, <5>1, <5>4, <5>5 DEF CallsWithin
      <4>7. QED
        BY <4>5, <4>6
    <3>7. QED
      BY <3>5, <3>6
  <2>13. QED
    BY <2>11, <2>12
<1>3. QED
  BY <1>1, <1>2

\* All the calls of a Put.
LEMMA InsertKeeps ==
  ASSUME NEW P, 0 \in P, NEW h \in AnyHeapsOf(P), Room(h), freed \in SUBSET P, IsFiniteSet(freed),
         Stands(h, root), NEW leaf, Stands(h, leaf), h[leaf].leaf, NEW key \in Nat, key \in P
  PROVE  LET put == Insert_in_node(h, leaf, key, key) IN
         put \in PutsOf(P) /\ Steady(put) /\ (Links(h) => Done(put))
<1> DEFINE S == CallsOf(P)
           start == [heap |-> h, freed |-> freed, root |-> root,
                     node |-> leaf, key |-> key, address |-> key, child |-> 0]
           next == [x \in S |-> Insert_Round(x)]
           E(f) == f = [r \in Nat |-> IF r = 0 THEN {start} ELSE {Insert_Round(x) : x \in f[r - 1]}]
           after == CHOOSE f : E(f)
<1>1. start \in S
  <2>1. root \in Nat /\ leaf \in Nat
    BY DEF Stands, AnyHeapsOf, IsHeap
  <2>2. QED
    BY <2>1 DEF CallsOf, PutsOf, Steady, Call
<1>2. \A x \in S : Insert_Round(x) \in S
  BY InsertRoundKeeps
<1> HIDE DEF S, start
<1>3. next \in [S -> S] /\ \A x \in S : next[x] = Insert_Round(x)
  BY <1>2
<1> HIDE DEF next
<1>4. PICK f : IsLoop(S, start, next, f)
  BY <1>1, <1>3, LoopExists
<1>5. E(f)
  <2>1. ASSUME NEW r \in Nat, r # 0
        PROVE  {next[x] : x \in f[r - 1]} = {Insert_Round(x) : x \in f[r - 1]}
    <3>1. r - 1 \in Nat
      BY <2>1
    <3>2. \A x \in f[r - 1] : next[x] = Insert_Round(x)
      BY <1>3, <1>4, <3>1 DEF IsLoop
    <3>3. QED
      BY <3>2
  <2>2. f = [r \in Nat |-> IF r = 0 THEN {start} ELSE {next[x] : x \in f[r - 1]}]
    BY <1>4 DEF IsLoop
  <2>3. QED
    BY <2>1, <2>2
<1>6. E(after)
  <2> HIDE DEF E
  <2>1. QED
    BY <1>5
<1> HIDE DEF after
<1>7. after[0] = {start}
  BY <1>6
<1>8. ASSUME NEW r \in Nat, after[r] \subseteq S
      PROVE  after[r + 1] = {next[x] : x \in after[r]}
  <2>1. after[r + 1] = {Insert_Round(x) : x \in after[r]}
    <3>1. r + 1 \in Nat /\ r + 1 # 0 /\ (r + 1) - 1 = r
      OBVIOUS
    <3>2. QED
      BY <1>6, <3>1
  <2>2. QED
    BY <1>3, <1>8, <2>1
<1>9. Cardinality(DOMAIN h) \in Nat
  BY FS_CardinalityType DEF AnyHeapsOf, IsHeap
<1>10. (CHOOSE last \in after[Cardinality(DOMAIN h)] : TRUE) \in S
  BY <1>1, <1>3, <1>7, <1>8, <1>9, LoopStays
<1>11. (CHOOSE last \in after[Cardinality(DOMAIN h)] : TRUE) = Insert_in_node(h, leaf, key, key)
  BY DEF Insert_in_node, Iterated, after, start
<1>12. ASSUME Links(h)
       PROVE  Done(Insert_in_node(h, leaf, key, key))
  <2> DEFINE count == Cardinality(DOMAIN h)
             F == [k \in Nat |-> CallsWithin(P, k)]
  <2>1. F \in [Nat -> SUBSET S] /\ \A k \in Nat : F[k] = CallsWithin(P, k)
    BY DEF S, CallsWithin
  <2>2. start \in CallsWithin(P, count)
    <3>1. PICK d : Linked(h, d, 0)
      BY <1>12 DEF Links
    <3>2. Linked(h, d, leaf)
      BY <3>1 DEF Linked, Risen
    <3>3. leaf \in DOMAIN h /\ leaf # 0
      BY HeapShape DEF Stands
    <3>4. d[leaf] < count
      BY <3>1, <3>3 DEF Linked, Depths
    <3>5. start.heap = h /\ start.node = leaf /\ start.child = 0 /\ start \in CallsOf(P)
      BY <1>1 DEF start, S
    <3> HIDE DEF count
    <3>6. QED
      BY <3>2, <3>3, <3>4, <3>5 DEF CallsWithin, Offered
  <2>3. ASSUME NEW k \in Nat, NEW x \in F[k + 1]
        PROVE  next[x] \in F[k]
    <3>1. x \in CallsWithin(P, k + 1) /\ x \in S /\ k + 1 \in Nat
      BY <2>1, <2>3
    <3>2. QED
      BY <1>3, <2>1, <3>1, InsertRoundKeeps DEF S
  <2>4. after[0] # {} /\ after[0] \subseteq F[count]
    BY <1>7, <1>9, <2>1, <2>2
  <2>5. \A r \in Nat : after[r] \subseteq S => after[r + 1] = {next[x] : x \in after[r]}
    BY <1>8
  <2>6. \A k \in Nat : \A x \in F[k + 1] : next[x] \in F[k]
    BY <2>3
  <2> DEFINE put == CHOOSE last \in after[count] : TRUE
  <2>7. count \in Nat
    BY <1>9
  <2> HIDE DEF F, count
  <2>8. put \in F[0]
    BY <1>3, <2>1, <2>4, <2>5, <2>6, <2>7, LoopEnds
  <2>9. put \in CallsWithin(P, 0)
    BY <2>1, <2>8
  <2> HIDE DEF put
  <2>10. put.node = 0
    <3> SUFFICES ASSUME put.node # 0
                 PROVE  FALSE
      OBVIOUS
    <3>1. PICK d : Linked(put.heap, d, put.node) /\ d[put.node] < 0
      BY <2>9 DEF CallsWithin
    <3>2. put.node \in DOMAIN put.heap
      BY <2>9 DEF CallsWithin, CallsOf, Call, Stands
    <3>3. d[put.node] \in Nat
      BY <3>1, <3>2 DEF Linked, Depths
    <3>4. QED
      BY <3>1, <3>3
  <2>11. Done(put)
    BY <2>9, <2>10 DEF CallsWithin
  <2>12. QED
    BY <1>11, <2>11 DEF put, count
<1>13. QED
  BY <1>10, <1>11, <1>12 DEF S, CallsOf

-----------------------------------------------------------------------------
\* The operations

\* What a search for volatile nodes keeps: nodes found, and nodes or nulls to see.
SearchesOf(D) == [found : Seq(D), todo : Seq(D \cup {0})]

\* One node looked at.
LEMMA FindPendingRoundKeeps ==
  ASSUME NEW P, heap \in HeapsOf(P), NEW v \in SearchesOf(DOMAIN heap)
  PROVE  Find_Pending_Round(v) \in SearchesOf(DOMAIN heap)
<1> DEFINE D == DOMAIN heap  id == Head(v.todo)
           kids == [i \in 1 .. heap[id].num + 1 |-> heap[id].kids[i - 1]]
<1>1. v.found \in Seq(D) /\ v.todo \in Seq(D \cup {0}) /\ v = [found |-> v.found, todo |-> v.todo]
  BY DEF SearchesOf
<1>2. CASE v.todo = <<>>
  BY <1>2 DEF Find_Pending_Round
<1>3. CASE v.todo # <<>>
  <2>1. id \in D \cup {0} /\ Tail(v.todo) \in Seq(D \cup {0})
    BY <1>1, <1>3
  <2> HIDE DEF id
  <2>2. CASE id = 0 \/ ~ heap[id].vol
    <3>1. Find_Pending_Round(v) = [v EXCEPT !.todo = Tail(v.todo)]
      BY <1>3, <2>2 DEF Find_Pending_Round, id
    <3>2. Find_Pending_Round(v) = [found |-> v.found, todo |-> Tail(v.todo)]
      BY <1>1, <3>1
    <3>3. QED
      BY <1>1, <2>1, <3>2, SMTT(30) DEF SearchesOf
  <2>3. CASE ~ (id = 0 \/ ~ heap[id].vol)
    <3>1. id \in D
      BY <2>1, <2>3
    <3>2. heap \in AnyHeapsOf(P)
      BY DEF HeapsOf, AnyHeapsOf
    <3>3. heap[id].num \in Nat /\ \A i \in 0 .. heap[id].num : heap[id].kids[i] \in D \cup {0}
      BY <3>1, <3>2, HeapShape
    <3>4. \A i \in 1 .. heap[id].num + 1 : i - 1 \in 0 .. heap[id].num
      BY <3>3
    <3>5. kids \in Seq(D \cup {0})
      <4>1. \A i \in 1 .. heap[id].num + 1 : heap[id].kids[i - 1] \in D \cup {0}
        BY <3>3, <3>4
      <4> DEFINE V == D \cup {0}  last == heap[id].num + 1
      <4>2. last \in Nat /\ kids \in [1 .. last -> V]
        BY <3>3, <4>1
      <4> HIDE DEF V, last, kids
      <4>3. kids \in Seq(V)
        BY <4>2
      <4>4. QED
        BY <4>3 DEF V
    <3>6. Find_Pending_Round(v) = [found |-> Append(v.found, id), todo |-> kids \o Tail(v.todo)]
      BY <1>3, <2>3 DEF Find_Pending_Round, id
    <3> HIDE DEF kids
    <3>7. Append(v.found, id) \in Seq(D) /\ kids \o Tail(v.todo) \in Seq(D \cup {0})
      BY <1>1, <2>1, <3>1, <3>5
    <3>8. QED
      BY <3>6, <3>7 DEF SearchesOf
  <2>4. QED
    BY <2>2, <2>3
<1>4. QED
  BY <1>2, <1>3

\* What Commit writes are nodes.
LEMMA PendingNodes ==
  ASSUME NEW P, heap \in HeapsOf(P), root \in DOMAIN heap
  PROVE  Pending_Nodes \in Seq(DOMAIN heap)
<1> DEFINE S == SearchesOf(DOMAIN heap)
           start == [found |-> <<>>, todo |-> <<root>>]
           next == [x \in S |-> Find_Pending_Round(x)]
           E(f) == f = [r \in Nat |-> IF r = 0 THEN {start} ELSE {Find_Pending_Round(x) : x \in f[r - 1]}]
           after == CHOOSE f : E(f)
<1>1. start \in S
  <2>1. <<>> \in Seq(DOMAIN heap) /\ <<root>> \in Seq(DOMAIN heap \cup {0})
    OBVIOUS
  <2>2. QED
    BY <2>1 DEF SearchesOf
<1>2. \A x \in S : Find_Pending_Round(x) \in S
  BY FindPendingRoundKeeps
<1> HIDE DEF S, start
<1>3. next \in [S -> S] /\ \A x \in S : next[x] = Find_Pending_Round(x)
  BY <1>2
<1> HIDE DEF next
<1>4. PICK f : IsLoop(S, start, next, f)
  BY <1>1, <1>3, LoopExists
<1>5. E(f)
  <2>1. ASSUME NEW r \in Nat, r # 0
        PROVE  {next[x] : x \in f[r - 1]} = {Find_Pending_Round(x) : x \in f[r - 1]}
    <3>1. r - 1 \in Nat
      BY <2>1
    <3>2. \A x \in f[r - 1] : next[x] = Find_Pending_Round(x)
      BY <1>3, <1>4, <3>1 DEF IsLoop
    <3>3. QED
      BY <3>2
  <2>2. f = [r \in Nat |-> IF r = 0 THEN {start} ELSE {next[x] : x \in f[r - 1]}]
    BY <1>4 DEF IsLoop
  <2>3. QED
    BY <2>1, <2>2
<1>6. E(after)
  <2> HIDE DEF E
  <2>1. QED
    BY <1>5
<1> HIDE DEF after
<1>7. after[0] = {start}
  BY <1>6
<1>8. ASSUME NEW r \in Nat, after[r] \subseteq S
      PROVE  after[r + 1] = {next[x] : x \in after[r]}
  <2>1. after[r + 1] = {Find_Pending_Round(x) : x \in after[r]}
    <3>1. r + 1 \in Nat /\ r + 1 # 0 /\ (r + 1) - 1 = r
      OBVIOUS
    <3>2. QED
      BY <1>6, <3>1
  <2>2. QED
    BY <1>3, <1>8, <2>1
<1>9. 1 + Cardinality(DOMAIN heap) * Size \in Nat
  <2>1. Cardinality(DOMAIN heap) \in Nat
    BY FS_CardinalityType DEF HeapsOf, IsHeap
  <2>2. QED
    BY <2>1, SizeAssumption
<1>10. (CHOOSE last \in after[1 + Cardinality(DOMAIN heap) * Size] : TRUE) \in S
  BY <1>1, <1>3, <1>7, <1>8, <1>9, LoopStays
<1>11. Pending_Nodes = (CHOOSE last \in after[1 + Cardinality(DOMAIN heap) * Size] : TRUE).found
  BY DEF Pending_Nodes, Iterated, after, start
<1>12. QED
  BY <1>10, <1>11 DEF S, SearchesOf

\* A commit takes at most as many slots as it has nodes.
LEMMA AllocationSize ==
  ASSUME IsFiniteSet(free), pointer \in Nat, NEW n \in Nat, NEW A \in Allocations(free, pointer, n)
  PROVE  IsFiniteSet(A) /\ Cardinality(A) <= n
<1>0. Cardinality(free) \in Nat
  BY FS_CardinalityType
<1>1. CASE n <= Cardinality(free)
  <2>1. A \in SUBSET free /\ Cardinality(A) = n
    BY <1>1 DEF Allocations
  <2>2. QED
    BY <2>1, FS_Subset
<1>2. CASE ~ (n <= Cardinality(free))
  <2> DEFINE k == n - Cardinality(free)  T == pointer .. pointer + k - 1
  <2>1. A = free \cup T
    BY <1>2 DEF Allocations, TailSlots, Appended
  <2>2. k \in Nat /\ k # 0
    BY <1>0, <1>2
  <2>3. IsFiniteSet(T) /\ Cardinality(T) = k
    <3> HIDE DEF k
    <3>1. pointer \in Int /\ pointer + k - 1 \in Int /\ pointer <= pointer + k - 1
      BY <2>2
    <3>2. (pointer + k - 1) - pointer + 1 = k
      BY <2>2
    <3>3. QED
      BY <3>1, <3>2, FS_Interval
  <2>4. /\ IsFiniteSet(free \cup T)
        /\ Cardinality(free \cup T) = Cardinality(free) + Cardinality(T) - Cardinality(free \cap T)
    BY <2>3, FS_Union
  <2>5. Cardinality(free \cap T) \in Nat
    BY <2>3, FS_Subset, FS_CardinalityType
  <2>6. QED
    BY <1>0, <2>1, <2>3, <2>4, <2>5
<1>3. QED
  BY <1>1, <1>2

\* A node that is written, and a node that the cache holds.
LEMMA WrittenIsSound ==
  ASSUME NEW P, 0 \in P, NEW n \in NodesOf(P), Sound(n), n.num < Size
  PROVE  Written(n) \in LinesOf(P) /\ Content(n) \in LinesOf(P)
<1> DEFINE keys == [i \in DOMAIN n.keys |-> IF i < n.num + Overcopied THEN n.keys[i] ELSE 0]
           ptrs == [i \in DOMAIN n.ptrs |-> IF i <= n.num THEN n.ptrs[i] ELSE 0]
           w == Written(n)  c == Content(n)
<1>1. /\ n.leaf \in BOOLEAN /\ n.keys \in [0 .. Size - 1 -> Nat] /\ n.ptrs \in [0 .. Size -> P]
      /\ n.num \in 0 .. Size - 1 /\ n.num \in Nat
  BY Numbers DEF NodesOf
<1>2. /\ keys \in [0 .. Size - 1 -> Nat] /\ ptrs \in [0 .. Size -> P]
      /\ \A i \in 0 .. Size - 1 : keys[i] = IF i < n.num + Overcopied THEN n.keys[i] ELSE 0
      /\ \A i \in 0 .. Size : ptrs[i] = IF i <= n.num THEN n.ptrs[i] ELSE 0
  BY <1>1
<1>3. /\ w.leaf = n.leaf /\ w.num = n.num /\ w.keys = keys /\ w.ptrs = ptrs
      /\ w = [leaf |-> n.leaf, num |-> n.num, keys |-> keys, ptrs |-> ptrs]
  BY DEF Written
<1>4. /\ c.leaf = n.leaf /\ c.num = n.num /\ c.keys = n.keys /\ c.ptrs = n.ptrs
      /\ c = [leaf |-> n.leaf, num |-> n.num, keys |-> n.keys, ptrs |-> n.ptrs]
  BY DEF Content
<1> HIDE DEF keys, ptrs, w, c
<1>5. n.leaf => Owned(w)
  <2> SUFFICES ASSUME n.leaf, NEW i \in 0 .. Size - 1
               PROVE  ptrs[i + 1] = keys[i] \/ (Overcopied = 1 /\ i >= n.num /\ ptrs[i + 1] = 0)
    BY <1>3 DEF Owned
  <2>1. n.ptrs[i + 1] = n.keys[i] \/ (Overcopied = 1 /\ i >= n.num /\ n.ptrs[i + 1] = 0)
    BY DEF Sound, Owned
  <2>2. i + 1 \in 0 .. Size /\ i \in Nat
    BY Numbers
  <2>3. CASE i < n.num
    <3>1. i + 1 <= n.num /\ i < n.num + Overcopied /\ ~ (i >= n.num)
      BY <1>1, <2>2, <2>3, Numbers
    <3>2. QED
      BY <1>2, <2>1, <2>2, <3>1
  <2>4. CASE ~ (i < n.num)
    <3>1. ~ (i + 1 <= n.num) /\ i >= n.num /\ (i < n.num + Overcopied => Overcopied = 1)
      BY <1>1, <2>2, <2>4, Numbers
    <3>2. QED
      BY <1>2, <2>2, <3>1
  <2>5. QED
    BY <2>3, <2>4
<1>6. n.leaf => Owned(c)
  BY <1>4 DEF Sound, Owned
<1>7. QED
  BY <1>1, <1>2, <1>3, <1>4, <1>5, <1>6 DEF LinesOf, w, c

\* Lines of nodes of the tree change with them.
LEMMA SynchronisedShape ==
  ASSUME NEW P, 0 \in P, NEW h \in HeapsOf(P), NEW c \in CachesOf(P)
  PROVE  Synchronised(h, c) \in CachesOf(P)
<1>1. \A id \in DOMAIN h : h[id] \in NodesOf(P) /\ Sound(h[id]) /\ h[id].num < Size
  BY DEF HeapsOf, IsHeap, Room
<1>2. ASSUME NEW a \in Slots, \E n \in DOMAIN h : h[n].line = a
      PROVE  Content(h[CHOOSE n \in DOMAIN h : h[n].line = a]) \in LinesOf(P)
  <2> DEFINE m == CHOOSE n \in DOMAIN h : h[n].line = a
  <2>1. m \in DOMAIN h
    BY <1>2
  <2> HIDE DEF m
  <2>2. Content(h[m]) \in LinesOf(P)
    BY <1>1, <2>1, WrittenIsSound
  <2>3. QED
    BY <2>2 DEF m
<1>3. QED
  BY <1>2 DEF Synchronised, CachesOf

\* What is a line for some addresses is one for more.
LEMMA CachesGrow ==
  ASSUME NEW P, NEW Q, P \subseteq Q
  PROVE  LinesOf(P) \subseteq LinesOf(Q) /\ CachesOf(P) \subseteq CachesOf(Q) /\ NodesOf(P) \subseteq NodesOf(Q)
<1>1. LinesOf(P) \subseteq LinesOf(Q)
  <2> SUFFICES ASSUME NEW l \in LinesOf(P)
               PROVE  l \in LinesOf(Q)
    OBVIOUS
  <2>1. /\ l = [leaf |-> l.leaf, num |-> l.num, keys |-> l.keys, ptrs |-> l.ptrs]
        /\ l.leaf \in BOOLEAN /\ l.num \in 0 .. Size - 1 /\ l.keys \in [0 .. Size - 1 -> Nat]
        /\ l.ptrs \in [0 .. Size -> P] /\ (l.leaf => Owned(l))
    BY DEF LinesOf
  <2>2. l.ptrs \in [0 .. Size -> Q]
    BY <2>1
  <2>3. QED
    BY <2>1, <2>2 DEF LinesOf
<1>2. CachesOf(P) \subseteq CachesOf(Q)
  BY <1>1 DEF CachesOf
<1>3. NodesOf(P) \subseteq NodesOf(Q)
  <2> SUFFICES ASSUME NEW n \in NodesOf(P)
               PROVE  n \in NodesOf(Q)
    OBVIOUS
  <2>1. /\ n = [leaf |-> n.leaf, num |-> n.num, keys |-> n.keys, ptrs |-> n.ptrs, kids |-> n.kids,
                parent |-> n.parent, addr |-> n.addr, vol |-> n.vol, line |-> n.line]
        /\ n.leaf \in BOOLEAN /\ n.num \in 0 .. Size /\ n.keys \in [0 .. Size - 1 -> Nat]
        /\ n.ptrs \in [0 .. Size -> P] /\ n.kids \in [0 .. Size -> Nat] /\ n.parent \in Nat
        /\ n.addr \in P /\ n.vol \in BOOLEAN /\ n.line \in P
    BY DEF NodesOf
  <2>2. n.ptrs \in [0 .. Size -> Q]
    BY <2>1
  <2>3. QED
    BY <2>1, <2>2 DEF NodesOf
<1>4. QED
  BY <1>1, <1>2, <1>3

-----------------------------------------------------------------------------
\* The invariant

\* A tree: its nodes are sound, its links agree, and its root has no parent.
Tree(P, h, r) == h \in HeapsOf(P) /\ Stands(h, r) /\ Links(h) /\ h[r].parent = 0

\* What holds between two operations, P being the addresses given so far.
Holds(P) ==
  /\ Nat \subseteq P /\ metadata \in P
  /\ Tree(P, heap, root)
  /\ disk \in CachesOf(P) /\ cache \in CachesOf(P)
  /\ freed \in SUBSET P /\ IsFiniteSet(freed) /\ IsFiniteSet(free) /\ pointer \in Nat

\* A tree of one node.
LEMMA OneNode ==
  ASSUME NEW P, NEW n \in NodesOf(P), Sound(n), n.num < Size, n.parent = 0, n.leaf \/ n.num # 0,
         \A i \in 0 .. Size : n.kids[i] = 0
  PROVE  Tree(P, [x \in {1} |-> n], 1)
<1> DEFINE h == [x \in {1} |-> n]
<1>1. DOMAIN h = {1} /\ h[1] = n /\ h \in [DOMAIN h -> NodesOf(P)]
  OBVIOUS
<1> HIDE DEF h
<1>2. IsFiniteSet(DOMAIN h) /\ Cardinality(DOMAIN h) = 1
  BY <1>1, FS_Singleton
<1>3. IsHeap(P, h) /\ Room(h)
  BY <1>1, <1>2 DEF IsHeap, Room
<1>4. h \in HeapsOf(P)
  BY <1>1, <1>3 DEF HeapsOf
<1>5. Linked(h, [x \in {1} |-> 0], 0)
  <2>1. h \in AnyHeapsOf(P)
    BY <1>1, <1>3 DEF AnyHeapsOf
  <2>2. Joined(h)
    BY <1>1, <2>1, HeapShape DEF Joined
  <2>3. QED
    BY <1>1, <1>2, <2>2 DEF Linked, Depths, Risen
<1>6. Stands(h, 1) /\ Links(h) /\ h[1].parent = 0
  BY <1>1, <1>5 DEF Stands, Links
<1>7. QED
  BY <1>4, <1>6 DEF Tree, h

\* A new tree, and the one that a constructor opens.
LEMMA Blank ==
  ASSUME NEW P, 0 \in P
  PROVE  Tree(P, [n \in {1} |-> New_Node(TRUE)], 1) /\ NoFile \in CachesOf(P)
<1> DEFINE n == New_Node(TRUE)
<1>1. n \in NodesOf(P) /\ Sound(n)
  BY NewNode
<1>2. n.leaf = TRUE /\ n.num = 0 /\ n.parent = 0 /\ \A i \in 0 .. Size : n.kids[i] = 0
  BY DEF New_Node
<1> HIDE DEF n
<1>3. n.num < Size
  BY <1>2, Numbers
<1>4. Tree(P, [x \in {1} |-> n], 1)
  BY <1>1, <1>2, <1>3, OneNode
<1>5. NoFile \in CachesOf(P)
  BY BlankLine DEF NoFile, CachesOf
<1>6. QED
  BY <1>4, <1>5 DEF n

\* The first tree.
LEMMA InitHolds == ASSUME Init PROVE Holds(Nat)
<1>1. IsFiniteSet({})
  BY FS_EmptySet
<1>2. QED
  BY <1>1, Blank DEF Init, Holds

\* A process opens the files.
LEMMA ReopenHolds ==
  ASSUME NEW P, Holds(P), Reopen
  PROVE  Holds(P)'
<1> DEFINE l == Line(disk, metadata)
           n == Node_From(l, 0, metadata, 0)
           r == [n EXCEPT !.vol = TRUE]
           valid == metadata # 0 /\ l.num > 0
<1>1. 0 \in P /\ metadata \in P /\ disk \in CachesOf(P)
  BY DEF Holds
<1>2. Tree(P, [x \in {1} |-> New_Node(TRUE)], 1) /\ NoFile \in CachesOf(P)
  BY <1>1, Blank
<1>3. ASSUME valid
      PROVE  Tree(P, [x \in {1} |-> r], 1)
  <2>1. l \in LinesOf(P)
    BY <1>1, LineShape
  <2>2. l.num # 0
    BY <1>3, <2>1 DEF LinesOf
  <2> HIDE DEF l
  <2>3. /\ n \in NodesOf(P) /\ Sound(n) /\ n.num < Size
        /\ n.num = l.num /\ n.parent = 0 /\ \A i \in 0 .. Size : n.kids[i] = 0
    BY <1>1, <2>1, NodeFromLine
  <2> HIDE DEF n
  <2>4. /\ r \in NodesOf(P) /\ r.leaf = n.leaf /\ r.num = n.num /\ r.keys = n.keys
        /\ r.ptrs = n.ptrs /\ r.kids = n.kids /\ r.parent = n.parent
    BY <2>3 DEF NodesOf
  <2> HIDE DEF r
  <2>5. Sound(r)
    BY <2>3, <2>4 DEF Sound, Owned
  <2>6. QED
    BY <2>2, <2>3, <2>4, <2>5, OneNode
<1>4. heap' = [x \in {1} |-> IF valid THEN r ELSE New_Node(TRUE)]
  BY DEF Reopen
<1>5. Tree(P, heap', 1)
  <2> HIDE DEF r
  <2>1. CASE valid
    BY <1>3, <1>4, <2>1
  <2>2. CASE ~ valid
    BY <1>2, <1>4, <2>2
  <2>3. QED
    BY <2>1, <2>2
<1>6. /\ root' = 1 /\ cache' = NoFile /\ freed' = {} /\ free' = {}
      /\ disk' = disk /\ metadata' = metadata /\ pointer' = pointer
  BY DEF Reopen
<1>7. IsFiniteSet({})
  BY FS_EmptySet
<1>8. QED
  BY <1>2, <1>5, <1>6, <1>7 DEF Holds

\* What a walk leaves is a tree with the same root.
LEMMA WalkTree ==
  ASSUME NEW P, Holds(P), NEW key
  PROVE  LET walk == Find_Leaf_Node(key) IN
         /\ Tree(P, walk.heap, root) /\ walk.cache \in CachesOf(P)
         /\ walk.leaf # 0 => Stands(walk.heap, walk.leaf)
<1> DEFINE walk == Find_Leaf_Node(key)
<1>1. /\ 0 \in P /\ disk \in CachesOf(P) /\ cache \in CachesOf(P)
      /\ heap \in HeapsOf(P) /\ Stands(heap, root) /\ Links(heap) /\ heap[root].parent = 0
  BY DEF Holds, Tree
<1>2. walk \in WalksOf(P, heap)
  BY <1>1, WalkKeeps
<1> HIDE DEF walk
<1>3. /\ walk.heap \in HeapsOf(P) /\ walk.cache \in CachesOf(P) /\ Links(walk.heap)
      /\ Extends(heap, walk.heap) /\ (walk.leaf # 0 => Stands(walk.heap, walk.leaf))
  BY <1>2 DEF WalksOf
<1>4. Stands(walk.heap, root) /\ walk.heap[root].parent = 0
  BY <1>1, <1>3 DEF Stands, Extends
<1>5. QED
  BY <1>3, <1>4 DEF Tree, walk

\* Get leaves what it has read.
LEMMA GetHolds ==
  ASSUME NEW P, Holds(P), NEW key \in Keys, Get(key)
  PROVE  Holds(P)'
<1>1. /\ heap' = Find_Leaf_Node(key).heap /\ cache' = Find_Leaf_Node(key).cache
      /\ root' = root /\ disk' = disk /\ metadata' = metadata /\ freed' = freed /\ free' = free
      /\ pointer' = pointer
  BY DEF Get
<1>2. Tree(P, heap', root') /\ cache' \in CachesOf(P)
  BY <1>1, WalkTree
<1>3. QED
  BY <1>1, <1>2 DEF Holds

\* Put inserts.
LEMMA PutHolds ==
  ASSUME NEW P, Holds(P), NEW key \in Keys, Put(key)
  PROVE  Holds(P)'
<1> DEFINE walk == Find_Leaf_Node(key)
           put == Insert_in_node(walk.heap, walk.leaf, key, key)
<1>1. /\ Found_Leaf(walk) /\ heap' = put.heap /\ cache' = Synchronised(put.heap, walk.cache)
      /\ freed' = put.freed /\ root' = put.root
      /\ disk' = disk /\ metadata' = metadata /\ free' = free /\ pointer' = pointer
  BY DEF Put
<1>2. /\ Tree(P, walk.heap, root) /\ walk.cache \in CachesOf(P)
      /\ walk.leaf # 0 => Stands(walk.heap, walk.leaf)
  BY WalkTree
<1>3. 0 \in P /\ key \in Nat /\ key \in P /\ freed \in SUBSET P /\ IsFiniteSet(freed)
  BY KeysAssumption DEF Holds
<1> HIDE DEF walk
<1>4. /\ walk.heap \in AnyHeapsOf(P) /\ Room(walk.heap) /\ Stands(walk.heap, root) /\ Links(walk.heap)
      /\ Stands(walk.heap, walk.leaf) /\ walk.heap[walk.leaf].leaf
  BY <1>1, <1>2 DEF Tree, HeapsOf, AnyHeapsOf, Found_Leaf
<1>5. put \in PutsOf(P) /\ Steady(put) /\ Done(put)
  BY <1>3, <1>4, InsertKeeps
<1> HIDE DEF put
<1>6. Tree(P, put.heap, put.root) /\ put.freed \in SUBSET P /\ IsFiniteSet(put.freed)
  BY <1>5 DEF PutsOf, AnyHeapsOf, HeapsOf, Steady, Done, Tree
<1>7. Synchronised(put.heap, walk.cache) \in CachesOf(P)
  BY <1>2, <1>3, <1>6, SynchronisedShape DEF Tree
<1>8. QED
  BY <1>1, <1>6, <1>7 DEF Holds

\* A leaf without one of its keys: the keys behind it move with their records, and
\* the last one stays where it was, beyond Key_Num now.
LEMMA RemovedIsSound ==
  ASSUME NEW P, NEW n \in NodesOf(P), Sound(n), n.leaf, NEW x \in 0 .. n.num - 1
  PROVE  LET m == [n EXCEPT !.keys = Removed(n.keys, x, n.num - 1),
                            !.ptrs = Removed(n.ptrs, x + 1, n.num),
                            !.num = n.num - 1]
         IN /\ m \in NodesOf(P) /\ Sound(m) /\ m.leaf /\ m.num = n.num - 1
            /\ m.parent = n.parent /\ m.vol = n.vol /\ m.addr = n.addr
<1> DEFINE num == n.num
           keys == Removed(n.keys, x, num - 1)
           ptrs == Removed(n.ptrs, x + 1, num)
           m == [n EXCEPT !.keys = keys, !.ptrs = ptrs, !.num = num - 1]
<1>1. /\ n.keys \in [0 .. Size - 1 -> Nat] /\ n.ptrs \in [0 .. Size -> P] /\ num \in 0 .. Size
      /\ Size \in Nat
  BY Numbers DEF NodesOf
<1>2. /\ num \in Nat /\ num <= Size /\ x \in Nat /\ x < num /\ num - 1 \in 0 .. Size
  BY <1>1
<1> HIDE DEF num
<1>3. /\ keys \in [0 .. Size - 1 -> Nat]
      /\ \A i \in 0 .. Size - 1 : keys[i] = IF x <= i /\ i < num - 1 THEN n.keys[i + 1] ELSE n.keys[i]
  <2>1. \A i \in 0 .. Size - 1 : x <= i /\ i < num - 1 => i + 1 \in 0 .. Size - 1
    BY <1>1, <1>2
  <2>2. DOMAIN n.keys = 0 .. Size - 1
    BY <1>1
  <2>3. QED
    BY <1>1, <2>1, <2>2 DEF Removed
<1>4. /\ ptrs \in [0 .. Size -> P]
      /\ \A i \in 0 .. Size : ptrs[i] = IF x + 1 <= i /\ i < num THEN n.ptrs[i + 1] ELSE n.ptrs[i]
  <2>1. \A i \in 0 .. Size : x + 1 <= i /\ i < num => i + 1 \in 0 .. Size
    BY <1>1, <1>2
  <2>2. DOMAIN n.ptrs = 0 .. Size
    BY <1>1
  <2>3. QED
    BY <1>1, <2>1, <2>2 DEF Removed
<1> HIDE DEF keys, ptrs
<1>5. /\ m \in NodesOf(P) /\ m.leaf = n.leaf /\ m.num = num - 1 /\ m.keys = keys /\ m.ptrs = ptrs
      /\ m.kids = n.kids /\ m.parent = n.parent /\ m.vol = n.vol /\ m.addr = n.addr
  BY <1>2, <1>3, <1>4 DEF NodesOf
<1> HIDE DEF m
<1>6. Owned(m)
  <2> SUFFICES ASSUME NEW i \in 0 .. Size - 1
               PROVE  \/ ptrs[i + 1] = keys[i]
                      \/ Overcopied = 1 /\ i >= num - 1 /\ ptrs[i + 1] = 0
    BY <1>5 DEF Owned
  <2>1. i \in Nat /\ i + 1 \in 0 .. Size
    BY <1>1
  <2>2. \A j \in 0 .. Size - 1 :
          n.ptrs[j + 1] = n.keys[j] \/ (Overcopied = 1 /\ j >= num /\ n.ptrs[j + 1] = 0)
    BY DEF Sound, Owned, num
  <2>3. CASE x <= i /\ i < num - 1
    <3>1. /\ x + 1 <= i + 1 /\ i + 1 < num /\ i + 1 \in 0 .. Size - 1 /\ ~ (i + 1 >= num)
      BY <1>1, <1>2, <2>1, <2>3
    <3>2. ptrs[i + 1] = n.ptrs[(i + 1) + 1] /\ keys[i] = n.keys[i + 1]
      BY <1>3, <1>4, <2>1, <2>3, <3>1
    <3>3. QED
      BY <2>2, <3>1, <3>2
  <2>4. CASE ~ (x <= i /\ i < num - 1)
    <3>1. ~ (x + 1 <= i + 1 /\ i + 1 < num) /\ (i >= num => i >= num - 1)
      BY <1>2, <2>1, <2>4
    <3>2. ptrs[i + 1] = n.ptrs[i + 1] /\ keys[i] = n.keys[i]
      BY <1>3, <1>4, <2>1, <2>4, <3>1
    <3>3. QED
      BY <2>2, <3>1, <3>2
  <2>5. QED
    BY <2>3, <2>4
<1>7. Sound(m)
  BY <1>5, <1>6 DEF Sound
<1>8. QED
  BY <1>5, <1>7 DEF m, keys, ptrs, num

\* A tree with a leaf changed, but not moved.
LEMMA LeafChanged ==
  ASSUME NEW P, NEW h, NEW id \in DOMAIN h, h[id].leaf, NEW m \in NodesOf(P),
         /\ Sound(m) /\ m.leaf /\ m.num < Size
         /\ m.parent = h[id].parent /\ m.vol = h[id].vol /\ m.addr = h[id].addr
  PROVE  \A r : Tree(P, h, r) => Tree(P, [h EXCEPT ![id] = m], r)
<1> SUFFICES ASSUME NEW r, Tree(P, h, r)
             PROVE  Tree(P, [h EXCEPT ![id] = m], r)
  OBVIOUS
<1> DEFINE g == [h EXCEPT ![id] = m]
<1>1. /\ IsHeap(P, h) /\ Room(h) /\ h \in AnyHeapsOf(P) /\ h \in [DOMAIN h -> NodesOf(P)]
      /\ Stands(h, r) /\ Links(h) /\ h[r].parent = 0
  BY DEF Tree, HeapsOf, AnyHeapsOf, IsHeap
<1>2. /\ g \in [DOMAIN h -> NodesOf(P)] /\ DOMAIN g = DOMAIN h /\ g[id] = m
      /\ \A x \in DOMAIN h \ {id} : g[x] = h[x]
  BY <1>1
<1> HIDE DEF g
<1>3. \A x \in DOMAIN h : /\ g[x].leaf = h[x].leaf /\ g[x].parent = h[x].parent
                          /\ g[x].vol = h[x].vol /\ g[x].addr = h[x].addr
  <2>1. m.leaf = h[id].leaf
    BY <1>1 DEF NodesOf
  <2>2. QED
    BY <1>2, <2>1
<1>4. \A x : Inner(h, x) => Inner(g, x)
  BY <1>2 DEF Inner
<1>5. IsHeap(P, g) /\ Room(g)
  <2>1. \A x \in DOMAIN h : Sound(g[x]) /\ \A i \in 0 .. Size : g[x].kids[i] \in DOMAIN h \cup {0}
    BY <1>1, <1>2 DEF IsHeap, Sound
  <2>2. \A x \in DOMAIN h : g[x].parent # 0 => Inner(g, g[x].parent)
    BY <1>1, <1>3, <1>4 DEF IsHeap
  <2>3. QED
    BY <1>1, <1>2, <2>1, <2>2 DEF IsHeap, Room
<1>6. g \in HeapsOf(P)
  <2>1. DOMAIN g \in SUBSET Nat /\ g \in [DOMAIN g -> NodesOf(P)]
    BY <1>1, <1>2 DEF IsHeap
  <2>2. QED
    BY <1>5, <2>1 DEF HeapsOf
<1>7. Stands(g, r) /\ g[r].parent = 0
  BY <1>1, <1>2, <1>3 DEF Stands
<1>8. Links(g)
  <2>1. PICK d : Linked(h, d, 0)
    BY <1>1 DEF Links
  <2>2. Depths(g, d) /\ Risen(g, 0)
    <3>1. \A x \in DOMAIN h : h[x].parent = 0 \/ h[x].parent \in DOMAIN h
      BY <1>1, HeapShape
    <3>2. QED
      BY <1>2, <1>3, <2>1, <3>1 DEF Linked, Depths, Risen
  <2>3. Joined(g)
    <3> SUFFICES ASSUME NEW x \in DOMAIN h, NEW i \in 0 .. g[x].num, g[x].kids[i] # 0
                 PROVE  /\ g[g[x].kids[i]].parent = x
                        /\ g[g[x].kids[i]].vol \/ g[g[x].kids[i]].addr = g[x].ptrs[i]
                        /\ \A j \in 0 .. g[x].num : g[x].kids[j] = g[x].kids[i] => j = i
      BY <1>2 DEF Joined
    <3>1. g \in AnyHeapsOf(P)
      BY <1>6 DEF HeapsOf, AnyHeapsOf
    <3>2. i \in 0 .. Size
      BY <1>2, <3>1, HeapShape
    <3>3. x # id
      BY <1>2, <3>2 DEF Sound
    <3>4. g[x] = h[x] /\ h[x].kids[i] \in DOMAIN h
      BY <1>1, <1>2, <3>3, HeapShape
    <3>5. QED
      BY <1>3, <2>1, <3>4 DEF Linked, Joined
  <2>4. QED
    BY <2>1, <2>2, <2>3 DEF Links, Linked
<1>9. QED
  BY <1>6, <1>7, <1>8 DEF Tree, g

\* Delete takes a key from its leaf.
LEMMA DeleteHolds ==
  ASSUME NEW P, Holds(P), NEW key \in Keys, Delete(key)
  PROVE  Holds(P)'
<1> DEFINE walk == Find_Leaf_Node(key)
           h == walk.heap  id == walk.leaf  n == h[id]
           found == {i \in 0 .. n.num - 1 : n.keys[i] = key}
           x == Min(found)
           m == [n EXCEPT !.keys = Removed(n.keys, x, n.num - 1),
                          !.ptrs = Removed(n.ptrs, x + 1, n.num),
                          !.num = n.num - 1]
           g == [h EXCEPT ![id] = m]
<1>1. /\ Found_Leaf(walk) /\ Has_Key(n, key) /\ heap' = g /\ cache' = Synchronised(g, walk.cache)
      /\ root' = root /\ disk' = disk /\ metadata' = metadata /\ freed' = freed /\ free' = free
      /\ pointer' = pointer
  BY DEF Delete
<1>2. /\ Tree(P, h, root) /\ walk.cache \in CachesOf(P) /\ (id # 0 => Stands(h, id))
  BY WalkTree, SMTT(30)
<1> HIDE DEF walk
<1>3. /\ id \in DOMAIN h /\ n.leaf /\ n \in NodesOf(P) /\ Sound(n) /\ n.num < Size
  BY <1>1, <1>2 DEF Found_Leaf, Stands, Tree, HeapsOf, IsHeap, Room
<1>4. x \in 0 .. n.num - 1 /\ n.num \in Nat
  <2>1. n.num \in Nat
    BY <1>3, Numbers DEF NodesOf
  <2>2. found # {} /\ found \in SUBSET Nat
    <3> HIDE DEF n
    <3>1. \E i \in 0 .. n.num - 1 : n.keys[i] = key
      BY <1>1 DEF Has_Key
    <3>2. QED
      BY <2>1, <3>1
  <2>3. \E i \in found : \A j \in found : i <= j
    <3> HIDE DEF found
    <3>1. QED
      BY <2>2, LeastNumber
  <2>4. x \in found
    <3> HIDE DEF found
    <3>1. QED
      BY <2>3 DEF Min
  <2>5. QED
    BY <2>1, <2>4
<1> HIDE DEF x, n, h, id
<1>5. /\ m \in NodesOf(P) /\ Sound(m) /\ m.leaf /\ m.num = n.num - 1
      /\ m.parent = n.parent /\ m.vol = n.vol /\ m.addr = n.addr
  BY <1>3, <1>4, RemovedIsSound
<1> HIDE DEF m
<1>6. m.num < Size
  BY <1>3, <1>4, <1>5, Numbers
<1>7. Tree(P, g, root)
  BY <1>2, <1>3, <1>5, <1>6, LeafChanged DEF n
<1> HIDE DEF g
<1>8. Synchronised(g, walk.cache) \in CachesOf(P)
  BY <1>2, <1>7, SynchronisedShape DEF Tree, Holds
<1>9. QED
  BY <1>1, <1>7, <1>8, SMTT(30) DEF Holds

\* A node with an address, and pointers to its children.
Addressed(n, a, p) == [n EXCEPT !.addr = a, !.ptrs = p]

\* A node with the addresses that a commit gives to it and to its children.
LEMMA AssignedIsSound ==
  ASSUME NEW P, NEW n \in NodesOf(P), Sound(n), NEW a \in P, NEW p \in [0 .. Size -> P],
         n.leaf => p = n.ptrs
  PROVE  LET m == Addressed(n, a, p) IN
         /\ m \in NodesOf(P) /\ Sound(m) /\ m.num = n.num /\ m.leaf = n.leaf /\ m.parent = n.parent
<1> DEFINE m == Addressed(n, a, p)
<1>1. /\ m \in NodesOf(P) /\ m.num = n.num /\ m.leaf = n.leaf /\ m.parent = n.parent
      /\ m.keys = n.keys /\ m.kids = n.kids /\ m.ptrs = p
  BY DEF NodesOf, Addressed
<1> HIDE DEF m
<1>2. Sound(m)
  BY <1>1, Zenon DEF Sound, Owned
<1>3. QED
  BY <1>1, <1>2 DEF m

\* A commit writes sound nodes, and the root it keeps is one.
LEMMA CommitHolds ==
  ASSUME NEW P, Holds(P), Commit
  PROVE  \E Q : Holds(Q)'
<1> DEFINE volatile == Pending_Nodes
           len == Len(volatile)
<1>1. PICK A \in Allocations(free, pointer, len) :
       LET Rank(s) == Cardinality({a \in A : a <= s})
           Address(n) == CHOOSE s \in A : volatile[Rank(s)] = n
           New_Pointer(n, i) ==
             LET kid == heap[n].kids[i] IN
             IF i <= heap[n].num /\ kid \in ToSet(volatile) THEN Address(kid) ELSE heap[n].ptrs[i]
           Assigned(n) == [heap[n] EXCEPT !.addr = Address(n),
                             !.ptrs = [i \in 0 .. Size |-> New_Pointer(n, i)]]
       IN /\ disk' = [s \in Slots |->
                        IF s \in A
                        THEN Written(Assigned(volatile[Rank(s)]))
                        ELSE disk[s]]
          /\ heap' = [n \in {1} |-> [Assigned(root) EXCEPT
                                       !.kids = [i \in 0 .. Size |-> 0], !.line = 0]]
          /\ metadata' = Address(root)
          /\ free' = (free \ A) \cup freed
  BY Zenon DEF Commit
<1> DEFINE Rank(s) == Cardinality({a \in A : a <= s})
           Address(n) == CHOOSE s \in A : volatile[Rank(s)] = n
           New_Pointer(n, i) ==
             IF i <= heap[n].num /\ heap[n].kids[i] \in ToSet(volatile)
             THEN Address(heap[n].kids[i]) ELSE heap[n].ptrs[i]
           Pointers(n) == [i \in 0 .. Size |-> New_Pointer(n, i)]
           Assigned(n) == [heap[n] EXCEPT !.addr = Address(n), !.ptrs = Pointers(n)]
<1>2. /\ disk' = [s \in Slots |-> IF s \in A THEN Written(Assigned(volatile[Rank(s)])) ELSE disk[s]]
      /\ heap' = [n \in {1} |-> [Assigned(root) EXCEPT !.kids = [i \in 0 .. Size |-> 0], !.line = 0]]
      /\ metadata' = Address(root)
      /\ free' = (free \ A) \cup freed
  BY <1>1
<1>3. /\ root' = 1 /\ freed' = {} /\ pointer' = PointerAfter(free, pointer, len)
      /\ cache' = [s \in Slots |-> IF s \in freed THEN NoLine ELSE cache[s]]
  BY Zenon DEF Commit, Invalidated
<1>4. /\ Nat \subseteq P /\ 0 \in P /\ metadata \in P
      /\ heap \in HeapsOf(P) /\ Stands(heap, root) /\ Links(heap) /\ heap[root].parent = 0
      /\ disk \in CachesOf(P) /\ cache \in CachesOf(P)
      /\ IsFiniteSet(freed) /\ IsFiniteSet(free) /\ pointer \in Nat
      /\ root \in DOMAIN heap
  BY DEF Holds, Tree, Stands
<1>5. volatile \in Seq(DOMAIN heap)
  BY <1>4, PendingNodes
<1>6. \A n \in DOMAIN heap : heap[n] \in NodesOf(P) /\ Sound(heap[n]) /\ heap[n].num < Size
  BY <1>4 DEF HeapsOf, IsHeap, Room
<1>7. len \in Nat /\ ToSet(volatile) \subseteq DOMAIN heap /\ 0 \notin DOMAIN heap
  BY <1>4, <1>5 DEF ToSet, HeapsOf, IsHeap
<1>8. IsFiniteSet(A) /\ Cardinality(A) <= len
  <2> HIDE DEF len
  <2>1. QED
    BY <1>4, <1>7, AllocationSize
<1>9. ASSUME NEW s \in Slots, s \in A
      PROVE  volatile[Rank(s)] \in DOMAIN heap
  <2> DEFINE B == {a \in A : a <= s}
  <2>1. s \in B
    BY <1>9 DEF Slots
  <2>2. IsFiniteSet(B) /\ Cardinality(B) <= Cardinality(A)
    BY <1>8, FS_Subset
  <2>3. Cardinality(B) \in Nat /\ Cardinality(A) \in Nat
    BY <1>8, <2>2, FS_CardinalityType
  <2>4. Cardinality(B) # 0
    BY <2>1, <2>2, FS_EmptySet
  <2> HIDE DEF B
  <2>5. Cardinality(B) \in 1 .. len
    BY <1>7, <1>8, <2>2, <2>3, <2>4
  <2>6. volatile[Cardinality(B)] \in DOMAIN heap
    BY <1>5, <2>5
  <2>7. QED
    BY <2>6 DEF B
<1> HIDE DEF Rank, Address, volatile, len
<1>10. PICK Q : P \subseteq Q /\ (\A n \in DOMAIN heap : Address(n) \in Q) /\ 0 \in Q
  <2> DEFINE R == P \cup {Address(n) : n \in DOMAIN heap}
  <2>1. P \subseteq R /\ (\A n \in DOMAIN heap : Address(n) \in R) /\ 0 \in R
    BY <1>4
  <2> HIDE DEF R
  <2>2. QED
    BY <2>1
<1>11. NodesOf(P) \subseteq NodesOf(Q) /\ CachesOf(P) \subseteq CachesOf(Q)
  BY <1>10, CachesGrow
<1>12. ASSUME NEW n \in DOMAIN heap
       PROVE  /\ Assigned(n) \in NodesOf(Q) /\ Sound(Assigned(n)) /\ Assigned(n).num = heap[n].num
              /\ Assigned(n).leaf = heap[n].leaf /\ Assigned(n).parent = heap[n].parent
  <2>1. heap[n] \in NodesOf(Q) /\ Sound(heap[n]) /\ heap[n].num < Size
    BY <1>6, <1>11
  <2>2. \A i \in 0 .. Size : heap[n].ptrs[i] \in Q
    BY <2>1 DEF NodesOf
  <2>3. \A i \in 0 .. Size : New_Pointer(n, i) \in Q
    BY <1>7, <1>10, <2>2
  <2>4. Pointers(n) \in [0 .. Size -> Q]
    BY <2>3
  <2>5. heap[n].leaf => Pointers(n) = heap[n].ptrs
    <3>1. heap[n].leaf => \A i \in 0 .. Size : New_Pointer(n, i) = heap[n].ptrs[i]
      BY <1>7, <2>1 DEF Sound
    <3>2. heap[n].ptrs \in [0 .. Size -> Q]
      BY <2>1 DEF NodesOf
    <3> HIDE DEF New_Pointer
    <3>3. QED
      BY <3>1, <3>2
  <2>6. Address(n) \in Q
    BY <1>10
  <2> DEFINE r == heap[n]  a == Address(n)  p == Pointers(n)
  <2>7. Assigned(n) = Addressed(r, a, p)
    BY DEF Addressed
  <2>8. /\ r \in NodesOf(Q) /\ Sound(r) /\ a \in Q /\ p \in [0 .. Size -> Q]
        /\ r.leaf => p = r.ptrs
    BY <2>1, <2>4, <2>5, <2>6
  <2> HIDE DEF r, a, p, Assigned
  <2>9. /\ Assigned(n) \in NodesOf(Q) /\ Sound(Assigned(n)) /\ Assigned(n).num = r.num
        /\ Assigned(n).leaf = r.leaf /\ Assigned(n).parent = r.parent
    BY <2>7, <2>8, AssignedIsSound
  <2>10. QED
    BY <2>9 DEF r
<1> HIDE DEF Assigned
<1>13. disk' \in CachesOf(Q)
  <2>1. ASSUME NEW s \in Slots, s \in A
        PROVE  Written(Assigned(volatile[Rank(s)])) \in LinesOf(Q)
    <3> DEFINE n == volatile[Rank(s)]
    <3>1. n \in DOMAIN heap
      BY <1>9, <2>1
    <3> HIDE DEF n
    <3>2. Assigned(n) \in NodesOf(Q) /\ Sound(Assigned(n)) /\ Assigned(n).num < Size
      BY <1>6, <1>12, <3>1
    <3>3. Written(Assigned(n)) \in LinesOf(Q)
      BY <1>10, <3>2, WrittenIsSound
    <3>4. QED
      BY <3>3 DEF n
  <2>2. \A s \in Slots : disk[s] \in LinesOf(Q)
    BY <1>4, <1>11 DEF CachesOf
  <2>3. QED
    BY <1>2, <2>1, <2>2 DEF CachesOf
<1>14. cache' \in CachesOf(Q)
  <2>1. \A s \in Slots : cache[s] \in LinesOf(Q)
    BY <1>4, <1>11 DEF CachesOf
  <2>2. NoLine \in LinesOf(Q)
    BY <1>10, BlankLine
  <2>3. QED
    BY <1>3, <2>1, <2>2 DEF CachesOf
<1>15. Tree(Q, heap', 1)
  <2> DEFINE n == Assigned(root)
             zeros == [i \in 0 .. Size |-> 0]
             r == [n EXCEPT !.kids = zeros, !.line = 0]
  <2>1. /\ n \in NodesOf(Q) /\ Sound(n) /\ n.num = heap[root].num
        /\ n.leaf = heap[root].leaf /\ n.parent = 0
    BY <1>4, <1>12
  <2>2. zeros \in [0 .. Size -> Nat] /\ \A i \in 0 .. Size : zeros[i] = 0
    OBVIOUS
  <2>3. heap' = [x \in {1} |-> r]
    BY <1>2
  <2> HIDE DEF n, zeros
  <2>4. /\ r \in NodesOf(Q) /\ r.kids = zeros /\ r.num = n.num /\ r.leaf = n.leaf
        /\ r.parent = n.parent /\ r.keys = n.keys /\ r.ptrs = n.ptrs
    BY <1>10, <2>1, <2>2 DEF NodesOf
  <2> HIDE DEF r
  <2>5. Sound(r)
    BY <2>1, <2>2, <2>4 DEF Sound, Owned
  <2>6. r.num < Size /\ (r.leaf \/ r.num # 0)
    BY <1>4, <1>6, <2>1, <2>4 DEF Stands
  <2>7. \A i \in 0 .. Size : r.kids[i] = 0
    BY <2>2, <2>4
  <2>8. Tree(Q, [x \in {1} |-> r], 1)
    BY <2>1, <2>4, <2>5, <2>6, <2>7, OneNode
  <2>9. QED
    BY <2>3, <2>8
<1>16. IsFiniteSet(free') /\ IsFiniteSet(freed') /\ freed' \in SUBSET Q
  <2>1. IsFiniteSet(free \ A)
    BY <1>4, FS_Subset
  <2>2. QED
    BY <1>2, <1>3, <1>4, <2>1, FS_Union, FS_EmptySet
<1>17. pointer' \in Nat
  <2>1. Cardinality(free) \in Nat
    BY <1>4, FS_CardinalityType
  <2>2. QED
    BY <1>3, <1>4, <1>7, <2>1 DEF PointerAfter, Appended
<1>18. metadata' \in Q /\ Nat \subseteq Q
  BY <1>2, <1>4, <1>10
<1>19. Holds(Q)'
  <2>1. Tree(Q, heap', root')
    BY <1>3, <1>15
  <2>2. QED
    BY <1>13, <1>14, <1>16, <1>17, <1>18, <2>1 DEF Holds
<1>20. QED
  BY <1>19

-----------------------------------------------------------------------------
\* The theorems

\* The inductive invariant, whatever addresses are.
IInv == \E P : Holds(P)

\* Every step keeps it.
LEMMA NextHolds == ASSUME NEW P, Holds(P), [Next]_vars PROVE \E Q : Holds(Q)'
<1>1. CASE Reopen
  BY <1>1, ReopenHolds
<1>2. ASSUME NEW key \in Keys, Get(key)
      PROVE  \E Q : Holds(Q)'
  BY <1>2, GetHolds
<1>3. ASSUME NEW key \in Keys, Put(key)
      PROVE  \E Q : Holds(Q)'
  BY <1>3, PutHolds
<1>4. ASSUME NEW key \in Keys, Delete(key)
      PROVE  \E Q : Holds(Q)'
  BY <1>4, DeleteHolds
<1>5. CASE Commit
  BY <1>5, CommitHolds
<1>6. CASE UNCHANGED vars
  BY <1>6 DEF vars, Holds
<1>7. QED
  BY <1>1, <1>2, <1>3, <1>4, <1>5, <1>6 DEF Next

\* In every state nodes are sound and the links of the tree agree, for every order
\* of the tree and every set of keys.
LEMMA Invariant == Spec => []IInv
<1>1. Init => IInv
  BY InitHolds DEF IInv
<1>2. IInv /\ [Next]_vars => IInv'
  <2> SUFFICES ASSUME IInv, [Next]_vars
               PROVE  IInv'
    OBVIOUS
  <2>1. PICK P : Holds(P)
    BY DEF IInv
  <2>2. QED
    BY <2>1, NextHolds DEF IInv
<1>3. QED
  BY <1>1, <1>2, PTL DEF Spec

\* Renewing goes up by Parent and Commit comes down through Children: in every
\* state of every tree, whatever splits moved in between, parents and children
\* point at each other, a child that is not volatile is where its parent says, and
\* above a volatile node all are volatile.
THEOREM LinksAlwaysAgree == Spec => []LinksAgree
<1>1. IInv => LinksAgree
  <2> SUFFICES ASSUME NEW P, Holds(P)
               PROVE  LinksAgree
    BY DEF IInv
  <2>1. heap \in AnyHeapsOf(P) /\ heap[root].parent = 0 /\ Links(heap)
    BY DEF Holds, Tree, HeapsOf, AnyHeapsOf
  <2>2. PICK d : Linked(heap, d, 0)
    BY <2>1 DEF Links
  <2>3. Joined(heap) /\ Risen(heap, 0)
    BY <2>2 DEF Linked
  <2>4. ASSUME NEW id \in DOMAIN heap, NEW i \in 0 .. heap[id].num, heap[id].kids[i] # 0
        PROVE  LET kid == heap[id].kids[i] IN
               /\ heap[kid].parent = id
               /\ IF heap[kid].vol THEN heap[id].vol ELSE heap[kid].addr = heap[id].ptrs[i]
    <3> DEFINE kid == heap[id].kids[i]
    <3>1. kid \in DOMAIN heap /\ id # 0
      BY <2>1, <2>4, HeapShape
    <3>2. heap[kid].parent = id /\ (heap[kid].vol \/ heap[kid].addr = heap[id].ptrs[i])
      BY <2>3, <2>4 DEF Joined
    <3> HIDE DEF kid
    <3>3. heap[kid].vol => heap[id].vol
      BY <2>3, <3>1, <3>2 DEF Risen
    <3>4. QED
      BY <3>2, <3>3 DEF kid
  <2>5. QED
    BY <2>1, <2>4 DEF LinksAgree
<1>2. QED
  BY <1>1, Invariant, PTL

\* What a walk may stand on: a node of the heap, or one made of a line.
StopsOf(P) ==
  {n \in NodesOf(P) : /\ Sound(n) /\ n.num < Size
                      /\ \A i \in 0 .. Size : n.kids[i] \in DOMAIN heap \cup {0}}

\* One node down is another.
LEMMA KidStops ==
  ASSUME NEW P, Holds(P), NEW n \in StopsOf(P), NEW i \in 0 .. Size
  PROVE  Kid(n, i) \in StopsOf(P)
<1>1. /\ 0 \in P /\ disk \in CachesOf(P) /\ cache \in CachesOf(P) /\ heap \in HeapsOf(P)
  BY DEF Holds, Tree
<1>2. n \in NodesOf(P) /\ n.kids[i] \in DOMAIN heap \cup {0} /\ n.ptrs[i] \in P
  BY DEF StopsOf, NodesOf
<1>3. CASE n.kids[i] # 0
  <2>1. n.kids[i] \in DOMAIN heap /\ Kid(n, i) = heap[n.kids[i]]
    BY <1>2, <1>3 DEF Kid
  <2>2. QED
    BY <1>1, <2>1 DEF HeapsOf, IsHeap, Room, StopsOf
<1>4. CASE n.kids[i] = 0
  <2> DEFINE address == n.ptrs[i]
             l == Line(IF Line(cache, address) # NoLine THEN cache ELSE disk, address)
             k == Node_From(l, 0, address, 0)
  <2>1. l \in LinesOf(P) /\ address \in P
    BY <1>1, <1>2, LineShape
  <2>2. Kid(n, i) = k
    BY <1>4 DEF Kid
  <2> HIDE DEF l, address
  <2>3. k \in NodesOf(P) /\ Sound(k) /\ k.num < Size /\ \A j \in 0 .. Size : k.kids[j] = 0
    BY <1>1, <2>1, NodeFromLine
  <2>4. QED
    BY <2>2, <2>3 DEF StopsOf
<1>5. QED
  BY <1>3, <1>4

\* A round of the walk of Leaf_Under.
LeafRound(n, key) == IF n.leaf \/ n.num = 0 THEN n ELSE Kid(n, Child_Index(n, key))

\* A walk in memory, in the cache and on file ends at a sound node.
LEMMA LeafUnderStops ==
  ASSUME NEW P, Holds(P), NEW key
  PROVE  Leaf_Under(key) \in StopsOf(P)
<1> DEFINE S == StopsOf(P)
           start == heap[root]
           next == [x \in S |-> LeafRound(x, key)]
           E(f) == f = [r \in Nat |-> IF r = 0 THEN {start} ELSE {LeafRound(x, key) : x \in f[r - 1]}]
           after == CHOOSE f : E(f)
<1>1. start \in S
  BY DEF Holds, Tree, HeapsOf, IsHeap, Room, Stands, StopsOf
<1>2. \A x \in S : LeafRound(x, key) \in S
  <2> SUFFICES ASSUME NEW x \in S
               PROVE  LeafRound(x, key) \in S
    OBVIOUS
  <2>1. CASE x.leaf \/ x.num = 0
    BY <2>1 DEF LeafRound
  <2>2. CASE ~ (x.leaf \/ x.num = 0)
    <3>1. x.num \in 0 .. Size
      BY DEF StopsOf, NodesOf
    <3>2. Child_Index(x, key) \in 0 .. Size
      BY <3>1, ChildIndexInRange, Numbers
    <3>3. QED
      BY <2>2, <3>2, KidStops DEF LeafRound
  <2>3. QED
    BY <2>1, <2>2
<1> HIDE DEF S, start
<1>3. next \in [S -> S] /\ \A x \in S : next[x] = LeafRound(x, key)
  BY <1>2
<1> HIDE DEF next
<1>4. PICK f : IsLoop(S, start, next, f)
  BY <1>1, <1>3, LoopExists
<1>5. E(f)
  <2>1. ASSUME NEW r \in Nat, r # 0
        PROVE  {next[x] : x \in f[r - 1]} = {LeafRound(x, key) : x \in f[r - 1]}
    <3>1. r - 1 \in Nat
      BY <2>1
    <3>2. \A x \in f[r - 1] : next[x] = LeafRound(x, key)
      BY <1>3, <1>4, <3>1 DEF IsLoop
    <3>3. QED
      BY <3>2
  <2>2. f = [r \in Nat |-> IF r = 0 THEN {start} ELSE {next[x] : x \in f[r - 1]}]
    BY <1>4 DEF IsLoop
  <2>3. QED
    BY <2>1, <2>2
<1>6. E(after)
  <2> HIDE DEF E
  <2>1. QED
    BY <1>5
<1> HIDE DEF after
<1>7. after[0] = {start}
  BY <1>6
<1>8. ASSUME NEW r \in Nat, after[r] \subseteq S
      PROVE  after[r + 1] = {next[x] : x \in after[r]}
  <2>1. after[r + 1] = {LeafRound(x, key) : x \in after[r]}
    <3>1. r + 1 \in Nat /\ r + 1 # 0 /\ (r + 1) - 1 = r
      OBVIOUS
    <3>2. QED
      BY <1>6, <3>1
  <2>2. QED
    BY <1>3, <1>8, <2>1
<1>9. Nodes_On_A_Path \in Nat
  <2>1. Cardinality(DOMAIN heap) \in Nat
    BY FS_CardinalityType DEF Holds, Tree, HeapsOf, IsHeap
  <2>2. QED
    BY <2>1, BoundsAssumption DEF Nodes_On_A_Path
<1>10. (CHOOSE last \in after[Nodes_On_A_Path] : TRUE) \in S
  BY <1>1, <1>3, <1>7, <1>8, <1>9, LoopStays
<1>11. QED
  BY <1>10 DEF Leaf_Under, Iterated, LeafRound, after, start, S

\* A round of the walk of Stored_Leaf.
FileRound(l, key) == IF l.leaf \/ l.num = 0 THEN l ELSE Line(disk, l.ptrs[Child_Index(l, key)])

\* A walk on file ends at a sound node.
LEMMA StoredLeafStops ==
  ASSUME NEW P, Holds(P), NEW key
  PROVE  Stored_Leaf(key) \in LinesOf(P)
<1> DEFINE S == LinesOf(P)
           start == Line(disk, metadata)
           next == [x \in S |-> FileRound(x, key)]
           E(f) == f = [r \in Nat |-> IF r = 0 THEN {start} ELSE {FileRound(x, key) : x \in f[r - 1]}]
           after == CHOOSE f : E(f)
<1>1. start \in S
  BY LineShape DEF Holds
<1>2. \A x \in S : FileRound(x, key) \in S
  BY LineShape DEF FileRound, Holds
<1> HIDE DEF S, start
<1>3. next \in [S -> S] /\ \A x \in S : next[x] = FileRound(x, key)
  BY <1>2
<1> HIDE DEF next
<1>4. PICK f : IsLoop(S, start, next, f)
  BY <1>1, <1>3, LoopExists
<1>5. E(f)
  <2>1. ASSUME NEW r \in Nat, r # 0
        PROVE  {next[x] : x \in f[r - 1]} = {FileRound(x, key) : x \in f[r - 1]}
    <3>1. r - 1 \in Nat
      BY <2>1
    <3>2. \A x \in f[r - 1] : next[x] = FileRound(x, key)
      BY <1>3, <1>4, <3>1 DEF IsLoop
    <3>3. QED
      BY <3>2
  <2>2. f = [r \in Nat |-> IF r = 0 THEN {start} ELSE {next[x] : x \in f[r - 1]}]
    BY <1>4 DEF IsLoop
  <2>3. QED
    BY <2>1, <2>2
<1>6. E(after)
  <2> HIDE DEF E
  <2>1. QED
    BY <1>5
<1> HIDE DEF after
<1>7. after[0] = {start}
  BY <1>6
<1>8. ASSUME NEW r \in Nat, after[r] \subseteq S
      PROVE  after[r + 1] = {next[x] : x \in after[r]}
  <2>1. after[r + 1] = {FileRound(x, key) : x \in after[r]}
    <3>1. r + 1 \in Nat /\ r + 1 # 0 /\ (r + 1) - 1 = r
      OBVIOUS
    <3>2. QED
      BY <1>6, <3>1
  <2>2. QED
    BY <1>3, <1>8, <2>1
<1>9. MaxSlot \in Nat
  BY BoundsAssumption
<1>10. (CHOOSE last \in after[MaxSlot] : TRUE) \in S
  BY <1>1, <1>3, <1>7, <1>8, <1>9, LoopStays
<1>11. QED
  BY <1>10 DEF Stored_Leaf, Iterated, FileRound, after, start, S

\* The address right of a key in a leaf is that of its record, or none.
LEMMA OwnAddress ==
  ASSUME NEW n, n.keys \in [0 .. Size - 1 -> Nat], Owned(n), NEW key
  PROVE  Get_Data_Address(n, key) \in {NotFound, key} \cup (IF Overcopied = 1 THEN {0} ELSE {})
<1> DEFINE found == {i \in 0 .. Size - 1 : n.keys[i] = key}
           x == Min(found)
<1>1. Get_Data_Address(n, key) = IF found = {} THEN NotFound ELSE n.ptrs[x + 1]
  BY DEF Get_Data_Address
<1>2. ASSUME found # {}
      PROVE  x \in 0 .. Size - 1 /\ n.keys[x] = key
  <2>1. found \in SUBSET Nat
    BY Numbers
  <2>2. \E i \in found : \A j \in found : i <= j
    <3> HIDE DEF found
    <3>1. QED
      BY <1>2, <2>1, LeastNumber
  <2>3. x \in found
    <3> HIDE DEF found
    <3>1. QED
      BY <2>2 DEF Min
  <2>4. QED
    BY <2>3
<1> HIDE DEF x, found
<1>3. QED
  BY <1>1, <1>2 DEF Owned

\* What Get returns.  Without Overcopied, its own record or nothing; with it, the
\* address 0 as well, which is what is right of the key a serializer copied beyond
\* Key_Num.
OwnRecords ==
  \A key \in Keys :
    {Result(key), File_Result(key)} \subseteq {NotFound, key} \cup (IF Overcopied = 1 THEN {0} ELSE {})

\* Get finds the record of the key it was asked for, or none: no split, delete,
\* commit or restart puts the record of another key right of a key, the keys that
\* are left beyond Key_Num included.
THEOREM OwnRecordsOnly == Spec => []OwnRecords
<1>1. IInv => OwnRecords
  <2> SUFFICES ASSUME NEW P, Holds(P), NEW key \in Keys
               PROVE  {Result(key), File_Result(key)}
                        \subseteq {NotFound, key} \cup (IF Overcopied = 1 THEN {0} ELSE {})
    BY DEF IInv, OwnRecords
  <2>1. Result(key) \in {NotFound, key} \cup (IF Overcopied = 1 THEN {0} ELSE {})
    <3> DEFINE n == Leaf_Under(key)
    <3>1. n \in StopsOf(P)
      BY LeafUnderStops
    <3>2. Result(key) = IF ~ n.leaf \/ (n.num = 0 /\ n # heap[root]) THEN NotFound
                        ELSE Get_Data_Address(n, key)
      BY DEF Result
    <3> HIDE DEF n
    <3>3. n.keys \in [0 .. Size - 1 -> Nat] /\ (n.leaf => Owned(n))
      BY <3>1 DEF StopsOf, NodesOf, Sound
    <3>4. QED
      BY <3>2, <3>3, OwnAddress
  <2>2. File_Result(key) \in {NotFound, key} \cup (IF Overcopied = 1 THEN {0} ELSE {})
    <3> DEFINE l == Stored_Leaf(key)
    <3>1. l \in LinesOf(P)
      BY StoredLeafStops
    <3>2. File_Result(key) = IF ~ l.leaf \/ l.num = 0 THEN NotFound ELSE Get_Data_Address(l, key)
      BY DEF File_Result
    <3> HIDE DEF l
    <3>3. l.keys \in [0 .. Size - 1 -> Nat] /\ (l.leaf => Owned(l))
      BY <3>1 DEF LinesOf
    <3>4. QED
      BY <3>2, <3>3, OwnAddress
  <2>3. QED
    BY <2>1, <2>2
<1>2. QED
  BY <1>1, Invariant, PTL

\* With the serializers that copy no key too many, Get never returns another
\* address than that of its key's own record, whatever Delete leaves behind.
THEOREM OthersRecordsNever == ASSUME Overcopied = 0 PROVE Spec => []NeverAnotherRecord
<1>1. OwnRecords => NeverAnotherRecord
  BY DEF OwnRecords, NeverAnotherRecord
<1>2. QED
  BY <1>1, OwnRecordsOnly, PTL
=============================================================================
