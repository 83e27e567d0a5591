----------------------- MODULE AppendTreeOrderProofs ------------------------
(***************************************************************************)
(* The order of keys in AppendTree.tla along whole paths, without Delete:  *)
(* the tree is a search tree to who reads it, and implements KeyStore.tla. *)
(*                                                                         *)
(* The tree is named for the proof: a set of nodes, each with the range of *)
(* keys that lead to it, its level, and its place in memory or on file     *)
(* (GoodTree).  Working(K) and StoredTree(J) say that the nodes in memory, *)
(* and those on file, are such a tree for the keys K and J; each operation *)
(* has a lemma of what it makes of both (TreeStep), and from them come the *)
(* refinement of KeyStore and the search tree that a reader sees.          *)
(***************************************************************************)
EXTENDS AppendTreeProofs

-----------------------------------------------------------------------------
\* A tree and what it holds

\* A node as a walk sees it: below is where its children are, an object of the heap
\* or, negated, a slot of the file.
SeenNodes ==
  [leaf : BOOLEAN, num : 0 .. Size, keys : [0 .. Size - 1 -> Nat], below : [0 .. Size -> Int]]

\* Keys in order.
InOrder(n) == \A i, j \in 0 .. n.num - 1 : i < j => n.keys[i] < n.keys[j]

\* The keys that child i of n is there for.
LiesAt(n, i, k) == (i > 0 => n.keys[i - 1] <= k) /\ (i < n.num => k < n.keys[i])

\* y is child i of x: one level down, with its part of the keys of x.
IsChild(t, x, i, y) ==
  /\ y \in t.nodes /\ t.loc[y] = t.node[x].below[i] /\ t.level[y] + 1 = t.level[x]
  /\ t.range[y] = {k \in t.range[x] : LiesAt(t.node[x], i, k)}

\* A tree of nodes with where they are, what a walk sees there, the keys they are
\* there for, their levels from the leaves up, and the keys the tree holds.
TreeShape(t) ==
  /\ t.nodes \subseteq Nat /\ IsFiniteSet(t.nodes) /\ t.root \in t.nodes
  /\ t.range \in [t.nodes -> SUBSET Keys] /\ t.level \in [t.nodes -> Nat]
  /\ t.loc \in [t.nodes -> Int] /\ t.node \in [t.nodes -> SeenNodes] /\ t.held \subseteq Keys

\* Nodes are at different places, and those of a level are there for different keys.
Apart(t) ==
  \A x, y \in t.nodes :
    x # y => /\ t.loc[x] # t.loc[y]
             /\ t.level[x] = t.level[y] => t.range[x] \cap t.range[y] = {}

\* The root is there for all keys, at the top.
Topped(t) ==
  /\ t.range[t.root] = Keys /\ t.level[t.root] < Cardinality(t.nodes)
  /\ \A x \in t.nodes \ {t.root} : t.level[x] < t.level[t.root]

\* The keys of a leaf are those of its part that the tree holds; what it has beyond
\* Key_Num is none of them.
LeafBelongs(t, x) ==
  LET n == t.node[x] IN
  /\ \A i \in 0 .. Size - 1 : i >= n.num => n.keys[i] = 0 \/ n.keys[i] \notin t.range[x]
  /\ \A k \in t.range[x] : k \in t.held <=> \E i \in 0 .. n.num - 1 : n.keys[i] = k

\* A node of the tree: its keys in order and of its part.
Belongs(t, x) ==
  LET n == t.node[x] IN
  /\ n.leaf <=> t.level[x] = 0
  /\ InOrder(n) /\ \A i \in 0 .. n.num - 1 : n.keys[i] \in t.range[x]
  /\ x # t.root => n.num # 0
  /\ n.leaf => LeafBelongs(t, x)

\* Nodes that are not leaves have children, and all but the root are children.
Branches(t) ==
  /\ \A x \in t.nodes : ~ t.node[x].leaf =>
       \A i \in 0 .. t.node[x].num : \E y \in t.nodes : IsChild(t, x, i, y)
  /\ \A y \in t.nodes \ {t.root} : \E x \in t.nodes :
       ~ t.node[x].leaf /\ \E i \in 0 .. t.node[x].num : IsChild(t, x, i, y)

\* A search tree.
GoodTree(t) ==
  TreeShape(t) /\ Apart(t) /\ Topped(t) /\ Branches(t) /\ \A x \in t.nodes : Belongs(t, x)

\* Positions up to one of them are counted.
LEMMA PositionsCounted ==
  ASSUME NEW num \in Nat, NEW B \in SUBSET (0 .. num - 1),
         \A i \in B : \A j \in 0 .. num - 1 : j < i => j \in B
  PROVE  LET c == Cardinality(B) IN
         c \in 0 .. num /\ \A i \in 0 .. num - 1 : i \in B <=> i < c
<1>1. PICK c \in Nat \ B : \A k \in Nat \ B : c <= k
  <2>1. num \in Nat \ B
    OBVIOUS
  <2>2. QED
    BY <2>1, LeastNumber
<1>2. c <= num /\ c \in Nat
  BY <1>1
<1>3. \A i \in 0 .. num - 1 : i \in B <=> i < c
  <2> TAKE i \in 0 .. num - 1
  <2>1. i < c => i \in B
    BY <1>1, <1>2
  <2>2. i \in B => i < c
    BY <1>1, <1>2
  <2>3. QED
    BY <2>1, <2>2
<1>4. B = 0 .. c - 1
  <2>1. ASSUME NEW i \in B
        PROVE  i \in 0 .. c - 1
    BY <1>2, <1>3
  <2>2. ASSUME NEW i \in 0 .. c - 1
        PROVE  i \in B
    BY <1>2, <1>3
  <2>3. QED
    BY <2>1, <2>2
<1>5. Cardinality(B) = c
  <2>1. Cardinality(0 .. c - 1) = IF 0 > c - 1 THEN 0 ELSE c - 1 - 0 + 1
    BY <1>2, FS_Interval
  <2>2. QED
    BY <1>2, <1>4, <2>1
<1>6. QED
  BY <1>2, <1>3, <1>5

\* Keys at most k, and keys below k, are the first of a node.
LEMMA KeysCounted ==
  ASSUME NEW n, n.num \in 0 .. Size, n.keys \in [0 .. Size - 1 -> Nat], InOrder(n), NEW k \in Nat
  PROVE  /\ \A i \in 0 .. n.num - 1 : n.keys[i] <= k <=> i < Child_Index(n, k)
         /\ Child_Index(n, k) \in 0 .. n.num
         /\ LET c == Cardinality({i \in 0 .. n.num - 1 : n.keys[i] < k}) IN
            c \in 0 .. n.num /\ \A i \in 0 .. n.num - 1 : n.keys[i] < k <=> i < c
<1> DEFINE num == n.num
           B == {i \in 0 .. num - 1 : n.keys[i] <= k}
           C == {i \in 0 .. num - 1 : n.keys[i] < k}
<1>1. num \in Nat /\ \A i \in 0 .. num - 1 : n.keys[i] \in Nat
  BY Numbers
<1>2. B \in SUBSET (0 .. num - 1) /\ \A i \in B : \A j \in 0 .. num - 1 : j < i => j \in B
  BY <1>1 DEF InOrder
<1>3. C \in SUBSET (0 .. num - 1) /\ \A i \in C : \A j \in 0 .. num - 1 : j < i => j \in C
  BY <1>1 DEF InOrder
<1>4. Cardinality(B) \in 0 .. num /\ \A i \in 0 .. num - 1 : i \in B <=> i < Cardinality(B)
  <2> HIDE DEF num, B
  <2>1. QED
    BY <1>1, <1>2, PositionsCounted
<1>5. Cardinality(C) \in 0 .. num /\ \A i \in 0 .. num - 1 : i \in C <=> i < Cardinality(C)
  <2> HIDE DEF num, C
  <2>1. QED
    BY <1>1, <1>3, PositionsCounted
<1>6. QED
  BY <1>4, <1>5 DEF Child_Index

\* The child to follow is the one that is there for the key.
LEMMA ChildIsThere ==
  ASSUME NEW n, n.num \in 0 .. Size, n.keys \in [0 .. Size - 1 -> Nat], InOrder(n), NEW k \in Nat
  PROVE  \A i \in 0 .. n.num : LiesAt(n, i, k) <=> i = Child_Index(n, k)
<1>1. /\ Child_Index(n, k) \in 0 .. n.num
      /\ \A i \in 0 .. n.num - 1 : n.keys[i] <= k <=> i < Child_Index(n, k)
  BY KeysCounted
<1>2. n.num \in Nat /\ \A i \in 0 .. n.num - 1 : n.keys[i] \in Nat
  BY Numbers
<1> DEFINE c == Child_Index(n, k)
<1> HIDE DEF c
<1>3. ASSUME NEW i \in 0 .. n.num
      PROVE  LiesAt(n, i, k) <=> i = c
  <2>1. i > 0 => (n.keys[i - 1] <= k <=> i - 1 < c)
    BY <1>1, <1>2 DEF c
  <2>2. i < n.num => (k < n.keys[i] <=> ~ (i < c))
    BY <1>1, <1>2 DEF c
  <2>3. c \in 0 .. n.num
    BY <1>1 DEF c
  <2>4. QED
    BY <1>2, <2>1, <2>2, <2>3 DEF LiesAt
<1>4. QED
  BY <1>3 DEF c

\* What is known of a node.
LEMMA SeenNode ==
  ASSUME NEW n \in SeenNodes
  PROVE  /\ n.leaf \in BOOLEAN /\ n.num \in 0 .. Size /\ n.num \in Nat /\ Size \in Nat
         /\ n.keys \in [0 .. Size - 1 -> Nat] /\ n.below \in [0 .. Size -> Int]
         /\ \A i \in 0 .. n.num - 1 : i \in 0 .. Size - 1 /\ i \in Nat /\ n.keys[i] \in Nat
<1>1. /\ n.leaf \in BOOLEAN /\ n.num \in 0 .. Size /\ n.num \in Nat /\ Size \in Nat
      /\ n.keys \in [0 .. Size - 1 -> Nat] /\ n.below \in [0 .. Size -> Int]
  BY Numbers DEF SeenNodes
<1>2. \A i \in 0 .. n.num - 1 : i \in 0 .. Size - 1 /\ i \in Nat
  BY <1>1
<1>3. QED
  BY <1>1, <1>2

\* g is n with a key put where it belongs, and a child right of it.
IsWidened(n, g, key, child) ==
  \E at \in 0 .. n.num :
    /\ \A i \in 0 .. n.num - 1 : n.keys[i] < key <=> i < at
    /\ g \in SeenNodes /\ g.leaf = n.leaf /\ g.num = n.num + 1
    /\ \A i \in 0 .. Size - 1 :
         g.keys[i] = IF i = at THEN key
                     ELSE IF at < i /\ i <= n.num THEN n.keys[i - 1] ELSE n.keys[i]
    /\ ~ n.leaf => \A i \in 0 .. n.num + 1 :
         g.below[i] = IF i = at + 1 THEN child
                      ELSE IF at + 1 < i THEN n.below[i - 1] ELSE n.below[i]

\* The keys of a node that gets one more: in order, and all but the new one its own.
LEMMA WidenedKeys ==
  ASSUME NEW n \in SeenNodes, n.num < Size, InOrder(n), NEW g, NEW key \in Nat, NEW child,
         IsWidened(n, g, key, child), \A i \in 0 .. n.num - 1 : n.keys[i] # key
  PROVE  /\ InOrder(g)
         /\ \A k : (\E i \in 0 .. g.num - 1 : g.keys[i] = k)
                     <=> k = key \/ \E i \in 0 .. n.num - 1 : n.keys[i] = k
         /\ \A i \in 0 .. Size - 1 : i >= g.num => g.keys[i] = n.keys[i]
<1>1. PICK at \in 0 .. n.num :
        /\ \A i \in 0 .. n.num - 1 : n.keys[i] < key <=> i < at
        /\ \A i \in 0 .. Size - 1 :
             g.keys[i] = IF i = at THEN key
                         ELSE IF at < i /\ i <= n.num THEN n.keys[i - 1] ELSE n.keys[i]
  BY DEF IsWidened
<1>2. g.num = n.num + 1 /\ n.num \in Nat /\ Size \in Nat
  BY Numbers DEF IsWidened, SeenNodes
<1>3. \A i \in 0 .. n.num - 1 : i \in 0 .. Size - 1 /\ i + 1 \in 0 .. Size - 1 /\ n.keys[i] \in Nat
  BY <1>2, SeenNode
<1>4. /\ \A i \in 0 .. n.num - 1 : i < at => g.keys[i] = n.keys[i]
      /\ g.keys[at] = key
      /\ \A i \in 0 .. n.num - 1 : i >= at => g.keys[i + 1] = n.keys[i]
  <2>1. \A i \in 0 .. n.num - 1 : i < at => g.keys[i] = n.keys[i]
    BY <1>1, <1>3
  <2>2. at \in 0 .. Size - 1
    BY <1>2
  <2>3. g.keys[at] = key
    BY <1>1, <2>2
  <2>4. ASSUME NEW i \in 0 .. n.num - 1, i >= at
        PROVE  g.keys[i + 1] = n.keys[i]
    <3>1. i + 1 \in 0 .. Size - 1 /\ i + 1 # at /\ at < i + 1 /\ i + 1 <= n.num /\ (i + 1) - 1 = i
      BY <1>2, <1>3, <2>4
    <3>2. QED
      BY <1>1, <3>1
  <2>5. QED
    BY <2>1, <2>3, <2>4
<1>5. InOrder(g)
  <2> SUFFICES ASSUME NEW i \in 0 .. g.num - 1, NEW j \in 0 .. g.num - 1, i < j
               PROVE  g.keys[i] < g.keys[j]
    BY DEF InOrder
  <2>1. \A a, b \in 0 .. n.num - 1 : a < b => n.keys[a] < n.keys[b]
    BY DEF InOrder
  <2>2. \A a \in 0 .. n.num - 1 : a >= at => key < n.keys[a]
    BY <1>1, <1>3
  <2>3. CASE j < at
    BY <1>2, <1>4, <2>1, <2>3
  <2>4. CASE j = at
    <3>1. i \in 0 .. n.num - 1 /\ i < at
      BY <1>2, <2>4
    <3>2. QED
      BY <1>1, <1>4, <2>4, <3>1
  <2>5. CASE j > at
    <3>1. j - 1 \in 0 .. n.num - 1 /\ j - 1 >= at /\ (j - 1) + 1 = j
      BY <1>2, <2>5
    <3>2. g.keys[j] = n.keys[j - 1]
      BY <1>4, <3>1
    <3>3. CASE i = at
      BY <1>4, <2>2, <3>1, <3>2, <3>3
    <3>4. CASE i < at
      <4>1. i \in 0 .. n.num - 1 /\ i < j - 1
        BY <1>2, <3>1, <3>4
      <4>2. QED
        BY <1>4, <2>1, <3>1, <3>2, <3>4, <4>1
    <3>5. CASE i > at
      <4>1. i - 1 \in 0 .. n.num - 1 /\ i - 1 >= at /\ (i - 1) + 1 = i /\ i - 1 < j - 1
        BY <1>2, <2>5, <3>5
      <4>2. g.keys[i] = n.keys[i - 1]
        BY <1>4, <4>1
      <4>3. QED
        BY <2>1, <3>1, <3>2, <4>1, <4>2
    <3>6. QED
      BY <3>3, <3>4, <3>5
  <2>6. QED
    BY <2>3, <2>4, <2>5
<1>6. ASSUME NEW k
      PROVE  (\E i \in 0 .. g.num - 1 : g.keys[i] = k)
               <=> k = key \/ \E i \in 0 .. n.num - 1 : n.keys[i] = k
  <2>1. ASSUME NEW i \in 0 .. g.num - 1, g.keys[i] = k
        PROVE  k = key \/ \E j \in 0 .. n.num - 1 : n.keys[j] = k
    <3>1. CASE i > at
      <4>1. i - 1 \in 0 .. n.num - 1 /\ i - 1 >= at /\ (i - 1) + 1 = i
        BY <1>2, <3>1
      <4>2. QED
        BY <1>4, <2>1, <4>1
    <3>2. CASE i < at
      <4>1. i \in 0 .. n.num - 1
        BY <1>2, <3>2
      <4>2. QED
        BY <1>4, <2>1, <3>2, <4>1
    <3>3. QED
      BY <1>4, <2>1, <3>1, <3>2
  <2>2. ASSUME k = key
        PROVE  \E i \in 0 .. g.num - 1 : g.keys[i] = k
    BY <1>2, <1>4, <2>2
  <2>3. ASSUME NEW j \in 0 .. n.num - 1, n.keys[j] = k
        PROVE  \E i \in 0 .. g.num - 1 : g.keys[i] = k
    <3>1. j \in 0 .. g.num - 1 /\ j + 1 \in 0 .. g.num - 1
      BY <1>2
    <3>2. QED
      BY <1>4, <2>3, <3>1
  <2>4. QED
    BY <2>1, <2>2, <2>3
<1>7. \A i \in 0 .. Size - 1 : i >= g.num => g.keys[i] = n.keys[i]
  <2> SUFFICES ASSUME NEW i \in 0 .. Size - 1, i >= g.num
               PROVE  g.keys[i] = n.keys[i]
    OBVIOUS
  <2>1. i # at /\ ~ (i <= n.num)
    BY <1>2
  <2>2. QED
    BY <1>1, <2>1
<1>8. QED
  BY <1>5, <1>6, <1>7

\* Where the children of a node with one more are: those left and right of the new
\* key share what was between two keys.
LEMMA WidenedChildren ==
  ASSUME NEW n \in SeenNodes, ~ n.leaf, n.num < Size, NEW g, NEW key \in Nat, NEW child,
         IsWidened(n, g, key, child),
         NEW i \in 0 .. n.num, LiesAt(n, i, key), i > 0 => n.keys[i - 1] < key
  PROVE  /\ \A j \in 0 .. i : g.below[j] = n.below[j]
         /\ g.below[i + 1] = child
         /\ \A j \in i + 1 .. n.num : g.below[j + 1] = n.below[j]
         /\ \A k \in Nat : /\ \A j \in 0 .. i - 1 : LiesAt(g, j, k) <=> LiesAt(n, j, k)
                           /\ LiesAt(g, i, k) <=> LiesAt(n, i, k) /\ k < key
                           /\ LiesAt(g, i + 1, k) <=> LiesAt(n, i, k) /\ key <= k
                           /\ \A j \in i + 1 .. n.num : LiesAt(g, j + 1, k) <=> LiesAt(n, j, k)
<1>1. PICK at \in 0 .. n.num :
        /\ \A j \in 0 .. n.num - 1 : n.keys[j] < key <=> j < at
        /\ \A j \in 0 .. Size - 1 :
             g.keys[j] = IF j = at THEN key
                         ELSE IF at < j /\ j <= n.num THEN n.keys[j - 1] ELSE n.keys[j]
        /\ \A j \in 0 .. n.num + 1 :
             g.below[j] = IF j = at + 1 THEN child
                          ELSE IF at + 1 < j THEN n.below[j - 1] ELSE n.below[j]
  BY DEF IsWidened
<1>2. g.num = n.num + 1 /\ n.num \in Nat /\ Size \in Nat
  BY Numbers DEF IsWidened, SeenNodes
<1>3. \A j \in 0 .. n.num - 1 : j \in 0 .. Size - 1 /\ j + 1 \in 0 .. Size - 1 /\ n.keys[j] \in Nat
  BY <1>2, SeenNode
<1>4. at = i
  <2>1. ~ (i < at)
    <3> SUFFICES ASSUME i < at
                 PROVE  FALSE
      OBVIOUS
    <3>1. i \in 0 .. n.num - 1
      BY <1>2
    <3>2. n.keys[i] < key /\ key < n.keys[i]
      BY <1>1, <1>2, <3>1 DEF LiesAt
    <3>3. QED
      BY <1>3, <3>1, <3>2
  <2>2. ~ (at < i)
    <3> SUFFICES ASSUME at < i
                 PROVE  FALSE
      OBVIOUS
    <3>1. i - 1 \in 0 .. n.num - 1 /\ n.keys[i - 1] < key
      BY <1>2
    <3>2. QED
      BY <1>1, <3>1
  <2>3. QED
    BY <2>1, <2>2
<1>5. \A j \in 0 .. i : g.below[j] = n.below[j]
  BY <1>1, <1>2, <1>4
<1>6. g.below[i + 1] = child
  BY <1>1, <1>2, <1>4
<1>7. \A j \in i + 1 .. n.num : g.below[j + 1] = n.below[j]
  <2> TAKE j \in i + 1 .. n.num
  <2>1. j + 1 \in 0 .. n.num + 1 /\ j + 1 # i + 1 /\ i + 1 < j + 1 /\ (j + 1) - 1 = j
    BY <1>2
  <2>2. QED
    BY <1>1, <1>4, <2>1
<1>8. /\ \A j \in 0 .. n.num - 1 : j < i => g.keys[j] = n.keys[j]
      /\ g.keys[i] = key
      /\ \A j \in 0 .. n.num - 1 : j >= i => g.keys[j + 1] = n.keys[j]
  <2>1. \A j \in 0 .. n.num - 1 : j < i => g.keys[j] = n.keys[j]
    BY <1>1, <1>3, <1>4
  <2>2. i \in 0 .. Size - 1
    BY <1>2
  <2>3. g.keys[i] = key
    BY <1>1, <1>4, <2>2
  <2>4. ASSUME NEW j \in 0 .. n.num - 1, j >= i
        PROVE  g.keys[j + 1] = n.keys[j]
    <3>1. j + 1 \in 0 .. Size - 1 /\ j + 1 # i /\ i < j + 1 /\ j + 1 <= n.num /\ (j + 1) - 1 = j
      BY <1>2, <1>3, <2>4
    <3>2. QED
      BY <1>1, <1>4, <3>1
  <2>5. QED
    BY <2>1, <2>3, <2>4
<1>9. ASSUME NEW k \in Nat
      PROVE  /\ \A j \in 0 .. i - 1 : LiesAt(g, j, k) <=> LiesAt(n, j, k)
             /\ LiesAt(g, i, k) <=> LiesAt(n, i, k) /\ k < key
             /\ LiesAt(g, i + 1, k) <=> LiesAt(n, i, k) /\ key <= k
             /\ \A j \in i + 1 .. n.num : LiesAt(g, j + 1, k) <=> LiesAt(n, j, k)
  <2>1. ASSUME NEW j \in 0 .. i - 1
        PROVE  LiesAt(g, j, k) <=> LiesAt(n, j, k)
    <3>1. j \in 0 .. n.num - 1 /\ j < i /\ (j > 0 => j - 1 \in 0 .. n.num - 1)
      BY <1>2
    <3>2. g.keys[j] = n.keys[j] /\ (j > 0 => g.keys[j - 1] = n.keys[j - 1])
      BY <1>8, <3>1
    <3>3. j < g.num /\ j < n.num
      BY <1>2, <3>1
    <3>4. QED
      BY <3>2, <3>3 DEF LiesAt
  <2>2. i > 0 => i - 1 \in 0 .. n.num - 1 /\ g.keys[i - 1] = n.keys[i - 1] /\ n.keys[i - 1] < key /\ n.keys[i - 1] \in Nat
    <3>1. i > 0 => i - 1 \in 0 .. n.num - 1 /\ i - 1 < i
      BY <1>2
    <3>2. QED
      BY <1>3, <1>8, <3>1
  <2>3. i < n.num => g.keys[i + 1] = n.keys[i] /\ key < n.keys[i] /\ n.keys[i] \in Nat
    <3>1. i < n.num => i \in 0 .. n.num - 1
      BY <1>2
    <3>2. QED
      BY <1>3, <1>8, <3>1 DEF LiesAt
  <2>4. LiesAt(g, i, k) <=> (i > 0 => n.keys[i - 1] <= k) /\ k < key
    BY <1>2, <1>8, <2>2 DEF LiesAt
  <2>5. LiesAt(g, i + 1, k) <=> key <= k /\ (i < n.num => k < n.keys[i])
    <3>1. i + 1 > 0 /\ (i + 1) - 1 = i /\ (i + 1 < g.num <=> i < n.num)
      BY <1>2
    <3>2. QED
      BY <1>8, <2>3, <3>1 DEF LiesAt
  <2>6. LiesAt(n, i, k) <=> (i > 0 => n.keys[i - 1] <= k) /\ (i < n.num => k < n.keys[i])
    BY DEF LiesAt
  <2>7. LiesAt(g, i, k) <=> LiesAt(n, i, k) /\ k < key
    BY <2>3, <2>4, <2>6
  <2>8. LiesAt(g, i + 1, k) <=> LiesAt(n, i, k) /\ key <= k
    BY <2>2, <2>5, <2>6
  <2>9. ASSUME NEW j \in i + 1 .. n.num
        PROVE  LiesAt(g, j + 1, k) <=> LiesAt(n, j, k)
    <3>1. j \in Nat /\ j > 0 /\ j + 1 > 0 /\ (j + 1) - 1 = j /\ (j + 1 < g.num <=> j < n.num) /\ j - 1 \in 0 .. n.num - 1
          /\ j - 1 >= i /\ (j - 1) + 1 = j /\ (j < n.num => j \in 0 .. n.num - 1) /\ j >= i
      BY <1>2
    <3>2. g.keys[j] = n.keys[j - 1] /\ (j < n.num => g.keys[j + 1] = n.keys[j])
      BY <1>8, <3>1
    <3>3. QED
      BY <3>1, <3>2 DEF LiesAt
  <2>10. QED
    BY <2>1, <2>7, <2>8, <2>9
<1>10. QED
  BY <1>5, <1>6, <1>7, <1>9

-----------------------------------------------------------------------------
\* What changes of a tree when a node does

\* u is t with another node at x.
IsChanged(t, u, x, g) ==
  /\ u.nodes = t.nodes /\ u.root = t.root /\ u.range = t.range /\ u.level = t.level
  /\ u.loc = t.loc /\ u.node = [t.node EXCEPT ![x] = g]

\* A key put in the leaf that is there for it.
LEMMA LeafGrows ==
  ASSUME NEW t, GoodTree(t), NEW x \in t.nodes, t.node[x].leaf, t.node[x].num < Size,
         NEW key \in t.range[x], \A i \in 0 .. t.node[x].num - 1 : t.node[x].keys[i] # key,
         NEW g, IsWidened(t.node[x], g, key, 0),
         NEW u, IsChanged(t, u, x, g), u.held = t.held \cup {key}
  PROVE  GoodTree(u)
<1> DEFINE n == t.node[x]
<1>1. TreeShape(t) /\ Apart(t) /\ Topped(t) /\ Branches(t) /\ \A z \in t.nodes : Belongs(t, z)
  BY DEF GoodTree
<1>2. /\ n \in SeenNodes /\ g \in SeenNodes /\ g.leaf = n.leaf /\ g.num = n.num + 1
      /\ key \in Keys /\ key \in Nat /\ InOrder(n) /\ n.num \in Nat
  BY <1>1, KeysAssumption, SeenNode DEF TreeShape, IsWidened, Belongs
<1>3. /\ u.nodes = t.nodes /\ u.root = t.root /\ u.range = t.range /\ u.level = t.level
      /\ u.loc = t.loc /\ u.node \in [t.nodes -> SeenNodes]
      /\ u.node[x] = g /\ \A z \in t.nodes : z # x => u.node[z] = t.node[z]
  BY <1>1, <1>2 DEF IsChanged, TreeShape
<1>4. TreeShape(u)
  BY <1>1, <1>2, <1>3 DEF TreeShape
<1>5. Apart(u) /\ Topped(u)
  BY <1>1, <1>3 DEF Apart, Topped
<1>6. \A z \in t.nodes : u.node[z].leaf = t.node[z].leaf
  BY <1>2, <1>3
<1>7. \A z, y \in t.nodes : \A i : z # x => (IsChild(u, z, i, y) <=> IsChild(t, z, i, y))
  BY <1>3 DEF IsChild
<1>8. Branches(u)
  <2>1. \A z \in t.nodes : ~ u.node[z].leaf => z # x /\ u.node[z].num = t.node[z].num
    BY <1>3, <1>6
  <2>2. ASSUME NEW z \in u.nodes, ~ u.node[z].leaf, NEW i \in 0 .. u.node[z].num
        PROVE  \E y \in u.nodes : IsChild(u, z, i, y)
    <3>1. z \in t.nodes /\ ~ t.node[z].leaf /\ i \in 0 .. t.node[z].num /\ z # x
      BY <1>3, <1>6, <2>1, <2>2
    <3>2. PICK y \in t.nodes : IsChild(t, z, i, y)
      BY <1>1, <3>1 DEF Branches
    <3>3. QED
      BY <1>3, <1>7, <3>1, <3>2
  <2>3. ASSUME NEW y \in u.nodes \ {u.root}
        PROVE  \E z \in u.nodes : ~ u.node[z].leaf /\ \E i \in 0 .. u.node[z].num : IsChild(u, z, i, y)
    <3>1. PICK z \in t.nodes : ~ t.node[z].leaf /\ \E i \in 0 .. t.node[z].num : IsChild(t, z, i, y)
      BY <1>1, <1>3, <2>3 DEF Branches
    <3>2. z # x /\ u.node[z] = t.node[z]
      BY <1>3, <3>1
    <3>3. QED
      BY <1>3, <1>7, <3>1, <3>2
  <2>4. QED
    BY <2>2, <2>3 DEF Branches
<1>9. /\ InOrder(g)
      /\ \A k : (\E i \in 0 .. g.num - 1 : g.keys[i] = k)
                  <=> k = key \/ \E i \in 0 .. n.num - 1 : n.keys[i] = k
      /\ \A i \in 0 .. Size - 1 : i >= g.num => g.keys[i] = n.keys[i]
  <2>1. n.num < Size /\ IsWidened(n, g, key, 0) /\ \A i \in 0 .. n.num - 1 : n.keys[i] # key
    OBVIOUS
  <2> HIDE DEF n
  <2>2. QED
    BY <1>2, <2>1, WidenedKeys, SMTT(30)
<1>10. Belongs(u, x)
  <2>1. LeafBelongs(t, x) /\ t.level[x] = 0 /\ \A i \in 0 .. n.num - 1 : n.keys[i] \in t.range[x]
    BY <1>1 DEF Belongs
  <2>2. \A i \in 0 .. g.num - 1 : g.keys[i] \in t.range[x]
    <3> SUFFICES ASSUME NEW i \in 0 .. g.num - 1
                 PROVE  g.keys[i] \in t.range[x]
      OBVIOUS
    <3>1. g.keys[i] = key \/ \E j \in 0 .. n.num - 1 : n.keys[j] = g.keys[i]
      BY <1>9
    <3>2. QED
      BY <2>1, <3>1
  <2>3. LeafBelongs(u, x)
    <3>1. \A i \in 0 .. Size - 1 : i >= g.num => g.keys[i] = 0 \/ g.keys[i] \notin t.range[x]
      <4> SUFFICES ASSUME NEW i \in 0 .. Size - 1, i >= g.num
                   PROVE  g.keys[i] = 0 \/ g.keys[i] \notin t.range[x]
        OBVIOUS
      <4>1. i >= n.num /\ g.keys[i] = n.keys[i]
        BY <1>2, <1>9
      <4>2. QED
        BY <2>1, <4>1 DEF LeafBelongs
    <3>2. \A k \in t.range[x] : k \in t.held \cup {key} <=> \E i \in 0 .. g.num - 1 : g.keys[i] = k
      <4>1. \A k \in t.range[x] : k \in t.held <=> \E i \in 0 .. n.num - 1 : n.keys[i] = k
        BY <2>1 DEF LeafBelongs
      <4> HIDE DEF n
      <4>2. QED
        BY <1>9, <4>1
    <3>3. QED
      BY <1>3, <3>1, <3>2 DEF LeafBelongs
  <2>4. g.num # 0 /\ g.leaf
    BY <1>2
  <2>5. QED
    BY <1>3, <1>9, <2>1, <2>2, <2>3, <2>4 DEF Belongs
<1>11. ASSUME NEW z \in t.nodes, z # x
       PROVE  Belongs(u, z)
  <2>1. Belongs(t, z) /\ Belongs(t, x)
    BY <1>1
  <2>2. t.node[z].leaf => LeafBelongs(u, z)
    <3> SUFFICES ASSUME t.node[z].leaf
                 PROVE  LeafBelongs(u, z)
      OBVIOUS
    <3>1. t.level[z] = 0 /\ t.level[x] = 0
      BY <2>1 DEF Belongs
    <3>2. key \notin t.range[z]
      BY <1>1, <1>11, <3>1 DEF Apart
    <3>3. QED
      BY <1>3, <1>11, <2>1, <3>2 DEF Belongs, LeafBelongs
  <2>3. QED
    BY <1>3, <1>11, <2>1, <2>2 DEF Belongs
<1>12. QED
  BY <1>3, <1>4, <1>5, <1>8, <1>10, <1>11 DEF GoodTree

\* A root without keys put above the old one.
IsTopped(t, u, d) ==
  /\ d.top \in Nat \ t.nodes /\ d.at \in Int /\ \A z \in t.nodes : t.loc[z] # d.at
  /\ d.node \in SeenNodes /\ ~ d.node.leaf /\ d.node.num = 0 /\ d.node.below[0] = t.loc[t.root]
  /\ u.nodes = t.nodes \cup {d.top} /\ u.root = d.top /\ u.held = t.held
  /\ u.range \in [u.nodes -> SUBSET Keys] /\ u.range[d.top] = Keys
  /\ u.level \in [u.nodes -> Nat] /\ u.level[d.top] = t.level[t.root] + 1
  /\ u.loc \in [u.nodes -> Int] /\ u.loc[d.top] = d.at
  /\ u.node \in [u.nodes -> SeenNodes] /\ u.node[d.top] = d.node
  /\ \A z \in t.nodes : /\ u.range[z] = t.range[z] /\ u.level[z] = t.level[z]
                        /\ u.loc[z] = t.loc[z] /\ u.node[z] = t.node[z]

\* The root without keys is there for all keys, and is one level up.
LEMMA RootCovered ==
  ASSUME NEW t, GoodTree(t), t.node[t.root].num # 0, NEW u, NEW d, IsTopped(t, u, d)
  PROVE  GoodTree(u) /\ IsChild(u, d.top, 0, t.root) /\ u.node[d.top] = d.node
<1> DEFINE top == d.top
<1>1. TreeShape(t) /\ Apart(t) /\ Topped(t) /\ Branches(t) /\ \A z \in t.nodes : Belongs(t, z)
  BY DEF GoodTree
<1>2. /\ top \in Nat /\ top \notin t.nodes /\ d.at \in Int /\ \A z \in t.nodes : t.loc[z] # d.at
      /\ d.node \in SeenNodes /\ ~ d.node.leaf /\ d.node.num = 0 /\ d.node.below[0] = t.loc[t.root]
      /\ u.nodes = t.nodes \cup {top} /\ u.root = top /\ u.held = t.held
  BY DEF IsTopped
<1>3. /\ u.range \in [u.nodes -> SUBSET Keys] /\ u.range[top] = Keys
      /\ \A z \in t.nodes : u.range[z] = t.range[z]
  BY DEF IsTopped
<1>4. /\ u.level \in [u.nodes -> Nat] /\ u.level[top] = t.level[t.root] + 1
      /\ \A z \in t.nodes : u.level[z] = t.level[z]
  BY DEF IsTopped
<1>5. /\ u.loc \in [u.nodes -> Int] /\ u.loc[top] = d.at
      /\ \A z \in t.nodes : u.loc[z] = t.loc[z]
  BY DEF IsTopped
<1>6. /\ u.node \in [u.nodes -> SeenNodes] /\ u.node[top] = d.node
      /\ \A z \in t.nodes : u.node[z] = t.node[z]
  BY DEF IsTopped
<1>7. /\ t.nodes \subseteq Nat /\ IsFiniteSet(t.nodes) /\ t.root \in t.nodes /\ t.held \subseteq Keys
      /\ t.range \in [t.nodes -> SUBSET Keys] /\ t.level \in [t.nodes -> Nat]
  BY <1>1 DEF TreeShape
<1>8. /\ IsFiniteSet(u.nodes) /\ Cardinality(u.nodes) = Cardinality(t.nodes) + 1
      /\ Cardinality(t.nodes) \in Nat
  <2>1. Cardinality(t.nodes) \in Nat
    BY <1>7, FS_CardinalityType
  <2>2. IsFiniteSet(t.nodes \cup {top}) /\ Cardinality(t.nodes \cup {top}) = Cardinality(t.nodes) + 1
    BY <1>2, <1>7, FS_AddElement
  <2>3. QED
    BY <1>2, <2>1, <2>2
<1>9. TreeShape(u)
  BY <1>2, <1>3, <1>4, <1>5, <1>6, <1>7, <1>8 DEF TreeShape
<1>10. \A z \in t.nodes : t.level[z] <= t.level[t.root] /\ t.level[z] \in Nat /\ t.level[z] # u.level[top]
  BY <1>1, <1>4, <1>7 DEF Topped
<1>11. Apart(u)
  BY <1>1, <1>2, <1>3, <1>4, <1>5, <1>10 DEF Apart
<1>12. Topped(u)
  <2>1. t.level[t.root] < Cardinality(t.nodes)
    BY <1>1 DEF Topped
  <2>2. QED
    BY <1>2, <1>3, <1>4, <1>7, <1>8, <1>10, <2>1 DEF Topped
<1>13. \A z, y \in t.nodes : \A i : IsChild(u, z, i, y) <=> IsChild(t, z, i, y)
  BY <1>2, <1>3, <1>4, <1>5, <1>6 DEF IsChild
<1>14. IsChild(u, top, 0, t.root)
  <2>1. t.range[t.root] = Keys
    BY <1>1 DEF Topped
  <2>2. \A k : LiesAt(d.node, 0, k)
    BY <1>2 DEF LiesAt
  <2>3. QED
    BY <1>2, <1>3, <1>4, <1>5, <1>6, <1>7, <2>1, <2>2 DEF IsChild
<1>15. Branches(u)
  <2>1. ASSUME NEW z \in u.nodes, ~ u.node[z].leaf, NEW i \in 0 .. u.node[z].num
        PROVE  \E y \in u.nodes : IsChild(u, z, i, y)
    <3>1. CASE z = top
      <4>1. i = 0
        BY <1>2, <1>6, <2>1, <3>1
      <4>2. QED
        BY <1>2, <1>7, <1>14, <3>1, <4>1
    <3>2. CASE z \in t.nodes
      <4>1. PICK y \in t.nodes : IsChild(t, z, i, y)
        BY <1>1, <1>6, <2>1, <3>2 DEF Branches
      <4>2. QED
        BY <1>2, <1>13, <3>2, <4>1
    <3>3. QED
      BY <1>2, <3>1, <3>2
  <2>2. ASSUME NEW y \in u.nodes \ {u.root}
        PROVE  \E z \in u.nodes : ~ u.node[z].leaf /\ \E i \in 0 .. u.node[z].num : IsChild(u, z, i, y)
    <3>1. y \in t.nodes
      BY <1>2, <2>2
    <3>2. CASE y = t.root
      <4>1. 0 \in 0 .. u.node[top].num /\ top \in u.nodes /\ ~ u.node[top].leaf
        BY <1>2, <1>6
      <4>2. QED
        BY <1>14, <3>2, <4>1
    <3>3. CASE y # t.root
      <4>1. PICK z \in t.nodes : ~ t.node[z].leaf /\ \E i \in 0 .. t.node[z].num : IsChild(t, z, i, y)
        BY <1>1, <3>1, <3>3 DEF Branches
      <4>2. z \in u.nodes /\ u.node[z] = t.node[z]
        BY <1>2, <1>6
      <4>3. QED
        BY <1>13, <3>1, <4>1, <4>2
    <3>4. QED
      BY <3>2, <3>3
  <2>3. QED
    BY <2>1, <2>2 DEF Branches
<1>16. ASSUME NEW z \in u.nodes
       PROVE  Belongs(u, z)
  <2>1. CASE z = top
    <3>1. \A i \in 0 .. d.node.num - 1 : FALSE
      BY <1>2
    <3>2. u.level[top] # 0
      BY <1>4, <1>7
    <3>3. QED
      BY <1>2, <1>6, <2>1, <3>1, <3>2 DEF Belongs, InOrder
  <2>2. CASE z \in t.nodes
    <3>1. Belongs(t, z)
      BY <1>1, <2>2
    <3>2. t.node[z].num # 0
      BY <2>2, <3>1 DEF Belongs
    <3>3. QED
      BY <1>2, <1>3, <1>4, <1>6, <2>2, <3>1, <3>2 DEF Belongs, LeafBelongs
  <2>3. QED
    BY <1>2, <2>1, <2>2
<1>17. QED
  BY <1>6, <1>9, <1>11, <1>12, <1>14, <1>15, <1>16 DEF GoodTree

\* The two parts of a full node, and the key between them.
IsLowerPart(n, l) ==
  /\ l \in SeenNodes /\ l.leaf = n.leaf /\ l.keys = n.keys
  /\ l.num = IF n.leaf THEN Half + 1 ELSE Half
  /\ ~ n.leaf => \A i \in 0 .. Half : l.below[i] = n.below[i]
IsUpperPart(n, r) ==
  /\ r \in SeenNodes /\ r.leaf = n.leaf /\ r.num = Size - Half - 1
  /\ \A i \in 0 .. Size - 1 :
       r.keys[i] = IF i < Size - Half - 1 THEN n.keys[i + Half + 1] ELSE 0
  /\ ~ n.leaf => \A i \in 0 .. Size - Half - 1 : r.below[i] = n.below[i + Half + 1]
Middle(n) == n.keys[IF n.leaf THEN Half + 1 ELSE Half]

\* The keys of the parts.
LEMMA PartsKeys ==
  ASSUME NEW n \in SeenNodes, n.num = Size, InOrder(n),
         NEW l, IsLowerPart(n, l), NEW r, IsUpperPart(n, r)
  PROVE  LET mid == Middle(n) IN
         /\ \E m \in 1 .. n.num - 1 : mid = n.keys[m] /\ n.keys[0] < mid
         /\ InOrder(l) /\ InOrder(r) /\ l.num # 0 /\ r.num # 0
         /\ \A i \in 0 .. l.num - 1 : i \in 0 .. n.num - 1 /\ l.keys[i] = n.keys[i] /\ n.keys[i] < mid
         /\ \A i \in 0 .. r.num - 1 : /\ i + Half + 1 \in 0 .. n.num - 1 /\ mid <= r.keys[i]
                                      /\ r.keys[i] = n.keys[i + Half + 1]
         /\ n.leaf => \A i \in 0 .. n.num - 1 :
              IF i < l.num THEN i \in 0 .. l.num - 1
              ELSE /\ mid <= n.keys[i]
                   /\ i - Half - 1 \in 0 .. r.num - 1 /\ r.keys[i - Half - 1] = n.keys[i]
         /\ \A i \in 0 .. Size - 1 : i >= r.num => r.keys[i] = 0
<1> DEFINE m == IF n.leaf THEN Half + 1 ELSE Half
           mid == Middle(n)
           count == Size - Half - 1
<1>1. /\ Half \in Nat /\ Half >= 1 /\ Half + 1 < Size /\ count \in Nat /\ count >= 1 /\ count < Size
      /\ Size \in Nat /\ count + Half + 1 = Size /\ n.num = Size
  BY Halves, Numbers
<1>2. n.leaf \in BOOLEAN /\ \A i \in 0 .. Size - 1 : n.keys[i] \in Nat
  BY SeenNode
<1>3. \A i, j \in 0 .. Size - 1 : i < j => n.keys[i] < n.keys[j]
  BY DEF InOrder
<1>4. /\ l.leaf = n.leaf /\ l.keys = n.keys /\ l.num = m /\ r.num = count
      /\ \A i \in 0 .. Size - 1 : r.keys[i] = IF i < count THEN n.keys[i + Half + 1] ELSE 0
  BY DEF IsLowerPart, IsUpperPart
<1>5. m \in 1 .. Size - 1 /\ m <= Half + 1 /\ m >= Half /\ mid = n.keys[m]
  BY <1>1, <1>2 DEF Middle
<1> HIDE DEF m, mid, count
<1>6. n.keys[0] < mid
  BY <1>1, <1>3, <1>5
<1>7. InOrder(l)
  <2> SUFFICES ASSUME NEW i \in 0 .. l.num - 1, NEW j \in 0 .. l.num - 1, i < j
               PROVE  l.keys[i] < l.keys[j]
    BY DEF InOrder
  <2>1. i \in 0 .. Size - 1 /\ j \in 0 .. Size - 1
    BY <1>1, <1>4, <1>5
  <2>2. QED
    BY <1>3, <1>4, <2>1
<1>8. \A i \in 0 .. count - 1 :
        i + Half + 1 \in 0 .. Size - 1 /\ r.keys[i] = n.keys[i + Half + 1] /\ i + Half + 1 >= m
  <2> TAKE i \in 0 .. count - 1
  <2>1. i \in 0 .. Size - 1 /\ i < count /\ i + Half + 1 \in 0 .. Size - 1 /\ i + Half + 1 >= m
    BY <1>1, <1>5
  <2>2. QED
    BY <1>4, <2>1
<1>9. InOrder(r)
  <2> SUFFICES ASSUME NEW i \in 0 .. r.num - 1, NEW j \in 0 .. r.num - 1, i < j
               PROVE  r.keys[i] < r.keys[j]
    BY DEF InOrder
  <2>1. i \in 0 .. count - 1 /\ j \in 0 .. count - 1 /\ i + Half + 1 < j + Half + 1
    BY <1>1, <1>4
  <2>2. QED
    BY <1>3, <1>8, <2>1
<1>10. \A i \in 0 .. Size - 1 : i >= m => mid <= n.keys[i]
  <2> TAKE i \in 0 .. Size - 1
  <2>1. m < i => n.keys[m] < n.keys[i]
    BY <1>3, <1>5
  <2>2. m \in 0 .. Size - 1
    BY <1>5
  <2>3. n.keys[m] \in Nat /\ n.keys[i] \in Nat
    BY <1>2, <2>2
  <2>4. QED
    BY <1>1, <1>5, <2>1, <2>3
<1>11. \A i \in 0 .. l.num - 1 : i \in 0 .. n.num - 1 /\ l.keys[i] = n.keys[i] /\ n.keys[i] < mid
  <2> TAKE i \in 0 .. l.num - 1
  <2>1. i \in 0 .. Size - 1 /\ m \in 0 .. Size - 1 /\ i < m
    BY <1>1, <1>4, <1>5
  <2>2. QED
    BY <1>1, <1>3, <1>4, <1>5, <2>1
<1>12. \A i \in 0 .. r.num - 1 : /\ i + Half + 1 \in 0 .. n.num - 1 /\ mid <= r.keys[i]
                                 /\ r.keys[i] = n.keys[i + Half + 1]
  BY <1>1, <1>4, <1>8, <1>10
<1>13. ASSUME n.leaf, NEW i \in 0 .. n.num - 1
       PROVE  IF i < l.num THEN i \in 0 .. l.num - 1
              ELSE /\ mid <= n.keys[i]
                   /\ i - Half - 1 \in 0 .. r.num - 1 /\ r.keys[i - Half - 1] = n.keys[i]
  <2>1. m = Half + 1
    BY <1>13 DEF m
  <2>2. CASE i < l.num
    BY <1>1, <1>4, <1>5, <2>2
  <2>3. CASE ~ (i < l.num)
    <3>1. i - Half - 1 \in 0 .. count - 1 /\ (i - Half - 1) + Half + 1 = i /\ i \in 0 .. Size - 1 /\ i >= m
      BY <1>1, <1>4, <2>1, <2>3
    <3>2. QED
      BY <1>4, <1>8, <1>10, <2>3, <3>1
  <2>4. QED
    BY <2>2, <2>3
<1>14. \A i \in 0 .. Size - 1 : i >= r.num => r.keys[i] = 0
  BY <1>1, <1>4
<1>15. l.num # 0 /\ r.num # 0
  BY <1>1, <1>4, <1>5
<1>16. \E j \in 1 .. n.num - 1 : mid = n.keys[j] /\ n.keys[0] < mid
  BY <1>1, <1>5, <1>6
<1>17. QED
  BY <1>7, <1>9, <1>11, <1>12, <1>13, <1>14, <1>15, <1>16 DEF mid

\* The children of the parts of an inner node are there for what they were.
LEMMA PartsChildren ==
  ASSUME NEW n \in SeenNodes, n.num = Size, ~ n.leaf, InOrder(n),
         NEW l, IsLowerPart(n, l), NEW r, IsUpperPart(n, r)
  PROVE  LET mid == Middle(n) IN
         \A k \in Nat :
           /\ \A j \in 0 .. Half : LiesAt(n, j, k) <=> LiesAt(l, j, k) /\ k < mid
           /\ \A j \in 0 .. Size - Half - 1 : LiesAt(n, j + Half + 1, k) <=> LiesAt(r, j, k) /\ mid <= k
<1> DEFINE mid == Middle(n)
           count == Size - Half - 1
<1>1. /\ Half \in Nat /\ Half >= 1 /\ Half + 1 < Size /\ count \in Nat /\ count >= 1 /\ count < Size
      /\ Size \in Nat /\ count + Half + 1 = Size /\ n.num = Size
  BY Halves, Numbers
<1>2. \A i \in 0 .. Size - 1 : n.keys[i] \in Nat
  BY SeenNode
<1>3. \A i, j \in 0 .. Size - 1 : i < j => n.keys[i] < n.keys[j]
  BY DEF InOrder
<1>4. /\ l.keys = n.keys /\ l.num = Half /\ r.num = count
      /\ \A i \in 0 .. Size - 1 : r.keys[i] = IF i < count THEN n.keys[i + Half + 1] ELSE 0
  BY DEF IsLowerPart, IsUpperPart
<1>5. mid = n.keys[Half] /\ mid \in Nat /\ Half \in 0 .. Size - 1
  BY <1>1, <1>2 DEF Middle
<1> HIDE DEF mid, count
<1>6. SUFFICES ASSUME NEW k \in Nat
               PROVE  /\ \A j \in 0 .. Half : LiesAt(n, j, k) <=> LiesAt(l, j, k) /\ k < mid
                      /\ \A j \in 0 .. count : LiesAt(n, j + Half + 1, k) <=> LiesAt(r, j, k) /\ mid <= k
  BY DEF mid, count
<1>7. ASSUME NEW j \in 0 .. Half
      PROVE  LiesAt(n, j, k) <=> LiesAt(l, j, k) /\ k < mid
  <2>1. j \in 0 .. Size - 1 /\ j < n.num /\ n.keys[j] \in Nat
    BY <1>1, <1>2
  <2>2. CASE j < Half
    <3>1. n.keys[j] < mid
      BY <1>3, <1>5, <2>1, <2>2
    <3>2. QED
      BY <1>4, <1>5, <2>1, <2>2, <3>1 DEF LiesAt
  <2>3. CASE j = Half
    <3>1. ~ (j < l.num)
      BY <1>4, <2>3, <1>1
    <3>2. QED
      BY <1>4, <1>5, <2>1, <2>3, <3>1 DEF LiesAt
  <2>4. QED
    BY <1>1, <2>2, <2>3
<1>8. ASSUME NEW j \in 0 .. count
      PROVE  LiesAt(n, j + Half + 1, k) <=> LiesAt(r, j, k) /\ mid <= k
  <2> DEFINE q == j + Half + 1
  <2>1. q > 0 /\ q - 1 = j + Half /\ q - 1 \in 0 .. Size - 1 /\ (q < n.num <=> j < count)
    BY <1>1
  <2>2. j < count => j \in 0 .. Size - 1 /\ r.keys[j] = n.keys[q]
    BY <1>1, <1>4
  <2>3. LiesAt(n, q, k) <=> n.keys[j + Half] <= k /\ (j < count => k < n.keys[q])
    BY <2>1 DEF LiesAt
  <2>4. LiesAt(r, j, k) <=> (j > 0 => r.keys[j - 1] <= k) /\ (j < count => k < n.keys[q])
    BY <1>4, <2>2 DEF LiesAt
  <2> HIDE DEF q
  <2>5. CASE j = 0
    <3>1. j + Half = Half /\ ~ (j > 0)
      BY <1>1, <2>5
    <3>2. QED
      BY <1>5, <2>3, <2>4, <3>1 DEF q
  <2>6. CASE j > 0
    <3>1. j - 1 \in 0 .. Size - 1 /\ j - 1 < count /\ (j - 1) + Half + 1 = j + Half /\ j + Half \in 0 .. Size - 1
          /\ Half < j + Half
      BY <1>1, <2>6
    <3>2. r.keys[j - 1] = n.keys[j + Half]
      BY <1>4, <3>1
    <3>3. mid < n.keys[j + Half] /\ n.keys[j + Half] \in Nat
      BY <1>2, <1>3, <1>5, <3>1
    <3>4. QED
      BY <1>5, <2>3, <2>4, <2>6, <3>2, <3>3 DEF q
  <2>7. QED
    BY <1>1, <2>5, <2>6
<1>9. QED
  BY <1>7, <1>8

\* Node d.x, child d.i of d.p, is cut in two: d.l stays, and d.r is the new node d.y
\* at the place d.at; d.g is the parent with one key and child more.
IsCut(t, d) ==
  /\ d.x \in t.nodes /\ d.p \in t.nodes /\ d.y \in Nat \ t.nodes
  /\ d.at \in Int /\ \A z \in t.nodes : t.loc[z] # d.at
  /\ ~ t.node[d.p].leaf /\ d.i \in 0 .. t.node[d.p].num /\ IsChild(t, d.p, d.i, d.x)
  /\ t.node[d.x].num = Size /\ t.node[d.p].num < Size
  /\ d.mid = Middle(t.node[d.x])
  /\ IsLowerPart(t.node[d.x], d.l) /\ IsUpperPart(t.node[d.x], d.r)
  /\ IsWidened(t.node[d.p], d.g, d.mid, d.at)

\* What the tree is then.
IsCutTree(t, u, d) ==
  /\ u.nodes = t.nodes \cup {d.y} /\ u.root = t.root /\ u.held = t.held
  /\ u.range \in [u.nodes -> SUBSET Keys] /\ u.level \in [u.nodes -> Nat]
  /\ u.loc \in [u.nodes -> Int] /\ u.node \in [u.nodes -> SeenNodes]
  /\ u.range[d.x] = {k \in t.range[d.x] : k < d.mid}
  /\ u.range[d.y] = {k \in t.range[d.x] : d.mid <= k}
  /\ u.level[d.y] = t.level[d.x] /\ u.loc[d.y] = d.at
  /\ u.node[d.x] = d.l /\ u.node[d.y] = d.r /\ u.node[d.p] = d.g
  /\ \A z \in t.nodes : /\ u.level[z] = t.level[z] /\ u.loc[z] = t.loc[z]
                        /\ z # d.x => u.range[z] = t.range[z]
                        /\ z \notin {d.x, d.p} => u.node[z] = t.node[z]

\* A child is there for some key, and is the child of one node only.
LEMMA OneParent ==
  ASSUME NEW t, GoodTree(t), NEW x \in t.nodes, NEW i \in 0 .. t.node[x].num,
         NEW y, IsChild(t, x, i, y), NEW z \in t.nodes
  PROVE  /\ y # t.root /\ y # x
         /\ t.range[y] \in SUBSET Nat /\ t.range[y] # {}
         /\ \A j \in 0 .. t.node[z].num : IsChild(t, z, j, y) => z = x /\ j = i
<1>1. TreeShape(t) /\ Apart(t) /\ Topped(t) /\ \A w \in t.nodes : Belongs(t, w)
  BY DEF GoodTree
<1>2. /\ y \in t.nodes /\ t.level[y] + 1 = t.level[x] /\ t.root \in t.nodes
      /\ \A w \in t.nodes : t.level[w] \in Nat /\ t.node[w] \in SeenNodes /\ t.range[w] \in SUBSET Nat
  BY <1>1, KeysAssumption DEF IsChild, TreeShape
<1>3. y # t.root /\ y # x
  BY <1>1, <1>2 DEF Topped
<1>4. t.node[y].num # 0 /\ \A j \in 0 .. t.node[y].num - 1 : t.node[y].keys[j] \in t.range[y]
  BY <1>1, <1>2, <1>3 DEF Belongs
<1>5. 0 \in 0 .. t.node[y].num - 1
  BY <1>2, <1>4, SeenNode
<1>6. PICK k : k \in t.range[y]
  BY <1>4, <1>5
<1>7. k \in t.range[x] /\ LiesAt(t.node[x], i, k) /\ k \in Nat
  BY <1>2, <1>6 DEF IsChild
<1>8. ASSUME NEW j \in 0 .. t.node[z].num, IsChild(t, z, j, y)
      PROVE  z = x /\ j = i
  <2>1. k \in t.range[z] /\ LiesAt(t.node[z], j, k) /\ t.level[y] + 1 = t.level[z]
    BY <1>6, <1>8 DEF IsChild
  <2>2. z = x
    BY <1>1, <1>2, <1>7, <2>1 DEF Apart
  <2>3. InOrder(t.node[x])
    BY <1>1 DEF Belongs
  <2>4. i = Child_Index(t.node[x], k) /\ j = Child_Index(t.node[x], k)
    BY <1>2, <1>7, <2>1, <2>2, <2>3, ChildIsThere, SeenNode
  <2>5. QED
    BY <2>2, <2>4
<1>9. QED
  BY <1>2, <1>3, <1>6, <1>8

\* Which nodes are children of which, once one is cut in two.
CutChildren(t, u, d) ==
  /\ IsChild(u, d.p, d.i, d.x) /\ IsChild(u, d.p, d.i + 1, d.y)
  /\ \A c \in t.nodes \ {d.x} :
       /\ \A z \in t.nodes \ {d.x, d.p} : \A j : IsChild(u, z, j, c) <=> IsChild(t, z, j, c)
       /\ \A j \in 0 .. d.i - 1 : IsChild(u, d.p, j, c) <=> IsChild(t, d.p, j, c)
       /\ \A j \in d.i + 1 .. t.node[d.p].num : IsChild(u, d.p, j + 1, c) <=> IsChild(t, d.p, j, c)
       /\ ~ t.node[d.x].leaf =>
            /\ \A j \in 0 .. Half : IsChild(u, d.x, j, c) <=> IsChild(t, d.x, j, c)
            /\ \A j \in 0 .. Size - Half - 1 : IsChild(u, d.y, j, c) <=> IsChild(t, d.x, j + Half + 1, c)

\* Cutting a node moves the upper half of its children to the new one, and every other child
\* of its parent that is right of it by one position.
LEMMA ChildrenOfTheCut ==
  ASSUME NEW t, GoodTree(t), NEW d, IsCut(t, d), NEW u, IsCutTree(t, u, d)
  PROVE  /\ CutChildren(t, u, d)
         /\ d.x # d.p /\ d.x # t.root /\ d.mid \in t.range[d.x] /\ d.mid \in Nat
         /\ \A j \in 0 .. t.node[d.p].num - 1 : t.node[d.p].keys[j] # d.mid
<1> DEFINE x == d.x  p == d.p  y == d.y  i == d.i  mid == d.mid  n == t.node[d.x]  m == t.node[d.p]
<1>1. TreeShape(t) /\ Apart(t) /\ Topped(t) /\ Branches(t) /\ \A z \in t.nodes : Belongs(t, z)
  BY DEF GoodTree
<1>2. /\ x \in t.nodes /\ p \in t.nodes /\ y \in Nat /\ y \notin t.nodes
      /\ ~ m.leaf /\ i \in 0 .. m.num /\ IsChild(t, p, i, x) /\ n.num = Size /\ m.num < Size
      /\ mid = Middle(n) /\ IsLowerPart(n, d.l) /\ IsUpperPart(n, d.r) /\ IsWidened(m, d.g, mid, d.at)
      /\ n \in SeenNodes /\ m \in SeenNodes /\ InOrder(n) /\ InOrder(m)
  BY <1>1 DEF IsCut, TreeShape, Belongs
<1>3. /\ u.range[x] = {k \in t.range[x] : k < mid} /\ u.range[y] = {k \in t.range[x] : mid <= k}
      /\ u.level[y] = t.level[x] /\ u.loc[y] = d.at
      /\ u.node[x] = d.l /\ u.node[y] = d.r /\ u.node[p] = d.g
      /\ \A z \in t.nodes : /\ u.level[z] = t.level[z] /\ u.loc[z] = t.loc[z]
                            /\ z # x => u.range[z] = t.range[z]
                            /\ z # x /\ z # p => u.node[z] = t.node[z]
      /\ u.nodes = t.nodes \cup {y}
  BY DEF IsCutTree
<1>4. \A z \in t.nodes : t.range[z] \in SUBSET Nat
  BY <1>1, KeysAssumption DEF TreeShape
<1>5. x # t.root /\ p # x
  BY <1>2, OneParent
<1>6. PICK f \in 1 .. n.num - 1 : mid = n.keys[f] /\ n.keys[0] < mid
  BY <1>2, PartsKeys
<1>7. /\ mid \in t.range[x] /\ mid \in Nat /\ n.keys[0] \in t.range[x] /\ n.keys[0] \in Nat
  <2>1. f \in 0 .. n.num - 1 /\ 0 \in 0 .. n.num - 1
    BY <1>2, <1>6, Numbers
  <2>2. QED
    BY <1>1, <1>2, <1>4, <1>6, <2>1 DEF Belongs
<1>8. \A k \in t.range[x] : k \in t.range[p] /\ LiesAt(m, i, k)
  BY <1>2 DEF IsChild
<1>9. LiesAt(m, i, mid) /\ (i > 0 => m.keys[i - 1] < mid)
  <2>1. i > 0 => m.keys[i - 1] <= n.keys[0]
    BY <1>7, <1>8 DEF LiesAt
  <2>2. i > 0 => i - 1 \in 0 .. m.num - 1 /\ m.keys[i - 1] \in Nat
    <3>1. i > 0 => i - 1 \in 0 .. m.num - 1
      BY <1>2, SeenNode
    <3>2. QED
      BY <1>2, <3>1, SeenNode
  <2>3. QED
    BY <1>6, <1>7, <1>8, <2>1, <2>2
<1>10. \A j \in 0 .. m.num - 1 : m.keys[j] # mid
  <2> SUFFICES ASSUME NEW j \in 0 .. m.num - 1, m.keys[j] = mid
               PROVE  FALSE
    OBVIOUS
  <2>1. m.num \in Nat /\ j \in Nat /\ i \in Nat
    BY <1>2, SeenNode
  <2> HIDE DEF n, m, i, mid
  <2>2. CASE j = i
    BY <1>7, <1>9, <2>1, <2>2 DEF LiesAt
  <2>3. CASE j > i
    <3>1. i \in 0 .. m.num - 1 /\ m.keys[i] < m.keys[j] /\ mid < m.keys[i] /\ m.keys[i] \in Nat
      BY <1>2, <1>9, <2>1, <2>3, SeenNode DEF LiesAt, InOrder
    <3>2. QED
      BY <1>7, <3>1
  <2>4. CASE j < i
    <3>1. i - 1 \in 0 .. m.num - 1 /\ i - 1 \in Nat /\ i > 0
      BY <1>2, <2>1, <2>4
    <3>2. j < i - 1 => m.keys[j] < m.keys[i - 1]
      BY <1>2, <3>1 DEF InOrder
    <3>3. m.keys[i - 1] \in Nat
      BY <1>2, <3>1, SeenNode
    <3>4. j = i - 1 \/ j < i - 1
      BY <2>1, <2>4
    <3>5. QED
      BY <1>7, <1>9, <3>1, <3>2, <3>3, <3>4
  <2>5. QED
    BY <2>1, <2>2, <2>3, <2>4
<1>11. /\ \A j \in 0 .. i : d.g.below[j] = m.below[j]
       /\ d.g.below[i + 1] = d.at
       /\ \A j \in i + 1 .. m.num : d.g.below[j + 1] = m.below[j]
       /\ \A k \in Nat : /\ \A j \in 0 .. i - 1 : LiesAt(d.g, j, k) <=> LiesAt(m, j, k)
                         /\ LiesAt(d.g, i, k) <=> LiesAt(m, i, k) /\ k < mid
                         /\ LiesAt(d.g, i + 1, k) <=> LiesAt(m, i, k) /\ mid <= k
                         /\ \A j \in i + 1 .. m.num : LiesAt(d.g, j + 1, k) <=> LiesAt(m, j, k)
  <2> DEFINE g == d.g  at == d.at
  <2>1. /\ m \in SeenNodes /\ ~ m.leaf /\ m.num < Size /\ IsWidened(m, g, mid, at)
        /\ i \in 0 .. m.num /\ mid \in Nat /\ LiesAt(m, i, mid) /\ (i > 0 => m.keys[i - 1] < mid)
    BY <1>2, <1>7, <1>9
  <2> HIDE DEF n, m, i, mid, g, at
  <2>2. /\ \A j \in 0 .. i : g.below[j] = m.below[j]
        /\ g.below[i + 1] = at
        /\ \A j \in i + 1 .. m.num : g.below[j + 1] = m.below[j]
        /\ \A k \in Nat : /\ \A j \in 0 .. i - 1 : LiesAt(g, j, k) <=> LiesAt(m, j, k)
                          /\ LiesAt(g, i, k) <=> LiesAt(m, i, k) /\ k < mid
                          /\ LiesAt(g, i + 1, k) <=> LiesAt(m, i, k) /\ mid <= k
                          /\ \A j \in i + 1 .. m.num : LiesAt(g, j + 1, k) <=> LiesAt(m, j, k)
    BY <2>1, WidenedChildren
  <2>3. QED
    BY <2>2 DEF g, at
<1>12. IsChild(u, p, i, x)
  <2>1. d.g.below[i] = m.below[i]
    BY <1>2, <1>11, SMTT(30)
  <2>2. u.range[x] = {k \in u.range[p] : LiesAt(d.g, i, k)}
    <3>1. t.range[x] = {k \in t.range[p] : LiesAt(m, i, k)}
      BY <1>2 DEF IsChild
    <3>2. u.range[p] = t.range[p]
      BY <1>2, <1>3, <1>5
    <3>3. QED
      BY <1>2, <1>3, <1>4, <1>11, <3>1, <3>2
  <2>3. x \in u.nodes /\ u.level[x] + 1 = u.level[p] /\ u.loc[x] = m.below[i]
    BY <1>2, <1>3 DEF IsChild
  <2>4. QED
    BY <1>3, <2>1, <2>2, <2>3 DEF IsChild
<1>13. IsChild(u, p, i + 1, y)
  <2>1. u.range[y] = {k \in u.range[p] : LiesAt(d.g, i + 1, k)}
    <3>1. t.range[x] = {k \in t.range[p] : LiesAt(m, i, k)}
      BY <1>2 DEF IsChild
    <3>2. u.range[p] = t.range[p]
      BY <1>2, <1>3, <1>5
    <3>3. QED
      BY <1>2, <1>3, <1>4, <1>11, <3>1, <3>2, SMTT(30)
  <2>2. y \in u.nodes /\ u.level[y] + 1 = u.level[p] /\ u.loc[y] = d.g.below[i + 1]
    BY <1>2, <1>3, <1>11 DEF IsChild
  <2>3. QED
    BY <1>3, <2>1, <2>2, SMTT(30) DEF IsChild
<1>14. ASSUME NEW c \in t.nodes \ {x}
       PROVE  /\ \A z \in t.nodes \ {x, p} : \A j : IsChild(u, z, j, c) <=> IsChild(t, z, j, c)
              /\ \A j \in 0 .. i - 1 : IsChild(u, p, j, c) <=> IsChild(t, p, j, c)
              /\ \A j \in i + 1 .. m.num : IsChild(u, p, j + 1, c) <=> IsChild(t, p, j, c)
              /\ ~ n.leaf =>
                   /\ \A j \in 0 .. Half : IsChild(u, x, j, c) <=> IsChild(t, x, j, c)
                   /\ \A j \in 0 .. Size - Half - 1 : IsChild(u, y, j, c) <=> IsChild(t, x, j + Half + 1, c)
  <2>1. c \in u.nodes /\ u.level[c] = t.level[c] /\ u.loc[c] = t.loc[c] /\ u.range[c] = t.range[c] /\ c \in t.nodes
    BY <1>3
  <2>2. ASSUME NEW z \in t.nodes \ {x, p}, NEW j
        PROVE  IsChild(u, z, j, c) <=> IsChild(t, z, j, c)
    <3>1. u.level[z] = t.level[z] /\ u.range[z] = t.range[z] /\ u.node[z] = t.node[z]
      BY <1>3
    <3>2. QED
      BY <2>1, <3>1 DEF IsChild
  <2>3. u.level[p] = t.level[p] /\ u.range[p] = t.range[p] /\ u.node[p] = d.g /\ t.range[p] \in SUBSET Nat
    BY <1>2, <1>3, <1>4, <1>5
  <2>4. ASSUME NEW j \in 0 .. i - 1
        PROVE  IsChild(u, p, j, c) <=> IsChild(t, p, j, c)
    <3>1. d.g.below[j] = m.below[j]
      BY <1>2, <1>11
    <3>2. {k \in t.range[p] : LiesAt(d.g, j, k)} = {k \in t.range[p] : LiesAt(m, j, k)}
      BY <1>11, <2>3
    <3>3. QED
      BY <2>1, <2>3, <3>1, <3>2 DEF IsChild
  <2>5. ASSUME NEW j \in i + 1 .. m.num
        PROVE  IsChild(u, p, j + 1, c) <=> IsChild(t, p, j, c)
    <3>1. d.g.below[j + 1] = m.below[j]
      BY <1>2, <1>11
    <3>2. {k \in t.range[p] : LiesAt(d.g, j + 1, k)} = {k \in t.range[p] : LiesAt(m, j, k)}
      BY <1>11, <2>3
    <3>3. QED
      BY <2>1, <2>3, <3>1, <3>2 DEF IsChild
  <2>6. ASSUME ~ n.leaf
        PROVE  /\ \A j \in 0 .. Half : IsChild(u, x, j, c) <=> IsChild(t, x, j, c)
               /\ \A j \in 0 .. Size - Half - 1 : IsChild(u, y, j, c) <=> IsChild(t, x, j + Half + 1, c)
    <3>1. \A k \in Nat :
           /\ \A j \in 0 .. Half : LiesAt(n, j, k) <=> LiesAt(d.l, j, k) /\ k < mid
           /\ \A j \in 0 .. Size - Half - 1 : LiesAt(n, j + Half + 1, k) <=> LiesAt(d.r, j, k) /\ mid <= k
      <4> HIDE DEF n, mid
      <4>1. QED
        BY <1>2, <2>6, PartsChildren
    <3>2. /\ \A j \in 0 .. Half : d.l.below[j] = n.below[j]
          /\ \A j \in 0 .. Size - Half - 1 : d.r.below[j] = n.below[j + Half + 1]
      BY <1>2, <2>6 DEF IsLowerPart, IsUpperPart
    <3>3. t.range[x] \in SUBSET Nat /\ u.level[x] = t.level[x]
      BY <1>2, <1>3, <1>4
    <3>4. ASSUME NEW j \in 0 .. Half
          PROVE  IsChild(u, x, j, c) <=> IsChild(t, x, j, c)
      <4>1. {k \in u.range[x] : LiesAt(d.l, j, k)} = {k \in t.range[x] : LiesAt(n, j, k)}
        BY <1>3, <3>1, <3>3
      <4>2. QED
        BY <1>3, <2>1, <3>2, <3>3, <4>1 DEF IsChild
    <3>5. ASSUME NEW j \in 0 .. Size - Half - 1
          PROVE  IsChild(u, y, j, c) <=> IsChild(t, x, j + Half + 1, c)
      <4>1. {k \in u.range[y] : LiesAt(d.r, j, k)} = {k \in t.range[x] : LiesAt(n, j + Half + 1, k)}
        BY <1>3, <3>1, <3>3
      <4>2. QED
        BY <1>3, <2>1, <3>2, <3>3, <4>1 DEF IsChild
    <3>6. QED
      BY <3>4, <3>5
  <2>7. QED
    BY <2>2, <2>4, <2>5, <2>6
<1>15. CutChildren(t, u, d)
  BY <1>12, <1>13, <1>14 DEF CutChildren
<1>16. QED
  BY <1>5, <1>7, <1>10, <1>15

\* A child that is cut in two leaves a search tree for the same keys.
LEMMA TreeCut ==
  ASSUME NEW t, GoodTree(t), NEW d, IsCut(t, d), NEW u, IsCutTree(t, u, d)
  PROVE  GoodTree(u)
<1> DEFINE x == d.x  p == d.p  y == d.y  i == d.i  mid == d.mid  n == t.node[d.x]  m == t.node[d.p]
<1>1. TreeShape(t) /\ Apart(t) /\ Topped(t) /\ Branches(t) /\ \A z \in t.nodes : Belongs(t, z)
  BY DEF GoodTree
<1>2. /\ x \in t.nodes /\ p \in t.nodes /\ y \in Nat /\ y \notin t.nodes
      /\ ~ m.leaf /\ i \in 0 .. m.num /\ IsChild(t, p, i, x) /\ n.num = Size /\ m.num < Size
      /\ mid = Middle(n) /\ IsLowerPart(n, d.l) /\ IsUpperPart(n, d.r) /\ IsWidened(m, d.g, mid, d.at)
      /\ n \in SeenNodes /\ m \in SeenNodes /\ InOrder(n) /\ InOrder(m) /\ m.num \in Nat /\ i \in Nat
      /\ \A z \in t.nodes : t.loc[z] # d.at
  BY <1>1, SeenNode DEF IsCut, TreeShape, Belongs
<1>3. /\ u.range[x] = {k \in t.range[x] : k < mid} /\ u.range[y] = {k \in t.range[x] : mid <= k}
      /\ u.level[y] = t.level[x] /\ u.loc[y] = d.at
      /\ u.node[x] = d.l /\ u.node[y] = d.r /\ u.node[p] = d.g
      /\ \A z \in t.nodes : /\ u.level[z] = t.level[z] /\ u.loc[z] = t.loc[z]
                            /\ z # x => u.range[z] = t.range[z]
                            /\ z # x /\ z # p => u.node[z] = t.node[z]
      /\ u.nodes = t.nodes \cup {y} /\ u.root = t.root /\ u.held = t.held
      /\ u.range \in [u.nodes -> SUBSET Keys] /\ u.level \in [u.nodes -> Nat]
      /\ u.loc \in [u.nodes -> Int] /\ u.node \in [u.nodes -> SeenNodes]
  BY DEF IsCutTree
<1>4. /\ \A z \in t.nodes : t.range[z] \in SUBSET Nat /\ t.level[z] \in Nat /\ t.node[z] \in SeenNodes
      /\ t.nodes \subseteq Nat /\ IsFiniteSet(t.nodes) /\ t.root \in t.nodes /\ t.held \subseteq Keys
  BY <1>1, KeysAssumption DEF TreeShape
<1>5. /\ x # p /\ x # t.root /\ mid \in t.range[x] /\ mid \in Nat
      /\ \A j \in 0 .. m.num - 1 : m.keys[j] # mid
      /\ CutChildren(t, u, d)
  BY ChildrenOfTheCut
<1>6. /\ d.g.leaf = m.leaf /\ d.g.num = m.num + 1 /\ d.l.leaf = n.leaf /\ d.r.leaf = n.leaf
      /\ ~ n.leaf => d.l.num = Half /\ d.r.num = Size - Half - 1
  BY <1>2 DEF IsWidened, IsLowerPart, IsUpperPart
<1>7. TreeShape(u)
  <2>1. IsFiniteSet(u.nodes)
    BY <1>3, <1>4, FS_AddElement
  <2>2. QED
    BY <1>2, <1>3, <1>4, <2>1 DEF TreeShape
<1>8. Apart(u)
  <2>1. u.range[x] \subseteq t.range[x] /\ u.range[y] \subseteq t.range[x] /\ u.range[x] \cap u.range[y] = {}
    BY <1>2, <1>3, <1>4, <1>5
  <2>2. \A z \in t.nodes : u.range[z] \subseteq t.range[z]
    BY <1>3, <2>1
  <2> HIDE DEF x, y
  <2>3. \A a, b \in t.nodes : a # b => /\ u.loc[a] # u.loc[b]
                                       /\ u.level[a] = u.level[b] => u.range[a] \cap u.range[b] = {}
    BY <1>1, <1>3, <2>2 DEF Apart
  <2>4. \A a \in t.nodes : /\ u.loc[a] # u.loc[y]
                           /\ u.level[a] = u.level[y] => u.range[a] \cap u.range[y] = {}
    <3> TAKE a \in t.nodes
    <3>1. a # x /\ u.level[a] = u.level[y] => t.range[a] \cap t.range[x] = {}
      BY <1>1, <1>2, <1>3 DEF Apart
    <3>2. QED
      BY <1>2, <1>3, <2>1, <2>2, <3>1
  <2>5. QED
    BY <1>3, <2>3, <2>4, SMTT(30) DEF Apart
<1>9. Topped(u)
  <2>1. Cardinality(t.nodes) \in Nat
    BY <1>4, FS_CardinalityType
  <2>2. Cardinality(t.nodes \cup {y}) = Cardinality(t.nodes) + 1
    <3>1. y \notin t.nodes /\ IsFiniteSet(t.nodes)
      BY <1>2, <1>4
    <3> HIDE DEF y
    <3>2. QED
      BY <3>1, FS_AddElement
  <2>3. Cardinality(u.nodes) = Cardinality(t.nodes) + 1
    BY <1>3, <2>2
  <2>4. t.range[t.root] = Keys /\ t.level[t.root] < Cardinality(t.nodes)
    BY <1>1 DEF Topped
  <2>5. \A z \in t.nodes \ {t.root} : t.level[z] < t.level[t.root]
    BY <1>1 DEF Topped
  <2>6. u.range[u.root] = Keys /\ u.level[u.root] < Cardinality(u.nodes)
    BY <1>3, <1>4, <1>5, <2>1, <2>3, <2>4
  <2>7. \A z \in u.nodes \ {u.root} : u.level[z] < u.level[u.root]
    BY <1>2, <1>3, <1>4, <1>5, <2>5
  <2>8. QED
    BY <2>6, <2>7 DEF Topped
<1>10. /\ IsChild(u, p, i, x) /\ IsChild(u, p, i + 1, y)
       /\ \A c \in t.nodes \ {x} :
            /\ \A z \in t.nodes \ {x, p} : \A j : IsChild(u, z, j, c) <=> IsChild(t, z, j, c)
            /\ \A j \in 0 .. i - 1 : IsChild(u, p, j, c) <=> IsChild(t, p, j, c)
            /\ \A j \in i + 1 .. m.num : IsChild(u, p, j + 1, c) <=> IsChild(t, p, j, c)
            /\ ~ n.leaf =>
                 /\ \A j \in 0 .. Half : IsChild(u, x, j, c) <=> IsChild(t, x, j, c)
                 /\ \A j \in 0 .. Size - Half - 1 : IsChild(u, y, j, c) <=> IsChild(t, x, j + Half + 1, c)
  BY <1>5 DEF CutChildren
<1>11. \A z \in t.nodes : \A j \in 0 .. t.node[z].num : IsChild(t, z, j, x) => z = p /\ j = i
  BY <1>2, OneParent
<1>12. Half \in Nat /\ Size \in Nat /\ Size - Half - 1 \in Nat
  BY Halves, Numbers
<1> HIDE DEF x, y, p, i, mid, n, m
<1>13. Branches(u)
  <2>1. ASSUME NEW z \in u.nodes, ~ u.node[z].leaf, NEW j \in 0 .. u.node[z].num
        PROVE  \E c \in u.nodes : IsChild(u, z, j, c)
    <3>1. CASE z = p
      <4>1. j \in 0 .. m.num + 1
        BY <1>3, <1>6, <2>1, <3>1
      <4>2. CASE j < i
        <5>1. j \in 0 .. i - 1 /\ j \in 0 .. m.num /\ j # i
          BY <1>2, <4>1, <4>2
        <5>2. PICK c \in t.nodes : IsChild(t, p, j, c)
          BY <1>1, <1>2, <5>1 DEF Branches, m, p
        <5>3. c # x
          BY <1>2, <1>11, <5>1, <5>2 DEF m, p
        <5>4. QED
          BY <1>3, <1>10, <3>1, <5>1, <5>2, <5>3
      <4>3. CASE j = i \/ j = i + 1
        BY <1>2, <1>3, <1>10, <3>1, <4>3
      <4>4. CASE j > i + 1
        <5>1. j - 1 \in i + 1 .. m.num /\ j - 1 \in 0 .. m.num /\ j - 1 # i /\ (j - 1) + 1 = j
          BY <1>2, <4>1, <4>4
        <5>2. PICK c \in t.nodes : IsChild(t, p, j - 1, c)
          BY <1>1, <1>2, <5>1 DEF Branches, m, p
        <5>3. c # x
          BY <1>2, <1>11, <5>1, <5>2 DEF m, p
        <5>4. IsChild(u, p, (j - 1) + 1, c)
          BY <1>10, <5>1, <5>2, <5>3
        <5>5. QED
          BY <1>3, <3>1, <5>1, <5>4
      <4>5. QED
        BY <1>2, <4>1, <4>2, <4>3, <4>4
    <3>2. CASE z = x
      <4>1. ~ n.leaf /\ j \in 0 .. Half /\ j \in 0 .. n.num
        BY <1>2, <1>3, <1>6, <2>1, <3>2, <1>12, Halves
      <4>2. PICK c \in t.nodes : IsChild(t, x, j, c)
        BY <1>1, <1>2, <4>1 DEF Branches, n, x
      <4>3. c # x
        BY <1>2, <1>5, <1>11, <4>1, <4>2 DEF n, x
      <4>4. QED
        BY <1>3, <1>10, <3>2, <4>1, <4>2, <4>3
    <3>3. CASE z = y
      <4>1. ~ n.leaf /\ j \in 0 .. Size - Half - 1 /\ j + Half + 1 \in 0 .. n.num
        BY <1>2, <1>3, <1>6, <2>1, <3>3, <1>12, Halves
      <4>2. PICK c \in t.nodes : IsChild(t, x, j + Half + 1, c)
        BY <1>1, <1>2, <4>1 DEF Branches, n, x
      <4>3. c # x
        BY <1>2, <1>5, <1>11, <4>1, <4>2 DEF n, x
      <4>4. QED
        BY <1>3, <1>10, <3>3, <4>1, <4>2, <4>3
    <3>4. CASE z \in t.nodes \ {x, p}
      <4>1. u.node[z] = t.node[z]
        BY <1>3, <3>4
      <4>2. PICK c \in t.nodes : IsChild(t, z, j, c)
        BY <1>1, <2>1, <3>4, <4>1 DEF Branches
      <4>3. c # x
        BY <1>11, <2>1, <3>4, <4>1, <4>2
      <4>4. QED
        BY <1>3, <1>10, <3>4, <4>2, <4>3
    <3>5. QED
      BY <1>3, <2>1, <3>1, <3>2, <3>3, <3>4
  <2>2. ASSUME NEW c \in u.nodes \ {u.root}
        PROVE  \E z \in u.nodes : ~ u.node[z].leaf /\ \E j \in 0 .. u.node[z].num : IsChild(u, z, j, c)
    <3>1. p \in u.nodes /\ ~ u.node[p].leaf /\ u.node[p].num = m.num + 1
      BY <1>2, <1>3, <1>6
    <3>2. CASE c = x
      <4>1. i \in 0 .. m.num + 1
        BY <1>2
      <4>2. QED
        BY <1>10, <3>1, <3>2, <4>1
    <3>3. CASE c = y
      <4>1. i + 1 \in 0 .. m.num + 1
        BY <1>2
      <4>2. QED
        BY <1>10, <3>1, <3>3, <4>1
    <3>4. CASE c \in t.nodes \ {x}
      <4>1. PICK z \in t.nodes : ~ t.node[z].leaf /\ \E j \in 0 .. t.node[z].num : IsChild(t, z, j, c)
        BY <1>1, <1>3, <2>2, <3>4 DEF Branches
      <4>2. PICK j \in 0 .. t.node[z].num : IsChild(t, z, j, c)
        BY <4>1
      <4>3. CASE z = p
        <5>1. j \in 0 .. m.num
          BY <4>3 DEF m, p
        <5>2. j # i
          <6>1. j = i => t.loc[c] = t.loc[x]
            BY <1>2, <4>2, <4>3 DEF IsChild, m, p, i
          <6>2. QED
            BY <1>1, <1>2, <3>4, <6>1 DEF Apart
        <5>3. CASE j < i
          <6>1. j \in 0 .. i - 1 /\ j \in 0 .. m.num + 1
            BY <1>2, <5>1, <5>3
          <6>2. QED
            BY <1>10, <3>1, <3>4, <4>2, <4>3, <6>1
        <5>4. CASE j > i
          <6>1. j \in i + 1 .. m.num /\ j + 1 \in 0 .. m.num + 1
            BY <1>2, <5>1, <5>4
          <6>2. QED
            BY <1>10, <3>1, <3>4, <4>2, <4>3, <6>1
        <5>5. QED
          BY <1>2, <5>1, <5>2, <5>3, <5>4
      <4>4. CASE z = x
        <5>1. ~ n.leaf /\ j \in 0 .. Size
          BY <1>2, <4>1, <4>4 DEF n, x
        <5>2. CASE j <= Half
          <6>1. j \in 0 .. Half /\ j \in 0 .. d.l.num
            BY <1>6, <1>12, <5>1, <5>2
          <6>2. IsChild(u, x, j, c)
            BY <1>10, <3>4, <4>2, <4>4, <5>1, <6>1
          <6>3. QED
            BY <1>2, <1>3, <1>6, <5>1, <6>1, <6>2
        <5>3. CASE j > Half
          <6>1. j - Half - 1 \in 0 .. Size - Half - 1 /\ (j - Half - 1) + Half + 1 = j
            BY <1>12, <5>1, <5>3
          <6>2. IsChild(u, y, j - Half - 1, c)
            BY <1>10, <3>4, <4>2, <4>4, <5>1, <6>1
          <6>3. j - Half - 1 \in 0 .. d.r.num
            BY <1>6, <5>1, <6>1
          <6>4. QED
            BY <1>3, <1>6, <5>1, <6>2, <6>3
        <5>4. QED
          BY <1>12, <5>1, <5>2, <5>3
      <4>5. CASE z \in t.nodes \ {x, p}
        <5>1. u.node[z] = t.node[z] /\ z \in u.nodes
          BY <1>3, <4>5
        <5>2. QED
          BY <1>10, <3>4, <4>1, <4>2, <4>5, <5>1
      <4>6. QED
        BY <4>3, <4>4, <4>5
    <3>5. QED
      BY <1>3, <2>2, <3>2, <3>3, <3>4
  <2>3. QED
    BY <2>1, <2>2 DEF Branches
<1>14. Belongs(u, p)
  <2>1. Belongs(t, p)
    BY <1>1, <1>2
  <2>2. /\ t.level[p] # 0 /\ \A j \in 0 .. m.num - 1 : m.keys[j] \in t.range[p]
        /\ u.level[p] = t.level[p] /\ u.range[p] = t.range[p] /\ ~ d.g.leaf
    BY <1>2, <1>3, <1>5, <1>6, <2>1 DEF Belongs, m, p
  <2>3. /\ InOrder(d.g)
        /\ \A k : (\E j \in 0 .. d.g.num - 1 : d.g.keys[j] = k)
                    <=> k = mid \/ \E j \in 0 .. m.num - 1 : m.keys[j] = k
    <3> DEFINE g == d.g  at == d.at
    <3>1. /\ m \in SeenNodes /\ m.num < Size /\ InOrder(m) /\ mid \in Nat /\ IsWidened(m, g, mid, at)
          /\ \A j \in 0 .. m.num - 1 : m.keys[j] # mid
      BY <1>2, <1>5
    <3> HIDE DEF g, at
    <3>2. /\ InOrder(g)
          /\ \A k : (\E j \in 0 .. g.num - 1 : g.keys[j] = k)
                      <=> k = mid \/ \E j \in 0 .. m.num - 1 : m.keys[j] = k
          /\ \A j \in 0 .. Size - 1 : j >= g.num => g.keys[j] = m.keys[j]
      BY <3>1, WidenedKeys, ZenonT(60)
    <3>3. QED
      BY <3>2 DEF g
  <2>4. mid \in t.range[p]
    BY <1>2, <1>5 DEF IsChild
  <2>5. \A j \in 0 .. d.g.num - 1 : d.g.keys[j] \in t.range[p]
    <3> TAKE j \in 0 .. d.g.num - 1
    <3>1. d.g.keys[j] = mid \/ \E q \in 0 .. m.num - 1 : m.keys[q] = d.g.keys[j]
      BY <2>3
    <3>2. QED
      BY <2>2, <2>4, <3>1
  <2>6. d.g.num # 0
    BY <1>2, <1>6
  <2>7. QED
    BY <1>3, <2>2, <2>3, <2>5, <2>6 DEF Belongs
<1>15. /\ InOrder(d.l) /\ InOrder(d.r) /\ d.l.num # 0 /\ d.r.num # 0
       /\ \A j \in 0 .. d.l.num - 1 : j \in 0 .. n.num - 1 /\ d.l.keys[j] = n.keys[j] /\ n.keys[j] < mid
       /\ \A j \in 0 .. d.r.num - 1 : /\ j + Half + 1 \in 0 .. n.num - 1 /\ mid <= d.r.keys[j]
                                      /\ d.r.keys[j] = n.keys[j + Half + 1]
       /\ n.leaf => \A j \in 0 .. n.num - 1 :
            IF j < d.l.num THEN j \in 0 .. d.l.num - 1
            ELSE /\ mid <= n.keys[j]
                 /\ j - Half - 1 \in 0 .. d.r.num - 1 /\ d.r.keys[j - Half - 1] = n.keys[j]
       /\ \A j \in 0 .. Size - 1 : j >= d.r.num => d.r.keys[j] = 0
  BY <1>2, PartsKeys
<1>16. Belongs(t, x)
  BY <1>1, <1>2
<1>17. /\ n.leaf <=> t.level[x] = 0
       /\ \A j \in 0 .. n.num - 1 : n.keys[j] \in t.range[x]
       /\ n.leaf => \A k \in t.range[x] : k \in t.held <=> \E j \in 0 .. n.num - 1 : n.keys[j] = k
  BY <1>16 DEF Belongs, LeafBelongs, n, x
<1>18. \A j \in 0 .. d.l.num - 1 : d.l.keys[j] \in u.range[x]
  BY <1>3, <1>15, <1>17
<1>19. \A j \in 0 .. d.r.num - 1 : d.r.keys[j] \in u.range[y]
  BY <1>3, <1>15, <1>17
<1>20. ASSUME n.leaf
       PROVE  LeafBelongs(u, x) /\ LeafBelongs(u, y)
  <2>1. \A j \in 0 .. Size - 1 : j >= d.l.num => d.l.keys[j] \notin u.range[x]
    <3> TAKE j \in 0 .. Size - 1
    <3> SUFFICES ASSUME j >= d.l.num
                 PROVE  d.l.keys[j] \notin u.range[x]
      OBVIOUS
    <3>1. d.l.num \in Nat /\ d.l.keys = n.keys /\ n.keys[j] \in Nat /\ j \in 0 .. n.num - 1
      BY <1>2, SeenNode DEF IsLowerPart
    <3>2. mid <= n.keys[j]
      BY <1>15, <1>20, <3>1
    <3>3. QED
      BY <1>3, <1>5, <3>1, <3>2
  <2>2. \A k \in u.range[x] : k \in t.held <=> \E j \in 0 .. d.l.num - 1 : d.l.keys[j] = k
    <3> TAKE k \in u.range[x]
    <3>1. k \in t.range[x] /\ k < mid /\ k \in Nat
      BY <1>2, <1>3, <1>4
    <3>2. ASSUME NEW j \in 0 .. n.num - 1, n.keys[j] = k
          PROVE  \E q \in 0 .. d.l.num - 1 : d.l.keys[q] = k
      <4>1. j < d.l.num
        BY <1>5, <1>15, <1>20, <3>1, <3>2
      <4>2. j \in 0 .. d.l.num - 1
        BY <1>15, <1>20, <4>1
      <4>3. QED
        BY <1>15, <3>2, <4>2
    <3>3. ASSUME NEW j \in 0 .. d.l.num - 1, d.l.keys[j] = k
          PROVE  \E q \in 0 .. n.num - 1 : n.keys[q] = k
      BY <1>15, <3>3
    <3>4. QED
      BY <1>17, <1>20, <3>1, <3>2, <3>3
  <2>3. \A k \in u.range[y] : k \in t.held <=> \E j \in 0 .. d.r.num - 1 : d.r.keys[j] = k
    <3> TAKE k \in u.range[y]
    <3>1. k \in t.range[x] /\ mid <= k /\ k \in Nat
      BY <1>2, <1>3, <1>4
    <3>2. ASSUME NEW j \in 0 .. n.num - 1, n.keys[j] = k
          PROVE  \E q \in 0 .. d.r.num - 1 : d.r.keys[q] = k
      <4>1. ~ (j < d.l.num)
        <5>1. j < d.l.num => j \in 0 .. d.l.num - 1 /\ n.keys[j] < mid
          BY <1>15, <1>20
        <5>2. QED
          BY <1>5, <3>1, <3>2, <5>1
      <4>2. j - Half - 1 \in 0 .. d.r.num - 1 /\ d.r.keys[j - Half - 1] = n.keys[j]
        BY <1>15, <1>20, <4>1
      <4>3. QED
        BY <3>2, <4>2
    <3>3. ASSUME NEW j \in 0 .. d.r.num - 1, d.r.keys[j] = k
          PROVE  \E q \in 0 .. n.num - 1 : n.keys[q] = k
      BY <1>15, <3>3
    <3>4. QED
      BY <1>17, <1>20, <3>1, <3>2, <3>3
  <2>4. QED
    BY <1>3, <1>15, <2>1, <2>2, <2>3 DEF LeafBelongs
<1>21. Belongs(u, x)
  BY <1>2, <1>3, <1>6, <1>15, <1>17, <1>18, <1>20 DEF Belongs
<1>22. Belongs(u, y)
  BY <1>2, <1>3, <1>6, <1>15, <1>17, <1>19, <1>20 DEF Belongs
<1>23. ASSUME NEW z \in t.nodes, z # x, z # p
       PROVE  Belongs(u, z)
  <2>1. Belongs(t, z)
    BY <1>1
  <2>2. u.node[z] = t.node[z] /\ u.range[z] = t.range[z] /\ u.level[z] = t.level[z]
    BY <1>3, <1>23
  <2>3. QED
    BY <1>3, <2>1, <2>2 DEF Belongs, LeafBelongs
<1>24. QED
  BY <1>3, <1>7, <1>8, <1>9, <1>13, <1>14, <1>21, <1>22, <1>23 DEF GoodTree

\* u is t with its nodes at other places, every one with the keys and children it had.
IsMoved(t, u) ==
  /\ u.nodes = t.nodes /\ u.root = t.root /\ u.range = t.range /\ u.level = t.level
  /\ u.held = t.held /\ u.loc \in [t.nodes -> Int] /\ u.node \in [t.nodes -> SeenNodes]
  /\ \A x, y \in t.nodes : x # y => u.loc[x] # u.loc[y]
  /\ \A x \in t.nodes :
       /\ u.node[x].leaf = t.node[x].leaf /\ u.node[x].num = t.node[x].num
       /\ \A i \in 0 .. t.node[x].num - 1 : u.node[x].keys[i] = t.node[x].keys[i]
       /\ t.node[x].leaf =>
            \A i \in 0 .. Size - 1 : u.node[x].keys[i] \in {0, t.node[x].keys[i]}
       /\ ~ t.node[x].leaf =>
            \A i \in 0 .. t.node[x].num : \A y \in t.nodes :
              t.loc[y] = t.node[x].below[i] => u.loc[y] = u.node[x].below[i]

\* Where the nodes are does not matter.
LEMMA TreeMoved ==
  ASSUME NEW t, GoodTree(t), NEW u, IsMoved(t, u)
  PROVE  /\ GoodTree(u)
         /\ \A x, y \in t.nodes : \A i \in 0 .. t.node[x].num :
              ~ t.node[x].leaf /\ IsChild(t, x, i, y) => IsChild(u, x, i, y)
<1>1. TreeShape(t) /\ Apart(t) /\ Topped(t) /\ Branches(t) /\ \A z \in t.nodes : Belongs(t, z)
  BY DEF GoodTree
<1>2. /\ u.nodes = t.nodes /\ u.root = t.root /\ u.range = t.range /\ u.level = t.level
      /\ u.held = t.held /\ u.loc \in [t.nodes -> Int] /\ u.node \in [t.nodes -> SeenNodes]
      /\ \A x, y \in t.nodes : x # y => u.loc[x] # u.loc[y]
  BY DEF IsMoved
<1>3. \A x \in t.nodes :
       /\ u.node[x].leaf = t.node[x].leaf /\ u.node[x].num = t.node[x].num
       /\ \A i \in 0 .. t.node[x].num - 1 : u.node[x].keys[i] = t.node[x].keys[i]
       /\ t.node[x].leaf =>
            \A i \in 0 .. Size - 1 : u.node[x].keys[i] \in {0, t.node[x].keys[i]}
       /\ ~ t.node[x].leaf =>
            \A i \in 0 .. t.node[x].num : \A y \in t.nodes :
              t.loc[y] = t.node[x].below[i] => u.loc[y] = u.node[x].below[i]
  BY DEF IsMoved
<1>4. TreeShape(u) /\ Apart(u) /\ Topped(u)
  BY <1>1, <1>2 DEF TreeShape, Apart, Topped
<1>5. ASSUME NEW x \in t.nodes, NEW y \in t.nodes, NEW i \in 0 .. t.node[x].num,
             ~ t.node[x].leaf, IsChild(t, x, i, y)
      PROVE  IsChild(u, x, i, y)
  <2> DEFINE n == t.node[x]  m == u.node[x]
  <2>1. n.num \in Nat /\ m.num = n.num /\ \A j \in 0 .. n.num - 1 : m.keys[j] = n.keys[j]
    BY <1>1, <1>3, SeenNode DEF TreeShape
  <2>2. \A k : LiesAt(m, i, k) <=> LiesAt(n, i, k)
    <3>1. (i > 0 => m.keys[i - 1] = n.keys[i - 1]) /\ (i < n.num => m.keys[i] = n.keys[i])
      <4>1. (i > 0 => i - 1 \in 0 .. n.num - 1) /\ (i < n.num => i \in 0 .. n.num - 1)
        BY <2>1
      <4>2. QED
        BY <2>1, <4>1
    <3>2. QED
      BY <2>1, <3>1 DEF LiesAt
  <2>3. u.loc[y] = m.below[i]
    BY <1>3, <1>5 DEF IsChild
  <2>4. QED
    BY <1>2, <1>5, <2>2, <2>3 DEF IsChild
<1>6. Branches(u)
  <2>1. ASSUME NEW x \in u.nodes, ~ u.node[x].leaf, NEW i \in 0 .. u.node[x].num
        PROVE  \E y \in u.nodes : IsChild(u, x, i, y)
    <3>1. x \in t.nodes /\ ~ t.node[x].leaf /\ i \in 0 .. t.node[x].num
      BY <1>2, <1>3, <2>1
    <3>2. PICK y \in t.nodes : IsChild(t, x, i, y)
      BY <1>1, <3>1 DEF Branches
    <3>3. QED
      BY <1>2, <1>5, <3>1, <3>2
  <2>2. ASSUME NEW y \in u.nodes \ {u.root}
        PROVE  \E x \in u.nodes : ~ u.node[x].leaf /\ \E i \in 0 .. u.node[x].num : IsChild(u, x, i, y)
    <3>1. y \in t.nodes \ {t.root}
      BY <1>2, <2>2
    <3>2. PICK x \in t.nodes : ~ t.node[x].leaf /\ \E i \in 0 .. t.node[x].num : IsChild(t, x, i, y)
      BY <1>1, <3>1 DEF Branches
    <3>3. QED
      BY <1>2, <1>3, <1>5, <3>1, <3>2
  <2>3. QED
    BY <2>1, <2>2 DEF Branches
<1>7. ASSUME NEW x \in t.nodes
      PROVE  Belongs(u, x)
  <2> DEFINE n == t.node[x]  m == u.node[x]
  <2>1. Belongs(t, x) /\ n.num \in Nat
    BY <1>1, SeenNode DEF TreeShape
  <2>2. /\ m.leaf = n.leaf /\ m.num = n.num /\ \A j \in 0 .. n.num - 1 : m.keys[j] = n.keys[j]
        /\ n.leaf => \A i \in 0 .. Size - 1 : m.keys[i] \in {0, n.keys[i]}
    BY <1>3
  <2>3. InOrder(m) /\ \A i \in 0 .. m.num - 1 : m.keys[i] \in t.range[x]
    BY <2>1, <2>2 DEF Belongs, InOrder
  <2>4. n.leaf => LeafBelongs(u, x)
    <3> SUFFICES ASSUME n.leaf
                 PROVE  LeafBelongs(u, x)
      OBVIOUS
    <3>1. /\ \A i \in 0 .. Size - 1 : i >= n.num => n.keys[i] = 0 \/ n.keys[i] \notin t.range[x]
          /\ \A k \in t.range[x] : k \in t.held <=> \E i \in 0 .. n.num - 1 : n.keys[i] = k
      BY <2>1 DEF Belongs, LeafBelongs
    <3>2. \A i \in 0 .. Size - 1 : i >= m.num => m.keys[i] = 0 \/ m.keys[i] \notin t.range[x]
      BY <2>2, <3>1
    <3>3. \A k \in t.range[x] : k \in t.held <=> \E i \in 0 .. m.num - 1 : m.keys[i] = k
      BY <2>2, <3>1
    <3>4. QED
      BY <1>2, <3>2, <3>3 DEF LeafBelongs
  <2>5. QED
    BY <1>2, <2>1, <2>2, <2>3, <2>4 DEF Belongs
<1>8. QED
  BY <1>2, <1>4, <1>5, <1>6, <1>7 DEF GoodTree

\* What a walk sees at a place: node l of a heap, or slot - l of a file.
Seen(h, f, l) ==
  LET n == IF l > 0 THEN h[l] ELSE f[- l]
  IN [leaf |-> n.leaf, num |-> n.num, keys |-> n.keys,
      below |-> [i \in 0 .. Size |->
                   IF l > 0 /\ n.kids[i] # 0 THEN n.kids[i] ELSE - n.ptrs[i]]]

\* t is the tree in heap h, and below it in file f.
Represents(t, h, f) ==
  /\ GoodTree(t)
  /\ \A x \in t.nodes : /\ IF t.loc[x] > 0 THEN t.loc[x] \in DOMAIN h ELSE - t.loc[x] \in Slots
                        /\ t.node[x] = Seen(h, f, t.loc[x])
  /\ \A id \in DOMAIN h : \E x \in t.nodes : t.loc[x] = id

\* The slots that the tree is in.
Uses(t) == {a \in Slots : \E x \in t.nodes : t.loc[x] = - a}

\* Slots and nodes: those of the tree, the free and the freed ones are different; a
\* node that is not volatile is as it is on file, and is a cache line only there.
Space(t, h, fr) ==
  /\ free \subseteq Slots /\ fr \subseteq Slots
  /\ \A a \in free : a < pointer
  /\ \A a \in fr : a < pointer /\ a \notin free
  /\ \A a \in Uses(t) : a < pointer /\ a \notin free /\ a \notin fr
  /\ \A n \in DOMAIN h :
       /\ h[n].addr # 0 => /\ h[n].addr \in Slots \ Uses(t) /\ h[n].addr < pointer
                           /\ h[n].addr \notin free /\ h[n].addr \notin fr
                           /\ \A m \in DOMAIN h : h[m].addr = h[n].addr => m = n
       /\ ~ h[n].vol => h[n].addr # 0 /\ Content(h[n]) = disk[h[n].addr]
       /\ h[n].line # 0 => h[n].line \in fr \/ (~ h[n].vol /\ h[n].line = h[n].addr)

\* What the cache holds is on file, slots that were freed aside, and it holds nothing
\* of what a commit may be given.
CacheTrue(c, fr) ==
  \A a \in Slots : /\ a \notin fr => c[a] \in {NoLine, disk[a]}
                   /\ a \in free \/ ~ (a < pointer) => c[a] = NoLine

\* The tree in memory with its slots, and the keys it holds.
Keeping(t, h, fr) ==
  Represents(t, h, disk) /\ Space(t, h, fr)

\* A node is seen as one.
LEMMA SeenIsNode ==
  ASSUME NEW h, NEW f, NEW l \in Int, IF l > 0 THEN h[l] \in NodesOf(Nat) ELSE f[- l] \in LinesOf(Nat)
  PROVE  LET n == IF l > 0 THEN h[l] ELSE f[- l] IN
         /\ Seen(h, f, l) \in SeenNodes
         /\ Seen(h, f, l).leaf = n.leaf /\ Seen(h, f, l).num = n.num /\ Seen(h, f, l).keys = n.keys
         /\ \A i \in 0 .. Size :
              Seen(h, f, l).below[i] = IF l > 0 /\ n.kids[i] # 0 THEN n.kids[i] ELSE - n.ptrs[i]
<1>1. CASE l > 0
  <2> DEFINE n == h[l]
  <2>1. /\ n.leaf \in BOOLEAN /\ n.num \in 0 .. Size /\ n.keys \in [0 .. Size - 1 -> Nat]
        /\ n.ptrs \in [0 .. Size -> Nat] /\ n.kids \in [0 .. Size -> Nat]
    BY <1>1 DEF NodesOf
  <2> HIDE DEF n
  <2>2. Seen(h, f, l) = [leaf |-> n.leaf, num |-> n.num, keys |-> n.keys,
                         below |-> [i \in 0 .. Size |-> IF n.kids[i] # 0 THEN n.kids[i] ELSE - n.ptrs[i]]]
    BY <1>1 DEF Seen, n
  <2>3. [i \in 0 .. Size |-> IF n.kids[i] # 0 THEN n.kids[i] ELSE - n.ptrs[i]] \in [0 .. Size -> Int]
    <3>1. (\A i \in 0 .. Size : n.kids[i] \in Nat) /\ (\A i \in 0 .. Size : n.ptrs[i] \in Nat)
      BY <2>1
    <3>2. \A i \in 0 .. Size : (IF n.kids[i] # 0 THEN n.kids[i] ELSE - n.ptrs[i]) \in Int
      BY <3>1
    <3>3. QED
      BY <3>2, Zenon
  <2>4. QED
    BY <1>1, <2>1, <2>2, <2>3 DEF SeenNodes, n
<1>2. CASE ~ (l > 0)
  <2> DEFINE n == f[- l]
  <2>1. /\ n.leaf \in BOOLEAN /\ n.num \in 0 .. Size /\ n.keys \in [0 .. Size - 1 -> Nat]
        /\ n.ptrs \in [0 .. Size -> Nat]
    BY <1>2, Numbers DEF LinesOf
  <2> HIDE DEF n
  <2>2. Seen(h, f, l) = [leaf |-> n.leaf, num |-> n.num, keys |-> n.keys,
                         below |-> [i \in 0 .. Size |-> - n.ptrs[i]]]
    BY <1>2 DEF Seen, n
  <2>3. [i \in 0 .. Size |-> - n.ptrs[i]] \in [0 .. Size -> Int]
    <3>1. \A i \in 0 .. Size : n.ptrs[i] \in Nat
      BY <2>1
    <3>2. \A i \in 0 .. Size : - n.ptrs[i] \in Int
      BY <3>1
    <3>3. QED
      BY <3>2, Zenon
  <2>4. QED
    BY <1>2, <2>1, <2>2, <2>3 DEF SeenNodes, n
<1>3. QED
  BY <1>1, <1>2

-----------------------------------------------------------------------------
\* Walks in a tree

\* The rest of a node that gets a child.
LEMMA KidSetKeeps ==
  ASSUME NEW n \in NodesOf(Nat), NEW i \in 0 .. Size, NEW id \in Nat
  PROVE  LET k == [n EXCEPT !.kids[i] = id] IN
         k.line = n.line /\ Content(k) = Content(n)
<1> DEFINE k == [n EXCEPT !.kids[i] = id]
<1>1. k.line = n.line /\ k.leaf = n.leaf /\ k.num = n.num /\ k.keys = n.keys /\ k.ptrs = n.ptrs
  BY DEF NodesOf
<1> HIDE DEF k
<1>2. k.line = n.line /\ Content(k) = Content(n)
  BY <1>1 DEF Content
<1>3. QED
  BY <1>2 DEF k

\* A line that a node is made of is what the node has to say.
LEMMA ContentOfLine ==
  ASSUME NEW l \in LinesOf(Nat), NEW parent, NEW a, NEW line
  PROVE  LET n == Node_From(l, parent, a, line) IN
         /\ Content(n) = l /\ n.line = line /\ n.keys = l.keys /\ n.ptrs = l.ptrs /\ ~ n.vol /\ n.addr = a
         /\ n.leaf = l.leaf /\ n.num = l.num /\ \A i \in 0 .. Size : n.kids[i] = 0
BY DEF LinesOf, Content, Node_From

\* The nodes of a heap.
LEMMA HeapNodes ==
  ASSUME NEW P, NEW h \in AnyHeapsOf(P)
  PROVE  /\ DOMAIN h \subseteq Nat \ {0} /\ IsFiniteSet(DOMAIN h)
         /\ h = [z \in DOMAIN h |-> h[z]]
         /\ \A z \in DOMAIN h : /\ h[z] \in NodesOf(P) /\ Sound(h[z])
                                /\ \A i \in 0 .. Size : h[z].kids[i] \in DOMAIN h \cup {0}
BY DEF AnyHeapsOf, IsHeap

\* The heaps between two operations are such heaps.
LEMMA HeapsAreAny == \A P : HeapsOf(P) \subseteq AnyHeapsOf(P)
BY DEF HeapsOf, AnyHeapsOf

\* A child in a slot of the tree: what the slot holds, on file and in the cache.
LEMMA SlotOfChild ==
  ASSUME NEW t, NEW h \in AnyHeapsOf(Nat), disk \in CachesOf(Nat), Keeping(t, h, freed),
         NEW c, CacheTrue(c, freed), NEW y \in t.nodes, ~ (t.loc[y] > 0)
  PROVE  LET a == - t.loc[y] IN
         /\ a \in Slots /\ a \in Uses(t) /\ a < pointer /\ a \notin free /\ a \notin freed
         /\ disk[a] \in LinesOf(Nat) /\ c[a] \in {NoLine, disk[a]} /\ t.loc[y] = - a
         /\ t.node[y] = Seen(h, disk, t.loc[y])
<1> DEFINE l == t.loc[y]
           a == - l
<1>1. a \in Slots /\ t.node[y] = Seen(h, disk, l) /\ l \in Int
  BY DEF Keeping, Represents, GoodTree, TreeShape
<1>2. l = - a
  BY <1>1
<1> HIDE DEF a
<1>3. a \in Uses(t)
  BY <1>1, <1>2 DEF Uses
<1>4. a < pointer /\ a \notin free /\ a \notin freed
  BY <1>3 DEF Keeping, Space
<1>5. disk[a] \in LinesOf(Nat)
  BY <1>1 DEF CachesOf
<1>6. c[a] \in {NoLine, disk[a]}
  BY <1>1, <1>4 DEF CacheTrue
<1>7. QED
  BY <1>1, <1>2, <1>3, <1>4, <1>5, <1>6 DEF a

\* Below a node is one place for every child.
LEMMA PlaceIsChild ==
  ASSUME NEW t, GoodTree(t), NEW x \in t.nodes, ~ t.node[x].leaf, NEW i \in 0 .. t.node[x].num,
         NEW y \in t.nodes, t.loc[y] = t.node[x].below[i]
  PROVE  IsChild(t, x, i, y)
<1>1. PICK c \in t.nodes : IsChild(t, x, i, c)
  BY DEF GoodTree, Branches
<1>2. t.loc[c] = t.loc[y]
  BY <1>1 DEF IsChild
<1>3. c = y
  BY <1>2 DEF GoodTree, Apart
<1>4. QED
  BY <1>1, <1>3

\* A child that was read is the same child of the same tree.
IsLoaded(t, u, y, id) ==
  /\ u.nodes = t.nodes /\ u.root = t.root /\ u.range = t.range /\ u.level = t.level /\ u.held = t.held
  /\ u.loc = [t.loc EXCEPT ![y] = id]

\* Reading a child from its slot leaves a good tree the same good tree, with the child in memory.
LEMMA ReadLoads ==
  ASSUME NEW m, m.heap \in HeapsOf(Nat), disk \in CachesOf(Nat), m.cache \in CachesOf(Nat),
         NEW t, Keeping(t, m.heap, freed), CacheTrue(m.cache, freed),
         NEW d, /\ d.x \in t.nodes /\ t.loc[d.x] = m.leaf /\ m.leaf > 0 /\ ~ t.node[d.x].leaf
                /\ d.i \in 0 .. t.node[d.x].num /\ m.heap[m.leaf].kids[d.i] = 0 /\ IsChild(t, d.x, d.i, d.y)
  PROVE  LET r == Read_Node_From_Pointer(m, m.leaf, d.i) IN
         /\ CacheTrue(r.cache, freed) /\ r.leaf > 0
         /\ \A z \in DOMAIN m.heap : r.heap[z].vol = m.heap[z].vol
         /\ \E u : Keeping(u, r.heap, freed) /\ IsLoaded(t, u, d.y, r.leaf)
<1> DEFINE h == m.heap
           x == d.x  y == d.y  i == d.i  p == m.leaf
           a == h[p].ptrs[i]
           id == New_Id(h)
           hit == Line(m.cache, a) # NoLine
           content == Line(IF hit THEN m.cache ELSE disk, a)
           child == Node_From(content, p, a, IF hit THEN 0 ELSE a)
           g == [h EXCEPT ![p].kids[i] = id]
           k == With(g, id, child)
           r == Read_Node_From_Pointer(m, p, i)
<1>1. r.heap = k /\ r.cache = [m.cache EXCEPT ![a] = content] /\ r.leaf = id
  BY DEF Read_Node_From_Pointer
<1>2. /\ h \in AnyHeapsOf(Nat) /\ DOMAIN h \subseteq Nat \ {0} /\ IsFiniteSet(DOMAIN h)
      /\ h = [z \in DOMAIN h |-> h[z]]
      /\ \A z \in DOMAIN h : h[z] \in NodesOf(Nat)
  BY HeapsAreAny, HeapNodes
<1>3. id \in Nat /\ id # 0 /\ id \notin DOMAIN h
  BY <1>2, NewIdIsNew
<1>4. /\ GoodTree(t) /\ TreeShape(t) /\ Apart(t)
      /\ \A z \in t.nodes : /\ IF t.loc[z] > 0 THEN t.loc[z] \in DOMAIN h ELSE - t.loc[z] \in Slots
                            /\ t.node[z] = Seen(h, disk, t.loc[z])
      /\ \A z \in DOMAIN h : \E w \in t.nodes : t.loc[w] = z
      /\ x \in t.nodes /\ t.loc[x] = p /\ p > 0 /\ p \in DOMAIN h /\ ~ t.node[x].leaf
      /\ i \in 0 .. t.node[x].num /\ h[p].kids[i] = 0 /\ IsChild(t, x, i, y) /\ y \in t.nodes
      /\ y # x /\ y # t.root
  <2>1. GoodTree(t)
    BY DEF Keeping, Represents
  <2>2. y # x /\ y # t.root
    BY <2>1, OneParent
  <2>3. QED
    BY <2>1, <2>2 DEF Keeping, Represents, GoodTree, IsChild
<1>5. /\ i \in 0 .. Size /\ t.loc \in [t.nodes -> Int] /\ t.node \in [t.nodes -> SeenNodes]
      /\ \A z \in t.nodes : t.node[z] \in SeenNodes /\ t.loc[z] \in Int /\ t.node[z].num \in 0 .. Size
      /\ Size \in Nat
  <2> HIDE DEF h, p, x, y, i, a, id, hit
  <2>1. /\ t.loc \in [t.nodes -> Int] /\ t.node \in [t.nodes -> SeenNodes]
        /\ \A z \in t.nodes : t.node[z] \in SeenNodes /\ t.loc[z] \in Int
    BY <1>4 DEF TreeShape
  <2>2. \A z \in t.nodes : t.node[z].num \in 0 .. Size
    BY <2>1 DEF SeenNodes
  <2>3. i \in 0 .. Size
    <3>1. t.node[x].num \in 0 .. Size /\ i \in 0 .. t.node[x].num
      BY <1>4, <2>2
    <3>2. QED
      BY <3>1, Numbers
  <2>4. QED
    BY <2>1, <2>2, <2>3, Numbers
<1>6. h[p] \in NodesOf(Nat) /\ a \in Nat /\ h[p].kids \in [0 .. Size -> Nat] /\ h[p].ptrs \in [0 .. Size -> Nat]
  BY <1>2, <1>4, <1>5 DEF NodesOf
<1>7. t.loc[y] = - a
  <2>1. t.loc[y] = t.node[x].below[i]
    BY <1>4 DEF IsChild
  <2>2. t.node[x] = Seen(h, disk, p) /\ p \in Int
    BY <1>4, <1>5
  <2> HIDE DEF h, p, x, y, i, id, hit
  <2>3. \A j \in 0 .. Size :
          Seen(h, disk, p).below[j] = IF p > 0 /\ h[p].kids[j] # 0 THEN h[p].kids[j] ELSE - h[p].ptrs[j]
    <3>1. p \in Int /\ p > 0 /\ IF p > 0 THEN h[p] \in NodesOf(Nat) ELSE disk[- p] \in LinesOf(Nat)
      BY <1>4, <1>6, <2>2
    <3>2. QED
      BY <3>1, SeenIsNode
  <2>4. QED
    BY <1>4, <1>5, <2>1, <2>2, <2>3
<1>8. ~ (t.loc[y] > 0) /\ - t.loc[y] = a /\ t.loc[y] = - a
  BY <1>6, <1>7
<1>0. /\ Keeping(t, h, freed) /\ CacheTrue(m.cache, freed) /\ m.cache \in CachesOf(Nat)
      /\ disk \in CachesOf(Nat) /\ p \in DOMAIN h /\ h \in AnyHeapsOf(Nat)
  BY <1>2, <1>4
<1> HIDE DEF h, x, y, i, p, a, id, hit
<1>9. /\ a \in Slots /\ a \in Uses(t) /\ a < pointer /\ a \notin free /\ a \notin freed
      /\ disk[a] \in LinesOf(Nat) /\ m.cache[a] \in {NoLine, disk[a]}
      /\ t.node[y] = Seen(h, disk, - a)
  <2>1. /\ - t.loc[y] \in Slots /\ - t.loc[y] \in Uses(t) /\ - t.loc[y] < pointer
        /\ - t.loc[y] \notin free /\ - t.loc[y] \notin freed
        /\ disk[- t.loc[y]] \in LinesOf(Nat) /\ m.cache[- t.loc[y]] \in {NoLine, disk[- t.loc[y]]}
        /\ t.node[y] = Seen(h, disk, t.loc[y])
    BY <1>0, <1>4, <1>8, SlotOfChild
  <2>2. QED
    BY <1>8, <2>1
<1>10. content = disk[a]
  BY <1>9 DEF Line, hit
<1> HIDE DEF content
<1>11. CacheTrue(r.cache, freed)
  <2>1. r.cache = [m.cache EXCEPT ![a] = disk[a]] /\ m.cache \in [Slots -> LinesOf(Nat)]
    BY <1>0, <1>1, <1>10 DEF CachesOf
  <2>2. \A b \in Slots : r.cache[b] = IF b = a THEN disk[a] ELSE m.cache[b]
    BY <2>1
  <2>3. ~ (~ (a < pointer))
    BY <1>9
  <2>4. QED
    BY <1>0, <1>9, <2>2, <2>3 DEF CacheTrue
<1> HIDE DEF r
<1>12. /\ Content(child) = disk[a] /\ child.keys = disk[a].keys /\ child.ptrs = disk[a].ptrs
       /\ ~ child.vol /\ child.addr = a /\ child.line \in {0, a}
       /\ child.leaf = disk[a].leaf /\ child.num = disk[a].num /\ \A j \in 0 .. Size : child.kids[j] = 0
  BY <1>9, <1>10, ContentOfLine
<1> HIDE DEF child
<1>13. /\ DOMAIN k = DOMAIN h \cup {id} /\ k[id] = child
       /\ \A z \in DOMAIN h : k[z] = IF z = p THEN [h[p] EXCEPT !.kids[i] = id] ELSE h[z]
  <2>1. DOMAIN g = DOMAIN h /\ \A z \in DOMAIN h : g[z] = IF z = p THEN [h[p] EXCEPT !.kids[i] = id] ELSE h[z]
    BY <1>2, <1>4
  <2> HIDE DEF g
  <2>2. /\ DOMAIN k = DOMAIN g \cup {id} /\ k[id] = child /\ \A z \in DOMAIN g \ {id} : k[z] = g[z]
    BY DEF k, With
  <2>3. QED
    BY <1>3, <2>1, <2>2
<1> HIDE DEF g, k
<1>14. \A z \in DOMAIN h :
         /\ k[z].leaf = h[z].leaf /\ k[z].num = h[z].num /\ k[z].keys = h[z].keys /\ k[z].ptrs = h[z].ptrs
         /\ k[z].vol = h[z].vol /\ k[z].addr = h[z].addr /\ k[z].line = h[z].line /\ Content(k[z]) = Content(h[z])
         /\ k[z] \in NodesOf(Nat)
         /\ \A j \in 0 .. Size : k[z].kids[j] = IF z = p /\ j = i THEN id ELSE h[z].kids[j]
  <2> TAKE z \in DOMAIN h
  <2>1. CASE z = p
    <3> DEFINE n == h[p]  new == [n EXCEPT !.kids[i] = id]
    <3>1. k[z] = new /\ h[z] = n /\ n \in NodesOf(Nat) /\ id \in Nat /\ i \in 0 .. Size
      BY <1>3, <1>5, <1>6, <1>13, <2>1
    <3> HIDE DEF n
    <3>2. /\ new \in NodesOf(Nat) /\ new.leaf = n.leaf /\ new.num = n.num
          /\ new.keys = n.keys /\ new.ptrs = n.ptrs /\ new.vol = n.vol /\ new.addr = n.addr
          /\ \A j \in 0 .. Size : new.kids[j] = IF j = i THEN id ELSE n.kids[j]
      BY <3>1, KidSet
    <3>3. new.line = n.line /\ Content(new) = Content(n)
      BY <3>1, KidSetKeeps
    <3> HIDE DEF new
    <3>4. QED
      BY <2>1, <3>1, <3>2, <3>3
  <2>2. CASE z # p
    BY <1>2, <1>13, <2>2
  <2>3. QED
    BY <2>1, <2>2
<1> DEFINE loc == [t.loc EXCEPT ![y] = id]
           node == [z \in t.nodes |-> Seen(k, disk, loc[z])]
           u == [nodes |-> t.nodes, root |-> t.root, range |-> t.range, level |-> t.level,
                 held |-> t.held, loc |-> loc, node |-> node]
<1>15. /\ loc \in [t.nodes -> Int] /\ loc[y] = id
       /\ \A z \in t.nodes : z # y => loc[z] = t.loc[z]
  BY <1>3, <1>4, <1>5
<1>16. IsLoaded(t, u, y, id)
  BY DEF IsLoaded
<1>17. /\ u.nodes = t.nodes /\ u.root = t.root /\ u.range = t.range /\ u.level = t.level
       /\ u.held = t.held /\ u.loc = loc /\ u.node = node
       /\ \A z \in t.nodes : node[z] = Seen(k, disk, loc[z])
  OBVIOUS
<1> HIDE DEF loc, node, u
<1>18. \A z \in t.nodes : z # y /\ loc[z] > 0 => loc[z] \in DOMAIN h /\ loc[z] # id
  BY <1>3, <1>4, <1>15
<1>19. ASSUME NEW z \in t.nodes
       PROVE  /\ IF loc[z] > 0 THEN loc[z] \in DOMAIN k ELSE - loc[z] \in Slots
              /\ node[z] \in SeenNodes /\ node[z].leaf = t.node[z].leaf /\ node[z].num = t.node[z].num
              /\ node[z].keys = t.node[z].keys
              /\ \A j \in 0 .. Size : node[z].below[j] = IF z = x /\ j = i THEN id ELSE t.node[z].below[j]
  <2>1. CASE z = y
    <3>1. node[y] = Seen(k, disk, id) /\ id > 0 /\ id \in Int
      BY <1>3, <1>15, <1>17, <2>1
    <3>2. k[id] \in NodesOf(Nat)
      <4>1. Node_From(disk[a], p, a, IF hit THEN 0 ELSE a) \in NodesOf(Nat)
        BY <1>2, <1>4, <1>6, <1>9, NodeFromLine
      <4>2. QED
        BY <1>10, <1>13, <4>1 DEF child
    <3>3. /\ Seen(k, disk, id) \in SeenNodes
          /\ Seen(k, disk, id).leaf = k[id].leaf /\ Seen(k, disk, id).num = k[id].num
          /\ Seen(k, disk, id).keys = k[id].keys
          /\ \A j \in 0 .. Size : Seen(k, disk, id).below[j] = IF k[id].kids[j] # 0 THEN k[id].kids[j] ELSE - k[id].ptrs[j]
      BY <3>1, <3>2, SeenIsNode
    <3> DEFINE q == - a
    <3>4. q \in Int /\ ~ (q > 0) /\ - q = a
      BY <1>6
    <3> HIDE DEF q
    <3>5. /\ Seen(h, disk, q).leaf = disk[a].leaf /\ Seen(h, disk, q).num = disk[a].num
          /\ Seen(h, disk, q).keys = disk[a].keys
          /\ \A j \in 0 .. Size : Seen(h, disk, q).below[j] = - disk[a].ptrs[j]
      <4>1. IF q > 0 THEN h[q] \in NodesOf(Nat) ELSE disk[- q] \in LinesOf(Nat)
        BY <1>9, <3>4
      <4>2. LET n == IF q > 0 THEN h[q] ELSE disk[- q] IN
            /\ Seen(h, disk, q).leaf = n.leaf /\ Seen(h, disk, q).num = n.num /\ Seen(h, disk, q).keys = n.keys
            /\ \A j \in 0 .. Size :
                 Seen(h, disk, q).below[j] = IF q > 0 /\ n.kids[j] # 0 THEN n.kids[j] ELSE - n.ptrs[j]
        BY <3>4, <4>1, SeenIsNode
      <4>3. QED
        BY <3>4, <4>2
    <3>6. z # x
      BY <1>4, <2>1
    <3>11. t.node[z] = Seen(h, disk, q) /\ node[z] = Seen(k, disk, id) /\ k[id] = child
      BY <1>9, <1>13, <2>1, <3>1 DEF q
    <3>7. \A j \in 0 .. Size : node[z].below[j] = t.node[z].below[j]
      BY <1>12, <3>3, <3>5, <3>11
    <3>8. node[z].leaf = t.node[z].leaf /\ node[z].num = t.node[z].num /\ node[z].keys = t.node[z].keys
      BY <1>12, <3>3, <3>5, <3>11
    <3>9. loc[z] = id /\ id > 0 /\ id \in DOMAIN k
      BY <1>13, <1>15, <2>1, <3>1
    <3>10. QED
      BY <2>1, <3>1, <3>3, <3>6, <3>7, <3>8, <3>9
  <2>2. CASE z # y /\ loc[z] > 0
    <3> DEFINE q == t.loc[z]
    <3>1. loc[z] = q /\ q > 0 /\ q \in DOMAIN h /\ q \in Int /\ q \in DOMAIN k
      BY <1>4, <1>5, <1>13, <1>15, <2>2
    <3>2. z = x <=> q = p
      BY <1>4 DEF Apart
    <3> HIDE DEF q
    <3>3. node[z] = Seen(k, disk, q) /\ t.node[z] = Seen(h, disk, q)
      BY <1>4, <1>17, <3>1 DEF q
    <3>4. k[q] \in NodesOf(Nat) /\ h[q] \in NodesOf(Nat)
      BY <1>2, <1>14, <3>1
    <3>5. /\ Seen(k, disk, q) \in SeenNodes
          /\ Seen(k, disk, q).leaf = k[q].leaf /\ Seen(k, disk, q).num = k[q].num
          /\ Seen(k, disk, q).keys = k[q].keys
          /\ \A j \in 0 .. Size : Seen(k, disk, q).below[j] = IF k[q].kids[j] # 0 THEN k[q].kids[j] ELSE - k[q].ptrs[j]
      BY <3>1, <3>4, SeenIsNode
    <3>6. /\ Seen(h, disk, q).leaf = h[q].leaf /\ Seen(h, disk, q).num = h[q].num
          /\ Seen(h, disk, q).keys = h[q].keys
          /\ \A j \in 0 .. Size : Seen(h, disk, q).below[j] = IF h[q].kids[j] # 0 THEN h[q].kids[j] ELSE - h[q].ptrs[j]
      BY <3>1, <3>4, SeenIsNode
    <3>7. ASSUME NEW j \in 0 .. Size
          PROVE  node[z].below[j] = IF z = x /\ j = i THEN id ELSE t.node[z].below[j]
      <4>1. k[q].kids[j] = IF q = p /\ j = i THEN id ELSE h[q].kids[j]
        BY <1>14, <3>1
      <4>2. k[q].ptrs = h[q].ptrs
        BY <1>14, <3>1
      <4>3. QED
        BY <1>3, <3>2, <3>3, <3>5, <3>6, <4>1, <4>2
    <3>8. QED
      BY <1>14, <3>1, <3>3, <3>5, <3>6, <3>7
  <2>3. CASE z # y /\ ~ (loc[z] > 0)
    <3>1. loc[z] = t.loc[z] /\ z # x /\ - loc[z] \in Slots
      BY <1>4, <1>15, <2>3
    <3>2. Seen(k, disk, t.loc[z]) = Seen(h, disk, t.loc[z])
      BY <2>3, <3>1, Zenon DEF Seen
    <3>3. node[z] = t.node[z]
      BY <1>4, <1>17, <3>1, <3>2
    <3>4. QED
      BY <1>5, <2>3, <3>1, <3>3
  <2>4. QED
    BY <2>1, <2>2, <2>3
<1>20. IsMoved(t, u)
  <2>1. node \in [t.nodes -> SeenNodes]
    BY <1>19 DEF node
  <2>2. \A z, w \in t.nodes : z # w => loc[z] # loc[w]
    <3>1. \A z \in t.nodes : z # y => t.loc[z] # id
      BY <1>3, <1>4
    <3>2. QED
      BY <1>4, <1>15, <3>1 DEF Apart
  <2>3. ASSUME NEW z \in t.nodes, ~ t.node[z].leaf, NEW j \in 0 .. t.node[z].num, NEW w \in t.nodes,
               t.loc[w] = t.node[z].below[j]
        PROVE  loc[w] = node[z].below[j]
    <3>1. IsChild(t, z, j, w)
      BY <1>4, <2>3, PlaceIsChild
    <3>2. j \in 0 .. Size
      BY <1>5, <2>3
    <3>3. w = y => z = x /\ j = i
      BY <1>4, <3>1, OneParent
    <3>4. z = x /\ j = i => w = y
      BY <1>4, <2>3 DEF Apart, IsChild
    <3>5. QED
      BY <1>15, <1>19, <2>3, <3>2, <3>3, <3>4
  <2>4. QED
    BY <1>15, <1>17, <1>19, <2>1, <2>2, <2>3 DEF IsMoved
<1>21. GoodTree(u)
  BY <1>4, <1>20, TreeMoved
<1>22. Represents(u, k, disk)
  <2>1. \A q \in DOMAIN k : \E z \in t.nodes : loc[z] = q
    <3> SUFFICES ASSUME NEW q \in DOMAIN k
                 PROVE  \E z \in t.nodes : loc[z] = q
      OBVIOUS
    <3>1. CASE q = id
      BY <1>4, <1>15, <3>1
    <3>2. CASE q \in DOMAIN h
      <4>1. PICK z \in t.nodes : t.loc[z] = q
        BY <1>4, <3>2
      <4>2. z # y
        BY <1>2, <1>8, <3>2, <4>1
      <4>3. QED
        BY <1>15, <4>1, <4>2
    <3>3. QED
      BY <1>13, <3>1, <3>2
  <2>2. QED
    BY <1>17, <1>19, <1>21, <2>1 DEF Represents
<1>23. Uses(u) \subseteq Uses(t) /\ a \notin Uses(u)
  <2>1. \A b \in Slots : b \in Nat /\ b > 0
    BY BoundsAssumption DEF Slots
  <2>2. ASSUME NEW b \in Slots, NEW z \in t.nodes, loc[z] = - b
        PROVE  z # y /\ t.loc[z] = - b /\ b # a
    <3>1. z # y
      BY <1>3, <1>15, <2>1, <2>2
    <3>2. t.loc[z] = - b /\ t.loc[z] # t.loc[y]
      BY <1>4, <1>15, <2>2, <3>1 DEF Apart
    <3>3. QED
      BY <1>7, <3>1, <3>2
  <2>3. QED
    BY <1>17, <2>2 DEF Uses
<1>24. Space(u, k, freed)
  <2>1. Space(t, h, freed)
    BY <1>0 DEF Keeping
  <2>4. a # 0
    BY <1>9, BoundsAssumption DEF Slots
  <2>2. ASSUME NEW n \in DOMAIN k
        PROVE  /\ k[n].addr # 0 => /\ k[n].addr \in Slots \ Uses(u) /\ k[n].addr < pointer
                                   /\ k[n].addr \notin free /\ k[n].addr \notin freed
                                   /\ \A w \in DOMAIN k : k[w].addr = k[n].addr => w = n
               /\ ~ k[n].vol => k[n].addr # 0 /\ Content(k[n]) = disk[k[n].addr]
               /\ k[n].line # 0 => k[n].line \in freed \/ (~ k[n].vol /\ k[n].line = k[n].addr)
    <3>1. \A w \in DOMAIN h : h[w].addr # a
      BY <1>9, <2>1, <2>4 DEF Space
    <3>2. CASE n = id
      <4>1. k[n].addr = a /\ a # 0 /\ ~ k[n].vol /\ Content(k[n]) = disk[a] /\ k[n].line \in {0, a}
        BY <1>12, <1>13, <2>4, <3>2
      <4>2. \A w \in DOMAIN k : k[w].addr = a => w = n
        BY <1>13, <1>14, <3>1, <3>2
      <4>3. QED
        BY <1>9, <1>23, <4>1, <4>2
    <3>3. CASE n \in DOMAIN h
      <4>1. /\ k[n].vol = h[n].vol /\ k[n].addr = h[n].addr /\ k[n].line = h[n].line /\ Content(k[n]) = Content(h[n])
        BY <1>14, <3>3
      <4>2. \A w \in DOMAIN k : h[n].addr # 0 /\ k[w].addr = k[n].addr => w = n
        <5> SUFFICES ASSUME NEW w \in DOMAIN k, h[n].addr # 0, k[w].addr = k[n].addr
                     PROVE  w = n
          OBVIOUS
        <5>0. k[w].addr = k[n].addr
          OBVIOUS
        <5>1. w # id
          <6>1. k[id].addr = a /\ k[n].addr # a
            BY <1>12, <1>13, <3>1, <3>3, <4>1
          <6>2. QED
            BY <5>0, <6>1
        <5>2. w \in DOMAIN h /\ h[w].addr = h[n].addr
          BY <1>13, <1>14, <4>1, <5>0, <5>1
        <5>3. QED
          BY <2>1, <3>3, <5>2 DEF Space
      <4>3. QED
        BY <1>23, <2>1, <3>3, <4>1, <4>2 DEF Space
    <3>4. QED
      BY <1>13, <3>2, <3>3
  <2>3. QED
    BY <1>23, <2>1, <2>2 DEF Space
<1>25. QED
  <2>1. r.leaf > 0
    BY <1>1, <1>3
  <2>2. \A z \in DOMAIN h : r.heap[z].vol = h[z].vol
    BY <1>1, <1>14
  <2>3. Keeping(u, r.heap, freed) /\ IsLoaded(t, u, y, r.leaf)
    BY <1>1, <1>16, <1>22, <1>24 DEF Keeping
  <2>4. QED
    BY <1>11, <2>1, <2>2, <2>3 DEF r, h, y, p, i

\* A walk that looks for key: its tree, which holds K, and the node it is at.
Walking(m, key, K) ==
  /\ CacheTrue(m.cache, freed) /\ root \in DOMAIN m.heap /\ m.heap[root].vol /\ m.leaf # 0
  /\ \E t : /\ Keeping(t, m.heap, freed) /\ t.loc[t.root] = root /\ t.held = K
            /\ \E x \in t.nodes : t.loc[x] = m.leaf /\ key \in t.range[x]

\* What a walk sees of a node of its heap.
LEMMA SeenInHeap ==
  ASSUME NEW h \in AnyHeapsOf(Nat), NEW f, NEW p \in DOMAIN h
  PROVE  /\ p > 0 /\ p \in Int /\ Seen(h, f, p) \in SeenNodes
         /\ Seen(h, f, p).leaf = h[p].leaf /\ Seen(h, f, p).num = h[p].num /\ Seen(h, f, p).keys = h[p].keys
         /\ \A i \in 0 .. Size :
              Seen(h, f, p).below[i] = IF h[p].kids[i] # 0 THEN h[p].kids[i] ELSE - h[p].ptrs[i]
<1>1. p > 0 /\ p \in Int /\ h[p] \in NodesOf(Nat)
  BY HeapNodes
<1>2. IF p > 0 THEN h[p] \in NodesOf(Nat) ELSE f[- p] \in LinesOf(Nat)
  BY <1>1
<1>3. LET n == IF p > 0 THEN h[p] ELSE f[- p] IN
      /\ Seen(h, f, p) \in SeenNodes
      /\ Seen(h, f, p).leaf = n.leaf /\ Seen(h, f, p).num = n.num /\ Seen(h, f, p).keys = n.keys
      /\ \A i \in 0 .. Size :
           Seen(h, f, p).below[i] = IF p > 0 /\ n.kids[i] # 0 THEN n.kids[i] ELSE - n.ptrs[i]
  BY <1>1, <1>2, SeenIsNode
<1>4. QED
  BY <1>1, <1>3

\* The node of the tree that a node of the heap is.
LEMMA NodeInHeap ==
  ASSUME NEW h \in AnyHeapsOf(Nat), NEW f, NEW t, Represents(t, h, f), NEW x \in t.nodes,
         t.loc[x] \in DOMAIN h
  PROVE  LET p == t.loc[x] IN
         /\ p > 0 /\ p \in Int /\ t.node[x] \in SeenNodes
         /\ t.node[x].leaf = h[p].leaf /\ t.node[x].num = h[p].num /\ t.node[x].keys = h[p].keys
         /\ h[p].num \in 0 .. Size /\ h[p].keys \in [0 .. Size - 1 -> Nat]
         /\ \A i \in 0 .. Size :
              t.node[x].below[i] = IF h[p].kids[i] # 0 THEN h[p].kids[i] ELSE - h[p].ptrs[i]
<1> DEFINE p == t.loc[x]
<1>1. t.node[x] = Seen(h, f, p) /\ h[p] \in NodesOf(Nat) /\ p \in DOMAIN h
  BY HeapNodes DEF Represents
<1> HIDE DEF p
<1>2. h[p].num \in 0 .. Size /\ h[p].keys \in [0 .. Size - 1 -> Nat]
  BY <1>1 DEF NodesOf
<1>3. QED
  BY <1>1, <1>2, SeenInHeap DEF p

\* A round goes down to the child that is there for the key.
LEMMA RoundWalks ==
  ASSUME disk \in CachesOf(Nat), NEW h, NEW m \in WalksOf(Nat, h), NEW key \in Keys, NEW K,
         Walking(m, key, K)
  PROVE  Walking(Find_Round(m, key), key, K)
<1> DEFINE p == m.leaf  g == m.heap
           n == g[p]
           i == Child_Index(n, key)
           down == IF n.kids[i] # 0
                   THEN [m EXCEPT !.leaf = n.kids[i]]
                   ELSE Read_Node_From_Pointer(m, p, i)
<1>1. /\ m \in [heap : HeapsOf(Nat), cache : CachesOf(Nat), leaf : Nat]
      /\ g \in HeapsOf(Nat) /\ g \in AnyHeapsOf(Nat) /\ m.cache \in CachesOf(Nat) /\ p # 0 /\ p \in DOMAIN g
      /\ CacheTrue(m.cache, freed) /\ root \in DOMAIN g /\ g[root].vol /\ key \in Nat
  BY HeapsAreAny, KeysAssumption DEF WalksOf, Walking, Stands
<1>2. PICK t : /\ Keeping(t, g, freed) /\ t.loc[t.root] = root /\ t.held = K
               /\ \E x \in t.nodes : t.loc[x] = p /\ key \in t.range[x]
  BY DEF Walking
<1>3. PICK x \in t.nodes : t.loc[x] = p /\ key \in t.range[x]
  BY <1>2
<1>4. CASE n.leaf
  <2>1. Find_Round(m, key) = m
    BY <1>4 DEF Find_Round
  <2>2. QED
    BY <2>1
<1>5. CASE ~ n.leaf
  <2>1. GoodTree(t) /\ Represents(t, g, disk) /\ Belongs(t, x) /\ Branches(t)
    BY <1>2, <1>3 DEF Keeping, Represents, GoodTree
  <2> HIDE DEF p, g, n, i
  <2>2. /\ p > 0 /\ p \in Int /\ t.node[x] \in SeenNodes
        /\ t.node[x].leaf = n.leaf /\ t.node[x].num = n.num /\ t.node[x].keys = n.keys
        /\ n.num \in 0 .. Size /\ n.keys \in [0 .. Size - 1 -> Nat]
        /\ \A j \in 0 .. Size :
             t.node[x].below[j] = IF n.kids[j] # 0 THEN n.kids[j] ELSE - n.ptrs[j]
    <3>1. t.loc[x] \in DOMAIN g
      BY <1>1, <1>3
    <3>2. LET q == t.loc[x] IN
          /\ q > 0 /\ q \in Int /\ t.node[x] \in SeenNodes
          /\ t.node[x].leaf = g[q].leaf /\ t.node[x].num = g[q].num /\ t.node[x].keys = g[q].keys
          /\ g[q].num \in 0 .. Size /\ g[q].keys \in [0 .. Size - 1 -> Nat]
          /\ \A j \in 0 .. Size :
               t.node[x].below[j] = IF g[q].kids[j] # 0 THEN g[q].kids[j] ELSE - g[q].ptrs[j]
      BY <1>1, <1>3, <2>1, <3>1, NodeInHeap
    <3>3. QED
      BY <1>3, <3>2 DEF n
  <2>3. InOrder(n) /\ InOrder(t.node[x])
    BY <2>1, <2>2 DEF Belongs, InOrder
  <2>4. i \in 0 .. n.num /\ LiesAt(n, i, key) /\ i \in 0 .. Size
    <3>1. Child_Index(n, key) \in 0 .. n.num
      BY <2>2, ChildIndexInRange
    <3>2. \A j \in 0 .. n.num : LiesAt(n, j, key) <=> j = Child_Index(n, key)
      BY <1>1, <2>2, <2>3, ChildIsThere
    <3>3. QED
      BY <2>2, <3>1, <3>2, Numbers DEF i
  <2>5. PICK y \in t.nodes : IsChild(t, x, i, y)
    BY <1>3, <1>5, <2>1, <2>2, <2>4 DEF Branches
  <2>6. /\ key \in t.range[y] /\ y # t.root /\ t.node[y].num # 0 /\ t.loc[y] = t.node[x].below[i]
    <3>1. LiesAt(t.node[x], i, key)
      BY <2>2, <2>4 DEF LiesAt
    <3>2. y # t.root
      BY <1>3, <2>1, <2>2, <2>4, <2>5, OneParent
    <3>3. QED
      BY <1>3, <2>1, <2>5, <3>1, <3>2 DEF IsChild, GoodTree, Belongs
  <2>7. \E u : /\ Keeping(u, down.heap, freed) /\ u.loc[u.root] = root /\ u.held = K
               /\ down.heap \in HeapsOf(Nat) /\ CacheTrue(down.cache, freed)
               /\ down.leaf # 0 /\ down.leaf \in DOMAIN down.heap
               /\ root \in DOMAIN down.heap /\ down.heap[root].vol
               /\ y \in u.nodes /\ u.loc[y] = down.leaf /\ key \in u.range[y] /\ y # u.root
    <3>1. CASE n.kids[i] # 0
      <4>1. down.heap = g /\ down.cache = m.cache /\ down.leaf = n.kids[i]
        <5>1. down = [heap |-> g, cache |-> m.cache, leaf |-> n.kids[i]]
          BY <1>1, <3>1 DEF g
        <5> HIDE DEF down
        <5>2. QED
          BY <5>1
      <4>2. t.loc[y] = n.kids[i]
        BY <2>2, <2>4, <2>6, <3>1
      <4>3. n.kids[i] \in DOMAIN g
        BY <1>1, <2>4, <3>1, HeapNodes DEF n
      <4> HIDE DEF down
      <4>4. QED
        BY <1>1, <1>2, <2>5, <2>6, <3>1, <4>1, <4>2, <4>3
    <3>2. CASE n.kids[i] = 0
      <4>1. down = Read_Node_From_Pointer(m, p, i)
        BY <3>2
      <4> DEFINE d == [x |-> x, i |-> i, y |-> y]
      <4>2. d.x = x /\ d.i = i /\ d.y = y
        OBVIOUS
      <4> HIDE DEF d, down
      <4>3. /\ m.heap \in HeapsOf(Nat) /\ m.cache \in CachesOf(Nat)
            /\ Keeping(t, m.heap, freed) /\ CacheTrue(m.cache, freed)
            /\ d.x \in t.nodes /\ t.loc[d.x] = m.leaf /\ m.leaf > 0 /\ ~ t.node[d.x].leaf
            /\ d.i \in 0 .. t.node[d.x].num /\ m.heap[m.leaf].kids[d.i] = 0 /\ IsChild(t, d.x, d.i, d.y)
        BY <1>1, <1>2, <1>3, <1>5, <2>2, <2>4, <2>5, <3>2, <4>2 DEF g, p, n
      <4>4. LET r == Read_Node_From_Pointer(m, m.leaf, d.i) IN
            /\ CacheTrue(r.cache, freed) /\ r.leaf > 0
            /\ \A z \in DOMAIN m.heap : r.heap[z].vol = m.heap[z].vol
            /\ \E u : Keeping(u, r.heap, freed) /\ IsLoaded(t, u, d.y, r.leaf)
        BY <4>3, ReadLoads
      <4>5. PICK u : Keeping(u, down.heap, freed) /\ IsLoaded(t, u, y, down.leaf)
        BY <4>1, <4>2, <4>4 DEF p
      <4>6. /\ down \in [heap : HeapsOf(Nat), cache : CachesOf(Nat), leaf : Nat]
            /\ down.leaf # 0 /\ down.leaf \in DOMAIN down.heap
        <5>1. Inner(m.heap, m.leaf) /\ i \in 0 .. m.heap[m.leaf].num /\ m.heap[m.leaf].kids[i] = 0
          <6>1. n.num # 0
            <7>1. Stands(m.heap, m.leaf)
              BY <1>1 DEF WalksOf, p
            <7>2. QED
              BY <1>5, <7>1 DEF Stands, n, g, p
          <6>2. QED
            BY <1>1, <1>5, <2>4, <3>2, <6>1 DEF Inner, n, g, p
        <5>2. 0 \in Nat
          OBVIOUS
        <5>3. QED
          BY <4>1, <5>1, <5>2, ReadKeeps DEF p
      <4>7. /\ u.nodes = t.nodes /\ u.root = t.root /\ u.range = t.range /\ u.held = t.held
            /\ u.loc[y] = down.leaf /\ u.loc[t.root] = root
        <5>1. t.loc \in [t.nodes -> Int] /\ t.root \in t.nodes
          BY <2>1 DEF GoodTree, TreeShape
        <5>2. QED
          BY <1>2, <2>5, <2>6, <4>5, <5>1 DEF IsLoaded
      <4>8. root \in DOMAIN down.heap /\ down.heap[root].vol
        <5>1. root > 0
          BY <1>1, HeapNodes
        <5>2. root \in DOMAIN down.heap
          BY <2>1, <4>5, <4>7, <5>1 DEF Keeping, Represents, GoodTree, TreeShape
        <5>3. down.heap[root].vol = g[root].vol
          BY <1>1, <4>1, <4>2, <4>4, Zenon DEF g, p
        <5>4. QED
          BY <1>1, <5>2, <5>3
      <4>9. QED
        BY <1>2, <2>5, <2>6, <4>1, <4>2, <4>4, <4>5, <4>6, <4>7, <4>8 DEF p
    <3>3. QED
      BY <3>1, <3>2
  <2>8. Find_Round(m, key) = IF down.heap[down.leaf].num = 0 THEN [down EXCEPT !.leaf = 0] ELSE down
    BY <1>1, <1>5 DEF Find_Round, n, g, p, i
  <2> HIDE DEF down
  <2>9. PICK u : /\ Keeping(u, down.heap, freed) /\ u.loc[u.root] = root /\ u.held = K
                 /\ down.heap \in HeapsOf(Nat) /\ CacheTrue(down.cache, freed)
                 /\ down.leaf # 0 /\ down.leaf \in DOMAIN down.heap
                 /\ root \in DOMAIN down.heap /\ down.heap[root].vol
                 /\ y \in u.nodes /\ u.loc[y] = down.leaf /\ key \in u.range[y] /\ y # u.root
    BY <2>7
  <2>10. down.heap[down.leaf].num # 0
    <3>1. Represents(u, down.heap, disk) /\ Belongs(u, y) /\ down.heap \in AnyHeapsOf(Nat)
      BY <2>9, HeapsAreAny DEF Keeping, Represents, GoodTree
    <3>2. u.node[y].num # 0
      BY <2>9, <3>1 DEF Belongs
    <3>3. u.node[y].num = down.heap[u.loc[y]].num
      BY <2>9, <3>1, NodeInHeap
    <3>4. QED
      BY <2>9, <3>2, <3>3
  <2>11. QED
    BY <2>8, <2>9, <2>10 DEF Walking
<1>6. QED
  BY <1>4, <1>5

\* A walk ends at a node that is there for the key.
LEMMA WalkEnds ==
  ASSUME Holds(Nat), CacheTrue(cache, freed), heap[root].vol, NEW t, Keeping(t, heap, freed),
         t.loc[t.root] = root, NEW key \in Keys
  PROVE  Walking(Find_Leaf_Node(key), key, t.held)
<1> DEFINE S == {w \in WalksOf(Nat, heap) : Walking(w, key, t.held)}
           start == [heap |-> heap, cache |-> cache, leaf |-> root]
           next == [x \in S |-> Find_Round(x, key)]
           E(f) == f = [r \in Nat |-> IF r = 0 THEN {start} ELSE {Find_Round(x, key) : x \in f[r - 1]}]
           after == CHOOSE f : E(f)
<1>1. start \in S
  <2>1. /\ root \in Nat /\ root \in DOMAIN heap /\ root # 0
        /\ heap \in HeapsOf(Nat) /\ cache \in CachesOf(Nat) /\ Stands(heap, root) /\ Links(heap)
    BY DEF Holds, Tree, Stands, HeapsOf, IsHeap
  <2>2. Extends(heap, heap)
    BY DEF Extends
  <2>3. t.root \in t.nodes /\ key \in t.range[t.root]
    BY DEF Keeping, Represents, GoodTree, TreeShape, Topped
  <2>4. Walking(start, key, t.held)
    BY <2>1, <2>3 DEF Walking
  <2>5. QED
    BY <2>1, <2>2, <2>4 DEF WalksOf
<1>2. \A x \in S : Find_Round(x, key) \in S
  <2>1. 0 \in Nat /\ disk \in CachesOf(Nat)
    BY DEF Holds
  <2>2. QED
    BY <2>1, FindRoundKeeps, RoundWalks
<1> HIDE DEF S, start
<1>3. next \in [S -> S] /\ \A x \in S : next[x] = Find_Round(x, key)
  BY <1>2
<1> HIDE DEF next
<1>4. PICK f : IsLoop(S, start, next, f)
  BY <1>1, <1>3, LoopExists
<1>5. E(f)
  <2>1. ASSUME NEW r \in Nat, r # 0
        PROVE  {next[x] : x \in f[r - 1]} = {Find_Round(x, key) : x \in f[r - 1]}
    <3>1. r - 1 \in Nat
      BY <2>1
    <3>2. \A x \in f[r - 1] : next[x] = Find_Round(x, key)
      BY <1>3, <1>4, <3>1 DEF IsLoop
    <3>3. QED
      BY <3>2
  <2>2. f = [r \in Nat |-> IF r = 0 THEN {start} ELSE {next[x] : x \in f[r - 1]}]
    BY <1>4 DEF IsLoop
  <2>3. QED
    BY <2>1, <2>2
<1>6. E(after)
  <2> HIDE DEF E
  <2>1. QED
    BY <1>5
<1> HIDE DEF after
<1>7. after[0] = {start}
  BY <1>6
<1>8. ASSUME NEW r \in Nat, after[r] \subseteq S
      PROVE  after[r + 1] = {next[x] : x \in after[r]}
  <2>1. after[r + 1] = {Find_Round(x, key) : x \in after[r]}
    <3>1. r + 1 \in Nat /\ r + 1 # 0 /\ (r + 1) - 1 = r
      OBVIOUS
    <3>2. QED
      BY <1>6, <3>1
  <2>2. QED
    BY <1>3, <1>8, <2>1
<1>9. Nodes_On_A_Path \in Nat
  <2>1. Cardinality(DOMAIN heap) \in Nat
    BY FS_CardinalityType DEF Holds, Tree, HeapsOf, IsHeap
  <2>2. QED
    BY <2>1, BoundsAssumption DEF Nodes_On_A_Path
<1>10. (CHOOSE last \in after[Nodes_On_A_Path] : TRUE) \in S
  BY <1>1, <1>3, <1>7, <1>8, <1>9, LoopStays
<1>11. Find_Leaf_Node(key) \in S
  BY <1>10 DEF Find_Leaf_Node, Iterated, after, start
<1>12. QED
  BY <1>11 DEF S

-----------------------------------------------------------------------------
\* Put, and the tree it makes

\* What a walk sees of a node in memory.
SeenOf(n) ==
  [leaf |-> n.leaf, num |-> n.num, keys |-> n.keys,
   below |-> [i \in 0 .. Size |-> IF n.kids[i] # 0 THEN n.kids[i] ELSE - n.ptrs[i]]]

\* It is seen at its place, and is as it is.
LEMMA SeenOfNode ==
  ASSUME NEW n \in NodesOf(Nat)
  PROVE  /\ SeenOf(n) \in SeenNodes /\ SeenOf(n).leaf = n.leaf /\ SeenOf(n).num = n.num
         /\ SeenOf(n).keys = n.keys
         /\ \A i \in 0 .. Size : SeenOf(n).below[i] = IF n.kids[i] # 0 THEN n.kids[i] ELSE - n.ptrs[i]
<1>1. /\ n.leaf \in BOOLEAN /\ n.num \in 0 .. Size /\ n.keys \in [0 .. Size - 1 -> Nat]
      /\ n.ptrs \in [0 .. Size -> Nat] /\ n.kids \in [0 .. Size -> Nat]
  BY DEF NodesOf
<1>2. [i \in 0 .. Size |-> IF n.kids[i] # 0 THEN n.kids[i] ELSE - n.ptrs[i]] \in [0 .. Size -> Int]
  <2>1. \A i \in 0 .. Size : (IF n.kids[i] # 0 THEN n.kids[i] ELSE - n.ptrs[i]) \in Int
    <3>1. \A i \in 0 .. Size : n.kids[i] \in Nat /\ n.ptrs[i] \in Nat
      BY <1>1
    <3>2. QED
      BY <3>1
  <2>2. QED
    BY <2>1, Zenon
<1>3. QED
  BY <1>1, <1>2 DEF SeenOf, SeenNodes

\* The place of a node does not matter.
LEMMA SeenAtPlace ==
  ASSUME NEW h, NEW f, NEW p, p > 0
  PROVE  Seen(h, f, p) = SeenOf(h[p])
BY DEF Seen, SeenOf

\* Heaps in which the same is seen.
SameSeen(h, k) ==
  DOMAIN k = DOMAIN h /\ \A x \in DOMAIN h : SeenOf(k[x]) = SeenOf(h[x])

\* A tree is represented by every heap in which the same is seen.
LEMMA SameTree ==
  ASSUME NEW h \in AnyHeapsOf(Nat), NEW k, SameSeen(h, k), NEW t, NEW f, Represents(t, h, f)
  PROVE  Represents(t, k, f)
<1>1. \A x \in t.nodes : t.node[x] = Seen(k, f, t.loc[x])
  <2> TAKE x \in t.nodes
  <2>1. t.node[x] = Seen(h, f, t.loc[x]) /\ (t.loc[x] > 0 => t.loc[x] \in DOMAIN h)
    BY DEF Represents
  <2>2. CASE t.loc[x] > 0
    BY <2>1, <2>2, SeenAtPlace DEF SameSeen
  <2>3. CASE ~ (t.loc[x] > 0)
    BY <2>1, <2>3, Zenon DEF Seen
  <2>4. QED
    BY <2>2, <2>3
<1>2. QED
  BY <1>1 DEF Represents, SameSeen

\* Nodes that look alike.
LEMMA SameLook ==
  ASSUME NEW n, NEW m, m.leaf = n.leaf, m.num = n.num, m.keys = n.keys, m.ptrs = n.ptrs, m.kids = n.kids
  PROVE  SeenOf(m) = SeenOf(n) /\ Content(m) = Content(n)
BY DEF SeenOf, Content

\* The parent of a node in memory is the node it is a child of.
LEMMA ParentOf ==
  ASSUME NEW h \in AnyHeapsOf(Nat), Joined(h), NEW f \in CachesOf(Nat), NEW t, Represents(t, h, f),
         NEW x \in t.nodes, t.loc[x] \in DOMAIN h, x # t.root
  PROVE  LET p == h[t.loc[x]].parent IN
         /\ p # 0 /\ p \in DOMAIN h
         /\ \E z \in t.nodes : /\ t.loc[z] = p /\ ~ t.node[z].leaf
                               /\ \E i \in 0 .. t.node[z].num : IsChild(t, z, i, x)
<1> DEFINE id == t.loc[x]
<1>1. GoodTree(t) /\ id \in DOMAIN h /\ id > 0
  BY HeapNodes DEF Represents
<1>2. PICK z \in t.nodes : ~ t.node[z].leaf /\ \E j \in 0 .. t.node[z].num : IsChild(t, z, j, x)
  BY <1>1 DEF GoodTree, Branches
<1>3. PICK i \in 0 .. t.node[z].num : IsChild(t, z, i, x)
  BY <1>2
<1>4. /\ t.node[z] \in SeenNodes /\ t.node[z] = Seen(h, f, t.loc[z]) /\ t.loc[z] \in Int
      /\ IF t.loc[z] > 0 THEN t.loc[z] \in DOMAIN h ELSE - t.loc[z] \in Slots
  BY <1>1 DEF Represents, GoodTree, TreeShape
<1>5. i \in 0 .. Size /\ id = t.node[z].below[i]
  <2>1. t.node[z].num \in 0 .. Size
    BY <1>4, SeenNode
  <2>2. QED
    BY <1>3, <2>1, Numbers DEF IsChild
<1> DEFINE q == t.loc[z]
<1> HIDE DEF id, q
<1>6. q > 0
  <2> SUFFICES ASSUME ~ (q > 0)
               PROVE  FALSE
    OBVIOUS
  <2> DEFINE l == f[- q]
  <2>1. l \in LinesOf(Nat) /\ q \in Int
    BY <1>4 DEF CachesOf, q
  <2> HIDE DEF l
  <2>2. Seen(h, f, q).below[i] = - l.ptrs[i]
    <3>1. IF q > 0 THEN h[q] \in NodesOf(Nat) ELSE f[- q] \in LinesOf(Nat)
      BY <2>1 DEF l
    <3>2. \A j \in 0 .. Size :
            Seen(h, f, q).below[j] =
              LET n == IF q > 0 THEN h[q] ELSE f[- q] IN
              IF q > 0 /\ n.kids[j] # 0 THEN n.kids[j] ELSE - n.ptrs[j]
      BY <2>1, <3>1, SeenIsNode
    <3>3. QED
      BY <1>5, <3>2 DEF l
  <2>3. l.ptrs[i] \in Nat
    BY <1>5, <2>1 DEF LinesOf
  <2>4. QED
    BY <1>1, <1>4, <1>5, <2>2, <2>3 DEF q
<1>7. q \in DOMAIN h /\ h[q] \in NodesOf(Nat) /\ t.node[z] = SeenOf(h[q])
  BY <1>4, <1>6, HeapNodes, SeenAtPlace DEF q
<1>8. h[q].kids[i] = id /\ h[q].num = t.node[z].num
  <2>1. id = IF h[q].kids[i] # 0 THEN h[q].kids[i] ELSE - h[q].ptrs[i]
    BY <1>5, <1>7, SeenOfNode
  <2>2. h[q].ptrs[i] \in Nat
    BY <1>5, <1>7 DEF NodesOf
  <2>3. QED
    BY <1>1, <1>7, <2>1, <2>2, SeenOfNode
<1>9. h[id].parent = q
  BY <1>1, <1>3, <1>7, <1>8 DEF Joined
<1>10. q # 0
  BY <1>6
<1>11. QED
  BY <1>2, <1>3, <1>7, <1>9, <1>10 DEF id, q

\* What is known of a node that is not full.
LEMMA RoomInNode ==
  ASSUME NEW n \in NodesOf(Nat), n.num < Size
  PROVE  /\ n.leaf \in BOOLEAN /\ n.num \in 0 .. Size - 1 /\ n.keys \in [0 .. Size - 1 -> Nat]
         /\ n.ptrs \in [0 .. Size -> Nat] /\ n.kids \in [0 .. Size -> Nat] /\ n.num \in 0 .. Size
         /\ n.num \in Nat /\ Size - 1 \in Nat /\ Size \in Nat
         /\ n.num + 1 \in 0 .. Size /\ n.num + 1 \in Nat
<1>1. /\ n.leaf \in BOOLEAN /\ n.num \in 0 .. Size /\ n.keys \in [0 .. Size - 1 -> Nat]
      /\ n.ptrs \in [0 .. Size -> Nat] /\ n.kids \in [0 .. Size -> Nat]
  BY DEF NodesOf
<1>2. Size \in Nat /\ Size - 1 \in Nat
  BY Numbers
<1> DEFINE num == n.num
<1>3. num \in 0 .. Size /\ num < Size
  BY <1>1
<1> HIDE DEF num
<1>4. num \in 0 .. Size - 1 /\ num \in Nat /\ num + 1 \in 0 .. Size /\ num + 1 \in Nat
  BY <1>2, <1>3
<1>5. QED
  BY <1>1, <1>2, <1>4 DEF num

\* The fields of a node that gets a key.
LEMMA GrownShape ==
  ASSUME NEW n \in NodesOf(Nat), n.num < Size, NEW key \in Nat, NEW address \in Nat, NEW child \in Nat
  PROVE  LET g == Grown(n, key, address, child)
             x == Cardinality({i \in 0 .. n.num - 1 : n.keys[i] < key})
         IN /\ g.leaf = n.leaf /\ g.num = n.num + 1 /\ g.line = n.line /\ g.vol = n.vol /\ g.addr = n.addr
            /\ g.keys = Shifted(n.keys, x, n.num, key)
            /\ g.ptrs = Shifted(n.ptrs, x + 1, n.num + 1, address)
            /\ g.kids = Shifted(n.kids, x + 1, n.num + 1, child)
            /\ g \in NodesOf(Nat)
<1>1. /\ n.leaf \in BOOLEAN /\ n.num \in 0 .. Size - 1 /\ n.keys \in [0 .. Size - 1 -> Nat]
      /\ n.ptrs \in [0 .. Size -> Nat] /\ n.kids \in [0 .. Size -> Nat]
  BY RoomInNode
<1>2. /\ n.num \in Nat /\ Size - 1 \in Nat /\ Size \in Nat
      /\ n.num + 1 \in 0 .. Size /\ n.num + 1 \in Nat
  BY RoomInNode
<1> DEFINE num == n.num
           x == Cardinality({i \in 0 .. num - 1 : n.keys[i] < key})
           keys == Shifted(n.keys, x, num, key)
           ptrs == Shifted(n.ptrs, x + 1, num + 1, address)
           kids == Shifted(n.kids, x + 1, num + 1, child)
           g == Grown(n, key, address, child)
<1>20. num \in Nat /\ num + 1 \in Nat /\ num + 1 \in 0 .. Size
  BY <1>2
<1>3. x \in Nat /\ x + 1 \in Nat
  <2> HIDE DEF num
  <2>1. {i \in 0 .. num - 1 : n.keys[i] < key} \in SUBSET (0 .. num - 1)
    OBVIOUS
  <2>2. x \in 0 .. num
    BY <1>20, <2>1, CountOfPositions
  <2>3. QED
    BY <1>20, <2>2
<1>4. g = [n EXCEPT !.keys = keys, !.ptrs = ptrs, !.kids = kids, !.num = num + 1]
  BY DEF Grown
<1> HIDE DEF x, num, g
<1>5. keys \in [0 .. Size - 1 -> Nat]
  <2>1. IsShifted(keys, n.keys, Size - 1, Nat, x, num, key)
    BY <1>1, <1>2, <1>20, <1>3, ShiftedShape
  <2>2. QED
    BY <2>1 DEF IsShifted
<1>6. ptrs \in [0 .. Size -> Nat]
  <2>1. IsShifted(ptrs, n.ptrs, Size, Nat, x + 1, num + 1, address)
    BY <1>1, <1>2, <1>20, <1>3, ShiftedShape
  <2>2. QED
    BY <2>1 DEF IsShifted
<1>7. kids \in [0 .. Size -> Nat]
  <2>1. IsShifted(kids, n.kids, Size, Nat, x + 1, num + 1, child)
    BY <1>1, <1>2, <1>20, <1>3, ShiftedShape
  <2>2. QED
    BY <2>1 DEF IsShifted
<1> HIDE DEF keys, ptrs, kids
<1>8. /\ g.leaf = n.leaf /\ g.num = num + 1 /\ g.line = n.line /\ g.vol = n.vol /\ g.addr = n.addr
      /\ g.keys = keys /\ g.ptrs = ptrs /\ g.kids = kids /\ g \in NodesOf(Nat)
  BY <1>20, <1>4, <1>5, <1>6, <1>7 DEF NodesOf
<1>9. QED
  BY <1>8 DEF num, x, keys, ptrs, kids, g

\* A node gets a key with a record or a child: what is seen of it is widened.
LEMMA GrownIsWidened ==
  ASSUME NEW n \in NodesOf(Nat), n.num < Size, NEW key \in Nat, NEW address \in Nat, NEW child \in Nat,
         InOrder(SeenOf(n)), ~ n.leaf => child # 0
  PROVE  LET g == Grown(n, key, address, child) IN
         /\ g \in NodesOf(Nat) /\ IsWidened(SeenOf(n), SeenOf(g), key, child)
         /\ g.line = n.line /\ g.vol = n.vol /\ g.addr = n.addr
<1>1. /\ n.leaf \in BOOLEAN /\ n.num \in 0 .. Size - 1 /\ n.keys \in [0 .. Size - 1 -> Nat]
      /\ n.ptrs \in [0 .. Size -> Nat] /\ n.kids \in [0 .. Size -> Nat] /\ n.num \in 0 .. Size
  BY RoomInNode
<1>2. /\ n.num \in Nat /\ Size - 1 \in Nat /\ Size \in Nat
      /\ n.num + 1 \in 0 .. Size /\ n.num + 1 \in Nat
  BY RoomInNode
<1> DEFINE num == n.num  s == SeenOf(n)
           x == Cardinality({i \in 0 .. num - 1 : n.keys[i] < key})
           g == Grown(n, key, address, child)
           u == SeenOf(g)
<1>20. num \in Nat /\ num + 1 \in 0 .. Size
  BY <1>2
<1>3. /\ g.leaf = n.leaf /\ g.num = n.num + 1 /\ g.line = n.line /\ g.vol = n.vol /\ g.addr = n.addr
      /\ g.keys = Shifted(n.keys, x, n.num, key)
      /\ g.ptrs = Shifted(n.ptrs, x + 1, n.num + 1, address)
      /\ g.kids = Shifted(n.kids, x + 1, n.num + 1, child)
      /\ g \in NodesOf(Nat)
  BY GrownShape
<1>4. /\ s \in SeenNodes /\ s.leaf = n.leaf /\ s.num = num /\ s.keys = n.keys
      /\ \A i \in 0 .. Size : s.below[i] = IF n.kids[i] # 0 THEN n.kids[i] ELSE - n.ptrs[i]
  BY SeenOfNode
<1>5. x \in 0 .. num /\ \A i \in 0 .. num - 1 : n.keys[i] < key <=> i < x
  <2>1. InOrder(n)
    BY <1>4 DEF InOrder
  <2>2. QED
    BY <1>1, <2>1, KeysCounted
<1> HIDE DEF x, s, g
<1>6. /\ u \in SeenNodes /\ u.leaf = g.leaf /\ u.num = g.num /\ u.keys = g.keys
      /\ \A i \in 0 .. Size : u.below[i] = IF g.kids[i] # 0 THEN g.kids[i] ELSE - g.ptrs[i]
  BY <1>3, SeenOfNode
<1>7. x \in Nat /\ x + 1 \in Nat
  BY <1>2, <1>5
<1> HIDE DEF u, num
<1>8. \A i \in 0 .. Size - 1 :
        g.keys[i] = IF i = x THEN key ELSE IF x < i /\ i <= num THEN n.keys[i - 1] ELSE n.keys[i]
  <2>1. IsShifted(g.keys, n.keys, Size - 1, Nat, x, num, key)
    BY <1>1, <1>2, <1>3, <1>7, ShiftedShape DEF num
  <2>2. QED
    BY <2>1 DEF IsShifted
<1>9. \A i \in 0 .. Size :
        g.ptrs[i] = IF i = x + 1 THEN address ELSE IF x + 1 < i /\ i <= num + 1 THEN n.ptrs[i - 1] ELSE n.ptrs[i]
  <2>1. IsShifted(g.ptrs, n.ptrs, Size, Nat, x + 1, num + 1, address)
    BY <1>1, <1>2, <1>3, <1>7, ShiftedShape DEF num
  <2>2. QED
    BY <2>1 DEF IsShifted
<1>10. \A i \in 0 .. Size :
        g.kids[i] = IF i = x + 1 THEN child ELSE IF x + 1 < i /\ i <= num + 1 THEN n.kids[i - 1] ELSE n.kids[i]
  <2>1. IsShifted(g.kids, n.kids, Size, Nat, x + 1, num + 1, child)
    BY <1>1, <1>2, <1>3, <1>7, ShiftedShape DEF num
  <2>2. QED
    BY <2>1 DEF IsShifted
<1>11. ASSUME ~ n.leaf, NEW i \in 0 .. num + 1
       PROVE  u.below[i] = IF i = x + 1 THEN child ELSE IF x + 1 < i THEN s.below[i - 1] ELSE s.below[i]
  <2>1. i \in 0 .. Size /\ i <= num + 1 /\ (x + 1 < i => i - 1 \in 0 .. Size)
    BY <1>2, <1>20, <1>7, <1>11
  <2>2. QED
    BY <1>4, <1>6, <1>9, <1>10, <1>11, <2>1
<1>12. IsWidened(s, u, key, child)
  BY <1>3, <1>4, <1>5, <1>6, <1>8, <1>11 DEF IsWidened, num
<1>13. QED
  BY <1>3, <1>12 DEF s, u, g

\* The parts of a full node, as they are seen.
LEMMA PartsOfNode ==
  ASSUME NEW n \in NodesOf(Nat), Sound(n), n.num = Size
  PROVE  /\ IsLowerPart(SeenOf(n), SeenOf(Left_Part(n))) /\ IsUpperPart(SeenOf(n), SeenOf(Right_Part(n)))
         /\ Middle(SeenOf(n)) = n.keys[IF n.leaf THEN Half + 1 ELSE Half]
         /\ Left_Part(n).line = n.line /\ Left_Part(n).vol = n.vol /\ Left_Part(n).addr = n.addr
         /\ Right_Part(n).line = 0 /\ Right_Part(n).vol /\ Right_Part(n).addr = 0
<1> DEFINE l == Left_Part(n)  r == Right_Part(n)  count == Size - Half - 1
<1>0. 0 \in Nat
  OBVIOUS
<1>1. /\ l \in NodesOf(Nat) /\ l.leaf = n.leaf /\ l.kids = n.kids /\ l.vol = n.vol /\ l.addr = n.addr
      /\ ~ n.leaf => l.num = Half /\ l.ptrs = n.ptrs
  BY <1>0, LeftIsSound
<1>2. /\ r \in NodesOf(Nat) /\ r.leaf = n.leaf /\ r.vol /\ r.num = count /\ IsUpper(n, r)
  BY <1>0, RightIsSound
<1>3. l.keys = n.keys /\ l.line = n.line /\ l.num = IF n.leaf THEN Half + 1 ELSE Half
  <2>1. n.leaf => l = [n EXCEPT !.num = Half + 1, !.ptrs = [n.ptrs EXCEPT ![0] = 0]]
    BY DEF Left_Part
  <2>2. ~ n.leaf => l = [n EXCEPT !.num = Half]
    BY DEF Left_Part
  <2> HIDE DEF l
  <2>3. QED
    BY <2>1, <2>2 DEF NodesOf
<1>4. r.keys = Upper(n.keys, count) /\ r.line = 0 /\ r.addr = 0
  BY DEF Right_Part
<1>5. /\ n.leaf \in BOOLEAN /\ n.keys \in [0 .. Size - 1 -> Nat]
      /\ \A i \in 0 .. Size : r.kids[i] \in Nat /\ r.ptrs[i] \in Nat
  BY <1>2 DEF NodesOf
<1>6. /\ Half \in Nat /\ Half + 1 \in Nat /\ count \in Nat /\ count < Size /\ Size \in Nat /\ Half < Size
      /\ count + Half + 1 = Size
  BY Halves, Numbers
<1> HIDE DEF l, r
<1>7. IsLowerPart(SeenOf(n), SeenOf(l))
  <2>1. ~ n.leaf => \A i \in 0 .. Half : SeenOf(l).below[i] = SeenOf(n).below[i]
    <3>1. \A i \in 0 .. Half : i \in 0 .. Size
      BY <1>6
    <3>2. QED
      BY <1>1, <3>1, SeenOfNode
  <2>2. QED
    BY <1>1, <1>3, <2>1, SeenOfNode DEF IsLowerPart
<1>8. IsUpperPart(SeenOf(n), SeenOf(r))
  <2>1. \A i \in 0 .. Size - 1 : r.keys[i] = IF i < count THEN n.keys[i + Half + 1] ELSE 0
    <3>1. DOMAIN n.keys = 0 .. Size - 1
      BY <1>5
    <3>2. QED
      BY <1>4, <3>1 DEF Upper
  <2>2. ASSUME ~ n.leaf, NEW i \in 0 .. count
        PROVE  SeenOf(r).below[i] = SeenOf(n).below[i + Half + 1]
    <3>1. i \in 0 .. Size /\ i <= count /\ i + Half + 1 \in 0 .. Size
      BY <1>6
    <3>2. r.kids[i] = n.kids[i + Half + 1] /\ r.ptrs[i] = n.ptrs[i + Half + 1]
      BY <1>2, <2>2, <3>1 DEF IsUpper
    <3>3. /\ SeenOf(r).below[i] = IF r.kids[i] # 0 THEN r.kids[i] ELSE - r.ptrs[i]
          /\ SeenOf(n).below[i + Half + 1] =
               IF n.kids[i + Half + 1] # 0 THEN n.kids[i + Half + 1] ELSE - n.ptrs[i + Half + 1]
      BY <1>2, <3>1, SeenOfNode
    <3>4. QED
      BY <3>2, <3>3
  <2>3. QED
    BY <1>2, <2>1, <2>2, SeenOfNode DEF IsUpperPart
<1>9. Middle(SeenOf(n)) = n.keys[IF n.leaf THEN Half + 1 ELSE Half]
  BY SeenOfNode DEF Middle
<1>10. QED
  BY <1>1, <1>2, <1>3, <1>4, <1>7, <1>8, <1>9 DEF l, r

\* From heap h to heap k nodes keep their slots, and what is not volatile is as it
\* was; nodes that are new have no slot.
Carries(h, k) ==
  /\ DOMAIN h \subseteq DOMAIN k
  /\ \A n \in DOMAIN h : /\ k[n].vol = h[n].vol /\ k[n].addr = h[n].addr /\ k[n].line = h[n].line
                         /\ ~ h[n].vol => Content(k[n]) = Content(h[n])
  /\ \A n \in DOMAIN k \ DOMAIN h : k[n].vol /\ k[n].addr = 0 /\ k[n].line = 0

\* What is carried further.
LEMMA CarriesOn ==
  ASSUME NEW h, NEW k, NEW l, Carries(h, k), Carries(k, l)
  PROVE  Carries(h, l)
<1>1. ASSUME NEW n \in DOMAIN h
      PROVE  /\ l[n].vol = h[n].vol /\ l[n].addr = h[n].addr /\ l[n].line = h[n].line
             /\ ~ h[n].vol => Content(l[n]) = Content(h[n])
  BY DEF Carries
<1>2. ASSUME NEW n \in DOMAIN l \ DOMAIN h
      PROVE  l[n].vol /\ l[n].addr = 0 /\ l[n].line = 0
  BY DEF Carries
<1>3. DOMAIN h \subseteq DOMAIN l
  BY DEF Carries
<1>4. QED
  BY <1>1, <1>2, <1>3 DEF Carries

\* The slots are then kept apart as before.
LEMMA SpaceCarries ==
  ASSUME NEW t, NEW h, NEW fr, Space(t, h, fr), NEW k, Carries(h, k), NEW u, Uses(u) \subseteq Uses(t)
  PROVE  Space(u, k, fr)
<1>1. ASSUME NEW n \in DOMAIN k
      PROVE  /\ k[n].addr # 0 => /\ k[n].addr \in Slots \ Uses(u) /\ k[n].addr < pointer
                                 /\ k[n].addr \notin free /\ k[n].addr \notin fr
                                 /\ \A m \in DOMAIN k : k[m].addr = k[n].addr => m = n
             /\ ~ k[n].vol => k[n].addr # 0 /\ Content(k[n]) = disk[k[n].addr]
             /\ k[n].line # 0 => k[n].line \in fr \/ (~ k[n].vol /\ k[n].line = k[n].addr)
  <2>1. CASE n \in DOMAIN h
    <3>1. k[n].vol = h[n].vol /\ k[n].addr = h[n].addr /\ k[n].line = h[n].line
      BY <2>1 DEF Carries
    <3>2. /\ h[n].addr # 0 => /\ h[n].addr \in Slots \ Uses(t) /\ h[n].addr < pointer
                              /\ h[n].addr \notin free /\ h[n].addr \notin fr
          /\ ~ h[n].vol => h[n].addr # 0 /\ Content(h[n]) = disk[h[n].addr]
          /\ h[n].line # 0 => h[n].line \in fr \/ (~ h[n].vol /\ h[n].line = h[n].addr)
      BY <2>1 DEF Space
    <3>3. ASSUME h[n].addr # 0, NEW m \in DOMAIN k, k[m].addr = k[n].addr
          PROVE  m = n
      <4>1. m \in DOMAIN h /\ h[m].addr = h[n].addr
        BY <3>1, <3>3 DEF Carries
      <4>2. QED
        BY <2>1, <3>3, <4>1 DEF Space
    <3>4. ~ h[n].vol => Content(k[n]) = Content(h[n])
      BY <2>1 DEF Carries
    <3>5. QED
      BY <3>1, <3>2, <3>3, <3>4
  <2>2. CASE n \notin DOMAIN h
    BY <2>2 DEF Carries
  <2>3. QED
    BY <2>1, <2>2
<1>2. /\ free \subseteq Slots /\ fr \subseteq Slots
      /\ \A a \in free : a < pointer
      /\ \A a \in fr : a < pointer /\ a \notin free
      /\ \A a \in Uses(u) : a < pointer /\ a \notin free /\ a \notin fr
  BY DEF Space
<1>3. QED
  BY <1>1, <1>2 DEF Space

\* Nodes that differ in their places are seen alike.
LEMMA AlikeSeen ==
  ASSUME NEW h, NEW g, Alike(h, g)
  PROVE  SameSeen(h, g)
<1>1. ASSUME NEW x \in DOMAIN h
      PROVE  SeenOf(g[x]) = SeenOf(h[x])
  BY SameLook DEF Alike
<1>2. QED
  BY <1>1 DEF Alike, SameSeen

\* The slot of a node that is renewed is freed.
LEMMA SpaceRenewed ==
  ASSUME NEW m \in PutsOf(Nat), NEW id \in DOMAIN m.heap, NEW t, Space(t, m.heap, m.freed)
  PROVE  LET r == Renew(m, id) IN
         /\ Space(t, r.heap, r.freed) /\ m.freed \subseteq r.freed
         /\ DOMAIN r.heap = DOMAIN m.heap /\ r.heap[id].vol
         /\ \A n \in DOMAIN m.heap : m.heap[n].vol => r.heap[n].vol
<1> DEFINE h == m.heap  fr == m.freed  n == h[id]
           g == [h EXCEPT ![id] = Renewed(n)]
           fg == fr \cup ({n.addr} \ {0})
           r == Renew(m, id)
<1>1. r = [m EXCEPT !.freed = fg, !.heap = g]
  BY DEF Renew
<1>2. r.heap = g /\ r.freed = fg
  <2> HIDE DEF r, g, fg
  <2>1. QED
    BY <1>1 DEF PutsOf
<1>3. h \in AnyHeapsOf(Nat) /\ n \in NodesOf(Nat) /\ h = [z \in DOMAIN h |-> h[z]]
  BY HeapNodes DEF PutsOf
<1>4. /\ Renewed(n).vol /\ Renewed(n).addr = 0 /\ Renewed(n).line = n.line
  <2> HIDE DEF n
  <2>1. QED
    BY <1>3 DEF Renewed, NodesOf
<1>5. /\ DOMAIN g = DOMAIN h /\ \A x \in DOMAIN h \ {id} : g[x] = h[x]
      /\ g[id].vol /\ g[id].addr = 0 /\ g[id].line = n.line
  BY <1>3, <1>4
<1> HIDE DEF g
<1>6. n.addr # 0 => /\ n.addr \in Slots \ Uses(t) /\ n.addr < pointer
                    /\ n.addr \notin free /\ \A x \in DOMAIN h : h[x].addr = n.addr => x = id
  BY DEF Space
<1>7. /\ free \subseteq Slots /\ fg \subseteq Slots
      /\ \A a \in free : a < pointer
      /\ \A a \in fg : a < pointer /\ a \notin free
      /\ \A a \in Uses(t) : a < pointer /\ a \notin free /\ a \notin fg
  BY <1>6 DEF Space
<1>8. ASSUME NEW x \in DOMAIN g
      PROVE  /\ g[x].addr # 0 => /\ g[x].addr \in Slots \ Uses(t) /\ g[x].addr < pointer
                                 /\ g[x].addr \notin free /\ g[x].addr \notin fg
                                 /\ \A y \in DOMAIN g : g[y].addr = g[x].addr => y = x
             /\ ~ g[x].vol => g[x].addr # 0 /\ Content(g[x]) = disk[g[x].addr]
             /\ g[x].line # 0 => g[x].line \in fg \/ (~ g[x].vol /\ g[x].line = g[x].addr)
  <2>1. CASE x = id
    <3>1. n.line # 0 => n.line \in fr \/ (~ n.vol /\ n.line = n.addr)
      BY DEF Space
    <3>2. n.line # 0 => n.line \in fg
      BY <3>1
    <3>3. QED
      BY <1>5, <2>1, <3>2
  <2>2. CASE x # id
    <3> HIDE DEF fg
    <3>1. g[x] = h[x] /\ x \in DOMAIN h
      BY <1>5, <2>2
    <3>2. /\ h[x].addr # 0 => /\ h[x].addr \in Slots \ Uses(t) /\ h[x].addr < pointer
                              /\ h[x].addr \notin free /\ h[x].addr \notin fr
                              /\ \A y \in DOMAIN h : h[y].addr = h[x].addr => y = x
          /\ ~ h[x].vol => h[x].addr # 0 /\ Content(h[x]) = disk[h[x].addr]
          /\ h[x].line # 0 => h[x].line \in fr \/ (~ h[x].vol /\ h[x].line = h[x].addr)
      BY <3>1 DEF Space
    <3>3. h[x].addr # 0 => h[x].addr # n.addr
      BY <1>6, <2>2, <3>1
    <3>4. h[x].addr # 0 => h[x].addr \notin fg
      BY <3>2, <3>3 DEF fg
    <3>5. h[x].addr # 0 => \A y \in DOMAIN g : g[y].addr = h[x].addr => y = x
      BY <1>5, <3>2
    <3>6. fr \subseteq fg
      BY DEF fg
    <3>7. QED
      BY <3>1, <3>2, <3>4, <3>5, <3>6
  <2>3. QED
    BY <2>1, <2>2
<1>9. Space(t, g, fg)
  BY <1>7, <1>8 DEF Space
<1>10. QED
  BY <1>2, <1>5, <1>9

\* A tree with all that a Put has changed of its nodes so far.
Climbing(m, t, F) ==
  /\ Keeping(t, m.heap, m.freed) /\ F \subseteq m.freed
  /\ t.loc[t.root] \in DOMAIN m.heap /\ m.heap[t.loc[t.root]].vol

\* The ancestors renewed: the tree is the same, with its root on top.
LEMMA AncestorsRenewed ==
  ASSUME NEW m \in ClimbsOf(Nat), NEW t, NEW F, Climbing(m, t, F), disk \in CachesOf(Nat),
         \E d : Linked(m.heap, d, m.heap[m.node].parent)
  PROVE  LET r == Renew_Ancestors(m) IN
         /\ Climbing(r, t, F) /\ r.root = t.loc[t.root]
<1> DEFINE S == {w \in ClimbsOf(Nat) : Climbing(w, t, F)}
           start == m
           next == [x \in S |-> Renew_Round(x)]
           E(f) == f = [r \in Nat |-> IF r = 0 THEN {start} ELSE {Renew_Round(x) : x \in f[r - 1]}]
           after == CHOOSE f : E(f)
<1>1. start \in S
  OBVIOUS
<1>2. \A x \in S : Renew_Round(x) \in S
  <2>1. ASSUME NEW x \in ClimbsOf(Nat), Climbing(x, t, F)
        PROVE  Climbing(Renew_Round(x), t, F)
    <3> DEFINE id == x.heap[x.node].parent
               y == Renew(x, id)
    <3>1. 0 \in Nat /\ Renew_Round(x) \in ClimbsOf(Nat) /\ (id = 0 => Renew_Round(x) = x)
          /\ (id # 0 => id \in DOMAIN x.heap)
      BY <2>1, RenewRoundKeeps
    <3>2. CASE id = 0
      BY <2>1, <3>1, <3>2
    <3>3. CASE id # 0
      <4>1. id \in DOMAIN x.heap /\ x \in PutsOf(Nat) /\ x.heap \in AnyHeapsOf(Nat)
        BY <2>1, <3>1, <3>3 DEF ClimbsOf, PutsOf
      <4>2. Renew_Round(x) = [y EXCEPT !.node = id]
        BY <3>3 DEF Renew_Round
      <4> HIDE DEF id, y
      <4>3. y \in PutsOf(Nat) /\ Alike(x.heap, y.heap)
        BY <3>1, <4>1, RenewKeeps DEF y
      <4>4. /\ Space(t, y.heap, y.freed) /\ x.freed \subseteq y.freed
            /\ DOMAIN y.heap = DOMAIN x.heap
            /\ \A n \in DOMAIN x.heap : x.heap[n].vol => y.heap[n].vol
        <5>1. Space(t, x.heap, x.freed)
          BY <2>1 DEF Climbing, Keeping
        <5>2. QED
          BY <4>1, <5>1, SpaceRenewed DEF y
      <4>5. Represents(t, y.heap, disk)
        <5>1. Represents(t, x.heap, disk)
          BY <2>1 DEF Climbing, Keeping
        <5>2. SameSeen(x.heap, y.heap)
          BY <4>3, AlikeSeen
        <5>3. QED
          BY <4>1, <5>1, <5>2, SameTree
      <4>6. Renew_Round(x).heap = y.heap /\ Renew_Round(x).freed = y.freed
        BY <4>2, <4>3 DEF PutsOf
      <4>7. QED
        BY <2>1, <4>4, <4>5, <4>6 DEF Climbing, Keeping
    <3>4. QED
      BY <3>2, <3>3
  <2>2. \A x \in ClimbsOf(Nat) : Renew_Round(x) \in ClimbsOf(Nat)
    BY RenewRoundKeeps
  <2>3. QED
    BY <2>1, <2>2
<1> HIDE DEF S, start
<1>3. next \in [S -> S] /\ \A x \in S : next[x] = Renew_Round(x)
  BY <1>2
<1> HIDE DEF next
<1>4. PICK f : IsLoop(S, start, next, f)
  BY <1>1, <1>3, LoopExists
<1>5. E(f)
  <2>1. ASSUME NEW r \in Nat, r # 0
        PROVE  {next[x] : x \in f[r - 1]} = {Renew_Round(x) : x \in f[r - 1]}
    <3>1. r - 1 \in Nat
      BY <2>1
    <3>2. \A x \in f[r - 1] : next[x] = Renew_Round(x)
      BY <1>3, <1>4, <3>1 DEF IsLoop
    <3>3. QED
      BY <3>2
  <2>2. f = [r \in Nat |-> IF r = 0 THEN {start} ELSE {next[x] : x \in f[r - 1]}]
    BY <1>4 DEF IsLoop
  <2>3. QED
    BY <2>1, <2>2
<1>6. E(after)
  <2> HIDE DEF E
  <2>1. QED
    BY <1>5
<1> HIDE DEF after
<1>7. after[0] = {start}
  BY <1>6
<1>8. ASSUME NEW r \in Nat, after[r] \subseteq S
      PROVE  after[r + 1] = {next[x] : x \in after[r]}
  <2>1. after[r + 1] = {Renew_Round(x) : x \in after[r]}
    <3>1. r + 1 \in Nat /\ r + 1 # 0 /\ (r + 1) - 1 = r
      OBVIOUS
    <3>2. QED
      BY <1>6, <3>1
  <2>2. QED
    BY <1>3, <1>8, <2>1
<1>9. Cardinality(DOMAIN m.heap) \in Nat
  BY FS_CardinalityType DEF ClimbsOf, PutsOf, AnyHeapsOf, IsHeap
<1>10. (CHOOSE last \in after[Cardinality(DOMAIN m.heap)] : TRUE) \in S
  BY <1>1, <1>3, <1>7, <1>8, <1>9, LoopStays
<1> DEFINE top == CHOOSE last \in after[Cardinality(DOMAIN m.heap)] : TRUE
           r == Renew_Ancestors(m)
<1>11. r = [top EXCEPT !.root = top.node, !.node = 0]
  BY DEF Renew_Ancestors, Iterated, after, start
<1> HIDE DEF top, r
<1>12. top \in PutsOf(Nat) /\ Climbing(top, t, F)
  BY <1>10 DEF S, ClimbsOf, top
<1>13. r.heap = top.heap /\ r.freed = top.freed
  BY <1>11, <1>12 DEF PutsOf
<1>14. Climbing(r, t, F)
  BY <1>12, <1>13 DEF Climbing
<1>15. r \in PutsOf(Nat) /\ Steady(r) /\ Done(r)
  BY RenewAncestorsKeeps DEF r
<1>16. r.heap \in AnyHeapsOf(Nat) /\ r.root \in DOMAIN r.heap /\ Joined(r.heap) /\ r.heap[r.root].parent = 0
  BY <1>15 DEF PutsOf, Steady, Stands, Done, Links, Linked
<1>17. PICK x \in t.nodes : t.loc[x] = r.root
  BY <1>14, <1>16 DEF Climbing, Keeping, Represents
<1>18. x = t.root
  <2> SUFFICES ASSUME x # t.root
               PROVE  FALSE
    OBVIOUS
  <2> DEFINE h == r.heap
  <2>1. /\ h \in AnyHeapsOf(Nat) /\ Joined(h) /\ Represents(t, h, disk) /\ t.loc[x] \in DOMAIN h
        /\ h[t.loc[x]].parent = 0
    BY <1>14, <1>16, <1>17 DEF Climbing, Keeping
  <2> HIDE DEF h
  <2>2. QED
    BY <2>1, ParentOf
<1>19. QED
  BY <1>14, <1>17, <1>18 DEF r

\* m differs from n in its parent at most.
AsItWas(n, m) ==
  SeenOf(m) = SeenOf(n) /\ Content(m) = Content(n)
  /\ m.vol = n.vol /\ m.addr = n.addr /\ m.line = n.line

\* The parent of a node is not seen.
LEMMA ParentSet ==
  ASSUME NEW n \in NodesOf(Nat), NEW p
  PROVE  AsItWas(n, [n EXCEPT !.parent = p])
<1> DEFINE m == [n EXCEPT !.parent = p]
<1>1. /\ m.leaf = n.leaf /\ m.num = n.num /\ m.keys = n.keys /\ m.ptrs = n.ptrs /\ m.kids = n.kids
      /\ m.vol = n.vol /\ m.addr = n.addr /\ m.line = n.line
  BY DEF NodesOf
<1> HIDE DEF m
<1>2. AsItWas(n, m)
  BY <1>1, SameLook DEF AsItWas
<1>3. QED
  BY <1>2 DEF m

\* Nodes that get another parent are as they were.
LEMMA MovedAsTheyWere ==
  ASSUME NEW h, \A x \in DOMAIN h : h[x] \in NodesOf(Nat), NEW moved, NEW parent
  PROVE  LET g == Children_Moved(h, moved, parent) IN
         DOMAIN g = DOMAIN h /\ \A x \in DOMAIN h : AsItWas(h[x], g[x])
<1> DEFINE g == Children_Moved(h, moved, parent)
<1>1. /\ DOMAIN g = DOMAIN h
      /\ \A x \in DOMAIN h : g[x] = IF x \in moved THEN [h[x] EXCEPT !.parent = parent] ELSE h[x]
  BY DEF Children_Moved
<1> HIDE DEF g
<1>2. ASSUME NEW x \in DOMAIN h
      PROVE  AsItWas(h[x], g[x])
  <2>1. CASE x \in moved
    BY <1>1, <2>1, ParentSet
  <2>2. CASE x \notin moved
    BY <1>1, <2>2 DEF AsItWas
  <2>3. QED
    BY <2>1, <2>2
<1>3. QED
  BY <1>1, <1>2 DEF g

\* A key is inserted in a node: the others are as they were.
LEMMA InsertedAsItWas ==
  ASSUME NEW h \in AnyHeapsOf(Nat), NEW w,
         /\ w.node \in DOMAIN h /\ h[w.node].num < Size /\ w.key \in Nat /\ w.address \in Nat
         /\ w.child \in DOMAIN h \cup {0}
  PROVE  LET g == Insert_Key(h, w.node, w.key, w.address, w.child)
             n == Grown(h[w.node], w.key, w.address, w.child)
         IN /\ DOMAIN g = DOMAIN h /\ n \in NodesOf(Nat) /\ AsItWas(n, g[w.node])
            /\ \A x \in DOMAIN h \ {w.node} : AsItWas(h[x], g[x])
<1> DEFINE id == w.node  key == w.key  address == w.address  child == w.child
           n == h[id]
           m == Grown(n, key, address, child)
           k == [h EXCEPT ![id] = m]
           g == Insert_Key(h, id, key, address, child)
<1>1. /\ DOMAIN h \subseteq Nat \ {0} /\ h = [z \in DOMAIN h |-> h[z]]
      /\ \A x \in DOMAIN h : h[x] \in NodesOf(Nat)
  BY HeapNodes
<1>2. n \in NodesOf(Nat) /\ n.num < Size /\ key \in Nat /\ address \in Nat /\ child \in Nat
      /\ id \in DOMAIN h /\ child \in DOMAIN h \cup {0}
  BY <1>1
<1> HIDE DEF n, key, address, child, id
<1>3. m \in NodesOf(Nat)
  BY <1>2, GrownShape
<1> HIDE DEF m
<1>4. /\ DOMAIN k = DOMAIN h /\ k[id] = m /\ \A x \in DOMAIN h \ {id} : k[x] = h[x]
      /\ \A x \in DOMAIN h : k[x] \in NodesOf(Nat)
  BY <1>1, <1>2, <1>3
<1>5. g = IF child = 0 THEN k ELSE [k EXCEPT ![child].parent = id]
  BY DEF Insert_Key, m, n
<1> HIDE DEF k, g
<1>6. /\ DOMAIN g = DOMAIN h /\ \A x \in DOMAIN h : AsItWas(k[x], g[x])
  <2>1. CASE child = 0
    BY <1>4, <1>5, <2>1 DEF AsItWas
  <2>2. CASE child # 0
    <3>1. child \in DOMAIN h /\ k[child] \in NodesOf(Nat)
      BY <1>2, <1>4, <2>2
    <3> DEFINE c == [k[child] EXCEPT !.parent = id]
    <3>2. AsItWas(k[child], c)
      BY <3>1, ParentSet
    <3>3. g = [k EXCEPT ![child] = c]
      BY <1>5, <2>2
    <3> HIDE DEF c
    <3>4. DOMAIN g = DOMAIN h /\ g[child] = c /\ \A x \in DOMAIN h \ {child} : g[x] = k[x]
      BY <1>4, <3>1, <3>3
    <3>5. ASSUME NEW x \in DOMAIN h
          PROVE  AsItWas(k[x], g[x])
      <4>1. CASE x = child
        BY <3>2, <3>4, <4>1
      <4>2. CASE x # child
        BY <3>4, <4>2 DEF AsItWas
      <4>3. QED
        BY <4>1, <4>2
    <3>6. QED
      BY <3>4, <3>5
  <2>3. QED
    BY <2>1, <2>2
<1>7. QED
  BY <1>2, <1>3, <1>4, <1>6 DEF g, m, n, id, key, address, child

\* A node is split: the others are as they were.
LEMMA SplitAsItWas ==
  ASSUME NEW h \in AnyHeapsOf(Nat), NEW id \in DOMAIN h, h[id].num = Size
  PROVE  LET s == Split(h, id) IN
         /\ s.right = New_Id(h) /\ s.right > 0 /\ s.right \in Nat /\ s.right \notin DOMAIN h
         /\ DOMAIN s.heap = DOMAIN h \cup {s.right}
         /\ s.mid = h[id].keys[IF h[id].leaf THEN Half + 1 ELSE Half]
         /\ AsItWas(Left_Part(h[id]), s.heap[id]) /\ AsItWas(Right_Part(h[id]), s.heap[s.right])
         /\ \A x \in DOMAIN h \ {id} : AsItWas(h[x], s.heap[x])
<1> DEFINE n == h[id]
           right == New_Id(h)
           l == Left_Part(n)
           r == Right_Part(n)
           moved == {r.kids[i] : i \in 0 .. Size} \ {0}
           first == [h EXCEPT ![id] = l]
           parted == With(first, right, r)
           g == Children_Moved(parted, moved, right)
           D == DOMAIN h \cup {right}
<1>1. /\ DOMAIN h \subseteq Nat \ {0} /\ IsFiniteSet(DOMAIN h) /\ h = [z \in DOMAIN h |-> h[z]]
      /\ \A x \in DOMAIN h : h[x] \in NodesOf(Nat) /\ Sound(h[x])
  BY HeapNodes
<1>2. right \in Nat \ {0} /\ right \notin DOMAIN h
  BY <1>1, NewIdIsNew
<1>3. n \in NodesOf(Nat) /\ Sound(n) /\ n.num = Size /\ 0 \in Nat
  BY <1>1
<1>4. l \in NodesOf(Nat) /\ r \in NodesOf(Nat)
  <2> HIDE DEF n
  <2>1. QED
    BY <1>3, LeftIsSound, RightIsSound
<1>5. Split(h, id) = [heap |-> g, right |-> right, mid |-> n.keys[IF n.leaf THEN Half + 1 ELSE Half]]
  BY DEF Split
<1> HIDE DEF l, r, right
<1>6. DOMAIN first = DOMAIN h /\ first[id] = l /\ \A x \in DOMAIN h \ {id} : first[x] = h[x]
  BY <1>1
<1> HIDE DEF first
<1>7. /\ DOMAIN parted = D /\ parted[right] = r /\ parted[id] = l
      /\ \A x \in DOMAIN h \ {id} : parted[x] = h[x]
  <2>1. DOMAIN parted = DOMAIN first \cup {right} /\ parted[right] = r
        /\ \A x \in DOMAIN first : x # right => parted[x] = first[x]
    BY DEF With
  <2> HIDE DEF parted
  <2>2. QED
    BY <1>2, <1>6, <2>1
<1> HIDE DEF parted, moved
<1>8. DOMAIN g = D /\ \A x \in D : AsItWas(parted[x], g[x])
  <2>1. \A x \in DOMAIN parted : parted[x] \in NodesOf(Nat)
    BY <1>1, <1>4, <1>7
  <2>2. QED
    BY <1>7, <2>1, MovedAsTheyWere
<1> HIDE DEF g
<1>9. right > 0
  BY <1>2
<1>10. /\ AsItWas(l, g[id]) /\ AsItWas(r, g[right])
       /\ \A x \in DOMAIN h \ {id} : AsItWas(h[x], g[x])
  BY <1>7, <1>8
<1> HIDE DEF n
<1>11. QED
  BY <1>2, <1>5, <1>8, <1>9, <1>10 DEF l, r, right, n

\* A root is put above two nodes: they are as they were.
LEMMA RaisedAsItWas ==
  ASSUME NEW h \in AnyHeapsOf(Nat), NEW left, NEW right, NEW key
  PROVE  LET g == Raised(h, left, right, key)
             top == New_Id(h)
         IN /\ top > 0 /\ top \in Nat /\ top \notin DOMAIN h /\ DOMAIN g = DOMAIN h \cup {top}
            /\ g[top] = New_Root(left, right, key)
            /\ \A x \in DOMAIN h : AsItWas(h[x], g[x])
<1> DEFINE top == New_Id(h)
           r == New_Root(left, right, key)
           k == Children_Moved(h, {left, right}, top)
           g == With(k, top, r)
<1>1. /\ DOMAIN h \subseteq Nat \ {0} /\ IsFiniteSet(DOMAIN h) /\ \A x \in DOMAIN h : h[x] \in NodesOf(Nat)
  BY HeapNodes
<1>2. top \in Nat \ {0} /\ top \notin DOMAIN h /\ top > 0
  <2>1. top \in Nat \ {0} /\ top \notin DOMAIN h
    BY <1>1, NewIdIsNew
  <2> HIDE DEF top
  <2>2. QED
    BY <2>1
<1> HIDE DEF top, r
<1>3. DOMAIN k = DOMAIN h /\ \A x \in DOMAIN h : AsItWas(h[x], k[x])
  BY <1>1, MovedAsTheyWere
<1> HIDE DEF k
<1>4. DOMAIN g = DOMAIN h \cup {top} /\ g[top] = r /\ \A x \in DOMAIN h : g[x] = k[x]
  BY <1>2, <1>3 DEF With
<1> HIDE DEF g
<1>5. \A x \in DOMAIN h : AsItWas(h[x], g[x])
  BY <1>3, <1>4
<1>6. QED
  BY <1>2, <1>4, <1>5 DEF Raised, g, k, top, r

\* A root with a child and no key.
ThinRoot(left) ==
  [leaf |-> FALSE, num |-> 0, keys |-> [i \in 0 .. Size - 1 |-> 0],
   below |-> [i \in 0 .. Size |-> IF i = 0 THEN left ELSE 0]]

\* The new root is one that got its key and another child.
LEMMA RootIsWidened ==
  ASSUME NEW left \in Nat \ {0}, NEW right \in Nat \ {0}, NEW key \in Nat
  PROVE  LET n == ThinRoot(left)
             r == New_Root(left, right, key)
         IN /\ n \in SeenNodes /\ ~ n.leaf /\ n.num = 0 /\ n.below[0] = left
            /\ IsWidened(n, SeenOf(r), key, right)
            /\ r.vol /\ r.addr = 0 /\ r.line = 0 /\ r.kids[0] = left /\ r.num = 1 /\ r.parent = 0
<1> DEFINE b == New_Node(FALSE)
           keys == [i \in 0 .. Size - 1 |-> IF i = 0 THEN key ELSE 0]
           kids == [i \in 0 .. Size |-> IF i = 0 THEN left ELSE IF i = 1 THEN right ELSE 0]
           n == ThinRoot(left)
           r == New_Root(left, right, key)
           s == SeenOf(r)
<1>1. /\ b \in NodesOf(Nat) /\ b.leaf = FALSE /\ b.parent = 0 /\ b.vol = TRUE /\ b.addr = 0 /\ b.line = 0
  <2>1. b \in NodesOf(Nat)
    BY NewNode
  <2>2. QED
    BY <2>1 DEF New_Node
<1>2. /\ keys \in [0 .. Size - 1 -> Nat] /\ kids \in [0 .. Size -> Nat] /\ 1 \in 0 .. Size
      /\ \A i \in 0 .. Size - 1 : keys[i] = IF i = 0 THEN key ELSE 0
      /\ \A i \in 0 .. Size : kids[i] = IF i = 0 THEN left ELSE IF i = 1 THEN right ELSE 0
  BY Numbers
<1>3. r = [b EXCEPT !.num = 1, !.keys = keys, !.kids = kids]
  BY DEF New_Root
<1> HIDE DEF b, keys, kids, r
<1>4. /\ r \in NodesOf(Nat) /\ r.leaf = FALSE /\ r.num = 1 /\ r.parent = 0 /\ r.keys = keys /\ r.kids = kids
      /\ r.vol /\ r.addr = 0 /\ r.line = 0
  BY <1>1, <1>2, <1>3 DEF NodesOf
<1>5. /\ s \in SeenNodes /\ s.leaf = FALSE /\ s.num = 1 /\ s.keys = keys
      /\ \A i \in 0 .. Size : s.below[i] = IF kids[i] # 0 THEN kids[i] ELSE - r.ptrs[i]
  BY <1>4, SeenOfNode
<1>6. n \in SeenNodes /\ n.leaf = FALSE /\ n.num = 0
      /\ (\A i \in 0 .. Size - 1 : n.keys[i] = 0) /\ n.below[0] = left
  <2>1. [i \in 0 .. Size - 1 |-> 0] \in [0 .. Size - 1 -> Nat]
    OBVIOUS
  <2>2. [i \in 0 .. Size |-> IF i = 0 THEN left ELSE 0] \in [0 .. Size -> Int]
    OBVIOUS
  <2>3. QED
    BY <2>1, <2>2, Numbers DEF ThinRoot, SeenNodes
<1> HIDE DEF s, n
<1>7. \A i \in 0 .. 1 : s.below[i] = IF i = 0 + 1 THEN right ELSE IF 0 + 1 < i THEN n.below[i - 1] ELSE n.below[i]
  <2>1. s.below[0] = left /\ s.below[1] = right
    BY <1>2, <1>5, Numbers
  <2>2. \A i \in 0 .. 1 : i = 0 \/ i = 1
    OBVIOUS
  <2>3. QED
    BY <1>6, <2>1, <2>2
<1>8. \A i \in 0 .. Size - 1 : s.keys[i] = IF i = 0 THEN key ELSE IF 0 < i /\ i <= n.num THEN n.keys[i - 1] ELSE n.keys[i]
  BY <1>2, <1>5, <1>6
<1>9. IsWidened(n, s, key, right)
  <2>1. 0 \in 0 .. n.num /\ \A i \in 0 .. n.num - 1 : n.keys[i] < key <=> i < 0
    BY <1>6
  <2>2. s.num = n.num + 1 /\ n.num + 1 = 1 /\ s.leaf = n.leaf
    <3>1. s.num = 1 /\ n.num = 0 /\ s.leaf = FALSE /\ n.leaf = FALSE
      BY <1>5, <1>6
    <3>2. n.num + 1 = 1
      BY <3>1
    <3>3. QED
      BY <3>1, <3>2, Zenon
  <2>3. QED
    BY <1>5, <1>7, <1>8, <2>1, <2>2 DEF IsWidened
<1>10. QED
  BY <1>2, <1>4, <1>6, <1>9, Numbers DEF n, s, r

\* What a call of Insert_in_node makes of the tree at first.
CalledHeap(w) == Insert_Key(Renew(w, w.node).heap, w.node, w.key, w.address, w.child)

\* A call puts its key in its node, which then is volatile.
LEMMA CallGrows ==
  ASSUME NEW w \in CallsOf(Nat), w.node # 0
  PROVE  LET h == w.heap
             id == w.node
             g == CalledHeap(w)
             inserted == [Renew(w, id) EXCEPT !.heap = g]
         IN /\ g \in AnyHeapsOf(Nat) /\ DOMAIN g = DOMAIN h /\ id \in DOMAIN h
            /\ h \in AnyHeapsOf(Nat) /\ \A x \in DOMAIN h \ {id} : g[x].num = h[x].num /\ g[x].num < Size
            /\ g[id].num = h[id].num + 1 /\ h[id].num \in 0 .. Size - 1 /\ g[id].leaf = h[id].leaf
            /\ inserted \in PutsOf(Nat) /\ inserted.heap = g /\ inserted.freed = Renew(w, id).freed
            /\ inserted.root = w.root /\ inserted.node = id
            /\ g[id].num < Size => inserted \in ClimbsOf(Nat) /\ Insert_Round(w) = Renew_Ancestors(inserted)
            /\ Offered(h, id, w.child) => /\ \A x \in DOMAIN h : g[x].parent = h[x].parent
                                          /\ \A d : Linked(h, d, id) => Linked(g, d, g[id].parent)
<1> DEFINE renewed == Renew(w, w.node)
           grown == CalledHeap(w)
           inserted == [renewed EXCEPT !.heap = grown]
           h == w.heap  id == w.node
<1>1. /\ w \in PutsOf(Nat) /\ Steady(w) /\ Call(w)
      /\ h \in AnyHeapsOf(Nat) /\ id \in DOMAIN h /\ Room(h)
  BY DEF CallsOf, Call, Stands, PutsOf, Steady
<1>2. /\ renewed \in PutsOf(Nat) /\ Alike(h, renewed.heap)
      /\ renewed.root = w.root /\ renewed.node = id /\ renewed.key = w.key
      /\ renewed.address = w.address /\ renewed.child = w.child
      /\ IsFiniteSet(renewed.freed) /\ IsRenewed(h, renewed.heap, id)
  <2>1. IsFiniteSet(w.freed) /\ 0 \in Nat
    BY <1>1 DEF Steady
  <2>2. QED
    BY <1>1, <2>1, RenewKeeps
<1> HIDE DEF renewed
<1>3. renewed.heap \in [DOMAIN h -> NodesOf(Nat)] /\ renewed.heap \in AnyHeapsOf(Nat)
  BY <1>2 DEF PutsOf, AnyHeapsOf, IsHeap, Alike
<1>4. Room(renewed.heap) /\ Stands(renewed.heap, w.root) /\ Stands(renewed.heap, id)
  <2>1. \A x : Stands(h, x) => Stands(renewed.heap, x)
    <3> HIDE DEF h
    <3>1. QED
      BY <1>1, <1>2, <1>3, AlikeIsHeap
  <2>2. Room(renewed.heap)
    BY <1>1, <1>2 DEF Room, Alike
  <2>3. QED
    BY <1>1, <2>1, <2>2 DEF Steady, Call
<1>5. /\ w.key \in Nat /\ w.address \in Nat /\ w.child \in DOMAIN renewed.heap \cup {0}
      /\ renewed.heap[id].leaf => w.child = 0 /\ w.address = w.key
  BY <1>1, <1>2 DEF PutsOf, Call, Alike
<1>6. /\ grown \in AnyHeapsOf(Nat) /\ DOMAIN grown = DOMAIN renewed.heap
      /\ \A x \in DOMAIN renewed.heap :
           /\ grown[x].leaf = renewed.heap[x].leaf
           /\ grown[x].num = IF x = id THEN renewed.heap[x].num + 1 ELSE renewed.heap[x].num
      /\ IsGrown(renewed.heap, grown, id, w.child)
  BY <1>3, <1>4, <1>5, InsertKeyKeeps DEF CalledHeap, renewed
<1>7. inserted = [heap |-> grown, freed |-> renewed.freed, root |-> renewed.root,
                  node |-> renewed.node, key |-> renewed.key, address |-> renewed.address,
                  child |-> renewed.child]
  BY <1>2 DEF PutsOf
<1> HIDE DEF grown, inserted
<1>8. /\ inserted \in PutsOf(Nat) /\ inserted.heap = grown /\ inserted.root = w.root
      /\ inserted.node = id /\ IsFiniteSet(inserted.freed) /\ inserted.freed = renewed.freed
  BY <1>2, <1>6, <1>7 DEF PutsOf
<1>9. /\ DOMAIN grown = DOMAIN h /\ id \in DOMAIN grown
      /\ \A x \in DOMAIN grown \ {id} : grown[x].num = h[x].num /\ grown[x].num < Size
      /\ h[id].num \in 0 .. Size - 1 /\ grown[id].num = h[id].num + 1 /\ grown[id].leaf = h[id].leaf
  <2>1. h[id] \in NodesOf(Nat) /\ h[id].num < Size
    BY <1>1, HeapNodes DEF Room
  <2>2. h[id].num \in 0 .. Size - 1
    <3> HIDE DEF h, id
    <3>1. QED
      BY <2>1, RoomInNode
  <2>3. QED
    BY <1>1, <1>2, <1>3, <1>4, <1>6, <2>2 DEF Room, Alike
<1>10. ASSUME grown[id].num < Size
       PROVE  inserted \in ClimbsOf(Nat) /\ Insert_Round(w) = Renew_Ancestors(inserted)
  <2>1. \A x : Stands(renewed.heap, x) => Stands(grown, x)
    <3>1. grown[id].num # 0
      BY <1>9
    <3>2. QED
      BY <1>6, <3>1 DEF Stands
  <2>2. Room(grown)
    BY <1>9, <1>10 DEF Room
  <2>3. inserted \in ClimbsOf(Nat)
    BY <1>4, <1>8, <2>1, <2>2 DEF ClimbsOf, Steady
  <2>4. Insert_Round(w) = Renew_Ancestors(inserted)
    BY <1>8, <1>10 DEF Insert_Round, inserted, grown, renewed, CalledHeap
  <2>5. QED
    BY <2>3, <2>4
<1>11. ASSUME Offered(h, id, w.child)
       PROVE  /\ \A x \in DOMAIN h : grown[x].parent = h[x].parent
              /\ \A d : Linked(h, d, id) => Linked(grown, d, grown[id].parent)
  <2>1. /\ Offered(renewed.heap, id, w.child) /\ renewed.heap[id].vol
        /\ \A x \in DOMAIN h : renewed.heap[x].parent = h[x].parent
    BY <1>1, <1>2, <1>11 DEF Offered, IsRenewed, Alike
  <2>2. \A x \in DOMAIN h : grown[x].parent = h[x].parent
    <3>1. \A x \in DOMAIN h : grown[x].parent = IF w.child # 0 /\ x = w.child THEN id ELSE renewed.heap[x].parent
      BY <1>2, <1>6 DEF IsGrown, Alike
    <3>2. w.child # 0 => h[w.child].parent = id
      BY <1>11 DEF Offered
    <3>3. QED
      BY <2>1, <3>1, <3>2
  <2> DEFINE u == [id |-> id, child |-> w.child]
  <2>3. u.id = id /\ u.child = w.child /\ id \in DOMAIN renewed.heap
    BY <1>1, <1>2 DEF Alike
  <2>4. ASSUME NEW d, Linked(h, d, id)
        PROVE  Linked(grown, d, grown[id].parent)
    <3>1. Linked(renewed.heap, d, h[id].parent)
      <4> HIDE DEF h, id
      <4>1. QED
        BY <1>1, <1>2, <2>4, RenewLinks
    <3>2. Linked(grown, d, h[id].parent)
      <4> HIDE DEF u, id, h
      <4>1. QED
        BY <1>3, <1>6, <2>1, <2>3, <3>1, GrowLinks
    <3>3. QED
      BY <1>1, <2>2, <3>2
  <2>5. QED
    BY <2>2, <2>4
<1>12. QED
  BY <1>1, <1>6, <1>8, <1>9, <1>10, <1>11 DEF inserted, grown, renewed

\* What a call changes: its node, and the slot that node had.
LEMMA CallAsItWas ==
  ASSUME NEW w \in CallsOf(Nat), w.node # 0
  PROVE  LET h == w.heap
             id == w.node
             r == Renew(w, id)
             g == CalledHeap(w)
             n == Grown(r.heap[id], w.key, w.address, w.child)
         IN /\ r.heap \in AnyHeapsOf(Nat) /\ DOMAIN r.heap = DOMAIN h /\ DOMAIN g = DOMAIN h
            /\ id \in DOMAIN h /\ SameSeen(h, r.heap) /\ r.heap[id] \in NodesOf(Nat)
            /\ r.heap[id].num < Size /\ r.heap[id].leaf = h[id].leaf
            /\ w.key \in Nat /\ w.address \in Nat /\ w.child \in Nat
            /\ AsItWas(n, g[id]) /\ \A x \in DOMAIN h \ {id} : AsItWas(r.heap[x], g[x])
<1> DEFINE h == w.heap
           id == w.node
           r == Renew(w, id)
           k == r.heap
<1>1. /\ w \in PutsOf(Nat) /\ h \in AnyHeapsOf(Nat) /\ id \in DOMAIN h /\ Room(h) /\ 0 \in Nat
      /\ w.child \in DOMAIN h \cup {0} /\ w.key \in Nat /\ w.address \in Nat /\ w.child \in Nat
  BY DEF CallsOf, Call, Stands, PutsOf, Steady
<1>2. r \in PutsOf(Nat) /\ Alike(h, k)
  BY <1>1, RenewKeeps
<1> HIDE DEF r
<1>3. k \in AnyHeapsOf(Nat) /\ DOMAIN k = DOMAIN h /\ k[id].num < Size /\ k[id].leaf = h[id].leaf
  BY <1>1, <1>2 DEF PutsOf, Alike, Room
<1>4. SameSeen(h, k)
  BY <1>2, AlikeSeen
<1>5. k[id] \in NodesOf(Nat)
  BY <1>1, <1>3, HeapNodes
<1>6. LET g == Insert_Key(k, id, w.key, w.address, w.child)
          n == Grown(k[id], w.key, w.address, w.child)
      IN /\ DOMAIN g = DOMAIN k /\ AsItWas(n, g[id])
         /\ \A x \in DOMAIN k \ {id} : AsItWas(k[x], g[x])
  <2> HIDE DEF h, k
  <2>1. /\ id \in DOMAIN k /\ k[id].num < Size /\ w.key \in Nat /\ w.address \in Nat
        /\ w.child \in DOMAIN k \cup {0}
    BY <1>1, <1>3
  <2>2. QED
    BY <1>3, <2>1, InsertedAsItWas
<1>7. QED
  BY <1>1, <1>3, <1>4, <1>5, <1>6 DEF CalledHeap, r

\* A node that gets a key keeps its slot.
LEMMA GrownMarks ==
  ASSUME NEW n \in NodesOf(Nat), NEW key, NEW address, NEW child
  PROVE  LET g == Grown(n, key, address, child) IN
         g.line = n.line /\ g.vol = n.vol /\ g.addr = n.addr
<1> DEFINE x == Cardinality({i \in 0 .. n.num - 1 : n.keys[i] < key})
           keys == Shifted(n.keys, x, n.num, key)
           ptrs == Shifted(n.ptrs, x + 1, n.num + 1, address)
           kids == Shifted(n.kids, x + 1, n.num + 1, child)
           num == n.num + 1
           g == Grown(n, key, address, child)
<1>1. g = [n EXCEPT !.keys = keys, !.ptrs = ptrs, !.kids = kids, !.num = num]
  BY DEF Grown
<1> HIDE DEF g, keys, ptrs, kids, num
<1>2. g.line = n.line /\ g.vol = n.vol /\ g.addr = n.addr
  BY <1>1 DEF NodesOf
<1>3. QED
  BY <1>2 DEF g

\* The slots are kept apart.
LEMMA CallSpace ==
  ASSUME NEW w \in CallsOf(Nat), w.node # 0
  PROVE  LET g == CalledHeap(w)
             fr == Renew(w, w.node).freed
         IN /\ w.freed \subseteq fr /\ g[w.node].vol
            /\ \A n \in DOMAIN w.heap : w.heap[n].vol => g[n].vol
            /\ \A t : Space(t, w.heap, w.freed) => Space(t, g, fr)
<1> DEFINE h == w.heap
           id == w.node
           r == Renew(w, id)
           k == r.heap
           g == CalledHeap(w)
           n == Grown(k[id], w.key, w.address, w.child)
<1>1. /\ DOMAIN k = DOMAIN h /\ DOMAIN g = DOMAIN h /\ id \in DOMAIN h
      /\ k[id] \in NodesOf(Nat) /\ k[id].num < Size
      /\ w.key \in Nat /\ w.address \in Nat /\ w.child \in Nat
      /\ AsItWas(n, g[id]) /\ \A x \in DOMAIN h \ {id} : AsItWas(k[x], g[x])
  BY CallAsItWas
<1>2. n.line = k[id].line /\ n.vol = k[id].vol /\ n.addr = k[id].addr
  BY <1>1, GrownMarks
<1>3. w \in PutsOf(Nat)
  BY DEF CallsOf
<1>4. /\ \A t : Space(t, h, w.freed) => Space(t, k, r.freed)
      /\ w.freed \subseteq r.freed /\ k[id].vol /\ \A x \in DOMAIN h : h[x].vol => k[x].vol
  <2>1. w.freed \subseteq r.freed /\ k[id].vol /\ \A x \in DOMAIN h : h[x].vol => k[x].vol
    <3> DEFINE a == h[id].addr
    <3>1. r = [w EXCEPT !.freed = @ \cup ({a} \ {0}), !.heap = [h EXCEPT ![id] = Renewed(@)]]
      BY DEF Renew
    <3>2. r.freed = w.freed \cup ({a} \ {0})
      BY <1>3, <3>1 DEF PutsOf
    <3>3. r \in PutsOf(Nat) /\ IsRenewed(h, k, id)
      <4>1. 0 \in Nat /\ id \in DOMAIN w.heap
        BY <1>1
      <4>2. QED
        BY <1>3, <4>1, RenewKeeps
    <3>4. QED
      BY <3>2, <3>3 DEF IsRenewed
  <2>2. \A t : Space(t, h, w.freed) => Space(t, k, r.freed)
    BY <1>1, <1>3, SpaceRenewed
  <2>3. QED
    BY <2>1, <2>2
<1> HIDE DEF n, r, g
<1>5. /\ g[id].vol = k[id].vol /\ g[id].addr = k[id].addr /\ g[id].line = k[id].line
  BY <1>1, <1>2 DEF AsItWas
<1>6. \A x \in DOMAIN h \ {id} : /\ g[x].vol = k[x].vol /\ g[x].addr = k[x].addr /\ g[x].line = k[x].line
                                 /\ Content(g[x]) = Content(k[x])
  BY <1>1 DEF AsItWas
<1>7. Carries(k, g)
  BY <1>1, <1>4, <1>5, <1>6 DEF Carries
<1>8. \A t : Space(t, h, w.freed) => Space(t, g, r.freed)
  <2>1. \A t : Uses(t) \subseteq Uses(t)
    OBVIOUS
  <2>2. QED
    BY <1>4, <1>7, <2>1, SpaceCarries
<1>9. QED
  BY <1>4, <1>5, <1>6, <1>8 DEF r, g

\* What is seen after a call: its node has the key and the child.
LEMMA CallSeen ==
  ASSUME NEW w \in CallsOf(Nat), w.node # 0, InOrder(SeenOf(w.heap[w.node])),
         ~ w.heap[w.node].leaf => w.child # 0
  PROVE  LET g == CalledHeap(w) IN
         /\ IsWidened(SeenOf(w.heap[w.node]), SeenOf(g[w.node]), w.key, w.child)
         /\ \A x \in DOMAIN w.heap \ {w.node} : SeenOf(g[x]) = SeenOf(w.heap[x])
<1> DEFINE h == w.heap
           id == w.node
           k == Renew(w, id).heap
           g == CalledHeap(w)
           n == Grown(k[id], w.key, w.address, w.child)
<1>1. /\ SameSeen(h, k) /\ id \in DOMAIN h
      /\ k[id] \in NodesOf(Nat) /\ k[id].num < Size /\ k[id].leaf = h[id].leaf
      /\ w.key \in Nat /\ w.address \in Nat /\ w.child \in Nat
      /\ AsItWas(n, g[id]) /\ \A x \in DOMAIN h \ {id} : AsItWas(k[x], g[x])
  BY CallAsItWas
<1> HIDE DEF k, g
<1>2. SeenOf(k[id]) = SeenOf(h[id])
  BY <1>1 DEF SameSeen
<1>3. IsWidened(SeenOf(k[id]), SeenOf(n), w.key, w.child)
  <2>1. InOrder(SeenOf(k[id])) /\ (~ k[id].leaf => w.child # 0)
    BY <1>1, <1>2
  <2>2. QED
    BY <1>1, <2>1, GrownIsWidened
<1>4. SeenOf(g[id]) = SeenOf(n)
  BY <1>1 DEF AsItWas
<1>5. \A x \in DOMAIN h \ {id} : SeenOf(g[x]) = SeenOf(h[x])
  BY <1>1 DEF AsItWas, SameSeen
<1>6. QED
  BY <1>2, <1>3, <1>4, <1>5 DEF g

\* The provers do not know it of the sign.
LEMMA NegatedZero == - 0 = 0
<1>1. \A p \in Int : - p = 0 - p
  OBVIOUS
<1>2. - 0 = 0 - 0
  <2>1. 0 \in Int
    OBVIOUS
  <2>2. QED
    BY <1>1, <2>1, Zenon
<1>3. 0 - 0 = 0
  OBVIOUS
<1>4. QED
  BY <1>2, <1>3, Zenon

\* A finite set leaves a number for a node that is new.
LEMMA FreshNumber ==
  ASSUME NEW S, S \subseteq Nat, IsFiniteSet(S)
  PROVE  \E y : y \in Nat \ S
<1> DEFINE c == Cardinality(S)
<1>1. c \in Nat
  BY FS_CardinalityType
<1>2. IsFiniteSet(0 .. c) /\ Cardinality(0 .. c) = c + 1
  <2>1. 0 \in Int /\ c \in Int /\ 0 <= c
    BY <1>1
  <2> HIDE DEF c
  <2>2. QED
    BY <2>1, FS_Interval
<1>3. ~ (0 .. c \subseteq S)
  <2> SUFFICES ASSUME 0 .. c \subseteq S
               PROVE  FALSE
    OBVIOUS
  <2>1. Cardinality(0 .. c) <= Cardinality(S)
    BY FS_Subset
  <2>2. QED
    BY <1>1, <1>2, <2>1
<1>4. QED
  BY <1>1, <1>3

\* Node d.x, below d.p, is cut in two in heap k, where d.y is the new node.
IsCutHeap(t, d, g, k) ==
  /\ DOMAIN g \subseteq Nat \ {0} /\ d.at > 0 /\ d.at \notin DOMAIN g
  /\ t.loc[d.x] \in DOMAIN g /\ t.loc[d.p] \in DOMAIN g
  /\ DOMAIN k = DOMAIN g \cup {d.at}
  /\ SeenOf(k[t.loc[d.x]]) = d.l /\ SeenOf(k[t.loc[d.p]]) = d.g /\ SeenOf(k[d.at]) = d.r
  /\ \A x \in DOMAIN g \ {t.loc[d.x], t.loc[d.p]} : SeenOf(k[x]) = SeenOf(g[x])

\* u is another tree for the same keys, with the same root and in no other slots.
Follows(t, u) ==
  u.held = t.held /\ u.root = t.root /\ u.loc[u.root] = t.loc[t.root] /\ Uses(u) \subseteq Uses(t)

\* The tree in a heap where a node is cut in two.
LEMMA CutShown ==
  ASSUME NEW t, NEW g, NEW f, Represents(t, g, f), NEW d, IsCut(t, d), NEW k, IsCutHeap(t, d, g, k)
  PROVE  \E u : Represents(u, k, f) /\ Follows(t, u)
<1> DEFINE nodes == t.nodes \cup {d.y}
           range == [z \in nodes |-> IF z = d.y THEN {e \in t.range[d.x] : d.mid <= e}
                                     ELSE IF z = d.x THEN {e \in t.range[d.x] : e < d.mid}
                                     ELSE t.range[z]]
           level == [z \in nodes |-> IF z = d.y THEN t.level[d.x] ELSE t.level[z]]
           loc == [z \in nodes |-> IF z = d.y THEN d.at ELSE t.loc[z]]
           node == [z \in nodes |-> IF z = d.y THEN d.r ELSE IF z = d.x THEN d.l
                                    ELSE IF z = d.p THEN d.g ELSE t.node[z]]
           u == [nodes |-> nodes, root |-> t.root, range |-> range, level |-> level, held |-> t.held,
                 loc |-> loc, node |-> node]
<1>1. /\ GoodTree(t) /\ TreeShape(t)
      /\ d.x \in t.nodes /\ d.p \in t.nodes /\ d.y \in Nat \ t.nodes /\ d.at \in Int
      /\ d.l \in SeenNodes /\ d.r \in SeenNodes /\ d.g \in SeenNodes
      /\ \A z \in t.nodes : t.loc[z] # d.at
  BY DEF Represents, GoodTree, IsCut, IsLowerPart, IsUpperPart, IsWidened
<1>2. d.x # d.p
  BY <1>1, OneParent DEF IsCut
<1>3. range \in [nodes -> SUBSET Keys]
  <2>1. \A z \in t.nodes : t.range[z] \in SUBSET Keys
    BY <1>1 DEF TreeShape
  <2>2. \A z \in nodes : (IF z = d.y THEN {e \in t.range[d.x] : d.mid <= e}
                          ELSE IF z = d.x THEN {e \in t.range[d.x] : e < d.mid}
                          ELSE t.range[z]) \in SUBSET Keys
    BY <1>1, <2>1
  <2> HIDE DEF nodes
  <2>3. QED
    BY <2>2
<1>4. level \in [nodes -> Nat] /\ loc \in [nodes -> Int] /\ node \in [nodes -> SeenNodes]
  <2>1. \A z \in t.nodes : t.level[z] \in Nat /\ t.loc[z] \in Int /\ t.node[z] \in SeenNodes
    BY <1>1 DEF TreeShape
  <2>2. \A z \in nodes : (IF z = d.y THEN t.level[d.x] ELSE t.level[z]) \in Nat
    BY <1>1, <2>1
  <2>3. \A z \in nodes : (IF z = d.y THEN d.at ELSE t.loc[z]) \in Int
    BY <1>1, <2>1
  <2>4. \A z \in nodes : (IF z = d.y THEN d.r ELSE IF z = d.x THEN d.l
                          ELSE IF z = d.p THEN d.g ELSE t.node[z]) \in SeenNodes
    BY <1>1, <2>1
  <2> HIDE DEF nodes
  <2>5. QED
    BY <2>2, <2>3, <2>4
<1>5. IsCutTree(t, u, d)
  <2>1. /\ range[d.x] = {e \in t.range[d.x] : e < d.mid} /\ range[d.y] = {e \in t.range[d.x] : d.mid <= e}
        /\ level[d.y] = t.level[d.x] /\ loc[d.y] = d.at
        /\ node[d.x] = d.l /\ node[d.y] = d.r /\ node[d.p] = d.g
    BY <1>1, <1>2
  <2>2. \A z \in t.nodes : /\ level[z] = t.level[z] /\ loc[z] = t.loc[z]
                           /\ z # d.x => range[z] = t.range[z]
                           /\ z \notin {d.x, d.p} => node[z] = t.node[z]
    BY <1>1
  <2> HIDE DEF range, level, loc, node
  <2>3. QED
    BY <1>3, <1>4, <2>1, <2>2 DEF IsCutTree
<1> HIDE DEF u
<1>6. GoodTree(u)
  BY <1>1, <1>5, TreeCut
<1>7. ASSUME NEW z \in u.nodes
      PROVE  /\ IF u.loc[z] > 0 THEN u.loc[z] \in DOMAIN k ELSE - u.loc[z] \in Slots
             /\ u.node[z] = Seen(k, f, u.loc[z])
  <2>1. CASE z = d.y
    <3>1. u.loc[z] = d.at /\ u.node[z] = d.r
      BY <1>5, <2>1 DEF IsCutTree
    <3>2. QED
      BY <3>1, SeenAtPlace DEF IsCutHeap
  <2>2. CASE z # d.y
    <3>1. /\ z \in t.nodes /\ u.loc[z] = t.loc[z]
          /\ IF t.loc[z] > 0 THEN t.loc[z] \in DOMAIN g ELSE - t.loc[z] \in Slots
          /\ t.node[z] = Seen(g, f, t.loc[z])
      BY <1>5, <2>2 DEF IsCutTree, Represents
    <3>2. CASE z = d.x
      <4>1. t.loc[z] \in DOMAIN g /\ SeenOf(k[t.loc[z]]) = d.l /\ u.node[z] = d.l /\ t.loc[z] > 0
        BY <1>5, <3>2 DEF IsCutTree, IsCutHeap
      <4>2. QED
        BY <3>1, <4>1, SeenAtPlace DEF IsCutHeap
    <3>3. CASE z = d.p
      <4>1. t.loc[z] \in DOMAIN g /\ SeenOf(k[t.loc[z]]) = d.g /\ u.node[z] = d.g /\ t.loc[z] > 0
        BY <1>5, <3>3 DEF IsCutTree, IsCutHeap
      <4>2. QED
        BY <3>1, <4>1, SeenAtPlace DEF IsCutHeap
    <3>4. CASE z # d.x /\ z # d.p
      <4>1. u.node[z] = t.node[z] /\ t.loc[z] # t.loc[d.x] /\ t.loc[z] # t.loc[d.p]
        BY <1>1, <1>5, <3>1, <3>4 DEF IsCutTree, GoodTree, Apart
      <4>2. CASE t.loc[z] > 0
        <5>1. t.loc[z] \in DOMAIN g /\ t.loc[z] \in DOMAIN k /\ SeenOf(k[t.loc[z]]) = SeenOf(g[t.loc[z]])
          BY <3>1, <4>1, <4>2 DEF IsCutHeap
        <5>2. QED
          BY <3>1, <4>1, <4>2, <5>1, SeenAtPlace
      <4>3. CASE ~ (t.loc[z] > 0)
        BY <3>1, <4>1, <4>3, Zenon DEF Seen
      <4>4. QED
        BY <4>2, <4>3
    <3>5. QED
      BY <3>2, <3>3, <3>4
  <2>3. QED
    BY <2>1, <2>2
<1>8. ASSUME NEW id \in DOMAIN k
      PROVE  \E z \in u.nodes : u.loc[z] = id
  <2>1. CASE id = d.at
    BY <1>5, <2>1 DEF IsCutTree
  <2>2. CASE id # d.at
    <3>1. PICK z \in t.nodes : t.loc[z] = id
      BY <2>2 DEF IsCutHeap, Represents
    <3>2. QED
      BY <1>5, <3>1 DEF IsCutTree
  <2>3. QED
    BY <2>1, <2>2
<1>9. Represents(u, k, f)
  BY <1>6, <1>7, <1>8 DEF Represents
<1>10. Uses(u) \subseteq Uses(t)
  <2> SUFFICES ASSUME NEW a \in Slots, NEW z \in u.nodes, u.loc[z] = - a
               PROVE  a \in Uses(t)
    BY DEF Uses
  <2>1. a \in Nat /\ a > 0
    BY DEF Slots
  <2>2. z # d.y
    BY <1>1, <1>5, <2>1 DEF IsCutTree, IsCutHeap
  <2>3. z \in t.nodes /\ t.loc[z] = - a
    BY <1>5, <2>2 DEF IsCutTree
  <2>4. QED
    BY <2>3 DEF Uses
<1>11. Follows(t, u)
  <2>1. u.root = t.root /\ t.root \in t.nodes /\ u.held = t.held
    BY <1>1, <1>5 DEF IsCutTree, TreeShape
  <2>2. u.loc[t.root] = t.loc[t.root]
    BY <1>5, <2>1 DEF IsCutTree
  <2>3. QED
    BY <1>10, <2>1, <2>2 DEF Follows
<1>12. QED
  BY <1>9, <1>11

\* In heap k is a root without keys above the tree that is in heap g.
IsCovered(t, u, g, k, top) ==
  /\ DOMAIN k = DOMAIN g \cup {top} /\ \A x \in DOMAIN g : k[x] = g[x]
  /\ SeenOf(k[top]) = ThinRoot(t.loc[t.root])
  /\ u.held = t.held /\ u.loc[u.root] = top /\ u.node[u.root] = ThinRoot(t.loc[t.root])
  /\ Uses(u) \subseteq Uses(t) /\ IsChild(u, u.root, 0, t.root)
  /\ \A z \in t.nodes : z \in u.nodes /\ u.loc[z] = t.loc[z] /\ u.node[z] = t.node[z]

\* The tree with such a root.
LEMMA RootShown ==
  ASSUME NEW t, NEW g, NEW f, Represents(t, g, f), DOMAIN g \subseteq Nat \ {0}, t.loc[t.root] \in DOMAIN g,
         t.node[t.root].num # 0, NEW top \in Nat \ {0}, top \notin DOMAIN g
  PROVE  \E u, k : Represents(u, k, f) /\ IsCovered(t, u, g, k, top)
<1> DEFINE left == t.loc[t.root]
           n == [leaf |-> FALSE, num |-> 0, keys |-> [i \in 0 .. Size - 1 |-> 0],
                 ptrs |-> [i \in 0 .. Size |-> 0],
                 kids |-> [i \in 0 .. Size |-> IF i = 0 THEN left ELSE 0]]
           k == With(g, top, n)
<1>1. GoodTree(t) /\ TreeShape(t) /\ left \in Nat /\ left > 0 /\ left # 0
  BY DEF Represents, GoodTree
<1>2. SeenOf(n) = ThinRoot(left)
  <2> HIDE DEF left
  <2>1. \A i \in 0 .. Size : (IF n.kids[i] # 0 THEN n.kids[i] ELSE - n.ptrs[i]) = IF i = 0 THEN left ELSE 0
    <3> TAKE i \in 0 .. Size
    <3>1. n.kids[i] = (IF i = 0 THEN left ELSE 0) /\ n.ptrs[i] = 0
      OBVIOUS
    <3> HIDE DEF n
    <3>2. - n.ptrs[i] = 0
      BY <3>1, NegatedZero, Zenon
    <3>3. QED
      BY <1>1, <3>1, <3>2
  <2>2. [i \in 0 .. Size |-> IF n.kids[i] # 0 THEN n.kids[i] ELSE - n.ptrs[i]]
          = [i \in 0 .. Size |-> IF i = 0 THEN left ELSE 0]
    <3> HIDE DEF n
    <3>1. QED
      BY <2>1
  <2>3. n.leaf = FALSE /\ n.num = 0 /\ n.keys = [i \in 0 .. Size - 1 |-> 0]
    OBVIOUS
  <2> HIDE DEF n
  <2>4. QED
    BY <2>2, <2>3 DEF SeenOf, ThinRoot
<1>3. ThinRoot(left) \in SeenNodes /\ ~ ThinRoot(left).leaf /\ ThinRoot(left).num = 0 /\ ThinRoot(left).below[0] = left
  <2>1. left \in Nat \ {0} /\ 1 \in Nat \ {0} /\ 0 \in Nat
    BY <1>1
  <2> HIDE DEF left
  <2>2. QED
    BY <2>1, RootIsWidened
<1> HIDE DEF n
<1>4. DOMAIN k = DOMAIN g \cup {top} /\ k[top] = n /\ \A x \in DOMAIN g : k[x] = g[x]
  BY DEF With
<1> HIDE DEF k
<1>5. PICK y : y \in Nat \ t.nodes
  BY <1>1, FreshNumber DEF TreeShape
<1> DEFINE d == [top |-> y, at |-> top, node |-> ThinRoot(left)]
           nodes == t.nodes \cup {y}
           range == [z \in nodes |-> IF z = y THEN Keys ELSE t.range[z]]
           level == [z \in nodes |-> IF z = y THEN t.level[t.root] + 1 ELSE t.level[z]]
           loc == [z \in nodes |-> IF z = y THEN top ELSE t.loc[z]]
           node == [z \in nodes |-> IF z = y THEN d.node ELSE t.node[z]]
           u == [nodes |-> nodes, root |-> y, range |-> range, level |-> level, held |-> t.held,
                 loc |-> loc, node |-> node]
<1>6. /\ d.top = y /\ d.at = top /\ d.node = ThinRoot(left)
  OBVIOUS
<1> HIDE DEF d
<1>7. range \in [nodes -> SUBSET Keys]
  <2>1. \A z \in nodes : (IF z = y THEN Keys ELSE t.range[z]) \in SUBSET Keys
    BY <1>1 DEF TreeShape
  <2> HIDE DEF nodes
  <2>2. QED
    BY <2>1
<1>8. level \in [nodes -> Nat] /\ loc \in [nodes -> Int] /\ node \in [nodes -> SeenNodes]
  <2>1. /\ \A z \in t.nodes : t.level[z] \in Nat /\ t.loc[z] \in Int /\ t.node[z] \in SeenNodes
        /\ t.root \in t.nodes
    BY <1>1 DEF TreeShape
  <2>2. \A z \in nodes : (IF z = y THEN t.level[t.root] + 1 ELSE t.level[z]) \in Nat
    BY <2>1
  <2>3. \A z \in nodes : (IF z = y THEN top ELSE t.loc[z]) \in Int
    BY <2>1
  <2>4. \A z \in nodes : (IF z = y THEN d.node ELSE t.node[z]) \in SeenNodes
    BY <1>3, <1>6, <2>1
  <2> HIDE DEF nodes
  <2>5. QED
    BY <2>2, <2>3, <2>4
<1>9. \A z \in t.nodes : t.loc[z] # top
  <2> TAKE z \in t.nodes
  <2>1. IF t.loc[z] > 0 THEN t.loc[z] \in DOMAIN g ELSE TRUE
    BY DEF Represents
  <2>2. QED
    BY <2>1
<1>10. IsTopped(t, u, d)
  <2>1. range[y] = Keys /\ level[y] = t.level[t.root] + 1 /\ loc[y] = top /\ node[y] = d.node
    OBVIOUS
  <2>2. \A z \in t.nodes : /\ range[z] = t.range[z] /\ level[z] = t.level[z]
                           /\ loc[z] = t.loc[z] /\ node[z] = t.node[z]
    BY <1>5
  <2> HIDE DEF range, level, loc, node
  <2>3. QED
    BY <1>3, <1>5, <1>6, <1>7, <1>8, <1>9, <2>1, <2>2 DEF IsTopped
<1> HIDE DEF u
<1>11. GoodTree(u) /\ IsChild(u, d.top, 0, t.root) /\ u.node[d.top] = d.node
  BY <1>1, <1>10, RootCovered
<1>12. /\ u.nodes = t.nodes \cup {y} /\ u.root = y /\ u.held = t.held
       /\ u.loc[y] = top /\ u.node[y] = ThinRoot(left)
       /\ \A z \in t.nodes : u.loc[z] = t.loc[z] /\ u.node[z] = t.node[z]
  BY <1>6, <1>10 DEF IsTopped
<1>13. ASSUME NEW z \in u.nodes
       PROVE  /\ IF u.loc[z] > 0 THEN u.loc[z] \in DOMAIN k ELSE - u.loc[z] \in Slots
              /\ u.node[z] = Seen(k, f, u.loc[z])
  <2>1. CASE z = y
    BY <1>2, <1>4, <1>12, <2>1, SeenAtPlace
  <2>2. CASE z # y
    <3>1. /\ z \in t.nodes /\ u.loc[z] = t.loc[z] /\ u.node[z] = t.node[z]
          /\ IF t.loc[z] > 0 THEN t.loc[z] \in DOMAIN g ELSE - t.loc[z] \in Slots
          /\ t.node[z] = Seen(g, f, t.loc[z])
      BY <1>12, <2>2 DEF Represents
    <3>2. CASE t.loc[z] > 0
      BY <1>4, <3>1, <3>2, SeenAtPlace
    <3>3. CASE ~ (t.loc[z] > 0)
      BY <3>1, <3>3, Zenon DEF Seen
    <3>4. QED
      BY <3>2, <3>3
  <2>3. QED
    BY <2>1, <2>2
<1>14. ASSUME NEW id \in DOMAIN k
       PROVE  \E z \in u.nodes : u.loc[z] = id
  <2>1. CASE id = top
    BY <1>12, <2>1
  <2>2. CASE id # top
    <3>1. PICK z \in t.nodes : t.loc[z] = id
      BY <1>4, <2>2 DEF Represents
    <3>2. QED
      BY <1>12, <3>1
  <2>3. QED
    BY <2>1, <2>2
<1>15. Represents(u, k, f)
  BY <1>11, <1>13, <1>14 DEF Represents
<1>16. Uses(u) \subseteq Uses(t)
  <2> SUFFICES ASSUME NEW a \in Slots, NEW z \in u.nodes, u.loc[z] = - a
               PROVE  a \in Uses(t)
    BY DEF Uses
  <2>1. a \in Nat /\ a > 0
    BY DEF Slots
  <2>2. z # y
    BY <1>12, <2>1
  <2>3. z \in t.nodes /\ t.loc[z] = - a
    BY <1>12, <2>2
  <2>4. QED
    BY <2>3 DEF Uses
<1>17. IsCovered(t, u, g, k, top)
  BY <1>2, <1>4, <1>6, <1>11, <1>12, <1>16 DEF IsCovered
<1>18. QED
  BY <1>15, <1>17

\* What is seen when a full node is split.
LEMMA SplitSeen ==
  ASSUME NEW g \in AnyHeapsOf(Nat), NEW id \in DOMAIN g, g[id].num = Size, g[id].vol
  PROVE  LET s == Split(g, id) IN
         /\ s.right > 0 /\ s.right \in Nat /\ s.right \notin DOMAIN g /\ DOMAIN s.heap = DOMAIN g \cup {s.right}
         /\ s.mid = Middle(SeenOf(g[id])) /\ Carries(g, s.heap)
         /\ IsLowerPart(SeenOf(g[id]), SeenOf(s.heap[id]))
         /\ IsUpperPart(SeenOf(g[id]), SeenOf(s.heap[s.right]))
         /\ \A x \in DOMAIN g \ {id} : SeenOf(s.heap[x]) = SeenOf(g[x])
<1> DEFINE s == Split(g, id)  k == s.heap  right == s.right
           n == g[id]  l == Left_Part(n)  r == Right_Part(n)
<1>1. /\ right > 0 /\ right \in Nat /\ right \notin DOMAIN g
      /\ DOMAIN k = DOMAIN g \cup {right}
      /\ s.mid = n.keys[IF n.leaf THEN Half + 1 ELSE Half]
      /\ AsItWas(l, k[id]) /\ AsItWas(r, k[right])
      /\ \A x \in DOMAIN g \ {id} : AsItWas(g[x], k[x])
  BY SplitAsItWas
<1>2. n \in NodesOf(Nat) /\ Sound(n) /\ n.num = Size /\ n.vol
  BY HeapNodes
<1> HIDE DEF n, s
<1>3. /\ IsLowerPart(SeenOf(n), SeenOf(l)) /\ IsUpperPart(SeenOf(n), SeenOf(r))
      /\ Middle(SeenOf(n)) = n.keys[IF n.leaf THEN Half + 1 ELSE Half]
      /\ l.line = n.line /\ l.vol = n.vol /\ l.addr = n.addr
      /\ r.line = 0 /\ r.vol /\ r.addr = 0
  BY <1>2, PartsOfNode
<1> HIDE DEF l, r
<1>4. Carries(g, k)
  <2>1. ASSUME NEW x \in DOMAIN g
        PROVE  /\ k[x].vol = g[x].vol /\ k[x].addr = g[x].addr /\ k[x].line = g[x].line
               /\ ~ g[x].vol => Content(k[x]) = Content(g[x])
    <3>1. CASE x = id
      BY <1>1, <1>2, <1>3, <3>1 DEF AsItWas, n
    <3>2. CASE x # id
      BY <1>1, <3>2 DEF AsItWas
    <3>3. QED
      BY <3>1, <3>2
  <2>2. k[right].vol /\ k[right].addr = 0 /\ k[right].line = 0
    BY <1>1, <1>3 DEF AsItWas
  <2>3. QED
    BY <1>1, <2>1, <2>2 DEF Carries
<1>5. SeenOf(k[id]) = SeenOf(l) /\ SeenOf(k[right]) = SeenOf(r) /\ \A x \in DOMAIN g \ {id} : SeenOf(k[x]) = SeenOf(g[x])
  BY <1>1 DEF AsItWas
<1>6. QED
  BY <1>1, <1>3, <1>4, <1>5 DEF n, s

\* Heap g is heap h with a root above two nodes.
IsSeenRaised(h, g, top, left, right, key) ==
  /\ top > 0 /\ top \in Nat /\ top \notin DOMAIN h /\ DOMAIN g = DOMAIN h \cup {top}
  /\ Carries(h, g) /\ IsWidened(ThinRoot(left), SeenOf(g[top]), key, right)
  /\ g[top].vol /\ g[top].parent = 0
  /\ \A x \in DOMAIN h : SeenOf(g[x]) = SeenOf(h[x])

\* What is seen when a root is put above two nodes.
LEMMA RaisedSeen ==
  ASSUME NEW h \in AnyHeapsOf(Nat), NEW left \in Nat \ {0}, NEW right \in Nat \ {0}, NEW key \in Nat
  PROVE  IsSeenRaised(h, Raised(h, left, right, key), New_Id(h), left, right, key)
<1> DEFINE g == Raised(h, left, right, key)  top == New_Id(h)  r == New_Root(left, right, key)
<1>1. /\ top > 0 /\ top \in Nat /\ top \notin DOMAIN h /\ DOMAIN g = DOMAIN h \cup {top}
      /\ g[top] = r /\ \A x \in DOMAIN h : AsItWas(h[x], g[x])
  BY RaisedAsItWas
<1>2. IsWidened(ThinRoot(left), SeenOf(r), key, right) /\ r.vol /\ r.addr = 0 /\ r.line = 0 /\ r.parent = 0
  BY RootIsWidened
<1> HIDE DEF g, top, r
<1>3. Carries(h, g)
  BY <1>1, <1>2 DEF Carries, AsItWas
<1>4. \A x \in DOMAIN h : SeenOf(g[x]) = SeenOf(h[x])
  BY <1>1 DEF AsItWas
<1>5. QED
  BY <1>1, <1>2, <1>3, <1>4 DEF g, top, IsSeenRaised

\* A split gives another parent to the children of the node only.
LEMMA OthersStay ==
  ASSUME NEW h \in AnyHeapsOf(Nat), Joined(h), NEW id \in DOMAIN h, h[id].num = Size,
         NEW g, NEW right, IsSplit(h, g, id, right)
  PROVE  \A y \in DOMAIN h : h[y].parent # id => g[y].parent = h[y].parent
<1> SUFFICES ASSUME NEW y \in DOMAIN h, h[y].parent # id
             PROVE  g[y].parent = h[y].parent
  OBVIOUS
<1> DEFINE moved == {g[right].kids[i] : i \in 0 .. Size} \ {0}
<1>1. y \notin moved
  <2> SUFFICES ASSUME NEW i \in 0 .. Size, g[right].kids[i] = y, y # 0
               PROVE  FALSE
    OBVIOUS
  <2>1. IsUpper(h[id], g[right])
    BY DEF IsSplit
  <2>2. i <= Size - Half - 1 /\ y = h[id].kids[i + Half + 1]
    BY <2>1 DEF IsUpper
  <2>3. i + Half + 1 \in 0 .. Size
    BY <2>2, Halves, Numbers
  <2>4. QED
    BY <2>2, <2>3 DEF Joined
<1>2. y # right
  BY DEF IsSplit
<1>3. g[y].parent = IF y \in moved THEN right ELSE IF y = right THEN h[id].parent ELSE h[y].parent
  BY DEF IsSplit
<1>4. QED
  BY <1>1, <1>2, <1>3

\* What is known of a full node in the heap of a call and its parts.
FullCall(w, t, g, s) ==
  /\ g \in AnyHeapsOf(Nat) /\ w.node \in DOMAIN g /\ g[w.node].num = Size /\ g[w.node].vol
  /\ \A x \in DOMAIN g \ {w.node} : g[x].num < Size
  /\ s = Split(g, w.node) /\ Joined(g) /\ disk \in CachesOf(Nat)
  /\ Represents(t, g, disk) /\ t.loc[t.root] = w.root
  /\ w.root \in DOMAIN g /\ g[w.root].parent = 0

\* The parent gets the key and the right part.
LEMMA ParentCalled ==
  ASSUME NEW w, NEW t, NEW g, NEW s, FullCall(w, t, g, s), NEW v \in CallsOf(Nat),
         /\ v.heap = s.heap /\ v.node = g[w.node].parent /\ v.node # 0 /\ v.key = s.mid /\ v.child = s.right
  PROVE  \E u : Represents(u, CalledHeap(v), disk) /\ Follows(t, u)
<1> DEFINE id == w.node  p == v.node  right == s.right  k == CalledHeap(v)
<1>1. /\ g \in AnyHeapsOf(Nat) /\ id \in DOMAIN g /\ g[id].num = Size /\ g[id].vol /\ Joined(g)
      /\ Represents(t, g, disk) /\ GoodTree(t) /\ TreeShape(t) /\ disk \in CachesOf(Nat)
      /\ DOMAIN g \subseteq Nat \ {0}
  BY HeapNodes DEF FullCall, Represents, GoodTree
<1>2. /\ right > 0 /\ right \in Nat /\ right \notin DOMAIN g /\ DOMAIN s.heap = DOMAIN g \cup {right}
      /\ s.mid = Middle(SeenOf(g[id])) /\ Carries(g, s.heap)
      /\ IsLowerPart(SeenOf(g[id]), SeenOf(s.heap[id]))
      /\ IsUpperPart(SeenOf(g[id]), SeenOf(s.heap[right]))
      /\ \A x \in DOMAIN g \ {id} : SeenOf(s.heap[x]) = SeenOf(g[x])
  <2>1. s = Split(g, id)
    BY DEF FullCall
  <2> HIDE DEF id
  <2>2. QED
    BY <1>1, <2>1, SplitSeen
<1>3. PICK x \in t.nodes : t.loc[x] = id
  BY <1>1 DEF Represents
<1>4. x # t.root
  BY <1>3 DEF FullCall
<1>5. p \in DOMAIN g /\ \E z \in t.nodes : /\ t.loc[z] = p /\ ~ t.node[z].leaf
                                           /\ \E i \in 0 .. t.node[z].num : IsChild(t, z, i, x)
  <2>1. p = g[t.loc[x]].parent /\ t.loc[x] \in DOMAIN g
    BY <1>1, <1>3
  <2> HIDE DEF p, id
  <2>2. QED
    BY <1>1, <1>4, <2>1, ParentOf
<1>6. PICK z \in t.nodes : /\ t.loc[z] = p /\ ~ t.node[z].leaf
                           /\ \E i \in 0 .. t.node[z].num : IsChild(t, z, i, x)
  BY <1>5
<1>7. PICK i \in 0 .. t.node[z].num : IsChild(t, z, i, x)
  BY <1>6
<1>8. p # id
  <2>1. t.level[x] + 1 = t.level[z] /\ t.level[x] \in Nat
    BY <1>1, <1>7 DEF IsChild, TreeShape
  <2>2. x # z
    BY <2>1
  <2>3. QED
    BY <1>1, <1>3, <1>6, <2>2 DEF GoodTree, Apart
<1>9. t.node[x] = SeenOf(g[id]) /\ t.node[z] = SeenOf(g[p])
  <2>1. t.node[x] = Seen(g, disk, id) /\ t.node[z] = Seen(g, disk, p) /\ id > 0 /\ p > 0
    BY <1>1, <1>3, <1>5, <1>6 DEF Represents
  <2>2. QED
    BY <2>1, SeenAtPlace
<1>10. t.node[x].num = Size /\ t.node[z].num < Size /\ ~ g[p].leaf
  <2>1. g[id] \in NodesOf(Nat) /\ g[p] \in NodesOf(Nat) /\ g[p].num < Size
    BY <1>1, <1>5, <1>8, HeapNodes DEF FullCall
  <2>2. QED
    BY <1>1, <1>6, <1>9, <2>1, SeenOfNode
<1>11. SeenOf(v.heap[p]) = SeenOf(g[p]) /\ InOrder(SeenOf(v.heap[p]))
  <2>1. SeenOf(v.heap[p]) = SeenOf(g[p])
    BY <1>2, <1>5, <1>8
  <2>2. InOrder(t.node[z])
    BY <1>1 DEF GoodTree, Belongs
  <2>3. QED
    BY <1>9, <2>1, <2>2
<1>12. /\ IsWidened(SeenOf(v.heap[p]), SeenOf(k[p]), v.key, v.child)
       /\ \A y \in DOMAIN v.heap \ {p} : SeenOf(k[y]) = SeenOf(v.heap[y])
       /\ DOMAIN k = DOMAIN v.heap
  <2>1. v.child # 0
    BY <1>2
  <2>2. DOMAIN k = DOMAIN v.heap
    BY CallAsItWas
  <2>3. QED
    BY <1>11, <2>1, <2>2, CallSeen
<1>13. PICK y : y \in Nat \ t.nodes
  BY <1>1, FreshNumber DEF TreeShape
<1> DEFINE d == [x |-> x, p |-> z, y |-> y, at |-> right, i |-> i, mid |-> s.mid,
                 l |-> SeenOf(s.heap[id]), r |-> SeenOf(s.heap[right]), g |-> SeenOf(k[p])]
<1>14. /\ d.x = x /\ d.p = z /\ d.y = y /\ d.at = right /\ d.i = i /\ d.mid = s.mid
       /\ d.l = SeenOf(s.heap[id]) /\ d.r = SeenOf(s.heap[right]) /\ d.g = SeenOf(k[p])
  OBVIOUS
<1> HIDE DEF d, k, right, p, id
<1>15. IsCut(t, d)
  <2>1. right \in Int /\ \A e \in t.nodes : t.loc[e] # right
    <3>1. \A e \in t.nodes : t.loc[e] > 0 => t.loc[e] \in DOMAIN g
      BY <1>1 DEF Represents
    <3>2. QED
      BY <1>2, <3>1
  <2>2. IsWidened(t.node[z], SeenOf(k[p]), s.mid, right)
    BY <1>9, <1>11, <1>12 DEF right
  <2>3. QED
    BY <1>2, <1>6, <1>7, <1>9, <1>10, <1>13, <1>14, <2>1, <2>2 DEF IsCut
<1>16. IsCutHeap(t, d, g, k)
  <2>1. DOMAIN k = DOMAIN g \cup {right}
    BY <1>2, <1>12
  <2>2. SeenOf(k[id]) = SeenOf(s.heap[id]) /\ SeenOf(k[right]) = SeenOf(s.heap[right])
    BY <1>1, <1>2, <1>5, <1>8, <1>12
  <2>3. \A e \in DOMAIN g \ {id, p} : SeenOf(k[e]) = SeenOf(g[e])
    BY <1>2, <1>12
  <2>4. QED
    BY <1>1, <1>2, <1>3, <1>5, <1>6, <1>14, <2>1, <2>2, <2>3 DEF IsCutHeap
<1>17. \E u : Represents(u, k, disk) /\ Follows(t, u)
  BY <1>1, <1>15, <1>16, CutShown
<1>18. QED
  BY <1>17 DEF k

\* A new root gets the two parts.
LEMMA RootSplit ==
  ASSUME NEW w, NEW t, NEW g, NEW s, FullCall(w, t, g, s), g[w.node].parent = 0, s.heap \in AnyHeapsOf(Nat)
  PROVE  \E u : /\ Represents(u, Raised(s.heap, w.node, s.right, s.mid), disk)
                /\ u.held = t.held /\ u.loc[u.root] = New_Id(s.heap) /\ Uses(u) \subseteq Uses(t)
<1> DEFINE id == w.node  right == s.right  top == New_Id(s.heap)
           k == Raised(s.heap, id, right, s.mid)
<1>1. /\ g \in AnyHeapsOf(Nat) /\ id \in DOMAIN g /\ g[id].num = Size /\ g[id].vol /\ Joined(g)
      /\ Represents(t, g, disk) /\ GoodTree(t) /\ TreeShape(t) /\ disk \in CachesOf(Nat)
      /\ DOMAIN g \subseteq Nat \ {0}
  BY HeapNodes DEF FullCall, Represents, GoodTree
<1>2. /\ right > 0 /\ right \in Nat /\ right \notin DOMAIN g /\ DOMAIN s.heap = DOMAIN g \cup {right}
      /\ s.mid = Middle(SeenOf(g[id])) /\ Carries(g, s.heap)
      /\ IsLowerPart(SeenOf(g[id]), SeenOf(s.heap[id]))
      /\ IsUpperPart(SeenOf(g[id]), SeenOf(s.heap[right]))
      /\ \A x \in DOMAIN g \ {id} : SeenOf(s.heap[x]) = SeenOf(g[x])
  <2>1. s = Split(g, id)
    BY DEF FullCall
  <2> HIDE DEF id
  <2>2. QED
    BY <1>1, <2>1, SplitSeen
<1>3. PICK x \in t.nodes : t.loc[x] = id
  BY <1>1 DEF Represents
<1>4. x = t.root
  <2> SUFFICES ASSUME x # t.root
               PROVE  FALSE
    OBVIOUS
  <2>1. t.loc[x] \in DOMAIN g /\ g[t.loc[x]].parent = 0
    BY <1>1, <1>3
  <2> HIDE DEF id
  <2>2. QED
    BY <1>1, <2>1, ParentOf
<1>5. t.node[x] = SeenOf(g[id]) /\ t.node[x].num = Size /\ Middle(SeenOf(g[id])) \in Nat
  <2>1. t.node[x] = Seen(g, disk, id) /\ id > 0
    BY <1>1, <1>3 DEF Represents
  <2>2. t.node[x] = SeenOf(g[id])
    BY <2>1, SeenAtPlace
  <2>3. g[id] \in NodesOf(Nat) /\ Sound(g[id])
    BY <1>1, HeapNodes
  <2>4. SeenOf(g[id]).num = Size /\ SeenOf(g[id]).keys = g[id].keys
    BY <1>1, <2>3, SeenOfNode
  <2>5. Half \in 0 .. Size - 1 /\ Half + 1 \in 0 .. Size - 1
    BY Halves, Numbers
  <2>6. Middle(SeenOf(g[id])) \in Nat
    BY <2>3, <2>4, <2>5 DEF Middle, NodesOf
  <2>7. QED
    BY <2>2, <2>4, <2>6
<1>6. /\ top > 0 /\ top \in Nat /\ top \notin DOMAIN s.heap /\ DOMAIN k = DOMAIN s.heap \cup {top}
      /\ IsWidened(ThinRoot(id), SeenOf(k[top]), s.mid, right)
      /\ \A y \in DOMAIN s.heap : SeenOf(k[y]) = SeenOf(s.heap[y])
  <2> DEFINE mid == s.mid  h == s.heap
  <2>1. id \in Nat \ {0} /\ right \in Nat \ {0} /\ mid \in Nat /\ h \in AnyHeapsOf(Nat)
    BY <1>1, <1>2, <1>5
  <2>2. k = Raised(h, id, right, mid) /\ top = New_Id(h)
    OBVIOUS
  <2> HIDE DEF id, right, mid, h, k, top
  <2>3. IsSeenRaised(h, k, top, id, right, mid)
    BY <2>1, <2>2, RaisedSeen
  <2>4. QED
    BY <2>3 DEF mid, h, IsSeenRaised
<1> HIDE DEF k, right, id, top
<1>7. PICK v, e : Represents(v, e, disk) /\ IsCovered(t, v, g, e, top)
  <2>1. t.loc[t.root] \in DOMAIN g /\ t.node[t.root].num # 0
    BY <1>1, <1>3, <1>4, <1>5, Numbers
  <2>2. top \in Nat \ {0} /\ top \notin DOMAIN g
    BY <1>2, <1>6
  <2>3. QED
    BY <1>1, <2>1, <2>2, RootShown
<1>8. /\ GoodTree(v) /\ TreeShape(v) /\ v.root \in v.nodes /\ x \in v.nodes
      /\ DOMAIN e = DOMAIN g \cup {top} /\ (\A y \in DOMAIN g : e[y] = g[y]) /\ SeenOf(e[top]) = ThinRoot(id)
      /\ v.held = t.held /\ v.loc[v.root] = top /\ v.node[v.root] = ThinRoot(id)
      /\ Uses(v) \subseteq Uses(t) /\ IsChild(v, v.root, 0, x)
      /\ v.loc[x] = id /\ v.node[x] = SeenOf(g[id])
  BY <1>3, <1>4, <1>5, <1>7 DEF IsCovered, Represents, GoodTree, TreeShape
<1>9. PICK y : y \in Nat \ v.nodes
  BY <1>8, FreshNumber DEF TreeShape
<1> DEFINE d == [x |-> x, p |-> v.root, y |-> y, at |-> right, i |-> 0, mid |-> s.mid,
                 l |-> SeenOf(s.heap[id]), r |-> SeenOf(s.heap[right]), g |-> SeenOf(k[top])]
<1>10. /\ d.x = x /\ d.p = v.root /\ d.y = y /\ d.at = right /\ d.i = 0 /\ d.mid = s.mid
       /\ d.l = SeenOf(s.heap[id]) /\ d.r = SeenOf(s.heap[right]) /\ d.g = SeenOf(k[top])
  OBVIOUS
<1> HIDE DEF d
<1>11. IsCut(v, d)
  <2>1. right \in Int /\ \A c \in v.nodes : v.loc[c] # right
    <3>1. \A c \in v.nodes : v.loc[c] > 0 => v.loc[c] \in DOMAIN e
      BY <1>7 DEF Represents
    <3>2. QED
      BY <1>2, <1>6, <1>8, <3>1
  <2>2. ThinRoot(id).num = 0 /\ ~ ThinRoot(id).leaf /\ 0 \in 0 .. 0 /\ 0 < Size
    BY Numbers DEF ThinRoot
  <2>3. QED
    BY <1>2, <1>5, <1>6, <1>8, <1>9, <1>10, <2>1, <2>2 DEF IsCut
<1>12. IsCutHeap(v, d, e, k)
  <2>1. DOMAIN k = DOMAIN e \cup {right} /\ right \notin DOMAIN e /\ DOMAIN e \subseteq Nat \ {0}
    BY <1>1, <1>2, <1>6, <1>8
  <2>2. SeenOf(k[id]) = SeenOf(s.heap[id]) /\ SeenOf(k[right]) = SeenOf(s.heap[right])
    BY <1>1, <1>2, <1>6
  <2>3. \A c \in DOMAIN e \ {id, top} : SeenOf(k[c]) = SeenOf(e[c])
    BY <1>2, <1>6, <1>8
  <2>4. QED
    BY <1>1, <1>2, <1>8, <1>10, <2>1, <2>2, <2>3 DEF IsCutHeap
<1>13. PICK u : Represents(u, k, disk) /\ Follows(v, u)
  BY <1>7, <1>11, <1>12, CutShown
<1>14. u.held = t.held /\ u.loc[u.root] = top /\ Uses(u) \subseteq Uses(t)
  BY <1>8, <1>13 DEF Follows
<1>15. QED
  BY <1>13, <1>14 DEF k, top, id, right

\* A Put under way: the tree with the key in it, K in all, is there, but that the
\* call that comes next has still to be made; F are slots freed before.
Putting(w, K, F) ==
  /\ F \subseteq w.freed /\ w.root \in DOMAIN w.heap /\ w.heap[w.root].vol /\ w.heap[w.root].parent = 0
  /\ \E t : /\ Space(t, w.heap, w.freed) /\ t.loc[t.root] = w.root /\ t.held = K
            /\ Represents(t, IF w.node = 0 THEN w.heap ELSE CalledHeap(w), disk)

\* A call that fills its node: g is the heap with the key, s what Split makes of
\* it, r what is left to do.
IsFullRound(w, g, s, r) ==
  /\ g[w.node].num = Size /\ g[w.node].vol /\ Joined(g) /\ w.node \in DOMAIN g
  /\ \A x \in DOMAIN g \ {w.node} : g[x].num < Size
  /\ s = Split(g, w.node) /\ s.heap \in AnyHeapsOf(Nat) /\ IsSplit(g, s.heap, w.node, s.right) /\ s.mid \in Nat
  /\ r \in CallsOf(Nat) /\ r.freed = Renew(w, w.node).freed
  /\ IF g[w.node].parent = 0
     THEN /\ r.node = 0 /\ r.root = New_Id(s.heap)
          /\ r.heap = Raised(s.heap, w.node, s.right, s.mid)
     ELSE /\ r.node = g[w.node].parent /\ r.root = w.root /\ r.heap = s.heap
          /\ r.key = s.mid /\ r.child = s.right

\* Such a call.
LEMMA FullRound ==
  ASSUME NEW w \in CallsOf(Nat), w.node # 0, NEW k \in Nat, w \in CallsWithin(Nat, k),
         ~ (CalledHeap(w)[w.node].num < Size)
  PROVE  LET g == CalledHeap(w) IN IsFullRound(w, g, Split(g, w.node), Insert_Round(w))
<1> DEFINE h == w.heap  id == w.node  g == CalledHeap(w)  renewed == Renew(w, w.node)
           inserted == [Renew(w, w.node) EXCEPT !.heap = CalledHeap(w)]
           s == Split(CalledHeap(w), w.node)  r == Insert_Round(w)
<1>1. /\ g \in AnyHeapsOf(Nat) /\ id \in DOMAIN g
      /\ \A x \in DOMAIN g \ {id} : g[x].num < Size
      /\ g[id].num = h[id].num + 1 /\ h[id].num \in 0 .. Size - 1
      /\ inserted \in PutsOf(Nat) /\ inserted.heap = g /\ inserted.freed = renewed.freed
      /\ inserted.root = w.root
  BY CallGrows
<1>2. g[id].num = Size
  BY <1>1, Numbers
<1>3. PICK d : Linked(g, d, g[id].parent)
  <2>1. Offered(h, id, w.child) /\ \E d : Linked(h, d, id)
    BY DEF CallsWithin
  <2>2. Offered(h, id, w.child) => \A d : Linked(h, d, id) => Linked(g, d, g[id].parent)
    BY CallGrows
  <2>3. QED
    BY <2>1, <2>2
<1>4. Joined(g) /\ g[id].vol
  <2>1. g[id].vol
    BY CallSpace
  <2>2. QED
    BY <1>3, <2>1 DEF Linked
<1>5. r \in CallsOf(Nat)
  BY InsertRoundKeeps
<1>6. r = IF s.heap[id].parent = 0
          THEN [inserted EXCEPT !.heap = Raised(s.heap, id, s.right, s.mid),
                                !.root = New_Id(s.heap), !.node = 0]
          ELSE [inserted EXCEPT !.heap = s.heap, !.node = s.heap[id].parent,
                                !.key = s.mid, !.address = 0, !.child = s.right]
  <2>1. ~ (inserted.heap[w.node].num < Size)
    BY <1>1
  <2> DEFINE inner == [Renew(w, w.node) EXCEPT !.heap =
                          Insert_Key(Renew(w, w.node).heap, w.node, w.key, w.address, w.child)]
  <2>2. inserted = inner
    BY DEF CalledHeap
  <2>3. Split(inserted.heap, w.node) = s
    BY <1>1
  <2>4. Insert_Round(w) =
          LET split == Split(inner.heap, w.node)
              parent == split.heap[w.node].parent
          IN IF w.node = 0 THEN w
             ELSE IF inner.heap[w.node].num < Size THEN Renew_Ancestors(inner)
             ELSE IF parent = 0
             THEN [inner EXCEPT !.heap = Raised(split.heap, w.node, split.right, split.mid),
                                !.root = New_Id(split.heap), !.node = 0]
             ELSE [inner EXCEPT !.heap = split.heap, !.node = parent,
                                !.key = split.mid, !.address = 0, !.child = split.right]
    BY DEF Insert_Round
  <2> HIDE DEF inserted, s, inner
  <2>5. QED
    BY <2>1, <2>2, <2>3, <2>4
<1> HIDE DEF g, id, renewed, inserted, r
<1>7. s.heap \in AnyHeapsOf(Nat) /\ IsSplit(g, s.heap, id, s.right) /\ s.mid \in Nat
  <2>1. Split(g, id) = s
    BY DEF g, id
  <2> HIDE DEF s
  <2>2. QED
    BY <1>1, <1>2, <2>1, SplitKeeps
<1> HIDE DEF s
<1>8. s.heap[id].parent = g[id].parent
  <2> DEFINE u == [id |-> id, right |-> s.right]  k1 == s.heap
  <2>1. u.id = id /\ u.right = s.right
    OBVIOUS
  <2>2. g[id].leaf => \A i \in 0 .. Size : g[id].kids[i] = 0
    BY <1>1, HeapNodes DEF Sound
  <2> HIDE DEF u
  <2>3. u.id \in DOMAIN g /\ g[u.id].num = Size /\ IsSplit(g, k1, u.id, u.right)
        /\ (g[u.id].leaf => \A i \in 0 .. Size : g[u.id].kids[i] = 0) /\ Linked(g, d, g[u.id].parent)
    BY <1>1, <1>2, <1>3, <1>7, <2>1, <2>2
  <2> HIDE DEF k1
  <2>4. IsLinkedSplit(g, k1, u)
    BY <1>1, <2>3, SplitLinks
  <2>5. k1[u.id].parent = g[u.id].parent
    BY <2>3, <2>4 DEF IsLinkedSplit
  <2>6. QED
    BY <2>1, <2>5 DEF k1
<1>9. r.freed = renewed.freed
      /\ IF g[id].parent = 0
         THEN /\ r.node = 0 /\ r.root = New_Id(s.heap) /\ r.heap = Raised(s.heap, id, s.right, s.mid)
         ELSE /\ r.node = g[id].parent /\ r.root = w.root /\ r.heap = s.heap
              /\ r.key = s.mid /\ r.child = s.right
  BY <1>1, <1>6, <1>8 DEF PutsOf
<1>10. QED
  BY <1>1, <1>2, <1>4, <1>5, <1>7, <1>9 DEF IsFullRound, s, g, id, renewed, r

\* One call of a Put leaves the tree with the key, and the next call to make.
LEMMA PuttingRound ==
  ASSUME disk \in CachesOf(Nat), NEW k \in Nat, NEW w \in CallsOf(Nat), w \in CallsWithin(Nat, k),
         NEW K, NEW F, Putting(w, K, F)
  PROVE  Putting(Insert_Round(w), K, F)
<1>1. CASE w.node = 0
  BY <1>1 DEF Insert_Round
<1>2. CASE w.node # 0
  <2> DEFINE id == w.node  g == CalledHeap(w)  fr == Renew(w, w.node).freed  r == Insert_Round(w)
  <2>1. PICK t : /\ Space(t, w.heap, w.freed) /\ t.loc[t.root] = w.root /\ t.held = K
                 /\ Represents(t, g, disk)
    BY <1>2 DEF Putting
  <2>2. Offered(w.heap, id, w.child) /\ \E d : Linked(w.heap, d, id)
    BY <1>2 DEF CallsWithin
  <2>3. /\ g \in AnyHeapsOf(Nat) /\ DOMAIN g = DOMAIN w.heap /\ id \in DOMAIN g
        /\ \A x \in DOMAIN g : g[x].parent = w.heap[x].parent
        /\ \E d : Linked(g, d, g[id].parent)
    BY <1>2, <2>2, CallGrows
  <2>4. F \subseteq fr /\ Space(t, g, fr) /\ \A n \in DOMAIN w.heap : w.heap[n].vol => g[n].vol
    BY <1>2, <2>1, CallSpace DEF Putting
  <2>5. w.root \in DOMAIN g /\ g[w.root].vol /\ g[w.root].parent = 0
    BY <2>3, <2>4 DEF Putting
  <2>6. CASE g[id].num < Size
    <3> DEFINE m == [Renew(w, w.node) EXCEPT !.heap = CalledHeap(w)]
    <3>1. /\ m \in ClimbsOf(Nat) /\ r = Renew_Ancestors(m)
          /\ m.heap = g /\ m.freed = fr /\ m.root = w.root /\ m.node = id
      BY <1>2, <2>6, CallGrows
    <3> HIDE DEF m, g, fr, r, id
    <3>2. Climbing(m, t, F) /\ \E d : Linked(m.heap, d, m.heap[m.node].parent)
      BY <2>1, <2>3, <2>4, <2>5, <3>1 DEF Climbing, Keeping
    <3>3. Climbing(r, t, F) /\ r.root = t.loc[t.root]
      BY <3>1, <3>2, AncestorsRenewed
    <3>4. r.node = 0 /\ Done(r)
      BY <3>1, <3>2, RenewAncestorsKeeps
    <3>5. QED
      BY <2>1, <3>3, <3>4 DEF Putting, Climbing, Keeping, Done, r
  <2>7. CASE ~ (g[id].num < Size)
    <3> DEFINE s == Split(CalledHeap(w), w.node)
    <3>1. IsFullRound(w, g, s, r)
      BY <1>2, <2>7, FullRound
    <3> HIDE DEF g, fr, r, s
    <3>2. s = Split(g, w.node) /\ fr = Renew(w, w.node).freed
      BY DEF s, g, fr
    <3>3. FullCall(w, t, g, s)
      BY <2>1, <2>3, <2>5, <3>1 DEF IsFullRound, FullCall
    <3>4. /\ s.right > 0 /\ s.right \in Nat /\ s.right \notin DOMAIN g /\ DOMAIN s.heap = DOMAIN g \cup {s.right}
          /\ Carries(g, s.heap)
      <4>1. id \in DOMAIN g /\ g[id].num = Size /\ g[id].vol /\ s = Split(g, id)
        BY <2>3, <3>1 DEF IsFullRound
      <4> HIDE DEF id
      <4>2. QED
        BY <2>3, <4>1, SplitSeen
    <3>5. CASE g[id].parent = 0
      <4> DEFINE h == s.heap  mid == s.mid  right == s.right
      <4>1. h \in AnyHeapsOf(Nat) /\ id \in Nat \ {0} /\ right \in Nat \ {0} /\ mid \in Nat
        BY <2>3, <3>1, <3>4, HeapNodes DEF IsFullRound
      <4>2. r.heap = Raised(h, id, right, mid) /\ r.root = New_Id(h) /\ r.node = 0 /\ r.freed = fr
        BY <3>1, <3>2, <3>5 DEF IsFullRound
      <4>3. PICK u : /\ Represents(u, Raised(h, id, right, mid), disk)
                     /\ u.held = t.held /\ u.loc[u.root] = New_Id(h) /\ Uses(u) \subseteq Uses(t)
        BY <3>3, <3>5, <4>1, RootSplit
      <4>4. Carries(g, h)
        BY <3>4
      <4> HIDE DEF id, h, mid, right
      <4>5. IsSeenRaised(h, r.heap, r.root, id, right, mid)
        BY <4>1, <4>2, RaisedSeen
      <4>6. Carries(g, r.heap) /\ r.root \in DOMAIN r.heap /\ r.heap[r.root].vol /\ r.heap[r.root].parent = 0
        BY <4>4, <4>5, CarriesOn DEF IsSeenRaised
      <4>7. Space(u, r.heap, r.freed)
        BY <2>4, <4>2, <4>3, <4>6, SpaceCarries
      <4>8. QED
        BY <2>1, <2>4, <4>2, <4>3, <4>6, <4>7 DEF Putting, r
    <3>6. CASE g[id].parent # 0
      <4>1. /\ r \in CallsOf(Nat) /\ r.heap = s.heap /\ r.node = g[w.node].parent /\ r.node # 0
            /\ r.key = s.mid /\ r.child = s.right /\ r.root = w.root /\ r.freed = fr
        BY <3>1, <3>2, <3>6 DEF IsFullRound
      <4>2. PICK u : Represents(u, CalledHeap(r), disk) /\ Follows(t, u)
        BY <3>3, <4>1, ParentCalled
      <4>3. Space(u, r.heap, r.freed)
        <5> DEFINE h == s.heap
        <5>1. Carries(g, h) /\ r.heap = h /\ r.freed = fr /\ Uses(u) \subseteq Uses(t)
          BY <3>4, <4>1, <4>2 DEF Follows
        <5> HIDE DEF h
        <5>2. QED
          BY <2>4, <5>1, SpaceCarries
      <4>4. r.root \in DOMAIN r.heap /\ r.heap[r.root].vol
        BY <2>5, <3>4, <4>1 DEF Carries
      <4>5. r.heap[r.root].parent = 0
        <5> DEFINE h == s.heap  right == s.right
        <5>1. /\ Joined(g) /\ id \in DOMAIN g /\ g[id].num = Size /\ IsSplit(g, h, id, right)
              /\ g[w.root].parent # id
          BY <1>2, <2>5, <3>1 DEF IsFullRound
        <5> HIDE DEF h, right, id
        <5>2. h[w.root].parent = g[w.root].parent
          BY <2>3, <2>5, <5>1, OthersStay
        <5>3. QED
          BY <2>5, <4>1, <5>2 DEF h
      <4>6. QED
        BY <2>1, <2>4, <4>1, <4>2, <4>3, <4>4, <4>5 DEF Putting, Follows, r
    <3>7. QED
      BY <3>5, <3>6
  <2>8. QED
    BY <2>6, <2>7
<1>3. QED
  BY <1>1, <1>2

\* The leaf that a Put has found for its key, in heap h with tree t.
IsLeafFor(t, h, x, leaf, key) ==
  /\ Keeping(t, h, freed) /\ t.loc[t.root] = root /\ x \in t.nodes /\ t.loc[x] = leaf
  /\ key \in t.range[x] /\ h[leaf].leaf /\ ~ Has_Key(h[leaf], key)
  /\ Stands(h, leaf) /\ Stands(h, root) /\ h[root].vol /\ h[root].parent = 0
  /\ Room(h) /\ Links(h)

\* The first call of Insert_in_node.
FirstCall(h, leaf, key) ==
  [heap |-> h, freed |-> freed, root |-> root,
   node |-> leaf, key |-> key, address |-> key, child |-> 0]

\* It is a call, and the tree is there but for it.
LEMMA PuttingStarts ==
  ASSUME NEW h \in AnyHeapsOf(Nat), freed \subseteq Nat, IsFiniteSet(freed), NEW leaf, NEW key \in Keys,
         NEW t, \E x : IsLeafFor(t, h, x, leaf, key)
  PROVE  LET w == FirstCall(h, leaf, key) IN
         /\ w \in CallsWithin(Nat, Cardinality(DOMAIN h)) /\ Cardinality(DOMAIN h) \in Nat
         /\ Putting(w, t.held \cup {key}, freed)
<1> DEFINE w == FirstCall(h, leaf, key)
<1>1. /\ w.heap = h /\ w.freed = freed /\ w.root = root /\ w.node = leaf /\ w.key = key
      /\ w.address = key /\ w.child = 0
      /\ w = [heap |-> w.heap, freed |-> w.freed, root |-> w.root, node |-> w.node, key |-> w.key,
              address |-> w.address, child |-> w.child]
  BY DEF FirstCall
<1>2. PICK x : IsLeafFor(t, h, x, leaf, key)
  OBVIOUS
<1> HIDE DEF w
<1>3. /\ DOMAIN h \subseteq Nat \ {0} /\ leaf \in DOMAIN h /\ root \in DOMAIN h /\ key \in Nat
      /\ Represents(t, h, disk) /\ Space(t, h, freed) /\ GoodTree(t)
      /\ h[leaf] \in NodesOf(Nat) /\ h[leaf].num < Size
  BY <1>2, HeapNodes, KeysAssumption DEF IsLeafFor, Stands, Keeping, Represents, Room
<1>4. w \in CallsOf(Nat)
  <2>1. root \in Nat /\ leaf \in Nat
    BY <1>3
  <2>2. w \in PutsOf(Nat)
    BY <1>1, <1>3, <2>1 DEF PutsOf
  <2>3. Steady(w) /\ Call(w)
    BY <1>1, <1>2 DEF Steady, Call, IsLeafFor
  <2>4. QED
    BY <2>2, <2>3 DEF CallsOf
<1>5. w \in CallsWithin(Nat, Cardinality(DOMAIN h)) /\ Cardinality(DOMAIN h) \in Nat
  <2>1. PICK d : Linked(h, d, 0)
    BY <1>2 DEF Links, IsLeafFor
  <2>2. Linked(h, d, leaf)
    BY <2>1 DEF Linked, Risen
  <2>3. d[leaf] < Cardinality(DOMAIN h)
    BY <1>3, <2>1 DEF Linked, Depths
  <2>4. Offered(h, leaf, 0) /\ leaf # 0
    BY <1>3 DEF Offered
  <2>5. Cardinality(DOMAIN h) \in Nat
    BY HeapNodes, FS_CardinalityType
  <2>6. QED
    BY <1>1, <1>4, <2>2, <2>3, <2>4, <2>5 DEF CallsWithin
<1> DEFINE g == CalledHeap(w)  s == SeenOf(g[leaf])
<1>6. /\ t.node[x] = SeenOf(h[leaf]) /\ t.node[x].leaf /\ t.node[x].num < Size
      /\ \A i \in 0 .. t.node[x].num - 1 : t.node[x].keys[i] # key
  <2>1. t.node[x] = Seen(h, disk, leaf) /\ leaf > 0
    BY <1>2, <1>3 DEF Represents, IsLeafFor
  <2>2. t.node[x] = SeenOf(h[leaf])
    BY <2>1, SeenAtPlace
  <2>3. QED
    BY <1>2, <1>3, <2>2, SeenOfNode DEF IsLeafFor, Has_Key
<1>7. /\ IsWidened(t.node[x], s, key, 0) /\ \A y \in DOMAIN h \ {leaf} : SeenOf(g[y]) = SeenOf(h[y])
      /\ DOMAIN g = DOMAIN h
  <2>1. InOrder(t.node[x])
    BY <1>2, <1>3 DEF GoodTree, Belongs, IsLeafFor
  <2>2. w.node # 0 /\ InOrder(SeenOf(w.heap[w.node])) /\ w.heap[w.node].leaf
    BY <1>1, <1>2, <1>3, <1>6, <2>1 DEF IsLeafFor
  <2> HIDE DEF g
  <2>3. g = CalledHeap(w)
    BY DEF g
  <2>4. /\ IsWidened(SeenOf(w.heap[w.node]), SeenOf(g[w.node]), w.key, w.child)
        /\ \A y \in DOMAIN w.heap \ {w.node} : SeenOf(g[y]) = SeenOf(w.heap[y])
    BY <1>4, <2>2, <2>3, CallSeen
  <2>5. DOMAIN g = DOMAIN w.heap
    BY <1>4, <2>2, <2>3, CallAsItWas
  <2>6. QED
    BY <1>1, <1>6, <2>4, <2>5
<1>8. /\ w.heap[w.root].vol /\ w.root \in DOMAIN w.heap /\ w.heap[w.root].parent = 0
      /\ freed \subseteq w.freed /\ Space(t, w.heap, w.freed) /\ w.node # 0
  BY <1>1, <1>2, <1>3 DEF IsLeafFor
<1> HIDE DEF g, s
<1> DEFINE u == [nodes |-> t.nodes, root |-> t.root, range |-> t.range, level |-> t.level,
                 loc |-> t.loc, node |-> [t.node EXCEPT ![x] = s], held |-> t.held \cup {key}]
<1>9. IsChanged(t, u, x, s) /\ u.held = t.held \cup {key}
  BY DEF IsChanged
<1> HIDE DEF u
<1>10. GoodTree(u)
  <2>1. x \in t.nodes /\ key \in t.range[x]
    BY <1>2 DEF IsLeafFor
  <2>2. QED
    BY <1>3, <1>6, <1>7, <1>9, <2>1, LeafGrows
<1>11. /\ u.nodes = t.nodes /\ u.loc = t.loc /\ u.root = t.root /\ u.node[x] = s
       /\ \A z \in t.nodes : z # x => u.node[z] = t.node[z]
  <2>1. x \in t.nodes /\ t.node \in [t.nodes -> SeenNodes]
    BY <1>2, <1>3 DEF IsLeafFor, GoodTree, TreeShape
  <2>2. QED
    BY <1>9, <2>1 DEF IsChanged
<1>12. Represents(u, g, disk)
  <2>1. ASSUME NEW z \in t.nodes
        PROVE  /\ IF t.loc[z] > 0 THEN t.loc[z] \in DOMAIN g ELSE - t.loc[z] \in Slots
               /\ u.node[z] = Seen(g, disk, t.loc[z])
    <3>1. /\ IF t.loc[z] > 0 THEN t.loc[z] \in DOMAIN h ELSE - t.loc[z] \in Slots
          /\ t.node[z] = Seen(h, disk, t.loc[z])
      BY <1>3 DEF Represents
    <3>2. CASE z = x
      <4>1. t.loc[z] = leaf /\ leaf > 0 /\ u.node[z] = SeenOf(g[leaf])
        BY <1>2, <1>3, <1>11, <3>2 DEF IsLeafFor, s
      <4>2. QED
        BY <1>3, <1>7, <4>1, SeenAtPlace
    <3>3. CASE z # x /\ t.loc[z] > 0
      <4>1. t.loc[z] # leaf
        BY <1>2, <1>3, <3>3 DEF GoodTree, Apart, IsLeafFor
      <4>2. SeenOf(g[t.loc[z]]) = SeenOf(h[t.loc[z]])
        BY <1>7, <3>1, <3>3, <4>1
      <4>3. QED
        BY <1>7, <1>11, <3>1, <3>3, <4>2, SeenAtPlace
    <3>4. CASE z # x /\ ~ (t.loc[z] > 0)
      <4>1. Seen(g, disk, t.loc[z]) = Seen(h, disk, t.loc[z])
        BY <3>4, Zenon DEF Seen
      <4>2. QED
        BY <1>11, <3>1, <3>4, <4>1
    <3>5. QED
      BY <3>2, <3>3, <3>4
  <2>2. \A id \in DOMAIN g : \E z \in t.nodes : t.loc[z] = id
    BY <1>3, <1>7 DEF Represents
  <2>3. QED
    BY <1>10, <1>11, <2>1, <2>2 DEF Represents
<1>13. Space(u, w.heap, w.freed)
  <2>1. Uses(u) = Uses(t)
    BY <1>11 DEF Uses
  <2>2. QED
    BY <1>8, <2>1 DEF Space
<1>14. Putting(w, t.held \cup {key}, freed)
  <2>1. u.loc[u.root] = w.root
    BY <1>1, <1>2, <1>11 DEF IsLeafFor
  <2>2. QED
    BY <1>8, <1>9, <1>12, <1>13, <2>1 DEF Putting, g
<1>15. QED
  BY <1>5, <1>14 DEF w

\* When a Put has made all its calls, the tree has the key.
LEMMA PuttingEnds ==
  ASSUME NEW h \in AnyHeapsOf(Nat), freed \subseteq Nat, IsFiniteSet(freed), disk \in CachesOf(Nat),
         NEW leaf, NEW key \in Keys, NEW t, \E x : IsLeafFor(t, h, x, leaf, key)
  PROVE  LET put == Insert_in_node(h, leaf, key, key) IN
         /\ put.node = 0 /\ Putting(put, t.held \cup {key}, freed)
         /\ put \in PutsOf(Nat) /\ Room(put.heap)
<1> DEFINE S == CallsOf(Nat)
           start == FirstCall(h, leaf, key)
           next == [x \in S |-> Insert_Round(x)]
           E(f) == f = [r \in Nat |-> IF r = 0 THEN {start} ELSE {Insert_Round(x) : x \in f[r - 1]}]
           after == CHOOSE f : E(f)
<1>1. start \in S
  <2>1. FirstCall(h, leaf, key) \in CallsWithin(Nat, Cardinality(DOMAIN h))
    BY PuttingStarts
  <2>2. QED
    BY <2>1 DEF CallsWithin
<1>2. \A x \in S : Insert_Round(x) \in S
  <2>1. 0 \in Nat
    OBVIOUS
  <2>2. QED
    BY <2>1, InsertRoundKeeps
<1> HIDE DEF S, start
<1>3. next \in [S -> S] /\ \A x \in S : next[x] = Insert_Round(x)
  BY <1>2
<1> HIDE DEF next
<1>4. PICK f : IsLoop(S, start, next, f)
  BY <1>1, <1>3, LoopExists
<1>5. E(f)
  <2>1. ASSUME NEW r \in Nat, r # 0
        PROVE  {next[x] : x \in f[r - 1]} = {Insert_Round(x) : x \in f[r - 1]}
    <3>1. r - 1 \in Nat
      BY <2>1
    <3>2. \A x \in f[r - 1] : next[x] = Insert_Round(x)
      BY <1>3, <1>4, <3>1 DEF IsLoop
    <3>3. QED
      BY <3>2
  <2>2. f = [r \in Nat |-> IF r = 0 THEN {start} ELSE {next[x] : x \in f[r - 1]}]
    BY <1>4 DEF IsLoop
  <2>3. QED
    BY <2>1, <2>2
<1>6. E(after)
  <2> HIDE DEF E
  <2>1. QED
    BY <1>5
<1> HIDE DEF after
<1>7. after[0] = {start}
  BY <1>6
<1>8. ASSUME NEW r \in Nat, after[r] \subseteq S
      PROVE  after[r + 1] = {next[x] : x \in after[r]}
  <2>1. after[r + 1] = {Insert_Round(x) : x \in after[r]}
    <3>1. r + 1 \in Nat /\ r + 1 # 0 /\ (r + 1) - 1 = r
      OBVIOUS
    <3>2. QED
      BY <1>6, <3>1
  <2>2. QED
    BY <1>3, <1>8, <2>1
<1>9. Cardinality(DOMAIN h) \in Nat
  BY PuttingStarts
<1>10. (CHOOSE last \in after[Cardinality(DOMAIN h)] : TRUE) \in S
  BY <1>1, <1>3, <1>7, <1>8, <1>9, LoopStays
<1> DEFINE count == Cardinality(DOMAIN h)  K == t.held \cup {key}
           F == [k \in Nat |-> {w \in CallsWithin(Nat, k) : Putting(w, K, freed)}]
<1>11. F \in [Nat -> SUBSET S] /\ \A k \in Nat : F[k] = {w \in CallsWithin(Nat, k) : Putting(w, K, freed)}
  BY DEF S, CallsWithin
<1>12. start \in F[count]
  <2>1. start \in CallsWithin(Nat, count) /\ Putting(start, K, freed) /\ count \in Nat
    BY PuttingStarts DEF start
  <2> HIDE DEF count, K, F
  <2>2. QED
    BY <1>11, <2>1
<1> HIDE DEF K
<1>13. ASSUME NEW k \in Nat, NEW x \in F[k + 1]
       PROVE  next[x] \in F[k]
  <2>1. x \in CallsWithin(Nat, k + 1) /\ x \in CallsOf(Nat) /\ k + 1 \in Nat /\ Putting(x, K, freed) /\ x \in S
    BY <1>11, <1>13 DEF S
  <2>2. 0 \in Nat /\ Insert_Round(x) \in CallsWithin(Nat, k)
    BY <2>1, InsertRoundKeeps
  <2>3. Putting(Insert_Round(x), K, freed)
    BY <2>1, PuttingRound
  <2>4. QED
    BY <1>3, <1>11, <2>1, <2>2, <2>3
<1>14. after[0] # {} /\ after[0] \subseteq F[count]
  BY <1>7, <1>12
<1> DEFINE put == CHOOSE last \in after[count] : TRUE
<1>15. put = Insert_in_node(h, leaf, key, key)
  BY DEF Insert_in_node, Iterated, after, start, FirstCall
<1>16. count \in Nat /\ \A k \in Nat : \A x \in F[k + 1] : next[x] \in F[k]
  BY <1>9, <1>13
<1>17. \A r \in Nat : after[r] \subseteq S => after[r + 1] = {next[x] : x \in after[r]}
  BY <1>8
<1> HIDE DEF F, count
<1>18. put \in F[0]
  BY <1>3, <1>11, <1>14, <1>16, <1>17, LoopEnds
<1>19. put \in CallsWithin(Nat, 0) /\ Putting(put, K, freed)
  BY <1>11, <1>18
<1> HIDE DEF put
<1>20. put.node = 0
  <2> SUFFICES ASSUME put.node # 0
               PROVE  FALSE
    OBVIOUS
  <2>1. PICK d : Linked(put.heap, d, put.node) /\ d[put.node] < 0
    BY <1>19 DEF CallsWithin
  <2>2. put.node \in DOMAIN put.heap
    BY <1>19 DEF CallsWithin, CallsOf, Call, Stands
  <2>3. d[put.node] \in Nat
    BY <2>1, <2>2 DEF Linked, Depths
  <2>4. QED
    BY <2>1, <2>3
<1>21. put \in PutsOf(Nat) /\ Room(put.heap)
  BY <1>19 DEF CallsWithin, CallsOf, Steady
<1>22. QED
  BY <1>15, <1>19, <1>20, <1>21 DEF K

-----------------------------------------------------------------------------
\* Opening, reading and the end of a Put

\* The tree of the process holds K.
Working(K) ==
  /\ Holds(Nat) /\ heap[root].vol /\ CacheTrue(cache, freed)
  /\ \E t : Keeping(t, heap, freed) /\ t.loc[t.root] = root /\ t.held = K

\* No node is in memory.
NoHeap == [id \in {} |-> id]

\* The tree of the files holds J.
StoredTree(J) ==
  /\ pointer # 0
  /\ IF metadata = 0 THEN J = {}
     ELSE /\ metadata \in Slots
          /\ \E t : /\ Represents(t, NoHeap, disk) /\ t.loc[t.root] = - metadata /\ t.held = J
                    /\ t.node[t.root].leaf \/ t.node[t.root].num # 0
                    /\ \A a \in Uses(t) : a < pointer

\* The heap of a new tree.
LEMMA FreshTree ==
  ASSUME NEW f
  PROVE  \E t : /\ Represents(t, [n \in {1} |-> New_Node(TRUE)], f) /\ t.loc[t.root] = 1
                /\ t.held = {} /\ Uses(t) = {}
<1> DEFINE n == New_Node(TRUE)  s == SeenOf(n)  h == [x \in {1} |-> n]
           t == [nodes |-> {0}, root |-> 0, range |-> [x \in {0} |-> Keys], level |-> [x \in {0} |-> 0],
                 held |-> {}, loc |-> [x \in {0} |-> 1], node |-> [x \in {0} |-> s]]
<1>1. /\ n \in NodesOf(Nat) /\ n.leaf = TRUE /\ n.num = 0 /\ \A i \in 0 .. Size - 1 : n.keys[i] = 0
  <2>1. 0 \in Nat
    OBVIOUS
  <2>2. n \in NodesOf(Nat)
    BY <2>1, NewNode
  <2>3. QED
    BY <2>2 DEF New_Node
<1>2. DOMAIN h = {1} /\ h[1] = n
  OBVIOUS
<1> HIDE DEF n
<1>3. s \in SeenNodes /\ s.leaf = TRUE /\ s.num = 0 /\ \A i \in 0 .. Size - 1 : s.keys[i] = 0
  BY <1>1, SeenOfNode
<1> HIDE DEF s, h
<1>4. /\ t.nodes = {0} /\ t.root = 0 /\ t.range = [x \in {0} |-> Keys] /\ t.level = [x \in {0} |-> 0]
      /\ t.held = {} /\ t.loc = [x \in {0} |-> 1] /\ t.node = [x \in {0} |-> s]
      /\ t.range[0] = Keys /\ t.level[0] = 0 /\ t.loc[0] = 1 /\ t.node[0] = s
  OBVIOUS
<1> HIDE DEF t
<1>5. IsFiniteSet({0}) /\ Cardinality({0}) = 1
  BY FS_Singleton
<1>6. TreeShape(t)
  BY <1>3, <1>4, <1>5 DEF TreeShape
<1>7. Apart(t) /\ Topped(t) /\ Branches(t)
  BY <1>3, <1>4, <1>5 DEF Apart, Topped, Branches
<1>8. Belongs(t, 0)
  BY <1>3, <1>4 DEF Belongs, InOrder, LeafBelongs
<1>9. Represents(t, h, f)
  <2>1. t.node[0] = Seen(h, f, 1)
    BY <1>2, <1>4, SeenAtPlace DEF s
  <2>2. QED
    BY <1>2, <1>4, <1>6, <1>7, <1>8, <2>1 DEF Represents, GoodTree
<1>10. Uses(t) = {}
  <2>1. 1 \in Int
    OBVIOUS
  <2>2. \A a \in Slots : 1 # - a
    BY BoundsAssumption DEF Slots
  <2>3. QED
    BY <1>4, <2>2 DEF Uses
<1>11. QED
  BY <1>4, <1>9, <1>10 DEF h, n

\* The tree of a process in which nothing is put yet.
LEMMA FreshWorks ==
  ASSUME Holds(Nat), heap = [n \in {1} |-> New_Node(TRUE)], root = 1, cache = NoFile, freed = {}, free = {}
  PROVE  Working({})
<1>1. PICK t : /\ Represents(t, heap, disk) /\ t.loc[t.root] = 1 /\ t.held = {} /\ Uses(t) = {}
  BY FreshTree
<1>2. CacheTrue(cache, freed)
  BY DEF CacheTrue, NoFile
<1>3. DOMAIN heap = {1} /\ heap[1] = New_Node(TRUE)
  OBVIOUS
<1>4. heap[1].vol /\ heap[1].addr = 0 /\ heap[1].line = 0
  BY <1>3 DEF New_Node
<1>5. Space(t, heap, freed)
  BY <1>1, <1>3, <1>4 DEF Space
<1>6. QED
  BY <1>1, <1>2, <1>4, <1>5 DEF Working, Keeping

\* The first state.
LEMMA InitWorks == ASSUME Init PROVE Working({}) /\ StoredTree({})
<1>1. Working({})
  BY InitHolds, FreshWorks DEF Init
<1>2. QED
  BY <1>1 DEF Init, StoredTree

\* A tree on file whose root has no keys holds none.
LEMMA NothingHeld ==
  ASSUME NEW t, GoodTree(t), t.node[t.root].leaf, t.node[t.root].num = 0
  PROVE  t.held = {}
<1>1. LeafBelongs(t, t.root) /\ t.range[t.root] = Keys /\ t.held \subseteq Keys
  BY DEF GoodTree, Belongs, Topped, TreeShape
<1>2. QED
  BY <1>1 DEF LeafBelongs

\* The root of a tree that is on file is read.
LEMMA RootLoaded ==
  ASSUME NEW f, NEW a \in Slots, f[a] \in LinesOf(Nat), NEW t, Represents(t, NoHeap, f),
         t.loc[t.root] = - a,
         NEW h, DOMAIN h = {1}, h[1] \in NodesOf(Nat), Content(h[1]) = f[a], \A i \in 0 .. Size : h[1].kids[i] = 0
  PROVE  \E u : /\ Represents(u, h, f) /\ u.loc[u.root] = 1 /\ u.held = t.held
                /\ Uses(u) \subseteq Uses(t) \ {a}
<1>1. /\ GoodTree(t) /\ TreeShape(t) /\ t.root \in t.nodes
      /\ \A x \in t.nodes : ~ (t.loc[x] > 0) /\ - t.loc[x] \in Slots /\ t.node[x] = Seen(NoHeap, f, t.loc[x])
      /\ \A x, y \in t.nodes : x # y => t.loc[x] # t.loc[y]
  BY DEF Represents, GoodTree, TreeShape, Apart, NoHeap
<1>2. /\ a \in Nat /\ a > 0 /\ - a \in Int /\ ~ (- a > 0) /\ - (- a) = a
  BY BoundsAssumption DEF Slots
<1> DEFINE loc == [t.loc EXCEPT ![t.root] = 1]
           u == [nodes |-> t.nodes, root |-> t.root, range |-> t.range, level |-> t.level,
                 held |-> t.held, loc |-> loc, node |-> t.node]
<1>3. /\ loc \in [t.nodes -> Int] /\ loc[t.root] = 1
      /\ \A x \in t.nodes : x # t.root => loc[x] = t.loc[x]
  BY <1>1 DEF TreeShape
<1>4. /\ u.nodes = t.nodes /\ u.root = t.root /\ u.range = t.range /\ u.level = t.level
      /\ u.held = t.held /\ u.loc = loc /\ u.node = t.node
  OBVIOUS
<1> HIDE DEF u, loc
<1>5. \A x, y \in t.nodes : x # y => loc[x] # loc[y]
  <2>1. \A x \in t.nodes : t.loc[x] # 1
    BY <1>1
  <2>2. QED
    BY <1>1, <1>3, <2>1
<1>6. ASSUME NEW x \in t.nodes, ~ t.node[x].leaf, NEW i \in 0 .. t.node[x].num, NEW y \in t.nodes,
             t.loc[y] = t.node[x].below[i]
      PROVE  loc[y] = t.node[x].below[i]
  <2>1. IsChild(t, x, i, y)
    BY <1>1, <1>6, PlaceIsChild
  <2>2. y # t.root
    BY <1>1, <2>1, OneParent
  <2>3. QED
    BY <1>3, <1>6, <2>2
<1>7. IsMoved(t, u)
  BY <1>1, <1>3, <1>4, <1>5, <1>6 DEF IsMoved, TreeShape
<1>8. GoodTree(u)
  BY <1>1, <1>7, TreeMoved
<1>9. t.node[t.root] = Seen(h, f, 1)
  <2>1. t.node[t.root] = Seen(NoHeap, f, - a)
    BY <1>1
  <2>2. Seen(NoHeap, f, - a) = [leaf |-> f[a].leaf, num |-> f[a].num, keys |-> f[a].keys,
                                below |-> [i \in 0 .. Size |-> - f[a].ptrs[i]]]
    BY <1>2 DEF Seen
  <2>3. /\ h[1].leaf = f[a].leaf /\ h[1].num = f[a].num /\ h[1].keys = f[a].keys /\ h[1].ptrs = f[a].ptrs
    BY DEF Content
  <2>4. Seen(h, f, 1) = SeenOf(h[1])
    BY SeenAtPlace
  <2>5. SeenOf(h[1]) = [leaf |-> f[a].leaf, num |-> f[a].num, keys |-> f[a].keys,
                        below |-> [i \in 0 .. Size |-> - f[a].ptrs[i]]]
    BY <2>3 DEF SeenOf
  <2>6. QED
    BY <2>1, <2>2, <2>4, <2>5
<1>10. Represents(u, h, f)
  <2>1. ASSUME NEW x \in t.nodes, x # t.root
        PROVE  ~ (loc[x] > 0) /\ - loc[x] \in Slots /\ t.node[x] = Seen(h, f, loc[x])
    <3>1. loc[x] = t.loc[x] /\ ~ (t.loc[x] > 0) /\ - t.loc[x] \in Slots /\ t.node[x] = Seen(NoHeap, f, t.loc[x])
      BY <1>1, <1>3, <2>1
    <3>2. Seen(h, f, t.loc[x]) = Seen(NoHeap, f, t.loc[x])
      BY <3>1, Zenon DEF Seen
    <3>3. QED
      BY <3>1, <3>2
  <2>2. QED
    BY <1>1, <1>3, <1>4, <1>8, <1>9, <2>1 DEF Represents
<1>11. Uses(u) \subseteq Uses(t) \ {a}
  <2> SUFFICES ASSUME NEW b \in Slots, NEW x \in t.nodes, loc[x] = - b
               PROVE  b \in Uses(t) /\ b # a
    BY <1>4 DEF Uses
  <2>1. b \in Nat /\ b > 0
    BY BoundsAssumption DEF Slots
  <2>2. x # t.root
    BY <1>3, <2>1
  <2>3. t.loc[x] = - b /\ t.loc[x] # - a
    BY <1>1, <1>3, <2>2
  <2>4. QED
    BY <2>3 DEF Uses
<1>12. QED
  BY <1>3, <1>4, <1>10, <1>11

\* What is on file stays there.
LEMMA StoredStays ==
  ASSUME NEW J, StoredTree(J), UNCHANGED <<disk, metadata, pointer>>
  PROVE  StoredTree(J)'
BY DEF StoredTree

\* The tree of a new process.
LEMMA FreshWorksNext ==
  (Holds(Nat) /\ heap = [n \in {1} |-> New_Node(TRUE)] /\ root = 1 /\ cache = NoFile
   /\ freed = {} /\ free = {} => Working({}))'
<1>1. Holds(Nat) /\ heap = [n \in {1} |-> New_Node(TRUE)] /\ root = 1 /\ cache = NoFile
      /\ freed = {} /\ free = {} => Working({})
  BY FreshWorks
<1>2. QED
  BY <1>1, PTL

\* A process that opens the files has the tree that is there.
LEMMA ReopenWorks ==
  ASSUME NEW K, NEW J, Working(K), StoredTree(J), Reopen
  PROVE  Working(J)' /\ StoredTree(J)'
<1> DEFINE l == Line(disk, metadata)  n == Node_From(l, 0, metadata, 0)  r == [n EXCEPT !.vol = TRUE]
           valid == metadata # 0 /\ l.num > 0
<1>1. /\ heap' = [x \in {1} |-> IF valid THEN r ELSE New_Node(TRUE)]
      /\ root' = 1 /\ cache' = NoFile /\ freed' = {} /\ free' = {}
      /\ disk' = disk /\ metadata' = metadata /\ pointer' = pointer
  BY DEF Reopen
<1>2. Holds(Nat) /\ Holds(Nat)' /\ disk \in CachesOf(Nat)
  BY ReopenHolds DEF Working, Holds
<1>3. StoredTree(J)'
  BY <1>1, StoredStays
<1>4. CASE ~ valid
  <2>1. Working({})'
    BY <1>1, <1>2, <1>4, FreshWorksNext
  <2>2. J = {}
    <3>1. CASE metadata = 0
      BY <3>1 DEF StoredTree
    <3>2. CASE metadata # 0
      <4>1. PICK t : /\ Represents(t, NoHeap, disk) /\ t.loc[t.root] = - metadata /\ t.held = J
                     /\ t.node[t.root].leaf \/ t.node[t.root].num # 0
        BY <3>2 DEF StoredTree
      <4>2. metadata \in Slots /\ metadata \in Nat /\ metadata > 0 /\ ~ (- metadata > 0) /\ - (- metadata) = metadata
            /\ - metadata \in Int
        BY <3>2, BoundsAssumption DEF StoredTree, Slots
      <4>3. l = disk[metadata] /\ l \in LinesOf(Nat)
        BY <1>2, <4>2 DEF Line, CachesOf
      <4>4. GoodTree(t) /\ t.root \in t.nodes /\ t.node[t.root] = Seen(NoHeap, disk, - metadata)
        BY <4>1 DEF Represents, GoodTree, TreeShape
      <4>5. t.node[t.root].num = l.num
        <5>1. IF - metadata > 0 THEN NoHeap[- metadata] \in NodesOf(Nat) ELSE disk[- (- metadata)] \in LinesOf(Nat)
          BY <4>2, <4>3
        <5>2. Seen(NoHeap, disk, - metadata).num = l.num
          BY <4>2, <4>3, <5>1, SeenIsNode
        <5>3. QED
          BY <4>4, <5>2
      <4>6. l.num = 0
        <5>1. l.num \in 0 .. Size - 1
          BY <4>3 DEF LinesOf
        <5>2. QED
          BY <1>4, <3>2, <5>1, Numbers
      <4>7. QED
        BY <4>1, <4>4, <4>5, <4>6, NothingHeld
    <3>3. QED
      BY <3>1, <3>2
  <2>3. QED
    BY <1>3, <2>1, <2>2
<1>5. CASE valid
  <2>1. PICK t : /\ Represents(t, NoHeap, disk) /\ t.loc[t.root] = - metadata /\ t.held = J
                 /\ \A a \in Uses(t) : a < pointer
    BY <1>5 DEF StoredTree
  <2>2. metadata \in Slots /\ metadata \in Nat /\ metadata > 0 /\ - metadata \in Int
        /\ ~ (- metadata > 0) /\ - (- metadata) = metadata
    BY <1>5, BoundsAssumption DEF StoredTree, Slots
  <2>3. l = disk[metadata] /\ l \in LinesOf(Nat) /\ disk[metadata] \in LinesOf(Nat)
    BY <1>2, <2>2 DEF Line, CachesOf
  <2> HIDE DEF l
  <2>4. n \in NodesOf(Nat) /\ Content(n) = l /\ n.line = 0 /\ n.addr = metadata /\ \A i \in 0 .. Size : n.kids[i] = 0
    <3>1. 0 \in Nat
      OBVIOUS
    <3>2. n \in NodesOf(Nat)
      BY <2>2, <2>3, <3>1, NodeFromLine
    <3>3. QED
      BY <2>3, <3>2, ContentOfLine
  <2> HIDE DEF n
  <2>5. /\ r \in NodesOf(Nat) /\ Content(r) = l /\ r.line = 0 /\ r.addr = metadata /\ r.vol
        /\ \A i \in 0 .. Size : r.kids[i] = 0
    BY <2>4 DEF NodesOf, Content
  <2> HIDE DEF r
  <2>6. DOMAIN heap' = {1} /\ heap'[1] = r
    BY <1>1, <1>5
  <2>7. PICK u : /\ Represents(u, heap', disk) /\ u.loc[u.root] = 1 /\ u.held = t.held
                 /\ Uses(u) \subseteq Uses(t) \ {metadata}
    <3> DEFINE h == heap'
    <3>1. /\ DOMAIN h = {1} /\ h[1] \in NodesOf(Nat) /\ Content(h[1]) = disk[metadata]
          /\ \A i \in 0 .. Size : h[1].kids[i] = 0
      BY <2>3, <2>5, <2>6
    <3> HIDE DEF h
    <3>2. \E u : /\ Represents(u, h, disk) /\ u.loc[u.root] = 1 /\ u.held = t.held
                 /\ Uses(u) \subseteq Uses(t) \ {metadata}
      BY <2>1, <2>2, <2>3, <3>1, RootLoaded
    <3>3. QED
      BY <3>2 DEF h
  <2>8. metadata < pointer
    <3>1. t.root \in t.nodes
      BY <2>1 DEF Represents, GoodTree, TreeShape
    <3>2. metadata \in Uses(t)
      BY <2>1, <2>2, <3>1 DEF Uses
    <3>3. QED
      BY <2>1, <3>2
  <2>9. Space(u, heap, freed)'
    BY <1>1, <2>1, <2>2, <2>5, <2>6, <2>7, <2>8 DEF Space
  <2>10. CacheTrue(cache, freed)'
    BY <1>1 DEF CacheTrue, NoFile
  <2>11. Keeping(u, heap, freed)'
    BY <1>1, <2>7, <2>9 DEF Keeping
  <2>12. QED
    BY <1>1, <1>2, <1>3, <2>1, <2>5, <2>6, <2>7, <2>10, <2>11 DEF Working
<1>6. QED
  BY <1>4, <1>5

\* A Get reads nodes of the tree.
LEMMA GetWorks ==
  ASSUME NEW K, NEW J, Working(K), StoredTree(J), NEW key \in Keys, Get(key)
  PROVE  Working(K)' /\ StoredTree(J)'
<1> DEFINE walk == Find_Leaf_Node(key)
<1>1. /\ heap' = walk.heap /\ cache' = walk.cache
      /\ root' = root /\ disk' = disk /\ metadata' = metadata /\ freed' = freed /\ free' = free
      /\ pointer' = pointer
  BY DEF Get
<1>2. Holds(Nat)'
  BY GetHolds DEF Working
<1>3. PICK t : Keeping(t, heap, freed) /\ t.loc[t.root] = root /\ t.held = K
  BY DEF Working
<1>4. Walking(walk, key, K)
  BY <1>3, WalkEnds DEF Working
<1> HIDE DEF walk
<1>5. PICK u : Keeping(u, walk.heap, freed) /\ u.loc[u.root] = root /\ u.held = K
  BY <1>4 DEF Walking
<1>6. Keeping(u, heap, freed)'
  BY <1>1, <1>5 DEF Keeping, Space
<1>7. CacheTrue(cache, freed)' /\ heap'[root'].vol
  BY <1>1, <1>4 DEF Walking, CacheTrue
<1>8. StoredTree(J)'
  BY <1>1, StoredStays
<1>9. QED
  BY <1>1, <1>2, <1>5, <1>6, <1>7, <1>8 DEF Working

\* A Put adds its key.
LEMMA PutWorks ==
  ASSUME NEW K, NEW J, Working(K), StoredTree(J), NEW key \in Keys, Put(key)
  PROVE  Working(K \cup {key})' /\ StoredTree(J)'
<1> DEFINE walk == Find_Leaf_Node(key)
           put == Insert_in_node(walk.heap, walk.leaf, key, key)
<1>1. /\ Found_Leaf(walk) /\ ~ Has_Key(walk.heap[walk.leaf], key)
      /\ heap' = put.heap /\ cache' = Synchronised(put.heap, walk.cache)
      /\ freed' = put.freed /\ root' = put.root
      /\ disk' = disk /\ metadata' = metadata /\ free' = free /\ pointer' = pointer
  BY DEF Put
<1>2. Holds(Nat) /\ Holds(Nat)'
  BY PutHolds DEF Working
<1>3. PICK t : Keeping(t, heap, freed) /\ t.loc[t.root] = root /\ t.held = K
  BY DEF Working
<1>4. Walking(walk, key, K)
  BY <1>3, WalkEnds DEF Working
<1>5. /\ Tree(Nat, walk.heap, root) /\ walk.cache \in CachesOf(Nat)
      /\ walk.leaf # 0 => Stands(walk.heap, walk.leaf)
  BY <1>2, WalkTree
<1> DEFINE h == walk.heap  leaf == walk.leaf
<1>6. h \in AnyHeapsOf(Nat) /\ freed \subseteq Nat /\ IsFiniteSet(freed) /\ disk \in CachesOf(Nat)
  BY <1>2, <1>5, HeapsAreAny DEF Tree, Holds
<1>7. PICK u : /\ Keeping(u, h, freed) /\ u.loc[u.root] = root /\ u.held = K
               /\ \E x \in u.nodes : u.loc[x] = leaf /\ key \in u.range[x]
  BY <1>4 DEF Walking
<1>8. \E x : IsLeafFor(u, h, x, leaf, key)
  BY <1>1, <1>4, <1>5, <1>7 DEF IsLeafFor, Walking, Tree, Found_Leaf, HeapsOf
<1> HIDE DEF h, leaf
<1>9. put = Insert_in_node(h, leaf, key, key)
  BY DEF h, leaf
<1> HIDE DEF put
<1>10. put.node = 0 /\ Putting(put, u.held \cup {key}, freed) /\ put.heap \in AnyHeapsOf(Nat)
  BY <1>6, <1>8, <1>9, PuttingEnds DEF PutsOf
<1>11. PICK v : /\ Space(v, put.heap, put.freed) /\ v.loc[v.root] = put.root /\ v.held = K \cup {key}
                /\ Represents(v, put.heap, disk)
  BY <1>7, <1>10 DEF Putting
<1>12. Keeping(v, heap, freed)'
  BY <1>1, <1>11 DEF Keeping, Space
<1>13. CacheTrue(cache, freed)'
  <2> DEFINE c == walk.cache  g == put.heap
  <2>1. /\ cache' = Synchronised(g, c) /\ freed \subseteq freed' /\ CacheTrue(c, freed)
        /\ Space(v, g, freed')
    BY <1>1, <1>4, <1>10, <1>11 DEF Walking, Putting
  <2> HIDE DEF c, g
  <2>2. ASSUME NEW a \in Slots
        PROVE  /\ a \notin freed' => cache'[a] \in {NoLine, disk[a]}
               /\ a \in free \/ ~ (a < pointer) => cache'[a] = NoLine
    <3>1. CASE \E n \in DOMAIN g : g[n].line = a
      <4> DEFINE m == CHOOSE n \in DOMAIN g : g[n].line = a
      <4>1. m \in DOMAIN g /\ g[m].line = a
        BY <3>1
      <4>2. cache'[a] = Content(g[m])
        BY <2>1, <3>1 DEF Synchronised
      <4> HIDE DEF m
      <4>3. a # 0
        BY BoundsAssumption DEF Slots
      <4>4. a \in freed' \/ (~ g[m].vol /\ a = g[m].addr)
        BY <2>1, <4>1, <4>3 DEF Space
      <4>5. CASE a \in freed'
        BY <2>1, <4>5 DEF Space
      <4>6. CASE ~ g[m].vol /\ a = g[m].addr
        BY <2>1, <4>1, <4>2, <4>6 DEF Space
      <4>7. QED
        BY <4>4, <4>5, <4>6
    <3>2. CASE ~ \E n \in DOMAIN g : g[n].line = a
      <4>1. cache'[a] = c[a]
        BY <2>1, <3>2 DEF Synchronised
      <4>2. QED
        BY <2>1, <4>1 DEF CacheTrue
    <3>3. QED
      BY <3>1, <3>2
  <2>3. QED
    BY <1>1, <2>2 DEF CacheTrue
<1>14. heap'[root'].vol
  BY <1>1, <1>10 DEF Putting
<1>15. StoredTree(J)'
  BY <1>1, StoredStays
<1>16. QED
  BY <1>1, <1>2, <1>11, <1>12, <1>13, <1>14, <1>15 DEF Working

-----------------------------------------------------------------------------
\* Commit: the volatile nodes, their slots and what is written

\* A search for volatile nodes: each node found or to be looked at is so once, below
\* a node that is found, and what is below one that is found is not forgotten.
Finds(v) ==
  /\ v \in SearchesOf(DOMAIN heap)
  /\ \A i \in 1 .. Len(v.found) : heap[v.found[i]].vol
  /\ \A i, j \in 1 .. Len(v.found) : v.found[i] = v.found[j] => i = j
  /\ \A i, j \in 1 .. Len(v.todo) : v.todo[i] # 0 /\ v.todo[i] = v.todo[j] => i = j
  /\ \A i \in 1 .. Len(v.todo), j \in 1 .. Len(v.found) : v.todo[i] # v.found[j]
  /\ \A x \in (ToSet(v.found) \cup ToSet(v.todo)) \ {0, root} : heap[x].parent \in ToSet(v.found)
  /\ root \in ToSet(v.found) \cup ToSet(v.todo)
  /\ \A x \in ToSet(v.found) : \A i \in 0 .. heap[x].num :
       heap[x].kids[i] # 0 /\ heap[heap[x].kids[i]].vol =>
         heap[x].kids[i] \in ToSet(v.found) \cup ToSet(v.todo)

\* The first of a sequence, and the others.
LEMMA HeadAndTail ==
  ASSUME NEW S, NEW s \in Seq(S), s # <<>>
  PROVE  /\ Len(s) \in Nat /\ Len(s) > 0 /\ Head(s) = s[1] /\ Head(s) \in S
         /\ Tail(s) \in Seq(S) /\ Len(Tail(s)) = Len(s) - 1
         /\ \A i \in 1 .. Len(s) - 1 : Tail(s)[i] = s[i + 1]
         /\ ToSet(s) = {s[1]} \cup ToSet(Tail(s))
<1>1. /\ Len(s) \in Nat /\ Len(s) > 0 /\ Head(s) = s[1] /\ Head(s) \in S
      /\ Tail(s) \in Seq(S) /\ Len(Tail(s)) = Len(s) - 1
      /\ \A i \in 1 .. Len(s) - 1 : Tail(s)[i] = s[i + 1]
  OBVIOUS
<1>2. DOMAIN s = 1 .. Len(s) /\ DOMAIN Tail(s) = 1 .. Len(s) - 1
  BY <1>1
<1>3. ToSet(s) = {s[1]} \cup ToSet(Tail(s))
  <2> DEFINE t == Tail(s)
  <2>1. DOMAIN t = 1 .. Len(s) - 1 /\ \A i \in 1 .. Len(s) - 1 : t[i] = s[i + 1]
    BY <1>1, <1>2
  <2> HIDE DEF t
  <2>2. ASSUME NEW i \in 1 .. Len(s)
        PROVE  s[i] \in {s[1]} \cup ToSet(t)
    <3>1. CASE i = 1
      BY <3>1
    <3>2. CASE i # 1
      <4>1. i - 1 \in 1 .. Len(s) - 1 /\ (i - 1) + 1 = i
        BY <1>1, <3>2
      <4>2. t[i - 1] = s[i]
        BY <2>1, <4>1
      <4>3. QED
        BY <2>1, <4>1, <4>2 DEF ToSet
    <3>3. QED
      BY <3>1, <3>2
  <2>3. ASSUME NEW i \in 1 .. Len(s) - 1
        PROVE  t[i] \in ToSet(s)
    <3>1. i + 1 \in 1 .. Len(s)
      BY <1>1
    <3>2. QED
      BY <1>2, <2>1, <3>1 DEF ToSet
  <2>4. s[1] \in ToSet(s)
    BY <1>1, <1>2 DEF ToSet
  <2>5. QED
    BY <1>2, <2>1, <2>2, <2>3, <2>4 DEF ToSet, t
<1>4. QED
  BY <1>1, <1>3

\* What is put before another sequence.
LEMMA JoinedSequences ==
  ASSUME NEW S, NEW s \in Seq(S), NEW t \in Seq(S)
  PROVE  /\ s \o t \in Seq(S) /\ Len(s) \in Nat /\ Len(t) \in Nat /\ Len(s \o t) = Len(s) + Len(t)
         /\ \A i \in 1 .. Len(s) + Len(t) : (s \o t)[i] = IF i <= Len(s) THEN s[i] ELSE t[i - Len(s)]
         /\ ToSet(s \o t) = ToSet(s) \cup ToSet(t)
<1>1. /\ s \o t \in Seq(S) /\ Len(s) \in Nat /\ Len(t) \in Nat /\ Len(s \o t) = Len(s) + Len(t)
      /\ \A i \in 1 .. Len(s) + Len(t) : (s \o t)[i] = IF i <= Len(s) THEN s[i] ELSE t[i - Len(s)]
  OBVIOUS
<1> DEFINE u == s \o t  m == Len(s)  n == Len(t)
<1>2. /\ DOMAIN s = 1 .. m /\ DOMAIN t = 1 .. n /\ DOMAIN u = 1 .. m + n /\ m \in Nat /\ n \in Nat
      /\ \A i \in 1 .. m + n : u[i] = IF i <= m THEN s[i] ELSE t[i - m]
  BY <1>1
<1> HIDE DEF u, m, n
<1>3. ASSUME NEW i \in 1 .. m + n
      PROVE  u[i] \in ToSet(s) \cup ToSet(t)
  <2>1. CASE i <= m
    <3>1. i \in 1 .. m /\ u[i] = s[i]
      BY <1>2, <2>1
    <3>2. QED
      BY <1>2, <3>1 DEF ToSet
  <2>2. CASE ~ (i <= m)
    <3>1. i - m \in 1 .. n
      BY <1>2, <2>2
    <3>2. QED
      BY <1>2, <2>2, <3>1 DEF ToSet
  <2>3. QED
    BY <2>1, <2>2
<1>4. ASSUME NEW i \in 1 .. m
      PROVE  s[i] \in ToSet(u)
  <2>1. i \in 1 .. m + n /\ i <= m
    BY <1>2
  <2>2. QED
    BY <1>2, <2>1 DEF ToSet
<1>5. ASSUME NEW i \in 1 .. n
      PROVE  t[i] \in ToSet(u)
  <2>1. i + m \in 1 .. m + n /\ ~ (i + m <= m) /\ (i + m) - m = i
    BY <1>2
  <2>2. QED
    BY <1>2, <2>1 DEF ToSet
<1>6. ToSet(u) = ToSet(s) \cup ToSet(t)
  BY <1>2, <1>3, <1>4, <1>5 DEF ToSet
<1>7. QED
  BY <1>1, <1>6 DEF u

\* The links of the tree that a search goes along.
SearchGround ==
  heap \in HeapsOf(Nat) /\ root \in DOMAIN heap /\ Joined(heap) /\ heap[root].parent = 0 /\ heap[root].vol

\* What is left of a search: places to look at, and nodes with their children.
Left(v) == Len(v.todo) + (Cardinality(DOMAIN heap) - Len(v.found)) * Size

\* A search finds no more nodes than there are.
LEMMA FoundFew ==
  ASSUME SearchGround, NEW v, Finds(v)
  PROVE  /\ Len(v.found) \in Nat /\ Cardinality(DOMAIN heap) \in Nat
         /\ Len(v.found) <= Cardinality(DOMAIN heap)
         /\ Len(v.todo) \in Nat /\ Left(v) \in Nat /\ Len(v.todo) <= Left(v)
<1> DEFINE D == DOMAIN heap  n == Len(v.found)  c == Cardinality(D)
<1>1. v.found \in Seq(D) /\ v.todo \in Seq(D \cup {0}) /\ IsFiniteSet(D)
  BY HeapsAreAny, HeapNodes DEF SearchGround, Finds, SearchesOf
<1>2. n \in Nat /\ DOMAIN v.found = 1 .. n /\ Len(v.todo) \in Nat /\ \A i \in 1 .. n : v.found[i] \in D
  BY <1>1
<1>3. c \in Nat
  BY <1>1, FS_CardinalityType
<1>4. v.found \in Injection(1 .. n, D)
  <2>1. v.found \in [1 .. n -> D]
    BY <1>1
  <2>2. \A i, j \in 1 .. n : v.found[i] = v.found[j] => i = j
    BY DEF Finds
  <2> HIDE DEF n, D
  <2>3. QED
    BY <2>1, <2>2 DEF Injection, IsInjective
<1>5. Cardinality(1 .. n) = n
  BY <1>2, FS_Interval, SMTT(30)
<1>6. n <= c
  BY <1>1, <1>4, <1>5, FS_Injection
<1>7. (c - n) * Size \in Nat
  <2>1. c - n \in Nat /\ Size \in Nat
    BY <1>2, <1>3, <1>6, Numbers
  <2> DEFINE k == c - n
  <2> HIDE DEF k
  <2>2. k * Size \in Nat
    BY <2>1 DEF k
  <2>3. QED
    BY <2>2 DEF k
<1> DEFINE w == (c - n) * Size
<1>8. Left(v) = Len(v.todo) + w
  BY DEF Left
<1>9. w \in Nat
  BY <1>7
<1> HIDE DEF w
<1>10. QED
  BY <1>2, <1>3, <1>6, <1>8, <1>9

\* A place that leads to no volatile node is left.
LEMMA FindsOther ==
  ASSUME SearchGround, NEW v, Finds(v), v.todo # <<>>, Head(v.todo) = 0 \/ ~ heap[Head(v.todo)].vol
  PROVE  LET r == Find_Pending_Round(v) IN Finds(r) /\ Left(r) = Left(v) - 1
<1> DEFINE D == DOMAIN heap  id == Head(v.todo)  rest == Tail(v.todo)  r == Find_Pending_Round(v)
           n == Len(v.todo)
<1>1. /\ v.found \in Seq(D) /\ v.todo \in Seq(D \cup {0}) /\ v = [found |-> v.found, todo |-> v.todo]
  BY DEF Finds, SearchesOf
<1>2. r = [v EXCEPT !.todo = rest]
  BY DEF Find_Pending_Round
<1>3. r.found = v.found /\ r.todo = rest /\ r = [found |-> v.found, todo |-> rest]
  BY <1>1, <1>2
<1>4. /\ n \in Nat /\ n > 0 /\ id = v.todo[1] /\ rest \in Seq(D \cup {0}) /\ Len(rest) = n - 1
      /\ \A i \in 1 .. n - 1 : rest[i] = v.todo[i + 1]
      /\ ToSet(v.todo) = {id} \cup ToSet(rest)
  BY <1>1, HeadAndTail
<1>5. id = 0 \/ ~ heap[id].vol
  OBVIOUS
<1> HIDE DEF id, rest, r, n
<1>6. \A i \in 1 .. n - 1 : i + 1 \in 1 .. n
  BY <1>4
<1>7. id # root
  <2>1. 0 \notin DOMAIN heap
    BY HeapsAreAny, HeapShape DEF SearchGround
  <2>2. QED
    BY <1>5, <2>1 DEF SearchGround
<1>8. ToSet(rest) \subseteq ToSet(v.todo)
  BY <1>4
<1>9. r \in SearchesOf(D)
  BY <1>1, <1>3, <1>4 DEF SearchesOf
<1>10. \A i, j \in 1 .. n - 1 : rest[i] # 0 /\ rest[i] = rest[j] => i = j
  <2> SUFFICES ASSUME NEW i \in 1 .. n - 1, NEW j \in 1 .. n - 1, rest[i] # 0, rest[i] = rest[j]
               PROVE  i = j
    OBVIOUS
  <2>1. i + 1 \in 1 .. n /\ j + 1 \in 1 .. n /\ v.todo[i + 1] # 0 /\ v.todo[i + 1] = v.todo[j + 1]
    BY <1>4, <1>6
  <2>2. i + 1 = j + 1
    BY <2>1 DEF Finds, n
  <2>3. QED
    BY <1>4, <2>2
<1>11. \A i \in 1 .. n - 1, j \in 1 .. Len(v.found) : rest[i] # v.found[j]
  BY <1>4, <1>6 DEF Finds, n
<1>12. \A x \in (ToSet(v.found) \cup ToSet(rest)) \ {0, root} : heap[x].parent \in ToSet(v.found)
  BY <1>8 DEF Finds
<1>13. root \in ToSet(v.found) \cup ToSet(rest)
  BY <1>4, <1>7 DEF Finds
<1>14. \A x \in ToSet(v.found) : \A i \in 0 .. heap[x].num :
         heap[x].kids[i] # 0 /\ heap[heap[x].kids[i]].vol =>
           heap[x].kids[i] \in ToSet(v.found) \cup ToSet(rest)
  <2> SUFFICES ASSUME NEW x \in ToSet(v.found), NEW i \in 0 .. heap[x].num,
                      heap[x].kids[i] # 0 /\ heap[heap[x].kids[i]].vol
               PROVE  heap[x].kids[i] \in ToSet(v.found) \cup ToSet(rest)
    OBVIOUS
  <2>1. heap[x].kids[i] \in ToSet(v.found) \cup ToSet(v.todo)
    BY DEF Finds
  <2>2. heap[x].kids[i] # id
    BY <1>5
  <2>3. QED
    BY <1>4, <2>1, <2>2
<1>15. Finds(r)
  BY <1>3, <1>4, <1>9, <1>10, <1>11, <1>12, <1>13, <1>14 DEF Finds
<1>16. Left(r) = Left(v) - 1
  <2>1. Left(v) \in Nat /\ Left(v) = n + (Cardinality(D) - Len(v.found)) * Size
    BY FoundFew DEF Left, n
  <2>2. Left(r) = n - 1 + (Cardinality(D) - Len(v.found)) * Size
    BY <1>3, <1>4 DEF Left
  <2>3. Len(v.found) \in Nat /\ Cardinality(D) \in Nat /\ Size \in Nat
    BY FoundFew, Numbers
  <2> DEFINE w == (Cardinality(D) - Len(v.found)) * Size
  <2>4. w \in Int
    BY <2>3
  <2> HIDE DEF w
  <2>5. Left(v) = n + w /\ Left(r) = n - 1 + w
    BY <2>1, <2>2 DEF w
  <2>6. QED
    BY <1>4, <2>4, <2>5
<1>17. QED
  BY <1>15, <1>16 DEF r

\* A volatile node is found, and its children are to be looked at.
LEMMA FindsNode ==
  ASSUME SearchGround, NEW v, Finds(v), v.todo # <<>>, Head(v.todo) # 0, heap[Head(v.todo)].vol
  PROVE  LET r == Find_Pending_Round(v) IN Finds(r) /\ Left(r) < Left(v)
<1> DEFINE D == DOMAIN heap  id == Head(v.todo)  rest == Tail(v.todo)  r == Find_Pending_Round(v)
           n == Len(v.todo)  num == heap[id].num  c == Len(v.found)
           kids == [i \in 1 .. num + 1 |-> heap[id].kids[i - 1]]
<1>1. /\ v.found \in Seq(D) /\ v.todo \in Seq(D \cup {0}) /\ v = [found |-> v.found, todo |-> v.todo]
  BY DEF Finds, SearchesOf
<1>2. r = [found |-> Append(v.found, id), todo |-> kids \o rest]
  BY DEF Find_Pending_Round
<1>3. /\ n \in Nat /\ n > 0 /\ id = v.todo[1] /\ rest \in Seq(D \cup {0}) /\ Len(rest) = n - 1
      /\ \A i \in 1 .. n - 1 : rest[i] = v.todo[i + 1]
      /\ ToSet(v.todo) = {id} \cup ToSet(rest) /\ id \in D \cup {0}
  BY <1>1, HeadAndTail
<1>4. id # 0 /\ heap[id].vol /\ id \in D
  BY <1>3
<1> HIDE DEF id, rest, r
<1>5. /\ 0 \notin D /\ num \in Nat /\ num < Size /\ Size \in Nat
      /\ \A x \in D : \A i \in 0 .. heap[x].num : heap[x].kids[i] \in D \cup {0}
  <2>1. heap \in AnyHeapsOf(Nat) /\ heap[id].num < Size
    BY <1>4, HeapsAreAny DEF SearchGround, HeapsOf, Room
  <2>2. QED
    BY <1>4, <2>1, HeapShape, Numbers
<1> HIDE DEF num
<1>6. /\ kids \in Seq(D \cup {0}) /\ Len(kids) = num + 1
      /\ \A i \in 1 .. num + 1 : kids[i] = heap[id].kids[i - 1]
  <2>1. \A i \in 1 .. num + 1 : i - 1 \in 0 .. num /\ heap[id].kids[i - 1] \in D \cup {0}
    BY <1>4, <1>5 DEF num
  <2> DEFINE V == D \cup {0}  last == num + 1
  <2>2. last \in Nat /\ kids \in [1 .. last -> V] /\ \A i \in 1 .. last : kids[i] = heap[id].kids[i - 1]
    BY <1>5, <2>1
  <2> HIDE DEF V, last, kids
  <2>3. kids \in Seq(V) /\ Len(kids) = last
    BY <2>2
  <2>4. QED
    BY <2>2, <2>3 DEF V, last
<1>7. ToSet(kids) = {heap[id].kids[i] : i \in 0 .. num}
  <2>1. DOMAIN kids = 1 .. num + 1
    OBVIOUS
  <2> HIDE DEF kids
  <2>2. \A i \in 0 .. num : i + 1 \in 1 .. num + 1 /\ kids[i + 1] = heap[id].kids[i]
    BY <1>5, <1>6
  <2>3. \A i \in 1 .. num + 1 : i - 1 \in 0 .. num
    BY <1>5
  <2>4. QED
    BY <1>6, <2>1, <2>2, <2>3 DEF ToSet
<1> HIDE DEF kids
<1> DEFINE todo == kids \o rest  found == Append(v.found, id)
<1>8. /\ todo \in Seq(D \cup {0}) /\ Len(todo) = num + n
      /\ \A i \in 1 .. num + n : todo[i] = IF i <= num + 1 THEN heap[id].kids[i - 1] ELSE v.todo[i - num]
      /\ ToSet(todo) = ToSet(kids) \cup ToSet(rest)
  <2> DEFINE V == D \cup {0}
  <2>0. kids \in Seq(V) /\ rest \in Seq(V)
    BY <1>3, <1>6
  <2> HIDE DEF V
  <2>5. /\ todo \in Seq(V) /\ Len(todo) = Len(kids) + Len(rest)
        /\ \A i \in 1 .. Len(kids) + Len(rest) :
             todo[i] = IF i <= Len(kids) THEN kids[i] ELSE rest[i - Len(kids)]
        /\ ToSet(todo) = ToSet(kids) \cup ToSet(rest)
    BY <2>0, JoinedSequences
  <2> HIDE DEF todo
  <2>1. /\ todo \in Seq(D \cup {0}) /\ Len(todo) = (num + 1) + (n - 1)
        /\ \A i \in 1 .. (num + 1) + (n - 1) : todo[i] = IF i <= num + 1 THEN kids[i] ELSE rest[i - (num + 1)]
        /\ ToSet(todo) = ToSet(kids) \cup ToSet(rest)
    BY <1>3, <1>6, <2>5 DEF V
  <2> HIDE DEF todo
  <2>2. (num + 1) + (n - 1) = num + n
    BY <1>3, <1>5
  <2>3. ASSUME NEW i \in 1 .. num + n
        PROVE  todo[i] = IF i <= num + 1 THEN heap[id].kids[i - 1] ELSE v.todo[i - num]
    <3>1. CASE i <= num + 1
      <4>1. i \in 1 .. num + 1
        BY <1>5, <3>1
      <4>2. kids[i] = heap[id].kids[i - 1]
        BY <1>6, <4>1
      <4>3. QED
        BY <2>1, <2>2, <3>1, <4>2
    <3>2. CASE ~ (i <= num + 1)
      <4>1. i - (num + 1) \in 1 .. n - 1 /\ (i - (num + 1)) + 1 = i - num
        BY <1>3, <1>5, <3>2, SMTT(30)
      <4>2. rest[i - (num + 1)] = v.todo[i - num]
        BY <1>3, <4>1
      <4>3. QED
        BY <2>1, <2>2, <3>2, <4>2
    <3>3. QED
      BY <3>1, <3>2
  <2>4. QED
    BY <2>1, <2>2, <2>3
<1>9. /\ c \in Nat /\ found \in Seq(D) /\ Len(found) = c + 1
      /\ \A i \in 1 .. c + 1 : found[i] = IF i <= c THEN v.found[i] ELSE id
      /\ ToSet(found) = ToSet(v.found) \cup {id}
  <2>1. /\ c \in Nat /\ found \in Seq(D) /\ Len(found) = c + 1 /\ DOMAIN v.found = 1 .. c
        /\ \A i \in 1 .. c + 1 : found[i] = IF i <= c THEN v.found[i] ELSE id
    BY <1>1, <1>4
  <2>2. DOMAIN found = 1 .. c + 1
    BY <2>1
  <2> HIDE DEF found, c
  <2>3. ToSet(found) = ToSet(v.found) \cup {id}
    <3>1. ASSUME NEW i \in 1 .. c + 1
          PROVE  found[i] \in ToSet(v.found) \cup {id}
      <4>1. CASE i <= c
        <5>1. i \in 1 .. c /\ found[i] = v.found[i]
          BY <2>1, <4>1
        <5>2. QED
          BY <2>1, <5>1 DEF ToSet
      <4>2. CASE ~ (i <= c)
        BY <2>1, <4>2
      <4>3. QED
        BY <4>1, <4>2
    <3>2. ASSUME NEW i \in 1 .. c
          PROVE  v.found[i] \in ToSet(found)
      <4>1. i \in 1 .. c + 1 /\ i <= c
        BY <2>1
      <4>2. QED
        BY <2>1, <2>2, <4>1 DEF ToSet
    <3>3. id \in ToSet(found)
      <4>1. c + 1 \in 1 .. c + 1 /\ ~ (c + 1 <= c)
        BY <2>1
      <4>2. QED
        BY <2>1, <2>2, <4>1 DEF ToSet
    <3>4. QED
      BY <2>1, <2>2, <3>1, <3>2, <3>3 DEF ToSet
  <2>4. QED
    BY <2>1, <2>3
<1>10. r.found = found /\ r.todo = todo /\ r = [found |-> found, todo |-> todo]
  BY <1>2
<1>11. DOMAIN v.todo = 1 .. n /\ DOMAIN v.found = 1 .. c
  BY <1>1
<1>12. \A i \in 1 .. c : v.found[i] \in D /\ v.found[i] # id
  <2>1. 1 \in 1 .. n
    BY <1>3
  <2>2. \A i \in 1 .. c : v.found[i] \in D
    BY <1>1
  <2>3. QED
    BY <1>3, <2>1, <2>2 DEF Finds, n, c
<1> HIDE DEF todo, found, n, c
<1>20. r \in SearchesOf(D) /\ IsFiniteSet(D)
  <2>1. IsFiniteSet(D)
    BY HeapsAreAny, HeapNodes DEF SearchGround
  <2>2. QED
    BY <1>8, <1>9, <1>10, <2>1 DEF SearchesOf
<1>13. id \notin ToSet(v.found)
  BY <1>11, <1>12 DEF ToSet
<1>14. ASSUME NEW i \in 0 .. num, heap[id].kids[i] # 0
       PROVE  /\ heap[heap[id].kids[i]].parent = id /\ heap[id].kids[i] \in D
              /\ \A j \in 0 .. num : heap[id].kids[j] = heap[id].kids[i] => j = i
              /\ heap[id].kids[i] \notin ToSet(v.found) \cup ToSet(v.todo) /\ heap[id].kids[i] # root
  <2> DEFINE kid == heap[id].kids[i]
  <2>1. /\ heap[kid].parent = id /\ kid \in D
        /\ \A j \in 0 .. num : heap[id].kids[j] = kid => j = i
    BY <1>4, <1>5, <1>14 DEF SearchGround, Joined, num
  <2> HIDE DEF kid
  <2>2. kid # root
    BY <1>4, <2>1 DEF SearchGround
  <2>3. kid \notin ToSet(v.found) \cup ToSet(v.todo)
    <3>1. kid # 0
      BY <1>5, <2>1
    <3>2. kid \in (ToSet(v.found) \cup ToSet(v.todo)) => heap[kid].parent \in ToSet(v.found)
      BY <2>2, <3>1 DEF Finds
    <3>3. QED
      BY <1>13, <2>1, <3>2
  <2>4. QED
    BY <2>1, <2>2, <2>3 DEF kid
<1>15. \A i \in 1 .. num + 1 : i - 1 \in 0 .. num
  BY <1>5
<1>16. \A i \in 1 .. num + n : ~ (i <= num + 1) => i - num \in 1 .. n /\ i - num # 1
  BY <1>3, <1>5
<1>21. /\ \A i, j \in 1 .. n : v.todo[i] # 0 /\ v.todo[i] = v.todo[j] => i = j
       /\ \A i \in 1 .. n, j \in 1 .. c : v.todo[i] # v.found[j]
       /\ \A i \in 1 .. c : heap[v.found[i]].vol
       /\ \A i, j \in 1 .. c : v.found[i] = v.found[j] => i = j
  BY DEF Finds, n, c
<1>22. /\ \A i \in 1 .. n : v.todo[i] \in ToSet(v.todo)
       /\ \A i \in 1 .. c : v.found[i] \in ToSet(v.found)
  BY <1>11 DEF ToSet
<1>17. \A i, j \in 1 .. num + n : todo[i] # 0 /\ todo[i] = todo[j] => i = j
  <2>1. ASSUME NEW i \in 1 .. num + n, NEW j \in 1 .. num + n, todo[i] # 0, todo[i] = todo[j], i <= num + 1
        PROVE  i = j
    <3>1. todo[i] = heap[id].kids[i - 1] /\ i - 1 \in 0 .. num
      <4>1. i \in 1 .. num + 1
        BY <1>5, <2>1
      <4>2. QED
        BY <1>8, <1>15, <2>1, <4>1
    <3>2. CASE j <= num + 1
      <4>1. todo[j] = heap[id].kids[j - 1] /\ j - 1 \in 0 .. num
        <5>1. j \in 1 .. num + 1
          BY <1>5, <3>2
        <5>2. QED
          BY <1>8, <1>15, <3>2, <5>1
      <4>2. i - 1 = j - 1
        BY <1>14, <2>1, <3>1, <4>1
      <4>3. QED
        BY <4>2
    <3>3. CASE ~ (j <= num + 1)
      <4>1. todo[j] = v.todo[j - num] /\ j - num \in 1 .. n
        BY <1>8, <1>16, <3>3
      <4>2. todo[j] \in ToSet(v.todo)
        BY <1>22, <4>1
      <4>3. todo[i] \notin ToSet(v.todo)
        BY <1>14, <2>1, <3>1
      <4>4. QED
        BY <2>1, <4>2, <4>3
    <3>4. QED
      BY <3>2, <3>3
  <2>2. ASSUME NEW i \in 1 .. num + n, NEW j \in 1 .. num + n, todo[i] # 0, todo[i] = todo[j],
               ~ (i <= num + 1), ~ (j <= num + 1)
        PROVE  i = j
    <3>1. /\ todo[i] = v.todo[i - num] /\ i - num \in 1 .. n
          /\ todo[j] = v.todo[j - num] /\ j - num \in 1 .. n
      BY <1>8, <1>16, <2>2
    <3>2. i - num = j - num
      BY <1>21, <2>2, <3>1
    <3>3. QED
      BY <1>5, <3>2
  <2>3. QED
    BY <2>1, <2>2
<1>18. \A i \in 1 .. num + n, j \in 1 .. c + 1 : todo[i] # found[j]
  <2> SUFFICES ASSUME NEW i \in 1 .. num + n, NEW j \in 1 .. c + 1, todo[i] = found[j]
               PROVE  FALSE
    OBVIOUS
  <2>0. j <= c => j \in 1 .. c
    BY <1>9
  <2>1. found[j] \in ToSet(v.found) \cup {id} /\ found[j] # 0
    BY <1>4, <1>5, <1>9, <1>12, <1>22, <2>0
  <2>2. CASE i <= num + 1
    <3>1. todo[i] = heap[id].kids[i - 1] /\ i - 1 \in 0 .. num
      <4>1. i \in 1 .. num + 1
        BY <1>5, <2>2
      <4>2. QED
        BY <1>8, <1>15, <2>2, <4>1
    <3>2. todo[i] \notin ToSet(v.found) \cup ToSet(v.todo)
      BY <1>14, <2>1, <3>1
    <3>3. id \in ToSet(v.todo)
      BY <1>3
    <3>4. QED
      BY <2>1, <3>2, <3>3
  <2>3. CASE ~ (i <= num + 1)
    <3>1. todo[i] = v.todo[i - num] /\ i - num \in 1 .. n /\ i - num # 1
      BY <1>8, <1>16, <2>3
    <3>2. 1 \in 1 .. n /\ v.todo[1] = id
      BY <1>3
    <3>3. v.todo[i - num] # id
      BY <1>4, <1>21, <3>1, <3>2
    <3>4. j <= c
      BY <1>9, <3>1, <3>3
    <3>5. j \in 1 .. c /\ found[j] = v.found[j] /\ v.todo[i - num] # v.found[j]
      BY <1>9, <1>21, <2>0, <3>1, <3>4
    <3>6. QED
      BY <3>1, <3>5
  <2>4. QED
    BY <2>2, <2>3
<1>19. \A i \in 1 .. c + 1 : heap[found[i]].vol
  <2>1. \A i \in 1 .. c + 1 : i <= c => i \in 1 .. c
    BY <1>9
  <2>2. QED
    BY <1>4, <1>9, <1>21, <2>1
<1>23. \A i, j \in 1 .. c + 1 : found[i] = found[j] => i = j
  <2>1. \A i \in 1 .. c + 1 : IF i <= c THEN i \in 1 .. c ELSE i = c + 1
    BY <1>9
  <2>2. QED
    BY <1>9, <1>12, <1>21, <2>1
<1>24. ASSUME NEW x \in (ToSet(found) \cup ToSet(todo)) \ {0, root}
       PROVE  heap[x].parent \in ToSet(found)
  <2>1. CASE x \in ToSet(v.found) \cup ToSet(v.todo)
    BY <1>9, <2>1 DEF Finds
  <2>2. CASE x \notin ToSet(v.found) \cup ToSet(v.todo)
    <3>1. x \in ToSet(kids)
      BY <1>3, <1>8, <1>9, <2>2
    <3>2. PICK i \in 0 .. num : x = heap[id].kids[i]
      BY <1>7, <3>1
    <3>3. heap[x].parent = id
      BY <1>14, <1>24, <3>2
    <3>4. QED
      BY <1>9, <3>3
  <2>3. QED
    BY <2>1, <2>2
<1>25. root \in ToSet(found) \cup ToSet(todo)
  BY <1>3, <1>8, <1>9 DEF Finds
<1>26. ASSUME NEW x \in ToSet(found), NEW i \in 0 .. heap[x].num,
              heap[x].kids[i] # 0 /\ heap[heap[x].kids[i]].vol
       PROVE  heap[x].kids[i] \in ToSet(found) \cup ToSet(todo)
  <2>1. CASE x \in ToSet(v.found)
    <3>1. heap[x].kids[i] \in ToSet(v.found) \cup ToSet(v.todo)
      BY <1>26, <2>1 DEF Finds
    <3>2. QED
      BY <1>3, <1>8, <1>9, <3>1
  <2>2. CASE x = id
    BY <1>7, <1>8, <2>2 DEF num
  <2>3. QED
    BY <1>9, <2>1, <2>2
<1>27. Finds(r)
  BY <1>8, <1>9, <1>10, <1>17, <1>18, <1>19, <1>20, <1>23, <1>24, <1>25, <1>26 DEF Finds
<1>28. Left(r) < Left(v)
  <2> DEFINE size == Cardinality(D)
  <2>1. size \in Nat
    BY <1>20, FS_CardinalityType
  <2>2. Left(v) = n + (size - c) * Size /\ Left(r) = (num + n) + (size - (c + 1)) * Size
    BY <1>8, <1>9, <1>10 DEF Left, n, c
  <2> HIDE DEF size
  <2>3. (size - (c + 1)) * Size = (size - c) * Size - Size
    BY <1>5, <1>9, <2>1
  <2> DEFINE w == (size - c) * Size
  <2>4. w \in Int
    BY <1>5, <1>9, <2>1
  <2> HIDE DEF w
  <2>5. Left(v) = n + w /\ Left(r) = (num + n) + (w - Size)
    BY <2>2, <2>3 DEF w
  <2>6. QED
    BY <1>3, <1>5, <2>4, <2>5
<1>29. QED
  BY <1>27, <1>28 DEF r

\* The search begins at the root.
LEMMA SearchStarts ==
  ASSUME SearchGround
  PROVE  LET v == [found |-> <<>>, todo |-> <<root>>] IN
         Finds(v) /\ Left(v) = 1 + Cardinality(DOMAIN heap) * Size
<1> DEFINE D == DOMAIN heap  f == <<>>  s == <<root>>  v == [found |-> f, todo |-> s]
<1>1. /\ root \in D /\ f \in Seq(D) /\ s \in Seq(D \cup {0}) /\ Len(f) = 0 /\ Len(s) = 1
      /\ DOMAIN f = {} /\ DOMAIN s = {1} /\ s[1] = root
  BY DEF SearchGround
<1>2. IsFiniteSet(D)
  BY HeapsAreAny, HeapNodes DEF SearchGround
<1> HIDE DEF D, f, s
<1>3. ToSet(f) = {} /\ ToSet(s) = {root}
  BY <1>1 DEF ToSet
<1>4. v.found = f /\ v.todo = s /\ v = [found |-> f, todo |-> s]
  OBVIOUS
<1> HIDE DEF v
<1>5. v \in SearchesOf(D)
  BY <1>1, <1>4 DEF SearchesOf
<1>6. 1 .. 0 = {} /\ \A i \in 1 .. 1 : i = 1
  OBVIOUS
<1>7. Finds(v)
  BY <1>1, <1>3, <1>4, <1>5, <1>6 DEF Finds, D
<1>8. Left(v) = 1 + Cardinality(D) * Size
  <2> DEFINE c == Cardinality(D)
  <2>1. c \in Nat
    BY <1>2, FS_CardinalityType
  <2>2. Left(v) = 1 + (c - 0) * Size
    BY <1>1, <1>4 DEF Left, D
  <2> HIDE DEF c
  <2>3. QED
    BY <2>1, <2>2, Numbers DEF c
<1>9. QED
  BY <1>7, <1>8 DEF v, D, f, s

\* The search looks at all it has to look at.
LEMMA SearchEnds ==
  ASSUME SearchGround
  PROVE  \E v : Finds(v) /\ v.todo = <<>> /\ v.found = Pending_Nodes
<1> DEFINE S == SearchesOf(DOMAIN heap)
           start == [found |-> <<>>, todo |-> <<root>>]
           next == [x \in S |-> Find_Pending_Round(x)]
           E(f) == f = [r \in Nat |-> IF r = 0 THEN {start} ELSE {Find_Pending_Round(x) : x \in f[r - 1]}]
           after == CHOOSE f : E(f)
<1>1. start \in S
  <2>1. <<>> \in Seq(DOMAIN heap) /\ <<root>> \in Seq(DOMAIN heap \cup {0})
    BY DEF SearchGround
  <2>2. QED
    BY <2>1 DEF SearchesOf
<1>2. \A x \in S : Find_Pending_Round(x) \in S
  BY FindPendingRoundKeeps DEF SearchGround
<1> HIDE DEF S, start
<1>3. next \in [S -> S] /\ \A x \in S : next[x] = Find_Pending_Round(x)
  BY <1>2
<1> HIDE DEF next
<1>4. PICK f : IsLoop(S, start, next, f)
  BY <1>1, <1>3, LoopExists
<1>5. E(f)
  <2>1. ASSUME NEW r \in Nat, r # 0
        PROVE  {next[x] : x \in f[r - 1]} = {Find_Pending_Round(x) : x \in f[r - 1]}
    <3>1. r - 1 \in Nat
      BY <2>1
    <3>2. \A x \in f[r - 1] : next[x] = Find_Pending_Round(x)
      BY <1>3, <1>4, <3>1 DEF IsLoop
    <3>3. QED
      BY <3>2
  <2>2. f = [r \in Nat |-> IF r = 0 THEN {start} ELSE {next[x] : x \in f[r - 1]}]
    BY <1>4 DEF IsLoop
  <2>3. QED
    BY <2>1, <2>2
<1>6. E(after)
  <2> HIDE DEF E
  <2>1. QED
    BY <1>5
<1> HIDE DEF after
<1>7. after[0] = {start}
  BY <1>6
<1>8. ASSUME NEW r \in Nat, after[r] \subseteq S
      PROVE  after[r + 1] = {next[x] : x \in after[r]}
  <2>1. after[r + 1] = {Find_Pending_Round(x) : x \in after[r]}
    <3>1. r + 1 \in Nat /\ r + 1 # 0 /\ (r + 1) - 1 = r
      OBVIOUS
    <3>2. QED
      BY <1>6, <3>1
  <2>2. QED
    BY <1>3, <1>8, <2>1
<1>9. 1 + Cardinality(DOMAIN heap) * Size \in Nat
  <2>1. Cardinality(DOMAIN heap) \in Nat
    BY HeapsAreAny, HeapNodes, FS_CardinalityType DEF SearchGround
  <2>2. QED
    BY <2>1, Numbers
<1>10. (CHOOSE last \in after[1 + Cardinality(DOMAIN heap) * Size] : TRUE) \in S
  BY <1>1, <1>3, <1>7, <1>8, <1>9, LoopStays
<1> DEFINE count == 1 + Cardinality(DOMAIN heap) * Size
           F == [k \in Nat |-> {v \in S : Finds(v) /\ (v.todo = <<>> \/ Left(v) <= k)}]
<1>11. F \in [Nat -> SUBSET S] /\ \A k \in Nat : F[k] = {v \in S : Finds(v) /\ (v.todo = <<>> \/ Left(v) <= k)}
  OBVIOUS
<1> HIDE DEF F
<1>12. start \in F[count]
  <2>1. Finds(start) /\ Left(start) = count
    BY SearchStarts DEF start
  <2>2. Left(start) <= count
    BY <1>9, <2>1
  <2>3. QED
    BY <1>1, <1>9, <1>11, <2>1, <2>2
<1>13. ASSUME NEW k \in Nat, NEW x \in F[k + 1]
       PROVE  next[x] \in F[k]
  <2>1. k + 1 \in Nat /\ x \in S /\ Finds(x) /\ (x.todo = <<>> \/ Left(x) <= k + 1)
    BY <1>11, <1>13
  <2> DEFINE r == Find_Pending_Round(x)
  <2>2. CASE x.todo = <<>>
    <3>1. r = x
      BY <2>2 DEF Find_Pending_Round
    <3>2. QED
      BY <1>3, <1>11, <2>1, <2>2, <3>1
  <2>3. CASE x.todo # <<>>
    <3>1. Finds(r) /\ Left(r) < Left(x)
      <4>1. Left(x) \in Nat
        BY <2>1, FoundFew
      <4>2. CASE Head(x.todo) = 0 \/ ~ heap[Head(x.todo)].vol
        <5>1. Finds(r) /\ Left(r) = Left(x) - 1
          BY <2>1, <2>3, <4>2, FindsOther
        <5>2. QED
          BY <4>1, <5>1
      <4>3. CASE ~ (Head(x.todo) = 0 \/ ~ heap[Head(x.todo)].vol)
        BY <2>1, <2>3, <4>3, FindsNode
      <4>4. QED
        BY <4>2, <4>3
    <3> HIDE DEF r
    <3>2. Left(r) \in Nat /\ Left(x) \in Nat
      BY <2>1, <3>1, FoundFew
    <3>3. Left(r) <= k
      BY <2>1, <2>3, <3>1, <3>2
    <3>4. r \in S /\ next[x] = r
      BY <1>2, <1>3, <2>1 DEF r
    <3>5. QED
      BY <1>11, <3>1, <3>3, <3>4
  <2>4. QED
    BY <2>2, <2>3
<1>14. after[0] # {} /\ after[0] \subseteq F[count]
  BY <1>7, <1>12
<1> DEFINE last == CHOOSE v \in after[count] : TRUE
<1>15. last.found = Pending_Nodes
  BY DEF Pending_Nodes, Iterated, after, start
<1>16. count \in Nat /\ \A k \in Nat : \A x \in F[k + 1] : next[x] \in F[k]
  BY <1>9, <1>13
<1>17. \A r \in Nat : after[r] \subseteq S => after[r + 1] = {next[x] : x \in after[r]}
  BY <1>8
<1> HIDE DEF count
<1>22. F \in [Nat -> SUBSET S] /\ next \in [S -> S]
  BY <1>3, <1>11
<1>18. last \in F[0]
  BY <1>22, <1>14, <1>16, <1>17, LoopEnds, SMTT(30)
<1> HIDE DEF last
<1>19. Finds(last) /\ (last.todo = <<>> \/ Left(last) <= 0)
  BY <1>11, <1>18
<1>20. last.todo = <<>>
  <2> SUFFICES ASSUME last.todo # <<>>
               PROVE  FALSE
    OBVIOUS
  <2>1. last.todo \in Seq(DOMAIN heap \cup {0})
    BY <1>19 DEF Finds, SearchesOf
  <2>2. Len(last.todo) > 0 /\ Len(last.todo) \in Nat
    BY <2>1
  <2>3. Len(last.todo) <= Left(last) /\ Left(last) \in Nat
    BY <1>19, FoundFew
  <2>4. QED
    BY <1>19, <2>2, <2>3
<1>21. QED
  BY <1>15, <1>19, <1>20

\* What is pending is each volatile node, once.
LEMMA PendingAll ==
  ASSUME SearchGround, Links(heap), disk \in CachesOf(Nat), NEW t, Represents(t, heap, disk),
         t.loc[t.root] = root
  PROVE  LET v == Pending_Nodes IN
         /\ v \in Seq(DOMAIN heap) /\ \A i, j \in 1 .. Len(v) : v[i] = v[j] => i = j
         /\ ToSet(v) = {n \in DOMAIN heap : heap[n].vol}
<1> DEFINE D == DOMAIN heap
<1>1. PICK v : Finds(v) /\ v.todo = <<>> /\ v.found = Pending_Nodes
  BY SearchEnds
<1> DEFINE V == v.found
<1>2. /\ V \in Seq(D) /\ ToSet(V) \subseteq {n \in D : heap[n].vol}
      /\ \A i, j \in 1 .. Len(V) : V[i] = V[j] => i = j
      /\ ToSet(v.todo) = {}
  <2>1. V \in Seq(D) /\ DOMAIN V = 1 .. Len(V) /\ \A i \in 1 .. Len(V) : V[i] \in D
    BY <1>1 DEF Finds, SearchesOf
  <2>2. ToSet(v.todo) = {}
    BY <1>1 DEF ToSet
  <2>3. /\ \A i, j \in 1 .. Len(V) : V[i] = V[j] => i = j
        /\ \A i \in 1 .. Len(V) : heap[V[i]].vol
    BY <1>1 DEF Finds
  <2>4. QED
    BY <2>1, <2>2, <2>3 DEF ToSet
<1>3. /\ root \in ToSet(V)
      /\ \A x \in ToSet(V) : \A i \in 0 .. heap[x].num :
           heap[x].kids[i] # 0 /\ heap[heap[x].kids[i]].vol => heap[x].kids[i] \in ToSet(V)
  BY <1>1, <1>2 DEF Finds
<1> HIDE DEF V
<1>4. PICK d : Depths(heap, d) /\ Risen(heap, 0)
  BY DEF Links, Linked
<1>5. heap \in AnyHeapsOf(Nat) /\ Joined(heap)
  BY HeapsAreAny DEF SearchGround
<1> DEFINE Missed == {n \in D : heap[n].vol /\ n \notin ToSet(V)}
<1>6. Missed = {}
  <2> SUFFICES ASSUME Missed # {}
               PROVE  FALSE
    OBVIOUS
  <2>1. {d[n] : n \in Missed} \in SUBSET Nat /\ {d[n] : n \in Missed} # {}
    BY <1>4 DEF Depths
  <2>2. PICK least \in {d[n] : n \in Missed} : \A k \in {d[n] : n \in Missed} : least <= k
    BY <2>1, LeastNumber
  <2>3. PICK id \in Missed : least = d[id]
    BY <2>2
  <2>4. id \in D /\ heap[id].vol /\ id \notin ToSet(V) /\ \A n \in Missed : d[id] <= d[n]
    BY <2>2, <2>3
  <2> HIDE DEF Missed
  <2>5. PICK x \in t.nodes : t.loc[x] = id
    BY <2>4 DEF Represents
  <2>6. x # t.root
    BY <1>3, <2>4, <2>5
  <2> DEFINE p == heap[id].parent
  <2>7. /\ p # 0 /\ p \in D
        /\ \E z \in t.nodes : /\ t.loc[z] = p /\ ~ t.node[z].leaf
                              /\ \E i \in 0 .. t.node[z].num : IsChild(t, z, i, x)
    BY <1>5, <2>4, <2>5, <2>6, ParentOf
  <2>8. heap[p].vol /\ d[id] = d[p] + 1 /\ d[id] \in Nat /\ d[p] \in Nat
    BY <1>4, <2>4, <2>7 DEF Depths, Risen
  <2> HIDE DEF p
  <2>9. p \in ToSet(V)
    <3>1. p \notin Missed
      BY <2>4, <2>8
    <3>2. QED
      BY <2>7, <2>8, <3>1 DEF Missed
  <2>10. PICK z \in t.nodes : t.loc[z] = p /\ \E i \in 0 .. t.node[z].num : IsChild(t, z, i, x)
    BY <2>7
  <2>11. PICK i \in 0 .. t.node[z].num : IsChild(t, z, i, x)
    BY <2>10
  <2>12. /\ t.node[z].num = heap[p].num /\ heap[p].num \in 0 .. Size
         /\ \A j \in 0 .. Size :
              t.node[z].below[j] = IF heap[p].kids[j] # 0 THEN heap[p].kids[j] ELSE - heap[p].ptrs[j]
    BY <1>5, <2>7, <2>10, NodeInHeap
  <2>13. i \in 0 .. Size /\ i \in 0 .. heap[p].num
    BY <2>12, Numbers
  <2>14. id = IF heap[p].kids[i] # 0 THEN heap[p].kids[i] ELSE - heap[p].ptrs[i]
    BY <2>5, <2>11, <2>12, <2>13 DEF IsChild
  <2>15. heap[p].ptrs[i] \in Nat /\ id > 0 /\ id \in Nat
    <3>1. heap[p] \in NodesOf(Nat) /\ D \subseteq Nat \ {0}
      BY <1>5, <2>7, HeapNodes
    <3>2. heap[p].ptrs[i] \in Nat
      BY <2>13, <3>1 DEF NodesOf
    <3>3. QED
      BY <2>4, <3>1, <3>2
  <2>16. heap[p].kids[i] = id
    <3>1. heap[p].kids[i] # 0
      <4> DEFINE a == heap[p].ptrs[i]
      <4>1. a \in Nat /\ (heap[p].kids[i] = 0 => id = - a)
        BY <2>14, <2>15
      <4> HIDE DEF a
      <4>2. id # - a
        BY <2>15, <4>1
      <4>3. QED
        BY <4>1, <4>2
    <3>2. QED
      BY <2>14, <3>1
  <2>17. id # 0
    BY <2>15
  <2>18. id \in ToSet(V)
    BY <1>3, <2>4, <2>9, <2>13, <2>16, <2>17
  <2>19. QED
    BY <2>4, <2>18
<1>7. QED
  BY <1>1, <1>2, <1>6 DEF V

\* The slots of a commit are as many as it asked for: free ones, or beyond the end.
LEMMA AllocationShape ==
  ASSUME IsFiniteSet(free), free \subseteq Slots, \A a \in free : a < pointer,
         pointer \in Nat, pointer # 0, NEW n \in Nat, NEW A \in Allocations(free, pointer, n),
         PointerAfter(free, pointer, n) <= MaxSlot + 1
  PROVE  /\ IsFiniteSet(A) /\ Cardinality(A) = n /\ A \subseteq Slots
         /\ PointerAfter(free, pointer, n) \in Nat /\ pointer <= PointerAfter(free, pointer, n)
         /\ \A s \in A : s < PointerAfter(free, pointer, n) /\ (s \in free \/ ~ (s < pointer))
<1> DEFINE c == Cardinality(free)  after == PointerAfter(free, pointer, n)
<1>1. c \in Nat /\ MaxSlot \in Nat
  BY FS_CardinalityType, BoundsAssumption
<1>2. CASE n <= c
  <2>1. A \in SUBSET free /\ Cardinality(A) = n
    BY <1>2 DEF Allocations
  <2>2. after = pointer + 0 /\ after = pointer
    BY <1>2 DEF PointerAfter, Appended
  <2>3. IsFiniteSet(A)
    BY <2>1, FS_Subset
  <2> HIDE DEF after
  <2>4. QED
    BY <2>1, <2>2, <2>3 DEF after
<1>3. CASE ~ (n <= c)
  <2> DEFINE k == n - c  T == pointer .. pointer + k - 1
  <2>1. A = free \cup T
    BY <1>3 DEF Allocations, TailSlots, Appended
  <2>2. k \in Nat /\ k # 0 /\ after = pointer + k /\ pointer + k <= MaxSlot + 1
    BY <1>1, <1>3 DEF PointerAfter, Appended
  <2>3. c + k = n
    BY <1>1
  <2> HIDE DEF k, after
  <2>4. /\ IsFiniteSet(T) /\ Cardinality(T) = k
    <3>1. pointer \in Int /\ pointer + k - 1 \in Int /\ ~ (pointer > pointer + k - 1)
      BY <2>2
    <3>2. (pointer + k - 1) - pointer + 1 = k
      BY <2>2
    <3>3. QED
      BY <3>1, <3>2, FS_Interval
  <2>5. \A s \in T : s \in Slots /\ ~ (s < pointer) /\ s < pointer + k
    BY <1>1, <2>2 DEF Slots
  <2>6. \A s \in free : s \in Slots /\ s < pointer /\ s < pointer + k
    BY <1>1, <2>2 DEF Slots
  <2>7. free \cap T = {}
    BY <2>5, <2>6
  <2>8. /\ IsFiniteSet(free \cup T)
        /\ Cardinality(free \cup T) = Cardinality(free) + Cardinality(T) - Cardinality(free \cap T)
    BY <2>4, FS_Union
  <2>9. Cardinality(free \cup T) = n
    <3>1. Cardinality(free \cap T) = 0 /\ Cardinality(free) = c
      BY <2>7, FS_EmptySet
    <3> HIDE DEF c, T
    <3>2. QED
      BY <1>1, <2>2, <2>3, <2>4, <2>8, <3>1
  <2> HIDE DEF T
  <2>10. /\ after \in Nat /\ pointer <= after
    BY <2>2
  <2>11. QED
    BY <2>1, <2>2, <2>5, <2>6, <2>8, <2>9, <2>10 DEF after
<1>4. QED
  BY <1>2, <1>3

\* The rank of a slot tells it from the others, and each rank is that of a slot.
LEMMA RanksCount ==
  ASSUME NEW A, A \subseteq Nat, IsFiniteSet(A)
  PROVE  LET Rank(s) == Cardinality({a \in A : a <= s}) IN
         /\ \A s \in A : Rank(s) \in 1 .. Cardinality(A)
         /\ \A r, s \in A : Rank(r) = Rank(s) => r = s
         /\ \A i \in 1 .. Cardinality(A) : \E s \in A : Rank(s) = i
<1> DEFINE Rank(s) == Cardinality({a \in A : a <= s})
           n == Cardinality(A)
<1>1. n \in Nat
  BY FS_CardinalityType
<1>2. ASSUME NEW s \in A
      PROVE  Rank(s) \in 1 .. n
  <2> DEFINE B == {a \in A : a <= s}
  <2>1. s \in B
    OBVIOUS
  <2>2. IsFiniteSet(B) /\ Cardinality(B) <= n
    BY FS_Subset
  <2>3. Cardinality(B) \in Nat /\ Cardinality(B) # 0
    BY <2>1, <2>2, FS_CardinalityType, FS_EmptySet
  <2> HIDE DEF B, n
  <2>4. Cardinality(B) \in 1 .. n
    BY <1>1, <2>2, <2>3
  <2>5. QED
    BY <2>4 DEF B
<1>3. ASSUME NEW r \in A, NEW s \in A, r < s
      PROVE  Rank(r) # Rank(s)
  <2> DEFINE B == {a \in A : a <= r}  C == {a \in A : a <= s}
  <2>1. B \subseteq C /\ s \in C /\ s \notin B
    <3>1. r \in Nat /\ s \in Nat /\ \A a \in A : a \in Nat
      OBVIOUS
    <3>2. s <= s /\ ~ (s <= r) /\ \A a \in Nat : a <= r => a <= s
      BY <1>3, <3>1
    <3>3. QED
      BY <3>1, <3>2
  <2>2. IsFiniteSet(C)
    BY FS_Subset
  <2> HIDE DEF B, C
  <2>3. Cardinality(B) # Cardinality(C)
    BY <2>1, <2>2, FS_Subset
  <2>4. QED
    BY <2>3 DEF B, C
<1>4. \A r, s \in A : Rank(r) = Rank(s) => r = s
  <2> SUFFICES ASSUME NEW r \in A, NEW s \in A, Rank(r) = Rank(s), r # s
               PROVE  FALSE
    OBVIOUS
  <2>1. r < s \/ s < r
    OBVIOUS
  <2> HIDE DEF Rank
  <2>2. QED
    BY <1>3, <2>1
<1> HIDE DEF Rank, n
<1> DEFINE f == [s \in A |-> Rank(s)]
<1>5. f \in Injection(A, 1 .. n)
  <2>1. f \in [A -> 1 .. n] /\ \A s \in A : f[s] = Rank(s)
    BY <1>2
  <2> HIDE DEF f
  <2>2. QED
    BY <1>4, <2>1 DEF Injection, IsInjective
<1>6. IsFiniteSet(1 .. n) /\ Cardinality(1 .. n) = n
  BY <1>1, FS_Interval
<1>7. f \in Surjection(A, 1 .. n)
  <2> HIDE DEF f
  <2>1. Cardinality(A) = Cardinality(1 .. n)
    BY <1>6 DEF n
  <2>2. QED
    BY <1>5, <1>6, <2>1, FS_Injection
<1>8. \A i \in 1 .. n : \E s \in A : Rank(s) = i
  BY <1>7 DEF Surjection
<1>9. QED
  BY <1>2, <1>4, <1>8 DEF Rank, n

\* The rank of a slot in A, and the slot whose rank is that of n in V.
RankIn(A, s) == Cardinality({a \in A : a <= s})
AddressIn(A, V, n) == CHOOSE s \in A : V[RankIn(A, s)] = n

\* The k-th of the slots goes to the k-th of the nodes.
LEMMA AddressesGiven ==
  ASSUME NEW A, A \subseteq Nat, IsFiniteSet(A), NEW D, NEW V \in Seq(D),
         Len(V) = Cardinality(A), \A i, j \in 1 .. Len(V) : V[i] = V[j] => i = j
  PROVE  /\ \A s \in A : V[RankIn(A, s)] \in ToSet(V) /\ AddressIn(A, V, V[RankIn(A, s)]) = s
         /\ \A n \in ToSet(V) : AddressIn(A, V, n) \in A /\ V[RankIn(A, AddressIn(A, V, n))] = n
<1> DEFINE Rank(s) == RankIn(A, s)
           Address(n) == AddressIn(A, V, n)
<1>1. /\ \A s \in A : Rank(s) \in 1 .. Len(V)
      /\ \A r, s \in A : Rank(r) = Rank(s) => r = s
      /\ \A i \in 1 .. Len(V) : \E s \in A : Rank(s) = i
  <2>1. /\ \A s \in A : Rank(s) \in 1 .. Cardinality(A)
        /\ \A r, s \in A : Rank(r) = Rank(s) => r = s
        /\ \A i \in 1 .. Cardinality(A) : \E s \in A : Rank(s) = i
    BY RanksCount DEF RankIn
  <2> HIDE DEF Rank
  <2>2. QED
    BY <2>1
<1>2. DOMAIN V = 1 .. Len(V)
  OBVIOUS
<1> HIDE DEF Rank
<1>3. \A s \in A : V[Rank(s)] \in ToSet(V)
  BY <1>1, <1>2 DEF ToSet
<1>4. ASSUME NEW n \in ToSet(V)
      PROVE  Address(n) \in A /\ V[Rank(Address(n))] = n
  <2>1. PICK i \in 1 .. Len(V) : V[i] = n
    BY <1>2 DEF ToSet
  <2>2. \E s \in A : V[Rank(s)] = n
    BY <1>1, <2>1
  <2>3. QED
    BY <2>2 DEF AddressIn, Rank
<1>5. ASSUME NEW s \in A
      PROVE  Address(V[Rank(s)]) = s
  <2> DEFINE n == V[Rank(s)]  r == Address(n)
  <2>1. r \in A /\ V[Rank(r)] = n
    BY <1>3, <1>4
  <2> HIDE DEF r
  <2>2. Rank(r) = Rank(s)
    BY <1>1, <2>1
  <2>3. QED
    BY <1>1, <2>1, <2>2 DEF r
<1>6. QED
  BY <1>3, <1>4, <1>5 DEF Rank

\* The nodes that a commit writes.
Volatile == {n \in DOMAIN heap : heap[n].vol}

\* A node with its new address and the new addresses of its children.
Given(n, at) ==
  Addressed(heap[n], at[n],
            [i \in 0 .. Size |->
               IF i <= heap[n].num /\ heap[n].kids[i] \in Volatile
               THEN at[heap[n].kids[i]] ELSE heap[n].ptrs[i]])

\* What is kept of the root.
Bare(n) == [n EXCEPT !.kids = [i \in 0 .. Size |-> 0], !.line = 0]

\* A commit to the slots c.slots, with the address c.at[n] for node n.
IsCommit(c) ==
  /\ c.slots \subseteq Slots /\ c.at \in [Volatile -> c.slots]
  /\ \A m, n \in Volatile : c.at[m] = c.at[n] => m = n
  /\ \A s \in c.slots : /\ s < pointer' /\ (s \in free \/ ~ (s < pointer))
                        /\ \E n \in Volatile : c.at[n] = s
  /\ disk' = [s \in Slots |-> disk'[s]]
  /\ \A n \in Volatile : disk'[c.at[n]] = Written(Given(n, c.at))
  /\ \A s \in Slots \ c.slots : disk'[s] = disk[s]
  /\ heap' = [n \in {1} |-> Bare(Given(root, c.at))]
  /\ root \in Volatile /\ metadata' = c.at[root] /\ root' = 1
  /\ free' = (free \ c.slots) \cup freed /\ freed' = {}
  /\ pointer' \in Nat /\ pointer <= pointer'
  /\ cache' = [s \in Slots |-> IF s \in freed THEN NoLine ELSE cache[s]]

\* The step gives each volatile node a slot of its own.
LEMMA CommitGives ==
  ASSUME NEW K, NEW J, Working(K), StoredTree(J), Commit
  PROVE  \E c : IsCommit(c)
<1> DEFINE volatile == Pending_Nodes
           len == Len(volatile)
<1>1. PICK A \in Allocations(free, pointer, len) :
       LET Rank(s) == Cardinality({a \in A : a <= s})
           Address(n) == CHOOSE s \in A : volatile[Rank(s)] = n
           New_Pointer(n, i) ==
             LET kid == heap[n].kids[i] IN
             IF i <= heap[n].num /\ kid \in ToSet(volatile) THEN Address(kid) ELSE heap[n].ptrs[i]
           Assigned(n) == [heap[n] EXCEPT !.addr = Address(n),
                             !.ptrs = [i \in 0 .. Size |-> New_Pointer(n, i)]]
       IN /\ disk' = [s \in Slots |->
                        IF s \in A
                        THEN Written(Assigned(volatile[Rank(s)]))
                        ELSE disk[s]]
          /\ heap' = [n \in {1} |-> [Assigned(root) EXCEPT
                                       !.kids = [i \in 0 .. Size |-> 0], !.line = 0]]
          /\ metadata' = Address(root)
          /\ free' = (free \ A) \cup freed
  BY Zenon DEF Commit
<1> DEFINE Rank(s) == Cardinality({a \in A : a <= s})
           Address(n) == CHOOSE s \in A : volatile[Rank(s)] = n
           New_Pointer(n, i) ==
             IF i <= heap[n].num /\ heap[n].kids[i] \in ToSet(volatile)
             THEN Address(heap[n].kids[i]) ELSE heap[n].ptrs[i]
           Pointers(n) == [i \in 0 .. Size |-> New_Pointer(n, i)]
           Assigned(n) == [heap[n] EXCEPT !.addr = Address(n), !.ptrs = Pointers(n)]
<1>2. /\ disk' = [s \in Slots |-> IF s \in A THEN Written(Assigned(volatile[Rank(s)])) ELSE disk[s]]
      /\ heap' = [n \in {1} |-> [Assigned(root) EXCEPT !.kids = [i \in 0 .. Size |-> 0], !.line = 0]]
      /\ metadata' = Address(root)
      /\ free' = (free \ A) \cup freed
  BY <1>1, Zenon
<1>3. /\ root' = 1 /\ freed' = {} /\ pointer' = PointerAfter(free, pointer, len)
      /\ cache' = [s \in Slots |-> IF s \in freed THEN NoLine ELSE cache[s]]
      /\ PointerAfter(free, pointer, len) <= MaxSlot + 1
  BY Zenon DEF Commit, Invalidated
<1>4. /\ SearchGround /\ Links(heap) /\ disk \in CachesOf(Nat)
      /\ IsFiniteSet(free) /\ pointer \in Nat /\ pointer # 0
  BY DEF Working, StoredTree, Holds, Tree, Stands, SearchGround, Links, Linked
<1>5. PICK t : Keeping(t, heap, freed) /\ t.loc[t.root] = root
  BY DEF Working
<1>6. /\ volatile \in Seq(DOMAIN heap) /\ ToSet(volatile) = Volatile
      /\ \A i, j \in 1 .. len : volatile[i] = volatile[j] => i = j
  BY <1>4, <1>5, PendingAll DEF Keeping, Volatile
<1>7. len \in Nat /\ free \subseteq Slots /\ \A a \in free : a < pointer
  BY <1>5, <1>6 DEF Keeping, Space
<1>8. /\ IsFiniteSet(A) /\ Cardinality(A) = len /\ A \subseteq Slots
      /\ pointer' \in Nat /\ pointer <= pointer'
      /\ \A s \in A : s < pointer' /\ (s \in free \/ ~ (s < pointer))
  <2> HIDE DEF len
  <2>1. /\ IsFiniteSet(A) /\ Cardinality(A) = len /\ A \subseteq Slots
        /\ PointerAfter(free, pointer, len) \in Nat /\ pointer <= PointerAfter(free, pointer, len)
        /\ \A s \in A : s < PointerAfter(free, pointer, len) /\ (s \in free \/ ~ (s < pointer))
    BY <1>3, <1>4, <1>7, AllocationShape
  <2>2. QED
    BY <1>3, <2>1
<1>9. /\ \A s \in A : volatile[Rank(s)] \in Volatile /\ Address(volatile[Rank(s)]) = s
      /\ \A n \in Volatile : Address(n) \in A /\ volatile[Rank(Address(n))] = n
  <2> DEFINE D == DOMAIN heap
  <2>1. /\ volatile \in Seq(D) /\ A \subseteq Nat /\ IsFiniteSet(A) /\ Len(volatile) = Cardinality(A)
        /\ \A i, j \in 1 .. Len(volatile) : volatile[i] = volatile[j] => i = j
    BY <1>6, <1>8, BoundsAssumption DEF Slots
  <2> HIDE DEF volatile, D
  <2>2. /\ \A s \in A : /\ volatile[RankIn(A, s)] \in ToSet(volatile)
                        /\ AddressIn(A, volatile, volatile[RankIn(A, s)]) = s
        /\ \A n \in ToSet(volatile) : /\ AddressIn(A, volatile, n) \in A
                                       /\ volatile[RankIn(A, AddressIn(A, volatile, n))] = n
    BY <2>1, AddressesGiven
  <2>3. (\A s : Rank(s) = RankIn(A, s)) /\ \A n : Address(n) = AddressIn(A, volatile, n)
    BY DEF RankIn, AddressIn
  <2> HIDE DEF Rank, Address
  <2>4. QED
    BY <1>6, <2>2, <2>3 DEF volatile
<1>10. root \in Volatile
  BY <1>4 DEF SearchGround, Volatile
<1> HIDE DEF Rank, Address, volatile, len
<1> DEFINE at == [n \in Volatile |-> Address(n)]  c == [at |-> at, slots |-> A]
<1>11. /\ at \in [Volatile -> A] /\ \A n \in Volatile : at[n] = Address(n)
       /\ \A m, n \in Volatile : at[m] = at[n] => m = n
  BY <1>9
<1>12. ASSUME NEW n \in Volatile
       PROVE  Assigned(n) = Given(n, at)
  <2>1. Pointers(n) = [i \in 0 .. Size |-> IF i <= heap[n].num /\ heap[n].kids[i] \in Volatile
                                           THEN at[heap[n].kids[i]] ELSE heap[n].ptrs[i]]
    BY <1>6, <1>11
  <2>2. at[n] = Address(n)
    BY <1>11
  <2> HIDE DEF at, Pointers
  <2>3. QED
    BY <2>1, <2>2 DEF Given, Addressed
<1> HIDE DEF at, Assigned
<1>13. ASSUME NEW n \in Volatile
       PROVE  disk'[at[n]] = Written(Given(n, at))
  <2>1. at[n] \in A /\ at[n] \in Slots /\ volatile[Rank(at[n])] = n
    BY <1>8, <1>9, <1>11
  <2>2. QED
    BY <1>2, <1>12, <2>1
<1>14. \A s \in A : \E n \in Volatile : at[n] = s
  BY <1>9, <1>11
<1>15. heap' = [n \in {1} |-> Bare(Given(root, at))] /\ disk' = [s \in Slots |-> disk'[s]]
  <2>1. heap' = [n \in {1} |-> Bare(Assigned(root))]
    BY <1>2 DEF Bare
  <2>2. disk' = [s \in Slots |-> disk'[s]]
    <3> DEFINE E(s) == IF s \in A THEN Written(Assigned(volatile[Rank(s)])) ELSE disk[s]
    <3>1. disk' = [s \in Slots |-> E(s)]
      BY <1>2
    <3> HIDE DEF E
    <3>2. QED
      BY <3>1
  <2>3. Assigned(root) = Given(root, at)
    BY <1>10, <1>12
  <2>4. QED
    BY <2>1, <2>2, <2>3
<1>16. c.at = at /\ c.slots = A
  OBVIOUS
<1> HIDE DEF c
<1>17. (\A s \in Slots \ A : disk'[s] = disk[s]) /\ metadata' = at[root] /\ free' = (free \ A) \cup freed
  BY <1>2, <1>10, <1>11
<1>19. /\ A \subseteq Slots /\ pointer' \in Nat /\ pointer <= pointer'
       /\ \A s \in A : /\ s < pointer' /\ (s \in free \/ ~ (s < pointer))
                        /\ \E n \in Volatile : at[n] = s
  BY <1>8, <1>14
<1> HIDE DEF Assigned
<1>20. IsCommit(c)
  BY <1>3, <1>10, <1>11, <1>13, <1>15, <1>16, <1>17, <1>19 DEF IsCommit
<1>18. QED
  BY <1>20

\* A commit from a state whose tree is t.
Commits(t, c) ==
  /\ Holds(Nat) /\ CacheTrue(cache, freed) /\ Keeping(t, heap, freed) /\ t.loc[t.root] = root
  /\ IsCommit(c)

\* A node that is written is sound.
LEMMA GivenIsSound ==
  ASSUME NEW t, NEW c, Commits(t, c), NEW n \in Volatile
  PROVE  LET g == Given(n, c.at) IN
         /\ g \in NodesOf(Nat) /\ Sound(g) /\ g.num < Size
         /\ g.leaf = heap[n].leaf /\ g.num = heap[n].num /\ g.keys = heap[n].keys
         /\ g.parent = heap[n].parent /\ g.addr = c.at[n] /\ g.vol
         /\ \A i \in 0 .. Size :
              g.ptrs[i] = IF i <= heap[n].num /\ heap[n].kids[i] \in Volatile
                          THEN c.at[heap[n].kids[i]] ELSE heap[n].ptrs[i]
<1> DEFINE m == heap[n]  a == c.at[n]
           Pointer(i) == IF i <= m.num /\ m.kids[i] \in Volatile THEN c.at[m.kids[i]] ELSE m.ptrs[i]
           p == [i \in 0 .. Size |-> Pointer(i)]
<1>1. /\ m \in NodesOf(Nat) /\ Sound(m) /\ m.num < Size /\ m.vol /\ 0 \notin Volatile
  BY HeapsAreAny, HeapNodes DEF Commits, Holds, Tree, HeapsOf, Room, Volatile
<1>2. \A k \in Volatile : c.at[k] \in Nat
  BY BoundsAssumption DEF Commits, IsCommit, Slots
<1>3. \A i \in 0 .. Size : m.ptrs[i] \in Nat
  BY <1>1 DEF NodesOf
<1>4. a \in Nat /\ Given(n, c.at) = Addressed(m, a, p)
  BY <1>2 DEF Given
<1> HIDE DEF m, a
<1>5. p \in [0 .. Size -> Nat] /\ \A i \in 0 .. Size : p[i] = Pointer(i)
  <2>1. \A i \in 0 .. Size : Pointer(i) \in Nat
    BY <1>2, <1>3
  <2> HIDE DEF Pointer
  <2>2. QED
    BY <2>1
<1>10. m.ptrs \in [0 .. Size -> Nat] /\ p \in [0 .. Size -> Nat]
  BY <1>1, <1>5 DEF NodesOf
<1>6. m.leaf => \A i \in 0 .. Size : Pointer(i) = m.ptrs[i]
  BY <1>1 DEF Sound
<1>13. m.leaf => p = m.ptrs
  <2> HIDE DEF Pointer
  <2>1. QED
    BY <1>6, <1>10
<1> HIDE DEF p
<1> DEFINE g == Addressed(m, a, p)
<1>7. /\ g \in NodesOf(Nat) /\ Sound(g) /\ g.num = m.num /\ g.leaf = m.leaf /\ g.parent = m.parent
  <2> HIDE DEF Pointer
  <2>1. m \in NodesOf(Nat) /\ Sound(m) /\ a \in Nat /\ p \in [0 .. Size -> Nat] /\ (m.leaf => p = m.ptrs)
    BY <1>1, <1>4, <1>10, <1>13
  <2>2. QED
    BY <2>1, AssignedIsSound
<1>8. g.keys = m.keys /\ g.addr = a /\ g.vol = m.vol /\ g.ptrs = p
  BY <1>1 DEF Addressed, NodesOf
<1> HIDE DEF g
<1>9. QED
  BY <1>1, <1>4, <1>5, <1>7, <1>8 DEF g, m, a

\* What is kept of the root, after the commit.
LEMMA BareRoot ==
  ASSUME NEW t, NEW c, Commits(t, c)
  PROVE  LET r == heap'[1]  g == Given(root, c.at) IN
         /\ DOMAIN heap' = {1} /\ heap' = [n \in {1} |-> r]
         /\ r \in NodesOf(Nat) /\ Sound(r) /\ r.num < Size /\ r.parent = 0 /\ (r.leaf \/ r.num # 0)
         /\ \A i \in 0 .. Size : r.kids[i] = 0
         /\ r.leaf = heap[root].leaf /\ r.num = heap[root].num /\ r.keys = heap[root].keys
         /\ r.ptrs = g.ptrs /\ r.addr = c.at[root] /\ r.vol /\ r.line = 0
<1> DEFINE g == Given(root, c.at)  zeros == [i \in 0 .. Size |-> 0]  r == [g EXCEPT !.kids = zeros, !.line = 0]
<1>1. /\ root \in Volatile /\ heap' = [n \in {1} |-> r]
  BY DEF Commits, IsCommit, Bare
<1>2. /\ g \in NodesOf(Nat) /\ Sound(g) /\ g.num < Size
      /\ g.leaf = heap[root].leaf /\ g.num = heap[root].num /\ g.keys = heap[root].keys
      /\ g.parent = heap[root].parent /\ g.addr = c.at[root] /\ g.vol
  BY <1>1, GivenIsSound
<1>3. heap[root].parent = 0 /\ (heap[root].leaf \/ heap[root].num # 0)
  BY DEF Commits, Holds, Tree, Stands
<1>4. zeros \in [0 .. Size -> Nat] /\ \A i \in 0 .. Size : zeros[i] = 0
  OBVIOUS
<1> HIDE DEF g, zeros
<1>5. /\ r \in NodesOf(Nat) /\ r.kids = zeros /\ r.num = g.num /\ r.leaf = g.leaf
      /\ r.parent = g.parent /\ r.keys = g.keys /\ r.ptrs = g.ptrs /\ r.addr = g.addr
      /\ r.vol = g.vol /\ r.line = 0
  BY <1>2, <1>4 DEF NodesOf
<1> HIDE DEF r
<1>6. Sound(r)
  BY <1>2, <1>4, <1>5 DEF Sound, Owned
<1>7. DOMAIN heap' = {1} /\ heap'[1] = r
  BY <1>1
<1>8. QED
  BY <1>1, <1>2, <1>3, <1>4, <1>5, <1>6, <1>7 DEF g

\* The addresses that a commit gives are numbers.
LEMMA CommitFits ==
  ASSUME NEW t, NEW c, Commits(t, c)
  PROVE  Holds(Nat)' /\ disk' \in CachesOf(Nat)
<1>1. /\ heap \in HeapsOf(Nat) /\ disk \in CachesOf(Nat) /\ cache \in CachesOf(Nat)
      /\ IsFiniteSet(freed) /\ IsFiniteSet(free)
  BY DEF Commits, Holds, Tree
<1>2. disk' \in CachesOf(Nat)
  <2>1. ASSUME NEW s \in Slots
        PROVE  disk'[s] \in LinesOf(Nat)
    <3>1. CASE s \in c.slots
      <4>1. PICK n \in Volatile : c.at[n] = s
        BY <3>1 DEF Commits, IsCommit
      <4> DEFINE g == Given(n, c.at)
      <4>2. disk'[s] = Written(g)
        BY <4>1 DEF Commits, IsCommit
      <4>3. g \in NodesOf(Nat) /\ Sound(g) /\ g.num < Size
        BY GivenIsSound
      <4> HIDE DEF g
      <4>4. 0 \in Nat
        OBVIOUS
      <4>5. QED
        BY <4>2, <4>3, <4>4, WrittenIsSound
    <3>2. CASE s \notin c.slots
      BY <1>1, <3>2 DEF Commits, IsCommit, CachesOf
    <3>3. QED
      BY <3>1, <3>2
  <2>2. disk' = [s \in Slots |-> disk'[s]]
    BY DEF Commits, IsCommit
  <2>3. QED
    BY <2>1, <2>2 DEF CachesOf
<1>3. cache' \in CachesOf(Nat)
  <2>1. 0 \in Nat
    OBVIOUS
  <2>2. NoLine \in LinesOf(Nat)
    BY <2>1, BlankLine
  <2>3. QED
    BY <1>1, <2>2 DEF Commits, IsCommit, CachesOf
<1>4. Tree(Nat, heap', root')
  <2> DEFINE r == heap'[1]
  <2>1. /\ r \in NodesOf(Nat) /\ Sound(r) /\ r.num < Size /\ r.parent = 0 /\ (r.leaf \/ r.num # 0)
        /\ \A i \in 0 .. Size : r.kids[i] = 0
        /\ heap' = [x \in {1} |-> r]
    BY BareRoot
  <2>2. root' = 1
    BY DEF Commits, IsCommit
  <2> HIDE DEF r
  <2>3. Tree(Nat, [x \in {1} |-> r], 1)
    BY <2>1, OneNode
  <2>4. QED
    BY <2>1, <2>2, <2>3
<1>5. metadata' \in Nat /\ pointer' \in Nat /\ freed' = {} /\ free' = (free \ c.slots) \cup freed
  BY BoundsAssumption DEF Commits, IsCommit, Slots
<1>6. IsFiniteSet(free') /\ IsFiniteSet(freed')
  <2>1. IsFiniteSet(free \ c.slots)
    BY <1>1, FS_Subset
  <2>2. QED
    BY <1>1, <1>5, <2>1, FS_Union, FS_EmptySet
<1>7. Holds(Nat)'
  BY <1>2, <1>3, <1>4, <1>5, <1>6 DEF Holds
<1>8. QED
  BY <1>2, <1>7

\* The slot in which a node is after the commit.
SlotIn(t, c, x) ==
  LET p == t.loc[x] IN
  IF p \notin DOMAIN heap THEN - p ELSE IF heap[p].vol THEN c.at[p] ELSE heap[p].addr

\* Where that is: a slot of the commit when the node is volatile, its own otherwise.
LEMMA NodeHasSlot ==
  ASSUME NEW t, NEW c, Commits(t, c), NEW x \in t.nodes
  PROVE  LET a == SlotIn(t, c, x)  p == t.loc[x] IN
         /\ a \in Slots /\ a < pointer' /\ a \notin free'
         /\ p \in Volatile => a = c.at[p] /\ a \in c.slots
         /\ p \notin Volatile => a \notin c.slots
         /\ p \in DOMAIN heap /\ p \notin Volatile => a = heap[p].addr /\ a \notin Uses(t)
         /\ p \notin DOMAIN heap => p = - a /\ a \in Uses(t)
<1> DEFINE a == SlotIn(t, c, x)  p == t.loc[x]
<1>1. /\ Represents(t, heap, disk) /\ Space(t, heap, freed) /\ pointer \in Nat
      /\ heap \in AnyHeapsOf(Nat) /\ DOMAIN heap \subseteq Nat \ {0}
      /\ c.slots \subseteq Slots /\ c.at \in [Volatile -> c.slots]
      /\ \A s \in c.slots : s < pointer' /\ (s \in free \/ ~ (s < pointer))
      /\ free' = (free \ c.slots) \cup freed /\ pointer' \in Nat /\ pointer <= pointer'
  BY HeapsAreAny, HeapNodes DEF Commits, Keeping, Holds, Tree, IsCommit
<1>2. \A s \in Slots : s \in Nat /\ s > 0 /\ - s \in Int /\ - (- s) = s /\ ~ (- s > 0)
  BY BoundsAssumption DEF Slots
<1>3. /\ p \in Int /\ IF p > 0 THEN p \in DOMAIN heap ELSE - p \in Slots
  BY <1>1 DEF Represents, GoodTree, TreeShape
<1>4. \A s \in Slots : s < pointer => s < pointer'
  BY <1>1, <1>2
<1>5. CASE p \in Volatile
  <2>1. a = c.at[p] /\ a \in c.slots /\ p \in DOMAIN heap
    BY <1>1, <1>5 DEF SlotIn, Volatile
  <2>2. a \in Slots /\ a < pointer' /\ a \notin freed
    BY <1>1, <2>1 DEF Space
  <2> HIDE DEF a, p
  <2>3. QED
    BY <1>1, <1>5, <2>1, <2>2 DEF a, p
<1>6. CASE p \in DOMAIN heap /\ p \notin Volatile
  <2>1. a = heap[p].addr /\ ~ heap[p].vol
    BY <1>6 DEF SlotIn, Volatile
  <2>2. heap[p].addr # 0
    BY <1>1, <1>6, <2>1 DEF Space
  <2>3. a \in Slots \ Uses(t) /\ a < pointer /\ a \notin free /\ a \notin freed
    BY <1>1, <1>6, <2>1, <2>2 DEF Space
  <2> HIDE DEF a, p
  <2>4. a \notin c.slots /\ a \notin free' /\ a < pointer'
    BY <1>1, <1>4, <2>3
  <2>5. QED
    BY <1>6, <2>1, <2>3, <2>4 DEF a, p
<1>7. CASE p \notin DOMAIN heap
  <2>1. a = - p /\ p \notin Volatile
    BY <1>7 DEF SlotIn, Volatile
  <2> HIDE DEF a
  <2>2. a \in Slots /\ p = - a
    BY <1>3, <1>7, <2>1
  <2>3. a \in Uses(t)
    BY <2>2 DEF Uses
  <2>4. a < pointer /\ a \notin free /\ a \notin freed
    BY <1>1, <2>3 DEF Space
  <2> HIDE DEF p
  <2>5. a \notin c.slots /\ a \notin free' /\ a < pointer'
    BY <1>1, <1>4, <2>2, <2>4
  <2>6. QED
    BY <1>7, <2>1, <2>2, <2>3, <2>5 DEF a, p
<1>8. QED
  BY <1>5, <1>6, <1>7

\* Two nodes are in two slots.
LEMMA SlotsApart ==
  ASSUME NEW t, NEW c, Commits(t, c), NEW x \in t.nodes, NEW y \in t.nodes, x # y
  PROVE  SlotIn(t, c, x) # SlotIn(t, c, y)
<1> DEFINE a == SlotIn(t, c, x)  p == t.loc[x]  b == SlotIn(t, c, y)  q == t.loc[y]
<1>1. p # q
  BY DEF Commits, Keeping, Represents, GoodTree, Apart
<1>2. /\ a \in Slots
      /\ p \in Volatile => a = c.at[p] /\ a \in c.slots
      /\ p \notin Volatile => a \notin c.slots
      /\ p \in DOMAIN heap /\ p \notin Volatile => a = heap[p].addr /\ a \notin Uses(t)
      /\ p \notin DOMAIN heap => p = - a /\ a \in Uses(t)
  BY NodeHasSlot
<1>3. /\ b \in Slots
      /\ q \in Volatile => b = c.at[q] /\ b \in c.slots
      /\ q \notin Volatile => b \notin c.slots
      /\ q \in DOMAIN heap /\ q \notin Volatile => b = heap[q].addr /\ b \notin Uses(t)
      /\ q \notin DOMAIN heap => q = - b /\ b \in Uses(t)
  BY NodeHasSlot
<1> HIDE DEF a, b, p, q
<1> SUFFICES ASSUME a = b
             PROVE  FALSE
  BY DEF a, b
<1>4. CASE p \in Volatile
  <2>1. q \in Volatile /\ c.at[p] = c.at[q]
    BY <1>2, <1>3, <1>4
  <2>2. QED
    BY <1>1, <1>4, <2>1 DEF Commits, IsCommit
<1>5. CASE p \in DOMAIN heap /\ p \notin Volatile
  <2>1. q \in DOMAIN heap /\ q \notin Volatile /\ heap[p].addr = heap[q].addr /\ heap[p].addr \in Slots
    BY <1>2, <1>3, <1>5
  <2>2. heap[p].addr # 0
    BY <2>1, BoundsAssumption DEF Slots
  <2>3. QED
    BY <1>1, <1>5, <2>1, <2>2 DEF Commits, Keeping, Space
<1>6. CASE p \notin DOMAIN heap
  <2>1. p = - a /\ q = - b
    <3>1. p \notin Volatile
      BY <1>6 DEF Volatile
    <3>2. q \notin DOMAIN heap
      BY <1>2, <1>3, <1>6, <3>1
    <3>3. QED
      BY <1>2, <1>3, <1>6, <3>2
  <2>2. QED
    BY <1>1, <2>1
<1>7. QED
  BY <1>4, <1>5, <1>6 DEF Volatile

\* Node x of t, as g after it was moved with the others to the places place.
PlacedAt(t, place, x, g) ==
  /\ g \in SeenNodes /\ g.leaf = t.node[x].leaf /\ g.num = t.node[x].num
  /\ \A i \in 0 .. t.node[x].num - 1 : g.keys[i] = t.node[x].keys[i]
  /\ t.node[x].leaf => \A i \in 0 .. Size - 1 : g.keys[i] \in {0, t.node[x].keys[i]}
  /\ ~ t.node[x].leaf =>
       \A i \in 0 .. t.node[x].num : \A y \in t.nodes :
         t.loc[y] = t.node[x].below[i] => place[y] = g.below[i]

\* The tree whose nodes were moved.
LEMMA TreePlaced ==
  ASSUME NEW t, GoodTree(t), NEW place \in [t.nodes -> Int], \A x, y \in t.nodes : x # y => place[x] # place[y],
         NEW node, \A x \in t.nodes : PlacedAt(t, place, x, node[x])
  PROVE  \E u : /\ GoodTree(u) /\ u.nodes = t.nodes /\ u.root = t.root /\ u.held = t.held
                /\ u.loc = place /\ \A x \in t.nodes : u.node[x] = node[x]
<1> DEFINE u == [nodes |-> t.nodes, root |-> t.root, range |-> t.range, level |-> t.level,
                 held |-> t.held, loc |-> place, node |-> [x \in t.nodes |-> node[x]]]
<1>1. /\ u.nodes = t.nodes /\ u.root = t.root /\ u.range = t.range /\ u.level = t.level
      /\ u.held = t.held /\ u.loc = place /\ u.node = [x \in t.nodes |-> node[x]]
      /\ \A x \in t.nodes : u.node[x] = node[x]
  OBVIOUS
<1> HIDE DEF u
<1>2. \A x \in t.nodes : node[x] \in SeenNodes
  BY DEF PlacedAt
<1>3. IsMoved(t, u)
  BY <1>1, <1>2 DEF IsMoved, PlacedAt
<1>4. GoodTree(u)
  BY <1>3, TreeMoved
<1>5. QED
  BY <1>1, <1>4

\* Where a child goes is what is then written of it in its parent.
LEMMA ChildGoes ==
  ASSUME NEW t, NEW c, Commits(t, c), NEW x \in t.nodes, ~ t.node[x].leaf,
         NEW i \in 0 .. t.node[x].num, NEW y \in t.nodes, t.loc[y] = t.node[x].below[i]
  PROVE  LET p == t.loc[x]  a == SlotIn(t, c, y) IN
         a = IF p \in Volatile THEN Given(p, c.at).ptrs[i]
             ELSE IF p \in DOMAIN heap THEN heap[p].ptrs[i] ELSE disk[- p].ptrs[i]
<1> DEFINE p == t.loc[x]  q == t.loc[y]  a == SlotIn(t, c, y)
<1>1. /\ Represents(t, heap, disk) /\ heap \in AnyHeapsOf(Nat) /\ DOMAIN heap \subseteq Nat \ {0}
      /\ Joined(heap) /\ Risen(heap, 0) /\ disk \in CachesOf(Nat)
  BY HeapsAreAny, HeapNodes DEF Commits, Keeping, Holds, Tree, Links, Linked
<1>2. /\ p \in Int /\ (IF p > 0 THEN p \in DOMAIN heap ELSE - p \in Slots)
      /\ t.node[x] = Seen(heap, disk, p) /\ t.node[x] \in SeenNodes
  BY <1>1 DEF Represents, GoodTree, TreeShape
<1>3. i \in 0 .. Size
  <2>1. t.node[x].num \in 0 .. Size
    BY <1>2, SeenNode
  <2>2. QED
    BY <2>1, Numbers
<1>4. a = IF q \notin DOMAIN heap THEN - q ELSE IF heap[q].vol THEN c.at[q] ELSE heap[q].addr
  BY DEF SlotIn
<1>5. \A k \in Nat : q = - k => q \notin DOMAIN heap /\ - q = k
  BY <1>1
<1> HIDE DEF a
<1>6. CASE p \notin DOMAIN heap
  <2> DEFINE l == disk[- p]
  <2>1. ~ (p > 0) /\ l \in LinesOf(Nat)
    BY <1>1, <1>2, <1>6 DEF CachesOf
  <2>2. t.node[x].below[i] = - l.ptrs[i]
    <3>1. Seen(heap, disk, p) = [leaf |-> l.leaf, num |-> l.num, keys |-> l.keys,
                                 below |-> [j \in 0 .. Size |-> - l.ptrs[j]]]
      BY <2>1 DEF Seen
    <3> HIDE DEF l, p
    <3>2. QED
      BY <1>2, <1>3, <3>1, SMTT(30) DEF p
  <2>3. l.ptrs[i] \in Nat
    BY <1>3, <2>1 DEF LinesOf
  <2> HIDE DEF l
  <2>4. q = - l.ptrs[i]
    BY <2>2
  <2>5. a = l.ptrs[i]
    BY <1>4, <1>5, <2>3, <2>4
  <2>6. p \notin Volatile
    BY <1>6 DEF Volatile
  <2>7. QED
    BY <1>6, <2>5, <2>6 DEF l, a
<1>7. CASE p \in DOMAIN heap
  <2> DEFINE n == heap[p]  kid == n.kids[i]
  <2>1. /\ t.node[x].num = n.num /\ n.num \in 0 .. Size
        /\ \A j \in 0 .. Size : t.node[x].below[j] = IF n.kids[j] # 0 THEN n.kids[j] ELSE - n.ptrs[j]
    BY <1>1, <1>7, NodeInHeap
  <2>2. /\ q = IF kid # 0 THEN kid ELSE - n.ptrs[i]
        /\ i \in 0 .. n.num /\ i <= n.num
    BY <1>3, <2>1
  <2>3. n.ptrs[i] \in Nat /\ kid \in DOMAIN heap \cup {0} /\ p # 0
    <3>1. /\ n \in NodesOf(Nat) /\ p # 0 /\ \A j \in 0 .. Size : n.kids[j] \in DOMAIN heap \cup {0}
      BY <1>1, <1>7, HeapNodes
    <3> HIDE DEF n
    <3>2. n.ptrs[i] \in Nat
      BY <1>3, <3>1, Zenon DEF NodesOf
    <3>3. QED
      BY <1>3, <3>1, <3>2
  <2>4. p \in Volatile => Given(p, c.at).ptrs[i] = IF kid \in Volatile THEN c.at[kid] ELSE n.ptrs[i]
    <3> SUFFICES ASSUME p \in Volatile
                 PROVE  Given(p, c.at).ptrs[i] = IF kid \in Volatile THEN c.at[kid] ELSE n.ptrs[i]
      OBVIOUS
    <3> DEFINE g == Given(p, c.at)
    <3>1. \A j \in 0 .. Size :
            g.ptrs[j] = IF j <= heap[p].num /\ heap[p].kids[j] \in Volatile
                        THEN c.at[heap[p].kids[j]] ELSE heap[p].ptrs[j]
      BY GivenIsSound
    <3> HIDE DEF g
    <3>2. QED
      BY <1>3, <2>2, <3>1, Zenon DEF g
  <2>5. p \in Volatile <=> n.vol
    BY <1>7 DEF Volatile
  <2>6. CASE kid = 0
    <3>1. a = n.ptrs[i]
      BY <1>4, <1>5, <2>2, <2>3, <2>6
    <3>2. kid \notin Volatile
      BY <1>1, <2>6 DEF Volatile
    <3>3. QED
      BY <1>7, <2>4, <3>1, <3>2, SMTT(30) DEF a
  <2>7. CASE kid # 0
    <3>1. kid \in DOMAIN heap /\ q = kid
      BY <2>2, <2>3, <2>7
    <3>2. /\ heap[kid].parent = p /\ (heap[kid].vol \/ heap[kid].addr = n.ptrs[i])
      BY <1>1, <1>7, <2>2, <2>7 DEF Joined
    <3> HIDE DEF kid, n, q, p
    <3>3. heap[kid].vol => heap[p].vol
      BY <1>1, <2>3, <3>1, <3>2 DEF Risen
    <3>4. kid \in Volatile <=> heap[kid].vol
      BY <3>1 DEF Volatile
    <3>5. a = IF heap[kid].vol THEN c.at[kid] ELSE n.ptrs[i]
      BY <1>4, <3>1, <3>2
    <3>6. heap[kid].vol => p \in Volatile
      BY <2>5, <3>3 DEF n
    <3>7. a = IF p \in Volatile THEN Given(p, c.at).ptrs[i] ELSE n.ptrs[i]
      BY <2>4, <3>4, <3>5, <3>6
    <3>8. QED
      BY <1>7, <3>7 DEF a, n, p
  <2>8. QED
    BY <2>6, <2>7
<1>8. QED
  BY <1>6, <1>7

\* The places of the nodes in a process that opens the files after the commit.
FilePlaces(t, c) == [x \in t.nodes |-> - SlotIn(t, c, x)]

\* What is written of a volatile node, or kept of it, is the node in its new place.
LEMMA GivenPlaced ==
  ASSUME NEW t, NEW c, Commits(t, c), NEW x \in t.nodes, t.loc[x] \in Volatile, NEW g \in SeenNodes,
         NEW k, /\ k.leaf = heap[t.loc[x]].leaf /\ k.num = heap[t.loc[x]].num
                /\ \A i \in 0 .. Size - 1 : /\ k.keys[i] \in {0, heap[t.loc[x]].keys[i]}
                                            /\ i < k.num => k.keys[i] = heap[t.loc[x]].keys[i]
                /\ \A i \in 0 .. k.num : k.ptrs[i] = Given(t.loc[x], c.at).ptrs[i],
         /\ g.leaf = k.leaf /\ g.num = k.num /\ g.keys = k.keys
         /\ \A i \in 0 .. Size : g.below[i] = - k.ptrs[i]
  PROVE  PlacedAt(t, FilePlaces(t, c), x, g)
<1> DEFINE p == t.loc[x]
<1>1. Represents(t, heap, disk) /\ heap \in AnyHeapsOf(Nat)
  BY HeapsAreAny DEF Commits, Keeping, Holds, Tree
<1>2. /\ p \in DOMAIN heap /\ t.node[x].leaf = heap[p].leaf /\ t.node[x].num = heap[p].num
      /\ t.node[x].keys = heap[p].keys /\ heap[p].num \in 0 .. Size
  <2>1. p \in DOMAIN heap
    BY DEF Volatile
  <2>2. QED
    BY <1>1, <2>1, NodeInHeap
<1>3. \A i \in 0 .. heap[p].num - 1 : i \in 0 .. Size - 1 /\ i < heap[p].num
  BY <1>2, Numbers
<1>4. \A i \in 0 .. heap[p].num : i \in 0 .. Size
  BY <1>2, Numbers
<1>5. ASSUME ~ t.node[x].leaf, NEW i \in 0 .. t.node[x].num, NEW y \in t.nodes, t.loc[y] = t.node[x].below[i]
      PROVE  - SlotIn(t, c, y) = g.below[i]
  <2>1. SlotIn(t, c, y) = Given(p, c.at).ptrs[i]
    BY <1>5, ChildGoes
  <2>2. i \in 0 .. Size /\ i \in 0 .. k.num
    BY <1>2, <1>4
  <2>3. QED
    BY <2>1, <2>2
<1>6. \A y \in t.nodes : FilePlaces(t, c)[y] = - SlotIn(t, c, y)
  BY DEF FilePlaces
<1>7. QED
  BY <1>2, <1>3, <1>5, <1>6 DEF PlacedAt

\* A node on file as a reader sees it.
LEMMA SeenOnFile ==
  ASSUME NEW h, NEW f, NEW a \in Slots, f[a] \in LinesOf(Nat)
  PROVE  LET g == Seen(h, f, - a) IN
         /\ g \in SeenNodes /\ g.leaf = f[a].leaf /\ g.num = f[a].num /\ g.keys = f[a].keys
         /\ \A i \in 0 .. Size : g.below[i] = - f[a].ptrs[i]
<1> DEFINE q == - a
<1>1. q \in Int /\ ~ (q > 0) /\ - q = a
  BY BoundsAssumption DEF Slots
<1> HIDE DEF q
<1>2. IF q > 0 THEN h[q] \in NodesOf(Nat) ELSE f[- q] \in LinesOf(Nat)
  BY <1>1
<1>3. LET n == IF q > 0 THEN h[q] ELSE f[- q] IN
      /\ Seen(h, f, q) \in SeenNodes
      /\ Seen(h, f, q).leaf = n.leaf /\ Seen(h, f, q).num = n.num /\ Seen(h, f, q).keys = n.keys
      /\ \A i \in 0 .. Size :
           Seen(h, f, q).below[i] = IF q > 0 /\ n.kids[i] # 0 THEN n.kids[i] ELSE - n.ptrs[i]
  BY <1>1, <1>2, SeenIsNode
<1>4. QED
  BY <1>1, <1>3 DEF q

\* Every node is on file after the commit.
LEMMA PlacedOnFile ==
  ASSUME NEW t, NEW c, Commits(t, c), NEW x \in t.nodes
  PROVE  PlacedAt(t, FilePlaces(t, c), x, Seen(NoHeap, disk', - SlotIn(t, c, x)))
<1> DEFINE p == t.loc[x]  a == SlotIn(t, c, x)  f == disk'  g == Seen(NoHeap, f, - a)  l == f[a]
<1>1. /\ Represents(t, heap, disk) /\ heap \in AnyHeapsOf(Nat) /\ Space(t, heap, freed)
      /\ disk \in CachesOf(Nat) /\ f \in CachesOf(Nat)
  BY HeapsAreAny, CommitFits DEF Commits, Keeping, Holds, Tree
<1>2. /\ p \in Int /\ (IF p > 0 THEN p \in DOMAIN heap ELSE - p \in Slots)
      /\ t.node[x] = Seen(heap, disk, p) /\ t.node[x] \in SeenNodes
  BY <1>1 DEF Represents, GoodTree, TreeShape
<1>3. /\ a \in Slots
      /\ p \in Volatile => a = c.at[p] /\ a \in c.slots
      /\ p \notin Volatile => a \notin c.slots
      /\ p \in DOMAIN heap /\ p \notin Volatile => a = heap[p].addr
      /\ p \notin DOMAIN heap => p = - a
  BY NodeHasSlot
<1>4. l \in LinesOf(Nat)
  BY <1>1, <1>3 DEF CachesOf
<1>5. a \notin c.slots => l = disk[a]
  BY <1>3 DEF Commits, IsCommit
<1>6. \A y \in t.nodes : FilePlaces(t, c)[y] = - SlotIn(t, c, y)
  BY DEF FilePlaces
<1> HIDE DEF a, f
<1>7. /\ g \in SeenNodes /\ g.leaf = l.leaf /\ g.num = l.num /\ g.keys = l.keys
      /\ \A i \in 0 .. Size : g.below[i] = - l.ptrs[i]
  BY <1>3, <1>4, SeenOnFile
<1>8. t.node[x].num \in 0 .. Size
  BY <1>2, SeenNode
<1>9. \A i \in 0 .. t.node[x].num : i \in 0 .. Size
  BY <1>8, Numbers
<1> HIDE DEF g, l
<1>10. CASE p \notin Volatile
  <2>1. /\ l.leaf = t.node[x].leaf /\ l.num = t.node[x].num /\ l.keys = t.node[x].keys
        /\ l.ptrs = (IF p \in DOMAIN heap THEN heap[p] ELSE disk[- p]).ptrs
    <3>1. CASE p \notin DOMAIN heap
      <4>1. p = - a /\ l = disk[a] /\ disk[a] \in LinesOf(Nat)
        BY <1>1, <1>3, <1>5, <1>10, <3>1 DEF CachesOf
      <4>2. t.node[x].leaf = disk[a].leaf /\ t.node[x].num = disk[a].num /\ t.node[x].keys = disk[a].keys
        BY <1>2, <1>3, <4>1, SeenOnFile
      <4>3. - p = a
        BY <1>3, <4>1, BoundsAssumption DEF Slots
      <4>4. QED
        BY <3>1, <4>1, <4>2, <4>3
    <3>2. CASE p \in DOMAIN heap
      <4>1. l = Content(heap[p])
        BY <1>1, <1>3, <1>5, <1>10, <3>2 DEF Space, Volatile
      <4>2. t.node[x].leaf = heap[p].leaf /\ t.node[x].num = heap[p].num /\ t.node[x].keys = heap[p].keys
        BY <1>1, <3>2, NodeInHeap
      <4>3. QED
        BY <3>2, <4>1, <4>2 DEF Content
    <3>3. QED
      BY <3>1, <3>2
  <2>2. ASSUME ~ t.node[x].leaf, NEW i \in 0 .. t.node[x].num, NEW y \in t.nodes, t.loc[y] = t.node[x].below[i]
        PROVE  - SlotIn(t, c, y) = g.below[i]
    <3>1. SlotIn(t, c, y) = IF p \in DOMAIN heap THEN heap[p].ptrs[i] ELSE disk[- p].ptrs[i]
      BY <1>10, <2>2, ChildGoes
    <3>2. SlotIn(t, c, y) = l.ptrs[i]
      BY <2>1, <3>1
    <3>3. QED
      BY <1>7, <1>9, <3>2
  <2>3. QED
    BY <1>6, <1>7, <2>1, <2>2 DEF PlacedAt, g, f, a
<1>11. CASE p \in Volatile
  <2> DEFINE n == Given(p, c.at)
  <2>1. /\ n \in NodesOf(Nat) /\ n.num < Size
        /\ n.leaf = heap[p].leaf /\ n.num = heap[p].num /\ n.keys = heap[p].keys
    BY <1>11, GivenIsSound
  <2>2. l = Written(n)
    BY <1>3, <1>11 DEF Commits, IsCommit, l, f, a
  <2> HIDE DEF n
  <2>30. n.keys \in [0 .. Size - 1 -> Nat] /\ n.ptrs \in [0 .. Size -> Nat] /\ n.num \in 0 .. Size
    BY <2>1 DEF NodesOf
  <2>31. DOMAIN n.keys = 0 .. Size - 1 /\ DOMAIN n.ptrs = 0 .. Size
    BY <2>30
  <2>32. n.num \in Nat
    BY <2>30, Numbers
  <2>3. /\ n.keys \in [0 .. Size - 1 -> Nat] /\ n.ptrs \in [0 .. Size -> Nat]
        /\ DOMAIN n.keys = 0 .. Size - 1 /\ DOMAIN n.ptrs = 0 .. Size /\ n.num \in Nat /\ n.num \in 0 .. Size
    BY <2>30, <2>31, <2>32
  <2>4. /\ l.leaf = n.leaf /\ l.num = n.num
        /\ \A i \in 0 .. Size - 1 : l.keys[i] = IF i < n.num + Overcopied THEN n.keys[i] ELSE 0
        /\ \A i \in 0 .. Size : l.ptrs[i] = IF i <= n.num THEN n.ptrs[i] ELSE 0
    BY <2>2, <2>3 DEF Written
  <2>5. \A i \in 0 .. Size - 1 : /\ l.keys[i] \in {0, n.keys[i]}
                                 /\ i < l.num => l.keys[i] = n.keys[i]
    <3>1. \A i \in 0 .. Size - 1 : i < n.num => i < n.num + Overcopied
      BY <2>3, Numbers
    <3>2. QED
      BY <2>4, <3>1
  <2>6. \A i \in 0 .. l.num : l.ptrs[i] = n.ptrs[i]
    <3>1. \A i \in 0 .. n.num : i \in 0 .. Size /\ i <= n.num
      BY <2>3, Numbers, SMTT(30)
    <3>2. QED
      BY <2>4, <3>1
  <2>7. /\ l.leaf = heap[p].leaf /\ l.num = heap[p].num
        /\ \A i \in 0 .. Size - 1 : /\ l.keys[i] \in {0, heap[p].keys[i]}
                                    /\ i < l.num => l.keys[i] = heap[p].keys[i]
        /\ \A i \in 0 .. l.num : l.ptrs[i] = Given(p, c.at).ptrs[i]
    BY <2>1, <2>4, <2>5, <2>6, SMTT(30) DEF n
  <2>8. PlacedAt(t, FilePlaces(t, c), x, g)
    BY <1>7, <1>11, <2>7, GivenPlaced
  <2>9. QED
    BY <2>8 DEF g, f, a
<1>12. QED
  BY <1>10, <1>11

\* The copy of the root that the process keeps.
LEMMA RootPlaced ==
  ASSUME NEW t, NEW c, Commits(t, c)
  PROVE  PlacedAt(t, FilePlaces(t, c), t.root, SeenOf(heap'[1]))
<1> DEFINE k == heap'[1]  g == SeenOf(k)  p == t.loc[t.root]
<1>1. p = root /\ root \in Volatile /\ t.root \in t.nodes
  BY DEF Commits, IsCommit, Keeping, Represents, GoodTree, TreeShape
<1>2. /\ k \in NodesOf(Nat) /\ \A i \in 0 .. Size : k.kids[i] = 0
      /\ k.leaf = heap[root].leaf /\ k.num = heap[root].num /\ k.keys = heap[root].keys
      /\ k.ptrs = Given(root, c.at).ptrs
  BY BareRoot
<1> HIDE DEF k
<1>3. /\ g \in SeenNodes /\ g.leaf = k.leaf /\ g.num = k.num /\ g.keys = k.keys
      /\ \A i \in 0 .. Size : g.below[i] = - k.ptrs[i]
  BY <1>2, SeenOfNode
<1> HIDE DEF g
<1>4. /\ k.leaf = heap[p].leaf /\ k.num = heap[p].num
      /\ \A i \in 0 .. Size - 1 : /\ k.keys[i] \in {0, heap[p].keys[i]}
                                  /\ i < k.num => k.keys[i] = heap[p].keys[i]
      /\ \A i \in 0 .. k.num : k.ptrs[i] = Given(p, c.at).ptrs[i]
  BY <1>1, <1>2
<1>5. PlacedAt(t, FilePlaces(t, c), t.root, g)
  BY <1>1, <1>3, <1>4, GivenPlaced
<1>6. QED
  BY <1>5 DEF g, k

\* After a commit the file holds the tree the process worked on.
LEMMA StoredAfterCommit ==
  ASSUME NEW t, NEW c, Commits(t, c), pointer # 0
  PROVE  StoredTree(t.held)'
<1> DEFINE f == disk'  place == FilePlaces(t, c)  node == [x \in t.nodes |-> Seen(NoHeap, f, - SlotIn(t, c, x))]
<1>1. /\ GoodTree(t) /\ Represents(t, heap, disk) /\ heap \in AnyHeapsOf(Nat) /\ t.loc[t.root] = root
      /\ root \in Volatile /\ t.root \in t.nodes /\ Stands(heap, root)
      /\ pointer \in Nat /\ pointer' \in Nat /\ pointer <= pointer' /\ metadata' = c.at[root]
  BY HeapsAreAny DEF Commits, IsCommit, Keeping, Represents, GoodTree, TreeShape, Holds, Tree
<1>2. \A x \in t.nodes : SlotIn(t, c, x) \in Slots /\ SlotIn(t, c, x) < pointer'
  BY NodeHasSlot
<1>3. SlotIn(t, c, t.root) = metadata'
  BY <1>1, NodeHasSlot
<1>4. \A x, y \in t.nodes : x # y => SlotIn(t, c, x) # SlotIn(t, c, y)
  BY SlotsApart
<1>5. \A a \in Slots : a \in Int /\ - a \in Int /\ ~ (- a > 0) /\ - (- a) = a
  BY BoundsAssumption DEF Slots
<1>6. /\ place \in [t.nodes -> Int] /\ \A x \in t.nodes : place[x] = - SlotIn(t, c, x)
  BY <1>2, <1>5 DEF FilePlaces
<1>7. \A x, y \in t.nodes : x # y => place[x] # place[y]
  <2> SUFFICES ASSUME NEW x \in t.nodes, NEW y \in t.nodes, x # y PROVE place[x] # place[y]
    OBVIOUS
  <2> DEFINE a == SlotIn(t, c, x)  b == SlotIn(t, c, y)
  <2>1. a \in Int /\ b \in Int /\ a # b /\ place[x] = - a /\ place[y] = - b
    BY <1>2, <1>4, <1>5, <1>6
  <2> HIDE DEF a, b, place
  <2>2. QED
    BY <2>1
<1>8. \A x \in t.nodes : node[x] = Seen(NoHeap, f, - SlotIn(t, c, x))
  OBVIOUS
<1>9. \A x \in t.nodes : PlacedAt(t, place, x, node[x])
  BY <1>8, PlacedOnFile
<1> HIDE DEF place, node
<1>10. PICK u : /\ GoodTree(u) /\ u.nodes = t.nodes /\ u.root = t.root /\ u.held = t.held
                /\ u.loc = place /\ \A x \in t.nodes : u.node[x] = node[x]
  BY <1>1, <1>6, <1>7, <1>9, TreePlaced
<1> HIDE DEF f
<1>11. Represents(u, NoHeap, f)
  <2>1. \A x \in u.nodes : /\ u.loc[x] = - SlotIn(t, c, x) /\ ~ (u.loc[x] > 0) /\ - u.loc[x] \in Slots
                           /\ u.node[x] = Seen(NoHeap, f, u.loc[x])
    BY <1>2, <1>5, <1>6, <1>8, <1>10
  <2>2. DOMAIN NoHeap = {}
    BY DEF NoHeap
  <2>3. QED
    BY <1>10, <2>1, <2>2 DEF Represents
<1>12. u.loc[u.root] = - metadata' /\ metadata' \in Slots /\ metadata' # 0 /\ pointer' # 0
  <2>1. \A a \in Slots : a # 0
    BY BoundsAssumption DEF Slots
  <2>2. pointer' # 0
    BY <1>1
  <2>3. QED
    BY <1>1, <1>2, <1>3, <1>6, <1>10, <2>1, <2>2
<1>13. u.node[u.root].leaf \/ u.node[u.root].num # 0
  <2>1. t.node[t.root].leaf = heap[root].leaf /\ t.node[t.root].num = heap[root].num
    BY <1>1, NodeInHeap DEF Volatile
  <2>2. u.node[u.root].leaf = t.node[t.root].leaf /\ u.node[u.root].num = t.node[t.root].num
    BY <1>1, <1>9, <1>10 DEF PlacedAt
  <2>3. QED
    BY <1>1, <2>1, <2>2 DEF Stands
<1>14. \A a \in Uses(u) : a < pointer'
  <2> SUFFICES ASSUME NEW a \in Slots, NEW x \in u.nodes, u.loc[x] = - a PROVE a < pointer'
    BY DEF Uses
  <2> DEFINE b == SlotIn(t, c, x)
  <2>1. b \in Slots /\ b < pointer' /\ - b = - a
    BY <1>2, <1>6, <1>10
  <2>2. b = a
    BY <1>5, <2>1
  <2>3. QED
    BY <2>1, <2>2
<1>15. QED
  BY <1>10, <1>11, <1>12, <1>13, <1>14 DEF StoredTree, f

\* After a commit what the cache holds is what is on file.
LEMMA CacheAfterCommit ==
  ASSUME NEW t, NEW c, Commits(t, c)
  PROVE  CacheTrue(cache, freed)'
<1>1. /\ CacheTrue(cache, freed) /\ pointer \in Nat /\ pointer' \in Nat /\ pointer <= pointer'
      /\ free' = (free \ c.slots) \cup freed
      /\ cache' = [s \in Slots |-> IF s \in freed THEN NoLine ELSE cache[s]]
  BY DEF Commits, IsCommit, Holds
<1>2. /\ \A s \in c.slots : s \in free \/ ~ (s < pointer)
      /\ \A s \in Slots \ c.slots : disk'[s] = disk[s]
  BY DEF Commits, IsCommit
<1> SUFFICES ASSUME NEW a \in Slots
             PROVE  /\ cache'[a] \in {NoLine, disk'[a]}
                    /\ a \in free' \/ ~ (a < pointer') => cache'[a] = NoLine
  BY DEF CacheTrue
<1>3. cache'[a] = IF a \in freed THEN NoLine ELSE cache[a]
  BY <1>1
<1>4. /\ a \notin freed => cache[a] \in {NoLine, disk[a]}
      /\ a \in free \/ ~ (a < pointer) => cache[a] = NoLine
  BY <1>1 DEF CacheTrue
<1>5. a \in Nat
  BY BoundsAssumption DEF Slots
<1>6. ~ (a < pointer') => ~ (a < pointer)
  BY <1>1, <1>5
<1>7. QED
  BY <1>1, <1>2, <1>3, <1>4, <1>6

\* The places after a commit, as the process goes on: its root is node 1.
KeptPlaces(t, c) == [x \in t.nodes |-> IF x = t.root THEN 1 ELSE FilePlaces(t, c)[x]]

\* The nodes after a commit, as the process goes on.
KeptNode(t, c, x) == IF x = t.root THEN SeenOf(heap'[1]) ELSE Seen(NoHeap, disk', - SlotIn(t, c, x))

\* The slot of each node after a commit, and the places made of them.
LEMMA KeptPlacesShape ==
  ASSUME NEW t, NEW c, Commits(t, c)
  PROVE  /\ GoodTree(t) /\ t.root \in t.nodes /\ t.loc[t.root] = root /\ root \in Volatile
         /\ \A x \in t.nodes : SlotIn(t, c, x) \in Slots /\ SlotIn(t, c, x) < pointer' /\ SlotIn(t, c, x) \notin free'
         /\ SlotIn(t, c, t.root) = c.at[root]
         /\ \A x, y \in t.nodes : x # y => SlotIn(t, c, x) # SlotIn(t, c, y)
         /\ KeptPlaces(t, c) \in [t.nodes -> Int] /\ KeptPlaces(t, c)[t.root] = 1
         /\ \A x \in t.nodes \ {t.root} : KeptPlaces(t, c)[x] = - SlotIn(t, c, x)
         /\ \A a \in Slots : - a \in Int /\ ~ (- a > 0) /\ - (- a) = a /\ a # 0 /\ a \in Int
         /\ \A x, y \in t.nodes : x # y => KeptPlaces(t, c)[x] # KeptPlaces(t, c)[y]
<1>1. /\ GoodTree(t) /\ t.root \in t.nodes /\ t.loc[t.root] = root /\ root \in Volatile
  BY DEF Commits, IsCommit, Keeping, Represents, GoodTree, TreeShape
<1>2. \A x \in t.nodes : SlotIn(t, c, x) \in Slots /\ SlotIn(t, c, x) < pointer' /\ SlotIn(t, c, x) \notin free'
  BY NodeHasSlot
<1>3. SlotIn(t, c, t.root) = c.at[root]
  BY <1>1, NodeHasSlot
<1>4. \A x, y \in t.nodes : x # y => SlotIn(t, c, x) # SlotIn(t, c, y)
  BY SlotsApart
<1>5. \A a \in Slots : - a \in Int /\ ~ (- a > 0) /\ - (- a) = a /\ a # 0 /\ a \in Int
  BY BoundsAssumption DEF Slots
<1>6. \A x \in t.nodes : FilePlaces(t, c)[x] = - SlotIn(t, c, x)
  BY DEF FilePlaces
<1>7. 1 \in Int /\ 1 > 0
  OBVIOUS
<1>8. /\ KeptPlaces(t, c) \in [t.nodes -> Int] /\ KeptPlaces(t, c)[t.root] = 1
      /\ \A x \in t.nodes \ {t.root} : KeptPlaces(t, c)[x] = - SlotIn(t, c, x)
  BY <1>1, <1>2, <1>5, <1>6, <1>7 DEF KeptPlaces
<1>9. \A x, y \in t.nodes : x # y => KeptPlaces(t, c)[x] # KeptPlaces(t, c)[y]
  <2> SUFFICES ASSUME NEW x \in t.nodes, NEW y \in t.nodes, x # y,
                      KeptPlaces(t, c)[x] = KeptPlaces(t, c)[y]
               PROVE FALSE
    OBVIOUS
  <2> DEFINE a == SlotIn(t, c, x)  b == SlotIn(t, c, y)
  <2>1. /\ a \in Slots /\ b \in Slots /\ a # b
    BY <1>2, <1>4
  <2>2. /\ KeptPlaces(t, c)[x] = IF x = t.root THEN 1 ELSE - a
        /\ KeptPlaces(t, c)[y] = IF y = t.root THEN 1 ELSE - b
    BY <1>8
  <2> HIDE DEF a, b
  <2>3. - a = - b => a = b
    BY <1>5, <2>1
  <2>4. 1 # - a /\ 1 # - b
    BY <1>5, <1>7, <2>1
  <2>5. QED
    BY <2>1, <2>2, <2>3, <2>4
<1>10. QED
  BY <1>1, <1>2, <1>3, <1>4, <1>5, <1>8, <1>9

\* The nodes after a commit, with their places.
LEMMA KeptPlaced ==
  ASSUME NEW t, NEW c, Commits(t, c), NEW x \in t.nodes
  PROVE  PlacedAt(t, KeptPlaces(t, c), x, KeptNode(t, c, x))
<1>1. PlacedAt(t, FilePlaces(t, c), x, KeptNode(t, c, x))
  BY RootPlaced, PlacedOnFile DEF KeptNode
<1>2. GoodTree(t)
  BY KeptPlacesShape
<1>3. ASSUME ~ t.node[x].leaf, NEW i \in 0 .. t.node[x].num, NEW y \in t.nodes, t.loc[y] = t.node[x].below[i]
      PROVE  KeptPlaces(t, c)[y] = FilePlaces(t, c)[y]
  <2>1. IsChild(t, x, i, y)
    BY <1>2, <1>3, PlaceIsChild
  <2>2. y # t.root
    BY <1>2, <2>1, OneParent
  <2>3. QED
    BY <2>2 DEF KeptPlaces
<1>4. QED
  BY <1>1, <1>3 DEF PlacedAt

\* The process goes on with the same tree after a commit.
LEMMA WorkingAfterCommit ==
  ASSUME NEW t, NEW c, Commits(t, c)
  PROVE  Working(t.held)'
<1> DEFINE place == KeptPlaces(t, c)  node == [x \in t.nodes |-> KeptNode(t, c, x)]
<1>1. /\ GoodTree(t) /\ t.root \in t.nodes /\ root \in Volatile
      /\ \A x \in t.nodes : SlotIn(t, c, x) \in Slots /\ SlotIn(t, c, x) < pointer' /\ SlotIn(t, c, x) \notin free'
      /\ SlotIn(t, c, t.root) = c.at[root]
      /\ \A x, y \in t.nodes : x # y => SlotIn(t, c, x) # SlotIn(t, c, y)
      /\ place \in [t.nodes -> Int] /\ place[t.root] = 1
      /\ \A x \in t.nodes \ {t.root} : place[x] = - SlotIn(t, c, x)
      /\ \A a \in Slots : - a \in Int /\ ~ (- a > 0) /\ - (- a) = a /\ a # 0 /\ a \in Int
      /\ \A x, y \in t.nodes : x # y => place[x] # place[y]
  BY KeptPlacesShape
<1>2. \A x \in t.nodes : node[x] = KeptNode(t, c, x) /\ PlacedAt(t, place, x, node[x])
  BY KeptPlaced
<1> HIDE DEF place, node
<1>3. PICK u : /\ GoodTree(u) /\ u.nodes = t.nodes /\ u.root = t.root /\ u.held = t.held
               /\ u.loc = place /\ \A x \in t.nodes : u.node[x] = node[x]
  BY <1>1, <1>2, TreePlaced
<1>4. /\ DOMAIN heap' = {1} /\ heap'[1].vol /\ heap'[1].line = 0 /\ heap'[1].addr = c.at[root]
      /\ root' = 1
  BY BareRoot DEF Commits, IsCommit
<1>5. Represents(u, heap', disk')
  <2>1. ASSUME NEW x \in u.nodes
        PROVE  /\ IF u.loc[x] > 0 THEN u.loc[x] \in DOMAIN heap' ELSE - u.loc[x] \in Slots
               /\ u.node[x] = Seen(heap', disk', u.loc[x])
    <3>1. CASE x = t.root
      <4>1. u.loc[x] = 1 /\ u.node[x] = SeenOf(heap'[1]) /\ 1 > 0
        BY <1>1, <1>2, <1>3, <3>1 DEF KeptNode
      <4>2. QED
        BY <1>4, <4>1, SeenAtPlace
    <3>2. CASE x # t.root
      <4> DEFINE l == - SlotIn(t, c, x)
      <4>1. u.loc[x] = l /\ u.node[x] = Seen(NoHeap, disk', l) /\ ~ (l > 0) /\ - l \in Slots
        BY <1>1, <1>2, <1>3, <3>2 DEF KeptNode
      <4> HIDE DEF l
      <4>2. Seen(NoHeap, disk', l) = Seen(heap', disk', l)
        BY <4>1 DEF Seen
      <4>3. QED
        BY <4>1, <4>2
    <3>3. QED
      BY <3>1, <3>2
  <2>2. \A id \in DOMAIN heap' : \E x \in u.nodes : u.loc[x] = id
    BY <1>1, <1>3, <1>4
  <2>3. QED
    BY <1>3, <2>1, <2>2 DEF Represents
<1>6. \A a \in Uses(u) : \E x \in t.nodes \ {t.root} : a = SlotIn(t, c, x)
  <2> SUFFICES ASSUME NEW a \in Slots, NEW x \in u.nodes, u.loc[x] = - a
               PROVE \E y \in t.nodes \ {t.root} : a = SlotIn(t, c, y)
    BY DEF Uses
  <2>1. ~ (- a > 0) /\ 1 > 0
    BY <1>1
  <2>2. x \in t.nodes /\ x # t.root
    BY <1>1, <1>3, <2>1
  <2>3. - SlotIn(t, c, x) = - a
    BY <1>1, <1>3, <2>2
  <2>4. SlotIn(t, c, x) = a
    <3> DEFINE b == SlotIn(t, c, x)
    <3>1. b \in Slots /\ - b = - a
      BY <1>1, <2>2, <2>3
    <3> HIDE DEF b
    <3>2. b = a
      BY <1>1, <3>1
    <3>3. QED
      BY <3>2 DEF b
  <2>5. QED
    BY <2>2, <2>4
<1>7. Space(u, heap, freed)'
  <2>1. /\ Space(t, heap, freed) /\ free' = (free \ c.slots) \cup freed /\ freed' = {}
        /\ pointer \in Nat /\ pointer' \in Nat /\ pointer <= pointer'
    BY DEF Commits, IsCommit, Keeping, Holds
  <2>2. /\ free \subseteq Slots /\ freed \subseteq Slots /\ \A a \in free \cup freed : a < pointer
    BY <2>1 DEF Space
  <2>3. free' \subseteq Slots
    BY <2>1, <2>2
  <2>4. \A a \in free' : a < pointer'
    <3> SUFFICES ASSUME NEW a \in free' PROVE a < pointer'
      OBVIOUS
    <3>1. a \in Int /\ a < pointer
      BY <1>1, <2>1, <2>2
    <3>2. QED
      BY <2>1, <3>1
  <2>5. \A a \in Uses(u) : a < pointer' /\ a \notin free'
    BY <1>1, <1>6
  <2>6. /\ c.at[root] \in Slots \ Uses(u) /\ c.at[root] < pointer' /\ c.at[root] \notin free'
    BY <1>1, <1>6
  <2>7. \A n \in DOMAIN heap' :
          /\ heap'[n].addr # 0 => /\ heap'[n].addr \in Slots \ Uses(u) /\ heap'[n].addr < pointer'
                                  /\ heap'[n].addr \notin free' /\ heap'[n].addr \notin freed'
                                  /\ \A m \in DOMAIN heap' : heap'[m].addr = heap'[n].addr => m = n
          /\ heap'[n].vol /\ heap'[n].line = 0
    BY <1>4, <2>1, <2>6
  <2>8. QED
    BY <2>1, <2>3, <2>4, <2>5, <2>7 DEF Space
<1>8. Holds(Nat)' /\ CacheTrue(cache, freed)'
  BY CommitFits, CacheAfterCommit
<1>9. QED
  BY <1>1, <1>3, <1>4, <1>5, <1>7, <1>8 DEF Working, Keeping

\* Commit leaves the working tree as it was, and makes it the one on file.
LEMMA CommitWorks ==
  ASSUME NEW K, NEW J, Working(K), StoredTree(J), Commit
  PROVE  Working(K)' /\ StoredTree(K)'
<1>1. PICK c : IsCommit(c)
  BY CommitGives
<1>2. PICK t : Keeping(t, heap, freed) /\ t.loc[t.root] = root /\ t.held = K
  BY DEF Working
<1>3. Commits(t, c) /\ pointer # 0
  BY <1>1, <1>2 DEF Commits, Working, StoredTree
<1>4. QED
  BY <1>2, <1>3, WorkingAfterCommit, StoredAfterCommit

-----------------------------------------------------------------------------
\* The invariant of the trees

\* The process works on a good tree and the file holds one.
TreesGood == \E K, J : Working(K) /\ StoredTree(J)

\* Nothing happens to a tree when no variable changes.
LEMMA NothingWorks ==
  ASSUME NEW K, NEW J, Working(K), StoredTree(J), UNCHANGED vars
  PROVE  Working(K)' /\ StoredTree(J)'
<1>1. /\ heap' = heap /\ root' = root /\ cache' = cache /\ disk' = disk /\ metadata' = metadata
      /\ freed' = freed /\ free' = free /\ pointer' = pointer
  BY DEF vars
<1>2. Holds(Nat)'
  BY <1>1 DEF Working, Holds
<1>3. CacheTrue(cache, freed)'
  BY <1>1 DEF Working, CacheTrue
<1>4. PICK t : Keeping(t, heap, freed) /\ t.loc[t.root] = root /\ t.held = K
  BY DEF Working
<1>5. Space(t, heap, freed)'
  BY <1>1, <1>4 DEF Keeping, Space
<1>6. Keeping(t, heap, freed)'
  BY <1>1, <1>4, <1>5 DEF Keeping
<1>7. Working(K)'
  BY <1>1, <1>2, <1>3, <1>4, <1>6 DEF Working
<1>8. QED
  BY <1>1, <1>7, StoredStays

\* What a step does to the keys of the two trees.
TreeStep(K, J, L, M) ==
  \/ (\E key \in Keys : L = K \cup {key}) /\ M = J
  \/ L = K /\ M = J
  \/ L = K /\ M = K
  \/ L = J /\ M = J

\* Every step leaves good trees behind.
LEMMA StepWorks ==
  ASSUME Deletes = FALSE, NEW K, NEW J, Working(K), StoredTree(J), [Next]_vars
  PROVE  \E L, M : Working(L)' /\ StoredTree(M)' /\ TreeStep(K, J, L, M)
<1>1. CASE Reopen
  BY <1>1, ReopenWorks DEF TreeStep
<1>2. ASSUME NEW key \in Keys, Get(key)
      PROVE  \E L, M : Working(L)' /\ StoredTree(M)' /\ TreeStep(K, J, L, M)
  BY <1>2, GetWorks DEF TreeStep
<1>3. ASSUME NEW key \in Keys, Put(key)
      PROVE  \E L, M : Working(L)' /\ StoredTree(M)' /\ TreeStep(K, J, L, M)
  BY <1>3, PutWorks DEF TreeStep
<1>4. ASSUME NEW key \in Keys, Delete(key)
      PROVE  FALSE
  BY <1>4 DEF Delete
<1>5. CASE Commit
  BY <1>5, CommitWorks DEF TreeStep
<1>6. CASE UNCHANGED vars
  BY <1>6, NothingWorks DEF TreeStep
<1>7. QED
  BY <1>1, <1>2, <1>3, <1>4, <1>5, <1>6 DEF Next

\* Without Delete, in every state the process works on a good tree of nodes in
\* memory and on file together, and the file holds a good tree by itself.
LEMMA TreesStayGood == ASSUME Deletes = FALSE PROVE Spec => []TreesGood
<1>1. Init => TreesGood
  BY InitWorks DEF TreesGood
<1>2. TreesGood /\ [Next]_vars => TreesGood'
  BY StepWorks, Zenon DEF TreesGood
<1>3. QED
  BY <1>1, <1>2, PTL DEF Spec

-----------------------------------------------------------------------------
\* What readers find in a tree

\* A path passes each node of the tree once, and each has a place of its own.
LEMMA NodesFew ==
  ASSUME NEW h \in AnyHeapsOf(Nat), NEW f, NEW t, Represents(t, h, f)
  PROVE  /\ Cardinality(t.nodes) \in Nat /\ Cardinality(DOMAIN h) \in Nat
         /\ Cardinality(t.nodes) <= Cardinality(DOMAIN h) + MaxSlot
<1> DEFINE A == {x \in t.nodes : t.loc[x] > 0}
           B == t.nodes \ A
           D == DOMAIN h
<1>1. /\ IsFiniteSet(t.nodes) /\ IsFiniteSet(D) /\ IsFiniteSet(Slots) /\ Cardinality(Slots) = MaxSlot
  <2>1. IsFiniteSet(t.nodes) /\ IsFiniteSet(D)
    BY HeapNodes DEF Represents, GoodTree, TreeShape
  <2>2. IsFiniteSet(1 .. MaxSlot) /\ Cardinality(1 .. MaxSlot) = MaxSlot
    BY FS_Interval, BoundsAssumption
  <2>3. QED
    BY <2>1, <2>2 DEF Slots
<1>2. /\ \A x, y \in t.nodes : x # y => t.loc[x] # t.loc[y]
      /\ \A x \in A : t.loc[x] \in D /\ t.loc[x] \in Int
      /\ \A x \in B : - t.loc[x] \in Slots /\ t.loc[x] \in Int
  BY DEF Represents, GoodTree, TreeShape, Apart
<1>3. A \cup B = t.nodes /\ A \cap B = {} /\ A \subseteq t.nodes /\ B \subseteq t.nodes
  OBVIOUS
<1> HIDE DEF A, B, D
<1>4. IsFiniteSet(A) /\ IsFiniteSet(B)
  BY <1>1, <1>3, FS_Subset
<1>5. Cardinality(A) <= Cardinality(D)
  <2> DEFINE e == [x \in A |-> t.loc[x]]
  <2>1. e \in Injection(A, D)
    BY <1>2, <1>3 DEF Injection, IsInjective
  <2>2. QED
    BY <1>1, <2>1, FS_Injection
<1>6. Cardinality(B) <= MaxSlot
  <2> DEFINE e == [x \in B |-> - t.loc[x]]
  <2>1. e \in [B -> Slots]
    BY <1>2
  <2>2. ASSUME NEW x \in B, NEW y \in B, e[x] = e[y]
        PROVE  x = y
    <3> DEFINE p == t.loc[x]  q == t.loc[y]
    <3>1. - p = - q /\ p \in Int /\ q \in Int
      BY <1>2, <2>2
    <3>2. p # q => FALSE
      <4> HIDE DEF p, q
      <4>1. QED
        BY <3>1
    <3>3. QED
      BY <1>2, <1>3, <3>2
  <2>3. e \in Injection(B, Slots)
    BY <2>1, <2>2 DEF Injection, IsInjective
  <2>4. QED
    BY <1>1, <2>3, FS_Injection
<1>7. Cardinality(t.nodes) = Cardinality(A) + Cardinality(B)
  <2>1. Cardinality(A \cup B) = Cardinality(A) + Cardinality(B) - Cardinality(A \cap B)
    BY <1>4, FS_Union
  <2>2. Cardinality(A \cap B) = 0
    BY <1>3, FS_EmptySet
  <2>3. Cardinality(A) \in Nat /\ Cardinality(B) \in Nat
    BY <1>4, FS_CardinalityType
  <2>4. A \cup B = t.nodes
    BY <1>3
  <2>5. Cardinality(A \cup B) = Cardinality(A) + Cardinality(B)
    BY <2>1, <2>2, <2>3
  <2>6. QED
    BY <2>4, <2>5
<1>8. /\ Cardinality(A) \in Nat /\ Cardinality(B) \in Nat /\ Cardinality(t.nodes) \in Nat
      /\ Cardinality(D) \in Nat
  BY <1>1, <1>4, FS_CardinalityType
<1>9. QED
  BY <1>5, <1>6, <1>7, <1>8, BoundsAssumption DEF D

\* A node made of a line looks like the line.
LEMMA SeenOfLine ==
  ASSUME NEW h, NEW f, NEW a \in Slots, f[a] \in LinesOf(Nat), NEW parent, NEW b, NEW line
  PROVE  SeenOf(Node_From(f[a], parent, b, line)) = Seen(h, f, - a)
<1> DEFINE q == - a
<1>1. ~ (q > 0) /\ - q = a
  BY BoundsAssumption DEF Slots
<1> HIDE DEF q
<1> DEFINE n == Node_From(f[a], parent, b, line)
<1>2. /\ n.keys = f[a].keys /\ n.ptrs = f[a].ptrs /\ n.leaf = f[a].leaf /\ n.num = f[a].num
      /\ \A i \in 0 .. Size : n.kids[i] = 0
  BY DEF Node_From
<1> HIDE DEF n
<1>3. /\ Seen(h, f, q).leaf = f[a].leaf /\ Seen(h, f, q).num = f[a].num /\ Seen(h, f, q).keys = f[a].keys
      /\ Seen(h, f, q).below = [i \in 0 .. Size |-> - f[a].ptrs[i]]
      /\ Seen(h, f, q) = [leaf |-> f[a].leaf, num |-> f[a].num, keys |-> f[a].keys,
                          below |-> [i \in 0 .. Size |-> - f[a].ptrs[i]]]
  BY <1>1 DEF Seen
<1>4. [i \in 0 .. Size |-> IF n.kids[i] # 0 THEN n.kids[i] ELSE - n.ptrs[i]]
        = [i \in 0 .. Size |-> - f[a].ptrs[i]]
  BY <1>2
<1>5. SeenOf(n) = [leaf |-> f[a].leaf, num |-> f[a].num, keys |-> f[a].keys,
                   below |-> [i \in 0 .. Size |-> - f[a].ptrs[i]]]
  BY <1>2, <1>4 DEF SeenOf
<1>6. QED
  BY <1>3, <1>5 DEF n, q

\* What a reader of the working tree stands on.
Reads(t) ==
  /\ Holds(Nat) /\ CacheTrue(cache, freed) /\ Keeping(t, heap, freed) /\ t.loc[t.root] = root

\* n is the node x of the tree.
IsAt(t, x, n) == n \in StopsOf(Nat) /\ SeenOf(n) = t.node[x] /\ (x = t.root => n = heap[root])

\* The child that a reader finds is the one of the tree.
LEMMA KidShown ==
  ASSUME NEW t, Reads(t), NEW x \in t.nodes, NEW n, IsAt(t, x, n), ~ n.leaf, NEW i \in 0 .. n.num
  PROVE  \E y \in t.nodes : IsChild(t, x, i, y) /\ y # t.root /\ IsAt(t, y, Kid(n, i))
<1>1. /\ GoodTree(t) /\ Represents(t, heap, disk) /\ heap \in AnyHeapsOf(Nat) /\ disk \in CachesOf(Nat)
      /\ Keeping(t, heap, freed) /\ CacheTrue(cache, freed) /\ Holds(Nat)
  BY HeapsAreAny DEF Reads, Keeping, Represents, Holds, Tree
<1>2. n \in NodesOf(Nat) /\ n \in StopsOf(Nat) /\ n.kids[i] \in DOMAIN heap \cup {0} /\ i \in 0 .. Size /\ n.ptrs[i] \in Nat
  <2>1. n \in NodesOf(Nat) /\ n \in StopsOf(Nat) /\ \A j \in 0 .. Size : n.kids[j] \in DOMAIN heap \cup {0}
    BY DEF IsAt, StopsOf
  <2>2. n.num \in 0 .. Size /\ n.ptrs \in [0 .. Size -> Nat]
    BY <2>1 DEF NodesOf
  <2>3. i \in 0 .. Size
    BY <2>2, Numbers
  <2>4. QED
    BY <2>1, <2>2, <2>3
<1>3. /\ SeenOf(n) = t.node[x] /\ t.node[x].leaf = n.leaf /\ t.node[x].num = n.num
      /\ t.node[x].below[i] = IF n.kids[i] # 0 THEN n.kids[i] ELSE - n.ptrs[i]
  BY <1>2, SeenOfNode DEF IsAt
<1>4. PICK y \in t.nodes : IsChild(t, x, i, y)
  BY <1>1, <1>3 DEF GoodTree, Branches
<1>5. y # t.root
  BY <1>1, <1>3, <1>4, OneParent
<1>6. t.loc[y] = IF n.kids[i] # 0 THEN n.kids[i] ELSE - n.ptrs[i]
  BY <1>3, <1>4 DEF IsChild
<1>7. Kid(n, i) \in StopsOf(Nat)
  BY <1>1, <1>2, KidStops
<1>8. t.node[y] = Seen(heap, disk, t.loc[y])
  BY <1>1 DEF Represents
<1>9. CASE n.kids[i] # 0
  <2>1. t.loc[y] = n.kids[i] /\ n.kids[i] > 0
    BY <1>1, <1>2, <1>6, <1>9, HeapNodes
  <2>2. t.node[y] = SeenOf(heap[n.kids[i]])
    BY <1>8, <2>1, SeenAtPlace
  <2>3. Kid(n, i) = heap[n.kids[i]]
    BY <1>9 DEF Kid
  <2>4. QED
    BY <1>4, <1>5, <1>7, <2>2, <2>3 DEF IsAt
<1>10. CASE n.kids[i] = 0
  <2> DEFINE a == n.ptrs[i]
  <2>1. t.loc[y] = - a /\ a \in Nat
    BY <1>2, <1>6, <1>10
  <2> HIDE DEF a
  <2>2. ~ (t.loc[y] > 0) /\ - t.loc[y] = a
    BY <2>1
  <2>3. a \in Slots /\ disk[a] \in LinesOf(Nat) /\ cache[a] \in {NoLine, disk[a]}
    BY <1>1, <2>2, SlotOfChild
  <2>4. Line(IF Line(cache, a) # NoLine THEN cache ELSE disk, a) = disk[a]
    BY <2>3 DEF Line
  <2>5. Kid(n, i) = Node_From(disk[a], 0, a, 0)
    BY <1>10, <2>4 DEF Kid, a
  <2>6. SeenOf(Kid(n, i)) = t.node[y]
    BY <1>8, <2>1, <2>3, <2>5, SeenOfLine
  <2>7. QED
    BY <1>4, <1>5, <1>7, <2>6 DEF IsAt
<1>11. QED
  BY <1>9, <1>10

\* The root is where a reader starts, and has keys unless it is a leaf.
LEMMA RootRead ==
  ASSUME NEW t, Reads(t)
  PROVE  /\ t.root \in t.nodes /\ IsAt(t, t.root, heap[root])
         /\ t.node[t.root].leaf \/ t.node[t.root].num # 0
         /\ t.range[t.root] = Keys /\ t.level[t.root] \in Nat
         /\ Nodes_On_A_Path \in Nat /\ t.level[t.root] <= Nodes_On_A_Path
<1>1. /\ GoodTree(t) /\ Represents(t, heap, disk) /\ heap \in AnyHeapsOf(Nat) /\ heap \in HeapsOf(Nat)
      /\ t.loc[t.root] = root /\ Stands(heap, root) /\ root \in DOMAIN heap
  BY HeapsAreAny DEF Reads, Keeping, Represents, Holds, Tree, Stands
<1>2. t.root \in t.nodes /\ t.level[t.root] \in Nat /\ t.range[t.root] = Keys
      /\ t.level[t.root] < Cardinality(t.nodes)
  BY <1>1 DEF GoodTree, TreeShape, Topped
<1>3. heap[root] \in StopsOf(Nat)
  BY <1>1 DEF HeapsOf, IsHeap, Room, StopsOf
<1>4. root > 0
  BY <1>1, HeapNodes
<1>5. t.node[t.root] = SeenOf(heap[root])
  BY <1>1, <1>2, <1>4, SeenAtPlace DEF Represents
<1>6. t.node[t.root].leaf \/ t.node[t.root].num # 0
  BY <1>1, <1>2, NodeInHeap DEF Stands
<1>7. /\ Cardinality(t.nodes) \in Nat /\ Cardinality(DOMAIN heap) \in Nat
      /\ Cardinality(t.nodes) <= Nodes_On_A_Path /\ Nodes_On_A_Path \in Nat
  BY <1>1, NodesFew, BoundsAssumption DEF Nodes_On_A_Path
<1>8. QED
  BY <1>2, <1>3, <1>5, <1>6, <1>7 DEF IsAt

\* The address that is right of a key in the leaf the key belongs to.
LEMMA AddressFound ==
  ASSUME NEW n, n.keys \in [0 .. Size - 1 -> Nat], n.num \in 0 .. Size, Owned(n),
         NEW t, NEW x, LeafBelongs(t, x), t.node[x].keys = n.keys /\ t.node[x].num = n.num,
         NEW key \in t.range[x], key \in Nat /\ key # 0
  PROVE  Get_Data_Address(n, key) = IF key \in t.held THEN key ELSE NotFound
<1> DEFINE found == {i \in 0 .. Size - 1 : n.keys[i] = key}
           m == Min(found)
<1>1. Get_Data_Address(n, key) = IF found = {} THEN NotFound ELSE n.ptrs[m + 1]
  BY DEF Get_Data_Address
<1>2. /\ \A i \in 0 .. Size - 1 : i >= n.num => n.keys[i] # key
      /\ key \in t.held <=> \E i \in 0 .. n.num - 1 : n.keys[i] = key
  BY DEF LeafBelongs
<1>3. \A i \in 0 .. n.num - 1 : i \in 0 .. Size - 1
  BY Numbers
<1>4. \A i \in 0 .. Size - 1 : ~ (i >= n.num) => i \in 0 .. n.num - 1
  BY Numbers
<1>5. CASE key \notin t.held
  <2>1. found = {}
    BY <1>2, <1>4, <1>5
  <2>2. QED
    BY <1>1, <1>5, <2>1
<1>6. CASE key \in t.held
  <2>1. found # {}
    BY <1>2, <1>3, <1>6
  <2>2. found \in SUBSET Nat
    BY Numbers
  <2>3. \E i \in found : \A j \in found : i <= j
    <3> HIDE DEF found
    <3>1. QED
      BY <2>1, <2>2, LeastNumber
  <2>4. m \in found
    <3> HIDE DEF found
    <3>1. QED
      BY <2>3 DEF Min
  <2>5. m \in 0 .. Size - 1 /\ n.keys[m] = key
    BY <2>4
  <2> HIDE DEF found, m
  <2>6. ~ (m >= n.num)
    BY <1>2, <2>5
  <2>7. n.ptrs[m + 1] = key
    BY <2>5, <2>6 DEF Owned
  <2>8. QED
    BY <1>1, <1>6, <2>1, <2>7
<1>7. QED
  BY <1>5, <1>6

\* Where the walk of a key may stand, with at most k levels below it.
StandsAt(t, key, k) ==
  {n \in StopsOf(Nat) : \E x \in t.nodes : IsAt(t, x, n) /\ key \in t.range[x] /\ t.level[x] <= k}

\* A round of a walk goes down a level.
LEMMA LeafRoundDown ==
  ASSUME NEW t, Reads(t), NEW key \in Keys, NEW k \in Nat, NEW n \in StandsAt(t, key, k + 1)
  PROVE  LeafRound(n, key) \in StandsAt(t, key, k)
<1>1. PICK x \in t.nodes : IsAt(t, x, n) /\ key \in t.range[x] /\ t.level[x] <= k + 1
  BY DEF StandsAt
<1>2. /\ GoodTree(t) /\ t.level[x] \in Nat /\ Belongs(t, x) /\ key \in Nat /\ n \in StopsOf(Nat) /\ n \in NodesOf(Nat)
  BY <1>1, KeysAssumption DEF Reads, Keeping, Represents, GoodTree, TreeShape, StandsAt, StopsOf
<1>3. t.node[x].leaf = n.leaf /\ t.node[x].num = n.num /\ t.node[x].keys = n.keys
  BY <1>1, <1>2, SeenOfNode DEF IsAt
<1>4. CASE n.leaf
  <2>1. t.level[x] = 0 /\ 0 <= k
    BY <1>2, <1>3, <1>4 DEF Belongs
  <2>2. LeafRound(n, key) = n
    BY <1>4 DEF LeafRound
  <2>3. QED
    BY <1>1, <1>2, <2>1, <2>2 DEF StandsAt
<1>5. CASE ~ n.leaf
  <2>1. n.num # 0
    BY <1>1, <1>2, <1>3, <1>5, RootRead DEF Belongs
  <2>2. n.num \in 0 .. Size /\ n.keys \in [0 .. Size - 1 -> Nat] /\ InOrder(n)
    BY <1>2, <1>3 DEF NodesOf, Belongs, InOrder
  <2> DEFINE i == Child_Index(n, key)
  <2>3. i \in 0 .. n.num
    BY <2>2, ChildIndexInRange
  <2>4. LiesAt(n, i, key)
    BY <1>2, <2>2, <2>3, ChildIsThere
  <2>5. LiesAt(t.node[x], i, key)
    BY <1>3, <2>4 DEF LiesAt
  <2>6. LeafRound(n, key) = Kid(n, i)
    BY <1>5, <2>1 DEF LeafRound
  <2> HIDE DEF i
  <2>7. PICK y \in t.nodes : IsChild(t, x, i, y) /\ IsAt(t, y, Kid(n, i))
    BY <1>1, <1>5, <2>3, KidShown
  <2>8. key \in t.range[y] /\ t.level[y] + 1 = t.level[x]
    BY <1>1, <2>5, <2>7 DEF IsChild
  <2>9. t.level[y] \in Nat
    BY <1>2 DEF GoodTree, TreeShape
  <2>10. t.level[y] <= k
    BY <1>1, <1>2, <2>8, <2>9
  <2>11. QED
    BY <2>6, <2>7, <2>8, <2>10 DEF StandsAt, IsAt
<1>6. QED
  BY <1>4, <1>5

\* A walk ends at the leaf its key belongs to.
LEMMA LeafUnderFinds ==
  ASSUME NEW t, Reads(t), NEW key \in Keys
  PROVE  Leaf_Under(key) \in StandsAt(t, key, 0)
<1> DEFINE S == StopsOf(Nat)
           start == heap[root]
           next == [x \in S |-> LeafRound(x, key)]
           E(f) == f = [r \in Nat |-> IF r = 0 THEN {start} ELSE {LeafRound(x, key) : x \in f[r - 1]}]
           after == CHOOSE f : E(f)
           F == [k \in Nat |-> StandsAt(t, key, k)]
<1>1. start \in S
  BY RootRead DEF IsAt
<1>2. \A x \in S : LeafRound(x, key) \in S
  <2> SUFFICES ASSUME NEW x \in S
               PROVE  LeafRound(x, key) \in S
    OBVIOUS
  <2>1. CASE x.leaf \/ x.num = 0
    BY <2>1 DEF LeafRound
  <2>2. CASE ~ (x.leaf \/ x.num = 0)
    <3>1. x.num \in 0 .. Size
      BY DEF StopsOf, NodesOf
    <3>2. Child_Index(x, key) \in 0 .. Size
      BY <3>1, ChildIndexInRange, Numbers
    <3>3. QED
      BY <2>2, <3>2, KidStops DEF LeafRound, Reads
  <2>3. QED
    BY <2>1, <2>2
<1>30. F \in [Nat -> SUBSET S] /\ \A k \in Nat : F[k] = StandsAt(t, key, k)
  BY DEF StandsAt
<1>31. start \in F[Nodes_On_A_Path]
  <2>1. start \in StandsAt(t, key, Nodes_On_A_Path)
    BY <1>1, RootRead DEF StandsAt
  <2>2. QED
    BY <1>30, <2>1, RootRead
<1>32. \A k \in Nat : \A x \in F[k + 1] : LeafRound(x, key) \in F[k] /\ x \in S
  <2> SUFFICES ASSUME NEW k \in Nat, NEW x \in F[k + 1] PROVE LeafRound(x, key) \in F[k] /\ x \in S
    OBVIOUS
  <2>1. k + 1 \in Nat
    OBVIOUS
  <2>2. x \in StandsAt(t, key, k + 1) /\ x \in S
    BY <1>30, <2>1
  <2>3. QED
    BY <1>30, <2>2, LeafRoundDown
<1> HIDE DEF S, start, F
<1>3. next \in [S -> S] /\ \A x \in S : next[x] = LeafRound(x, key)
  BY <1>2
<1> HIDE DEF next
<1>4. PICK f : IsLoop(S, start, next, f)
  BY <1>1, <1>3, LoopExists
<1>5. E(f)
  <2>1. ASSUME NEW r \in Nat, r # 0
        PROVE  {next[x] : x \in f[r - 1]} = {LeafRound(x, key) : x \in f[r - 1]}
    <3>1. r - 1 \in Nat
      BY <2>1
    <3>2. \A x \in f[r - 1] : next[x] = LeafRound(x, key)
      BY <1>3, <1>4, <3>1 DEF IsLoop
    <3>3. QED
      BY <3>2
  <2>2. f = [r \in Nat |-> IF r = 0 THEN {start} ELSE {next[x] : x \in f[r - 1]}]
    BY <1>4 DEF IsLoop
  <2>3. QED
    BY <2>1, <2>2
<1>6. E(after)
  <2> HIDE DEF E
  <2>1. QED
    BY <1>5
<1> HIDE DEF after
<1>7. after[0] = {start}
  BY <1>6
<1>8. ASSUME NEW r \in Nat, after[r] \subseteq S
      PROVE  after[r + 1] = {next[x] : x \in after[r]}
  <2>1. after[r + 1] = {LeafRound(x, key) : x \in after[r]}
    <3>1. r + 1 \in Nat /\ r + 1 # 0 /\ (r + 1) - 1 = r
      OBVIOUS
    <3>2. QED
      BY <1>6, <3>1
  <2>2. QED
    BY <1>3, <1>8, <2>1
<1>9. Nodes_On_A_Path \in Nat
  BY RootRead
<1>10. after[0] # {} /\ after[0] \subseteq F[Nodes_On_A_Path]
  BY <1>7, <1>31
<1>11. \A k \in Nat : \A x \in F[k + 1] : next[x] \in F[k]
  BY <1>3, <1>32
<1>12. (CHOOSE last \in after[Nodes_On_A_Path] : TRUE) \in F[0]
  BY <1>3, <1>8, <1>9, <1>10, <1>11, <1>30, LoopEnds
<1>13. F[0] = StandsAt(t, key, 0)
  BY <1>30
<1>14. QED
  BY <1>12, <1>13 DEF Leaf_Under, Iterated, LeafRound, after, start, S

\* Get returns the record of a key that the working tree holds, and throws else.
LEMMA ResultIs ==
  ASSUME NEW t, Reads(t), NEW key \in Keys, key # 0
  PROVE  Result(key) = IF key \in t.held THEN key ELSE NotFound
<1> DEFINE n == Leaf_Under(key)
<1>1. Result(key) = IF ~ n.leaf \/ (n.num = 0 /\ n # heap[root]) THEN NotFound ELSE Get_Data_Address(n, key)
  BY DEF Result
<1>2. n \in StandsAt(t, key, 0)
  BY LeafUnderFinds
<1> HIDE DEF n
<1>3. PICK x \in t.nodes : IsAt(t, x, n) /\ key \in t.range[x] /\ t.level[x] <= 0
  BY <1>2 DEF StandsAt
<1>4. /\ t.level[x] = 0 /\ Belongs(t, x) /\ key \in Nat
  <2>1. t.level[x] \in Nat /\ Belongs(t, x) /\ key \in Nat
    BY <1>3, KeysAssumption DEF Reads, Keeping, Represents, GoodTree, TreeShape
  <2>2. QED
    BY <1>3, <2>1
<1>5. n \in NodesOf(Nat) /\ Sound(n)
  BY <1>3 DEF IsAt, StopsOf
<1>6. t.node[x].leaf = n.leaf /\ t.node[x].num = n.num /\ t.node[x].keys = n.keys
  BY <1>3, <1>5, SeenOfNode DEF IsAt
<1>7. n.leaf /\ LeafBelongs(t, x)
  BY <1>4, <1>6 DEF Belongs
<1>8. n.num = 0 => n = heap[root]
  BY <1>3, <1>4, <1>6 DEF Belongs, IsAt
<1>9. n.keys \in [0 .. Size - 1 -> Nat] /\ n.num \in 0 .. Size /\ Owned(n)
  BY <1>5, <1>7 DEF NodesOf, Sound
<1>10. Get_Data_Address(n, key) = IF key \in t.held THEN key ELSE NotFound
  BY <1>3, <1>4, <1>6, <1>7, <1>9, AddressFound
<1>11. QED
  BY <1>1, <1>7, <1>8, <1>10

\* What a process that opens the files stands on.
ReadsFile(t) ==
  /\ disk \in CachesOf(Nat) /\ Represents(t, NoHeap, disk)
  /\ metadata \in Slots /\ t.loc[t.root] = - metadata
  /\ t.node[t.root].leaf \/ t.node[t.root].num # 0

\* l is the node x of the tree on file.
IsLineOf(t, x, l) == \E a \in Slots : t.loc[x] = - a /\ l = disk[a]

\* The nodes of a tree without a heap are lines.
LEMMA LineOfNode ==
  ASSUME NEW t, ReadsFile(t), NEW x \in t.nodes
  PROVE  LET a == - t.loc[x] IN
         /\ a \in Slots /\ t.loc[x] = - a /\ IsLineOf(t, x, disk[a]) /\ disk[a] \in LinesOf(Nat)
<1> DEFINE p == t.loc[x]  a == - p
<1>1. p \in Int /\ (IF p > 0 THEN p \in DOMAIN NoHeap ELSE a \in Slots)
  BY DEF ReadsFile, Represents, GoodTree, TreeShape
<1>2. DOMAIN NoHeap = {}
  BY DEF NoHeap
<1>3. a \in Slots
  BY <1>1, <1>2
<1>4. p = - a
  BY <1>1
<1>5. disk[a] \in LinesOf(Nat)
  BY <1>3 DEF ReadsFile, CachesOf
<1> HIDE DEF a
<1>6. IsLineOf(t, x, disk[a])
  BY <1>3, <1>4 DEF IsLineOf
<1>7. QED
  BY <1>3, <1>4, <1>5, <1>6 DEF a

\* How a line shows in the tree.
LEMMA LineShown ==
  ASSUME NEW t, ReadsFile(t), NEW x \in t.nodes, NEW l, IsLineOf(t, x, l)
  PROVE  /\ l \in LinesOf(Nat) /\ t.node[x].leaf = l.leaf /\ t.node[x].num = l.num
         /\ t.node[x].keys = l.keys /\ \A i \in 0 .. Size : t.node[x].below[i] = - l.ptrs[i]
<1>1. PICK a \in Slots : t.loc[x] = - a /\ l = disk[a]
  BY DEF IsLineOf
<1>2. l \in LinesOf(Nat) /\ t.node[x] = Seen(NoHeap, disk, - a)
  BY <1>1 DEF ReadsFile, CachesOf, Represents
<1>3. QED
  BY <1>1, <1>2, SeenOnFile

\* Where the walk of a key may stand on file, with at most k levels below it.
StandsOnFile(t, key, k) ==
  {l \in LinesOf(Nat) : \E x \in t.nodes : IsLineOf(t, x, l) /\ key \in t.range[x] /\ t.level[x] <= k}

\* A round of a walk on file goes down a level.
LEMMA FileRoundDown ==
  ASSUME NEW t, ReadsFile(t), NEW key \in Keys, NEW k \in Nat, NEW l \in StandsOnFile(t, key, k + 1)
  PROVE  FileRound(l, key) \in StandsOnFile(t, key, k)
<1>1. PICK x \in t.nodes : IsLineOf(t, x, l) /\ key \in t.range[x] /\ t.level[x] <= k + 1
  BY DEF StandsOnFile
<1>2. /\ GoodTree(t) /\ t.level[x] \in Nat /\ Belongs(t, x) /\ key \in Nat /\ l \in LinesOf(Nat)
  BY <1>1, KeysAssumption DEF ReadsFile, Represents, GoodTree, TreeShape, StandsOnFile
<1>3. /\ t.node[x].leaf = l.leaf /\ t.node[x].num = l.num /\ t.node[x].keys = l.keys
      /\ \A i \in 0 .. Size : t.node[x].below[i] = - l.ptrs[i]
  BY <1>1, LineShown
<1>4. CASE l.leaf
  <2>1. t.level[x] = 0 /\ 0 <= k
    BY <1>2, <1>3, <1>4 DEF Belongs
  <2>2. FileRound(l, key) = l
    BY <1>4 DEF FileRound
  <2>3. QED
    BY <1>1, <1>2, <2>1, <2>2 DEF StandsOnFile
<1>5. CASE ~ l.leaf
  <2>1. l.num # 0
    BY <1>1, <1>2, <1>3, <1>5 DEF Belongs, ReadsFile
  <2>20. l.num \in 0 .. Size - 1 /\ l.keys \in [0 .. Size - 1 -> Nat] /\ l.ptrs \in [0 .. Size -> Nat]
    BY <1>2 DEF LinesOf
  <2>2. l.num \in 0 .. Size /\ l.keys \in [0 .. Size - 1 -> Nat] /\ InOrder(l)
    BY <1>2, <1>3, <2>20, Numbers DEF Belongs, InOrder
  <2> DEFINE i == Child_Index(l, key)
  <2>3. i \in 0 .. l.num /\ i \in 0 .. Size
    <3>1. i \in 0 .. l.num
      BY <2>2, ChildIndexInRange
    <3> HIDE DEF i
    <3>2. QED
      BY <2>2, <3>1, Numbers
  <2>4. LiesAt(l, i, key)
    BY <1>2, <2>2, <2>3, ChildIsThere
  <2>5. LiesAt(t.node[x], i, key)
    BY <1>3, <2>4 DEF LiesAt
  <2> DEFINE b == l.ptrs[i]
  <2>6. FileRound(l, key) = Line(disk, b)
    BY <1>5, <2>1 DEF FileRound
  <2>7. t.node[x].below[i] = - b /\ b \in Nat
    BY <1>3, <2>20, <2>3
  <2> HIDE DEF i, b
  <2>8. PICK y \in t.nodes : IsChild(t, x, i, y)
    BY <1>2, <1>3, <1>5, <2>3 DEF GoodTree, Branches
  <2>9. /\ key \in t.range[y] /\ t.level[y] + 1 = t.level[x] /\ t.loc[y] = - b
    BY <1>1, <2>5, <2>7, <2>8 DEF IsChild
  <2>10. - t.loc[y] = b
    BY <2>7, <2>9
  <2>11. b \in Slots /\ IsLineOf(t, y, disk[b]) /\ disk[b] \in LinesOf(Nat)
    BY <2>10, LineOfNode
  <2>12. t.level[y] \in Nat
    BY <1>2 DEF GoodTree, TreeShape
  <2>13. t.level[y] <= k
    BY <1>1, <1>2, <2>9, <2>12
  <2>14. Line(disk, b) = disk[b]
    BY <2>11 DEF Line
  <2>15. QED
    BY <2>6, <2>9, <2>11, <2>13, <2>14 DEF StandsOnFile
<1>6. QED
  BY <1>4, <1>5

\* The root on file, and how far it is from the leaves.
LEMMA RootOnFile ==
  ASSUME NEW t, ReadsFile(t), NEW key \in Keys
  PROVE  Line(disk, metadata) \in StandsOnFile(t, key, MaxSlot)
<1>1. /\ GoodTree(t) /\ Represents(t, NoHeap, disk) /\ metadata \in Slots /\ t.loc[t.root] = - metadata
  BY DEF ReadsFile, Represents
<1>2. t.root \in t.nodes /\ t.level[t.root] \in Nat /\ t.range[t.root] = Keys
      /\ t.level[t.root] < Cardinality(t.nodes)
  BY <1>1 DEF GoodTree, TreeShape, Topped
<1>3. NoHeap \in AnyHeapsOf(Nat) /\ DOMAIN NoHeap = {}
  <2>1. DOMAIN NoHeap = {} /\ NoHeap \in [{} -> NodesOf(Nat)]
    BY DEF NoHeap
  <2>2. IsHeap(Nat, NoHeap)
    BY <2>1, FS_EmptySet DEF IsHeap
  <2>3. QED
    BY <2>1, <2>2 DEF AnyHeapsOf
<1>4. Cardinality(t.nodes) \in Nat /\ Cardinality(t.nodes) <= MaxSlot
  <2>1. Cardinality(DOMAIN NoHeap) = 0
    BY <1>3, FS_EmptySet
  <2>2. /\ Cardinality(t.nodes) \in Nat /\ Cardinality(DOMAIN NoHeap) \in Nat
        /\ Cardinality(t.nodes) <= Cardinality(DOMAIN NoHeap) + MaxSlot
    BY <1>1, <1>3, NodesFew
  <2>3. QED
    BY <2>1, <2>2, BoundsAssumption
<1>5. t.level[t.root] <= MaxSlot
  BY <1>2, <1>4, BoundsAssumption
<1>6. IsLineOf(t, t.root, Line(disk, metadata)) /\ Line(disk, metadata) \in LinesOf(Nat)
  BY <1>1 DEF IsLineOf, Line, ReadsFile, CachesOf
<1>7. QED
  BY <1>2, <1>5, <1>6 DEF StandsOnFile

\* A walk on file ends at the leaf its key belongs to.
LEMMA StoredLeafFinds ==
  ASSUME NEW t, ReadsFile(t), NEW key \in Keys
  PROVE  Stored_Leaf(key) \in StandsOnFile(t, key, 0)
<1> DEFINE S == LinesOf(Nat)
           start == Line(disk, metadata)
           next == [x \in S |-> FileRound(x, key)]
           E(f) == f = [r \in Nat |-> IF r = 0 THEN {start} ELSE {FileRound(x, key) : x \in f[r - 1]}]
           after == CHOOSE f : E(f)
           F == [k \in Nat |-> StandsOnFile(t, key, k)]
<1>1. start \in S
  BY LineShape DEF ReadsFile
<1>2. \A x \in S : FileRound(x, key) \in S
  BY LineShape DEF FileRound, ReadsFile
<1>30. F \in [Nat -> SUBSET S] /\ \A k \in Nat : F[k] = StandsOnFile(t, key, k)
  BY DEF StandsOnFile
<1>31. start \in F[MaxSlot]
  BY <1>30, RootOnFile, BoundsAssumption
<1>32. \A k \in Nat : \A x \in F[k + 1] : FileRound(x, key) \in F[k] /\ x \in S
  <2> SUFFICES ASSUME NEW k \in Nat, NEW x \in F[k + 1] PROVE FileRound(x, key) \in F[k] /\ x \in S
    OBVIOUS
  <2>1. k + 1 \in Nat
    OBVIOUS
  <2>2. x \in StandsOnFile(t, key, k + 1) /\ x \in S
    BY <1>30, <2>1
  <2>3. QED
    BY <1>30, <2>2, FileRoundDown
<1> HIDE DEF S, start, F
<1>3. next \in [S -> S] /\ \A x \in S : next[x] = FileRound(x, key)
  BY <1>2
<1> HIDE DEF next
<1>4. PICK f : IsLoop(S, start, next, f)
  BY <1>1, <1>3, LoopExists
<1>5. E(f)
  <2>1. ASSUME NEW r \in Nat, r # 0
        PROVE  {next[x] : x \in f[r - 1]} = {FileRound(x, key) : x \in f[r - 1]}
    <3>1. r - 1 \in Nat
      BY <2>1
    <3>2. \A x \in f[r - 1] : next[x] = FileRound(x, key)
      BY <1>3, <1>4, <3>1 DEF IsLoop
    <3>3. QED
      BY <3>2
  <2>2. f = [r \in Nat |-> IF r = 0 THEN {start} ELSE {next[x] : x \in f[r - 1]}]
    BY <1>4 DEF IsLoop
  <2>3. QED
    BY <2>1, <2>2
<1>6. E(after)
  <2> HIDE DEF E
  <2>1. QED
    BY <1>5
<1> HIDE DEF after
<1>7. after[0] = {start}
  BY <1>6
<1>8. ASSUME NEW r \in Nat, after[r] \subseteq S
      PROVE  after[r + 1] = {next[x] : x \in after[r]}
  <2>1. after[r + 1] = {FileRound(x, key) : x \in after[r]}
    <3>1. r + 1 \in Nat /\ r + 1 # 0 /\ (r + 1) - 1 = r
      OBVIOUS
    <3>2. QED
      BY <1>6, <3>1
  <2>2. QED
    BY <1>3, <1>8, <2>1
<1>9. MaxSlot \in Nat
  BY BoundsAssumption
<1>10. after[0] # {} /\ after[0] \subseteq F[MaxSlot]
  BY <1>7, <1>31
<1>11. \A k \in Nat : \A x \in F[k + 1] : next[x] \in F[k]
  BY <1>3, <1>32
<1>12. (CHOOSE last \in after[MaxSlot] : TRUE) \in F[0]
  BY <1>3, <1>8, <1>9, <1>10, <1>11, <1>30, LoopEnds
<1>13. F[0] = StandsOnFile(t, key, 0)
  BY <1>30
<1>14. QED
  BY <1>12, <1>13 DEF Stored_Leaf, Iterated, FileRound, after, start, S

\* A process that opens the files finds the record of a key that the tree on file
\* holds, and throws else.
LEMMA FileResultIs ==
  ASSUME NEW t, ReadsFile(t), NEW key \in Keys, key # 0
  PROVE  File_Result(key) = IF key \in t.held THEN key ELSE NotFound
<1> DEFINE l == Stored_Leaf(key)
<1>1. File_Result(key) = IF ~ l.leaf \/ l.num = 0 THEN NotFound ELSE Get_Data_Address(l, key)
  BY DEF File_Result
<1>2. l \in StandsOnFile(t, key, 0)
  BY StoredLeafFinds
<1> HIDE DEF l
<1>3. PICK x \in t.nodes : IsLineOf(t, x, l) /\ key \in t.range[x] /\ t.level[x] <= 0
  BY <1>2 DEF StandsOnFile
<1>4. GoodTree(t) /\ t.level[x] = 0 /\ Belongs(t, x) /\ key \in Nat
  <2>1. GoodTree(t) /\ t.level[x] \in Nat /\ Belongs(t, x) /\ key \in Nat
    BY <1>3, KeysAssumption DEF ReadsFile, Represents, GoodTree, TreeShape
  <2>2. QED
    BY <1>3, <2>1
<1>5. /\ l \in LinesOf(Nat) /\ t.node[x].leaf = l.leaf /\ t.node[x].num = l.num /\ t.node[x].keys = l.keys
  BY <1>3, LineShown
<1>6. l.leaf /\ LeafBelongs(t, x)
  BY <1>4, <1>5 DEF Belongs
<1>7. l.num = 0 => key \notin t.held
  <2>1. l.num = 0 => x = t.root
    BY <1>4, <1>5 DEF Belongs
  <2>2. l.num = 0 => t.held = {}
    BY <1>4, <1>5, <1>6, <2>1, NothingHeld
  <2>3. QED
    BY <2>2
<1>8. l.keys \in [0 .. Size - 1 -> Nat] /\ l.num \in 0 .. Size - 1 /\ Owned(l)
  BY <1>5, <1>6 DEF LinesOf
<1>9. l.num \in 0 .. Size
  BY <1>8, Numbers
<1>10. Get_Data_Address(l, key) = IF key \in t.held THEN key ELSE NotFound
  BY <1>3, <1>4, <1>5, <1>6, <1>8, <1>9, AddressFound
<1>11. QED
  BY <1>1, <1>6, <1>7, <1>10

\* When no commit was made a process that opens the files finds nothing.
LEMMA NoFileResult ==
  ASSUME metadata = 0, NEW key
  PROVE  File_Result(key) = NotFound
<1> DEFINE S == {NoLine}
           start == Line(disk, metadata)
           next == [x \in S |-> FileRound(x, key)]
           E(f) == f = [r \in Nat |-> IF r = 0 THEN {start} ELSE {FileRound(x, key) : x \in f[r - 1]}]
           after == CHOOSE f : E(f)
<1>0. NoLine.num = 0
  BY DEF NoLine
<1>1. start \in S
  <2>1. 0 \notin Slots
    BY BoundsAssumption DEF Slots
  <2>2. QED
    BY <2>1 DEF Line
<1>2. \A x \in S : FileRound(x, key) \in S
  BY <1>0 DEF FileRound
<1> HIDE DEF S, start
<1>3. next \in [S -> S] /\ \A x \in S : next[x] = FileRound(x, key)
  BY <1>2
<1> HIDE DEF next
<1>4. PICK f : IsLoop(S, start, next, f)
  BY <1>1, <1>3, LoopExists
<1>5. E(f)
  <2>1. ASSUME NEW r \in Nat, r # 0
        PROVE  {next[x] : x \in f[r - 1]} = {FileRound(x, key) : x \in f[r - 1]}
    <3>1. r - 1 \in Nat
      BY <2>1
    <3>2. \A x \in f[r - 1] : next[x] = FileRound(x, key)
      BY <1>3, <1>4, <3>1 DEF IsLoop
    <3>3. QED
      BY <3>2
  <2>2. f = [r \in Nat |-> IF r = 0 THEN {start} ELSE {next[x] : x \in f[r - 1]}]
    BY <1>4 DEF IsLoop
  <2>3. QED
    BY <2>1, <2>2
<1>6. E(after)
  <2> HIDE DEF E
  <2>1. QED
    BY <1>5
<1> HIDE DEF after
<1>7. after[0] = {start}
  BY <1>6
<1>8. ASSUME NEW r \in Nat, after[r] \subseteq S
      PROVE  after[r + 1] = {next[x] : x \in after[r]}
  <2>1. after[r + 1] = {FileRound(x, key) : x \in after[r]}
    <3>1. r + 1 \in Nat /\ r + 1 # 0 /\ (r + 1) - 1 = r
      OBVIOUS
    <3>2. QED
      BY <1>6, <3>1
  <2>2. QED
    BY <1>3, <1>8, <2>1
<1>9. MaxSlot \in Nat
  BY BoundsAssumption
<1>10. (CHOOSE last \in after[MaxSlot] : TRUE) \in S
  BY <1>1, <1>3, <1>7, <1>8, <1>9, LoopStays
<1>11. Stored_Leaf(key) \in S
  BY <1>10 DEF Stored_Leaf, Iterated, FileRound, after, start, S
<1>12. Stored_Leaf(key) = NoLine
  BY <1>11 DEF S
<1>13. QED
  BY <1>0, <1>12 DEF File_Result

\* With keys that are not what fills unused positions, what can be read is what
\* the trees hold.
LEMMA TreesRead ==
  ASSUME 0 \notin Keys
  PROVE  \A K, J : Working(K) /\ StoredTree(J) =>
           /\ K \subseteq Keys /\ J \subseteq Keys
           /\ Readable = K /\ Stored = J /\ NeverAnotherRecord
<1> SUFFICES ASSUME NEW K, NEW J, Working(K), StoredTree(J)
             PROVE  /\ K \subseteq Keys /\ J \subseteq Keys
                    /\ \A key \in Keys : /\ Result(key) = IF key \in K THEN key ELSE NotFound
                                         /\ File_Result(key) = IF key \in J THEN key ELSE NotFound
                                         /\ key # NotFound
  BY DEF Readable, Stored, NeverAnotherRecord
<1>1. \A key \in Keys : key # 0 /\ key # NotFound
  BY KeysAssumption DEF NotFound
<1>2. PICK t : Keeping(t, heap, freed) /\ t.loc[t.root] = root /\ t.held = K
  BY DEF Working
<1>3. Reads(t)
  BY <1>2 DEF Reads, Working
<1>4. K \subseteq Keys
  BY <1>2 DEF Keeping, Represents, GoodTree, TreeShape
<1>5. \A key \in Keys : Result(key) = IF key \in K THEN key ELSE NotFound
  BY <1>1, <1>2, <1>3, ResultIs
<1>6. J \subseteq Keys /\ \A key \in Keys : File_Result(key) = IF key \in J THEN key ELSE NotFound
  <2>1. CASE metadata = 0
    BY <2>1, NoFileResult DEF StoredTree
  <2>2. CASE metadata # 0
    <3>1. PICK u : /\ Represents(u, NoHeap, disk) /\ u.loc[u.root] = - metadata /\ u.held = J
                   /\ u.node[u.root].leaf \/ u.node[u.root].num # 0
      BY <2>2 DEF StoredTree
    <3>2. metadata \in Slots /\ disk \in CachesOf(Nat)
      BY <2>2 DEF StoredTree, Working, Holds
    <3>3. ReadsFile(u)
      BY <3>1, <3>2 DEF ReadsFile
    <3>4. J \subseteq Keys
      BY <3>1 DEF Represents, GoodTree, TreeShape
    <3>5. QED
      BY <1>1, <3>1, <3>3, <3>4, FileResultIs
  <2>3. QED
    BY <2>1, <2>2
<1>7. QED
  BY <1>1, <1>4, <1>5, <1>6

-----------------------------------------------------------------------------
\* The theorems

\* A node of the tree as a reader that goes through all of it meets it.
VisitsOf(t) ==
  {v \in [node : StopsOf(Nat), keys : SUBSET Keys, depth : Nat] :
     \E x \in t.nodes : /\ IsAt(t, x, v.node) /\ v.keys = t.range[x]
                        /\ v.depth + t.level[x] = t.level[t.root]}

\* What is below a node of the tree are nodes of the tree.
LEMMA ChildrenVisited ==
  ASSUME NEW t, Reads(t), NEW v \in VisitsOf(t)
  PROVE  Children_Of(v) \subseteq VisitsOf(t)
<1> DEFINE n == v.node
           Between(i) == {key \in v.keys : /\ i > 0 => n.keys[i - 1] <= key
                                           /\ i < n.num => key < n.keys[i]}
           child(i) == [node |-> Kid(n, i), keys |-> Between(i), depth |-> v.depth + 1]
<1>1. Children_Of(v) = IF n.leaf THEN {} ELSE {child(i) : i \in 0 .. n.num}
  BY DEF Children_Of
<1>2. PICK x \in t.nodes : /\ IsAt(t, x, n) /\ v.keys = t.range[x]
                           /\ v.depth + t.level[x] = t.level[t.root]
  BY DEF VisitsOf
<1>3. v.depth \in Nat /\ v.keys \subseteq Keys /\ n \in NodesOf(Nat)
  BY DEF VisitsOf, StopsOf
<1>4. /\ t.level \in [t.nodes -> Nat] /\ t.root \in t.nodes
  BY DEF Reads, Keeping, Represents, GoodTree, TreeShape
<1>5. t.node[x].num = n.num /\ t.node[x].keys = n.keys
  BY <1>2, <1>3, SeenOfNode DEF IsAt
<1>6. ASSUME ~ n.leaf, NEW i \in 0 .. n.num
      PROVE  child(i) \in VisitsOf(t)
  <2> HIDE DEF n
  <2>1. PICK y \in t.nodes : IsChild(t, x, i, y) /\ IsAt(t, y, Kid(n, i))
    BY <1>2, <1>6, KidShown
  <2>2. t.range[y] = {k \in t.range[x] : LiesAt(t.node[x], i, k)} /\ t.level[y] + 1 = t.level[x]
    BY <2>1 DEF IsChild
  <2>3. Between(i) = t.range[y]
    BY <1>2, <1>5, <2>2 DEF LiesAt
  <2>4. Between(i) \subseteq Keys /\ Kid(n, i) \in StopsOf(Nat)
    BY <1>3, <2>1 DEF IsAt
  <2>5. v.depth + 1 \in Nat
    BY <1>3
  <2>6. (v.depth + 1) + t.level[y] = t.level[t.root]
    <3>1. t.level[x] \in Nat /\ t.level[y] \in Nat
      BY <1>2, <1>4, <2>1
    <3>2. QED
      BY <1>2, <1>3, <2>2, <3>1
  <2> DEFINE w == child(i)
  <2>7. w.node = Kid(n, i) /\ w.keys = Between(i) /\ w.depth = v.depth + 1
    OBVIOUS
  <2>8. w \in [node : StopsOf(Nat), keys : SUBSET Keys, depth : Nat]
    BY <2>4, <2>5
  <2> HIDE DEF w
  <2>9. w \in VisitsOf(t)
    BY <2>1, <2>3, <2>6, <2>7, <2>8 DEF VisitsOf
  <2>10. QED
    BY <2>9 DEF w
<1> HIDE DEF child
<1>7. QED
  BY <1>1, <1>6

\* A round of the loop of Visits.
VisitRound(m) == [seen |-> m.seen \cup m.last, last |-> UNION {Children_Of(visit) : visit \in m.last}]

\* A reader that goes through the tree meets nodes of the tree.
LEMMA VisitsAreOf ==
  ASSUME NEW t, Reads(t)
  PROVE  Visits \subseteq VisitsOf(t)
<1> DEFINE S == [seen : SUBSET VisitsOf(t), last : SUBSET VisitsOf(t)]
           top == [node |-> heap[root], keys |-> Keys, depth |-> 0]
           start == [seen |-> {}, last |-> {top}]
           next == [x \in S |-> VisitRound(x)]
           E(f) == f = [r \in Nat |-> IF r = 0 THEN {start} ELSE {VisitRound(x) : x \in f[r - 1]}]
           after == CHOOSE f : E(f)
<1>1. start \in S
  <2>1. 0 + t.level[t.root] = t.level[t.root]
    BY RootRead
  <2>2. top.node = heap[root] /\ top.keys = Keys /\ top.depth = 0
    OBVIOUS
  <2>3. top \in [node : StopsOf(Nat), keys : SUBSET Keys, depth : Nat]
    BY RootRead DEF IsAt
  <2> HIDE DEF top
  <2>4. top \in VisitsOf(t)
    BY <2>1, <2>2, <2>3, RootRead DEF VisitsOf
  <2>5. QED
    BY <2>4
<1>2. \A x \in S : VisitRound(x) \in S
  <2> SUFFICES ASSUME NEW x \in S
               PROVE  VisitRound(x) \in S
    OBVIOUS
  <2>1. x.seen \cup x.last \subseteq VisitsOf(t)
    OBVIOUS
  <2>2. \A v \in x.last : Children_Of(v) \subseteq VisitsOf(t)
    BY ChildrenVisited
  <2>3. UNION {Children_Of(visit) : visit \in x.last} \subseteq VisitsOf(t)
    BY <2>2
  <2>4. QED
    BY <2>1, <2>3 DEF VisitRound
<1>20. \A m \in S : m.seen \subseteq VisitsOf(t)
  OBVIOUS
<1> HIDE DEF S, start
<1>3. next \in [S -> S] /\ \A x \in S : next[x] = VisitRound(x)
  BY <1>2
<1> HIDE DEF next
<1>4. PICK f : IsLoop(S, start, next, f)
  BY <1>1, <1>3, LoopExists
<1>5. E(f)
  <2>1. ASSUME NEW r \in Nat, r # 0
        PROVE  {next[x] : x \in f[r - 1]} = {VisitRound(x) : x \in f[r - 1]}
    <3>1. r - 1 \in Nat
      BY <2>1
    <3>2. \A x \in f[r - 1] : next[x] = VisitRound(x)
      BY <1>3, <1>4, <3>1 DEF IsLoop
    <3>3. QED
      BY <3>2
  <2>2. f = [r \in Nat |-> IF r = 0 THEN {start} ELSE {next[x] : x \in f[r - 1]}]
    BY <1>4 DEF IsLoop
  <2>3. QED
    BY <2>1, <2>2
<1>6. E(after)
  <2> HIDE DEF E
  <2>1. QED
    BY <1>5
<1> HIDE DEF after
<1>7. after[0] = {start}
  BY <1>6
<1>8. ASSUME NEW r \in Nat, after[r] \subseteq S
      PROVE  after[r + 1] = {next[x] : x \in after[r]}
  <2>1. after[r + 1] = {VisitRound(x) : x \in after[r]}
    <3>1. r + 1 \in Nat /\ r + 1 # 0 /\ (r + 1) - 1 = r
      OBVIOUS
    <3>2. QED
      BY <1>6, <3>1
  <2>2. QED
    BY <1>3, <1>8, <2>1
<1>9. Nodes_On_A_Path \in Nat
  BY RootRead
<1>10. (CHOOSE last \in after[Nodes_On_A_Path] : TRUE) \in S
  BY <1>1, <1>3, <1>7, <1>8, <1>9, LoopStays
<1>11. Visits = (CHOOSE last \in after[Nodes_On_A_Path] : TRUE).seen
  BY DEF Visits, Iterated, VisitRound, after, start
<1>12. QED
  BY <1>10, <1>11, <1>20

\* A good tree is a search tree to who reads it.
LEMMA TreesSearch ==
  ASSUME NEW K, Working(K)
  PROVE  SearchTree
<1>1. PICK t : Keeping(t, heap, freed) /\ t.loc[t.root] = root
  BY DEF Working
<1>2. Reads(t)
  BY <1>1 DEF Reads, Working
<1>3. GoodTree(t) /\ t.level \in [t.nodes -> Nat] /\ t.root \in t.nodes
  BY <1>1 DEF Keeping, Represents, GoodTree, TreeShape
<1>4. ASSUME NEW v \in Visits
      PROVE  LET n == v.node IN
             /\ \A i \in 0 .. n.num - 1 : n.keys[i] \in v.keys
             /\ \A i \in 1 .. n.num - 1 : n.keys[i - 1] < n.keys[i]
             /\ n.num < Size
             /\ n.num = 0 => v.depth = 0
             /\ n.leaf => v.depth = t.level[t.root]
  <2> DEFINE n == v.node
  <2>1. PICK x \in t.nodes : /\ IsAt(t, x, n) /\ v.keys = t.range[x] /\ v.depth \in Nat
                             /\ v.depth + t.level[x] = t.level[t.root]
    BY <1>2, VisitsAreOf DEF VisitsOf
  <2>2. n \in NodesOf(Nat) /\ n.num < Size
    BY <2>1 DEF IsAt, StopsOf
  <2>3. t.node[x].leaf = n.leaf /\ t.node[x].num = n.num /\ t.node[x].keys = n.keys
    BY <2>1, <2>2, SeenOfNode DEF IsAt
  <2>4. /\ n.leaf <=> t.level[x] = 0
        /\ InOrder(n) /\ \A i \in 0 .. n.num - 1 : n.keys[i] \in t.range[x]
        /\ x # t.root => n.num # 0
    BY <1>3, <2>3 DEF GoodTree, Belongs, InOrder
  <2>5. n.num \in Nat
    BY <2>2, Numbers DEF NodesOf
  <2> HIDE DEF n
  <2>6. \A i \in 1 .. n.num - 1 : n.keys[i - 1] < n.keys[i]
    <3> SUFFICES ASSUME NEW i \in 1 .. n.num - 1 PROVE n.keys[i - 1] < n.keys[i]
      OBVIOUS
    <3>1. i \in 0 .. n.num - 1 /\ i - 1 \in 0 .. n.num - 1 /\ i - 1 < i
      BY <2>5
    <3>2. QED
      BY <2>4, <3>1 DEF InOrder
  <2>7. t.level[x] \in Nat /\ t.level[t.root] \in Nat
    BY <1>3, <2>1
  <2>8. n.num = 0 => v.depth = 0
    <3>1. n.num = 0 => t.level[x] = t.level[t.root]
      BY <2>4
    <3>2. QED
      BY <2>1, <2>7, <3>1
  <2>9. n.leaf => v.depth = t.level[t.root]
    <3>1. n.leaf => t.level[x] = 0
      BY <2>4
    <3>2. QED
      BY <2>1, <2>7, <3>1
  <2>10. QED
    BY <2>1, <2>2, <2>4, <2>6, <2>8, <2>9 DEF n
<1>5. QED
  BY <1>4 DEF SearchTree

\* Without Delete, what a reader walks is a search tree in every state: the keys of
\* each node in order and below the separators that lead to it, all leaves at one
\* depth, no node left full, none but the root empty, whatever is in memory, in the
\* cache or only on file, and whichever splits, commits and restarts there were.
THEOREM AlwaysASearchTree == ASSUME Deletes = FALSE PROVE Spec => []SearchTree
<1>1. TreesGood => SearchTree
  BY TreesSearch DEF TreesGood
<1>2. QED
  BY <1>1, TreesStayGood, PTL

\* Without Delete, Get finds no other record than that of its key with any
\* serializer, those that copy a key too many included.
THEOREM OneRecordPerKey ==
  ASSUME Deletes = FALSE, 0 \notin Keys PROVE Spec => []NeverAnotherRecord
<1>1. TreesGood => NeverAnotherRecord
  BY TreesRead DEF TreesGood
<1>2. QED
  BY <1>1, TreesStayGood, PTL

\* What can be read is what the trees hold.
ReadsAsHeld ==
  \A K, J : Working(K) /\ StoredTree(J) => K \subseteq Keys /\ J \subseteq Keys /\ Readable = K /\ Stored = J

\* The same in the next state.
LEMMA ReadNext == ASSUME 0 \notin Keys PROVE ReadsAsHeld /\ ReadsAsHeld'
<1>1. ReadsAsHeld
  BY TreesRead DEF ReadsAsHeld
<1>2. ReadsAsHeld'
  BY <1>1, PTL
<1>3. QED
  BY <1>1, <1>2

\* Without Delete the tree is a set of keys that survives from its last commit, each
\* operation what it is for: Put, with the splits it makes and the new root, adds its
\* key and loses none, Commit stores exactly what is working, a restart brings back
\* exactly what was stored, and nodes that a Get reads change neither.
THEOREM TreeImplementsKeyStore ==
  ASSUME Deletes = FALSE, 0 \notin Keys PROVE Spec => Store!Spec /\ ImplementsKeyStore
<1>1. Init => Store!Init
  <2>1. Init => Working({}) /\ StoredTree({})
    BY InitWorks
  <2>2. QED
    BY <2>1, TreesRead DEF Store!Init
<1>2. TreesGood /\ [Next]_vars => [Store!Next]_Store!vars
  <2> SUFFICES ASSUME TreesGood, [Next]_vars
               PROVE  [Store!Next]_Store!vars
    OBVIOUS
  <2>1. PICK K, J : Working(K) /\ StoredTree(J)
    BY DEF TreesGood
  <2>2. PICK L, M : Working(L)' /\ StoredTree(M)' /\ TreeStep(K, J, L, M)
    BY <2>1, StepWorks
  <2>3. Readable = K /\ Stored = J /\ Readable' = L /\ Stored' = M
    BY <2>1, <2>2, ReadNext DEF ReadsAsHeld
  <2> HIDE DEF Readable, Stored
  <2>4. QED
    BY <2>2, <2>3 DEF TreeStep, Store!Next, Store!vars, Store!Put, Store!Commit, Store!Restart
<1>3. TreesGood => AsTheStore
  <2> SUFFICES ASSUME TreesGood
               PROVE  AsTheStore
    OBVIOUS
  <2>1. PICK K, J : Working(K) /\ StoredTree(J)
    BY DEF TreesGood
  <2>2. Readable = K /\ Stored = J
    BY <2>1, ReadNext DEF ReadsAsHeld
  <2>3. \A L, M : Working(L)' /\ StoredTree(M)' => Readable' = L /\ Stored' = M
    BY ReadNext DEF ReadsAsHeld
  <2>4. ASSUME NEW key \in Keys, Put(key)
        PROVE  Store!Put(key)
    <3>1. Working(K \cup {key})' /\ StoredTree(J)'
      BY <2>1, <2>4, PutWorks
    <3> HIDE DEF Readable, Stored
    <3>2. QED
      BY <2>2, <2>3, <3>1 DEF Store!Put
  <2>5. ASSUME NEW key \in Keys, Get(key)
        PROVE  UNCHANGED Store!vars
    <3>1. Working(K)' /\ StoredTree(J)'
      BY <2>1, <2>5, GetWorks
    <3> HIDE DEF Readable, Stored
    <3>2. QED
      BY <2>2, <2>3, <3>1 DEF Store!vars
  <2>6. ASSUME Commit
        PROVE  Store!Commit
    <3>1. Working(K)' /\ StoredTree(K)'
      BY <2>1, <2>6, CommitWorks
    <3> HIDE DEF Readable, Stored
    <3>2. QED
      BY <2>2, <2>3, <3>1 DEF Store!Commit
  <2>7. ASSUME Reopen
        PROVE  Store!Restart
    <3>1. Working(J)' /\ StoredTree(J)'
      BY <2>1, <2>7, ReopenWorks
    <3> HIDE DEF Readable, Stored
    <3>2. QED
      BY <2>2, <2>3, <3>1 DEF Store!Restart
  <2> HIDE DEF Readable, Stored
  <2>8. QED
    BY <2>4, <2>5, <2>6, <2>7 DEF AsTheStore
<1>4. QED
  BY <1>1, <1>2, <1>3, TreesStayGood, PTL DEF Spec, ImplementsKeyStore, Store!Spec
=============================================================================
