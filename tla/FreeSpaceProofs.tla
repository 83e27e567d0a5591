-------------------------- MODULE FreeSpaceProofs --------------------------
(***************************************************************************)
(* The free blocks, their groups and their two indexes stay consistent,    *)
(* and they implement the allocator of slots, for every size of the file   *)
(* and of the commits.                                                     *)
(*                                                                         *)
(* What is done to the blocks is proved for any consistent space first:    *)
(* one change of a group, one slot given back, one block used up.  The     *)
(* loops of the code, folds in the model, follow by induction over the     *)
(* sets they fold.                                                         *)
(***************************************************************************)
EXTENDS FreeSpace, SequenceTheorems, FiniteSetTheorems, WellFoundedInduction, TLAPS

-----------------------------------------------------------------------------
\* Induction, with what is to be shown of an element written as membership in a set

\* A set of numbers that is not empty has a least one.
LEMMA LeastNumber ==
  ASSUME NEW S \in SUBSET Nat, S # {}
  PROVE  \E m \in S : \A k \in S : m <= k
<1> DEFINE Less == OpToRel(<, Nat)
<1>1. PICK m \in S : \A k \in S : ~ (<<k, m>> \in Less)
  BY NatLessThanWellFounded, WFMin
<1>2. \A i, j \in Nat : i < j => <<i, j>> \in Less
  BY SMT DEF OpToRel
<1> HIDE DEF Less
<1>3. \A k \in S : ~ (k < m)
  BY <1>1, <1>2
<1>4. QED
  BY <1>3

\* What holds of 0 and goes from a number to the next holds of all.
LEMMA NumberInduction ==
  ASSUME NEW G, 0 \in G, \A k \in Nat : k \in G => k + 1 \in G
  PROVE  \A n \in Nat : n \in G
<1> SUFFICES ASSUME NEW n \in Nat, n \notin G
             PROVE  FALSE
  OBVIOUS
<1>1. PICK m \in Nat \ G : \A k \in Nat \ G : m <= k
  BY LeastNumber
<1>2. m # 0 /\ m - 1 \in Nat /\ m - 1 \in G
  BY <1>1
<1>3. QED
  BY <1>1, <1>2

\* What holds of a set when it holds of the proper subsets holds of all.
LEMMA SubsetInduction ==
  ASSUME NEW S, IsFiniteSet(S), NEW G,
         \A T \in SUBSET S : (\A U \in SUBSET T : U # T => U \in G) => T \in G
  PROVE  \A T \in SUBSET S : T \in G
<1> SUFFICES ASSUME NEW B \in SUBSET S, B \notin G
             PROVE  FALSE
  OBVIOUS
<1> DEFINE Bad == {T \in SUBSET S : T \notin G}
           Sizes == {Cardinality(T) : T \in Bad}
<1>1. \A T \in SUBSET S : IsFiniteSet(T) /\ Cardinality(T) \in Nat
  BY FS_Subset, FS_CardinalityType
<1>2. Sizes \in SUBSET Nat /\ Sizes # {}
  BY <1>1
<1>3. PICK m \in Sizes : \A k \in Sizes : m <= k
  BY <1>2, LeastNumber
<1>4. PICK T \in Bad : Cardinality(T) = m
  BY <1>3
<1>5. ASSUME NEW U \in SUBSET T, U # T
      PROVE  U \in G
  <2>1. IsFiniteSet(T) /\ Cardinality(U) <= Cardinality(T) /\ Cardinality(U) # Cardinality(T)
    BY <1>1, <1>4, <1>5, FS_Subset
  <2>2. U \in SUBSET S /\ Cardinality(U) \in Nat /\ Cardinality(T) \in Nat
    BY <1>1, <1>4
  <2>3. ~ (m <= Cardinality(U))
    BY <1>4, <2>1, <2>2
  <2>4. QED
    BY <1>3, <2>2, <2>3
<1>6. QED
  BY <1>4, <1>5

\* A set of numbers up to n that is not empty has a greatest one.
LEMMA MaxIsGreatest ==
  ASSUME NEW n \in Nat, NEW S \in SUBSET (1 .. n), S # {}
  PROVE  Max(S) \in S /\ \A k \in S : k <= Max(S)
<1> DEFINE D == {n - k : k \in S}
<1>1. D \in SUBSET Nat /\ D # {}
  <2>1. \A k \in S : n - k \in Nat
    OBVIOUS
  <2>2. QED
    BY <2>1
<1>2. PICK d \in D : \A e \in D : d <= e
  BY <1>1, LeastNumber
<1>3. PICK m \in S : d = n - m
  BY <1>2
<1>4. \A k \in S : m >= k
  <2> TAKE k \in S
  <2>1. n - k \in D
    OBVIOUS
  <2>2. d <= n - k
    BY <1>2, <2>1
  <2>3. QED
    BY <1>3, <2>2
<1>5. QED
  BY <1>3, <1>4 DEF Max

\* The lesser of two numbers.
LEMMA MinOfTwo ==
  ASSUME NEW i \in Nat, NEW j \in Nat
  PROVE  Min({i, j}) = IF i <= j THEN i ELSE j
<1> DEFINE m == IF i <= j THEN i ELSE j
<1>1. m \in {i, j} /\ \A y \in {i, j} : m <= y
  OBVIOUS
<1>2. \A x \in {i, j} : (\A y \in {i, j} : x <= y) => x = m
  OBVIOUS
<1> HIDE DEF m
<1>3. Min({i, j}) \in {i, j} /\ \A y \in {i, j} : Min({i, j}) <= y
  BY <1>1 DEF Min
<1>4. Min({i, j}) = m
  BY <1>2, <1>3
<1>5. QED
  BY <1>4 DEF m

-----------------------------------------------------------------------------
\* Sums over a finite set, the way MapThenSumSet adds them up

Some(s) == CHOOSE x \in s : TRUE

\* The sums of d over the subsets of S.
Sums(S, d) ==
  CHOOSE f : f = [s \in SUBSET S |-> IF s = {} THEN 0 ELSE d[Some(s)] + f[s \ {Some(s)}]]

\* There is such a function: the sums over ever larger subsets.
LEMMA SumsExist ==
  ASSUME NEW S, IsFiniteSet(S), NEW d
  PROVE  \A s \in SUBSET S :
           Sums(S, d)[s] = IF s = {} THEN 0 ELSE d[Some(s)] + Sums(S, d)[s \ {Some(s)}]
<1> DEFINE Turn(f, s) == IF s = {} THEN 0 ELSE d[Some(s)] + f[s \ {Some(s)}]
           Loop(f, k) == f = [s \in {t \in SUBSET S : Cardinality(t) <= k} |-> Turn(f, s)]
<1>1. /\ Cardinality(S) \in Nat
      /\ \A s \in SUBSET S : /\ IsFiniteSet(s) /\ Cardinality(s) \in Nat
                             /\ Cardinality(s) <= Cardinality(S)
  BY FS_Subset, FS_CardinalityType
<1>2. \A s \in SUBSET S : s # {} =>
        /\ Some(s) \in s /\ s \ {Some(s)} \in SUBSET S
        /\ Cardinality(s \ {Some(s)}) = Cardinality(s) - 1
  BY <1>1, FS_RemoveElement DEF Some
<1>3. \A k \in Nat : \E f : Loop(f, k)
  <2> DEFINE G == {k \in Nat : \E f : Loop(f, k)}
  <2>1. 0 \in G
    <3> DEFINE f == [s \in {t \in SUBSET S : Cardinality(t) <= 0} |-> 0]
    <3>1. \A s \in SUBSET S : Cardinality(s) <= 0 => s = {}
      BY <1>1, FS_EmptySet
    <3>2. Loop(f, 0)
      BY <3>1
    <3>3. QED
      BY <3>2
  <2>2. ASSUME NEW k \in Nat, k \in G
        PROVE  k + 1 \in G
    <3>0. k \in Nat /\ k + 1 \in Nat
      BY <2>2
    <3>1. PICK f : Loop(f, k)
      BY <2>2
    <3> DEFINE Small(i) == {t \in SUBSET S : Cardinality(t) <= i}
               h == [s \in Small(k + 1) |-> Turn(f, s)]
    <3>2. \A s \in Small(k + 1) : s # {} => s \ {Some(s)} \in Small(k)
      BY <1>1, <1>2
    <3>3. \A s \in Small(k) : s \in Small(k + 1)
      BY <1>1
    <3>4. \A s \in Small(k) : h[s] = f[s]
      BY <3>1, <3>3
    <3>5. \A s \in Small(k + 1) : Turn(h, s) = Turn(f, s)
      <4> HIDE DEF h, Small
      <4>1. QED
        BY <3>2, <3>4
    <3>6. Loop(h, k + 1)
      <4>1. h = [s \in Small(k + 1) |-> Turn(f, s)]
        OBVIOUS
      <4> HIDE DEF h, Turn
      <4>2. QED
        BY <3>5, <4>1
    <3> HIDE DEF Loop, h
    <3>7. \E e : Loop(e, k + 1)
      BY <3>6
    <3>8. QED
      BY <3>0, <3>7
  <2> HIDE DEF Loop
  <2>3. \A k \in Nat : k \in G
    <3> HIDE DEF G
    <3>1. QED
      BY <2>1, <2>2, NumberInduction
  <2>4. QED
    BY <2>3
<1>4. {t \in SUBSET S : Cardinality(t) <= Cardinality(S)} = SUBSET S
  BY <1>1
<1>5. \E f : f = [s \in SUBSET S |-> Turn(f, s)]
  <2> HIDE DEF Turn
  <2>1. PICK f : Loop(f, Cardinality(S))
    <3> HIDE DEF Loop
    <3>1. QED
      BY <1>1, <1>3
  <2>2. QED
    BY <1>4, <2>1
<1>6. Sums(S, d) = CHOOSE f : f = [s \in SUBSET S |-> Turn(f, s)]
  BY DEF Sums
<1> HIDE DEF Turn, Loop
<1>7. Sums(S, d) = [s \in SUBSET S |-> Turn(Sums(S, d), s)]
  BY <1>5, <1>6
<1>8. \A s \in SUBSET S : Sums(S, d)[s] = Turn(Sums(S, d), s)
  <2> DEFINE g == Sums(S, d)
  <2>1. g = [s \in SUBSET S |-> Turn(g, s)]
    BY <1>7
  <2> HIDE DEF g
  <2>2. \A s \in SUBSET S : g[s] = Turn(g, s)
    BY <2>1
  <2>3. QED
    BY <2>2 DEF g
<1>9. QED
  BY <1>8 DEF Turn

-----------------------------------------------------------------------------
\* A consistent space

\* The slots of a set of blocks.
Cover(block) == UNION {block[b].base .. End_Address(block[b]) - 1 : b \in DOMAIN block}

\* No two blocks overlap or touch.
Apart(block) ==
  \A b, c \in DOMAIN block :
    b # c => End_Address(block[b]) < block[c].base \/ End_Address(block[c]) < block[b].base

Block == [base : 1 .. MaxSlot, length : 1 .. MaxSlot]

Blocks(block) ==
  /\ block \in [DOMAIN block -> Block]
  /\ DOMAIN block \subseteq 1 .. MaxSlot
  /\ \A b \in DOMAIN block : End_Address(block[b]) <= MaxSlot + 1

Maps == UNION {[A -> 1 .. MaxSlot] : A \in SUBSET (1 .. MaxSlot)}
Group == [length : 1 .. MaxSlot, blocks : Maps]

\* The groups hold every block, each under its address in the group of its length.
Grouped(groups, block) ==
  /\ groups \in Seq(Group)
  /\ \A i, j \in 1 .. Len(groups) : groups[i].length = groups[j].length => i = j
  /\ \A i \in 1 .. Len(groups) :
       /\ DOMAIN groups[i].blocks # {}
       /\ \A a \in DOMAIN groups[i].blocks :
            /\ groups[i].blocks[a] \in DOMAIN block
            /\ block[groups[i].blocks[a]] = [base |-> a, length |-> groups[i].length]
  /\ \A b \in DOMAIN block : \E i \in 1 .. Len(groups) :
       /\ groups[i].length = block[b].length
       /\ block[b].base \in DOMAIN groups[i].blocks
       /\ groups[i].blocks[block[b].base] = b

\* An index holds every block under its key: its first address, or the one after its last.
Indexed(index, key) ==
  /\ index = [a \in Range(key) |-> index[a]]
  /\ \A b \in DOMAIN key : index[key[b]] = b
Bases(block) == [b \in DOMAIN block |-> block[b].base]
Ends(block) == [b \in DOMAIN block |-> End_Address(block[b])]

Agree(block, groups, base, end) ==
  /\ Blocks(block) /\ Apart(block)
  /\ Grouped(groups, block)
  /\ Indexed(base, Bases(block))
  /\ Indexed(end, Ends(block))

Record(sp) == DOMAIN sp = {"block", "groups", "base", "end", "thrown"}

Consistent(sp) ==
  /\ Record(sp)
  /\ Agree(sp.block, sp.groups, sp.base, sp.end)
  /\ sp.thrown = FALSE

\* What With and Without make of a map.
LEMMA MapsChange ==
  ASSUME NEW f \in Maps, NEW a \in 1 .. MaxSlot, NEW b \in 1 .. MaxSlot
  PROVE  With(f, a, b) \in Maps /\ Without(f, a) \in Maps
<1>1. PICK A \in SUBSET (1 .. MaxSlot) : f \in [A -> 1 .. MaxSlot]
  BY DEF Maps
<1>2. With(f, a, b) \in [A \cup {a} -> 1 .. MaxSlot]
  BY <1>1 DEF With
<1>3. Without(f, a) \in [A \ {a} -> 1 .. MaxSlot]
  BY <1>1 DEF Without
<1>4. QED
  BY <1>2, <1>3 DEF Maps

\* A sequence without its element i.
LEMMA RemoveAtShape ==
  ASSUME NEW T, NEW s \in Seq(T), NEW i \in 1 .. Len(s)
  PROVE  /\ RemoveAt(s, i) \in Seq(T)
         /\ Len(RemoveAt(s, i)) = Len(s) - 1
         /\ \A j \in 1 .. Len(s) - 1 : RemoveAt(s, i)[j] = IF j < i THEN s[j] ELSE s[j + 1]
<1> DEFINE low == SubSeq(s, 1, i - 1)
           high == SubSeq(s, i + 1, Len(s))
<1>1. low \in Seq(T) /\ Len(low) = i - 1 /\ \A j \in 1 .. i - 1 : low[j] = s[j]
  OBVIOUS
<1>2. high \in Seq(T) /\ Len(high) = Len(s) - i /\ \A j \in 1 .. Len(s) - i : high[j] = s[i + j]
  OBVIOUS
<1>3. RemoveAt(s, i) = low \o high
  BY DEF RemoveAt
<1> HIDE DEF low, high
<1>4. /\ low \o high \in Seq(T) /\ Len(low \o high) = Len(s) - 1
      /\ \A j \in 1 .. Len(s) - 1 :
           (low \o high)[j] = IF j <= i - 1 THEN low[j] ELSE high[j - (i - 1)]
  BY <1>1, <1>2, ConcatProperties
<1>5. ASSUME NEW j \in 1 .. Len(s) - 1
      PROVE  (low \o high)[j] = IF j < i THEN s[j] ELSE s[j + 1]
  <2>1. CASE j < i
    BY <1>1, <1>4, <2>1
  <2>2. CASE ~ (j < i)
    <3>1. j - (i - 1) \in 1 .. Len(s) - i /\ i + (j - (i - 1)) = j + 1
      BY <2>2
    <3>2. QED
      BY <1>2, <1>4, <2>2, <3>1
  <2>3. QED
    BY <2>1, <2>2
<1>6. QED
  BY <1>3, <1>4, <1>5

-----------------------------------------------------------------------------
\* One block leaves a group, or enters one

\* The block is found where its length and its address say, whatever group it is in.
LEMMA GroupFound ==
  ASSUME NEW groups, NEW block, Grouped(groups, block), NEW b \in DOMAIN block
  PROVE  /\ Has_Group(groups, block[b].length)
         /\ Last_Group(groups, block[b].length) \in 1 .. Len(groups)
         /\ LET g == groups[Last_Group(groups, block[b].length)] IN
            /\ g.length = block[b].length
            /\ block[b].base \in DOMAIN g.blocks
            /\ g.blocks[block[b].base] = b
<1>1. PICK i \in 1 .. Len(groups) :
        /\ groups[i].length = block[b].length
        /\ block[b].base \in DOMAIN groups[i].blocks
        /\ groups[i].blocks[block[b].base] = b
  BY DEF Grouped
<1>2. DOMAIN groups = 1 .. Len(groups) /\ Len(groups) \in Nat
  BY DEF Grouped
<1>3. \A j \in DOMAIN groups : groups[j].length = block[b].length => j = i
  BY <1>1, <1>2 DEF Grouped
<1>4. Last_Group(groups, block[b].length) = i
  BY <1>1, <1>2, <1>3 DEF Last_Group
<1>5. QED
  BY <1>1, <1>2, <1>4 DEF Has_Group

\* Without the block, the groups are those of the other blocks.
LEMMA GroupLosesBlock ==
  ASSUME NEW groups, NEW block, Blocks(block), Grouped(groups, block), NEW b \in DOMAIN block
  PROVE  Grouped(Remove_From_Group(groups, block[b].length, block[b].base), Without(block, b))
<1> DEFINE L == block[b].length
           A == block[b].base
           i == Last_Group(groups, L)
           left == Without(groups[i].blocks, A)
           rest == Without(block, b)
<1>1. /\ i \in 1 .. Len(groups) /\ groups[i].length = L
      /\ A \in DOMAIN groups[i].blocks /\ groups[i].blocks[A] = b
  BY GroupFound
<1>2. groups \in Seq(Group) /\ Len(groups) \in Nat /\ DOMAIN groups = 1 .. Len(groups)
  BY DEF Grouped
<1>3. /\ b \in 1 .. MaxSlot /\ A \in 1 .. MaxSlot
      /\ DOMAIN rest = DOMAIN block \ {b} /\ \A c \in DOMAIN rest : rest[c] = block[c]
  BY DEF Blocks, Block, Without
<1>4. Remove_From_Group(groups, L, A) =
        IF left = Empty THEN RemoveAt(groups, i) ELSE [groups EXCEPT ![i].blocks = left]
  BY DEF Remove_From_Group
<1>5. /\ DOMAIN left = DOMAIN groups[i].blocks \ {A}
      /\ \A a \in DOMAIN left : left[a] = groups[i].blocks[a]
      /\ left \in Maps
  <2>0. groups[i] \in Group
    BY <1>1, <1>2, ElementOfSeq
  <2>1. groups[i].blocks \in Maps
    BY <2>0 DEF Group
  <2>2. QED
    BY <1>3, <2>1, MapsChange DEF Without
<1>6. \A j \in 1 .. Len(groups) : \A a \in DOMAIN groups[j].blocks :
        j # i \/ a # A =>
          /\ groups[j].blocks[a] \in DOMAIN rest
          /\ rest[groups[j].blocks[a]] = [base |-> a, length |-> groups[j].length]
  <2> TAKE j \in 1 .. Len(groups)
  <2> TAKE a \in DOMAIN groups[j].blocks
  <2> HAVE j # i \/ a # A
  <2>1. /\ groups[j].blocks[a] \in DOMAIN block
        /\ block[groups[j].blocks[a]] = [base |-> a, length |-> groups[j].length]
    BY DEF Grouped
  <2>2. groups[j].blocks[a] # b
    <3> SUFFICES ASSUME groups[j].blocks[a] = b
                 PROVE  FALSE
      OBVIOUS
    <3>1. a = A /\ groups[j].length = L
      BY <2>1
    <3>2. QED
      BY <1>1, <3>1 DEF Grouped
  <2>3. QED
    BY <1>3, <2>1, <2>2
<1>7. \A c \in DOMAIN rest : \E j \in 1 .. Len(groups) :
        /\ groups[j].length = rest[c].length
        /\ rest[c].base \in DOMAIN groups[j].blocks
        /\ groups[j].blocks[rest[c].base] = c
        /\ j # i \/ rest[c].base # A
  BY <1>1, <1>3 DEF Grouped
<1> HIDE DEF L, A, i, left, rest
<1>8. CASE left = Empty
  <2> DEFINE new == RemoveAt(groups, i)
             Old(j) == IF j < i THEN j ELSE j + 1
  <2>1. /\ new \in Seq(Group) /\ Len(new) = Len(groups) - 1
        /\ \A j \in 1 .. Len(groups) - 1 : new[j] = groups[Old(j)]
    BY <1>1, <1>2, RemoveAtShape
  <2>2. \A a \in DOMAIN groups[i].blocks : a = A
    <3>1. DOMAIN left = {}
      BY <1>8 DEF Empty
    <3>2. QED
      BY <1>5, <3>1
  <2> HIDE DEF new
  <2>3. \A j \in 1 .. Len(new) : Old(j) \in 1 .. Len(groups) /\ Old(j) # i /\ new[j] = groups[Old(j)]
    BY <1>1, <1>2, <2>1
  <2>4. \A j, k \in 1 .. Len(new) : new[j].length = new[k].length => j = k
    <3> TAKE j, k \in 1 .. Len(new)
    <3> HAVE new[j].length = new[k].length
    <3>1. Old(j) = Old(k)
      BY <2>3 DEF Grouped
    <3>2. QED
      BY <1>1, <1>2, <2>1, <3>1
  <2>5. \A j \in 1 .. Len(new) :
          /\ DOMAIN new[j].blocks # {}
          /\ \A a \in DOMAIN new[j].blocks :
               /\ new[j].blocks[a] \in DOMAIN rest
               /\ rest[new[j].blocks[a]] = [base |-> a, length |-> new[j].length]
    <3> TAKE j \in 1 .. Len(new)
    <3>1. Old(j) \in 1 .. Len(groups) /\ Old(j) # i /\ new[j] = groups[Old(j)]
      BY <2>3
    <3>2. DOMAIN groups[Old(j)].blocks # {}
      BY <3>1 DEF Grouped
    <3> HIDE DEF Old
    <3>3. QED
      BY <1>6, <3>1, <3>2
  <2>6. \A c \in DOMAIN rest : \E k \in 1 .. Len(new) :
          /\ new[k].length = rest[c].length
          /\ rest[c].base \in DOMAIN new[k].blocks
          /\ new[k].blocks[rest[c].base] = c
    <3> TAKE c \in DOMAIN rest
    <3>1. PICK j \in 1 .. Len(groups) :
            /\ groups[j].length = rest[c].length
            /\ rest[c].base \in DOMAIN groups[j].blocks
            /\ groups[j].blocks[rest[c].base] = c
            /\ j # i \/ rest[c].base # A
      BY <1>7
    <3>2. j # i
      BY <2>2, <3>1
    <3>3. PICK k \in 1 .. Len(groups) - 1 : Old(k) = j
      <4>1. CASE j < i
        <5>1. j \in 1 .. Len(groups) - 1 /\ Old(j) = j
          BY <1>1, <1>2, <4>1
        <5>2. QED
          BY <5>1
      <4>2. CASE j > i
        <5>1. j - 1 \in 1 .. Len(groups) - 1 /\ Old(j - 1) = j
          BY <1>1, <1>2, <4>2
        <5>2. QED
          BY <5>1
      <4>3. QED
        BY <1>1, <1>2, <3>2, <4>1, <4>2
    <3>4. k \in 1 .. Len(new) /\ new[k] = groups[j]
      BY <2>1, <3>3
    <3>5. QED
      BY <3>1, <3>4
  <2>7. Grouped(new, rest)
    BY <2>1, <2>4, <2>5, <2>6 DEF Grouped
  <2>8. QED
    BY <1>4, <1>8, <2>7 DEF new, rest, L, A
<1>9. CASE left # Empty
  <2> DEFINE new == [groups EXCEPT ![i].blocks = left]
  <2>1. DOMAIN left # {}
    <3>1. left = [x \in DOMAIN left |-> left[x]]
      BY <1>5 DEF Maps
    <3>2. QED
      BY <1>9, <3>1 DEF Empty
  <2>2. /\ new \in Seq(Group) /\ Len(new) = Len(groups)
        /\ new[i] = [length |-> groups[i].length, blocks |-> left]
        /\ \A j \in 1 .. Len(groups) : j # i => new[j] = groups[j]
    <3>0. groups[i] \in Group
      BY <1>1, <1>2, ElementOfSeq
    <3>1. groups[i].length \in 1 .. MaxSlot /\ [groups[i] EXCEPT !.blocks = left] = [length |-> groups[i].length, blocks |-> left]
      BY <3>0 DEF Group
    <3>2. [length |-> groups[i].length, blocks |-> left] \in Group
      BY <1>5, <3>1 DEF Group
    <3>3. new = [groups EXCEPT ![i] = [length |-> groups[i].length, blocks |-> left]]
      BY <3>1
    <3> HIDE DEF new
    <3>4. QED
      BY <1>1, <1>2, <3>2, <3>3
  <2> HIDE DEF new
  <2>3. \A j \in 1 .. Len(new) : new[j].length = groups[j].length
    BY <2>2
  <2>4. \A j, k \in 1 .. Len(new) : new[j].length = new[k].length => j = k
    BY <2>2, <2>3 DEF Grouped
  <2>5. \A j \in 1 .. Len(new) :
          /\ DOMAIN new[j].blocks # {}
          /\ \A a \in DOMAIN new[j].blocks :
               /\ new[j].blocks[a] \in DOMAIN rest
               /\ rest[new[j].blocks[a]] = [base |-> a, length |-> new[j].length]
    <3> TAKE j \in 1 .. Len(new)
    <3>1. CASE j = i
      <4>1. new[j].blocks = left /\ new[j].length = groups[i].length
        BY <2>2, <3>1
      <4>2. \A a \in DOMAIN left : a \in DOMAIN groups[i].blocks /\ a # A /\ left[a] = groups[i].blocks[a]
        BY <1>5
      <4>3. QED
        BY <1>1, <1>6, <2>1, <4>1, <4>2
    <3>2. CASE j # i
      <4>1. DOMAIN groups[j].blocks # {}
        BY <2>2 DEF Grouped
      <4>2. QED
        BY <1>6, <2>2, <3>2, <4>1
    <3>3. QED
      BY <3>1, <3>2
  <2>6. \A c \in DOMAIN rest : \E k \in 1 .. Len(new) :
          /\ new[k].length = rest[c].length
          /\ rest[c].base \in DOMAIN new[k].blocks
          /\ new[k].blocks[rest[c].base] = c
    <3> TAKE c \in DOMAIN rest
    <3>1. PICK j \in 1 .. Len(groups) :
            /\ groups[j].length = rest[c].length
            /\ rest[c].base \in DOMAIN groups[j].blocks
            /\ groups[j].blocks[rest[c].base] = c
            /\ j # i \/ rest[c].base # A
      BY <1>7
    <3>2. CASE j = i
      BY <1>5, <2>2, <3>1, <3>2
    <3>3. CASE j # i
      BY <2>2, <3>1, <3>3
    <3>4. QED
      BY <3>2, <3>3
  <2>7. Grouped(new, rest)
    BY <2>2, <2>4, <2>5, <2>6 DEF Grouped
  <2>8. QED
    BY <1>4, <1>9, <2>7 DEF new, rest, L, A
<1>10. QED
  BY <1>8, <1>9

\* With a new block, the groups are those of the blocks with it.
LEMMA GroupGainsBlock ==
  ASSUME NEW groups, NEW block, Grouped(groups, block),
         NEW b \in 1 .. MaxSlot, b \notin DOMAIN block,
         NEW A \in 1 .. MaxSlot, NEW L \in 1 .. MaxSlot,
         \A c \in DOMAIN block : block[c].base # A
  PROVE  Grouped(Put_In_Group(groups, L, A, b), With(block, b, [base |-> A, length |-> L]))
<1> DEFINE all == With(block, b, [base |-> A, length |-> L])
           i == Last_Group(groups, L)
<1>1. groups \in Seq(Group) /\ Len(groups) \in Nat /\ DOMAIN groups = 1 .. Len(groups)
  BY DEF Grouped
<1>2. /\ DOMAIN all = DOMAIN block \cup {b} /\ all[b] = [base |-> A, length |-> L]
      /\ \A c \in DOMAIN block : all[c] = block[c]
  BY DEF With
<1>3. \A j \in 1 .. Len(groups) :
        /\ DOMAIN groups[j].blocks # {}
        /\ \A a \in DOMAIN groups[j].blocks :
             /\ groups[j].blocks[a] \in DOMAIN all
             /\ all[groups[j].blocks[a]] = [base |-> a, length |-> groups[j].length]
             /\ a # A
  <2> TAKE j \in 1 .. Len(groups)
  <2>1. DOMAIN groups[j].blocks # {}
    BY DEF Grouped
  <2>2. ASSUME NEW a \in DOMAIN groups[j].blocks
        PROVE  /\ groups[j].blocks[a] \in DOMAIN all
               /\ all[groups[j].blocks[a]] = [base |-> a, length |-> groups[j].length]
               /\ a # A
    <3>1. /\ groups[j].blocks[a] \in DOMAIN block
          /\ block[groups[j].blocks[a]] = [base |-> a, length |-> groups[j].length]
      BY DEF Grouped
    <3>2. block[groups[j].blocks[a]].base = a
      BY <3>1
    <3>3. QED
      BY <1>2, <3>1, <3>2
  <2>3. QED
    BY <2>1, <2>2
<1>4. \A c \in DOMAIN block : \E j \in 1 .. Len(groups) :
        /\ groups[j].length = all[c].length
        /\ all[c].base \in DOMAIN groups[j].blocks
        /\ groups[j].blocks[all[c].base] = c
  BY <1>2 DEF Grouped
<1> HIDE DEF all
<1>5. CASE Has_Group(groups, L)
  <2> DEFINE more == With(groups[i].blocks, A, b)
             new == [groups EXCEPT ![i].blocks = more]
  <2>1. i \in 1 .. Len(groups) /\ groups[i].length = L
    <3>1. PICK j \in 1 .. Len(groups) : groups[j].length = L
      BY <1>1, <1>5 DEF Has_Group
    <3>2. \A k \in 1 .. Len(groups) : groups[k].length = L => k <= j
      BY <1>1, <3>1 DEF Grouped
    <3>3. QED
      BY <1>1, <3>1, <3>2 DEF Last_Group
  <2>2. Put_In_Group(groups, L, A, b) = new
    BY <1>5 DEF Put_In_Group
  <2>3. /\ more \in Maps
        /\ DOMAIN more = DOMAIN groups[i].blocks \cup {A} /\ more[A] = b
        /\ \A a \in DOMAIN groups[i].blocks : a # A => more[a] = groups[i].blocks[a]
    <3>0. groups[i] \in Group
      BY <1>1, <2>1, ElementOfSeq
    <3>1. groups[i].blocks \in Maps
      BY <3>0 DEF Group
    <3>2. QED
      BY <3>1, MapsChange DEF With
  <2> HIDE DEF i, more
  <2>4. /\ new \in Seq(Group) /\ Len(new) = Len(groups)
        /\ new[i] = [length |-> L, blocks |-> more]
        /\ \A j \in 1 .. Len(groups) : j # i => new[j] = groups[j]
    <3>0. groups[i] \in Group
      BY <1>1, <2>1, ElementOfSeq
    <3>1. [groups[i] EXCEPT !.blocks = more] = [length |-> L, blocks |-> more]
      BY <2>1, <3>0 DEF Group
    <3>2. [length |-> L, blocks |-> more] \in Group
      BY <2>3 DEF Group
    <3>3. new = [groups EXCEPT ![i] = [length |-> L, blocks |-> more]]
      BY <3>1
    <3> HIDE DEF new
    <3>4. QED
      BY <1>1, <2>1, <3>2, <3>3
  <2> HIDE DEF new
  <2>5. \A j, k \in 1 .. Len(new) : new[j].length = new[k].length => j = k
    <3>1. \A j \in 1 .. Len(new) : new[j].length = groups[j].length
      BY <2>1, <2>4
    <3>2. QED
      BY <2>4, <3>1 DEF Grouped
  <2>6. \A j \in 1 .. Len(new) :
          /\ DOMAIN new[j].blocks # {}
          /\ \A a \in DOMAIN new[j].blocks :
               /\ new[j].blocks[a] \in DOMAIN all
               /\ all[new[j].blocks[a]] = [base |-> a, length |-> new[j].length]
    <3> TAKE j \in 1 .. Len(new)
    <3>1. CASE j = i
      <4>1. new[j].blocks = more /\ new[j].length = L
        BY <2>4, <3>1
      <4>2. more[A] \in DOMAIN all /\ all[more[A]] = [base |-> A, length |-> L]
        BY <1>2, <2>3
      <4>3. QED
        BY <1>3, <2>1, <2>3, <4>1, <4>2
    <3>2. CASE j # i
      BY <1>3, <2>4, <3>2
    <3>3. QED
      BY <3>1, <3>2
  <2>7. \A c \in DOMAIN all : \E k \in 1 .. Len(new) :
          /\ new[k].length = all[c].length
          /\ all[c].base \in DOMAIN new[k].blocks
          /\ new[k].blocks[all[c].base] = c
    <3> TAKE c \in DOMAIN all
    <3>1. CASE c = b
      BY <1>2, <2>1, <2>3, <2>4, <3>1
    <3>2. CASE c # b
      <4>1. PICK j \in 1 .. Len(groups) :
              /\ groups[j].length = all[c].length
              /\ all[c].base \in DOMAIN groups[j].blocks
              /\ groups[j].blocks[all[c].base] = c
        BY <1>2, <1>4, <3>2
      <4>2. CASE j = i
        <5>1. all[c].base \in DOMAIN groups[i].blocks /\ all[c].base # A
          BY <1>3, <2>1, <4>1, <4>2
        <5>2. more[all[c].base] = c /\ all[c].base \in DOMAIN more
          BY <2>3, <4>1, <4>2, <5>1
        <5>3. QED
          BY <2>1, <2>4, <4>1, <4>2, <5>2
      <4>3. CASE j # i
        BY <2>4, <4>1, <4>3
      <4>4. QED
        BY <4>2, <4>3
    <3>3. QED
      BY <3>1, <3>2
  <2>8. Grouped(new, all)
    BY <2>4, <2>5, <2>6, <2>7 DEF Grouped
  <2>9. QED
    BY <2>2, <2>8 DEF all
<1>6. CASE ~ Has_Group(groups, L)
  <2> DEFINE more == With(Empty, A, b)
             new == Append(groups, [length |-> L, blocks |-> more])
  <2>1. Put_In_Group(groups, L, A, b) = new
    BY <1>6 DEF Put_In_Group
  <2>2. more \in Maps /\ DOMAIN more = {A} /\ more[A] = b
    <3>1. more \in [{A} -> 1 .. MaxSlot] /\ more[A] = b
      BY DEF With, Empty
    <3>2. QED
      BY <3>1 DEF Maps
  <2> HIDE DEF more
  <2>3. /\ new \in Seq(Group) /\ Len(new) = Len(groups) + 1
        /\ new[Len(groups) + 1] = [length |-> L, blocks |-> more]
        /\ \A j \in 1 .. Len(groups) : new[j] = groups[j]
    <3>1. [length |-> L, blocks |-> more] \in Group
      BY <2>2 DEF Group
    <3>2. QED
      BY <1>1, <3>1
  <2> HIDE DEF new
  <2>4. \A j \in 1 .. Len(groups) : groups[j].length # L
    BY <1>1, <1>6 DEF Has_Group
  <2>5. \A j, k \in 1 .. Len(new) : new[j].length = new[k].length => j = k
    <3> TAKE j, k \in 1 .. Len(new)
    <3> HAVE new[j].length = new[k].length
    <3>1. CASE j \in 1 .. Len(groups) /\ k \in 1 .. Len(groups)
      BY <2>3, <3>1 DEF Grouped
    <3>2. CASE j = Len(groups) + 1 \/ k = Len(groups) + 1
      BY <1>1, <2>3, <2>4, <3>2
    <3>3. QED
      BY <1>1, <2>3, <3>1, <3>2
  <2>6. \A j \in 1 .. Len(new) :
          /\ DOMAIN new[j].blocks # {}
          /\ \A a \in DOMAIN new[j].blocks :
               /\ new[j].blocks[a] \in DOMAIN all
               /\ all[new[j].blocks[a]] = [base |-> a, length |-> new[j].length]
    <3> TAKE j \in 1 .. Len(new)
    <3>1. CASE j = Len(groups) + 1
      <4>1. new[j].blocks = more /\ new[j].length = L
        BY <2>3, <3>1
      <4>2. QED
        BY <1>2, <2>2, <4>1
    <3>2. CASE j \in 1 .. Len(groups)
      BY <1>3, <2>3, <3>2
    <3>3. QED
      BY <1>1, <2>3, <3>1, <3>2
  <2>7. \A c \in DOMAIN all : \E k \in 1 .. Len(new) :
          /\ new[k].length = all[c].length
          /\ all[c].base \in DOMAIN new[k].blocks
          /\ new[k].blocks[all[c].base] = c
    <3> TAKE c \in DOMAIN all
    <3>1. CASE c = b
      <4>1. Len(groups) + 1 \in 1 .. Len(new)
        BY <1>1, <2>3
      <4>2. QED
        BY <1>2, <2>2, <2>3, <3>1, <4>1
    <3>2. CASE c # b
      <4>1. PICK j \in 1 .. Len(groups) :
              /\ groups[j].length = all[c].length
              /\ all[c].base \in DOMAIN groups[j].blocks
              /\ groups[j].blocks[all[c].base] = c
        BY <1>2, <1>4, <3>2
      <4>2. j \in 1 .. Len(new)
        BY <1>1, <2>3
      <4>3. QED
        BY <2>3, <4>1, <4>2
    <3>3. QED
      BY <3>1, <3>2
  <2>8. Grouped(new, all)
    BY <2>3, <2>5, <2>6, <2>7 DEF Grouped
  <2>9. QED
    BY <2>1, <2>8 DEF all
<1>7. QED
  BY <1>5, <1>6

-----------------------------------------------------------------------------
\* One block leaves the space, or enters it: whatever the code does to a block
\* is one after the other

\* What an index says of an address is the block with that address.
LEMMA LookUp ==
  ASSUME NEW index, NEW key, Indexed(index, key), NEW a \in DOMAIN index
  PROVE  index[a] \in DOMAIN key /\ key[index[a]] = a
<1>1. DOMAIN index = Range(key)
  BY DEF Indexed
<1>2. PICK b \in DOMAIN key : a = key[b]
  BY <1>1 DEF Range
<1>3. QED
  BY <1>2 DEF Indexed

\* An index without the key of a block that goes indexes the others.
LEMMA IndexLoses ==
  ASSUME NEW index, NEW key, Indexed(index, key), NEW b \in DOMAIN key
  PROVE  Indexed(Without(index, key[b]), Without(key, b))
<1> DEFINE i == Without(index, key[b])
           k == Without(key, b)
<1>1. DOMAIN k = DOMAIN key \ {b} /\ \A c \in DOMAIN k : k[c] = key[c]
  BY DEF Without
<1>2. DOMAIN i = DOMAIN index \ {key[b]} /\ (\A a \in DOMAIN i : i[a] = index[a])
      /\ i = [a \in DOMAIN i |-> i[a]]
  BY DEF Without
<1>3. DOMAIN index = Range(key) /\ \A c \in DOMAIN key : index[key[c]] = c
  BY DEF Indexed
<1> HIDE DEF i, k
<1>4. \A c \in DOMAIN k : k[c] \in DOMAIN index /\ k[c] # key[b]
  BY <1>1, <1>3 DEF Range
<1>5. Range(k) = DOMAIN i
  <2>1. \A c \in DOMAIN k : k[c] \in DOMAIN i
    BY <1>2, <1>4
  <2>2. \A a \in DOMAIN i : \E c \in DOMAIN k : a = k[c]
    BY <1>1, <1>2, <1>3 DEF Range
  <2>3. QED
    BY <2>1, <2>2 DEF Range
<1>6. \A c \in DOMAIN k : i[k[c]] = c
  BY <1>1, <1>2, <1>3, <1>4
<1>7. QED
  BY <1>2, <1>5, <1>6 DEF Indexed, i, k

\* An index with the key of one more block indexes it and the others.
LEMMA IndexGains ==
  ASSUME NEW index, NEW key, Indexed(index, key), NEW b, b \notin DOMAIN key,
         NEW a, a \notin Range(key)
  PROVE  Indexed(With(index, a, b), With(key, b, a))
<1> DEFINE i == With(index, a, b)
           k == With(key, b, a)
<1>1. /\ DOMAIN k = DOMAIN key \cup {b} /\ k[b] = a
      /\ \A c \in DOMAIN key : k[c] = key[c]
  BY DEF With
<1>2. /\ DOMAIN i = DOMAIN index \cup {a} /\ i[a] = b
      /\ (\A x \in DOMAIN index : x # a => i[x] = index[x])
      /\ i = [x \in DOMAIN i |-> i[x]]
  BY DEF With
<1>3. DOMAIN index = Range(key) /\ \A c \in DOMAIN key : index[key[c]] = c
  BY DEF Indexed
<1> HIDE DEF i, k
<1>4. Range(k) = DOMAIN i
  <2>1. \A c \in DOMAIN k : k[c] \in DOMAIN i
    BY <1>1, <1>2, <1>3 DEF Range
  <2>2. \A x \in DOMAIN i : \E c \in DOMAIN k : x = k[c]
    BY <1>1, <1>2, <1>3 DEF Range
  <2>3. QED
    BY <2>1, <2>2 DEF Range
<1>5. \A c \in DOMAIN k : i[k[c]] = c
  <2> TAKE c \in DOMAIN k
  <2>1. CASE c = b
    BY <1>1, <1>2, <2>1
  <2>2. CASE c # b
    <3>1. c \in DOMAIN key /\ k[c] = key[c] /\ key[c] \in DOMAIN index /\ key[c] # a
      BY <1>1, <1>3, <2>2 DEF Range
    <3>2. QED
      BY <1>2, <1>3, <3>1
  <2>3. QED
    BY <2>1, <2>2
<1>6. QED
  BY <1>2, <1>4, <1>5 DEF Indexed, i, k

\* Taken out and put back under the same address, nothing has changed.
LEMMA PutBack ==
  ASSUME NEW f, f = [x \in DOMAIN f |-> f[x]], NEW a \in DOMAIN f
  PROVE  With(Without(f, a), a, f[a]) = f
<1> DEFINE g == With(Without(f, a), a, f[a])
<1>1. /\ DOMAIN g = DOMAIN f /\ g = [x \in DOMAIN g |-> g[x]]
      /\ \A x \in DOMAIN f : g[x] = f[x]
  BY DEF With, Without
<1> HIDE DEF g
<1>2. g = f
  BY <1>1
<1>3. QED
  BY <1>2 DEF g

\* The ends of blocks are what their fields say.
LEMMA BlockFacts ==
  ASSUME MaxSlot \in Nat, NEW block, Blocks(block), NEW b \in DOMAIN block
  PROVE  /\ block[b].base \in 1 .. MaxSlot /\ block[b].length \in 1 .. MaxSlot
         /\ block[b] = [base |-> block[b].base, length |-> block[b].length]
         /\ End_Address(block[b]) = block[b].base + block[b].length
         /\ End_Address(block[b]) \in 1 .. MaxSlot + 1
         /\ block[b].base < End_Address(block[b])
         /\ b \in 1 .. MaxSlot
<1>1. block[b] \in Block /\ End_Address(block[b]) <= MaxSlot + 1 /\ b \in 1 .. MaxSlot
  BY DEF Blocks
<1>2. QED
  BY <1>1 DEF Block, End_Address

\* A slot is free when it lies between the first address of a block and its end.
LEMMA InCover ==
  ASSUME MaxSlot \in Nat, NEW block, Blocks(block)
  PROVE  \A s : s \in Cover(block) <=>
           \E b \in DOMAIN block : s \in Nat /\ block[b].base <= s /\ s < End_Address(block[b])
<1>1. ASSUME NEW b \in DOMAIN block
      PROVE  \A s : s \in block[b].base .. End_Address(block[b]) - 1 <=>
                      s \in Nat /\ block[b].base <= s /\ s < End_Address(block[b])
  <2>1. block[b].base \in Nat /\ End_Address(block[b]) \in Nat
    BY BlockFacts
  <2>2. QED
    BY <2>1
<1>2. QED
  BY <1>1 DEF Cover

\* A block that goes takes its slots along.
LEMMA BlocksLose ==
  ASSUME MaxSlot \in Nat, NEW block, Blocks(block), Apart(block), NEW b \in DOMAIN block
  PROVE  /\ Blocks(Without(block, b)) /\ Apart(Without(block, b))
         /\ Bases(Without(block, b)) = Without(Bases(block), b)
         /\ Ends(Without(block, b)) = Without(Ends(block), b)
         /\ Cover(Without(block, b)) =
              Cover(block) \ (block[b].base .. End_Address(block[b]) - 1)
<1> DEFINE rest == Without(block, b)
<1>1. /\ DOMAIN rest = DOMAIN block \ {b} /\ (\A c \in DOMAIN rest : rest[c] = block[c])
      /\ rest = [c \in DOMAIN rest |-> rest[c]]
  BY DEF Without
<1>2. Bases(rest) = Without(Bases(block), b) /\ Ends(rest) = Without(Ends(block), b)
  BY DEF Bases, Ends, Without
<1> HIDE DEF rest
<1>3. Blocks(rest) /\ Apart(rest)
  BY <1>1 DEF Blocks, Apart
<1>4. ASSUME NEW s
      PROVE  s \in Cover(rest) <=>
               s \in Cover(block) /\ s \notin block[b].base .. End_Address(block[b]) - 1
  <2>1. \A c \in DOMAIN block :
          /\ block[c].base \in Nat /\ End_Address(block[c]) \in Nat
          /\ block[c].base < End_Address(block[c])
    BY BlockFacts
  <2>2. s \in Cover(rest) <=>
          \E c \in DOMAIN block : c # b /\ s \in Nat /\ block[c].base <= s /\ s < End_Address(block[c])
    BY <1>1, <1>3, InCover
  <2>3. s \in Cover(block) <=>
          \E c \in DOMAIN block : s \in Nat /\ block[c].base <= s /\ s < End_Address(block[c])
    BY InCover
  <2>4. \A c \in DOMAIN block : c # b /\ s \in Nat /\ block[c].base <= s /\ s < End_Address(block[c])
          => s \notin block[b].base .. End_Address(block[b]) - 1
    BY <2>1 DEF Apart
  <2>5. s \in block[b].base .. End_Address(block[b]) - 1 <=>
          s \in Nat /\ block[b].base <= s /\ s < End_Address(block[b])
    BY <2>1
  <2>6. QED
    BY <2>2, <2>3, <2>4, <2>5
<1>5. QED
  BY <1>2, <1>3, <1>4 DEF rest

\* A block that touches no other brings its slots.
LEMMA BlocksGain ==
  ASSUME MaxSlot \in Nat, NEW block, Blocks(block), Apart(block),
         NEW b \in 1 .. MaxSlot, b \notin DOMAIN block,
         NEW A \in 1 .. MaxSlot, NEW L \in 1 .. MaxSlot, A + L <= MaxSlot + 1,
         \A c \in DOMAIN block : End_Address(block[c]) < A \/ A + L < block[c].base
  PROVE  LET more == With(block, b, [base |-> A, length |-> L]) IN
         /\ Blocks(more) /\ Apart(more)
         /\ Bases(more) = With(Bases(block), b, A)
         /\ Ends(more) = With(Ends(block), b, A + L)
         /\ Cover(more) = Cover(block) \cup (A .. A + L - 1)
         /\ A \notin Range(Bases(block)) /\ A + L \notin Range(Ends(block))
<1> DEFINE new == [base |-> A, length |-> L]
           more == With(block, b, new)
<1>1. /\ DOMAIN more = DOMAIN block \cup {b} /\ more[b] = new
      /\ (\A c \in DOMAIN block : more[c] = block[c])
      /\ more = [c \in DOMAIN more |-> more[c]]
  BY DEF With
<1>2. new \in Block /\ new.base = A /\ new.length = L /\ End_Address(new) = A + L
  BY DEF Block, End_Address
<1>3. \A c \in DOMAIN block :
        /\ block[c] \in Block /\ block[c].base \in Nat /\ End_Address(block[c]) \in Nat
        /\ block[c].base < End_Address(block[c]) /\ End_Address(block[c]) <= MaxSlot + 1
        /\ c \in 1 .. MaxSlot
  BY BlockFacts DEF Blocks
<1> HIDE DEF more, new
<1>4. \A c \in DOMAIN more : more[c] = IF c = b THEN new ELSE block[c]
  BY <1>1
<1>5. Blocks(more)
  <2>1. \A c \in DOMAIN more : more[c] \in Block /\ End_Address(more[c]) <= MaxSlot + 1
    BY <1>1, <1>2, <1>3
  <2>2. DOMAIN more \subseteq 1 .. MaxSlot
    BY <1>1, <1>3
  <2>3. QED
    BY <1>1, <2>1, <2>2 DEF Blocks
<1>6. Apart(more)
  <2> SUFFICES ASSUME NEW c \in DOMAIN more, NEW d \in DOMAIN more, c # d
               PROVE  \/ End_Address(more[c]) < more[d].base
                      \/ End_Address(more[d]) < more[c].base
    BY DEF Apart
  <2>1. CASE c = b
    BY <1>1, <1>2, <2>1
  <2>2. CASE d = b
    BY <1>1, <1>2, <2>2
  <2>3. CASE c # b /\ d # b
    BY <1>1, <2>3 DEF Apart
  <2>4. QED
    BY <2>1, <2>2, <2>3
<1>7. Bases(more) = With(Bases(block), b, A)
  <2>1. Bases(more) = [c \in DOMAIN block \cup {b} |-> IF c = b THEN A ELSE block[c].base]
    BY <1>1, <1>2, <1>4 DEF Bases
  <2>2. With(Bases(block), b, A) = [c \in DOMAIN block \cup {b} |-> IF c = b THEN A ELSE block[c].base]
    BY DEF Bases, With
  <2>3. QED
    BY <2>1, <2>2
<1>8. Ends(more) = With(Ends(block), b, A + L)
  <2>1. Ends(more) = [c \in DOMAIN block \cup {b} |-> IF c = b THEN A + L ELSE End_Address(block[c])]
    BY <1>1, <1>2, <1>4 DEF Ends
  <2>2. With(Ends(block), b, A + L) =
          [c \in DOMAIN block \cup {b} |-> IF c = b THEN A + L ELSE End_Address(block[c])]
    BY DEF Ends, With
  <2>3. QED
    BY <2>1, <2>2
<1>9. ASSUME NEW s
      PROVE  s \in Cover(more) <=> s \in Cover(block) \/ s \in A .. A + L - 1
  <2>1. s \in Cover(more) <=>
          \E c \in DOMAIN more : s \in Nat /\ more[c].base <= s /\ s < End_Address(more[c])
    BY <1>5, InCover
  <2>2. s \in Cover(block) <=>
          \E c \in DOMAIN block : s \in Nat /\ block[c].base <= s /\ s < End_Address(block[c])
    BY InCover
  <2>3. s \in A .. A + L - 1 <=> s \in Nat /\ A <= s /\ s < A + L
    OBVIOUS
  <2>4. QED
    BY <1>1, <1>2, <2>1, <2>2, <2>3
<1>10. A \notin Range(Bases(block)) /\ A + L \notin Range(Ends(block))
  <2>1. \A c \in DOMAIN block : block[c].base # A /\ End_Address(block[c]) # A + L
    BY <1>3
  <2>2. QED
    BY <2>1 DEF Range, Bases, Ends
<1>11. QED
  BY <1>5, <1>6, <1>7, <1>8, <1>9, <1>10 DEF more, new

\* A block that leaves the blocks, its group and both indexes leaves them consistent.
LEMMA SpaceLoses ==
  ASSUME MaxSlot \in Nat, NEW block, NEW groups, NEW base, NEW end,
         Agree(block, groups, base, end), NEW b \in DOMAIN block
  PROVE  /\ Agree(Without(block, b),
                  Remove_From_Group(groups, block[b].length, block[b].base),
                  Without(base, block[b].base),
                  Without(end, End_Address(block[b])))
         /\ Cover(Without(block, b)) =
              Cover(block) \ (block[b].base .. End_Address(block[b]) - 1)
<1>1. /\ Blocks(block) /\ Apart(block) /\ Grouped(groups, block)
      /\ Indexed(base, Bases(block)) /\ Indexed(end, Ends(block))
  BY DEF Agree
<1>2. /\ b \in DOMAIN Bases(block) /\ Bases(block)[b] = block[b].base
      /\ b \in DOMAIN Ends(block) /\ Ends(block)[b] = End_Address(block[b])
  BY DEF Bases, Ends
<1>3. /\ Indexed(Without(base, block[b].base), Without(Bases(block), b))
      /\ Indexed(Without(end, End_Address(block[b])), Without(Ends(block), b))
  <2>1. Indexed(Without(base, Bases(block)[b]), Without(Bases(block), b))
    BY <1>1, <1>2, IndexLoses
  <2>2. Indexed(Without(end, Ends(block)[b]), Without(Ends(block), b))
    BY <1>1, <1>2, IndexLoses
  <2>3. QED
    BY <1>2, <2>1, <2>2
<1>4. QED
  BY <1>1, <1>3, BlocksLose, GroupLosesBlock DEF Agree

\* A block that enters the blocks, its group and both indexes leaves them consistent.
LEMMA SpaceGains ==
  ASSUME MaxSlot \in Nat, NEW block, NEW groups, NEW base, NEW end,
         Agree(block, groups, base, end),
         NEW b \in 1 .. MaxSlot, b \notin DOMAIN block,
         NEW A \in 1 .. MaxSlot, NEW L \in 1 .. MaxSlot, A + L <= MaxSlot + 1,
         \A c \in DOMAIN block : End_Address(block[c]) < A \/ A + L < block[c].base
  PROVE  LET more == With(block, b, [base |-> A, length |-> L]) IN
         /\ Agree(more, Put_In_Group(groups, L, A, b), With(base, A, b), With(end, A + L, b))
         /\ Cover(more) = Cover(block) \cup (A .. A + L - 1)
<1> DEFINE more == With(block, b, [base |-> A, length |-> L])
<1>1. /\ Blocks(block) /\ Apart(block) /\ Grouped(groups, block)
      /\ Indexed(base, Bases(block)) /\ Indexed(end, Ends(block))
  BY DEF Agree
<1>2. /\ Blocks(more) /\ Apart(more)
      /\ Bases(more) = With(Bases(block), b, A)
      /\ Ends(more) = With(Ends(block), b, A + L)
      /\ Cover(more) = Cover(block) \cup (A .. A + L - 1)
      /\ A \notin Range(Bases(block)) /\ A + L \notin Range(Ends(block))
  BY <1>1, BlocksGain
<1>3. b \notin DOMAIN Bases(block) /\ b \notin DOMAIN Ends(block)
  BY DEF Bases, Ends
<1>4. Indexed(With(base, A, b), Bases(more)) /\ Indexed(With(end, A + L, b), Ends(more))
  BY <1>1, <1>2, <1>3, IndexGains
<1>5. Grouped(Put_In_Group(groups, L, A, b), more)
  <2>1. \A c \in DOMAIN block : block[c].base # A
    BY <1>2 DEF Range, Bases
  <2>2. QED
    BY <1>1, <2>1, GroupGainsBlock
<1> HIDE DEF more
<1>6. QED
  BY <1>2, <1>4, <1>5 DEF Agree, more

-----------------------------------------------------------------------------
\* The operations on blocks

\* Fix_Block_Position_In_Groups touches the groups only, and does not throw when
\* there is a group of the old length.
LEMMA OnlyGroupsFixed ==
  ASSUME NEW sp, Record(sp), NEW b, NEW oldAddress, NEW newAddress, NEW oldLength, NEW newLength,
         Has_Group(sp.groups, oldLength)
  PROVE  LET fixed == Fix_Block_Position_In_Groups(sp, b, oldAddress, newAddress, oldLength, newLength)
             without == Remove_From_Group(sp.groups, oldLength, oldAddress)
         IN /\ Record(fixed)
            /\ fixed.groups = IF newLength = 0 THEN without
                              ELSE Put_In_Group(without, newLength, newAddress, b)
            /\ fixed.block = sp.block /\ fixed.base = sp.base
            /\ fixed.end = sp.end /\ fixed.thrown = sp.thrown
  BY DEF Fix_Block_Position_In_Groups, Record

\* While a slot is not free, some block object is not in use.
LEMMA RoomForBlock ==
  ASSUME MaxSlot \in Nat, NEW block, Blocks(block), Apart(block),
         NEW address \in 1 .. MaxSlot, address \notin Cover(block)
  PROVE  \E i \in 1 .. MaxSlot : i \notin DOMAIN block
<1> SUFFICES ASSUME \A i \in 1 .. MaxSlot : i \in DOMAIN block
             PROVE  FALSE
  OBVIOUS
<1> DEFINE S == 1 .. MaxSlot
           f == [b \in S |-> block[b].base]
<1>1. IsFiniteSet(S) /\ Cardinality(S) = MaxSlot
  BY FS_Interval
<1>2. IsFiniteSet(S \ {address}) /\ Cardinality(S \ {address}) = MaxSlot - 1
  BY <1>1, FS_RemoveElement
<1>3. \A b \in S : block[b].base \in S \ {address}
  <2> TAKE b \in S
  <2>1. block[b].base \in S /\ block[b].base \in Nat /\ block[b].base < End_Address(block[b])
    BY BlockFacts
  <2>2. block[b].base \in Cover(block)
    BY <2>1, InCover
  <2>3. QED
    BY <2>1, <2>2
<1>4. f \in [S -> S \ {address}]
  BY <1>3
<1> HIDE DEF f
<1>5. PICK b, c \in S : b # c /\ f[b] = f[c]
  <2>1. Cardinality(S \ {address}) < Cardinality(S)
    BY <1>1, <1>2
  <2> HIDE DEF S
  <2>2. QED
    BY <1>1, <1>2, <1>4, <2>1, FS_PigeonHole
<1>6. block[b].base = block[c].base
  BY <1>5 DEF f
<1>7. /\ block[b].base \in Nat /\ End_Address(block[b]) \in Nat
      /\ block[b].base < End_Address(block[b]) /\ block[c].base < End_Address(block[c])
      /\ End_Address(block[c]) \in Nat
  BY BlockFacts
<1>8. QED
  BY <1>5, <1>6, <1>7 DEF Apart

\* The addresses of a consistent space, as its indexes say them.
LEMMA IndexDomains ==
  ASSUME NEW sp, Consistent(sp)
  PROVE  /\ \A b \in DOMAIN sp.block :
              sp.block[b].base \in DOMAIN sp.base /\ End_Address(sp.block[b]) \in DOMAIN sp.end
         /\ \A a \in DOMAIN sp.base :
              sp.base[a] \in DOMAIN sp.block /\ sp.block[sp.base[a]].base = a
         /\ \A a \in DOMAIN sp.end :
              sp.end[a] \in DOMAIN sp.block /\ End_Address(sp.block[sp.end[a]]) = a
         /\ \A b \in DOMAIN sp.block :
              sp.base[sp.block[b].base] = b /\ sp.end[End_Address(sp.block[b])] = b
         /\ sp.base = [a \in DOMAIN sp.base |-> sp.base[a]]
         /\ sp.end = [a \in DOMAIN sp.end |-> sp.end[a]]
<1>1. Indexed(sp.base, Bases(sp.block)) /\ Indexed(sp.end, Ends(sp.block))
  BY DEF Consistent, Agree
<1>2. \A a \in DOMAIN sp.base :
        sp.base[a] \in DOMAIN sp.block /\ sp.block[sp.base[a]].base = a
  BY <1>1, LookUp DEF Bases
<1>3. \A a \in DOMAIN sp.end :
        sp.end[a] \in DOMAIN sp.block /\ End_Address(sp.block[sp.end[a]]) = a
  BY <1>1, LookUp DEF Ends
<1>4. \A b \in DOMAIN sp.block :
        sp.base[sp.block[b].base] = b /\ sp.end[End_Address(sp.block[b])] = b
  BY <1>1 DEF Indexed, Bases, Ends
<1>5. \A b \in DOMAIN sp.block :
        sp.block[b].base \in DOMAIN sp.base /\ End_Address(sp.block[b]) \in DOMAIN sp.end
  BY <1>1 DEF Indexed, Range, Bases, Ends
<1>6. /\ sp.base = [a \in DOMAIN sp.base |-> sp.base[a]]
      /\ sp.end = [a \in DOMAIN sp.end |-> sp.end[a]]
  BY <1>1 DEF Indexed
<1>7. QED
  BY <1>2, <1>3, <1>4, <1>5, <1>6

\* A freed slot that touches no free block: Insert_Block.
LEMMA Inserted ==
  ASSUME MaxSlot \in Nat, NEW sp, Consistent(sp), NEW address \in 1 .. MaxSlot,
         address \notin Cover(sp.block),
         address \notin DOMAIN sp.end, address + 1 \notin DOMAIN sp.base
  PROVE  /\ Consistent(Insert_Block(sp, address))
         /\ Cover(Insert_Block(sp, address).block) = Cover(sp.block) \cup {address}
<1> DEFINE b == CHOOSE i \in 1 .. MaxSlot : i \notin DOMAIN sp.block
           new == Insert_Block(sp, address)
<1>1. /\ Record(sp) /\ Agree(sp.block, sp.groups, sp.base, sp.end) /\ sp.thrown = FALSE
      /\ Blocks(sp.block) /\ Apart(sp.block)
  BY DEF Consistent, Agree
<1>2. b \in 1 .. MaxSlot /\ b \notin DOMAIN sp.block
  BY <1>1, RoomForBlock
<1>3. /\ Record(new)
      /\ new.block = With(sp.block, b, [base |-> address, length |-> 1])
      /\ new.groups = Put_In_Group(sp.groups, 1, address, b)
      /\ new.base = With(sp.base, address, b)
      /\ new.end = With(sp.end, address + 1, b)
      /\ new.thrown = sp.thrown
  BY <1>1 DEF Insert_Block, Record
<1>4. \A c \in DOMAIN sp.block :
        End_Address(sp.block[c]) < address \/ address + 1 < sp.block[c].base
  <2> TAKE c \in DOMAIN sp.block
  <2>1. /\ sp.block[c].base \in Nat /\ End_Address(sp.block[c]) \in Nat
    BY <1>1, BlockFacts
  <2>2. ~ (sp.block[c].base <= address /\ address < End_Address(sp.block[c]))
    BY <1>1, InCover
  <2>3. End_Address(sp.block[c]) # address /\ sp.block[c].base # address + 1
    <3>1. End_Address(sp.block[c]) \in DOMAIN sp.end /\ sp.block[c].base \in DOMAIN sp.base
      BY IndexDomains
    <3>2. QED
      BY <3>1
  <2>4. QED
    BY <2>1, <2>2, <2>3
<1> HIDE DEF b, new
<1>5. 1 \in 1 .. MaxSlot /\ address + 1 <= MaxSlot + 1 /\ address .. address + 1 - 1 = {address}
  OBVIOUS
<1>6. /\ Agree(new.block, new.groups, new.base, new.end)
      /\ Cover(new.block) = Cover(sp.block) \cup {address}
  BY <1>1, <1>2, <1>3, <1>4, <1>5, SpaceGains
<1>7. QED
  BY <1>1, <1>3, <1>6 DEF Consistent, new

\* A freed slot before a free block, and after none: Prepend_To_After.
LEMMA Prepended ==
  ASSUME MaxSlot \in Nat, NEW sp, Consistent(sp), NEW address \in 1 .. MaxSlot,
         address \notin Cover(sp.block),
         address \notin DOMAIN sp.end, address + 1 \in DOMAIN sp.base
  PROVE  /\ Consistent(Prepend_To_After(sp, address))
         /\ Cover(Prepend_To_After(sp, address).block) = Cover(sp.block) \cup {address}
<1> DEFINE a == sp.base[address + 1]
           after == sp.block[a]
           L == after.length
           rec == [base |-> address, length |-> L + 1]
           new == Prepend_To_After(sp, address)
           block1 == Without(sp.block, a)
           groups1 == Remove_From_Group(sp.groups, L, address + 1)
           base1 == Without(sp.base, address + 1)
           end1 == Without(sp.end, End_Address(after))
           moved == [sp EXCEPT !.base = With(Without(@, address + 1), address, a),
                               !.block[a] = rec]
<1>1. /\ Record(sp) /\ Agree(sp.block, sp.groups, sp.base, sp.end) /\ sp.thrown = FALSE
      /\ Blocks(sp.block) /\ Apart(sp.block) /\ Grouped(sp.groups, sp.block)
  BY DEF Consistent, Agree
<1>2. a \in DOMAIN sp.block /\ after.base = address + 1 /\ End_Address(after) \in DOMAIN sp.end
      /\ sp.end[End_Address(after)] = a
  <2>1. a \in DOMAIN sp.block /\ after.base = address + 1
    BY IndexDomains
  <2>2. \A b \in DOMAIN sp.block :
          End_Address(sp.block[b]) \in DOMAIN sp.end /\ sp.end[End_Address(sp.block[b])] = b
    BY IndexDomains
  <2> HIDE DEF a
  <2>3. QED
    BY <2>1, <2>2
<1>3. /\ a \in 1 .. MaxSlot /\ L \in 1 .. MaxSlot /\ End_Address(after) = address + 1 + L
      /\ address + 1 + L <= MaxSlot + 1
  BY <1>1, <1>2, BlockFacts
<1>4. /\ Agree(block1, groups1, base1, end1)
      /\ Cover(block1) = Cover(sp.block) \ (address + 1 .. End_Address(after) - 1)
  BY <1>1, <1>2, SpaceLoses
<1>5. \A c \in DOMAIN block1 :
        End_Address(block1[c]) < address \/ address + (L + 1) < block1[c].base
  <2> TAKE c \in DOMAIN block1
  <2>1. c \in DOMAIN sp.block /\ c # a /\ block1[c] = sp.block[c]
    BY DEF Without
  <2>2. sp.block[c].base \in Nat /\ End_Address(sp.block[c]) \in Nat
    BY <1>1, <2>1, BlockFacts
  <2>3. End_Address(sp.block[c]) < address + 1 \/ address + 1 + L < sp.block[c].base
    BY <1>1, <1>2, <1>3, <2>1 DEF Apart
  <2>4. End_Address(sp.block[c]) # address
    <3>1. End_Address(sp.block[c]) \in DOMAIN sp.end
      BY <2>1, IndexDomains
    <3>2. QED
      BY <3>1
  <2>5. QED
    BY <1>3, <2>1, <2>2, <2>3, <2>4
<1>6. /\ Record(moved) /\ moved.block = [sp.block EXCEPT ![a] = rec] /\ moved.groups = sp.groups
      /\ moved.base = With(base1, address, a) /\ moved.end = sp.end /\ moved.thrown = sp.thrown
  BY <1>1 DEF Record
<1>7. /\ new = Fix_Block_Position_In_Groups(moved, a, address + 1, address, L, L + 1)
      /\ Has_Group(moved.groups, L) /\ L + 1 # 0
  <2>1. Has_Group(sp.groups, L)
    BY <1>1, <1>2, GroupFound
  <2>2. QED
    BY <1>3, <1>6, <2>1 DEF Prepend_To_After
<1>8. With(end1, address + (L + 1), a) = sp.end
  <2>1. With(Without(sp.end, End_Address(after)), End_Address(after), sp.end[End_Address(after)]) = sp.end
    BY <1>2, IndexDomains, PutBack
  <2>2. address + (L + 1) = End_Address(after)
    BY <1>3
  <2>3. QED
    BY <1>2, <2>1, <2>2
<1>9. With(block1, a, rec) = [sp.block EXCEPT ![a] = rec]
  <2>1. sp.block = [c \in DOMAIN sp.block |-> sp.block[c]]
    BY <1>1 DEF Blocks
  <2>2. QED
    BY <1>2, <2>1 DEF With, Without
<1> HIDE DEF new, moved, block1, groups1, base1, end1, a, after, L
<1>10. /\ Record(new) /\ new.thrown = FALSE
       /\ new.block = With(block1, a, rec) /\ new.groups = Put_In_Group(groups1, L + 1, address, a)
       /\ new.base = With(base1, address, a) /\ new.end = With(end1, address + (L + 1), a)
  <2>1. /\ Record(new) /\ new.thrown = moved.thrown
        /\ new.groups = Put_In_Group(Remove_From_Group(moved.groups, L, address + 1), L + 1, address, a)
        /\ new.block = moved.block /\ new.base = moved.base /\ new.end = moved.end
    BY <1>6, <1>7, OnlyGroupsFixed
  <2>2. QED
    BY <1>1, <1>6, <1>8, <1>9, <2>1 DEF groups1
<1>11. a \notin DOMAIN block1 /\ L + 1 \in 1 .. MaxSlot /\ address + (L + 1) <= MaxSlot + 1
  BY <1>3 DEF block1, Without
<1>12. /\ Agree(new.block, new.groups, new.base, new.end)
       /\ Cover(new.block) = Cover(block1) \cup (address .. address + (L + 1) - 1)
  BY <1>3, <1>4, <1>5, <1>10, <1>11, SpaceGains
<1>13. Cover(new.block) = Cover(sp.block) \cup {address}
  <2>1. \A s : s \in address + 1 .. End_Address(after) - 1 => s \in Cover(sp.block)
    BY <1>1, <1>2, InCover DEF after, Cover
  <2>2. \A s : s \in address .. address + (L + 1) - 1 <=>
                 s = address \/ s \in address + 1 .. End_Address(after) - 1
    BY <1>3
  <2>3. QED
    BY <1>4, <1>12, <2>1, <2>2
<1>14. QED
  BY <1>10, <1>12, <1>13 DEF Consistent, new

\* A block with another length is the block taken out and put back.
LEMMA Resized ==
  ASSUME MaxSlot \in Nat, NEW block, Blocks(block), NEW b \in DOMAIN block, NEW L
  PROVE  [block EXCEPT ![b].length = L] =
           With(Without(block, b), b, [base |-> block[b].base, length |-> L])
<1>1. block[b] \in Block /\ block = [c \in DOMAIN block |-> block[c]]
  BY DEF Blocks
<1>2. [block[b] EXCEPT !.length = L] = [base |-> block[b].base, length |-> L]
  BY <1>1 DEF Block
<1>3. QED
  BY <1>1, <1>2 DEF With, Without

\* The block before the slot grows by it, or by it and the block after it.
LEMMA Appended_To_Before ==
  ASSUME MaxSlot \in Nat, NEW sp, Consistent(sp), NEW address \in 1 .. MaxSlot,
         address \notin Cover(sp.block), address \in DOMAIN sp.end
  PROVE  /\ Consistent(Append_To_Before(sp, address))
         /\ Cover(Append_To_Before(sp, address).block) = Cover(sp.block) \cup {address}
<1> DEFINE b == sp.end[address]
           before == sp.block[b]
           B == before.base
           L == before.length
           merges == address + 1 \in DOMAIN sp.base
           a == sp.base[address + 1]
           La == sp.block[a].length
           grown == L + 1 + (IF merges THEN La ELSE 0)
           fixed == Fix_Block_Position_In_Groups(sp, a, address + 1, 0, La, 0)
           emptied == [fixed EXCEPT !.base = Without(@, address + 1), !.block = Without(@, a)]
           cleared == IF merges THEN emptied ELSE sp
           moved == [cleared EXCEPT !.block[b].length = grown,
                                    !.end = With(Without(@, address), B + grown, b)]
           new == Append_To_Before(sp, address)
<1>1. /\ Record(sp) /\ Agree(sp.block, sp.groups, sp.base, sp.end) /\ sp.thrown = FALSE
      /\ Blocks(sp.block) /\ Apart(sp.block) /\ Grouped(sp.groups, sp.block)
  BY DEF Consistent, Agree
<1>2. b \in DOMAIN sp.block /\ End_Address(before) = address
  BY IndexDomains
<1>3. new = Fix_Block_Position_In_Groups(moved, b, B, B, L, grown)
  BY DEF Append_To_Before
<1> HIDE DEF new, b
<1>4. /\ b \in 1 .. MaxSlot /\ B \in 1 .. MaxSlot /\ L \in 1 .. MaxSlot /\ B + L = address
      /\ before = [base |-> B, length |-> L]
  BY <1>1, <1>2, BlockFacts
<1>5. /\ \A c \in DOMAIN sp.block :
           /\ sp.block[c].base \in Nat /\ End_Address(sp.block[c]) \in Nat
           /\ c # b => End_Address(sp.block[c]) < B \/ address < sp.block[c].base
      /\ B \in DOMAIN sp.base /\ sp.base[B] = b
  <2>1. B \in DOMAIN sp.base /\ sp.base[B] = b
    BY <1>2, IndexDomains
  <2>2. \A c \in DOMAIN sp.block :
          sp.block[c].base \in Nat /\ End_Address(sp.block[c]) \in Nat
    BY <1>1, BlockFacts
  <2>3. \A c \in DOMAIN sp.block : c # b => End_Address(sp.block[c]) < B \/ address < sp.block[c].base
    BY <1>1, <1>2 DEF Apart
  <2>4. QED
    BY <2>1, <2>2, <2>3
<1>6. \A s : s \in B .. address - 1 => s \in Cover(sp.block)
  BY <1>1, <1>2 DEF Cover
<1>7. CASE ~ merges
  <2> DEFINE block1 == Without(sp.block, b)
             groups1 == Remove_From_Group(sp.groups, L, B)
             base1 == Without(sp.base, B)
             end1 == Without(sp.end, address)
             rec == [base |-> B, length |-> L + 1]
  <2>1. /\ Agree(block1, groups1, base1, end1)
        /\ Cover(block1) = Cover(sp.block) \ (B .. address - 1)
    BY <1>1, <1>2, SpaceLoses
  <2>2. \A c \in DOMAIN block1 :
          End_Address(block1[c]) < B \/ B + (L + 1) < block1[c].base
    <3> TAKE c \in DOMAIN block1
    <3>1. c \in DOMAIN sp.block /\ c # b /\ block1[c] = sp.block[c]
      BY DEF Without
    <3>2. sp.block[c].base # address + 1
      <4>1. sp.block[c].base \in DOMAIN sp.base
        BY <3>1, IndexDomains
      <4>2. QED
        BY <1>7, <4>1
    <3>3. End_Address(sp.block[c]) < B \/ address < sp.block[c].base
      BY <1>5, <3>1
    <3>4. QED
      BY <1>4, <1>5, <3>1, <3>2, <3>3
  <2>3. /\ Record(moved) /\ moved.block = [sp.block EXCEPT ![b].length = L + 1]
        /\ moved.groups = sp.groups /\ moved.base = sp.base /\ moved.thrown = sp.thrown
        /\ moved.end = With(end1, B + (L + 1), b) /\ grown = L + 1
    BY <1>1, <1>4, <1>7 DEF Record
  <2>4. Has_Group(moved.groups, L) /\ grown # 0
    <3>1. Has_Group(sp.groups, L)
      BY <1>1, <1>2, GroupFound
    <3> HIDE DEF moved, grown, L
    <3>2. L + 1 # 0
      BY <1>4
    <3>3. QED
      BY <2>3, <3>1, <3>2
  <2>5. With(base1, B, b) = sp.base
    <3>1. sp.base = [x \in DOMAIN sp.base |-> sp.base[x]]
      BY IndexDomains
    <3>2. With(Without(sp.base, B), B, sp.base[B]) = sp.base
      BY <1>5, <3>1, PutBack
    <3>3. QED
      BY <1>5, <3>2
  <2>6. [sp.block EXCEPT ![b].length = L + 1] = With(block1, b, rec)
    BY <1>1, <1>2, Resized
  <2> HIDE DEF block1, base1, end1, moved, grown, B, L
  <2>7. /\ Record(new) /\ new.thrown = FALSE
        /\ new.block = With(block1, b, rec) /\ new.groups = Put_In_Group(groups1, L + 1, B, b)
        /\ new.base = With(base1, B, b) /\ new.end = With(end1, B + (L + 1), b)
    <3>1. /\ Record(new) /\ new.thrown = moved.thrown
          /\ new.groups = Put_In_Group(Remove_From_Group(moved.groups, L, B), grown, B, b)
          /\ new.block = moved.block /\ new.base = moved.base /\ new.end = moved.end
      BY <1>3, <2>3, <2>4, OnlyGroupsFixed
    <3>2. QED
      BY <1>1, <2>3, <2>5, <2>6, <3>1
  <2>8. b \notin DOMAIN block1 /\ L + 1 \in 1 .. MaxSlot /\ B + (L + 1) <= MaxSlot + 1
    BY <1>4 DEF block1, Without
  <2>9. /\ Agree(new.block, new.groups, new.base, new.end)
        /\ Cover(new.block) = Cover(block1) \cup (B .. B + (L + 1) - 1)
    <3>1. b \in 1 .. MaxSlot /\ B \in 1 .. MaxSlot
      BY <1>4
    <3> HIDE DEF before
    <3>2. /\ Agree(With(block1, b, rec), Put_In_Group(groups1, L + 1, B, b),
                   With(base1, B, b), With(end1, B + (L + 1), b))
          /\ Cover(With(block1, b, rec)) = Cover(block1) \cup (B .. B + (L + 1) - 1)
      BY <2>1, <2>2, <2>8, <3>1, SpaceGains
    <3>3. QED
      BY <2>7, <3>2
  <2>10. Cover(new.block) = Cover(sp.block) \cup {address}
    <3>1. \A s : s \in B .. B + (L + 1) - 1 <=> s = address \/ s \in B .. address - 1
      BY <1>4
    <3>2. QED
      BY <1>6, <2>1, <2>9, <3>1
  <2>11. QED
    BY <2>7, <2>9, <2>10 DEF Consistent, new
<1>8. CASE merges
  <2> DEFINE E == End_Address(sp.block[a])
             block1 == Without(sp.block, a)
             groups1 == Remove_From_Group(sp.groups, La, address + 1)
             base1 == Without(sp.base, address + 1)
             end1 == Without(sp.end, E)
             block2 == Without(block1, b)
             groups2 == Remove_From_Group(groups1, L, B)
             base2 == Without(base1, B)
             end2 == Without(end1, address)
             rec == [base |-> B, length |-> grown]
  <2>1. a \in DOMAIN sp.block /\ sp.block[a].base = address + 1
    BY <1>8, IndexDomains
  <2> HIDE DEF a
  <2>2. /\ a \in 1 .. MaxSlot /\ La \in 1 .. MaxSlot /\ E = address + 1 + La /\ E <= MaxSlot + 1
        /\ E \in Nat
    BY <1>1, <2>1, BlockFacts
  <2>3. a # b
    BY <1>4, <2>1
  <2>4. /\ Agree(block1, groups1, base1, end1)
        /\ Cover(block1) = Cover(sp.block) \ (address + 1 .. E - 1)
    BY <1>1, <2>1, SpaceLoses
  <2>5. /\ b \in DOMAIN block1 /\ block1[b] = before
        /\ Blocks(block1) /\ Grouped(groups1, block1)
    BY <1>2, <2>3, <2>4 DEF Without, Agree
  <2>6. /\ Agree(block2, groups2, base2, end2)
        /\ Cover(block2) = Cover(block1) \ (B .. address - 1)
    BY <1>2, <2>4, <2>5, SpaceLoses
  <2>7. grown = L + 1 + La /\ grown \in 1 .. MaxSlot /\ B + grown = E /\ grown # 0
    BY <1>4, <1>8, <2>2
  <2>8. \A c \in DOMAIN block2 :
          End_Address(block2[c]) < B \/ B + grown < block2[c].base
    <3> TAKE c \in DOMAIN block2
    <3>1. c \in DOMAIN sp.block /\ c # b /\ c # a /\ block2[c] = sp.block[c]
      BY DEF Without
    <3>2. End_Address(sp.block[c]) < address + 1 \/ E < sp.block[c].base
      BY <1>1, <2>1, <3>1 DEF Apart
    <3>3. End_Address(sp.block[c]) < B \/ address < sp.block[c].base
      BY <1>5, <3>1
    <3>4. /\ sp.block[c].base < End_Address(sp.block[c])
          /\ sp.block[c].base \in Nat /\ End_Address(sp.block[c]) \in Nat
      BY <1>1, <3>1, BlockFacts
    <3>5. QED
      BY <1>4, <2>2, <2>7, <3>1, <3>2, <3>3, <3>4
  <2>9. /\ Record(emptied) /\ emptied.block = block1 /\ emptied.groups = groups1
        /\ emptied.base = base1 /\ emptied.end = sp.end /\ emptied.thrown = sp.thrown
    <3>1. Has_Group(sp.groups, La)
      BY <1>1, <2>1, GroupFound
    <3>2. /\ Record(fixed) /\ fixed.groups = groups1 /\ fixed.block = sp.block
          /\ fixed.base = sp.base /\ fixed.end = sp.end /\ fixed.thrown = sp.thrown
      BY <1>1, <3>1, OnlyGroupsFixed
    <3> HIDE DEF fixed
    <3>3. QED
      BY <3>2 DEF Record
  <2> HIDE DEF emptied
  <2>10. /\ Record(moved) /\ moved.block = [block1 EXCEPT ![b].length = grown]
         /\ moved.groups = groups1 /\ moved.base = base1 /\ moved.thrown = sp.thrown
         /\ moved.end = With(Without(sp.end, address), B + grown, b)
    BY <1>8, <2>9 DEF Record
  <2>11. Has_Group(moved.groups, L)
    BY <2>5, <2>10, GroupFound
  <2>12. With(base2, B, b) = base1
    <3>1. /\ base1 = [x \in DOMAIN base1 |-> base1[x]] /\ B \in DOMAIN base1 /\ base1[B] = b
      BY <1>4, <1>5 DEF Without
    <3>2. QED
      BY <3>1, PutBack
  <2>13. With(end2, B + grown, b) = With(Without(sp.end, address), B + grown, b)
    <3>1. With(Without(Without(sp.end, E), address), E, b) = With(Without(sp.end, address), E, b)
      BY DEF With, Without
    <3>2. QED
      BY <2>7, <3>1
  <2>14. [block1 EXCEPT ![b].length = grown] = With(block2, b, rec)
    BY <2>5, Resized
  <2> HIDE DEF block1, groups1, base1, end1, block2, groups2, base2, end2, moved, grown, B, L, E
  <2>15. /\ Record(new) /\ new.thrown = FALSE
         /\ new.block = With(block2, b, rec) /\ new.groups = Put_In_Group(groups2, grown, B, b)
         /\ new.base = With(base2, B, b) /\ new.end = With(end2, B + grown, b)
    <3>1. /\ Record(new) /\ new.thrown = moved.thrown
          /\ new.groups = Put_In_Group(Remove_From_Group(moved.groups, L, B), grown, B, b)
          /\ new.block = moved.block /\ new.base = moved.base /\ new.end = moved.end
      BY <1>3, <2>7, <2>10, <2>11, OnlyGroupsFixed
    <3>2. QED
      BY <1>1, <2>10, <2>12, <2>13, <2>14, <3>1 DEF groups2
  <2>16. b \notin DOMAIN block2
    BY DEF block2, Without
  <2>17. /\ Agree(new.block, new.groups, new.base, new.end)
         /\ Cover(new.block) = Cover(block2) \cup (B .. B + grown - 1)
    <3>1. b \in 1 .. MaxSlot /\ B \in 1 .. MaxSlot /\ B + grown <= MaxSlot + 1
      BY <1>4, <2>2, <2>7
    <3> HIDE DEF before
    <3>2. /\ Agree(With(block2, b, rec), Put_In_Group(groups2, grown, B, b),
                   With(base2, B, b), With(end2, B + grown, b))
          /\ Cover(With(block2, b, rec)) = Cover(block2) \cup (B .. B + grown - 1)
      BY <2>6, <2>7, <2>8, <2>16, <3>1, SpaceGains
    <3>3. QED
      BY <2>15, <3>2
  <2>18. Cover(new.block) = Cover(sp.block) \cup {address}
    <3>1. \A s : s \in address + 1 .. E - 1 => s \in Cover(sp.block)
      BY <1>1, <2>1 DEF Cover, E
    <3>2. \A s : s \in B .. B + grown - 1 <=>
                   s = address \/ s \in B .. address - 1 \/ s \in address + 1 .. E - 1
      BY <1>4, <2>2, <2>7
    <3>3. QED
      BY <1>6, <2>4, <2>6, <2>17, <3>1, <3>2
  <2>19. QED
    BY <2>15, <2>17, <2>18 DEF Consistent, new
<1>9. QED
  BY <1>7, <1>8

\* One slot given back.
LEMMA SlotReturned ==
  ASSUME MaxSlot \in Nat, NEW sp, Consistent(sp), NEW address \in 1 .. MaxSlot,
         address \notin Cover(sp.block)
  PROVE  /\ Consistent(Add_Block_Address(sp, address))
         /\ Cover(Add_Block_Address(sp, address).block) = Cover(sp.block) \cup {address}
<1>1. CASE address \in DOMAIN sp.end
  BY <1>1, Appended_To_Before DEF Add_Block_Address
<1>2. CASE address \notin DOMAIN sp.end /\ address + 1 \in DOMAIN sp.base
  BY <1>2, Prepended DEF Add_Block_Address
<1>3. CASE address \notin DOMAIN sp.end /\ address + 1 \notin DOMAIN sp.base
  BY <1>3, Inserted DEF Add_Block_Address
<1>4. QED
  BY <1>1, <1>2, <1>3

\* One block used up from its start: nothing, a part, or all of it.
LEMMA BlockUsed ==
  ASSUME MaxSlot \in Nat, NEW sp, Consistent(sp), NEW b \in DOMAIN sp.block,
         NEW u \in 0 .. sp.block[b].length
  PROVE  LET new == Block_Usage_Finished(sp, b, u) IN
         /\ Consistent(new)
         /\ Cover(new.block) = Cover(sp.block) \ (sp.block[b].base .. sp.block[b].base + u - 1)
         /\ \A c \in DOMAIN sp.block : c # b => c \in DOMAIN new.block /\ new.block[c] = sp.block[c]
         /\ DOMAIN new.block \subseteq DOMAIN sp.block
<1> DEFINE old == sp.block[b]
           B == old.base
           L == old.length
           E == End_Address(old)
           rest == [base |-> B + u, length |-> L - u]
           moved == [sp EXCEPT !.block[b] = rest, !.base = Without(@, B)]
           fixed == Fix_Block_Position_In_Groups(moved, b, B, rest.base, L, rest.length)
           new == Block_Usage_Finished(sp, b, u)
           block1 == Without(sp.block, b)
           groups1 == Remove_From_Group(sp.groups, L, B)
           base1 == Without(sp.base, B)
           end1 == Without(sp.end, E)
<1>1. /\ Record(sp) /\ Agree(sp.block, sp.groups, sp.base, sp.end) /\ sp.thrown = FALSE
      /\ Blocks(sp.block) /\ Apart(sp.block) /\ Grouped(sp.groups, sp.block)
  BY DEF Consistent, Agree
<1>2. /\ b \in 1 .. MaxSlot /\ B \in 1 .. MaxSlot /\ L \in 1 .. MaxSlot /\ B + L = E
      /\ E \in 1 .. MaxSlot + 1 /\ old = [base |-> B, length |-> L]
  BY <1>1, BlockFacts
<1>3. /\ Agree(block1, groups1, base1, end1)
      /\ Cover(block1) = Cover(sp.block) \ (B .. E - 1)
  BY <1>1, SpaceLoses
<1>4. /\ rest.base = B + u /\ rest.length = L - u /\ End_Address(rest) = E
      /\ rest.length \in 0 .. MaxSlot
  BY <1>2 DEF End_Address
<1>5. /\ Record(moved) /\ moved.block = [sp.block EXCEPT ![b] = rest]
      /\ moved.groups = sp.groups /\ moved.base = base1 /\ moved.end = sp.end
      /\ moved.thrown = sp.thrown
  BY <1>1 DEF Record
<1>6. Has_Group(moved.groups, L)
  BY <1>1, <1>5, GroupFound
<1>7. /\ Record(fixed) /\ fixed.block = [sp.block EXCEPT ![b] = rest]
      /\ fixed.groups = IF L - u = 0 THEN groups1 ELSE Put_In_Group(groups1, L - u, B + u, b)
      /\ fixed.base = base1 /\ fixed.end = sp.end /\ fixed.thrown = FALSE
  <2> HIDE DEF moved
  <2>1. /\ Record(fixed) /\ fixed.block = moved.block /\ fixed.base = moved.base
        /\ fixed.end = moved.end /\ fixed.thrown = moved.thrown
        /\ fixed.groups = IF rest.length = 0 THEN Remove_From_Group(moved.groups, L, B)
                          ELSE Put_In_Group(Remove_From_Group(moved.groups, L, B),
                                            rest.length, rest.base, b)
    BY <1>5, <1>6, OnlyGroupsFixed
  <2>2. QED
    BY <1>1, <1>5, <2>1
<1>8. new = IF rest.length = 0
            THEN [fixed EXCEPT !.end = Without(@, End_Address(rest)), !.block = Without(@, b)]
            ELSE [fixed EXCEPT !.base = With(@, rest.base, b)]
  BY DEF Block_Usage_Finished
<1>9. sp.block = [c \in DOMAIN sp.block |-> sp.block[c]]
  BY <1>1 DEF Blocks
<1>10. \A s : s \in B .. E - 1 => s \in Cover(sp.block)
  BY DEF Cover
<1>11. /\ DOMAIN block1 = DOMAIN sp.block \ {b}
       /\ \A c \in DOMAIN block1 : block1[c] = sp.block[c]
  BY DEF Without
<1> HIDE DEF new, fixed, moved, block1, groups1, base1, end1
<1>12. CASE u = L
  <2>1. L - u = 0 /\ rest.length = 0
    BY <1>2, <1>4, <1>12
  <2>2. Without([sp.block EXCEPT ![b] = rest], b) = block1
    BY DEF Without, block1
  <2>3. /\ Record(new) /\ new.thrown = FALSE /\ new.block = block1 /\ new.groups = groups1
        /\ new.base = base1 /\ new.end = end1
    BY <1>4, <1>7, <1>8, <2>1, <2>2 DEF Record, end1
  <2>4. B + u - 1 = E - 1
    BY <1>2, <1>12
  <2>5. Consistent(new)
    BY <1>3, <2>3 DEF Consistent
  <2>6. /\ Cover(new.block) = Cover(sp.block) \ (B .. B + u - 1)
        /\ \A c \in DOMAIN sp.block : c # b => c \in DOMAIN new.block /\ new.block[c] = sp.block[c]
        /\ DOMAIN new.block \subseteq DOMAIN sp.block
    BY <1>3, <1>11, <2>3, <2>4
  <2>7. QED
    BY <2>5, <2>6 DEF new
<1>13. CASE u # L
  <2>1. /\ L - u # 0 /\ rest.length # 0 /\ L - u \in 1 .. MaxSlot /\ B + u \in 1 .. MaxSlot
        /\ B + u + (L - u) = E /\ E <= MaxSlot + 1
    BY <1>2, <1>4, <1>13
  <2>2. [sp.block EXCEPT ![b] = rest] = With(block1, b, rest)
    BY <1>9 DEF With, Without, block1
  <2>3. With(end1, E, b) = sp.end
    <3>1. E \in DOMAIN sp.end /\ sp.end[E] = b /\ sp.end = [x \in DOMAIN sp.end |-> sp.end[x]]
      BY IndexDomains
    <3>2. QED
      BY <3>1, PutBack DEF end1
  <2>4. /\ Record(new) /\ new.thrown = FALSE /\ new.block = With(block1, b, rest)
        /\ new.groups = Put_In_Group(groups1, L - u, B + u, b)
        /\ new.base = With(base1, B + u, b) /\ new.end = With(end1, B + u + (L - u), b)
    BY <1>4, <1>7, <1>8, <2>1, <2>2, <2>3 DEF Record
  <2>5. \A c \in DOMAIN block1 :
          End_Address(block1[c]) < B + u \/ B + u + (L - u) < block1[c].base
    <3> TAKE c \in DOMAIN block1
    <3>1. c \in DOMAIN sp.block /\ c # b /\ block1[c] = sp.block[c]
      BY <1>11
    <3>2. End_Address(sp.block[c]) < B \/ E < sp.block[c].base
      BY <1>1, <3>1 DEF Apart
    <3>3. End_Address(sp.block[c]) \in Nat
      BY <1>1, <3>1, BlockFacts
    <3>4. QED
      BY <1>2, <2>1, <3>1, <3>2, <3>3
  <2>6. b \notin DOMAIN block1
    BY <1>11
  <2>7. /\ Agree(new.block, new.groups, new.base, new.end)
        /\ Cover(new.block) = Cover(block1) \cup (B + u .. B + u + (L - u) - 1)
    BY <1>2, <1>3, <2>1, <2>4, <2>5, <2>6, SpaceGains
  <2>8. Consistent(new)
    BY <2>4, <2>7 DEF Consistent
  <2>9. Cover(new.block) = Cover(sp.block) \ (B .. B + u - 1)
    <3>1. \A s : s \in B + u .. B + u + (L - u) - 1 <=> s \in B .. E - 1 /\ s \notin B .. B + u - 1
      BY <1>2, <2>1
    <3>2. \A s : s \in B .. B + u - 1 => s \in B .. E - 1
      BY <1>2, <2>1
    <3>3. QED
      BY <1>3, <1>10, <2>7, <3>1, <3>2
  <2>10. /\ \A c \in DOMAIN sp.block : c # b => c \in DOMAIN new.block /\ new.block[c] = sp.block[c]
         /\ DOMAIN new.block \subseteq DOMAIN sp.block
    BY <1>11, <2>4 DEF With
  <2>11. QED
    BY <2>8, <2>9, <2>10 DEF new
<1>14. QED
  BY <1>12, <1>13

-----------------------------------------------------------------------------
\* The loop over the freed slots

\* Every freed slot is given back, whatever their order.
LEMMA SlotsReturned ==
  ASSUME MaxSlot \in Nat, NEW sp, Consistent(sp),
         freed \in Seq(1 .. MaxSlot), IsInjective(freed),
         Range(freed) \cap Cover(sp.block) = {}
  PROVE  LET new == Add_Block_Address_To_Available_Space(sp) IN
         Consistent(new) /\ Cover(new.block) = Cover(sp.block) \cup Range(freed)
<1> DEFINE n == Len(freed)
           Turn(f, s) == IF s = {} THEN sp ELSE Add_Block_Address(f[s \ {Max(s)}], freed[Max(s)])
           Loop(f, k) == f = [s \in SUBSET (1 .. k) |-> Turn(f, s)]
           g == CHOOSE f : f = [s \in SUBSET DOMAIN freed |-> Turn(f, s)]
<1>1. n \in Nat /\ DOMAIN freed = 1 .. n /\ \A i \in 1 .. n : freed[i] \in 1 .. MaxSlot
  OBVIOUS
<1>2. Add_Block_Address_To_Available_Space(sp) = g[DOMAIN freed]
  BY DEF Add_Block_Address_To_Available_Space, FoldLeft, MapThenFoldSet
<1>3. \A k \in Nat : \E f : Loop(f, k)
  <2> DEFINE G == {k \in Nat : \E f : Loop(f, k)}
  <2>1. 0 \in G
    <3> DEFINE f == [s \in SUBSET (1 .. 0) |-> sp]
    <3>1. SUBSET (1 .. 0) = {{}}
      OBVIOUS
    <3>2. Loop(f, 0)
      BY <3>1
    <3>3. QED
      BY <3>2
  <2>2. ASSUME NEW k \in Nat, k \in G
        PROVE  k + 1 \in G
    <3>0. k \in Nat /\ k + 1 \in Nat
      BY <2>2
    <3>1. PICK f : Loop(f, k)
      BY <2>2
    <3> DEFINE h == [s \in SUBSET (1 .. k + 1) |-> Turn(f, s)]
    <3>2. \A s \in SUBSET (1 .. k + 1) : s # {} => s \ {Max(s)} \in SUBSET (1 .. k)
      <4> TAKE s \in SUBSET (1 .. k + 1)
      <4> HAVE s # {}
      <4> HIDE DEF Turn, Loop, h
      <4>1. s \in SUBSET (1 .. k + 1) /\ s # {} /\ k + 1 \in Nat
        BY <3>0
      <4>2. Max(s) \in s /\ \A i \in s : i <= Max(s)
        BY <4>1, MaxIsGreatest
      <4>3. \A i \in s \ {Max(s)} : i \in 1 .. k
        <5> DEFINE m == Max(s)
        <5>1. m \in 1 .. k + 1 /\ \A i \in s : i \in 1 .. k + 1 /\ i <= m
          BY <4>1, <4>2
        <5> HIDE DEF m
        <5>2. \A i \in s \ {m} : i \in 1 .. k
          BY <3>0, <5>1
        <5>3. QED
          BY <5>2 DEF m
      <4>4. QED
        BY <4>3
    <3>3. \A s \in SUBSET (1 .. k) : s \in SUBSET (1 .. k + 1)
      OBVIOUS
    <3>4. \A s \in SUBSET (1 .. k) : h[s] = f[s]
      BY <3>1, <3>3
    <3>5. \A s \in SUBSET (1 .. k + 1) : Turn(h, s) = Turn(f, s)
      <4> HIDE DEF h
      <4>1. QED
        BY <3>2, <3>4
    <3>6. Loop(h, k + 1)
      <4>1. h = [s \in SUBSET (1 .. k + 1) |-> Turn(f, s)]
        OBVIOUS
      <4> HIDE DEF h, Turn
      <4>2. QED
        BY <3>5, <4>1
    <3> HIDE DEF Loop, h
    <3>7. \E e : Loop(e, k + 1)
      BY <3>6
    <3>8. QED
      BY <3>0, <3>7
  <2> HIDE DEF Loop
  <2>3. \A k \in Nat : k \in G
    <3> HIDE DEF G
    <3>1. QED
      BY <2>1, <2>2, NumberInduction
  <2>4. QED
    BY <2>3
<1>4. g = [s \in SUBSET (1 .. n) |-> Turn(g, s)]
  <2>1. \E f : f = [s \in SUBSET DOMAIN freed |-> Turn(f, s)]
    BY <1>1, <1>3
  <2> HIDE DEF Turn, Loop
  <2>2. QED
    BY <1>1, <2>1
<1> HIDE DEF g
<1> DEFINE Done(k) == /\ Consistent(g[1 .. k])
                      /\ Cover(g[1 .. k].block) = Cover(sp.block) \cup {freed[i] : i \in 1 .. k}
           H == {k \in Nat : k <= n => Done(k)}
<1>5. 0 \in H
  <2>1. 1 .. 0 = {} /\ {} \in SUBSET (1 .. n)
    OBVIOUS
  <2>2. g[1 .. 0] = sp
    BY <1>4, <2>1
  <2>3. QED
    BY <2>1, <2>2
<1>6. ASSUME NEW k \in Nat, k \in H
      PROVE  k + 1 \in H
  <2> SUFFICES ASSUME k + 1 <= n
               PROVE  Done(k + 1)
    OBVIOUS
  <2>1. Done(k)
    BY <1>1, <1>6
  <2>2. /\ 1 .. k + 1 \in SUBSET (1 .. n) /\ 1 .. k + 1 # {} /\ k + 1 \in 1 .. n
        /\ (1 .. k + 1) \ {k + 1} = 1 .. k
    <3>1. 1 .. k + 1 \in SUBSET (1 .. n) /\ k + 1 \in 1 .. k + 1 /\ k + 1 \in 1 .. n
      BY <1>1, <1>6
    <3>2. \A i : i \in (1 .. k + 1) \ {k + 1} <=> i \in 1 .. k
      BY <1>6
    <3>3. QED
      BY <3>1, <3>2
  <2>3. Max(1 .. k + 1) = k + 1
    <3>1. k + 1 \in Nat /\ k + 1 \in 1 .. k + 1
      BY <1>6
    <3>2. Max(1 .. k + 1) \in 1 .. k + 1 /\ \A i \in 1 .. k + 1 : i <= Max(1 .. k + 1)
      BY <2>2, <3>1, MaxIsGreatest
    <3>3. QED
      BY <3>1, <3>2
  <2>4. g[1 .. k + 1] = Add_Block_Address(g[1 .. k], freed[k + 1])
    BY <1>4, <2>2, <2>3
  <2>5. freed[k + 1] \notin Cover(g[1 .. k].block)
    <3>1. freed[k + 1] \notin Cover(sp.block)
      BY <1>1, <2>2 DEF Range
    <3>2. \A i \in 1 .. k : freed[i] # freed[k + 1]
      BY <1>1, <2>2 DEF IsInjective
    <3>3. QED
      BY <2>1, <3>1, <3>2
  <2>6. /\ Consistent(g[1 .. k + 1])
        /\ Cover(g[1 .. k + 1].block) = Cover(g[1 .. k].block) \cup {freed[k + 1]}
    <3>1. freed[k + 1] \in 1 .. MaxSlot /\ Consistent(g[1 .. k])
      BY <1>1, <2>1, <2>2
    <3> HIDE DEF Done
    <3>2. QED
      BY <2>4, <2>5, <3>1, SlotReturned
  <2>7. {freed[i] : i \in 1 .. k + 1} = {freed[i] : i \in 1 .. k} \cup {freed[k + 1]}
    OBVIOUS
  <2>8. QED
    BY <2>1, <2>6, <2>7
<1>7. n \in H
  <2> HIDE DEF H
  <2>1. QED
    BY <1>1, <1>5, <1>6, NumberInduction
<1>8. Done(n)
  BY <1>1, <1>7
<1>9. {freed[i] : i \in 1 .. n} = Range(freed)
  BY <1>1 DEF Range
<1>10. QED
  BY <1>1, <1>2, <1>8, <1>9

-----------------------------------------------------------------------------
\* How many slots some blocks have

Covered(chosen) == UNION {Slots_Of(b) : b \in chosen}

\* The slots of the free blocks are finitely many, and no slot is in two of them.
LEMMA SlotFacts ==
  ASSUME MaxSlot \in Nat, Consistent(space)
  PROVE  /\ IsFiniteSet(DOMAIN space.block)
         /\ \A b \in DOMAIN space.block :
              /\ Length_Of(b) \in Nat /\ Length_Of(b) = space.block[b].length
              /\ space.block[b].base \in 1 .. MaxSlot
              /\ Slots_Of(b) = space.block[b].base .. space.block[b].base + Length_Of(b) - 1
              /\ Slots_Of(b) \subseteq 1 .. MaxSlot
              /\ IsFiniteSet(Slots_Of(b)) /\ Cardinality(Slots_Of(b)) = Length_Of(b)
         /\ \A b, c \in DOMAIN space.block : b # c => Slots_Of(b) \cap Slots_Of(c) = {}
<1>1. Blocks(space.block) /\ Apart(space.block) /\ DOMAIN space.block \subseteq 1 .. MaxSlot
  BY DEF Consistent, Agree, Blocks
<1>2. IsFiniteSet(DOMAIN space.block)
  <2>1. IsFiniteSet(1 .. MaxSlot)
    BY FS_Interval
  <2>2. QED
    BY <1>1, <2>1, FS_Subset
<1>3. ASSUME NEW b \in DOMAIN space.block
      PROVE  /\ Length_Of(b) \in Nat /\ Length_Of(b) = space.block[b].length
             /\ space.block[b].base \in 1 .. MaxSlot
             /\ End_Address(space.block[b]) = space.block[b].base + Length_Of(b)
             /\ Slots_Of(b) = space.block[b].base .. space.block[b].base + Length_Of(b) - 1
             /\ Slots_Of(b) \subseteq 1 .. MaxSlot
             /\ IsFiniteSet(Slots_Of(b)) /\ Cardinality(Slots_Of(b)) = Length_Of(b)
  <2>1. /\ space.block[b].base \in 1 .. MaxSlot /\ space.block[b].length \in 1 .. MaxSlot
        /\ End_Address(space.block[b]) = space.block[b].base + space.block[b].length
        /\ End_Address(space.block[b]) \in 1 .. MaxSlot + 1
    BY <1>1, BlockFacts
  <2>2. /\ Length_Of(b) \in Nat /\ Length_Of(b) = space.block[b].length
        /\ Slots_Of(b) = space.block[b].base .. space.block[b].base + Length_Of(b) - 1
    BY <2>1 DEF Length_Of, Slots_Of
  <2>3. Slots_Of(b) \subseteq 1 .. MaxSlot
    BY <2>1, <2>2
  <2>4. IsFiniteSet(Slots_Of(b)) /\ Cardinality(Slots_Of(b)) = Length_Of(b)
    <3> DEFINE first == space.block[b].base
               last == first + Length_Of(b) - 1
    <3>1. first \in Int /\ last \in Int /\ first <= last /\ last - first + 1 = Length_Of(b)
      BY <2>1, <2>2
    <3>2. Slots_Of(b) = first .. last
      BY <2>2
    <3> HIDE DEF first, last
    <3>3. IsFiniteSet(first .. last) /\ Cardinality(first .. last) = last - first + 1
      BY <3>1, FS_Interval
    <3>4. QED
      BY <3>1, <3>2, <3>3
  <2>5. QED
    BY <2>1, <2>2, <2>3, <2>4
<1>4. ASSUME NEW b \in DOMAIN space.block, NEW c \in DOMAIN space.block, b # c
      PROVE  Slots_Of(b) \cap Slots_Of(c) = {}
  <2>1. /\ space.block[b].base \in Nat /\ End_Address(space.block[b]) \in Nat
        /\ space.block[c].base \in Nat /\ End_Address(space.block[c]) \in Nat
        /\ \/ End_Address(space.block[b]) < space.block[c].base
           \/ End_Address(space.block[c]) < space.block[b].base
    BY <1>1, <1>4, BlockFacts DEF Apart
  <2>2. QED
    BY <2>1 DEF Slots_Of
<1>5. QED
  BY <1>2, <1>3, <1>4

\* The sum of the lengths is the number of slots.
LEMMA TotalCounts ==
  ASSUME MaxSlot \in Nat, Consistent(space), NEW C \in SUBSET DOMAIN space.block
  PROVE  /\ IsFiniteSet(Covered(C)) /\ Covered(C) \subseteq 1 .. MaxSlot
         /\ Total(C) = Cardinality(Covered(C))
<1> DEFINE d == [b \in C |-> Length_Of(b)]
           g == Sums(C, d)
           One(f, s) == IF s = {} THEN 0 ELSE Length_Of(Some(s)) + f[s \ {Some(s)}]
           Two(f, s) == IF s = {} THEN 0 ELSE d[Some(s)] + f[s \ {Some(s)}]
<1>1. Total(C) = g[C]
  <2>1. Total(C) = (CHOOSE f : f = [s \in SUBSET C |-> One(f, s)])[C]
    BY DEF Total, MapThenSumSet, MapThenFoldSet, Some
  <2>2. g = CHOOSE f : f = [s \in SUBSET C |-> Two(f, s)]
    BY DEF Sums
  <2>3. ASSUME NEW f, NEW s \in SUBSET C
        PROVE  One(f, s) = Two(f, s)
    BY DEF Some
  <2> HIDE DEF One, Two, g
  <2>4. ASSUME NEW f
        PROVE  [s \in SUBSET C |-> One(f, s)] = [s \in SUBSET C |-> Two(f, s)]
    BY <2>3
  <2>5. (CHOOSE f : f = [s \in SUBSET C |-> One(f, s)])
          = CHOOSE f : f = [s \in SUBSET C |-> Two(f, s)]
    BY <2>4
  <2>6. QED
    BY <2>1, <2>2, <2>5
<1>2. IsFiniteSet(C)
  BY SlotFacts, FS_Subset
<1>3. \A s \in SUBSET C : s # {} => Some(s) \in s /\ s \ {Some(s)} \in SUBSET C
  BY DEF Some
<1>4. \A s \in SUBSET C : g[s] = IF s = {} THEN 0 ELSE d[Some(s)] + g[s \ {Some(s)}]
  <2> HIDE DEF d
  <2>1. ASSUME NEW c
        PROVE  \A s \in SUBSET C :
                 Sums(C, c)[s] = IF s = {} THEN 0 ELSE c[Some(s)] + Sums(C, c)[s \ {Some(s)}]
    BY <1>2, SumsExist
  <2>2. QED
    BY <2>1
<1>5. \A s \in SUBSET C : g[s] = IF s = {} THEN 0 ELSE Length_Of(Some(s)) + g[s \ {Some(s)}]
  <2>1. \A s \in SUBSET C : s # {} => d[Some(s)] = Length_Of(Some(s))
    BY <1>3
  <2> HIDE DEF d, g
  <2>2. QED
    BY <1>4, <2>1
<1> HIDE DEF g, d
<1> DEFINE Right(s) == /\ IsFiniteSet(Covered(s)) /\ Covered(s) \subseteq 1 .. MaxSlot
                       /\ g[s] = Cardinality(Covered(s))
           G == {s \in SUBSET C : Right(s)}
<1>6. ASSUME NEW s \in SUBSET C, \A t \in SUBSET s : t # s => t \in G
      PROVE  s \in G
  <2>1. CASE s = {}
    <3>1. Covered(s) = {}
      BY <2>1 DEF Covered
    <3>2. QED
      BY <1>5, <2>1, <3>1, FS_EmptySet
  <2>2. CASE s # {}
    <3> DEFINE x == Some(s)
               t == s \ {x}
    <3>1. x \in s /\ x \in DOMAIN space.block /\ t \in SUBSET s /\ t # s /\ t \in SUBSET C
      BY <1>3, <2>2
    <3>2. Right(t)
      BY <1>6, <3>1
    <3>3. g[s] = Length_Of(x) + g[t]
      BY <1>5, <2>2
    <3> HIDE DEF x, t
    <3>4. s = t \cup {x} /\ x \notin t
      BY <3>1 DEF t
    <3>5. Covered(s) = Covered(t) \cup Slots_Of(x)
      BY <3>4 DEF Covered
    <3>6. Covered(t) \cap Slots_Of(x) = {}
      <4>1. \A b \in t : Slots_Of(b) \cap Slots_Of(x) = {}
        BY <3>1, <3>4, SlotFacts
      <4>2. QED
        BY <4>1 DEF Covered
    <3>7. /\ IsFiniteSet(Slots_Of(x)) /\ Cardinality(Slots_Of(x)) = Length_Of(x)
          /\ Slots_Of(x) \subseteq 1 .. MaxSlot /\ Length_Of(x) \in Nat
      BY <3>1, SlotFacts
    <3>8. /\ IsFiniteSet(Covered(s))
          /\ Cardinality(Covered(s)) = Cardinality(Covered(t)) + Cardinality(Slots_Of(x)) - 0
      BY <3>2, <3>5, <3>6, <3>7, FS_Union, FS_EmptySet
    <3>9. Cardinality(Covered(t)) \in Nat
      BY <3>2, FS_CardinalityType
    <3>10. g[s] = Cardinality(Covered(s))
      BY <3>2, <3>3, <3>7, <3>8, <3>9
    <3>11. Right(s)
      BY <3>2, <3>5, <3>7, <3>8, <3>10
    <3> HIDE DEF Right
    <3>12. QED
      BY <3>11
  <2>3. QED
    BY <2>1, <2>2
<1>7. C \in G
  <2> HIDE DEF G
  <2>1. QED
    BY <1>2, <1>6, SubsetInduction
<1>8. QED
  BY <1>1, <1>7

-----------------------------------------------------------------------------
\* The slots a commit takes of the chosen blocks

Part(chosen, n, b) == space.block[b].base .. space.block[b].base + Used_Length(chosen, n, b) - 1
Parts(chosen, n, blocks) == UNION {Part(chosen, n, b) : b \in blocks}
Lower(chosen, b) == {c \in chosen : space.block[c].base < space.block[b].base}
Top(blocks) == CHOOSE b \in blocks : \A c \in blocks : space.block[c].base <= space.block[b].base

\* Some block lies after all the others.
LEMMA TopBlock ==
  ASSUME MaxSlot \in Nat, Consistent(space), NEW C \in SUBSET DOMAIN space.block, C # {}
  PROVE  /\ Top(C) \in C
         /\ \A c \in C : c # Top(C) => space.block[c].base < space.block[Top(C)].base
<1> DEFINE bases == {space.block[b].base : b \in C}
<1>1. \A b \in C : b \in DOMAIN space.block /\ space.block[b].base \in 1 .. MaxSlot
  BY SlotFacts
<1>2. bases \in SUBSET (1 .. MaxSlot) /\ bases # {}
  BY <1>1
<1>3. Max(bases) \in bases /\ \A k \in bases : k <= Max(bases)
  BY <1>2, MaxIsGreatest
<1>4. PICK b \in C : space.block[b].base = Max(bases)
  BY <1>3
<1>5. \A c \in C : space.block[c].base <= space.block[b].base
  BY <1>3, <1>4
<1>6. Top(C) \in C /\ \A c \in C : space.block[c].base <= space.block[Top(C)].base
  BY <1>4, <1>5 DEF Top
<1>7. \A c \in C : c # Top(C) => space.block[c].base # space.block[Top(C)].base
  <2> TAKE c \in C
  <2> HAVE c # Top(C)
  <2>1. Slots_Of(c) \cap Slots_Of(Top(C)) = {}
    BY <1>6, SlotFacts
  <2>2. /\ space.block[c].base \in Slots_Of(c)
        /\ space.block[Top(C)].base \in Slots_Of(Top(C))
    <3>1. \A d \in C : space.block[d].length \in 1 .. MaxSlot
      BY DEF Consistent, Agree, Blocks, Block
    <3>2. \A d \in C : space.block[d].base \in Slots_Of(d)
      BY <1>1, <3>1 DEF Slots_Of, End_Address
    <3>3. QED
      BY <1>6, <3>2
  <2>3. QED
    BY <2>1, <2>2
<1>8. QED
  BY <1>1, <1>6, <1>7

\* A block gives what the blocks before it leave to take, and no more than it has.
LEMMA UsedSlots ==
  ASSUME MaxSlot \in Nat, Consistent(space), NEW C \in SUBSET DOMAIN space.block,
         NEW n \in Nat, NEW b \in C
  PROVE  LET before == Cardinality(Covered(Lower(C, b)))
             left == IF before >= n THEN 0 ELSE n - before
             u == Used_Length(C, n, b)
         IN /\ u = IF left <= Length_Of(b) THEN left ELSE Length_Of(b)
            /\ u \in 0 .. Length_Of(b)
            /\ Part(C, n, b) \subseteq Slots_Of(b)
            /\ IsFiniteSet(Part(C, n, b)) /\ Cardinality(Part(C, n, b)) = u
<1> DEFINE before == Cardinality(Covered(Lower(C, b)))
           left == IF before >= n THEN 0 ELSE n - before
           u == Used_Length(C, n, b)
           base == space.block[b].base
<1>1. Lower(C, b) \in SUBSET DOMAIN space.block
  BY DEF Lower
<1>2. Total(Lower(C, b)) = before /\ before \in Nat
  BY <1>1, TotalCounts, FS_CardinalityType
<1>3. /\ Length_Of(b) \in Nat /\ base \in 1 .. MaxSlot
      /\ Slots_Of(b) = base .. base + Length_Of(b) - 1
  BY SlotFacts
<1>4. u = IF before >= n THEN 0 ELSE Min({n - before, Length_Of(b)})
  BY <1>2 DEF Used_Length, Lower
<1> HIDE DEF before, base
<1>5. u = IF left <= Length_Of(b) THEN left ELSE Length_Of(b)
  <2>1. CASE before >= n
    BY <1>2, <1>3, <1>4, <2>1
  <2>2. CASE ~ (before >= n)
    <3>1. n - before \in Nat
      BY <1>2, <2>2
    <3>2. Min({n - before, Length_Of(b)})
            = IF n - before <= Length_Of(b) THEN n - before ELSE Length_Of(b)
      BY <1>3, <3>1, MinOfTwo
    <3>3. QED
      BY <1>4, <2>2, <3>2
  <2>3. QED
    BY <2>1, <2>2
<1>6. u \in 0 .. Length_Of(b)
  BY <1>2, <1>3, <1>5
<1>7. Part(C, n, b) = base .. base + u - 1
  BY DEF Part, base
<1> HIDE DEF u, left
<1>8. Part(C, n, b) \subseteq Slots_Of(b)
  BY <1>3, <1>6, <1>7
<1>9. IsFiniteSet(Part(C, n, b)) /\ Cardinality(Part(C, n, b)) = u
  <2>1. CASE u = 0
    <3>1. Part(C, n, b) = {}
      BY <1>3, <1>7, <2>1
    <3>2. QED
      BY <2>1, <3>1, FS_EmptySet
  <2>2. CASE u # 0
    <3> DEFINE last == base + u - 1
    <3>1. base \in Int /\ last \in Int /\ base <= last /\ last - base + 1 = u
      BY <1>3, <1>6, <2>2
    <3>2. Part(C, n, b) = base .. last
      BY <1>7
    <3> HIDE DEF last
    <3>3. IsFiniteSet(base .. last) /\ Cardinality(base .. last) = last - base + 1
      BY <3>1, FS_Interval
    <3>4. QED
      BY <3>1, <3>2, <3>3
  <2>3. QED
    BY <2>1, <2>2
<1>10. QED
  BY <1>5, <1>6, <1>8, <1>9 DEF u, left, before

\* Taken from the lowest block on, the parts are n slots, or all there are.
LEMMA PartsFill ==
  ASSUME MaxSlot \in Nat, Consistent(space), NEW C \in SUBSET DOMAIN space.block, NEW n \in Nat
  PROVE  /\ IsFiniteSet(Parts(C, n, C)) /\ Parts(C, n, C) \subseteq Covered(C)
         /\ Cardinality(Parts(C, n, C)) = IF n <= Total(C) THEN n ELSE Total(C)
<1> DEFINE Closed(D) == \A b \in D : Lower(C, b) \subseteq D
           Size(D) == Cardinality(Covered(D))
           Right(D) == /\ IsFiniteSet(Parts(C, n, D)) /\ Parts(C, n, D) \subseteq Covered(D)
                       /\ Cardinality(Parts(C, n, D)) = IF n <= Size(D) THEN n ELSE Size(D)
           G == {D \in SUBSET C : Closed(D) => Right(D)}
<1>1. IsFiniteSet(C)
  BY SlotFacts, FS_Subset
<1>2. ASSUME NEW D \in SUBSET C, \A t \in SUBSET D : t # D => t \in G
      PROVE  D \in G
  <2> SUFFICES ASSUME Closed(D)
               PROVE  Right(D)
    OBVIOUS
  <2>1. CASE D = {}
    <3>1. Covered(D) = {} /\ Parts(C, n, D) = {}
      BY <2>1 DEF Covered, Parts
    <3>2. QED
      BY <3>1, FS_EmptySet
  <2>2. CASE D # {}
    <3> DEFINE x == Top(D)
               t == D \ {x}
               u == Used_Length(C, n, x)
               left == IF Size(t) >= n THEN 0 ELSE n - Size(t)
    <3>1. D \in SUBSET DOMAIN space.block
      OBVIOUS
    <3>2. /\ x \in D /\ x \in C /\ x \in DOMAIN space.block
          /\ \A c \in D : c # x => space.block[c].base < space.block[x].base
      BY <2>2, <3>1, TopBlock
    <3> HIDE DEF x
    <3>3. \A c \in D : space.block[c].base \in Nat
      BY SlotFacts
    <3>4. Lower(C, x) = t
      BY <3>2, <3>3 DEF Lower
    <3>5. Closed(t)
      <4> SUFFICES ASSUME NEW b \in t, NEW c \in Lower(C, b)
                   PROVE  c \in t
        OBVIOUS
      <4>1. c \in D /\ space.block[c].base < space.block[b].base
        BY DEF Lower
      <4>2. c # x
        BY <3>2, <3>3, <4>1
      <4>3. QED
        BY <4>1, <4>2
    <3>6. t \in SUBSET D /\ t # D /\ t \in SUBSET C /\ t \in SUBSET DOMAIN space.block
      BY <3>2
    <3>7. Right(t)
      BY <1>2, <3>5, <3>6
    <3>8. D = t \cup {x} /\ x \notin t
      BY <3>2
    <3>9. /\ u = IF left <= Length_Of(x) THEN left ELSE Length_Of(x)
          /\ Part(C, n, x) \subseteq Slots_Of(x)
          /\ IsFiniteSet(Part(C, n, x)) /\ Cardinality(Part(C, n, x)) = u
      BY <3>2, <3>4, UsedSlots
    <3> HIDE DEF u
    <3>10. /\ Covered(D) = Covered(t) \cup Slots_Of(x)
           /\ Parts(C, n, D) = Parts(C, n, t) \cup Part(C, n, x)
      <4> HIDE DEF t
      <4>1. QED
        BY <3>8 DEF Covered, Parts
    <3>11. Covered(t) \cap Slots_Of(x) = {}
      <4>1. \A b \in t : Slots_Of(b) \cap Slots_Of(x) = {}
        BY <3>2, <3>6, SlotFacts
      <4>2. QED
        BY <4>1 DEF Covered
    <3>12. /\ IsFiniteSet(Slots_Of(x)) /\ Cardinality(Slots_Of(x)) = Length_Of(x)
           /\ Length_Of(x) \in Nat
      BY <3>2, SlotFacts
    <3>13. IsFiniteSet(Covered(t))
      BY <3>6, TotalCounts
    <3> HIDE DEF t
    <3>14. Size(D) = Size(t) + Length_Of(x) - Cardinality({}) /\ Cardinality({}) = 0
      <4>1. Cardinality(Covered(t) \cup Slots_Of(x))
              = Cardinality(Covered(t)) + Cardinality(Slots_Of(x))
                - Cardinality(Covered(t) \cap Slots_Of(x))
        BY <3>12, <3>13, FS_Union
      <4>2. Cardinality({}) = 0
        BY FS_EmptySet
      <4>3. QED
        BY <3>10, <3>11, <3>12, <4>1, <4>2
    <3>15. Parts(C, n, t) \cap Part(C, n, x) = {}
      BY <3>7, <3>9, <3>11
    <3>16. /\ IsFiniteSet(Parts(C, n, D))
           /\ Cardinality(Parts(C, n, D)) = Cardinality(Parts(C, n, t)) + u - Cardinality({})
      BY <3>7, <3>9, <3>10, <3>15, FS_Union
    <3>17. Size(t) \in Nat
      BY <3>13, FS_CardinalityType
    <3> DEFINE s == Size(t)
               z == Size(D)
               l == Length_Of(x)
               p == Cardinality(Parts(C, n, t))
               q == Cardinality(Parts(C, n, D))
    <3>18. /\ z = s + l /\ q = p + u /\ s \in Nat /\ l \in Nat
           /\ p = IF n <= s THEN n ELSE s
           /\ u = LET r == IF s >= n THEN 0 ELSE n - s IN IF r <= l THEN r ELSE l
      <4>1. p \in Nat /\ u \in Nat
        BY <3>7, <3>9, FS_CardinalityType
      <4>2. z = s + l /\ q = p + u
        BY <3>12, <3>14, <3>16, <3>17, <4>1
      <4>3. QED
        BY <3>7, <3>9, <3>12, <3>17, <4>2
    <3> HIDE DEF s, z, l, p, q, left
    <3>19. q = IF n <= z THEN n ELSE z
      BY <3>18
    <3>20. Parts(C, n, D) \subseteq Covered(D)
      BY <3>7, <3>9, <3>10
    <3>21. QED
      BY <3>16, <3>19, <3>20 DEF q, z
  <2>3. QED
    BY <2>1, <2>2
<1>3. C \in G
  <2> HIDE DEF G
  <2>1. QED
    BY <1>1, <1>2, SubsetInduction
<1>4. Closed(C)
  BY DEF Lower
<1>5. Right(C)
  BY <1>3, <1>4
<1>6. Total(C) = Size(C)
  BY TotalCounts
<1>7. QED
  BY <1>5, <1>6

\* The loop of Commit: the chosen blocks lose their parts, the others nothing.
LEMMA BlocksFinished ==
  ASSUME MaxSlot \in Nat, Consistent(space), NEW C \in SUBSET DOMAIN space.block, NEW n \in Nat
  PROVE  LET new == Blocks_Finished(C, n) IN
         Consistent(new) /\ Cover(new.block) = Cover(space.block) \ Parts(C, n, C)
<1> DEFINE Finish(b, sp) == Block_Usage_Finished(sp, b, Used_Length(C, n, b))
           Turn(f, s) == IF s = {} THEN space ELSE Finish(Top(s), f[s \ {Top(s)}])
           Loop(f, k) == f = [s \in {t \in SUBSET C : Cardinality(t) <= k} |-> Turn(f, s)]
           g == CHOOSE f : f = [s \in SUBSET C |-> Turn(f, s)]
<1>1. Blocks_Finished(C, n) = g[C]
  BY DEF Blocks_Finished, MapThenFoldSet, Top
<1>2. /\ IsFiniteSet(C) /\ Cardinality(C) \in Nat
      /\ \A s \in SUBSET C : /\ IsFiniteSet(s) /\ Cardinality(s) \in Nat
                             /\ Cardinality(s) <= Cardinality(C)
  BY SlotFacts, FS_Subset, FS_CardinalityType
<1>3. \A s \in SUBSET C : s # {} =>
        /\ Top(s) \in s /\ s \ {Top(s)} \in SUBSET C
        /\ Cardinality(s \ {Top(s)}) = Cardinality(s) - 1
  <2> TAKE s \in SUBSET C
  <2> HAVE s # {}
  <2>1. s \in SUBSET DOMAIN space.block
    OBVIOUS
  <2>2. Top(s) \in s
    BY <2>1, TopBlock
  <2>3. QED
    BY <1>2, <2>2, FS_RemoveElement
<1> HIDE DEF Finish
<1>4. \A k \in Nat : \E f : Loop(f, k)
  <2> DEFINE G == {k \in Nat : \E f : Loop(f, k)}
  <2>1. 0 \in G
    <3> DEFINE f == [s \in {t \in SUBSET C : Cardinality(t) <= 0} |-> space]
    <3>1. \A s \in SUBSET C : Cardinality(s) <= 0 => s = {}
      BY <1>2, FS_EmptySet
    <3>2. Loop(f, 0)
      BY <3>1
    <3>3. QED
      BY <3>2
  <2>2. ASSUME NEW k \in Nat, k \in G
        PROVE  k + 1 \in G
    <3>0. k \in Nat /\ k + 1 \in Nat
      BY <2>2
    <3>1. PICK f : Loop(f, k)
      BY <2>2
    <3> DEFINE Small(i) == {t \in SUBSET C : Cardinality(t) <= i}
               h == [s \in Small(k + 1) |-> Turn(f, s)]
    <3>2. \A s \in Small(k + 1) : s # {} => s \ {Top(s)} \in Small(k)
      BY <1>2, <1>3
    <3>3. \A s \in Small(k) : s \in Small(k + 1)
      BY <1>2
    <3>4. \A s \in Small(k) : h[s] = f[s]
      BY <3>1, <3>3
    <3>5. \A s \in Small(k + 1) : Turn(h, s) = Turn(f, s)
      <4> HIDE DEF h, Small
      <4>1. QED
        BY <3>2, <3>4
    <3>6. Loop(h, k + 1)
      <4>1. h = [s \in Small(k + 1) |-> Turn(f, s)]
        OBVIOUS
      <4> HIDE DEF h, Turn
      <4>2. QED
        BY <3>5, <4>1
    <3> HIDE DEF Loop, h
    <3>7. \E e : Loop(e, k + 1)
      BY <3>6
    <3>8. QED
      BY <3>0, <3>7
  <2> HIDE DEF Loop
  <2>3. \A k \in Nat : k \in G
    <3> HIDE DEF G
    <3>1. QED
      BY <2>1, <2>2, NumberInduction
  <2>4. QED
    BY <2>3
<1>5. g = [s \in SUBSET C |-> Turn(g, s)]
  <2>1. {t \in SUBSET C : Cardinality(t) <= Cardinality(C)} = SUBSET C
    BY <1>2
  <2>2. \E f : f = [s \in SUBSET C |-> Turn(f, s)]
    <3> HIDE DEF Turn
    <3>1. PICK f : Loop(f, Cardinality(C))
      <4> HIDE DEF Loop
      <4>1. QED
        BY <1>2, <1>4
    <3>2. QED
      BY <2>1, <3>1
  <2> HIDE DEF Turn, Loop
  <2>3. QED
    BY <2>2
<1> HIDE DEF g
<1> DEFINE Right(s) ==
             /\ Consistent(g[s])
             /\ Cover(g[s].block) = Cover(space.block) \ Parts(C, n, s)
             /\ \A c \in DOMAIN space.block :
                  c \notin s => c \in DOMAIN g[s].block /\ g[s].block[c] = space.block[c]
           G == {s \in SUBSET C : Right(s)}
<1>6. ASSUME NEW s \in SUBSET C, \A t \in SUBSET s : t # s => t \in G
      PROVE  s \in G
  <2>1. CASE s = {}
    <3>1. g[s] = space
      BY <1>5, <2>1
    <3>2. Parts(C, n, s) = {}
      BY <2>1 DEF Parts
    <3>3. QED
      BY <3>1, <3>2
  <2>2. CASE s # {}
    <3> DEFINE x == Top(s)
               t == s \ {x}
               u == Used_Length(C, n, x)
    <3>1. /\ x \in s /\ x \in C /\ x \in DOMAIN space.block
          /\ t \in SUBSET s /\ t # s /\ t \in SUBSET C
      BY <1>3, <2>2
    <3>2. Right(t)
      BY <1>6, <3>1
    <3>3. g[s] = Block_Usage_Finished(g[t], x, u)
      BY <1>5, <2>2 DEF Finish
    <3> HIDE DEF x, t, u
    <3>4. s = t \cup {x} /\ x \notin t
      BY <3>1 DEF t
    <3>5. x \in DOMAIN g[t].block /\ g[t].block[x] = space.block[x]
      BY <3>1, <3>2, <3>4
    <3>6. u \in 0 .. g[t].block[x].length
      <4>1. u \in 0 .. Length_Of(x)
        BY <3>1, UsedSlots DEF u
      <4>2. QED
        BY <3>5, <4>1 DEF Length_Of
    <3>7. /\ Consistent(g[s])
          /\ Cover(g[s].block) = Cover(g[t].block) \ Part(C, n, x)
          /\ \A c \in DOMAIN g[t].block :
               c # x => c \in DOMAIN g[s].block /\ g[s].block[c] = g[t].block[c]
      <4>1. Consistent(g[t])
        BY <3>2
      <4>2. Part(C, n, x) = g[t].block[x].base .. g[t].block[x].base + u - 1
        BY <3>5 DEF Part, u
      <4> DEFINE sp == g[t]
                 new == Block_Usage_Finished(sp, x, u)
      <4>3. Consistent(sp) /\ x \in DOMAIN sp.block /\ u \in 0 .. sp.block[x].length
        BY <3>5, <3>6, <4>1
      <4> HIDE DEF Right, G, sp
      <4>4. /\ Consistent(new)
            /\ Cover(new.block) = Cover(sp.block) \ (sp.block[x].base .. sp.block[x].base + u - 1)
            /\ \A c \in DOMAIN sp.block : c # x => c \in DOMAIN new.block /\ new.block[c] = sp.block[c]
        BY <4>3, BlockUsed
      <4>5. g[s] = new
        BY <3>3 DEF sp
      <4> HIDE DEF new
      <4>6. QED
        BY <4>2, <4>4, <4>5 DEF sp
    <3>8. Parts(C, n, s) = Parts(C, n, t) \cup Part(C, n, x)
      BY <3>4 DEF Parts
    <3>9. Cover(g[s].block) = Cover(space.block) \ Parts(C, n, s)
      BY <3>2, <3>7, <3>8
    <3>10. \A c \in DOMAIN space.block :
             c \notin s => c \in DOMAIN g[s].block /\ g[s].block[c] = space.block[c]
      BY <3>2, <3>4, <3>7
    <3>11. Right(s)
      BY <3>7, <3>9, <3>10
    <3> HIDE DEF Right
    <3>12. QED
      BY <3>11
  <2>3. QED
    BY <2>1, <2>2
<1>7. C \in G
  <2> HIDE DEF G
  <2>1. QED
    BY <1>2, <1>6, SubsetInduction
<1>8. QED
  BY <1>1, <1>7

-----------------------------------------------------------------------------
\* What a commit is given

\* The search finds blocks of the space, enough of them or all.
LEMMA BlocksFound ==
  ASSUME MaxSlot \in Nat, Consistent(space), NEW n \in Nat,
         NEW C \in Look_For_Available_Blocks(n)
  PROVE  /\ C \in SUBSET DOMAIN space.block
         /\ \/ C = DOMAIN space.block /\ n >= Total(C)
            \/ n <= Total(C)
<1>1. CASE n >= Total(DOMAIN space.block)
  BY <1>1 DEF Look_For_Available_Blocks
<1>2. CASE ~ (n >= Total(DOMAIN space.block))
  <2> DEFINE groups == space.groups
             Before(k) == UNION {Blocks_Of(groups[i]) : i \in 1 .. k - 1}
             Enough(k) == {D \in {Before(k) \cup part : part \in (SUBSET Blocks_Of(groups[k])) \ {{}}} :
                             n <= Total(D) /\ Total(D) < n + groups[k].length}
  <2>0. C \in UNION {Enough(k) : k \in DOMAIN groups}
    BY <1>2 DEF Look_For_Available_Blocks
  <2>1. PICK k \in DOMAIN groups : C \in Enough(k)
    <3> HIDE DEF Enough
    <3>1. QED
      BY <2>0
  <2>2. /\ DOMAIN groups = 1 .. Len(groups) /\ Len(groups) \in Nat
        /\ \A i \in DOMAIN groups : Blocks_Of(groups[i]) \subseteq DOMAIN space.block
    <3>1. /\ groups \in Seq(Group)
          /\ \A i \in 1 .. Len(groups) : \A a \in DOMAIN groups[i].blocks :
               groups[i].blocks[a] \in DOMAIN space.block
      BY DEF Consistent, Agree, Grouped
    <3>2. DOMAIN groups = 1 .. Len(groups) /\ Len(groups) \in Nat
      BY <3>1
    <3> HIDE DEF groups
    <3>3. QED
      BY <3>1, <3>2 DEF Blocks_Of
  <2>3. \A i \in 1 .. k - 1 : i \in DOMAIN groups
    BY <2>1, <2>2
  <2>4. QED
    BY <2>1, <2>2, <2>3
<1>3. QED
  BY <1>1, <1>2

\* The free slots are finitely many.
LEMMA FreeFinite ==
  ASSUME MaxSlot \in Nat, Consistent(space)
  PROVE  IsFiniteSet(Free) /\ Cardinality(Free) \in Nat
<1>1. Free = Covered(DOMAIN space.block)
  BY DEF Free, Covered
<1>2. QED
  BY <1>1, TotalCounts, FS_CardinalityType

\* The cardinality of the allocator is that of the blocks.
LEMMA SameCardinality == \A S : Allocator!Cardinality(S) = Cardinality(S)
BY DEF Allocator!Cardinality, Cardinality

\* The slots of a commit are what the allocator may give, and as many as nodes.
LEMMA SlotsGiven ==
  ASSUME MaxSlot \in Nat, Consistent(space), pointer \in Nat \ {0},
         \A s \in Free : s < pointer,
         NEW n \in Nat, NEW C \in Look_For_Available_Blocks(n)
  PROVE  /\ C \in SUBSET DOMAIN space.block
         /\ Addresses(C, n) \in Allocator!Allocations(Free, pointer, n)
         /\ pointer + (n - Min({n, Total(C)})) = Allocator!PointerAfter(Free, pointer, n)
         /\ Free \ Addresses(C, n) = Free \ Parts(C, n, C)
         /\ Cardinality(Addresses(C, n)) = n
<1> DEFINE S == Parts(C, n, C)
           T == Total(C)
           F == Cardinality(Free)
           k == n - Min({n, T})
           A == Addresses(C, n)
<1>1. C \in SUBSET DOMAIN space.block /\ ((C = DOMAIN space.block /\ n >= T) \/ n <= T)
  BY BlocksFound
<1>2. /\ IsFiniteSet(Covered(C)) /\ T = Cardinality(Covered(C)) /\ T \in Nat
      /\ IsFiniteSet(S) /\ S \subseteq Covered(C)
      /\ Cardinality(S) = IF n <= T THEN n ELSE T
  BY <1>1, TotalCounts, PartsFill, FS_CardinalityType
<1>3. Free = Covered(DOMAIN space.block)
  BY DEF Free, Covered
<1>4. /\ IsFiniteSet(Free) /\ F \in Nat /\ F = Total(DOMAIN space.block)
      /\ Free \subseteq 1 .. MaxSlot
  BY <1>3, TotalCounts, FS_CardinalityType
<1>5. Covered(C) \subseteq Free
  BY <1>1, <1>3 DEF Covered
<1>6. Min({n, T}) = IF n <= T THEN n ELSE T
  BY <1>2, MinOfTwo
<1>7. A = S \cup (pointer .. pointer + k - 1)
  <2>1. A = (UNION {Part(C, n, b) : b \in C}) \cup (pointer .. pointer + k - 1)
    BY DEF Addresses, Part
  <2>2. QED
    BY <2>1 DEF Parts
<1>8. S \subseteq Free
  BY <1>2, <1>5
<1>9. \A s \in pointer .. pointer + k - 1 : s \notin Free
  BY <1>2, <1>4, <1>6
<1>10. Free \ A = Free \ S
  BY <1>7, <1>9
<1> HIDE DEF S, T, F, A
<1>11. CASE n <= T
  <2>1. k = 0 /\ pointer .. pointer + k - 1 = {}
    BY <1>2, <1>6, <1>11
  <2>2. A = S
    BY <1>7, <2>1
  <2>3. T <= F
    BY <1>2, <1>4, <1>5, FS_Subset DEF F
  <2>4. n <= F
    BY <1>2, <1>4, <1>11, <2>3
  <2>5. A \in SUBSET Free /\ Cardinality(A) = n
    BY <1>2, <1>8, <1>11, <2>2
  <2>6. A \in Allocator!Allocations(Free, pointer, n)
    BY <2>4, <2>5, SameCardinality DEF Allocator!Allocations, F
  <2>7. pointer + k = Allocator!PointerAfter(Free, pointer, n)
    BY <2>1, <2>4, SameCardinality DEF Allocator!PointerAfter, Allocator!Appended, F
  <2>8. QED
    BY <1>1, <1>10, <2>5, <2>6, <2>7 DEF S, T, A
<1>12. CASE ~ (n <= T)
  <2>1. C = DOMAIN space.block /\ k = n - T /\ k \in Nat \ {0} /\ T = F
    BY <1>1, <1>2, <1>4, <1>6, <1>12 DEF T
  <2>2. S = Free
    BY <1>2, <1>4, <1>8, <1>12, <2>1, FS_Subset DEF F
  <2>3. ~ (n <= F) /\ Allocator!Appended(Free, n) = k
    BY <1>12, <2>1, SameCardinality DEF Allocator!Appended, F
  <2>4. A = Free \cup Allocator!TailSlots(pointer, k)
    BY <1>7, <2>2 DEF Allocator!TailSlots
  <2>5. A \in Allocator!Allocations(Free, pointer, n)
    BY <2>3, <2>4, SameCardinality DEF Allocator!Allocations, F
  <2>6. pointer + k = Allocator!PointerAfter(Free, pointer, n)
    BY <2>3 DEF Allocator!PointerAfter
  <2>7. Cardinality(A) = n
    <3> DEFINE last == pointer + k - 1
               tail == pointer .. last
    <3>1. pointer \in Int /\ last \in Int /\ pointer <= last /\ last - pointer + 1 = k
      BY <2>1
    <3>2. IsFiniteSet(tail) /\ Cardinality(tail) = k
      <4> HIDE DEF last
      <4>1. QED
        BY <3>1, FS_Interval
    <3>3. A = Free \cup tail /\ Free \cap tail = {}
      BY <1>7, <1>9, <2>2
    <3> HIDE DEF tail
    <3>4. Cardinality(Free \cup tail) = F + Cardinality(tail) - Cardinality(Free \cap tail)
      BY <1>4, <3>2, FS_Union DEF F
    <3>5. Cardinality({}) = 0
      BY FS_EmptySet
    <3>6. Cardinality(A) = F + k
      BY <1>4, <2>1, <3>2, <3>3, <3>4, <3>5
    <3> HIDE DEF k
    <3>7. T \in Int /\ F = T /\ k = n - T
      BY <1>2, <2>1
    <3>8. QED
      BY <3>6, <3>7
  <2>8. QED
    BY <1>1, <1>10, <2>5, <2>6, <2>7 DEF S, T, A
<1>13. QED
  BY <1>11, <1>12

-----------------------------------------------------------------------------
\* The inductive invariant: the space is consistent, no slot was freed twice,
\* and no slot of a node is in a free block or beyond the end of the file.

IInv ==
  /\ Consistent(space)
  /\ freed \in Seq(1 .. MaxSlot) /\ IsInjective(freed)
  /\ pointer \in 1 .. MaxSlot + 1
  /\ Allocator!NoTwoOwners

\* The slots in no block are none.
LEMMA NothingFree == Consistent(NoSpace) /\ Cover(NoSpace.block) = {}
<1>1. Consistent(NoSpace)
  <2>1. Record(NoSpace)
    BY DEF Record, NoSpace
  <2>2. DOMAIN Empty = {} /\ Empty \in [{} -> Block]
    BY DEF Empty
  <2>3. <<>> \in Seq(Group) /\ Len(<<>>) = 0
    OBVIOUS
  <2>4. Blocks(Empty) /\ Apart(Empty)
    BY <2>2 DEF Blocks, Apart
  <2>5. Grouped(<<>>, Empty)
    BY <2>2, <2>3 DEF Grouped
  <2>6. Indexed(Empty, Bases(Empty)) /\ Indexed(Empty, Ends(Empty))
    BY DEF Empty, Indexed, Bases, Ends, Range
  <2>7. QED
    BY <2>1, <2>4, <2>5, <2>6 DEF Consistent, Agree, NoSpace
<1>2. Cover(NoSpace.block) = {}
  BY DEF Cover, NoSpace, Empty
<1>3. QED
  BY <1>1, <1>2

\* The free slots are those of the blocks.
LEMMA FreeIsCover == Free = Cover(space.block)
BY DEF Free, Cover, Slots_Of

\* The first state.
LEMMA Start == Init => IInv /\ Allocator!Init
<1> SUFFICES ASSUME Init
             PROVE  IInv /\ Allocator!Init
  OBVIOUS
<1>1. space = NoSpace /\ freed = <<>> /\ pointer = 1 /\ used = {}
  BY DEF Init
<1>2. Consistent(space) /\ Free = {}
  BY <1>1, NothingFree, FreeIsCover
<1>3. Range(freed) = {} /\ freed \in Seq(1 .. MaxSlot) /\ IsInjective(freed)
  BY <1>1 DEF Range, IsInjective
<1>4. pointer \in 1 .. MaxSlot + 1
  BY <1>1, MaxSlotAssumption
<1>5. Allocator!NoTwoOwners /\ Allocator!Init
  BY <1>1, <1>2, <1>3 DEF Allocator!NoTwoOwners, Allocator!Init
<1>6. QED
  BY <1>2, <1>3, <1>4, <1>5 DEF IInv

\* A node is renewed: its address waits for the commit.
LEMMA FreeStep ==
  ASSUME IInv, NEW address \in used, Free_Address(address)
  PROVE  IInv' /\ Allocator!Free_Address(address)
<1>1. /\ freed' = Append(freed, address) /\ used' = used \ {address}
      /\ space' = space /\ pointer' = pointer
  BY DEF Free_Address
<1>2. /\ freed \in Seq(1 .. MaxSlot) /\ IsInjective(freed) /\ Len(freed) \in Nat
      /\ DOMAIN freed = 1 .. Len(freed)
  BY DEF IInv
<1>3. /\ address \in 1 .. MaxSlot /\ address \notin Range(freed) /\ address \notin Free
  BY DEF IInv, Allocator!NoTwoOwners
<1>4. /\ freed' \in Seq(1 .. MaxSlot) /\ DOMAIN freed' = 1 .. Len(freed) + 1
      /\ \A i \in 1 .. Len(freed) : freed'[i] = freed[i]
      /\ freed'[Len(freed) + 1] = address
  BY <1>1, <1>2, <1>3
<1>5. \A i \in 1 .. Len(freed) + 1 : i \in 1 .. Len(freed) \/ i = Len(freed) + 1
  BY <1>2
<1>6. IsInjective(freed')
  <2>1. \A i \in 1 .. Len(freed) : freed[i] # address
    BY <1>2, <1>3 DEF Range
  <2>2. QED
    BY <1>2, <1>4, <1>5, <2>1 DEF IsInjective
<1>7. Range(freed') = Range(freed) \cup {address}
  <2>1. \A i \in 1 .. Len(freed) : i \in 1 .. Len(freed) + 1
    BY <1>2
  <2>2. Len(freed) + 1 \in 1 .. Len(freed) + 1
    BY <1>2
  <2>3. QED
    BY <1>2, <1>4, <1>5, <2>1, <2>2 DEF Range
<1>8. Free' = Free
  BY <1>1 DEF Free, Slots_Of
<1>9. Consistent(space)' /\ pointer' \in 1 .. MaxSlot + 1
  BY <1>1 DEF IInv
<1>10. Allocator!NoTwoOwners'
  BY <1>1, <1>3, <1>7, <1>8 DEF IInv, Allocator!NoTwoOwners
<1>11. Allocator!Free_Address(address)
  BY <1>1, <1>7, <1>8 DEF Allocator!Free_Address
<1>12. QED
  BY <1>4, <1>6, <1>9, <1>10, <1>11 DEF IInv

\* A commit of n nodes: n slots for them, and the freed ones become free.
LEMMA CommitStep ==
  ASSUME IInv, NEW n \in 1 .. MaxWrite, Commit(n)
  PROVE  IInv' /\ Allocator!Commit(n) /\ Cardinality(used' \ used) = n
<1>1. PICK C \in Look_For_Available_Blocks(n) :
        /\ pointer + (n - Min({n, Total(C)})) <= MaxSlot + 1
        /\ pointer' = pointer + (n - Min({n, Total(C)}))
        /\ used' = used \cup Addresses(C, n)
        /\ space' = Add_Block_Address_To_Available_Space(Blocks_Finished(C, n))
  BY DEF Commit
<1>2. freed' = <<>>
  BY DEF Commit
<1> DEFINE A == Addresses(C, n)
           P == Parts(C, n, C)
           taken == Blocks_Finished(C, n)
           after == Allocator!PointerAfter(Free, pointer, n)
<1>3. /\ n \in Nat /\ MaxSlot \in Nat /\ Consistent(space) /\ pointer \in Nat \ {0}
      /\ \A s \in Free : s < pointer
  BY MaxSlotAssumption DEF IInv, Allocator!NoTwoOwners
<1>4. /\ C \in SUBSET DOMAIN space.block
      /\ A \in Allocator!Allocations(Free, pointer, n)
      /\ pointer + (n - Min({n, Total(C)})) = after
      /\ Free \ A = Free \ P
      /\ Cardinality(A) = n
  BY <1>3, SlotsGiven
<1>5. Consistent(taken) /\ Cover(taken.block) = Free \ A
  <2>1. Consistent(taken) /\ Cover(taken.block) = Cover(space.block) \ P
    BY <1>3, <1>4, BlocksFinished
  <2>2. QED
    BY <1>4, <2>1, FreeIsCover
<1> HIDE DEF A, P, taken, after
<1>6. /\ freed \in Seq(1 .. MaxSlot) /\ IsInjective(freed)
      /\ Range(freed) \cap Free = {}
      /\ Range(freed) \subseteq 1 .. MaxSlot
  BY DEF IInv, Allocator!NoTwoOwners
<1>7. Consistent(space)' /\ Free' = (Free \ A) \cup Range(freed)
  <2>1. Range(freed) \cap Cover(taken.block) = {}
    BY <1>5, <1>6
  <2>2. /\ Consistent(Add_Block_Address_To_Available_Space(taken))
        /\ Cover(Add_Block_Address_To_Available_Space(taken).block)
             = Cover(taken.block) \cup Range(freed)
    BY <1>3, <1>5, <1>6, <2>1, SlotsReturned
  <2>3. space' = Add_Block_Address_To_Available_Space(taken)
    BY <1>1 DEF taken
  <2>4. Consistent(space') /\ Cover(space'.block) = Cover(taken.block) \cup Range(freed)
    BY <2>2, <2>3
  <2>5. Free' = Cover(space'.block)
    BY DEF Free, Cover, Slots_Of
  <2>6. QED
    BY <1>5, <2>4, <2>5
<1>8. Range(freed') = {} /\ freed' \in Seq(1 .. MaxSlot) /\ IsInjective(freed')
  BY <1>2 DEF Range, IsInjective
<1>9. pointer' = after /\ after <= MaxSlot + 1 /\ used' = used \cup A
  BY <1>1, <1>4 DEF A
<1>10. Allocator!Commit(n)
  BY <1>4, <1>7, <1>8, <1>9 DEF Allocator!Commit, after
<1>11. \A s \in A : s \in Free \/ (s \in Nat /\ pointer <= s /\ s < after)
  <2>1. PICK k \in Nat : /\ pointer + k = after
                         /\ A \subseteq Free \cup (pointer .. pointer + k - 1)
    <3>1. IsFiniteSet(Free) /\ Cardinality(Free) \in Nat
      BY <1>3, FreeFinite
    <3>2. CASE n <= Cardinality(Free)
      <4>1. after = pointer + 0 /\ A \subseteq Free
        BY <1>3, <1>4, <3>2, SameCardinality
           DEF Allocator!Allocations, Allocator!PointerAfter, Allocator!Appended, after
      <4>2. QED
        BY <4>1
    <3>3. CASE ~ (n <= Cardinality(Free))
      <4> DEFINE k == n - Cardinality(Free)
      <4>1. k \in Nat /\ Allocator!Appended(Free, n) = k
        BY <1>3, <3>1, <3>3, SameCardinality DEF Allocator!Appended
      <4>2. A = Free \cup Allocator!TailSlots(pointer, Allocator!Appended(Free, n))
        BY <1>4, <3>3, SameCardinality DEF Allocator!Allocations
      <4>3. A = Free \cup (pointer .. pointer + k - 1) /\ pointer + k = after
        BY <4>1, <4>2 DEF Allocator!TailSlots, Allocator!PointerAfter, after
      <4> HIDE DEF k
      <4>4. QED
        BY <4>1, <4>3
    <3>4. QED
      BY <3>2, <3>3
  <2>2. QED
    BY <1>3, <2>1
<1>12. pointer \in 1 .. MaxSlot + 1 /\ after \in Nat /\ pointer <= after
  <2>1. after = pointer + (n - Min({n, Total(C)})) /\ n - Min({n, Total(C)}) \in Nat
    <3>1. Total(C) \in Nat
      BY <1>3, <1>4, TotalCounts, FS_CardinalityType
    <3>2. Min({n, Total(C)}) = IF n <= Total(C) THEN n ELSE Total(C)
      BY <1>3, <3>1, MinOfTwo
    <3>3. QED
      BY <1>3, <1>4, <3>1, <3>2
  <2>2. QED
    BY <1>3, <2>1 DEF IInv
<1>13. \A s \in A : s \in 1 .. MaxSlot /\ s < after /\ s \notin used /\ s \notin Range(freed)
  <2>1. /\ \A s \in used \cup Range(freed) \cup Free : s \in 1 .. MaxSlot /\ s < pointer
        /\ \A s \in Free : s \notin used /\ s \notin Range(freed)
    BY DEF IInv, Allocator!NoTwoOwners
  <2>2. QED
    BY <1>3, <1>9, <1>11, <1>12, <2>1
<1>14. pointer' \in 1 .. MaxSlot + 1
  BY <1>3, <1>9, <1>12
<1>15. Allocator!NoTwoOwners'
  <2>1. \A s \in used \cup Range(freed) \cup Free : s \in 1 .. MaxSlot /\ s < after
    BY <1>3, <1>12 DEF IInv, Allocator!NoTwoOwners
  <2>2. (used \cup Range(freed)) \cap Free = {} /\ used \cap Range(freed) = {}
    BY DEF IInv, Allocator!NoTwoOwners
  <2>3. QED
    BY <1>7, <1>8, <1>9, <1>13, <2>1, <2>2 DEF Allocator!NoTwoOwners
<1>16. Cardinality(used' \ used) = n
  <2>1. used' \ used = A
    BY <1>9, <1>13
  <2>2. QED
    BY <1>4, <2>1
<1>17. QED
  BY <1>7, <1>8, <1>10, <1>14, <1>15, <1>16 DEF IInv

\* A new process has no free blocks, and knows again what it had freed.
LEMMA ReopenStep ==
  ASSUME IInv, Reopen
  PROVE  IInv' /\ Allocator!Reopen
<1>1. /\ space' = NoSpace /\ freed' = <<>> /\ pointer' = pointer
      /\ used' = used \cup Range(freed)
  BY DEF Reopen
<1>2. Consistent(space)' /\ Free' = {}
  <2>1. Consistent(space') /\ Cover(space'.block) = {}
    BY <1>1, NothingFree
  <2>2. QED
    BY <2>1 DEF Free, Cover, Slots_Of
<1>3. Range(freed') = {} /\ freed' \in Seq(1 .. MaxSlot) /\ IsInjective(freed')
  BY <1>1 DEF Range, IsInjective
<1>4. Allocator!NoTwoOwners' /\ Allocator!Reopen
  BY <1>1, <1>2, <1>3 DEF IInv, Allocator!NoTwoOwners, Allocator!Reopen
<1>5. QED
  BY <1>1, <1>2, <1>3, <1>4 DEF IInv

\* Every step keeps the invariant, and is one of the allocator.
LEMMA EveryStep ==
  ASSUME IInv, [Next]_vars
  PROVE  IInv' /\ [Allocator!Next]_(Allocator!vars)
<1>1. ASSUME NEW address \in used, Free_Address(address)
      PROVE  IInv' /\ Allocator!Next
  BY <1>1, FreeStep DEF Allocator!Next
<1>2. ASSUME NEW n \in 1 .. MaxWrite, Commit(n)
      PROVE  IInv' /\ Allocator!Next
  BY <1>2, CommitStep DEF Allocator!Next
<1>3. CASE Reopen
  BY <1>3, ReopenStep DEF Allocator!Next
<1>4. CASE UNCHANGED vars
  <2>1. space' = space /\ freed' = freed /\ pointer' = pointer /\ used' = used
    BY <1>4 DEF vars
  <2>2. Free' = Free /\ Range(freed') = Range(freed)
    BY <2>1 DEF Free, Slots_Of
  <2>3. UNCHANGED Allocator!vars
    BY <2>1, <2>2 DEF Allocator!vars
  <2>4. Allocator!NoTwoOwners'
    BY <2>1, <2>2 DEF IInv, Allocator!NoTwoOwners
  <2>5. QED
    BY <2>1, <2>3, <2>4 DEF IInv
<1>5. QED
  BY <1>1, <1>2, <1>3, <1>4 DEF Next

\* IInv holds in every state the program reaches.
THEOREM Invariant == Spec => []IInv
<1>1. Init => IInv
  BY Start
<1>2. IInv /\ [Next]_vars => IInv'
  BY EveryStep
<1>3. QED
  BY <1>1, <1>2, PTL DEF Spec

-----------------------------------------------------------------------------
\* The theorems

\* The consistency the proofs use says what the runs check.
LEMMA ConsistentAgrees ==
  ASSUME IInv
  PROVE  StructuresAgree /\ BlocksMaximal /\ NeverThrows
<1>1. /\ Blocks(space.block) /\ Apart(space.block) /\ Grouped(space.groups, space.block)
      /\ Indexed(space.base, Bases(space.block)) /\ Indexed(space.end, Ends(space.block))
      /\ space.thrown = FALSE
  BY DEF IInv, Consistent, Agree
<1>2. /\ DOMAIN space.block \subseteq 1 .. MaxSlot
      /\ \A b \in DOMAIN space.block :
           /\ space.block[b] \in [base : 1 .. MaxSlot, length : 1 .. MaxSlot]
           /\ End_Address(space.block[b]) \in 1 .. MaxSlot + 1
  BY <1>1, MaxSlotAssumption, BlockFacts DEF Blocks, Block
<1>3. /\ space.base = [a \in {space.block[b].base : b \in DOMAIN space.block} |->
                         CHOOSE b \in DOMAIN space.block : space.block[b].base = a]
      /\ space.end = [a \in {End_Address(space.block[b]) : b \in DOMAIN space.block} |->
                        CHOOSE b \in DOMAIN space.block : End_Address(space.block[b]) = a]
  <2>1. /\ Range(Bases(space.block)) = {space.block[b].base : b \in DOMAIN space.block}
        /\ Range(Ends(space.block)) = {End_Address(space.block[b]) : b \in DOMAIN space.block}
    BY DEF Range, Bases, Ends
  <2>2. /\ space.base = [a \in {space.block[b].base : b \in DOMAIN space.block} |-> space.base[a]]
        /\ space.end = [a \in {End_Address(space.block[b]) : b \in DOMAIN space.block} |-> space.end[a]]
    BY <1>1, <2>1 DEF Indexed
  <2>3. \A b \in DOMAIN space.block :
          space.base[space.block[b].base] = b /\ space.end[End_Address(space.block[b])] = b
    BY <1>1 DEF Indexed, Bases, Ends
  <2> DEFINE From == {space.block[b].base : b \in DOMAIN space.block}
             To == {End_Address(space.block[b]) : b \in DOMAIN space.block}
             At(a) == CHOOSE b \in DOMAIN space.block : space.block[b].base = a
             Until(a) == CHOOSE b \in DOMAIN space.block : End_Address(space.block[b]) = a
  <2>4. \A a \in From : space.base[a] = At(a)
    BY <2>3
  <2>5. \A a \in To : space.end[a] = Until(a)
    BY <2>3
  <2>6. space.base = [a \in From |-> space.base[a]] /\ space.end = [a \in To |-> space.end[a]]
    BY <2>2
  <2> HIDE DEF From, To, At, Until
  <2>7. space.base = [a \in From |-> At(a)]
    BY <2>4, <2>6
  <2>8. space.end = [a \in To |-> Until(a)]
    BY <2>5, <2>6
  <2>9. QED
    BY <2>7, <2>8 DEF From, To, At, Until
<1>4. /\ space.groups \in Seq(Group) /\ DOMAIN space.groups = 1 .. Len(space.groups)
  <2>1. space.groups \in Seq(Group)
    BY <1>1 DEF Grouped
  <2>2. QED
    BY <2>1
<1>5. \A i, j \in DOMAIN space.groups :
        space.groups[i].length = space.groups[j].length => i = j
  BY <1>1, <1>4 DEF Grouped
<1>6. \A i \in DOMAIN space.groups :
        LET group == space.groups[i] IN
        /\ DOMAIN group.blocks # {}
        /\ \A a \in DOMAIN group.blocks :
             space.block[group.blocks[a]] = [base |-> a, length |-> group.length]
  BY <1>1, <1>4 DEF Grouped
<1>7. UNION {Blocks_Of(space.groups[i]) : i \in DOMAIN space.groups} = DOMAIN space.block
  <2>1. \A i \in DOMAIN space.groups : Blocks_Of(space.groups[i]) \subseteq DOMAIN space.block
    <3> DEFINE groups == space.groups
    <3>1. \A i \in DOMAIN groups : \A a \in DOMAIN groups[i].blocks :
            groups[i].blocks[a] \in DOMAIN space.block
      BY <1>1, <1>4 DEF Grouped
    <3> HIDE DEF groups
    <3>2. \A i \in DOMAIN groups : Blocks_Of(groups[i]) \subseteq DOMAIN space.block
      BY <3>1 DEF Blocks_Of
    <3>3. QED
      BY <3>2 DEF groups
  <2>2. \A b \in DOMAIN space.block : \E i \in DOMAIN space.groups : b \in Blocks_Of(space.groups[i])
    <3> TAKE b \in DOMAIN space.block
    <3>1. PICK i \in DOMAIN space.groups :
            /\ space.block[b].base \in DOMAIN space.groups[i].blocks
            /\ space.groups[i].blocks[space.block[b].base] = b
      BY <1>1, <1>4 DEF Grouped
    <3>2. b \in Blocks_Of(space.groups[i])
      BY <3>1 DEF Blocks_Of
    <3>3. QED
      BY <3>2
  <2>3. QED
    BY <2>1, <2>2
<1>8. TypeOK
  <2>1. DOMAIN space.base \cup DOMAIN space.end \subseteq 1 .. MaxSlot + 1
    <3>1. \A b \in DOMAIN space.block : space.block[b].base \in 1 .. MaxSlot + 1
      BY <1>2, MaxSlotAssumption
    <3>2. /\ DOMAIN space.base = {space.block[b].base : b \in DOMAIN space.block}
          /\ DOMAIN space.end = {End_Address(space.block[b]) : b \in DOMAIN space.block}
      BY <1>3
    <3>3. QED
      BY <1>2, <3>1, <3>2
  <2>2. used \subseteq 1 .. MaxSlot
    BY DEF IInv, Allocator!NoTwoOwners
  <2>3. space.thrown \in BOOLEAN
    BY <1>1
  <2>4. QED
    BY <1>2, <2>1, <2>2, <2>3 DEF TypeOK, IInv
<1>9. StructuresAgree
  BY <1>3, <1>5, <1>6, <1>7, <1>8 DEF StructuresAgree
<1>10. BlocksMaximal /\ NeverThrows
  BY <1>1 DEF BlocksMaximal, Apart, NeverThrows
<1>11. QED
  BY <1>9, <1>10

\* Whatever is freed, written and reopened, the blocks, the groups and both
\* indexes hold the same blocks, each under its own address and length.
THEOREM StructuresStayInStep == Spec => []StructuresAgree
<1>1. IInv => StructuresAgree
  BY ConsistentAgrees
<1>2. QED
  BY <1>1, Invariant, PTL

\* Every slot given back is merged with its free neighbours: no two free blocks touch.
THEOREM NoSeams == Spec => []BlocksMaximal
<1>1. IInv => BlocksMaximal
  BY ConsistentAgrees
<1>2. QED
  BY <1>1, Invariant, PTL

\* Fix_Block_Position_In_Groups always finds the group of the old length.
THEOREM GroupAlwaysFound == Spec => []NeverThrows
<1>1. IInv => NeverThrows
  BY ConsistentAgrees
<1>2. QED
  BY <1>1, Invariant, PTL

\* No free block has the slot of a node of the tree in memory or on file.
THEOREM BlocksOwnNothing == Spec => []Allocator!NoTwoOwners
<1>1. IInv => Allocator!NoTwoOwners
  BY DEF IInv
<1>2. QED
  BY <1>1, Invariant, PTL

\* Seen as the slots they cover, the blocks are the free set of the allocator:
\* every operation on them is one of its operations, or changes nothing it sees.
THEOREM BlocksImplementAllocator == Spec => ImplementsAllocator
<1>1. Init => Allocator!Init
  BY Start
<1>2. IInv /\ [Next]_vars => [Allocator!Next]_(Allocator!vars)
  BY EveryStep
<1>3. QED
  BY <1>1, <1>2, Invariant, PTL DEF Spec, ImplementsAllocator, Allocator!Spec

\* A commit of n nodes takes n slots that no node had.
THEOREM EachNodeItsSlot == Spec => SlotForEachNode
<1>1. IInv /\ [Next]_vars =>
        [\A n \in 1 .. MaxWrite : Commit(n) => Cardinality(used' \ used) = n]_vars
  BY CommitStep
<1>2. QED
  BY <1>1, Invariant, PTL DEF Spec, SlotForEachNode

\* What the allocator's proof needs of the types.
SlotTypes ==
  /\ pointer \in 1 .. MaxSlot + 1
  /\ used \subseteq 1 .. MaxSlot
  /\ Range(freed) \subseteq 1 .. MaxSlot
  /\ Free \subseteq 1 .. MaxSlot

SlotsOwned == SlotTypes /\ Allocator!NoTwoOwners

\* One commit: what it is given is free or new, and no slot is skipped.
LEMMA AllocatorCommit ==
  ASSUME MaxSlot \in Nat, SlotsOwned,
         NEW n \in 1 .. MaxWrite, Allocator!Commit(n)
  PROVE  SlotsOwned'
<1>0. /\ pointer \in Nat \ {0} /\ n \in Nat
      /\ \A s \in used \cup Range(freed) \cup Free : s \in 1 .. MaxSlot /\ s < pointer
      /\ \A s \in Free : s \notin used \cup Range(freed)
  BY DEF SlotsOwned, SlotTypes, Allocator!NoTwoOwners
<1>1. IsFiniteSet(Free)
  <2>1. IsFiniteSet(1 .. MaxSlot)
    BY FS_Interval
  <2>2. QED
    BY <2>1, FS_Subset DEF SlotsOwned, SlotTypes
<1>2. PICK A \in Allocator!Allocations(Free, pointer, n) :
        used' = used \cup A /\ Free' = (Free \ A) \cup Range(freed)
  BY DEF Allocator!Commit
<1>4. /\ Allocator!PointerAfter(Free, pointer, n) \in Nat
      /\ pointer <= Allocator!PointerAfter(Free, pointer, n)
      /\ \A s \in A :
           s \in Free \/ (s \in Nat /\ pointer <= s /\ s < Allocator!PointerAfter(Free, pointer, n))
  <2>1. Cardinality(Free) \in Nat
    BY <1>1, FS_CardinalityType
  <2>2. CASE n <= Cardinality(Free)
    BY <1>0, <2>1, <2>2, SameCardinality DEF Allocator!Allocations, Allocator!PointerAfter, Allocator!Appended
  <2>3. CASE ~ (n <= Cardinality(Free))
    <3>1. /\ Allocator!Appended(Free, n) \in Nat
          /\ A = Free \cup Allocator!TailSlots(pointer, Allocator!Appended(Free, n))
      BY <1>0, <2>1, <2>3, SameCardinality DEF Allocator!Appended, Allocator!Allocations
    <3>2. QED
      BY <1>0, <3>1 DEF Allocator!TailSlots, Allocator!PointerAfter
  <2>4. QED
    BY <2>2, <2>3
<1>5. /\ pointer' = Allocator!PointerAfter(Free, pointer, n) /\ Range(freed)' = {}
      /\ Allocator!PointerAfter(Free, pointer, n) <= MaxSlot + 1
  BY DEF Allocator!Commit
<1>6. \A s \in A : s \in 1 .. MaxSlot /\ s < pointer'
  BY <1>0, <1>4, <1>5
<1>7. \A s \in A : s \notin used \cup Range(freed)
  BY <1>0, <1>4
<1>8. SlotTypes'
  <2>1. pointer' \in 1 .. MaxSlot + 1
    BY <1>0, <1>4, <1>5
  <2>2. QED
    BY <1>0, <1>2, <1>5, <1>6, <2>1 DEF SlotTypes
<1>9. Allocator!NoTwoOwners'
  <2>1. (used \cap Range(freed))' = {} /\ ((used \cup Range(freed)) \cap Free)' = {}
    BY <1>0, <1>2, <1>5, <1>7 DEF SlotsOwned, Allocator!NoTwoOwners
  <2>2. \A s \in used \cup Range(freed) \cup Free : s < pointer'
    BY <1>0, <1>4, <1>5
  <2>3. QED
    BY <1>2, <1>5, <1>6, <1>8, <2>1, <2>2 DEF Allocator!NoTwoOwners, SlotTypes
<1>10. QED
  BY <1>8, <1>9 DEF SlotsOwned

\* No slot of a tree, in memory or on file, is ever free, and none beyond the
\* end of the file is known to anyone.
THEOREM OneOwner == Allocator!Spec => []Allocator!NoTwoOwners
<1>1. Allocator!Init => SlotsOwned
  BY MaxSlotAssumption DEF Allocator!Init, SlotsOwned, SlotTypes, Allocator!NoTwoOwners
<1>2. SlotsOwned /\ [Allocator!Next]_(Allocator!vars) => SlotsOwned'
  <2> SUFFICES ASSUME SlotsOwned, [Allocator!Next]_(Allocator!vars)
               PROVE  SlotsOwned'
    OBVIOUS
  <2>1. ASSUME NEW a \in used, Allocator!Free_Address(a)
        PROVE  SlotsOwned'
    BY <2>1 DEF SlotsOwned, SlotTypes, Allocator!NoTwoOwners, Allocator!Free_Address
  <2>2. ASSUME NEW n \in 1 .. MaxWrite, Allocator!Commit(n)
        PROVE  SlotsOwned'
    BY <2>2, AllocatorCommit, MaxSlotAssumption
  <2>3. CASE Allocator!Reopen
    BY <2>3 DEF SlotsOwned, SlotTypes, Allocator!NoTwoOwners, Allocator!Reopen
  <2>4. CASE UNCHANGED Allocator!vars
    BY <2>4 DEF SlotsOwned, SlotTypes, Allocator!NoTwoOwners, Allocator!vars
  <2>5. QED
    BY <2>1, <2>2, <2>3, <2>4 DEF Allocator!Next
<1>3. QED
  BY <1>1, <1>2, PTL DEF Allocator!Spec, SlotsOwned
=============================================================================
