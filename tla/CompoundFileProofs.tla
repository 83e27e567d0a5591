------------------------- MODULE CompoundFileProofs -------------------------
(***************************************************************************)
(* The transacted file is atomic, for every size of a section, any number  *)
(* of sections, handles, values and threads: when no write of a commit     *)
(* throws and the process does not die between the delegate and the end of *)
(* a commit, the next process loads what the last commit stored, whichever *)
(* writes of data threw.  Without these two hypotheses the searches still  *)
(* miss no free block, and in a file of one section no block has two       *)
(* owners.                                                                 *)
(***************************************************************************)
EXTENDS CompoundFile, WellFoundedInduction, TLAPS

-----------------------------------------------------------------------------
\* The layout

\* The first handle or block of a search is one of those searched, and none is before it.
LEMMA MinIsLeast ==
  ASSUME NEW S \in SUBSET Nat, S # {}
  PROVE  Min(S) \in S /\ \A x \in S : Min(S) <= x
<1> DEFINE Less == OpToRel(<, Nat)
<1>1. PICK x \in S : \A y \in S : ~ (<<y, x>> \in Less)
  BY NatLessThanWellFounded, WFMin
<1>2. \A m, n \in Nat : m < n => <<m, n>> \in Less
  BY SMT DEF OpToRel
<1> HIDE DEF Less
<1>3. \A y \in S : ~ (y < x)
  BY <1>1, <1>2
<1>4. \A y \in S : x <= y
  BY <1>3
<1>5. QED
  BY <1>4 DEF Min

\* A section ends before the next begins.
LEMMA SectionsInOrder ==
  ASSUME NEW s \in Nat, NEW t \in Nat, s < t
  PROVE  /\ s * BlocksPerSection \in Nat /\ t * BlocksPerSection \in Nat
         /\ s * BlocksPerSection + BlocksPerSection <= t * BlocksPerSection
<1>1. PICK k \in Nat : t = s + 1 + k
  <2>1. t - s - 1 \in Nat /\ t = s + 1 + (t - s - 1)
    OBVIOUS
  <2>2. QED
    BY <2>1
<1>2. \A m \in Nat : m * BlocksPerSection \in Nat
  BY SizesAssumption
<1>3. (s + 1 + k) * BlocksPerSection = s * BlocksPerSection + BlocksPerSection + k * BlocksPerSection
  BY SizesAssumption
<1>4. QED
  BY <1>1, <1>2, <1>3, SizesAssumption

\* Where the section with number n + 1 begins and ends, counted in blocks.
LEMMA Bounds ==
  ASSUME NEW n \in Nat
  PROVE  /\ LastIndex(n) = n * BlocksPerSection - 1 /\ LastIndex(n) \in Int
         /\ LastIndex(n + 1) = LastIndex(n) + BlocksPerSection
         /\ Base(n + 1) = LastIndex(n) + 1
         /\ Usable(n + 1) = LastIndex(n) + 2 .. LastIndex(n) + BlocksPerSection - 1
         /\ LastIndex(n) >= -1
<1>1. n * BlocksPerSection \in Nat /\ (n + 1) * BlocksPerSection = n * BlocksPerSection + BlocksPerSection
  BY SizesAssumption
<1>2. Base(n + 1) = n * BlocksPerSection
  <2>1. (n + 1) - 1 = n
    OBVIOUS
  <2>2. QED
    BY <2>1 DEF Base
<1>3. QED
  BY <1>1, <1>2, SizesAssumption DEF LastIndex, Usable

\* Every number of the first n sections is between their headers.
LEMMA NumbersInRange ==
  ASSUME NEW n \in Nat
  PROVE  /\ \A x \in Numbers(n) : x \in Nat /\ 1 <= x /\ x <= LastIndex(n)
         /\ Numbers(n) \subseteq 0 .. LastIndex(n) /\ Numbers(n) \subseteq Nat
<1>1. SUFFICES ASSUME NEW x \in Numbers(n)
               PROVE  x \in Nat /\ 1 <= x /\ x <= LastIndex(n)
  BY Bounds
<1>2. PICK s \in 1 .. n : x \in Usable(s)
  BY DEF Numbers
<1>3. s - 1 \in Nat /\ (s - 1) + 1 = s /\ s - 1 < n
  OBVIOUS
<1>4. LastIndex(s - 1) + BlocksPerSection <= LastIndex(n) 
  <2>1. (s - 1) * BlocksPerSection + BlocksPerSection <= n * BlocksPerSection
    BY <1>3, SectionsInOrder
  <2>2. QED
    <3>1. s - 1 \in Nat /\ n \in Nat
      BY <1>3
    <3>2. (s - 1) * BlocksPerSection \in Nat /\ n * BlocksPerSection \in Nat
      BY <3>1, SizesAssumption
    <3>3. QED
      BY <2>1, <3>2, SizesAssumption DEF LastIndex
<1>5. Usable(s) = LastIndex(s - 1) + 2 .. LastIndex(s - 1) + BlocksPerSection - 1 /\ LastIndex(s - 1) >= -1
  BY <1>3, Bounds
<1>6. LastIndex(n) \in Int /\ LastIndex(s - 1) \in Int
  BY <1>3, Bounds
<1>7. QED
  BY <1>2, <1>4, <1>5, <1>6, SizesAssumption

\* A new section adds its own numbers and none that a section before it has.
LEMMA NumbersGrow ==
  ASSUME NEW n \in Nat
  PROVE  /\ Numbers(n + 1) = Numbers(n) \cup Usable(n + 1)
         /\ Numbers(n) \cap Usable(n + 1) = {}
         /\ \A m \in Nat : m <= n => Numbers(m) \subseteq Numbers(n)
<1>1. Numbers(n + 1) = Numbers(n) \cup Usable(n + 1)
  <2>1. 1 .. n + 1 = (1 .. n) \cup {n + 1}
    OBVIOUS
  <2>2. QED
    BY <2>1 DEF Numbers
<1>2. Numbers(n) \cap Usable(n + 1) = {}
  <2>1. \A x \in Numbers(n) : x \in Nat /\ x <= LastIndex(n)
    BY NumbersInRange
  <2>2. /\ Usable(n + 1) = LastIndex(n) + 2 .. LastIndex(n) + BlocksPerSection - 1
        /\ LastIndex(n) \in Int
    BY Bounds
  <2>3. QED
    BY <2>1, <2>2, SizesAssumption
<1>3. ASSUME NEW m \in Nat, m <= n
      PROVE  Numbers(m) \subseteq Numbers(n)
  <2>1. 1 .. m \subseteq 1 .. n
    BY <1>3
  <2>2. QED
    BY <2>1 DEF Numbers
<1>4. QED
  BY <1>1, <1>2, <1>3

\* What is between the headers is numbered, and nothing else.
LEMMA BetweenHeaders ==
  ASSUME NEW n \in Nat
  PROVE  Numbers(n) = 0 .. LastIndex(n) \ Headers(n)
<1>1. \A s \in 1 .. n : /\ s - 1 \in Nat /\ (s - 1) + 1 = s
                        /\ Base(s) = LastIndex(s - 1) + 1
                        /\ Base(s) + BlocksPerSection - 1 = LastIndex(s)
                        /\ LastIndex(s) = LastIndex(s - 1) + BlocksPerSection
                        /\ LastIndex(s - 1) \in Int /\ LastIndex(s) \in Int
  <2>1. SUFFICES ASSUME NEW s \in 1 .. n
                 PROVE  /\ s - 1 \in Nat /\ (s - 1) + 1 = s
                        /\ Base(s) = LastIndex(s - 1) + 1
                        /\ Base(s) + BlocksPerSection - 1 = LastIndex(s)
                        /\ LastIndex(s) = LastIndex(s - 1) + BlocksPerSection
                        /\ LastIndex(s - 1) \in Int /\ LastIndex(s) \in Int
    OBVIOUS
  <2>2. s - 1 \in Nat /\ (s - 1) + 1 = s /\ s \in Nat
    OBVIOUS
  <2>3. /\ Base(s) = LastIndex(s - 1) + 1 /\ LastIndex(s) = LastIndex(s - 1) + BlocksPerSection
        /\ LastIndex(s - 1) \in Int /\ LastIndex(s) \in Int
    BY <2>2, Bounds
  <2>4. QED
    BY <2>2, <2>3, SizesAssumption
<1>2. \A s, t \in 1 .. n : s < t => LastIndex(s) <= LastIndex(t - 1)
  <2>1. SUFFICES ASSUME NEW s \in 1 .. n, NEW t \in 1 .. n, s < t
                 PROVE  LastIndex(s) <= LastIndex(t - 1)
    OBVIOUS
  <2>2. s \in Nat /\ t \in Nat
    OBVIOUS
  <2>3. s * BlocksPerSection + BlocksPerSection <= t * BlocksPerSection
    BY <2>1, <2>2, SectionsInOrder
  <2>4. LastIndex(s) + BlocksPerSection <= LastIndex(t)
    <3>1. s * BlocksPerSection \in Nat /\ t * BlocksPerSection \in Nat
      BY <2>2, SizesAssumption
    <3>2. QED
      BY <2>3, <3>1, SizesAssumption DEF LastIndex
  <2>5. QED
    BY <1>1, <2>4, SizesAssumption
<1>3. \A s \in 1 .. n : Usable(s) = LastIndex(s - 1) + 2 .. LastIndex(s) - 1
  <2>1. SUFFICES ASSUME NEW s \in 1 .. n
                 PROVE  Usable(s) = LastIndex(s - 1) + 2 .. LastIndex(s) - 1
    OBVIOUS
  <2>2. /\ Base(s) = LastIndex(s - 1) + 1 /\ LastIndex(s) = LastIndex(s - 1) + BlocksPerSection
        /\ LastIndex(s - 1) \in Int
    BY <1>1
  <2>3. /\ Base(s) + 1 = LastIndex(s - 1) + 2
        /\ Base(s) + BlocksPerSection - 2 = LastIndex(s) - 1
    BY <2>2, SizesAssumption
  <2>4. QED
    BY <2>3 DEF Usable
<1>4. ASSUME NEW x \in Numbers(n)
      PROVE  x \notin Headers(n)
  <2>1. PICK s \in 1 .. n : x \in Usable(s)
    BY DEF Numbers
  <2>2. SUFFICES ASSUME NEW t \in 1 .. n, x = LastIndex(t - 1) + 1 \/ x = LastIndex(t)
                 PROVE  FALSE
    BY <1>1 DEF Headers
  <2>3. /\ LastIndex(s - 1) + 2 <= x /\ x <= LastIndex(s) - 1
        /\ LastIndex(s - 1) \in Int /\ LastIndex(s) \in Int /\ LastIndex(t - 1) \in Int /\ LastIndex(t) \in Int
        /\ LastIndex(t - 1) < LastIndex(t)
    <3>1. /\ LastIndex(s - 1) \in Int /\ LastIndex(s) \in Int
          /\ LastIndex(t - 1) \in Int /\ LastIndex(t) \in Int
          /\ LastIndex(t) = LastIndex(t - 1) + BlocksPerSection
      BY <1>1
    <3>2. x \in LastIndex(s - 1) + 2 .. LastIndex(s) - 1
      BY <1>3, <2>1
    <3>3. QED
      BY <3>1, <3>2, SizesAssumption
  <2>4. CASE s < t
    BY <1>2, <2>2, <2>3, <2>4
  <2>5. CASE t < s
    BY <1>2, <2>2, <2>3, <2>5
  <2>6. CASE s = t
    BY <2>2, <2>3, <2>6
  <2>7. QED
    BY <2>4, <2>5, <2>6
<1>5. ASSUME NEW x \in 0 .. LastIndex(n), x \notin Headers(n)
      PROVE  x \in Numbers(n)
  <2> DEFINE S == {s \in Nat : x <= LastIndex(s)}
             s == Min(S)
  <2>1. n \in S
    BY Bounds
  <2>2. s \in S /\ \A t \in S : s <= t
    BY <2>1, MinIsLeast
  <2>3. s <= n /\ s \in Nat /\ x <= LastIndex(s)
    BY <2>1, <2>2
  <2> HIDE DEF s
  <2>4. s # 0
    <3>1. LastIndex(0) = -1
      BY SizesAssumption DEF LastIndex
    <3>2. QED
      BY <2>3, <3>1
  <2>5. s \in 1 .. n /\ s - 1 \in Nat
    BY <2>3, <2>4
  <2>6. s - 1 \notin S
    BY <2>2, <2>5
  <2>7. LastIndex(s - 1) < x
    BY <1>1, <2>5, <2>6
  <2>8. x # Base(s) /\ x # Base(s) + BlocksPerSection - 1
    BY <1>5, <2>5 DEF Headers
  <2>9. x \in Usable(s)
    <3>1. /\ LastIndex(s - 1) \in Int /\ LastIndex(s) \in Int
          /\ Usable(s) = LastIndex(s - 1) + 2 .. LastIndex(s) - 1
          /\ x # LastIndex(s - 1) + 1 /\ x # LastIndex(s)
      BY <1>1, <1>3, <2>5, <2>8
    <3>2. x \in Int /\ LastIndex(s - 1) < x /\ x <= LastIndex(s)
      BY <2>3, <2>7
    <3>3. QED
      BY <3>1, <3>2
  <2>10. QED
    BY <2>5, <2>9 DEF Numbers
<1>6. QED
  BY <1>4, <1>5, NumbersInRange

\* The headers of the sections lie within the file.
LEMMA HeadersInRange ==
  ASSUME NEW n \in Nat, n >= 1
  PROVE  LastIndex(n) \in Nat /\ Headers(n) \subseteq 0 .. LastIndex(n)
<1>1. ASSUME NEW s \in 1 .. n
      PROVE  /\ Base(s) \in Nat /\ Base(s) + BlocksPerSection - 1 \in Nat
             /\ Base(s) + BlocksPerSection - 1 <= LastIndex(n)
  <2>1. s - 1 \in Nat /\ s - 1 < n
    OBVIOUS
  <2>2. (s - 1) * BlocksPerSection \in Nat /\ (s - 1) * BlocksPerSection + BlocksPerSection <= n * BlocksPerSection
    BY <2>1, SectionsInOrder
  <2>3. n * BlocksPerSection \in Nat
    BY SizesAssumption
  <2>4. QED
    BY <2>2, <2>3, SizesAssumption DEF Base, LastIndex
<1>2. LastIndex(n) \in Nat
  <2>1. 1 \in 1 .. n
    OBVIOUS
  <2>2. QED
    BY <1>1, <2>1, Bounds
<1>3. Headers(n) \subseteq 0 .. LastIndex(n)
  BY <1>1, <1>2, SizesAssumption DEF Headers
<1>4. QED
  BY <1>2, <1>3

-----------------------------------------------------------------------------
\* The invariant

\* Tables of the first n sections: the others have no handles yet.
Tables(n) == {t \in [AllHandles -> SUBSET Numbers(n)] : \A h \in AllHandles \ Numbers(n) : t[h] = NoBlocks}

Disjoint(tables) == \A g, h \in AllHandles : g # h => tables[g] \cap tables[h] = {}

Writings == [handle : AllHandles, old : SUBSET AllHandles, blocks : SUBSET AllHandles]

Active == {w \in Writers : writing[w] # Idle}

Stored == Tables_Of(Documented_Rule)

TypeOK ==
  /\ sections \in 1 .. MaxSections
  /\ primary \in Tables(sections) /\ secondary \in Tables(sections) /\ table \in Tables(sections)
  /\ dirty \subseteq 1 .. sections /\ todo \subseteq 1 .. sections
  /\ freeHandles \subseteq Numbers(sections) /\ freeBlocks \subseteq Numbers(sections)
  /\ reservedBlocks \subseteq 0 .. LastIndex(sections)
  /\ prevFreeHandle \in 0 .. LastIndex(sections) + 1 /\ prevFreeBlock \in 0 .. LastIndex(sections)
  /\ leaked \subseteq Numbers(sections)
  /\ writing \in [Writers -> {Idle} \cup Writings]
  /\ phase \in {"none", "first", "second"}
  /\ rule \in {"Primary", "Secondary"} /\ called \in BOOLEAN
  /\ written \in Nat

\* BlocksPartitioned, block by block.
Owned ==
  /\ \A h \in AllHandles : table[h] \cap freeBlocks = {}
  /\ \A w \in Active : writing[w].blocks \cap freeBlocks = {}
  /\ \A w \in Active, h \in AllHandles : writing[w].blocks \cap table[h] = {}
  /\ Disjoint(table)
  /\ leaked \cap freeBlocks = {}
  /\ \A h \in AllHandles : leaked \cap table[h] = {}
  /\ \A w \in Active : leaked \cap writing[w].blocks = {}
  /\ \A b \in Numbers(sections) \ (freeBlocks \cup leaked) :
       (\E h \in AllHandles : b \in table[h]) \/ (\E w \in Active : b \in writing[w].blocks)

\* What a thread has between the halves of Write is within the file.
InRange ==
  /\ \A w \in Active : /\ writing[w].handle \in Numbers(sections) /\ writing[w].old \subseteq Numbers(sections)
                       /\ writing[w].blocks # {} /\ writing[w].blocks \subseteq Numbers(sections)
  /\ phase = "none" => todo = {}

\* It is its own and not stale.
Unshared ==
  /\ \A w \in Active : writing[w].old = table[writing[w].handle]
  /\ \A v, w \in Active : v # w => /\ writing[v].handle # writing[w].handle
                                   /\ writing[v].blocks \cap writing[w].blocks = {}

\* Where the tables of the headers and the one in memory agree.
AgreeIn(set) == \A s \in set : \A h \in Usable(s) : primary[h] = table[h]
Agreement ==
  /\ AgreeIn(1 .. sections \ dirty)
  /\ \A s \in 1 .. sections \ dirty : \A h \in Usable(s) : secondary[h] = table[h]
  /\ phase = "none" => IF called THEN primary = secondary ELSE rule = "Secondary"
  /\ phase = "first" => ~ called /\ todo \subseteq dirty /\ AgreeIn(1 .. sections \ todo)
  /\ phase = "second" => called /\ primary = table /\ todo = dirty

\* What the next process loads is whole: nobody takes its blocks.
Recoverable ==
  /\ Disjoint(Stored)
  /\ \A w \in Active, h \in AllHandles : writing[w].blocks \cap Stored[h] = {}
  /\ phase # "second" => \A h \in AllHandles : Stored[h] \subseteq reservedBlocks

Found ==
  /\ \A h \in freeHandles : h >= prevFreeHandle
  /\ \A b \in freeBlocks \ reservedBlocks : b >= prevFreeBlock

\* The invariant in three parts: what holds of every file, whatever throws and
\* whenever the process dies; what also holds when no tables are loaded in which
\* two handles have the same block; and what makes sure that there are none.
Ranged == TypeOK /\ InRange /\ Found
Partitioned == Owned /\ Unshared
IInv == Ranged /\ Partitioned /\ Agreement /\ Recoverable

\* A file of one section has whole tables in its headers: those of some commit.
WholeHeaders == Disjoint(primary) /\ Disjoint(secondary)

\* The process is spared: no write of a commit throws, and it does not die
\* between the delegate and the end of a commit.
NoLoss == Faults \subseteq {"data"} /\ PhaseTwoDeaths = FALSE

\* A block is in a value of the table when it is in that of some handle.
LEMMA Blocks == ASSUME NEW t PROVE \A b : b \in Blocks_Of(t) <=> \E h \in AllHandles : b \in t[h]
  BY DEF Blocks_Of

\* A block is taken when some thread between the halves of Write has it.
LEMMA BlocksTaken == \A b : b \in Taken <=> \E w \in Active : b \in writing[w].blocks
  BY DEF Taken, Active

\* The invariant says of each block what the property says of their sets.
LEMMA PartitionSuffices ==
  ASSUME Ranged, Partitioned
  PROVE  BlocksPartitioned
<1>1. \A h \in AllHandles : table[h] \subseteq Numbers(sections)
  BY DEF Ranged, TypeOK, Tables
<1>2. \A w \in Active : writing[w].blocks \subseteq Numbers(sections)
  BY DEF Ranged, InRange
<1>3. freeBlocks \cup Blocks_Of(table) \cup Taken \cup leaked = Numbers(sections)
  <2>1. freeBlocks \subseteq Numbers(sections) /\ leaked \subseteq Numbers(sections) /\ Owned
    BY DEF Ranged, TypeOK, Partitioned
  <2>2. \A b \in Numbers(sections) \ (freeBlocks \cup leaked) : b \in Blocks_Of(table) \/ b \in Taken
    BY <2>1, Blocks, BlocksTaken DEF Owned
  <2>3. Blocks_Of(table) \subseteq Numbers(sections) /\ Taken \subseteq Numbers(sections)
    BY <1>1, <1>2, Blocks, BlocksTaken
  <2>4. QED
    BY <2>1, <2>2, <2>3
<1>4. freeBlocks \cap (Blocks_Of(table) \cup Taken \cup leaked) = {}
  BY Blocks, BlocksTaken DEF Partitioned, Owned
<1>5. Blocks_Of(table) \cap Taken = {} /\ leaked \cap (Blocks_Of(table) \cup Taken) = {}
  BY Blocks, BlocksTaken DEF Partitioned, Owned
<1>6. QED
  BY <1>3, <1>4, <1>5 DEF BlocksPartitioned, Partitioned, Owned, Disjoint

\* The searches start early enough, while the lock is held too.
LEMMA FoundSuffices ==
  ASSUME Ranged
  PROVE  SearchesMissNothing
BY DEF Ranged, Found, SearchesMissNothing

\* A block of what is stored is reserved, or it is still in use.
LEMMA RecoverableSuffices ==
  ASSUME IInv
  PROVE  RecoverableReserved
<1>1. Blocks_Of(Stored) \cap Taken = {}
  BY Blocks, BlocksTaken DEF IInv, Recoverable
<1>2. CASE phase # "second"
  <2>1. Blocks_Of(Stored) \subseteq reservedBlocks
    BY <1>2, Blocks DEF IInv, Recoverable
  <2>2. QED
    BY <1>1, <2>1 DEF RecoverableReserved, Stored
<1>3. CASE phase = "second"
  <2>1. Stored = table
    BY <1>3 DEF IInv, Agreement, Stored, Tables_Of, Documented_Rule
  <2>2. Blocks_Of(Stored) \cap freeBlocks = {}
    BY <2>1, Blocks DEF IInv, Partitioned, Owned
  <2>3. QED
    BY <1>1, <2>2 DEF RecoverableReserved, Stored
<1>4. QED
  BY <1>2, <1>3

-----------------------------------------------------------------------------
\* The initial states, and those a clear leads to

\* The numbers of a file with one section.
LEMMA OneSection ==
  /\ Numbers(1) = Usable(1) /\ 1 \in 1 .. MaxSections
  /\ Numbers(1) \subseteq AllHandles /\ AllHandles \subseteq Nat
  /\ LastIndex(1) \in Nat /\ 0 \in 0 .. LastIndex(1)
  /\ \A n \in Nat : EmptyTables \in Tables(n)
<1>1. 1 .. 1 = {1} /\ 1 \in 1 .. MaxSections /\ MaxSections \in Nat /\ 1 <= MaxSections
  BY SizesAssumption
<1>2. Numbers(1) = Usable(1)
  BY <1>1 DEF Numbers
<1>3. Numbers(1) \subseteq AllHandles /\ AllHandles \subseteq Nat
  BY <1>1, NumbersGrow, NumbersInRange DEF AllHandles
<1>4. LastIndex(1) \in Nat
  BY SizesAssumption DEF LastIndex
<1>5. \A n \in Nat : EmptyTables \in Tables(n)
  BY DEF EmptyTables, Tables, NoBlocks
<1>6. QED
  BY <1>1, <1>2, <1>3, <1>4, <1>5

EmptyFile ==
  /\ sections = 1 /\ primary = EmptyTables /\ secondary = EmptyTables
  /\ table = EmptyTables /\ dirty = {} /\ todo = {}
  /\ freeHandles = Usable(1) /\ freeBlocks = Usable(1) /\ reservedBlocks = {}
  /\ prevFreeHandle = 0 /\ prevFreeBlock = 0 /\ leaked = {}
  /\ writing = [w \in Writers |-> Idle] /\ phase = "none"
  /\ rule \in {"Primary", "Secondary"} /\ called \in BOOLEAN
  /\ written \in Nat

\* A file of one section without values, as a process makes it when there is none.
LEMMA EmptyFileInvariant ==
  EmptyFile => /\ Ranged /\ Partitioned /\ WholeHeaders
               /\ (called \/ rule = "Secondary") => IInv
<1> SUFFICES ASSUME EmptyFile
             PROVE  /\ Ranged /\ Partitioned /\ WholeHeaders
                    /\ (called \/ rule = "Secondary") => IInv
  OBVIOUS
<1> USE DEF EmptyFile
<1>1. TypeOK
  <2>1. todo \subseteq 1 .. sections /\ dirty \subseteq 1 .. sections
    OBVIOUS
  <2>2. writing \in [Writers -> {Idle} \cup Writings]
    OBVIOUS
  <2>3. prevFreeBlock \in 0 .. LastIndex(sections) /\ prevFreeHandle \in 0 .. LastIndex(sections) + 1
    BY OneSection
  <2>4. /\ freeHandles \subseteq Numbers(sections) /\ freeBlocks \subseteq Numbers(sections)
        /\ leaked \subseteq Numbers(sections)
    BY OneSection
  <2>5. /\ primary \in Tables(sections) /\ secondary \in Tables(sections) /\ table \in Tables(sections)
        /\ sections \in 1 .. MaxSections
    BY OneSection
  <2>6. QED
    BY <2>1, <2>2, <2>3, <2>4, <2>5 DEF TypeOK
<1>2. Active = {}
  BY DEF Active
<1>3. \A h \in AllHandles : EmptyTables[h] = {}
  BY DEF EmptyTables, NoBlocks
<1>4. Owned
  <2>1. Numbers(sections) \ freeBlocks = {}
    BY OneSection
  <2>2. QED
    BY <1>2, <1>3, <2>1 DEF Owned, Disjoint
<1>5. Unshared /\ InRange
  BY <1>2 DEF Unshared, InRange
<1>6. (called \/ rule = "Secondary") => Agreement
  BY DEF Agreement, AgreeIn
<1>7. Stored = EmptyTables
  BY DEF Stored, Tables_Of
<1>8. Recoverable
  BY <1>2, <1>3, <1>7 DEF Recoverable, Disjoint
<1>9. Found
  <2>1. Usable(1) \subseteq Nat
    BY OneSection
  <2>2. QED
    BY <2>1 DEF Found
<1>10. WholeHeaders
  BY <1>3 DEF WholeHeaders, Disjoint
<1>11. QED
  BY <1>1, <1>4, <1>5, <1>6, <1>8, <1>9, <1>10 DEF IInv, Ranged, Partitioned

\* The invariant holds of the file the first process makes.
LEMMA InitIInv == Init => IInv /\ WholeHeaders
<1>1. Init => EmptyFile /\ called
  BY DEF Init, EmptyFile
<1>2. QED
  BY <1>1, EmptyFileInvariant

\* A growing file: the new section is empty in every table.
LEMMA Growth ==
  ASSUME TypeOK, NEW n \in {sections, sections + 1}, n <= MaxSections
  PROVE  /\ n \in 1 .. MaxSections /\ n \in Nat /\ sections \in Nat
         /\ Numbers(sections) \subseteq Numbers(n) /\ Numbers(n) \subseteq AllHandles /\ AllHandles \subseteq Nat
         /\ 0 .. LastIndex(sections) \subseteq 0 .. LastIndex(n)
         /\ 0 .. LastIndex(sections) + 1 \subseteq 0 .. LastIndex(n) + 1
         /\ Tables(sections) \subseteq Tables(n)
         /\ \A s \in 1 .. n \ 1 .. sections : s = sections + 1 /\ Usable(s) \cap Numbers(sections) = {}
         /\ \A s \in 1 .. n : Usable(s) \subseteq Numbers(n)
<1>1. sections \in Nat /\ n \in Nat /\ n \in 1 .. MaxSections /\ MaxSections \in Nat
  BY SizesAssumption DEF TypeOK
<1>2. Numbers(sections) \subseteq Numbers(n) /\ Numbers(n) \subseteq AllHandles /\ AllHandles \subseteq Nat
  <2>1. sections <= n
    BY <1>1
  <2>2. QED
    BY <1>1, <2>1, NumbersGrow, NumbersInRange DEF AllHandles
<1>3. /\ 0 .. LastIndex(sections) \subseteq 0 .. LastIndex(n)
      /\ 0 .. LastIndex(sections) + 1 \subseteq 0 .. LastIndex(n) + 1
  <2>1. LastIndex(sections) \in Int /\ LastIndex(sections + 1) = LastIndex(sections) + BlocksPerSection
    BY <1>1, Bounds
  <2>2. QED
    BY <2>1, SizesAssumption
<1>4. Tables(sections) \subseteq Tables(n)
  BY <1>2 DEF Tables
<1>5. \A s \in 1 .. n \ 1 .. sections : s = sections + 1
  BY <1>1
<1>6. Usable(sections + 1) \cap Numbers(sections) = {}
  BY <1>1, NumbersGrow
<1>7. \A s \in 1 .. n : Usable(s) \subseteq Numbers(n)
  BY DEF Numbers
<1>8. QED
  BY <1>1, <1>2, <1>3, <1>4, <1>5, <1>6, <1>7

\* A step that at most adds a section keeps what the headers and the table in memory agree on.
LEMMA GrowthAgrees ==
  ASSUME TypeOK, Agreement, sections' \in {sections, sections + 1}, sections' <= MaxSections,
         UNCHANGED <<primary, secondary, table, dirty, phase, todo, called, rule>>
  PROVE  Agreement'
<1> DEFINE n == sections'
<1>1. TypeOK /\ Agreement
  OBVIOUS
<1>2. /\ \A s \in 1 .. n \ 1 .. sections : Usable(s) \cap Numbers(sections) = {}
      /\ \A s \in 1 .. n : Usable(s) \subseteq AllHandles
  BY <1>1, Growth
<1>3. \A s \in 1 .. n \ 1 .. sections : \A h \in Usable(s) :
        primary[h] = NoBlocks /\ secondary[h] = NoBlocks /\ table[h] = NoBlocks
  <2>1. SUFFICES ASSUME NEW s \in 1 .. n \ 1 .. sections, NEW h \in Usable(s)
                 PROVE  primary[h] = NoBlocks /\ secondary[h] = NoBlocks /\ table[h] = NoBlocks
    OBVIOUS
  <2>2. h \in AllHandles \ Numbers(sections)
    BY <1>2
  <2>3. QED
    BY <1>1, <2>2 DEF TypeOK, Tables
<1>4. \A s \in 1 .. n \ dirty : \A h \in Usable(s) : primary[h] = table[h] /\ secondary[h] = table[h]
  BY <1>1, <1>3 DEF Agreement, AgreeIn
<1>5. phase = "first" => \A s \in 1 .. n \ todo : \A h \in Usable(s) : primary[h] = table[h]
  BY <1>1, <1>3 DEF Agreement, AgreeIn
<1>6. QED
  BY <1>1, <1>4, <1>5 DEF Agreement, AgreeIn

-----------------------------------------------------------------------------
\* The steps

\* Create takes a handle that has no value, in a new section if there is none.
LEMMA CreateStep ==
  ASSUME Ranged, Create
  PROVE  Ranged' /\ (Partitioned => Partitioned') /\ (IInv => IInv')
<1> DEFINE found == {h \in freeHandles : h >= prevFreeHandle}
           n == IF found = {} THEN sections + 1 ELSE sections
           handle == IF found = {} THEN Min(Usable(n)) ELSE Min(found)
           added == Numbers(n) \ Numbers(sections)
<1>1. /\ n <= MaxSections /\ sections' = n
      /\ freeHandles' = (freeHandles \cup added) \ {handle}
      /\ freeBlocks' = freeBlocks \cup added
      /\ prevFreeHandle' = handle + 1
      /\ UNCHANGED <<primary, secondary, data, table, dirty, reservedBlocks, prevFreeBlock,
                     leaked, writing, phase, todo, called, rule, written>>
  BY DEF Create, commit
<1>2. TypeOK /\ InRange /\ Found
  BY DEF Ranged
<1>3. /\ n \in {sections, sections + 1} /\ n \in Nat /\ sections \in Nat /\ n \in 1 .. MaxSections
      /\ Numbers(sections) \subseteq Numbers(n) /\ Numbers(n) \subseteq Nat /\ Numbers(n) \subseteq AllHandles
      /\ 0 .. LastIndex(sections) \subseteq 0 .. LastIndex(n)
      /\ Tables(sections) \subseteq Tables(n)
  BY <1>1, <1>2, Growth
<1> DEFINE last == LastIndex(sections)
<1>4. last \in Int /\ Usable(sections + 1) = last + 2 .. last + BlocksPerSection - 1
  BY <1>3, Bounds
<1> HIDE DEF last
<1>5. freeHandles \subseteq Nat /\ prevFreeHandle \in Nat
  BY <1>2, <1>3 DEF TypeOK
<1>6. handle \in Numbers(n) /\ \A h \in freeHandles \cup added : h \in Nat /\ handle <= h
  <2>1. CASE found # {}
    <3>1. found = freeHandles /\ found \in SUBSET Nat
      BY <1>2, <1>5 DEF Found
    <3>2. handle \in freeHandles /\ \A h \in freeHandles : handle <= h
      BY <2>1, <3>1, MinIsLeast
    <3>3. freeHandles \subseteq Numbers(n) /\ added = {}
      BY <1>2, <1>3, <2>1 DEF TypeOK
    <3>4. QED
      BY <1>5, <3>2, <3>3
  <2>2. CASE found = {}
    <3>1. freeHandles = {}
      BY <1>2, <1>5, <2>2 DEF Found
    <3>2. Numbers(n) = Numbers(sections) \cup Usable(n) /\ Numbers(sections) \cap Usable(n) = {}
      BY <1>3, <2>2, NumbersGrow
    <3>3. Usable(n) # {}
      <4>1. last + 2 \in last + 2 .. last + BlocksPerSection - 1
        BY <1>4, SizesAssumption
      <4>2. QED
        BY <1>4, <2>2, <4>1
    <3>4. Usable(n) \in SUBSET Nat
      BY <1>3, <3>2
    <3>5. handle \in Usable(n) /\ \A h \in Usable(n) : handle <= h
      BY <2>2, <3>3, <3>4, MinIsLeast
    <3>6. QED
      BY <3>1, <3>2, <3>4, <3>5
  <2>3. QED
    BY <2>1, <2>2
<1> HIDE DEF handle
<1>7. TypeOK'
  <2>1. /\ primary \in Tables(n) /\ secondary \in Tables(n) /\ table \in Tables(n)
        /\ reservedBlocks \subseteq 0 .. LastIndex(n) /\ prevFreeBlock \in 0 .. LastIndex(n)
    BY <1>2, <1>3 DEF TypeOK
  <2>2. dirty \subseteq 1 .. n /\ todo \subseteq 1 .. n
    BY <1>2, <1>3 DEF TypeOK
  <2>3. freeHandles' \subseteq Numbers(n) /\ freeBlocks' \subseteq Numbers(n) /\ leaked \subseteq Numbers(n)
    BY <1>1, <1>2, <1>3 DEF TypeOK
  <2>4. prevFreeHandle' \in 0 .. LastIndex(n) + 1
    <3>1. \A h \in Numbers(n) : h \in Nat /\ h <= LastIndex(n)
      BY <1>3, NumbersInRange
    <3>2. LastIndex(n) \in Int
      BY <1>3, Bounds
    <3>3. QED
      BY <1>1, <1>6, <3>1, <3>2
  <2> HIDE DEF n
  <2>5. QED
    BY <1>1, <1>2, <1>3, <2>1, <2>2, <2>3, <2>4 DEF TypeOK
<1>8. InRange'
  BY <1>1, <1>2, <1>3 DEF InRange, Active
<1>9. ASSUME Owned, Unshared
      PROVE  Owned'
  <2>1. \A h \in AllHandles : table[h] \cap added = {}
    BY <1>2, <1>9 DEF TypeOK, Tables
  <2>2. \A w \in Active : writing[w].blocks \cap added = {}
    BY <1>2 DEF InRange
  <2>3. Active' = Active
    BY <1>1 DEF Active
  <2>4. /\ Numbers(n) \ (freeBlocks' \cup leaked) = Numbers(sections) \ (freeBlocks \cup leaked)
        /\ leaked \cap added = {}
    BY <1>1, <1>2, <1>9, <1>3 DEF TypeOK
  <2> HIDE DEF n
  <2>5. QED
    BY <1>1, <1>2, <1>9, <2>1, <2>2, <2>3, <2>4 DEF Owned, Disjoint
<1>10. ASSUME Owned, Unshared
      PROVE  Unshared'
  BY <1>1, <1>2, <1>10, <1>3 DEF Unshared, Active
<1>11. ASSUME Agreement
       PROVE  Agreement'
  BY <1>1, <1>2, <1>3, <1>11, GrowthAgrees
<1>12. ASSUME Recoverable
       PROVE  Recoverable'
  BY <1>1, <1>2, <1>12 DEF Recoverable, Active, Stored, Tables_Of, Documented_Rule, Disjoint
<1>13. Found'
  <2>1. \A b \in added : b \notin reservedBlocks => b >= prevFreeBlock
    <3>1. \A b \in added : b \in Nat /\ b > last
      <4>1. CASE n = sections
        BY <4>1
      <4>2. CASE n = sections + 1
        <5>1. added = Usable(sections + 1)
          BY <1>3, <4>2, NumbersGrow
        <5>2. QED
          <6>1. added \subseteq Nat
            BY <1>3
          <6>2. QED
            BY <1>4, <5>1, <6>1, SizesAssumption
      <4>3. QED
        BY <4>1, <4>2
    <3>2. prevFreeBlock \in Nat /\ prevFreeBlock <= last
      BY <1>4, <1>2 DEF TypeOK, last
    <3>3. QED
      BY <1>4, <3>1, <3>2
  <2>2. \A h \in freeHandles' : h >= prevFreeHandle'
    BY <1>1, <1>3, <1>6
  <2>3. QED
    BY <1>1, <1>2, <2>1, <2>2 DEF Found
<1>14. QED
  BY <1>7, <1>8, <1>9, <1>10, <1>11, <1>12, <1>13 DEF IInv, Ranged, Partitioned

\* The first half of Write takes free blocks that no value to be loaded has.
LEMMA TakeBlocksStep ==
  ASSUME Ranged, NEW w \in Writers, NEW handle \in AllHandles, NEW count \in 1 .. MaxBlocks,
         TakeBlocks(w, handle, count)
  PROVE  Ranged' /\ (Partitioned => Partitioned') /\ (IInv => IInv')
<1> DEFINE n == IF Runs(Available(freeBlocks), count) = {} THEN sections + 1 ELSE sections
           added == Numbers(n) \ Numbers(sections)
           available == Available(freeBlocks \cup added)
           start == Min(Runs(available, count))
           blocks == start .. start + count - 1
           new == [handle |-> handle, old |-> table[handle], blocks |-> blocks]
<1>1. /\ phase = "none" /\ writing[w] = Idle
      /\ handle \in Numbers(sections) \ freeHandles /\ ~ In_Use(handle)
      /\ n <= MaxSections /\ sections' = n
      /\ freeHandles' = freeHandles \cup added
      /\ freeBlocks' = (freeBlocks \cup added) \ blocks
      /\ prevFreeBlock' = Min(available)
      /\ writing' = [writing EXCEPT ![w] = new]
      /\ UNCHANGED <<primary, secondary, data, table, dirty, reservedBlocks, prevFreeHandle,
                     leaked, phase, todo, called, rule, written>>
  BY DEF TakeBlocks, commit, Unlocked
<1>2. TypeOK /\ InRange /\ Found
  BY DEF Ranged
<1>3. /\ n \in {sections, sections + 1} /\ n \in Nat /\ sections \in Nat /\ n \in 1 .. MaxSections
      /\ Numbers(sections) \subseteq Numbers(n) /\ Numbers(n) \subseteq Nat /\ Numbers(n) \subseteq AllHandles
      /\ 0 .. LastIndex(sections) \subseteq 0 .. LastIndex(n)
      /\ 0 .. LastIndex(sections) + 1 \subseteq 0 .. LastIndex(n) + 1
      /\ Tables(sections) \subseteq Tables(n) /\ AllHandles \subseteq Nat
  BY <1>1, <1>2, Growth
<1> DEFINE last == LastIndex(sections)
<1>4. /\ last \in Int /\ Usable(sections + 1) = last + 2 .. last + BlocksPerSection - 1
      /\ prevFreeBlock \in Nat /\ prevFreeBlock <= last
      /\ \A b \in reservedBlocks : b \in Nat /\ b <= last
  <2>1. last \in Int /\ Usable(sections + 1) = last + 2 .. last + BlocksPerSection - 1
    BY <1>3, Bounds
  <2>2. prevFreeBlock \in 0 .. last /\ reservedBlocks \subseteq 0 .. last
    BY <1>2 DEF TypeOK
  <2>3. QED
    BY <2>1, <2>2
<1> HIDE DEF last
<1>5. \A b \in added : b \in Nat /\ b >= prevFreeBlock /\ b \notin reservedBlocks
  <2>1. added \subseteq Usable(sections + 1) /\ added \subseteq Nat
    BY <1>3, NumbersGrow
  <2>2. QED
    BY <1>4, <2>1, SizesAssumption
<1>6. freeBlocks \subseteq Nat /\ freeBlocks \subseteq Numbers(sections)
  BY <1>2, <1>3 DEF TypeOK
<1>7. available = (freeBlocks \cup added) \ reservedBlocks
  BY <1>2, <1>4, <1>5, <1>6 DEF Available, Found
<1>8. Runs(available, count) # {}
  <2>1. CASE n = sections
    <3>1. added = {} /\ n # sections + 1
      BY <1>3, <2>1
    <3>2. Runs(Available(freeBlocks), count) # {}
      BY <3>1
    <3>3. freeBlocks \cup added = freeBlocks
      BY <3>1
    <3>4. QED
      BY <3>2, <3>3
  <2>2. CASE n = sections + 1
    <3>1. added = Usable(sections + 1)
      BY <1>3, <2>2, NumbersGrow
    <3>2. last + 2 .. (last + 2) + count - 1 \subseteq added
      BY <1>4, <3>1, SizesAssumption
    <3>3. last + 2 \in last + 2 .. (last + 2) + count - 1
      BY <1>4, SizesAssumption
    <3>4. added \subseteq available
      BY <1>5, <1>7
    <3> HIDE DEF added, available
    <3>5. last + 2 \in Runs(available, count)
      BY <3>2, <3>3, <3>4 DEF Runs
    <3>6. QED
      BY <3>5
  <2>3. QED
    BY <1>3, <2>1, <2>2
<1>9. available \subseteq Numbers(n) /\ available \in SUBSET Nat
  BY <1>3, <1>6, <1>7
<1> HIDE DEF available
<1>10. start \in available /\ blocks \subseteq available /\ start \in blocks
  <2>1. Runs(available, count) \in SUBSET Nat
    BY <1>9 DEF Runs
  <2>2. start \in Runs(available, count)
    BY <1>8, <2>1, MinIsLeast
  <2>3. start \in Nat /\ count \in Nat /\ count >= 1
    BY <2>1, <2>2, SizesAssumption
  <2>4. QED
    BY <2>2, <2>3 DEF Runs
<1> HIDE DEF start
<1>11. Min(available) \in available /\ \A b \in available : Min(available) <= b
  BY <1>9, <1>10, MinIsLeast
<1>12. /\ blocks # {} /\ blocks \subseteq Numbers(n) /\ blocks \subseteq AllHandles
       /\ blocks \cap reservedBlocks = {} /\ blocks \subseteq freeBlocks \cup added
  BY <1>3, <1>7, <1>9, <1>10
<1> HIDE DEF blocks
<1>13. new \in Writings /\ new # Idle
  <2>1. table[handle] \subseteq AllHandles
    BY <1>2, <1>3 DEF TypeOK, Tables
  <2>2. new \in Writings
    BY <1>12, <2>1 DEF Writings
  <2>3. new \in [handle : Nat, old : SUBSET Nat, blocks : SUBSET Nat]
    BY <1>3, <1>12, <2>1
  <2>4. QED
    BY <2>2, <2>3, IdleAssumption
<1>14. new.handle = handle /\ new.old = table[handle] /\ new.blocks = blocks
  OBVIOUS
<1> HIDE DEF new
<1>15. /\ Active' = Active \cup {w} /\ w \notin Active /\ writing'[w] = new
       /\ \A v \in Active : writing'[v] = writing[v] /\ writing[v].handle # handle
  <2>1. writing \in [Writers -> {Idle} \cup Writings]
    BY <1>2 DEF TypeOK
  <2>2. QED
    BY <1>1, <1>13, <2>1 DEF Active, In_Use
<1>16. TypeOK'
  <2>1. /\ primary \in Tables(n) /\ secondary \in Tables(n) /\ table \in Tables(n)
        /\ reservedBlocks \subseteq 0 .. LastIndex(n) /\ prevFreeHandle \in 0 .. LastIndex(n) + 1
    BY <1>2, <1>3 DEF TypeOK
  <2>2. dirty \subseteq 1 .. n /\ todo \subseteq 1 .. n
    BY <1>2, <1>3 DEF TypeOK
  <2>3. freeHandles' \subseteq Numbers(n) /\ freeBlocks' \subseteq Numbers(n) /\ leaked \subseteq Numbers(n)
    BY <1>1, <1>2, <1>3 DEF TypeOK
  <2>4. prevFreeBlock' \in 0 .. LastIndex(n)
    <3>1. Numbers(n) \subseteq 0 .. LastIndex(n)
      BY <1>3, NumbersInRange
    <3>2. QED
      BY <1>1, <1>9, <1>11, <3>1
  <2>5. writing' \in [Writers -> {Idle} \cup Writings]
    BY <1>1, <1>2, <1>13 DEF TypeOK
  <2> HIDE DEF n
  <2>6. QED
    BY <1>1, <1>2, <1>3, <2>1, <2>2, <2>3, <2>4, <2>5 DEF TypeOK
<1>17. InRange'
  <2>1. table[handle] \subseteq Numbers(sections)
    BY <1>2, <1>3 DEF TypeOK, Tables
  <2>2. \A v \in Active' : /\ writing'[v].handle \in Numbers(n) /\ writing'[v].old \subseteq Numbers(n)
                           /\ writing'[v].blocks # {} /\ writing'[v].blocks \subseteq Numbers(n)
    BY <1>1, <1>2, <1>3, <1>12, <1>14, <1>15, <2>1 DEF InRange
  <2> HIDE DEF n
  <2>3. QED
    BY <1>1, <1>2, <2>2 DEF InRange
<1>18. Owned => \A h \in AllHandles : table[h] \cap added = {} /\ table[h] \cap blocks = {}
  BY <1>2, <1>12 DEF TypeOK, Tables, Owned
<1>19. Owned => \A v \in Active : writing[v].blocks \cap added = {} /\ writing[v].blocks \cap blocks = {}
  BY <1>2, <1>12 DEF InRange, Owned
<1>20. Owned => leaked \cap added = {} /\ leaked \cap blocks = {}
  BY <1>2, <1>12 DEF TypeOK, Owned
<1>21. ASSUME Owned, Unshared
       PROVE  Owned'
  <2>1. \A h \in AllHandles : table[h] \cap freeBlocks' = {}
    BY <1>1, <1>18, <1>21 DEF Owned
  <2>2. \A v \in Active : writing[v].blocks \cap freeBlocks' = {}
    BY <1>1, <1>19, <1>21 DEF Owned
  <2>3. blocks \cap freeBlocks' = {}
    BY <1>1
  <2>4. \A v \in Active, h \in AllHandles : writing[v].blocks \cap table[h] = {}
    BY <1>2, <1>21 DEF Owned
  <2>5. \A b \in Numbers(n) \ (freeBlocks' \cup leaked) :
          b \in blocks \/ (\E h \in AllHandles : b \in table[h]) \/ (\E v \in Active : b \in writing[v].blocks)
    BY <1>1, <1>2, <1>21 DEF Owned
  <2> HIDE DEF n, added
  <2>6. \A b \in (Numbers(sections) \ (freeBlocks \cup leaked))' :
          (\E h \in AllHandles : b \in table[h]) \/ (\E v \in Active' : b \in writing'[v].blocks)
    BY <1>1, <1>14, <1>15, <2>5
  <2>7. \A v \in Active' : writing'[v].blocks \cap freeBlocks' = {}
    BY <1>14, <1>15, <2>2, <2>3
  <2>8. \A v \in Active', h \in AllHandles : writing'[v].blocks \cap table[h] = {}
    BY <1>14, <1>15, <1>18, <1>21, <2>4
  <2>9. leaked \cap freeBlocks' = {} /\ \A v \in Active' : leaked \cap writing'[v].blocks = {}
    BY <1>1, <1>14, <1>15, <1>21, <1>20 DEF Owned
  <2>10. QED
    BY <1>1, <1>2, <1>21, <2>1, <2>6, <2>7, <2>8, <2>9 DEF Owned, Disjoint
<1>22. ASSUME Owned, Unshared
       PROVE  Unshared'
  <2>1. \A v \in Active' : writing'[v].old = table[writing'[v].handle]
    BY <1>14, <1>15, <1>22 DEF Unshared
  <2>2. \A u, v \in Active' : u # v => /\ writing'[u].handle # writing'[v].handle
                                       /\ writing'[u].blocks \cap writing'[v].blocks = {}
    BY <1>14, <1>15, <1>19, <1>22 DEF Unshared
  <2> HIDE DEF n
  <2>3. QED
    BY <1>1, <2>1, <2>2 DEF Unshared
<1>23. ASSUME Agreement
       PROVE  Agreement'
  BY <1>1, <1>2, <1>3, <1>23, GrowthAgrees
<1>24. ASSUME Recoverable
       PROVE  Recoverable'
  <2>1. Stored' = Stored
    BY <1>1 DEF Stored, Tables_Of, Documented_Rule
  <2>2. \A h \in AllHandles : blocks \cap Stored[h] = {}
    BY <1>1, <1>2, <1>24, <1>12 DEF Recoverable
  <2>3. \A v \in Active', h \in AllHandles : writing'[v].blocks \cap Stored[h] = {}
    BY <1>2, <1>24, <1>14, <1>15, <2>2 DEF Recoverable
  <2>4. QED
    BY <1>1, <1>2, <1>24, <2>1, <2>3 DEF Recoverable
<1>25. Found'
  <2>1. \A b \in freeBlocks' \ reservedBlocks : b >= prevFreeBlock'
    <3>1. \A b \in freeBlocks' \ reservedBlocks : b \in available
      BY <1>1, <1>7
    <3>2. QED
      BY <1>1, <1>9, <1>11, <3>1
  <2>2. \A h \in freeHandles \cup added : h >= prevFreeHandle
    <3>1. prevFreeHandle \in Nat /\ prevFreeHandle <= last + 1
      BY <1>2, <1>4 DEF TypeOK, last
    <3>2. added \subseteq Usable(sections + 1) /\ added \subseteq Nat
      BY <1>3, NumbersGrow
    <3>3. QED
      BY <1>2, <1>4, <3>1, <3>2, SizesAssumption DEF Found
  <2>3. QED
    BY <1>1, <2>1, <2>2 DEF Found
<1>26. QED
  BY <1>16, <1>17, <1>21, <1>22, <1>23, <1>24, <1>25 DEF IInv, Ranged, Partitioned

\* The second half of Write and Delete: the search starts no later than at the
\* blocks that are free again.
LEMMA FreeBlocksFound ==
  ASSUME TypeOK, Found, NEW blocks \in SUBSET Numbers(sections),
         FreeBlocks(blocks)
  PROVE  /\ freeBlocks' = freeBlocks \cup blocks
         /\ prevFreeBlock' \in 0 .. LastIndex(sections)
         /\ \A b \in freeBlocks' \ reservedBlocks : b >= prevFreeBlock'
<1>1. freeBlocks' = freeBlocks \cup blocks /\ prevFreeBlock' = Min({prevFreeBlock} \cup blocks)
  BY DEF FreeBlocks
<1>2. blocks \subseteq 0 .. LastIndex(sections) /\ prevFreeBlock \in 0 .. LastIndex(sections)
  BY NumbersInRange DEF TypeOK
<1>3. {prevFreeBlock} \cup blocks \in SUBSET Nat
  BY <1>2
<1>4. prevFreeBlock' \in {prevFreeBlock} \cup blocks /\ \A b \in {prevFreeBlock} \cup blocks : prevFreeBlock' <= b
  BY <1>1, <1>3, MinIsLeast
<1>5. freeBlocks \subseteq Nat
  BY NumbersInRange DEF TypeOK
<1>6. \A b \in freeBlocks \ reservedBlocks : b >= prevFreeBlock'
  BY <1>3, <1>4, <1>5 DEF Found
<1>7. QED
  BY <1>1, <1>2, <1>3, <1>4, <1>6

\* The table in memory changes at one handle, in a section that is then dirty.
LEMMA TableChanged ==
  ASSUME TypeOK, phase = "none", NEW handle \in AllHandles, NEW blocks,
         table' = [table EXCEPT ![handle] = blocks],
         dirty' = dirty \cup {s \in 1 .. sections : handle \in Usable(s)},
         UNCHANGED <<sections, primary, secondary, phase, todo, called, rule>>
  PROVE  dirty' \subseteq 1 .. sections /\ (Agreement => Agreement')
<1>1. table \in [AllHandles -> SUBSET Numbers(sections)] /\ dirty \subseteq 1 .. sections
  BY DEF TypeOK, Tables
<1>2. dirty' \subseteq 1 .. sections
  BY <1>1
<1>3. \A h \in AllHandles : h # handle => table'[h] = table[h]
  BY <1>1
<1>4. \A s \in 1 .. sections : Usable(s) \subseteq AllHandles
  BY Growth DEF TypeOK
<1>5. \A s \in 1 .. sections \ dirty' : \A h \in Usable(s) : table'[h] = table[h]
  BY <1>3, <1>4
<1>6. QED
  BY <1>1, <1>2, <1>5 DEF Agreement, AgreeIn

\* The second half of Write gives the handle its new blocks and frees its old ones.
LEMMA WriteStep ==
  ASSUME Ranged, NEW w \in Writers, Write(w)
  PROVE  Ranged' /\ (Partitioned => Partitioned') /\ (IInv => IInv')
<1> DEFINE handle == writing[w].handle
           blocks == writing[w].blocks
<1>1. /\ phase = "none" /\ w \in Active
      /\ written' = written + 1
      /\ table' = [table EXCEPT ![handle] = blocks]
      /\ dirty' = dirty \cup {s \in 1 .. sections : handle \in Usable(s)}
      /\ FreeBlocks(writing[w].old)
      /\ writing' = [writing EXCEPT ![w] = Idle]
      /\ UNCHANGED <<sections, primary, secondary, freeHandles, reservedBlocks, prevFreeHandle,
                     leaked, phase, todo, called, rule>>
  BY DEF Write, commit, Unlocked, Active
<1>2. TypeOK /\ InRange /\ Found
  BY DEF Ranged
<1>3. /\ handle \in Numbers(sections) /\ writing[w].old \subseteq Numbers(sections)
      /\ blocks # {} /\ blocks \subseteq Numbers(sections)
  BY <1>1, <1>2 DEF InRange
<1>4. handle \in AllHandles /\ Numbers(sections) \subseteq AllHandles
  BY <1>2, <1>3, Growth DEF TypeOK
<1>5. table \in [AllHandles -> SUBSET Numbers(sections)]
  BY <1>2 DEF TypeOK, Tables
<1>6. /\ freeBlocks' = freeBlocks \cup writing[w].old
      /\ prevFreeBlock' \in 0 .. LastIndex(sections)
      /\ \A b \in freeBlocks' \ reservedBlocks : b >= prevFreeBlock'
  BY <1>1, <1>2, <1>3, FreeBlocksFound
<1>7. Active' = Active \ {w} /\ \A v \in Active' : writing'[v] = writing[v]
  BY <1>1, <1>2 DEF Active, TypeOK
<1>8. table'[handle] = blocks /\ \A h \in AllHandles : h # handle => table'[h] = table[h]
  BY <1>1, <1>4, <1>5
<1>9. dirty' \subseteq 1 .. sections /\ (Agreement => Agreement')
  BY <1>1, <1>2, <1>4, TableChanged
<1>10. TypeOK'
  <2>1. table' \in Tables(sections)
    BY <1>1, <1>2, <1>3, <1>4 DEF TypeOK, Tables
  <2>2. writing' \in [Writers -> {Idle} \cup Writings]
    BY <1>1, <1>2 DEF TypeOK
  <2>3. freeBlocks' \subseteq Numbers(sections) /\ written' \in Nat
    BY <1>1, <1>2, <1>3, <1>6 DEF TypeOK
  <2>4. QED
    BY <1>1, <1>2, <1>6, <1>9, <2>1, <2>2, <2>3 DEF TypeOK
<1>11. InRange'
  BY <1>1, <1>2, <1>7 DEF InRange
<1>12. ASSUME Unshared
       PROVE  /\ freeBlocks' = freeBlocks \cup table[handle]
              /\ \A v \in Active' : writing[v].handle # handle /\ writing[v].blocks \cap blocks = {}
  BY <1>1, <1>6, <1>7, <1>12 DEF Unshared
<1>13. ASSUME Owned, Unshared
       PROVE  Owned'
  <2>1. \A h \in AllHandles : table'[h] \cap freeBlocks' = {}
    BY <1>1, <1>13, <1>4, <1>6, <1>12, <1>8 DEF Owned, Disjoint
  <2>2. \A v \in Active' : writing'[v].blocks \cap freeBlocks' = {}
    BY <1>13, <1>4, <1>6, <1>12, <1>7, <1>12 DEF Owned
  <2>3. \A v \in Active', h \in AllHandles : writing'[v].blocks \cap table'[h] = {}
    BY <1>13, <1>7, <1>8, <1>12 DEF Owned
  <2>4. Disjoint(table)'
    BY <1>1, <1>13, <1>8 DEF Owned, Disjoint
  <2>5. ASSUME NEW b \in Numbers(sections) \ (freeBlocks' \cup leaked)
        PROVE  (\E h \in AllHandles : b \in table'[h]) \/ (\E v \in Active' : b \in writing'[v].blocks)
    <3>1. CASE b \in blocks
      BY <1>4, <1>8, <3>1
    <3>2. CASE \E h \in AllHandles : b \in table[h]
      BY <1>8, <1>12, <1>13, <3>2
    <3>3. CASE b \notin blocks /\ \E v \in Active : b \in writing[v].blocks
      BY <1>7, <3>3
    <3>4. QED
      BY <1>13, <1>6, <1>12, <3>1, <3>2, <3>3 DEF Owned
  <2>6. /\ leaked \cap freeBlocks' = {} /\ \A h \in AllHandles : leaked \cap table'[h] = {}
        /\ \A v \in Active' : leaked \cap writing'[v].blocks = {}
    BY <1>1, <1>4, <1>7, <1>8, <1>12, <1>13 DEF Owned
  <2>7. QED
    BY <1>1, <2>1, <2>2, <2>3, <2>4, <2>5, <2>6 DEF Owned
<1>14. ASSUME Owned, Unshared
       PROVE  Unshared'
  <2>1. \A v \in Active' : writing[v].handle \in AllHandles
    BY <1>2, <1>4, <1>7 DEF InRange
  <2>2. QED
    BY <1>1, <1>7, <1>8, <1>12, <1>14, <2>1 DEF Unshared
<1>15. ASSUME Recoverable
       PROVE  Recoverable'
  <2>1. Stored' = Stored
    BY <1>1 DEF Stored, Tables_Of, Documented_Rule
  <2>2. QED
    BY <1>1, <1>2, <1>15, <1>7, <2>1 DEF Recoverable
<1>16. Found'
  BY <1>1, <1>2, <1>6 DEF Found
<1>17. QED
  BY <1>9, <1>10, <1>11, <1>13, <1>14, <1>15, <1>16 DEF IInv, Ranged, Partitioned

\* A Write that throws gives its blocks to nobody.
LEMMA WriteThrowsStep ==
  ASSUME Ranged, NEW w \in Writers, Write_Throws(w)
  PROVE  Ranged' /\ (Partitioned => Partitioned') /\ (IInv => IInv')
<1>1. /\ w \in Active
      /\ leaked' = leaked \cup writing[w].blocks
      /\ writing' = [writing EXCEPT ![w] = Idle]
      /\ UNCHANGED <<sections, primary, secondary, table, dirty, freeHandles, freeBlocks, reservedBlocks,
                     prevFreeHandle, prevFreeBlock, phase, todo, called, rule, written>>
  BY DEF Write_Throws, commit, Active
<1>2. TypeOK /\ InRange /\ Found
  BY DEF Ranged
<1>3. Active' = Active \ {w} /\ \A v \in Active' : writing'[v] = writing[v]
  BY <1>1, <1>2 DEF Active, TypeOK
<1>4. writing[w].blocks \subseteq Numbers(sections)
  BY <1>1, <1>2 DEF InRange
<1>5. TypeOK'
  <2>1. writing' \in [Writers -> {Idle} \cup Writings] /\ leaked' \subseteq Numbers(sections)
    BY <1>1, <1>2, <1>4 DEF TypeOK
  <2>2. QED
    BY <1>1, <1>2, <2>1 DEF TypeOK
<1>6. InRange' /\ Found'
  BY <1>1, <1>2, <1>3 DEF InRange, Found
<1>7. ASSUME Owned, Unshared
      PROVE  Owned' /\ Unshared'
  <2>1. \A v \in Active' : writing'[v].blocks = writing[v].blocks /\ leaked' \cap writing[v].blocks = {}
    BY <1>1, <1>3, <1>7 DEF Owned, Unshared
  <2>2. leaked' \cap freeBlocks = {} /\ \A h \in AllHandles : leaked' \cap table[h] = {}
    BY <1>1, <1>7 DEF Owned
  <2>3. \A b \in Numbers(sections) \ (freeBlocks \cup leaked') :
          (\E h \in AllHandles : b \in table[h]) \/ (\E v \in Active' : b \in writing'[v].blocks)
    BY <1>1, <1>3, <1>7 DEF Owned
  <2>4. \A v \in Active' : /\ writing'[v].blocks \cap freeBlocks = {}
                           /\ \A h \in AllHandles : writing'[v].blocks \cap table[h] = {}
    BY <1>1, <1>3, <1>7 DEF Owned
  <2>5. Owned'
    BY <1>1, <1>7, <2>1, <2>2, <2>3, <2>4 DEF Owned, Disjoint
  <2>6. Unshared'
    BY <1>1, <1>3, <1>7 DEF Unshared
  <2>7. QED
    BY <2>5, <2>6
<1>8. ASSUME Agreement
      PROVE  Agreement'
  BY <1>1, <1>8 DEF Agreement, AgreeIn
<1>9. ASSUME Recoverable
      PROVE  Recoverable'
  <2>1. Stored' = Stored
    BY <1>1 DEF Stored, Tables_Of, Documented_Rule
  <2>2. QED
    BY <1>1, <1>3, <1>9, <2>1 DEF Recoverable, Disjoint
<1>10. QED
  BY <1>5, <1>6, <1>7, <1>8, <1>9 DEF IInv, Ranged, Partitioned

\* Delete frees the handle and its blocks; the headers still have them reserved.
LEMMA DeleteStep ==
  ASSUME Ranged, NEW handle \in AllHandles, Delete(handle)
  PROVE  Ranged' /\ (Partitioned => Partitioned') /\ (IInv => IInv')
<1>1. /\ phase = "none"
      /\ handle \in Numbers(sections) \ freeHandles /\ ~ In_Use(handle)
      /\ table' = [table EXCEPT ![handle] = NoBlocks]
      /\ dirty' = dirty \cup {s \in 1 .. sections : handle \in Usable(s)}
      /\ FreeBlocks(table[handle])
      /\ freeHandles' = freeHandles \cup {handle}
      /\ prevFreeHandle' = Min({prevFreeHandle, handle})
      /\ UNCHANGED <<sections, primary, secondary, data, reservedBlocks, leaked, writing,
                     phase, todo, called, rule, written>>
  BY DEF Delete, file, commit, Unlocked
<1>2. TypeOK /\ InRange /\ Found
  BY DEF Ranged
<1>3. table \in [AllHandles -> SUBSET Numbers(sections)]
  BY <1>2 DEF TypeOK, Tables
<1>4. /\ freeBlocks' = freeBlocks \cup table[handle]
      /\ prevFreeBlock' \in 0 .. LastIndex(sections)
      /\ \A b \in freeBlocks' \ reservedBlocks : b >= prevFreeBlock'
  BY <1>1, <1>2, <1>3, FreeBlocksFound
<1>5. Active' = Active /\ \A v \in Active : writing[v].handle # handle
  BY <1>1 DEF Active, In_Use
<1>6. table'[handle] = {} /\ \A h \in AllHandles : h # handle => table'[h] = table[h]
  BY <1>1, <1>3 DEF NoBlocks
<1>7. dirty' \subseteq 1 .. sections /\ (Agreement => Agreement')
  BY <1>1, <1>2, TableChanged
<1>8. /\ prevFreeHandle' \in 0 .. LastIndex(sections) + 1
      /\ \A h \in freeHandles' : h >= prevFreeHandle'
  <2>1. /\ prevFreeHandle \in 0 .. LastIndex(sections) + 1
        /\ handle \in 0 .. LastIndex(sections) /\ LastIndex(sections) \in Int
    BY <1>1, <1>2, NumbersInRange, Bounds DEF TypeOK
  <2>2. {prevFreeHandle, handle} \in SUBSET Nat
    BY <2>1
  <2>3. /\ prevFreeHandle' \in {prevFreeHandle, handle}
        /\ prevFreeHandle' <= prevFreeHandle /\ prevFreeHandle' <= handle
    BY <1>1, <2>2, MinIsLeast
  <2>4. freeHandles \subseteq Nat
    BY <1>2, NumbersInRange DEF TypeOK
  <2>5. \A h \in freeHandles : h >= prevFreeHandle'
    BY <1>2, <2>2, <2>3, <2>4 DEF Found
  <2>6. prevFreeHandle' \in 0 .. LastIndex(sections) + 1 /\ handle >= prevFreeHandle'
    BY <2>1, <2>3
  <2>7. \A h \in freeHandles' : h \in freeHandles \/ h = handle
    BY <1>1
  <2>8. QED
    BY <2>5, <2>6, <2>7
<1>9. TypeOK'
  <2>1. table' \in Tables(sections)
    BY <1>1, <1>2 DEF TypeOK, Tables, NoBlocks
  <2>2. freeBlocks' \subseteq Numbers(sections) /\ freeHandles' \subseteq Numbers(sections)
    BY <1>1, <1>2, <1>3, <1>4 DEF TypeOK
  <2>3. QED
    BY <1>1, <1>2, <1>4, <1>7, <1>8, <2>1, <2>2 DEF TypeOK
<1>10. InRange'
  BY <1>1, <1>2, <1>5 DEF InRange
<1>11. ASSUME Owned, Unshared
       PROVE  Owned'
  <2>1. \A h \in AllHandles : table'[h] \cap freeBlocks' = {}
    BY <1>2, <1>11, <1>4, <1>6 DEF Owned, Disjoint
  <2>2. \A v \in Active : writing[v].blocks \cap freeBlocks' = {}
    BY <1>2, <1>11, <1>4 DEF Owned
  <2>3. \A v \in Active, h \in AllHandles : writing[v].blocks \cap table'[h] = {}
    BY <1>2, <1>11, <1>6 DEF Owned
  <2>4. Disjoint(table)'
    BY <1>2, <1>11, <1>6 DEF Owned, Disjoint
  <2>5. \A b \in Numbers(sections) \ (freeBlocks' \cup leaked) :
          (\E h \in AllHandles : b \in table'[h]) \/ (\E v \in Active : b \in writing[v].blocks)
    BY <1>2, <1>11, <1>4, <1>6 DEF Owned
  <2>6. leaked \cap freeBlocks' = {} /\ \A h \in AllHandles : leaked \cap table'[h] = {}
    BY <1>2, <1>4, <1>6, <1>11 DEF Owned
  <2>7. QED
    BY <1>1, <1>5, <1>11, <2>1, <2>2, <2>3, <2>4, <2>5, <2>6 DEF Owned
<1>12. ASSUME Owned, Unshared
       PROVE  Unshared'
  <2>1. \A v \in Active : writing[v].handle \in AllHandles
    BY <1>2, Growth DEF InRange, TypeOK
  <2>2. QED
    BY <1>1, <1>2, <1>12, <1>5, <1>6, <2>1 DEF Unshared
<1>13. ASSUME Recoverable
       PROVE  Recoverable'
  <2>1. Stored' = Stored
    BY <1>1 DEF Stored, Tables_Of, Documented_Rule
  <2>2. QED
    BY <1>1, <1>2, <1>13, <1>5, <2>1 DEF Recoverable
<1>14. Found'
  BY <1>1, <1>4, <1>8 DEF Found
<1>15. QED
  BY <1>7, <1>9, <1>10, <1>11, <1>12, <1>13, <1>14 DEF IInv, Ranged, Partitioned

\* What a commit leaves alone until its end.
LEMMA MemoryKept ==
  ASSUME UNCHANGED <<sections, table, freeHandles, freeBlocks, reservedBlocks,
                     prevFreeHandle, prevFreeBlock, leaked, writing>>
  PROVE  /\ Active' = Active /\ Found' = Found
         /\ Owned => Owned'
         /\ Unshared => Unshared'
         /\ InRange /\ (phase' = "none" => todo' = {}) => InRange'
<1>1. Active' = Active
  BY DEF Active
<1>2. QED
  BY <1>1 DEF Owned, Unshared, InRange, Found, Disjoint

\* A header is written: its section of the tables is the one in memory.
LEMMA HeaderWritten ==
  ASSUME TypeOK, NEW t \in Tables(sections), NEW s \in 1 .. sections
  PROVE  /\ With_Section(t, s) \in Tables(sections)
         /\ \A h \in Usable(s) : With_Section(t, s)[h] = table[h]
         /\ \A h \in AllHandles \ Usable(s) : With_Section(t, s)[h] = t[h]
         /\ \A h \in AllHandles : t[h] = table[h] => With_Section(t, s)[h] = table[h]
<1>1. Usable(s) \subseteq AllHandles
  BY Growth DEF TypeOK
<1>2. With_Section(t, s) \in Tables(sections)
  BY DEF With_Section, TypeOK, Tables
<1>3. QED
  BY <1>1, <1>2 DEF With_Section

\* Tables that agree in every section are equal.
LEMMA EqualTables ==
  ASSUME NEW n \in Nat, NEW t \in Tables(n), NEW u \in Tables(n),
         \A s \in 1 .. n : \A h \in Usable(s) : t[h] = u[h]
  PROVE  t = u
<1>1. \A h \in Numbers(n) : t[h] = u[h]
  BY DEF Numbers
<1>2. \A h \in AllHandles : t[h] = u[h]
  BY <1>1 DEF Tables
<1>3. QED
  BY <1>2 DEF Tables

\* Whatever Commit does, and where it throws, keeps what the file has in range
\* and no block with two owners.
LEMMA CommitKeeps ==
  ASSUME Ranged, Commit_Step
  PROVE  Active' = Active /\ Ranged' /\ (Partitioned => Partitioned')
<1>1. TypeOK /\ InRange /\ Found
  BY DEF Ranged
<1>2. /\ UNCHANGED <<sections, table, freeHandles, freeBlocks, prevFreeHandle, leaked, writing, rule, written>>
      /\ ~ End_Commit => UNCHANGED <<reservedBlocks, prevFreeBlock>>
  BY DEF Commit_Step, Begin_Commit, Write_First_Header, Stage_Commit, Write_Last_Header, End_Commit,
         Commit_Throws, file, memory
<1>3. /\ phase' \in {"none", "first", "second"} /\ called' \in BOOLEAN
      /\ phase' = "none" => todo' = {}
      /\ todo' \subseteq 1 .. sections /\ dirty' \subseteq 1 .. sections
  BY <1>1 DEF TypeOK, Commit_Step, Begin_Commit, Write_First_Header, Stage_Commit, Write_Last_Header,
              End_Commit, Commit_Throws, file, memory
<1>4. todo # {} => Min(todo) \in 1 .. sections
  <2>1. todo \in SUBSET Nat
    BY <1>1 DEF TypeOK
  <2>2. QED
    BY <1>1, <2>1, MinIsLeast DEF TypeOK
<1>5. primary' \in Tables(sections) /\ secondary' \in Tables(sections)
  <2>1. \A t \in Tables(sections) : todo # {} => With_Section(t, Min(todo)) \in Tables(sections)
    BY <1>1, <1>4, HeaderWritten
  <2>2. QED
    BY <1>1, <2>1 DEF TypeOK, Commit_Step, Begin_Commit, Write_First_Header, Stage_Commit,
                      Write_Last_Header, End_Commit, Commit_Throws, file
<1>6. CASE End_Commit
  <2>1. /\ prevFreeBlock' = Min({prevFreeBlock} \cup reservedBlocks)
        /\ reservedBlocks' = 0 .. LastIndex(sections) \ freeBlocks
    BY <1>6 DEF End_Commit
  <2>2. /\ prevFreeBlock' \in 0 .. LastIndex(sections) /\ prevFreeBlock' <= prevFreeBlock
        /\ \A b \in reservedBlocks : prevFreeBlock' <= b
    <3>1. {prevFreeBlock} \cup reservedBlocks \in SUBSET (0 .. LastIndex(sections))
      BY <1>1 DEF TypeOK
    <3>2. {prevFreeBlock} \cup reservedBlocks \in SUBSET Nat
      BY <3>1
    <3>3. /\ prevFreeBlock' \in {prevFreeBlock} \cup reservedBlocks
          /\ \A b \in {prevFreeBlock} \cup reservedBlocks : prevFreeBlock' <= b
      BY <2>1, <3>2, MinIsLeast
    <3>4. QED
      BY <3>1, <3>3
  <2>3. TypeOK'
    <3>1. reservedBlocks' \subseteq 0 .. LastIndex(sections)
      BY <2>1
    <3>2. QED
      BY <1>1, <1>2, <1>3, <1>5, <2>2, <3>1 DEF TypeOK
  <2>4. Found'
    <3>1. freeBlocks \subseteq Nat /\ prevFreeBlock \in Nat /\ prevFreeBlock' \in Nat
      BY <1>1, <2>2, NumbersInRange DEF TypeOK
    <3>2. \A b \in freeBlocks : b >= prevFreeBlock'
      BY <1>1, <2>2, <3>1 DEF Found
    <3>3. QED
      BY <1>1, <1>2, <3>2 DEF Found
  <2>5. Active' = Active
    BY <1>2 DEF Active
  <2>6. InRange'
    BY <1>1, <1>2, <1>3, <2>5 DEF InRange
  <2>7. Partitioned => Partitioned'
    BY <1>2, <2>5 DEF Partitioned, Owned, Unshared, Disjoint
  <2>8. QED
    BY <2>3, <2>4, <2>5, <2>6, <2>7 DEF Ranged
<1>7. CASE ~ End_Commit
  <2>1. TypeOK'
    BY <1>1, <1>2, <1>3, <1>5, <1>7 DEF TypeOK
  <2>2. QED
    BY <1>1, <1>2, <1>3, <1>7, <2>1, MemoryKept DEF Ranged, Partitioned
<1>8. QED
  BY <1>6, <1>7

\* Begin_Commit has every dirty section still to write, and the next process would load Secondary.
LEMMA BeginCommitStep ==
  ASSUME IInv, Begin_Commit
  PROVE  IInv'
<1>1. /\ phase = "none" /\ phase' = "first" /\ todo' = dirty /\ called' = FALSE
      /\ UNCHANGED <<sections, primary, secondary, table, dirty, freeHandles, freeBlocks, reservedBlocks,
                     prevFreeHandle, prevFreeBlock, writing, rule, written>>
  BY DEF Begin_Commit, file, memory, Unlocked
<1>2. TypeOK /\ Agreement /\ Recoverable
  BY DEF IInv, Ranged, Partitioned
<1>3. Agreement'
  BY <1>1, <1>2 DEF Agreement, AgreeIn
<1>4. Stored' = Stored
  BY <1>1, <1>2 DEF Agreement, Stored, Tables_Of, Documented_Rule
<1>5. Active' = Active /\ Ranged' /\ Partitioned'
  BY CommitKeeps DEF IInv, Commit_Step
<1>6. Recoverable'
  BY <1>1, <1>2, <1>4, <1>5 DEF Recoverable, Disjoint
<1>7. QED
  BY <1>3, <1>5, <1>6 DEF IInv

\* A header of the first phase: the section agrees with the table in memory from then on.
LEMMA WriteFirstHeaderStep ==
  ASSUME IInv, Write_First_Header
  PROVE  IInv'
<1> DEFINE s == Min(todo)
<1>1. /\ phase = "first" /\ todo # {}
      /\ primary' = With_Section(primary, s)
      /\ todo' = todo \ {s}
      /\ UNCHANGED <<sections, secondary, table, dirty, freeHandles, freeBlocks, reservedBlocks,
                     prevFreeHandle, prevFreeBlock, writing, phase, called, rule, written>>
  BY DEF Write_First_Header, memory
<1>2. TypeOK /\ Agreement /\ Recoverable
  BY DEF IInv, Ranged, Partitioned
<1>3. s \in todo /\ s \in 1 .. sections
  <2>1. todo \in SUBSET Nat
    BY <1>2 DEF TypeOK
  <2>2. QED
    BY <1>1, <1>2, <2>1, MinIsLeast DEF TypeOK
<1> HIDE DEF s
<1>4. /\ primary' \in Tables(sections)
      /\ \A h \in Usable(s) : primary'[h] = table[h]
      /\ \A h \in AllHandles : primary[h] = table[h] => primary'[h] = table[h]
  BY <1>1, <1>2, <1>3, HeaderWritten DEF TypeOK
<1>5. \A r \in 1 .. sections : Usable(r) \subseteq AllHandles
  BY <1>2, Growth DEF TypeOK
<1>6. Agreement'
  <2>1. AgreeIn(1 .. sections \ dirty)'
    BY <1>1, <1>2, <1>4, <1>5 DEF Agreement, AgreeIn
  <2>2. AgreeIn(1 .. sections \ todo)'
    <3>1. \A r \in 1 .. sections \ todo : \A h \in Usable(r) : primary'[h] = table[h]
      BY <1>1, <1>2, <1>4, <1>5 DEF Agreement, AgreeIn
    <3>2. \A r \in 1 .. sections \ todo' : r = s \/ r \in 1 .. sections \ todo
      BY <1>1
    <3>3. QED
      BY <1>1, <1>4, <3>1, <3>2 DEF AgreeIn
  <2>3. QED
    BY <1>1, <1>2, <2>1, <2>2 DEF Agreement
<1>7. Stored' = Stored
  BY <1>1, <1>2 DEF Agreement, Stored, Tables_Of, Documented_Rule
<1>8. Active' = Active /\ Ranged' /\ Partitioned'
  BY CommitKeeps DEF IInv, Commit_Step
<1>9. Recoverable'
  BY <1>1, <1>2, <1>7, <1>8 DEF Recoverable, Disjoint
<1>10. QED
  BY <1>6, <1>8, <1>9 DEF IInv

\* At the end of the first phase all primary headers together are the table in memory.
LEMMA StageCommitStep ==
  ASSUME IInv, Stage_Commit
  PROVE  IInv' /\ primary = table
<1>1. /\ phase = "first" /\ todo = {} /\ phase' = "second" /\ todo' = dirty /\ called' = TRUE
      /\ UNCHANGED <<sections, primary, secondary, table, dirty, freeHandles, freeBlocks, reservedBlocks,
                     prevFreeHandle, prevFreeBlock, writing, rule, written>>
  BY DEF Stage_Commit, file, memory
<1>2. TypeOK /\ Owned /\ Agreement /\ Recoverable
  BY DEF IInv, Ranged, Partitioned
<1>3. primary = table
  <2>1. \A s \in 1 .. sections : \A h \in Usable(s) : primary[h] = table[h]
    BY <1>1, <1>2 DEF Agreement, AgreeIn
  <2>2. primary \in Tables(sections) /\ table \in Tables(sections) /\ sections \in Nat
    BY <1>2 DEF TypeOK
  <2>3. QED
    BY <2>1, <2>2, EqualTables
<1>4. Agreement'
  BY <1>1, <1>2, <1>3 DEF Agreement, AgreeIn
<1>5. Stored' = table
  BY <1>1, <1>3 DEF Stored, Tables_Of, Documented_Rule
<1>6. Active' = Active /\ Ranged' /\ Partitioned'
  BY CommitKeeps DEF IInv, Commit_Step
<1>7. Recoverable'
  BY <1>1, <1>2, <1>5, <1>6 DEF Recoverable, Owned, Disjoint
<1>8. QED
  BY <1>3, <1>4, <1>6, <1>7 DEF IInv

\* A header of the second phase: the section is dirty no longer.
LEMMA WriteLastHeaderStep ==
  ASSUME IInv, Write_Last_Header
  PROVE  IInv'
<1> DEFINE s == Min(todo)
<1>1. /\ phase = "second" /\ todo # {}
      /\ secondary' = With_Section(secondary, s)
      /\ dirty' = dirty \ {s} /\ todo' = todo \ {s}
      /\ UNCHANGED <<sections, primary, table, freeHandles, freeBlocks, reservedBlocks,
                     prevFreeHandle, prevFreeBlock, writing, phase, called, rule, written>>
  BY DEF Write_Last_Header
<1>2. TypeOK /\ Agreement /\ Recoverable
  BY DEF IInv, Ranged, Partitioned
<1>3. s \in todo /\ s \in 1 .. sections
  <2>1. todo \in SUBSET Nat
    BY <1>2 DEF TypeOK
  <2>2. QED
    BY <1>1, <1>2, <2>1, MinIsLeast DEF TypeOK
<1> HIDE DEF s
<1>4. /\ secondary' \in Tables(sections)
      /\ \A h \in Usable(s) : secondary'[h] = table[h]
      /\ \A h \in AllHandles : secondary[h] = table[h] => secondary'[h] = table[h]
  BY <1>1, <1>2, <1>3, HeaderWritten DEF TypeOK
<1>5. \A r \in 1 .. sections : Usable(r) \subseteq AllHandles
  BY <1>2, Growth DEF TypeOK
<1>6. Agreement'
  <2>1. \A r \in 1 .. sections \ dirty : \A h \in Usable(r) : secondary'[h] = table[h]
    BY <1>2, <1>4, <1>5 DEF Agreement
  <2>2. \A r \in 1 .. sections \ dirty' : r = s \/ r \in 1 .. sections \ dirty
    BY <1>1
  <2>3. \A r \in 1 .. sections \ dirty' : \A h \in Usable(r) : secondary'[h] = table[h]
    BY <1>4, <2>1, <2>2
  <2>4. primary = table /\ called /\ todo = dirty
    BY <1>1, <1>2 DEF Agreement
  <2>5. QED
    BY <1>1, <2>3, <2>4 DEF Agreement, AgreeIn
<1>7. Stored' = Stored
  BY <1>1, <1>2 DEF Agreement, Stored, Tables_Of, Documented_Rule
<1>8. Active' = Active /\ Ranged' /\ Partitioned'
  BY CommitKeeps DEF IInv, Commit_Step
<1>9. Recoverable'
  BY <1>1, <1>2, <1>7, <1>8 DEF Recoverable, Disjoint
<1>10. QED
  BY <1>6, <1>8, <1>9 DEF IInv

\* End_Commit reserves what is not free, which is what the next process would load.
LEMMA EndCommitStep ==
  ASSUME IInv, End_Commit
  PROVE  IInv'
<1>1. /\ phase = "second" /\ todo = {}
      /\ prevFreeBlock' = Min({prevFreeBlock} \cup reservedBlocks)
      /\ reservedBlocks' = 0 .. LastIndex(sections) \ freeBlocks
      /\ phase' = "none"
      /\ UNCHANGED <<sections, primary, secondary, table, dirty, freeHandles, freeBlocks,
                     prevFreeHandle, writing, todo, called, rule, written>>
  BY DEF End_Commit, file
<1>2. TypeOK /\ Owned /\ Agreement /\ Recoverable
  BY DEF IInv, Ranged, Partitioned
<1>3. called /\ primary = table /\ dirty = {}
  BY <1>1, <1>2 DEF Agreement
<1>4. secondary = table
  <2>1. \A s \in 1 .. sections : \A h \in Usable(s) : secondary[h] = table[h]
    BY <1>2, <1>3 DEF Agreement
  <2>2. secondary \in Tables(sections) /\ table \in Tables(sections) /\ sections \in Nat
    BY <1>2 DEF TypeOK
  <2>3. QED
    BY <2>1, <2>2, EqualTables
<1>5. Active' = Active /\ Ranged' /\ Partitioned'
  BY CommitKeeps DEF IInv, Commit_Step
<1>6. Agreement'
  BY <1>1, <1>3, <1>4 DEF Agreement, AgreeIn
<1>7. Recoverable'
  <2>1. Stored = table /\ Stored' = table
    BY <1>1, <1>3 DEF Stored, Tables_Of, Documented_Rule
  <2>2. \A h \in AllHandles : table[h] \subseteq 0 .. LastIndex(sections)
    BY <1>2, NumbersInRange DEF TypeOK, Tables
  <2>3. \A h \in AllHandles : table[h] \subseteq reservedBlocks'
    BY <1>1, <1>2, <2>2 DEF Owned
  <2>4. QED
    BY <1>1, <1>2, <1>5, <2>1, <2>3 DEF Recoverable, Disjoint
<1>8. QED
  BY <1>5, <1>6, <1>7 DEF IInv

\* Whoever loads the headers of a rule has a file in range, and one without
\* shared blocks if the tables loaded have none.
LEMMA LoadKeeps ==
  ASSUME Ranged, NEW t \in Tables(sections), LoadSections(t),
         UNCHANGED <<sections, primary, secondary, called, written>>,
         writing' = [w \in Writers |-> Idle], phase' = "none", todo' = {},
         rule' \in {"Primary", "Secondary"}
  PROVE  Active' = {} /\ Ranged' /\ (Disjoint(t) => Partitioned')
<1>1. /\ table' = t
      /\ dirty' = {s \in 1 .. sections : Section_Of(primary, s) # Section_Of(secondary, s)}
      /\ freeHandles' = {h \in Numbers(sections) : t[h] = NoBlocks}
      /\ reservedBlocks' = Headers(sections) \cup Blocks_Of(t)
      /\ freeBlocks' = 0 .. LastIndex(sections) \ reservedBlocks'
      /\ prevFreeHandle' = 0 /\ prevFreeBlock' = 0 /\ leaked' = {}
  BY DEF LoadSections
<1>2. TypeOK
  BY DEF Ranged
<1>3. Active' = {}
  BY DEF Active
<1>4. /\ Blocks_Of(t) \subseteq Numbers(sections)
      /\ Numbers(sections) = 0 .. LastIndex(sections) \ Headers(sections)
      /\ LastIndex(sections) \in Nat /\ Headers(sections) \subseteq 0 .. LastIndex(sections)
  <2>1. sections \in Nat /\ sections >= 1
    BY <1>2 DEF TypeOK
  <2>2. Blocks_Of(t) \subseteq Numbers(sections)
    BY Blocks DEF Tables
  <2>3. Numbers(sections) = 0 .. LastIndex(sections) \ Headers(sections)
    BY <2>1, BetweenHeaders
  <2>4. LastIndex(sections) \in Nat /\ Headers(sections) \subseteq 0 .. LastIndex(sections)
    BY <2>1, HeadersInRange
  <2>5. QED
    BY <2>2, <2>3, <2>4
<1>5. freeBlocks' = Numbers(sections) \ Blocks_Of(t)
  BY <1>1, <1>4
<1>6. TypeOK'
  <2>1. table' \in Tables(sections) /\ dirty' \subseteq 1 .. sections /\ todo' \subseteq 1 .. sections
    BY <1>1
  <2>2. freeHandles' \subseteq Numbers(sections) /\ freeBlocks' \subseteq Numbers(sections)
    BY <1>1, <1>5
  <2>3. reservedBlocks' \subseteq 0 .. LastIndex(sections)
    BY <1>1, <1>4
  <2>4. prevFreeHandle' \in 0 .. LastIndex(sections) + 1 /\ prevFreeBlock' \in 0 .. LastIndex(sections)
    BY <1>1, <1>4
  <2>5. writing' \in [Writers -> {Idle} \cup Writings] /\ leaked' \subseteq Numbers(sections)
    BY <1>1
  <2>6. QED
    BY <1>2, <2>1, <2>2, <2>3, <2>4, <2>5 DEF TypeOK
<1>7. ASSUME Disjoint(t)
      PROVE  Owned'
  <2>1. \A h \in AllHandles : t[h] \cap freeBlocks' = {}
    BY <1>5, Blocks
  <2>2. \A b \in Numbers(sections) \ (freeBlocks' \cup leaked') : \E h \in AllHandles : b \in t[h]
    BY <1>5, Blocks
  <2>3. QED
    BY <1>1, <1>3, <1>7, <2>1, <2>2 DEF Owned, Disjoint
<1>8. Unshared' /\ InRange'
  BY <1>3 DEF Unshared, InRange
<1>9. Found'
  <2>1. Numbers(sections) \subseteq Nat
    BY <1>2, NumbersInRange DEF TypeOK
  <2>2. QED
    BY <1>1, <1>5, <2>1 DEF Found
<1>10. QED
  BY <1>3, <1>6, <1>7, <1>8, <1>9 DEF Ranged, Partitioned

\* The next process, and a rollback, find the file as the last commit left it.
LEMMA LoadStep ==
  ASSUME IInv, LoadSections(Stored), UNCHANGED <<sections, primary, secondary, called, written>>,
         writing' = [w \in Writers |-> Idle], phase' = "none", todo' = {},
         phase # "second", rule' \in {"Primary", "Secondary"},
         IF called THEN primary = secondary ELSE rule' = "Secondary"
  PROVE  IInv'
<1>1. /\ table' = Stored
      /\ dirty' = {s \in 1 .. sections : Section_Of(primary, s) # Section_Of(secondary, s)}
      /\ reservedBlocks' = Headers(sections) \cup Blocks_Of(Stored)
  BY DEF LoadSections
<1>2. TypeOK /\ Recoverable /\ Ranged
  BY DEF IInv, Ranged
<1>3. Stored' = Stored /\ Stored \in {primary, secondary} /\ Stored \in Tables(sections)
  BY <1>2 DEF TypeOK, Stored, Tables_Of, Documented_Rule
<1>4. Active' = {} /\ Ranged' /\ Partitioned'
  BY <1>2, <1>3, LoadKeeps DEF Recoverable
<1>5. Agreement'
  <2>1. \A s \in 1 .. sections \ dirty' : \A h \in Usable(s) : primary[h] = secondary[h]
    <3>1. SUFFICES ASSUME NEW s \in 1 .. sections \ dirty', NEW h \in Usable(s)
                   PROVE  primary[h] = secondary[h]
      OBVIOUS
    <3>2. Section_Of(primary, s) = Section_Of(secondary, s)
      BY <1>1
    <3>3. [g \in Usable(s) |-> primary[g]][h] = [g \in Usable(s) |-> secondary[g]][h]
      BY <3>2 DEF Section_Of
    <3>4. QED
      BY <3>3
  <2>2. \A s \in 1 .. sections \ dirty' : \A h \in Usable(s) : primary[h] = Stored[h] /\ secondary[h] = Stored[h]
    BY <1>3, <2>1
  <2>3. QED
    BY <1>1, <2>2 DEF Agreement, AgreeIn
<1>6. Recoverable'
  <2>1. \A h \in AllHandles : Stored[h] \subseteq reservedBlocks'
    BY <1>1, Blocks
  <2>2. QED
    BY <1>2, <1>3, <1>4, <2>1 DEF Recoverable, Disjoint
<1>7. QED
  BY <1>4, <1>5, <1>6 DEF IInv

\* Rollback and Die load the tables of one of the headers, whatever a commit
\* that threw has left in them.
LEMMA ReloadKeeps ==
  ASSUME Ranged, Rollback \/ Die
  PROVE  /\ Ranged' /\ UNCHANGED <<sections, primary, secondary>>
         /\ WholeHeaders => Partitioned'
<1>1. /\ primary \in Tables(sections) /\ secondary \in Tables(sections)
      /\ rule \in {"Primary", "Secondary"} /\ writing \in [Writers -> {Idle} \cup Writings]
      /\ phase = "none" => todo = {}
  BY DEF Ranged, TypeOK, InRange
<1>2. /\ writing' = [w \in Writers |-> Idle] /\ phase' = "none" /\ todo' = {}
      /\ UNCHANGED <<sections, primary, secondary, called, written>>
      /\ rule' \in {"Primary", "Secondary"}
  BY <1>1 DEF Rollback, Die, Quiet, Unlocked, Documented_Rule, file, commit
<1>3. PICK t \in {primary, secondary} : LoadSections(t)
  BY DEF Rollback, Die, Tables_Of
<1>4. t \in Tables(sections) /\ (WholeHeaders => Disjoint(t))
  BY <1>1 DEF WholeHeaders
<1>5. Ranged' /\ (Disjoint(t) => Partitioned')
  BY <1>2, <1>3, <1>4, LoadKeeps
<1>6. QED
  BY <1>2, <1>4, <1>5

\* The next process loads what is stored, by the rule its caller gives.
LEMMA DieStep ==
  ASSUME NoLoss, IInv, Die
  PROVE  IInv'
<1>1. /\ phase # "second" /\ rule' = Documented_Rule /\ LoadSections(Stored)
      /\ writing' = [w \in Writers |-> Idle] /\ phase' = "none" /\ todo' = {}
      /\ UNCHANGED <<sections, primary, secondary, called, written>>
  BY DEF NoLoss, Die, file, Stored
<1>2. IF called THEN primary = secondary ELSE rule' = "Secondary"
  BY <1>1 DEF IInv, Ranged, TypeOK, Agreement, Documented_Rule
<1>3. rule' \in {"Primary", "Secondary"}
  BY <1>1 DEF Documented_Rule
<1>4. QED
  BY <1>1, <1>2, <1>3, LoadStep

\* Rollback loads what is stored.
LEMMA RollbackStep ==
  ASSUME IInv, Rollback
  PROVE  IInv' /\ LoadSections(Stored)
<1>1. /\ phase = "none" /\ \A w \in Writers : writing[w] = Idle
      /\ LoadSections(Tables_Of(rule))
      /\ UNCHANGED <<sections, primary, secondary, data, writing, phase, todo, called, rule, written>>
  BY DEF Rollback, Quiet, Unlocked, file, commit
<1>2. IF called THEN primary = secondary ELSE rule = "Secondary"
  BY <1>1 DEF IInv, Agreement
<1>3. Tables_Of(rule) = Stored
  BY <1>2 DEF Tables_Of, Stored, Documented_Rule
<1>4. writing' = [w \in Writers |-> Idle]
  BY <1>1 DEF IInv, Ranged, TypeOK
<1>5. rule' \in {"Primary", "Secondary"} /\ todo' = {}
  BY <1>1 DEF IInv, Ranged, TypeOK, InRange
<1>6. QED
  BY <1>1, <1>2, <1>3, <1>4, <1>5, LoadStep

\* Clear leaves a file of one section without values.
LEMMA ClearStep ==
  ASSUME Ranged, Clear
  PROVE  Ranged' /\ Partitioned' /\ WholeHeaders' /\ (IInv => IInv')
<1>1. /\ phase = "none" /\ \A w \in Writers : writing[w] = Idle
      /\ sections' = 1 /\ primary' = EmptyTables /\ secondary' = EmptyTables
      /\ table' = EmptyTables /\ dirty' = {}
      /\ freeHandles' = Usable(1) /\ freeBlocks' = Usable(1) /\ reservedBlocks' = {}
      /\ prevFreeHandle' = 0 /\ prevFreeBlock' = 0 /\ leaked' = {}
      /\ UNCHANGED <<writing, phase, todo, called, rule, written>>
  BY DEF Clear, Quiet, Unlocked, commit
<1>2. writing' = [w \in Writers |-> Idle] /\ todo' = {}
  BY <1>1 DEF Ranged, TypeOK, InRange
<1>3. rule' \in {"Primary", "Secondary"} /\ called' \in BOOLEAN /\ written' \in Nat
  BY <1>1 DEF Ranged, TypeOK
<1>4. EmptyFile'
  BY <1>1, <1>2, <1>3 DEF EmptyFile
<1>5. (EmptyFile => /\ Ranged /\ Partitioned /\ WholeHeaders
                    /\ (called \/ rule = "Secondary") => IInv)'
  BY EmptyFileInvariant, PTL
<1>6. IInv => called' \/ rule' = "Secondary"
  BY <1>1 DEF IInv, Agreement
<1>7. QED
  BY <1>4, <1>5, <1>6

\* What stutters keeps the invariant.
LEMMA UnchangedStep ==
  ASSUME Ranged, UNCHANGED vars
  PROVE  Ranged' /\ (Partitioned => Partitioned') /\ (IInv => IInv')
<1>1. UNCHANGED <<sections, primary, secondary, table, dirty, freeHandles, freeBlocks, reservedBlocks,
                  prevFreeHandle, prevFreeBlock, leaked, writing, phase, todo, called, rule, written>>
  BY DEF vars, file, memory, commit
<1>2. TypeOK'
  BY <1>1 DEF Ranged, TypeOK
<1>3. Active' = Active /\ Ranged' /\ (Partitioned => Partitioned')
  BY <1>1, <1>2, MemoryKept DEF Ranged, InRange, Partitioned
<1>4. IInv => Agreement'
  BY <1>1 DEF IInv, Agreement, AgreeIn
<1>5. Stored' = Stored
  BY <1>1 DEF Stored, Tables_Of, Documented_Rule
<1>6. IInv => Recoverable'
  BY <1>1, <1>3, <1>5 DEF IInv, Recoverable, Disjoint
<1>7. QED
  BY <1>3, <1>4, <1>6 DEF IInv

\* Every step keeps the file in range, whatever throws and whenever the process
\* dies; no step but one that loads a header makes two owners of a block.
LEMMA NextRanged ==
  ASSUME Ranged, [Next]_vars
  PROVE  /\ Ranged'
         /\ Rollback \/ Die \/ (Partitioned => Partitioned')
<1>1. CASE UNCHANGED vars
  BY <1>1, UnchangedStep
<1>2. CASE Create
  BY <1>2, CreateStep
<1>3. ASSUME NEW w \in Writers, NEW h \in AllHandles, NEW n \in 1 .. MaxBlocks, TakeBlocks(w, h, n)
      PROVE  Ranged' /\ (Partitioned => Partitioned')
  BY <1>3, TakeBlocksStep
<1>4. ASSUME NEW w \in Writers, Write(w) \/ Write_Throws(w)
      PROVE  Ranged' /\ (Partitioned => Partitioned')
  BY <1>4, WriteStep, WriteThrowsStep
<1>5. ASSUME NEW h \in AllHandles, Delete(h)
      PROVE  Ranged' /\ (Partitioned => Partitioned')
  BY <1>5, DeleteStep
<1>6. CASE Commit_Step
  BY <1>6, CommitKeeps
<1>7. CASE Clear
  BY <1>7, ClearStep
<1>8. CASE Rollback \/ Die
  BY <1>8, ReloadKeeps
<1>9. QED
  BY <1>1, <1>2, <1>3, <1>4, <1>5, <1>6, <1>7, <1>8 DEF Next

\* In a file of one section a header that was written is the whole table of its
\* commit: what anybody loads has no shared blocks, whatever threw before.
LEMMA NextOneSection ==
  ASSUME MaxSections = 1, Ranged, Partitioned, WholeHeaders, [Next]_vars
  PROVE  Ranged' /\ Partitioned' /\ WholeHeaders'
<1>1. TypeOK /\ Disjoint(table) /\ sections = 1
  BY DEF Ranged, TypeOK, Partitioned, Owned
<1>2. \A t \in Tables(1) : todo # {} => With_Section(t, Min(todo)) = table
  <2>1. SUFFICES ASSUME NEW t \in Tables(1), todo # {}
                 PROVE  With_Section(t, Min(todo)) = table
    OBVIOUS
  <2>2. todo = {1} /\ todo \in SUBSET Nat
    <3>1. todo \subseteq {1}
      BY <1>1 DEF TypeOK
    <3>2. todo = {1}
      BY <2>1, <3>1
    <3>3. QED
      BY <3>2
  <2>3. Min(todo) = 1
    BY <2>2, MinIsLeast
  <2>4. /\ With_Section(t, 1) \in Tables(1) /\ table \in Tables(1)
        /\ \A s \in 1 .. 1 : \A h \in Usable(s) : With_Section(t, 1)[h] = table[h]
    BY <1>1, HeaderWritten DEF TypeOK
  <2>5. With_Section(t, 1) = table
    BY <2>4, EqualTables
  <2>6. QED
    BY <2>3, <2>5
<1>3. ASSUME ~ Clear
      PROVE  primary' \in {primary, table} /\ secondary' \in {secondary, table}
  <2>1. CASE Write_First_Header
    BY <1>1, <1>2, <2>1 DEF Write_First_Header, TypeOK
  <2>2. CASE Write_Last_Header
    BY <1>1, <1>2, <2>2 DEF Write_Last_Header, TypeOK
  <2>3. CASE UNCHANGED <<primary, secondary>>
    BY <2>3
  <2>4. QED
    BY <1>3, <2>1, <2>2, <2>3
       DEF Next, Create, TakeBlocks, Write, Write_Throws, Delete, Commit_Step, Begin_Commit, Stage_Commit, End_Commit,
           Commit_Throws, Rollback, Die, vars, file
<1>4. WholeHeaders'
  <2>1. CASE Clear
    BY <2>1, ClearStep
  <2>2. CASE ~ Clear
    BY <1>1, <1>3, <2>2 DEF WholeHeaders, Disjoint
  <2>3. QED
    BY <2>1, <2>2
<1>5. Partitioned'
  BY NextRanged, ReloadKeeps
<1>6. QED
  BY <1>4, <1>5, NextRanged

\* The steps of a process that loses nothing.
LEMMA Steps ==
  ASSUME NoLoss, IInv, Next
  PROVE  \/ Create
         \/ \E w \in Writers, h \in AllHandles, n \in 1 .. MaxBlocks : TakeBlocks(w, h, n)
         \/ \E w \in Writers : Write(w)
         \/ \E w \in Writers : Write_Throws(w)
         \/ \E h \in AllHandles : Delete(h)
         \/ Begin_Commit \/ Write_First_Header \/ Stage_Commit \/ Write_Last_Header \/ End_Commit
         \/ Rollback \/ Clear \/ Die
<1>1. ~ Commit_Throws
  BY DEF NoLoss, IInv, Ranged, TypeOK, Commit_Throws
<1>2. QED
  BY <1>1 DEF Next, Commit_Step

\* Each step keeps the invariant.
LEMMA NextIInv ==
  ASSUME NoLoss, IInv, [Next]_vars
  PROVE  IInv'
<1> USE DEF IInv
<1>1. CASE UNCHANGED vars
  BY <1>1, UnchangedStep
<1>2. CASE Next
  <2>1. CASE Create
    BY <2>1, CreateStep
  <2>2. ASSUME NEW w \in Writers, NEW h \in AllHandles, NEW n \in 1 .. MaxBlocks, TakeBlocks(w, h, n)
        PROVE  IInv'
    BY <2>2, TakeBlocksStep
  <2>3. ASSUME NEW w \in Writers, Write(w)
        PROVE  IInv'
    BY <2>3, WriteStep
  <2>4. ASSUME NEW h \in AllHandles, Delete(h)
        PROVE  IInv'
    BY <2>4, DeleteStep
  <2>5. CASE Begin_Commit
    BY <2>5, BeginCommitStep
  <2>6. CASE Write_First_Header
    BY <2>6, WriteFirstHeaderStep
  <2>7. CASE Stage_Commit
    BY <2>7, StageCommitStep
  <2>8. CASE Write_Last_Header
    BY <2>8, WriteLastHeaderStep
  <2>9. CASE End_Commit
    BY <2>9, EndCommitStep
  <2>10. CASE Rollback
    BY <2>10, RollbackStep
  <2>11. CASE Clear
    BY <2>11, ClearStep
  <2>12. CASE Die
    BY <2>12, DieStep
  <2>13. ASSUME NEW w \in Writers, Write_Throws(w)
         PROVE  IInv'
    BY <2>13, WriteThrowsStep
  <2>14. QED
    BY <1>2, <2>1, <2>2, <2>3, <2>4, <2>5, <2>6, <2>7, <2>8, <2>9, <2>10, <2>11, <2>12, <2>13, Steps
<1>3. QED
  BY <1>1, <1>2

\* The invariant holds in every state, as long as no write of a commit throws and no process dies after the delegate.
LEMMA Invariant ==
  ASSUME NoLoss
  PROVE  Spec => []IInv
<1>1. IInv /\ [Next]_vars => IInv'
  BY NextIInv
<1>2. QED
  BY InitIInv, <1>1, PTL DEF Spec

\* The searches of Create and TakeBlocks start early enough, whatever throws and
\* whenever the process dies: a file grows only when no run of its blocks is free.
THEOREM SearchesStartEarly == Spec => []SearchesMissNothing
<1>1. Init => Ranged
  BY InitIInv DEF IInv
<1>2. Ranged /\ [Next]_vars => Ranged'
  BY NextRanged
<1>3. Ranged => SearchesMissNothing
  BY FoundSuffices
<1>4. QED
  BY <1>1, <1>2, <1>3, PTL DEF Spec

\* No block has two owners, and none is lost but those of a Write that threw,
\* whatever the threads in Write do between its two halves: in a file of one
\* section whichever data or header cannot be written and whenever the process
\* dies, in a larger one as long as the process is spared.
THEOREM PartitionedAlways ==
  ASSUME NoLoss \/ MaxSections = 1
  PROVE  Spec => []BlocksPartitioned
<1>1. CASE NoLoss
  <2>1. Spec => []IInv
    BY <1>1, Invariant
  <2>2. IInv => BlocksPartitioned
    BY PartitionSuffices DEF IInv
  <2>3. QED
    BY <2>1, <2>2, PTL
<1>2. CASE MaxSections = 1
  <2>1. Init => Ranged /\ Partitioned /\ WholeHeaders
    BY InitIInv DEF IInv
  <2>2. Ranged /\ Partitioned /\ WholeHeaders /\ [Next]_vars => Ranged' /\ Partitioned' /\ WholeHeaders'
    BY <1>2, NextOneSection
  <2>3. Ranged /\ Partitioned => BlocksPartitioned
    BY PartitionSuffices
  <2>4. QED
    BY <2>1, <2>2, <2>3, PTL DEF Spec
<1>3. QED
  BY <1>1, <1>2

\* The blocks of what the next process would load are overwritten by nobody,
\* also those that are free in memory.
THEOREM NothingOverwritten ==
  ASSUME NoLoss
  PROVE  Spec => []RecoverableReserved
<1>1. Spec => []IInv
  BY Invariant
<1>2. IInv => RecoverableReserved
  BY RecoverableSuffices
<1>3. QED
  BY <1>1, <1>2, PTL

-----------------------------------------------------------------------------
\* Atomicity

\* Read, of the blocks given.
Value_At(contents, blocks) ==
  IF blocks = NoBlocks THEN Empty
  ELSE LET written_there == {contents[b] : b \in blocks} IN
       IF \E d \in written_there : written_there = {d} /\ d.blocks = blocks
       THEN (CHOOSE d \in written_there : TRUE).value
       ELSE Broken

\* The values of a table, by the contents of their blocks.
LEMMA ValueAt == ASSUME NEW t PROVE Values_In(t) = [h \in AllHandles |-> Value_At(data, t[h])]
  BY DEF Values_In, Value_In, Value_At

\* A value none of whose blocks changed is the same.
LEMMA ValueKept ==
  ASSUME NEW contents, NEW others, NEW blocks, \A b \in blocks : contents[b] = others[b]
  PROVE  Value_At(contents, blocks) = Value_At(others, blocks)
<1>1. {contents[b] : b \in blocks} = {others[b] : b \in blocks}
  OBVIOUS
<1>2. QED
  BY <1>1 DEF Value_At

\* Blocks that were written together hold the value they were written with.
LEMMA ValueWritten ==
  ASSUME NEW contents, NEW blocks, NEW v, blocks # {},
         \A b \in blocks : contents[b] = [value |-> v, blocks |-> blocks]
  PROVE  Value_At(contents, blocks) = v
<1> DEFINE d == [value |-> v, blocks |-> blocks]
<1>1. {contents[b] : b \in blocks} = {d}
  OBVIOUS
<1>2. d.blocks = blocks /\ d.value = v
  OBVIOUS
<1> HIDE DEF d
<1>3. (CHOOSE x \in {d} : TRUE) = d
  OBVIOUS
<1>4. QED
  BY <1>1, <1>2, <1>3 DEF Value_At, NoBlocks

\* The steps that change neither what the process sees nor what is stored.
LEMMA NothingSeen ==
  ASSUME IInv,
         \/ Create \/ \E w \in Writers, h \in AllHandles, n \in 1 .. MaxBlocks : TakeBlocks(w, h, n)
         \/ Begin_Commit \/ Write_First_Header \/ Write_Last_Header \/ End_Commit
         \/ UNCHANGED vars
  PROVE  Values_In(table)' = Values_In(table) /\ Values_In(Stored)' = Values_In(Stored)
<1>1. UNCHANGED <<table, data>>
  BY DEF Create, TakeBlocks, Begin_Commit, Write_First_Header, Write_Last_Header, End_Commit,
         vars, file, memory
<1>2. Stored' = Stored
  <2>1. CASE UNCHANGED <<primary, secondary, called>>
    BY <2>1 DEF Stored, Tables_Of, Documented_Rule
  <2>2. CASE Begin_Commit
    BY <2>2 DEF IInv, Agreement, Begin_Commit, Unlocked, file, Stored, Tables_Of, Documented_Rule
  <2>3. CASE Write_First_Header
    BY <2>3 DEF IInv, Agreement, Write_First_Header, Stored, Tables_Of, Documented_Rule
  <2>4. CASE Write_Last_Header
    BY <2>4 DEF IInv, Agreement, Write_Last_Header, Stored, Tables_Of, Documented_Rule
  <2>5. QED
    BY <2>1, <2>2, <2>3, <2>4 DEF Create, TakeBlocks, End_Commit, vars, file, commit
<1>3. QED
  BY <1>1, <1>2 DEF Values_In, Value_In

\* Write changes one value in memory and nothing of what is stored.
LEMMA WriteSeen ==
  ASSUME IInv, NEW w \in Writers, Write(w)
  PROVE  /\ \E h \in AllHandles, v \in Values : Values_In(table)' = [Values_In(table) EXCEPT ![h] = v]
         /\ Values_In(Stored)' = Values_In(Stored)
<1> DEFINE handle == writing[w].handle
           blocks == writing[w].blocks
           new == [value |-> written', blocks |-> blocks]
<1>1. /\ w \in Active /\ written < MaxWrites /\ written' = written + 1
      /\ data' = [b \in AllHandles |-> IF b \in blocks THEN new ELSE data[b]]
      /\ table' = [table EXCEPT ![handle] = blocks]
      /\ UNCHANGED <<primary, secondary, called>>
  BY DEF Write, Active, commit
<1>2. TypeOK /\ InRange /\ Owned /\ Recoverable
  BY DEF IInv, Ranged, Partitioned
<1>3. /\ handle \in AllHandles /\ blocks # {} /\ blocks \subseteq AllHandles
      /\ table \in [AllHandles -> SUBSET AllHandles] /\ Stored \in [AllHandles -> SUBSET AllHandles]
  <2>1. Numbers(sections) \subseteq AllHandles
    BY <1>2, Growth DEF TypeOK
  <2>2. QED
    BY <1>1, <1>2, <2>1 DEF InRange, TypeOK, Tables, Stored, Tables_Of
<1>4. Stored' = Stored
  BY <1>1 DEF Stored, Tables_Of, Documented_Rule
<1>5. written' \in Values
  BY <1>1, <1>2, BoundsAssumption DEF Values, TypeOK
<1>6. \A b \in AllHandles \ blocks : data'[b] = data[b]
  BY <1>1
<1>7. \A b \in blocks : data'[b] = new
  BY <1>1, <1>3
<1>8. \A h \in AllHandles : Value_At(data', Stored[h]) = Value_At(data, Stored[h])
  <2>1. SUFFICES ASSUME NEW h \in AllHandles
                 PROVE  Value_At(data', Stored[h]) = Value_At(data, Stored[h])
    OBVIOUS
  <2>2. Stored[h] \subseteq AllHandles \ blocks
    BY <1>1, <1>2, <1>3 DEF Recoverable
  <2>3. \A b \in Stored[h] : data'[b] = data[b]
    BY <1>6, <2>2
  <2>4. QED
    BY <2>3, ValueKept
<1>9. \A h \in AllHandles : h # handle => Value_At(data', table'[h]) = Value_At(data, table[h])
  <2>1. SUFFICES ASSUME NEW h \in AllHandles, h # handle
                 PROVE  Value_At(data', table'[h]) = Value_At(data, table[h])
    OBVIOUS
  <2>2. table'[h] = table[h] /\ table[h] \subseteq AllHandles \ blocks
    BY <1>1, <1>2, <1>3, <2>1 DEF Owned
  <2>3. \A b \in table[h] : data'[b] = data[b]
    BY <1>6, <2>2
  <2>4. QED
    BY <2>2, <2>3, ValueKept
<1>10. Value_At(data', table'[handle]) = written'
  <2>1. table'[handle] = blocks
    BY <1>1, <1>3
  <2>2. QED
    BY <1>3, <1>7, <2>1, ValueWritten
<1>11. /\ Values_In(table)' = [h \in AllHandles |-> Value_At(data', table'[h])]
       /\ Values_In(Stored)' = [h \in AllHandles |-> Value_At(data', Stored'[h])]
       /\ Values_In(table) = [h \in AllHandles |-> Value_At(data, table[h])]
       /\ Values_In(Stored) = [h \in AllHandles |-> Value_At(data, Stored[h])]
  BY DEF Values_In, Value_In, Value_At
<1>12. Values_In(table)' = [Values_In(table) EXCEPT ![handle] = written']
  BY <1>3, <1>9, <1>10, <1>11
<1>13. Values_In(Stored)' = Values_In(Stored)
  BY <1>4, <1>8, <1>11
<1>14. QED
  BY <1>3, <1>5, <1>12, <1>13

\* A Write that throws overwrites blocks that are in no table, neither in memory
\* nor in what is stored.
LEMMA WriteThrowsSeen ==
  ASSUME IInv, NEW w \in Writers, Write_Throws(w)
  PROVE  Values_In(table)' = Values_In(table) /\ Values_In(Stored)' = Values_In(Stored)
<1>1. PICK torn \in SUBSET writing[w].blocks :
        data' = [b \in AllHandles |-> IF b \in torn THEN [value |-> Broken, blocks |-> NoBlocks] ELSE data[b]]
  BY DEF Write_Throws
<1>2. w \in Active /\ UNCHANGED <<table, primary, secondary, called>>
  BY DEF Write_Throws, Active, commit
<1>3. TypeOK /\ Owned /\ Recoverable
  BY DEF IInv, Ranged, Partitioned
<1>4. Stored' = Stored
  BY <1>2 DEF Stored, Tables_Of, Documented_Rule
<1>5. Numbers(sections) \subseteq AllHandles
  BY <1>3, Growth DEF TypeOK
<1>6. \A h \in AllHandles : /\ table[h] \subseteq AllHandles \ torn
                           /\ Stored[h] \subseteq AllHandles \ torn
  <2>1. table \in Tables(sections) /\ Stored \in Tables(sections)
    BY <1>3 DEF TypeOK, Stored, Tables_Of
  <2>2. \A h \in AllHandles : table[h] \subseteq AllHandles /\ Stored[h] \subseteq AllHandles
    BY <1>5, <2>1 DEF Tables
  <2>3. \A h \in AllHandles : torn \cap table[h] = {} /\ torn \cap Stored[h] = {}
    BY <1>1, <1>2, <1>3 DEF Owned, Recoverable
  <2>4. QED
    BY <2>2, <2>3
<1>7. \A b \in AllHandles \ torn : data'[b] = data[b]
  BY <1>1
<1>8. \A h \in AllHandles : /\ Value_At(data', table[h]) = Value_At(data, table[h])
                           /\ Value_At(data', Stored[h]) = Value_At(data, Stored[h])
  <2>1. SUFFICES ASSUME NEW h \in AllHandles
                 PROVE  /\ Value_At(data', table[h]) = Value_At(data, table[h])
                        /\ Value_At(data', Stored[h]) = Value_At(data, Stored[h])
    OBVIOUS
  <2>2. \A b \in table[h] : data'[b] = data[b]
    BY <1>6, <1>7
  <2>3. \A b \in Stored[h] : data'[b] = data[b]
    BY <1>6, <1>7
  <2>4. QED
    BY <2>2, <2>3, ValueKept
<1>9. /\ Values_In(table)' = [h \in AllHandles |-> Value_At(data', table'[h])]
      /\ Values_In(Stored)' = [h \in AllHandles |-> Value_At(data', Stored'[h])]
      /\ Values_In(table) = [h \in AllHandles |-> Value_At(data, table[h])]
      /\ Values_In(Stored) = [h \in AllHandles |-> Value_At(data, Stored[h])]
  BY DEF Values_In, Value_In, Value_At
<1>10. QED
  BY <1>2, <1>4, <1>8, <1>9

\* Delete empties one value in memory and changes nothing of what is stored.
LEMMA DeleteSeen ==
  ASSUME IInv, NEW handle \in AllHandles, Delete(handle)
  PROVE  /\ Values_In(table)' = [Values_In(table) EXCEPT ![handle] = Empty]
         /\ Values_In(Stored)' = Values_In(Stored)
<1>1. table' = [table EXCEPT ![handle] = NoBlocks] /\ UNCHANGED <<primary, secondary, data, called>>
  BY DEF Delete, file, commit
<1>2. table \in [AllHandles -> SUBSET Numbers(sections)]
  BY DEF IInv, Ranged, TypeOK, Tables
<1>3. Stored' = Stored
  BY <1>1 DEF Stored, Tables_Of, Documented_Rule
<1>4. /\ Values_In(table)' = [h \in AllHandles |-> Value_At(data, table'[h])]
      /\ Values_In(table) = [h \in AllHandles |-> Value_At(data, table[h])]
  BY <1>1 DEF Values_In, Value_In, Value_At
<1>5. Value_At(data, table'[handle]) = Empty
  BY <1>1, <1>2 DEF Value_At
<1>6. Values_In(table)' = [Values_In(table) EXCEPT ![handle] = Empty]
  BY <1>1, <1>2, <1>4, <1>5
<1>7. Values_In(Stored)' = Values_In(Stored)
  BY <1>1, <1>3 DEF Values_In, Value_In
<1>8. QED
  BY <1>6, <1>7

\* A commit stores everything at once, when it calls its delegate.
LEMMA StageCommitSeen ==
  ASSUME IInv, Stage_Commit
  PROVE  Values_In(table)' = Values_In(table) /\ Values_In(Stored)' = Values_In(table)
<1>1. primary = table /\ called' /\ UNCHANGED <<primary, table, data>>
  BY StageCommitStep DEF Stage_Commit, file, memory
<1>2. Stored' = table
  BY <1>1 DEF Stored, Tables_Of, Documented_Rule
<1>3. QED
  BY <1>1, <1>2 DEF Values_In, Value_In

\* Whoever loads the file sees what it has stored, and stores nothing.
LEMMA LoadSeen ==
  ASSUME LoadSections(Stored), UNCHANGED <<primary, secondary, data, called>>
  PROVE  Values_In(table)' = Values_In(Stored) /\ Values_In(Stored)' = Values_In(Stored)
<1>1. table' = Stored /\ Stored' = Stored
  BY DEF LoadSections, Stored, Tables_Of, Documented_Rule
<1>2. QED
  BY <1>1 DEF Values_In, Value_In

\* Clear empties every value, in memory and in what is stored.
LEMMA ClearSeen ==
  ASSUME Clear
  PROVE  /\ Values_In(table)' = [h \in AllHandles |-> Empty]
         /\ Values_In(Stored)' = [h \in AllHandles |-> Empty]
<1>1. table' = EmptyTables /\ Stored' = EmptyTables
  BY DEF Clear, Stored, Tables_Of
<1>2. QED
  BY <1>1 DEF Values_In, Value_In, EmptyTables

\* What would be loaded changes when a commit calls its delegate, and with
\* Clear: a death at any other time, between the headers of two sections or
\* between the data and the tables, brings the last commit back.
THEOREM StoredByCommit ==
  ASSUME NoLoss
  PROVE  Spec => StoredByCommitOnly
<1>1. ASSUME IInv, [Next]_vars
      PROVE  [Stage_Commit \/ Clear \/ UNCHANGED Values_In(Tables_Of(Documented_Rule))]_vars
  <2>1. SUFFICES ASSUME Next, ~ Stage_Commit, ~ Clear
                 PROVE  Values_In(Stored)' = Values_In(Stored)
    BY <1>1 DEF Stored
  <2>2. ASSUME NEW w \in Writers, Write(w)
        PROVE  Values_In(Stored)' = Values_In(Stored)
    BY <1>1, <2>2, WriteSeen
  <2>3. ASSUME NEW h \in AllHandles, Delete(h)
        PROVE  Values_In(Stored)' = Values_In(Stored)
    BY <1>1, <2>3, DeleteSeen
  <2>4. CASE Rollback
    BY <1>1, <2>4, RollbackStep, LoadSeen DEF Rollback, file, commit
  <2>5. CASE Die
    BY <2>5, LoadSeen DEF Die, file, Stored
  <2>6. ASSUME NEW w \in Writers, Write_Throws(w)
        PROVE  Values_In(Stored)' = Values_In(Stored)
    BY <1>1, <2>6, WriteThrowsSeen
  <2>7. QED
    BY <1>1, <2>1, <2>2, <2>3, <2>4, <2>5, <2>6, Steps, NothingSeen
<1>2. QED
  BY <1>1, Invariant, PTL DEF Spec, StoredByCommitOnly

\* The file is atomic: its steps are those of AtomicFile, or change nothing of
\* what that module speaks of.
THEOREM FileIsAtomic ==
  ASSUME NoLoss
  PROVE  Spec => ImplementsAtomicFile
<1>1. Init => Atomic!Init
  BY DEF Init, Atomic!Init, Atomic!NoValues, Values_In, Value_In, Tables_Of, EmptyTables
<1>2. ASSUME IInv, [Next]_vars
      PROVE  [Atomic!Next]_(Atomic!vars)
  <2> DEFINE current == Values_In(table)
             durable == Values_In(Stored)
  <2>1. CASE current' = current /\ durable' = durable
    BY <2>1 DEF Atomic!vars, Stored
  <2>2. ASSUME NEW w \in Writers, Write(w)
        PROVE  Atomic!Next
    BY <1>2, <2>2, WriteSeen DEF Atomic!Next, Atomic!Write, Stored
  <2>3. ASSUME NEW h \in AllHandles, Delete(h)
        PROVE  Atomic!Next
    BY <1>2, <2>3, DeleteSeen DEF Atomic!Next, Atomic!Delete, Atomic!Write, Stored
  <2>4. CASE Stage_Commit
    BY <1>2, <2>4, StageCommitSeen DEF Atomic!Next, Atomic!Commit, Stored
  <2>5. CASE Rollback
    <3>1. current' = durable /\ durable' = durable
      BY <1>2, <2>5, RollbackStep, LoadSeen DEF Rollback, file, commit
    <3>2. QED
      BY <3>1 DEF Atomic!Next, Atomic!Restore, Stored
  <2>6. CASE Die
    <3>1. current' = durable /\ durable' = durable
      BY <2>6, LoadSeen DEF Die, file, Stored
    <3>2. QED
      BY <3>1 DEF Atomic!Next, Atomic!Restore, Stored
  <2>7. CASE Clear
    BY <2>7, ClearSeen DEF Atomic!Next, Atomic!Clear, Atomic!NoValues, Stored
  <2>8. ASSUME NEW w \in Writers, Write_Throws(w)
        PROVE  current' = current /\ durable' = durable
    BY <1>2, <2>8, WriteThrowsSeen
  <2>9. QED
    BY <1>2, <2>1, <2>2, <2>3, <2>4, <2>5, <2>6, <2>7, <2>8, Steps, NothingSeen
<1>3. QED
  BY <1>1, <1>2, Invariant, PTL DEF Spec, ImplementsAtomicFile, Atomic!Spec
=============================================================================
