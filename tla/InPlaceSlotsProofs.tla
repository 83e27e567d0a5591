------------------------ MODULE InPlaceSlotsProofs ------------------------
(***************************************************************************)
(* A slot of the older tree has one owner, RollBack loses none, and the    *)
(* tree on file stays whole, for every size of the file and any number of  *)
(* transactions and processes, as long as nobody commits an operation one  *)
(* of whose writes threw.                                                  *)
(***************************************************************************)
EXTENDS InPlaceSlots, FiniteSetTheorems, TLAPS

\* The lists have slots of this process only, and so has the tree, whose nodes
\* are written, until a write throws.  What lies beyond the committed pointer was
\* taken from no queue.
Ranges ==
  /\ pointer <= length + 1 /\ (failed = 0 => pointer = length + 1)
  /\ \A s \in Slots : ~ (first <= s /\ s < pointer) =>
       empty[s] = 0 /\ reserved[s] = 0 /\ (failed = 0 => freed[s] = 0 /\ s \notin root)
  /\ \A s \in Slots : s >= committedPointer => empty[s] = 0 /\ reserved[s] = 0 /\ header[s] = 0
  /\ failed = 0 => \A s \in root : index[s] > 0
  /\ root = NoRoot => pointer = committedPointer /\ failed = 0 /\ reserved = Nothing

\* What RollBack goes back to: a committed slot belongs to the tree the stream
\* has the address of, or it is empty, or it was until this transaction.
InHeader(s) == IF header[s] > 0 THEN 1 ELSE 0
Committed ==
  \A s \in Slots : first <= s /\ s < committedPointer => InHeader(s) + empty[s] + reserved[s] = 1

Owned ==
  root # NoRoot /\ failed = 0 =>
    \A s \in Slots : first <= s /\ s < pointer => InUse(s) + empty[s] + freed[s] = 1

\* Both trees: the one the stream has the address of and the one on file.
Intact ==
  \A s \in Slots : /\ header[s] > 0 => index[s] = header[s] /\ s <= length
                   /\ stored[s] > 0 => index[s] = stored[s] /\ s <= length

\* What holds until an operation that failed is committed.
Sound == Ranges /\ Committed /\ Owned /\ Intact
IInv == TypeOK /\ (careless \/ Sound)

\* The types as numbers.
LEMMA Numbers ==
  ASSUME TypeOK
  PROVE  /\ MaxSlots \in Nat /\ Slots \subseteq Nat /\ \A s \in Slots : 1 <= s /\ s <= MaxSlots
         /\ \A s \in Nat : 1 <= s /\ s <= MaxSlots => s \in Slots
         /\ first \in Nat /\ first >= 1 /\ pointer \in Nat /\ first <= pointer /\ pointer <= MaxSlots + 1
         /\ committedPointer \in Nat /\ first <= committedPointer /\ committedPointer <= pointer
         /\ length \in Nat /\ length <= MaxSlots
         /\ transaction \in Nat /\ transaction >= 1 /\ failed \in Nat
         /\ \A s \in Slots : /\ empty[s] \in Nat /\ reserved[s] \in Nat /\ freed[s] \in Nat
                              /\ index[s] \in Nat /\ header[s] \in Nat /\ stored[s] \in Nat
  BY BoundsAssumption DEF TypeOK, Slots, Lists

\* A new tree has its root in the first slot, and its lists are empty.
LEMMA InitIInv == Init => IInv
<1> SUFFICES ASSUME Init PROVE IInv
  OBVIOUS
<1> USE BoundsAssumption
<1>1. TypeOK
  <2>1. Nothing \in [Slots -> 0 .. MaxTransactions] /\ Nothing \in Lists
    BY DEF Nothing, Lists
  <2>2. Once({1}) \in [Slots -> 0 .. MaxTransactions]
    BY DEF Once
  <2>3. 1 \in Slots /\ {1} \in SUBSET Slots
    BY DEF Slots
  <2>4. 2 \in 1 .. MaxSlots + 1 /\ 1 \in 1 .. 2 /\ 1 \in 0 .. MaxSlots
    OBVIOUS
  <2>5. QED
    <3>1. index \in [Slots -> 0 .. MaxTransactions] /\ root \in SUBSET Slots
      BY <2>2, <2>3 DEF Init
    <3>2. /\ stored \in [Slots -> 0 .. MaxTransactions] /\ header \in [Slots -> 0 .. MaxTransactions]
          /\ empty \in Lists /\ reserved \in Lists /\ freed \in Lists
      BY <2>1 DEF Init
    <3>3. /\ length \in 0 .. MaxSlots
          /\ first \in Slots /\ pointer \in first .. MaxSlots + 1 /\ committedPointer \in first .. pointer
          /\ transaction \in 1 .. MaxTransactions /\ failed \in Nat /\ careless \in BOOLEAN
          /\ opens \in 1 .. MaxOpens
      <4>1. /\ length = 1 /\ first = 1 /\ pointer = 2 /\ committedPointer = 1
            /\ transaction = 1 /\ failed = 0 /\ careless = FALSE /\ opens = 1
        BY DEF Init
      <4>2. 1 \in 1 .. MaxTransactions /\ 1 \in 1 .. MaxOpens
        OBVIOUS
      <4>3. QED
        BY <2>3, <2>4, <4>1, <4>2
    <3>4. QED
      BY <3>1, <3>2, <3>3 DEF TypeOK
<1>2. Ranges
  <2>1. /\ length = 1 /\ pointer = 2 /\ first = 1 /\ committedPointer = 1
        /\ root = {1} /\ root # NoRoot /\ 1 \in Slots /\ index[1] = 1
    BY DEF Init, Once, Slots, NoRoot
  <2>2. \A s \in Slots : empty[s] = 0 /\ reserved[s] = 0 /\ freed[s] = 0 /\ header[s] = 0
    BY DEF Init, Nothing
  <2>3. \A s \in Slots : s \in Nat /\ s >= 1
    BY DEF Slots
  <2>4. QED
    BY <2>1, <2>2, <2>3 DEF Ranges
<1>3. Committed /\ Owned /\ Intact
  BY DEF Init, Committed, Owned, Intact, InUse, InHeader, Slots, Nothing, Once
<1>4. QED
  BY <1>1, <1>2, <1>3 DEF IInv, Sound

\* The slots of an allocation: empty ones, and those at the end of the file.
LEMMA TakenTypes ==
  ASSUME TypeOK, NEW taken \in SUBSET Members(empty), NEW end \in pointer .. MaxSlots + 1
  PROVE  /\ end \in Nat /\ end >= pointer /\ end <= MaxSlots + 1
         /\ taken \subseteq Slots /\ Taken(taken, end) \subseteq Slots
         /\ \A s \in taken : empty[s] > 0
         /\ Extended(end) \in 0 .. MaxSlots /\ length <= Extended(end) /\ end <= Extended(end) + 1
<1>1. end \in Nat /\ end >= pointer /\ end <= MaxSlots + 1 /\ end >= 1
  BY Numbers
<1>2. taken \subseteq Slots /\ \A s \in taken : empty[s] > 0
  BY DEF Members
<1>3. \A s \in pointer .. end - 1 : s \in Slots
  BY <1>1, Numbers
<1>4. Extended(end) \in 0 .. MaxSlots /\ length <= Extended(end) /\ end <= Extended(end) + 1
  BY <1>1, Numbers DEF Extended
<1>5. QED
  BY <1>1, <1>2, <1>3, <1>4 DEF Taken

\* None of them is in the tree that RollBack goes back to.
LEMMA TakenSlots ==
  ASSUME TypeOK, Sound, NEW taken \in SUBSET Members(empty), NEW end \in pointer .. MaxSlots + 1
  PROVE  /\ end \in Nat /\ end >= pointer /\ end <= MaxSlots + 1
         /\ taken \subseteq Slots /\ Taken(taken, end) \subseteq Slots
         /\ \A s \in taken : /\ empty[s] > 0 /\ header[s] = 0
                             /\ first <= s /\ s < committedPointer /\ s < pointer
         /\ \A s \in Taken(taken, end) : first <= s /\ s < end /\ header[s] = 0
<1>1. TypeOK /\ Ranges /\ Committed
  BY DEF Sound
<1>2. taken \subseteq Slots /\ \A s \in taken : empty[s] > 0
  BY DEF Members
<1>3. end \in Nat /\ end >= pointer /\ end <= MaxSlots + 1
  BY <1>1, Numbers
<1>4. \A s \in taken : first <= s /\ s < pointer
  <2>1. \A s \in Slots : empty[s] # 0 => first <= s /\ s < pointer
    BY <1>1 DEF Ranges
  <2>2. QED
    BY <1>1, <1>2, <2>1, Numbers
<1>5. \A s \in taken : s < committedPointer
  <2>1. \A s \in Slots : s >= committedPointer => empty[s] = 0
    BY <1>1 DEF Ranges
  <2>2. QED
    BY <1>1, <1>2, <2>1, Numbers
<1>6. \A s \in taken : header[s] = 0
  BY <1>1, <1>2, <1>4, <1>5, Numbers DEF Committed, InHeader
<1>7. \A s \in pointer .. end - 1 : s \in Slots /\ first <= s /\ s < end /\ s >= committedPointer
  BY <1>1, <1>3, Numbers
<1>8. \A s \in pointer .. end - 1 : header[s] = 0
  <2>1. \A s \in Slots : s >= committedPointer => header[s] = 0
    BY <1>1 DEF Ranges
  <2>2. QED
    BY <1>7, <2>1
<1>9. \A s \in taken : s < end
  BY <1>1, <1>2, <1>3, <1>4, Numbers
<1>10. QED
  BY <1>2, <1>3, <1>4, <1>5, <1>6, <1>7, <1>8, <1>9 DEF Taken

\* An operation whose writes all succeed.
LEMMA RewriteKeeps ==
  ASSUME IInv, NEW path \in SUBSET root, path # {},
         NEW created \in 0 .. MaxCreated, Rewrite(path, created)
  PROVE  IInv'
<1>1. TypeOK
  BY DEF IInv
<1>2. PICK taken \in SUBSET Members(empty), end \in pointer .. MaxSlots + 1 :
        /\ Allocates(taken, end, Cardinality(path) + created)
        /\ index' = Written(Taken(taken, end))
        /\ length' = Extended(end) /\ pointer' = end
        /\ root' = (root \ path) \cup Taken(taken, end)
        /\ Lists_After(taken, path)
  BY DEF Rewrite
<1>3. /\ root # NoRoot /\ stored' = header
      /\ failed' = (IF failed = 0 THEN 0 ELSE failed + 1)
      /\ UNCHANGED <<header, first, committedPointer, transaction, careless, opens>>
  BY DEF Rewrite, Goes_On
<1> DEFINE S == Taken(taken, end)
<1>4. /\ end \in Nat /\ end >= pointer /\ end <= MaxSlots + 1
      /\ taken \subseteq Slots /\ S \subseteq Slots /\ \A s \in taken : empty[s] > 0
      /\ Extended(end) \in 0 .. MaxSlots /\ length <= Extended(end) /\ end <= Extended(end) + 1
  BY <1>1, TakenTypes
<1>5. \A s \in Slots : /\ index'[s] = IF s \in S THEN transaction ELSE index[s]
                       /\ empty'[s] = IF s \in taken THEN empty[s] - 1 ELSE empty[s]
                       /\ reserved'[s] = reserved[s] + (IF s \in taken THEN 1 ELSE 0)
                       /\ freed'[s] = freed[s] + (IF s \in path THEN 1 ELSE 0)
  BY <1>2 DEF Written, Lists_After, With, Without, Once
<1>6. \A s \in Slots : s \in S <=> s \in taken \/ (pointer <= s /\ s < end)
  BY <1>1, <1>4, Numbers DEF Taken
<1>7. root \in SUBSET Slots /\ root' \subseteq Slots
  BY <1>1, <1>2, <1>4 DEF TypeOK
<1>8. TypeOK'
  <2>1. /\ index' \in [Slots -> 0 .. MaxTransactions] /\ empty' \in Lists
        /\ reserved' \in Lists /\ freed' \in Lists
    <3>1. index' \in [Slots -> 0 .. MaxTransactions]
      BY <1>1, <1>2, Numbers, BoundsAssumption DEF Written, TypeOK
    <3>2. /\ \A s \in Slots : empty'[s] \in Nat /\ reserved'[s] \in Nat /\ freed'[s] \in Nat
      BY <1>1, <1>4, <1>5, Numbers
    <3>3. /\ empty' = [s \in Slots |-> empty'[s]] /\ reserved' = [s \in Slots |-> reserved'[s]]
          /\ freed' = [s \in Slots |-> freed'[s]]
      BY <1>2 DEF Lists_After, With, Without
    <3>4. QED
      BY <3>1, <3>2, <3>3 DEF Lists
  <2>2. /\ length' \in 0 .. MaxSlots /\ pointer' \in first' .. MaxSlots + 1
        /\ committedPointer' \in first' .. pointer' /\ first' \in Slots
    BY <1>1, <1>2, <1>3, <1>4, Numbers DEF TypeOK
  <2>3. failed' \in Nat
    BY <1>1, <1>3 DEF TypeOK
  <2>4. QED
    BY <1>1, <1>3, <1>7, <2>1, <2>2, <2>3 DEF TypeOK
<1>9. ASSUME Sound
      PROVE  Sound'
  <2>1. TypeOK /\ Ranges /\ Committed /\ Owned /\ Intact
    BY <1>1, <1>9 DEF Sound
  <2>2. /\ end \in Nat /\ end >= pointer /\ end <= MaxSlots + 1
        /\ taken \subseteq Slots /\ S \subseteq Slots
        /\ \A s \in taken : empty[s] > 0 /\ header[s] = 0 /\ first <= s /\ s < committedPointer /\ s < pointer
        /\ \A s \in S : first <= s /\ s < end /\ header[s] = 0
    BY <1>1, <1>9, TakenSlots
  <2>3. root' # NoRoot
    <3>1. Cardinality(taken) + (end - pointer) = Cardinality(path) + created
      BY <1>2 DEF Allocates
    <3>2. IsFiniteSet(path) /\ Cardinality(path) \in Nat /\ Cardinality(path) # 0
      <4>1. IsFiniteSet(Slots)
        BY <2>1, Numbers, FS_Interval DEF Slots
      <4>2. IsFiniteSet(path)
        BY <1>7, <4>1, FS_Subset
      <4>3. QED
        BY <4>2, FS_CardinalityType, FS_EmptySet
    <3>3. SUFFICES ASSUME S = {} PROVE FALSE
      BY <1>2 DEF NoRoot
    <3>4. taken = {} /\ end = pointer
      BY <2>1, <2>2, <3>3, Numbers DEF Taken
    <3>5. Cardinality(taken) = 0
      BY <3>4, FS_EmptySet
    <3>6. created \in Nat
      BY BoundsAssumption
    <3>7. QED
      BY <2>1, <3>1, <3>2, <3>4, <3>5, <3>6, Numbers
  <2>4. Ranges'
    <3>1. pointer' <= length' + 1 /\ (failed' = 0 => pointer' = length' + 1)
      <4>1. pointer <= length + 1 /\ (failed = 0 => pointer = length + 1)
        BY <2>1 DEF Ranges
      <4>2. QED
        BY <2>1, <1>2, <1>3, <2>2, <4>1, Numbers DEF Extended
    <3>2. \A s \in Slots : ~ (first <= s /\ s < pointer) =>
            empty[s] = 0 /\ reserved[s] = 0 /\ (failed = 0 => freed[s] = 0 /\ s \notin root)
      BY <2>1 DEF Ranges
    <3>3. \A s \in Slots : ~ (first' <= s /\ s < pointer') =>
            empty'[s] = 0 /\ reserved'[s] = 0 /\ (failed' = 0 => freed'[s] = 0 /\ s \notin root')
      <4> SUFFICES ASSUME NEW s \in Slots, ~ (first' <= s /\ s < pointer')
                   PROVE  empty'[s] = 0 /\ reserved'[s] = 0 /\ (failed' = 0 => freed'[s] = 0 /\ s \notin root')
        OBVIOUS
      <4>1. ~ (first <= s /\ s < pointer) /\ s \notin S
        BY <2>1, <1>2, <1>3, <2>2, Numbers
      <4>2. s \notin taken /\ (failed = 0 => s \notin path)
        BY <1>6, <3>2, <4>1
      <4>3. empty'[s] = 0 /\ reserved'[s] = 0
        BY <2>1, <1>5, <3>2, <4>1, <4>2, Numbers
      <4>4. failed' = 0 => freed'[s] = 0 /\ s \notin root'
        BY <2>1, <1>2, <1>3, <1>5, <3>2, <4>1, <4>2, Numbers
      <4>5. QED
        BY <4>3, <4>4
    <3>4. \A s \in Slots : s >= committedPointer' => empty'[s] = 0 /\ reserved'[s] = 0 /\ header'[s] = 0
      <4>1. \A s \in Slots : s >= committedPointer => empty[s] = 0 /\ reserved[s] = 0 /\ header[s] = 0
        BY <2>1 DEF Ranges
      <4>2. QED
        BY <2>1, <1>3, <2>2, <1>5, <4>1, Numbers
    <3>5. failed' = 0 => \A s \in root' : index'[s] > 0
      <4>1. failed' = 0 => \A s \in root : index[s] > 0
        BY <1>3, <2>1, Numbers DEF Ranges
      <4>2. QED
        BY <2>1, <1>2, <2>2, <1>5, <1>7, <4>1, Numbers
    <3>6. QED
      BY <2>3, <3>1, <3>3, <3>4, <3>5 DEF Ranges
  <2>5. Committed'
    <3>1. \A s \in Slots : first <= s /\ s < committedPointer => InHeader(s) + empty[s] + reserved[s] = 1
      BY <2>1 DEF Committed
    <3>2. \A s \in Slots : InHeader(s)' = InHeader(s) /\ InHeader(s) \in Nat
      BY <1>3 DEF InHeader
    <3>3. QED
      BY <2>1, <1>3, <2>2, <1>5, <3>1, <3>2, Numbers DEF Committed
  <2>6. Owned'
    <3> SUFFICES ASSUME failed' = 0
                 PROVE  Owned'
      BY DEF Owned
    <3>0. failed = 0
      BY <1>1, <1>3, Numbers
    <3>1. \A s \in Slots : first <= s /\ s < pointer => InUse(s) + empty[s] + freed[s] = 1
      BY <2>1, <1>3, <3>0 DEF Owned
    <3>2. \A s \in Slots : ~ (first <= s /\ s < pointer) =>
            empty[s] = 0 /\ freed[s] = 0 /\ s \notin root
      BY <2>1, <3>0 DEF Ranges
    <3>3. SUFFICES ASSUME NEW s \in Slots, first <= s, s < end
                   PROVE  InUse(s)' + empty'[s] + freed'[s] = 1
      BY <1>2, <1>3 DEF Owned
    <3>4. CASE s \in taken
      <4>1. s \notin root /\ s \in root' /\ empty[s] = 1 /\ freed[s] = 0
        BY <2>1, <1>2, <2>2, <1>6, <3>1, <3>4, Numbers DEF InUse
      <4>2. QED
        BY <1>5, <3>4, <4>1 DEF InUse
    <3>5. CASE s \notin taken /\ s < pointer
      <4>1. s \notin S
        BY <2>1, <1>6, <3>5, Numbers
      <4>2. QED
        BY <2>1, <1>2, <1>5, <3>1, <3>3, <3>5, <4>1, Numbers DEF InUse
    <3>6. CASE s \notin taken /\ ~ s < pointer
      <4>1. s \in S /\ s \notin path
        BY <2>1, <1>6, <3>2, <3>3, <3>6, Numbers
      <4>2. QED
        BY <1>2, <1>5, <3>2, <3>6, <4>1 DEF InUse
    <3>7. QED
      BY <3>4, <3>5, <3>6
  <2>7. Intact'
    <3>1. length <= length'
      BY <1>2, <1>4
    <3>2. \A s \in Slots : header[s] > 0 => index[s] = header[s] /\ s <= length
      BY <2>1 DEF Intact
    <3>3. \A s \in Slots : header[s] > 0 => s \notin S
      BY <2>1, <2>2, Numbers
    <3>4. length' \in Nat
      BY <1>2, <1>4, Numbers
    <3>5. QED
      BY <2>1, <1>3, <1>5, <3>1, <3>2, <3>3, <3>4, Numbers DEF Intact
  <2>8. QED
    BY <2>4, <2>5, <2>6, <2>7 DEF Sound
<1>10. QED
  BY <1>3, <1>8, <1>9 DEF IInv

\* An operation whose last write throws.
LEMMA ThrowKeeps ==
  ASSUME IInv, NEW path \in SUBSET root, NEW n \in Nat, Rewrite_Throws(path, n)
  PROVE  IInv'
<1>1. TypeOK
  BY DEF IInv
<1>2. PICK taken \in SUBSET Members(empty), end \in pointer .. MaxSlots + 1, old \in SUBSET path :
      \E s \in IF end > pointer THEN {end - 1} ELSE taken :
        /\ index' = [Written(Taken(taken, end)) EXCEPT ![s] = 0]
        /\ length' = Extended(end)
        /\ pointer' = IF end > pointer THEN s ELSE end
        /\ Lists_After(taken, old)
        /\ root' \in SUBSET (root \cup Taken(taken, end)) /\ root' # NoRoot
  BY DEF Rewrite_Throws
<1>3. /\ stored' = header /\ failed' = failed + 1
      /\ UNCHANGED <<header, first, committedPointer, transaction, careless, opens>>
  BY DEF Rewrite_Throws
<1> DEFINE S == Taken(taken, end)
<1>4. /\ end \in Nat /\ end >= pointer /\ end <= MaxSlots + 1
      /\ taken \subseteq Slots /\ S \subseteq Slots /\ \A s \in taken : empty[s] > 0
      /\ Extended(end) \in 0 .. MaxSlots /\ length <= Extended(end) /\ end <= Extended(end) + 1
  BY <1>1, TakenTypes
<1>5. \A s \in Slots : /\ empty'[s] = IF s \in taken THEN empty[s] - 1 ELSE empty[s]
                       /\ reserved'[s] = reserved[s] + (IF s \in taken THEN 1 ELSE 0)
                       /\ freed'[s] = freed[s] + (IF s \in old THEN 1 ELSE 0)
  BY <1>2 DEF Lists_After, With, Without, Once
<1>6. \A s \in Slots : s \in S <=> s \in taken \/ (pointer <= s /\ s < end)
  BY <1>1, <1>4, Numbers DEF Taken
<1>7. root' \in SUBSET Slots /\ root' # NoRoot
  <2>1. root \in SUBSET Slots
    BY <1>1 DEF TypeOK
  <2>2. QED
    BY <1>2, <1>4, <2>1
<1>8. /\ length' = Extended(end) /\ pointer' = (IF end > pointer THEN end - 1 ELSE end)
      /\ pointer' \in Nat /\ pointer <= pointer' /\ pointer' <= end /\ end <= pointer' + 1
  BY <1>1, <1>2, <1>4, Numbers
<1>9. \E bad \in S : index' = [Written(S) EXCEPT ![bad] = 0]
  <2>1. PICK bad \in IF end > pointer THEN {end - 1} ELSE taken : index' = [Written(S) EXCEPT ![bad] = 0]
    BY <1>2
  <2>2. bad \in S
    <3>1. CASE end > pointer
      <4>1. bad = end - 1 /\ bad \in pointer .. end - 1
        BY <1>1, <1>4, <3>1, Numbers
      <4>2. QED
        BY <4>1 DEF Taken
    <3>2. CASE ~ end > pointer
      BY <3>2 DEF Taken
    <3>3. QED
      BY <3>1, <3>2
  <2>3. QED
    BY <2>1, <2>2
<1>10. PICK bad \in S : index' = [Written(S) EXCEPT ![bad] = 0]
  BY <1>9
<1>11. \A s \in Slots : index'[s] = IF s = bad THEN 0 ELSE IF s \in S THEN transaction ELSE index[s]
  BY <1>10 DEF Written
<1>12. TypeOK'
  <2>1. /\ index' \in [Slots -> 0 .. MaxTransactions] /\ empty' \in Lists
        /\ reserved' \in Lists /\ freed' \in Lists
    <3>1. index' \in [Slots -> 0 .. MaxTransactions]
      <4>1. Written(S) \in [Slots -> 0 .. MaxTransactions]
        BY <1>1, Numbers, BoundsAssumption DEF Written, TypeOK
      <4>2. QED
        BY <1>10, <4>1, BoundsAssumption, 0 \in 0 .. MaxTransactions
    <3>2. /\ \A s \in Slots : empty'[s] \in Nat /\ reserved'[s] \in Nat /\ freed'[s] \in Nat
      BY <1>1, <1>4, <1>5, Numbers
    <3>3. /\ empty' = [s \in Slots |-> empty'[s]] /\ reserved' = [s \in Slots |-> reserved'[s]]
          /\ freed' = [s \in Slots |-> freed'[s]]
      BY <1>2 DEF Lists_After, With, Without
    <3>4. QED
      BY <3>1, <3>2, <3>3 DEF Lists
  <2>2. /\ length' \in 0 .. MaxSlots /\ pointer' \in first' .. MaxSlots + 1
        /\ committedPointer' \in first' .. pointer' /\ first' \in Slots
    BY <1>1, <1>3, <1>4, <1>8, Numbers DEF TypeOK
  <2>3. failed' \in Nat
    BY <1>1, <1>3 DEF TypeOK
  <2>4. QED
    BY <1>1, <1>3, <1>7, <2>1, <2>2, <2>3 DEF TypeOK
<1>13. ASSUME Sound
       PROVE  Sound'
  <2>1. TypeOK /\ Ranges /\ Committed /\ Owned /\ Intact
    BY <1>1, <1>13 DEF Sound
  <2>2. /\ end \in Nat /\ end >= pointer /\ end <= MaxSlots + 1
        /\ taken \subseteq Slots /\ S \subseteq Slots
        /\ \A s \in taken : empty[s] > 0 /\ header[s] = 0 /\ first <= s /\ s < committedPointer /\ s < pointer
        /\ \A s \in S : first <= s /\ s < end /\ header[s] = 0
    BY <1>1, <1>13, TakenSlots
  <2>3. Ranges'
    <3>1. pointer' <= length' + 1 /\ failed' # 0
      BY <1>1, <1>3, <1>4, <1>8, Numbers
    <3>2. \A s \in Slots : ~ (first <= s /\ s < pointer) =>
            empty[s] = 0 /\ reserved[s] = 0
      BY <2>1 DEF Ranges
    <3>3. \A s \in Slots : ~ (first' <= s /\ s < pointer') =>
            empty'[s] = 0 /\ reserved'[s] = 0
      <4> SUFFICES ASSUME NEW s \in Slots, ~ (first' <= s /\ s < pointer')
                   PROVE  empty'[s] = 0 /\ reserved'[s] = 0
        OBVIOUS
      <4>1. ~ (first <= s /\ s < pointer)
        BY <2>1, <1>3, <1>8, Numbers
      <4>2. s \notin taken
        BY <2>1, <2>2, <3>2, <4>1, Numbers
      <4>3. QED
        BY <2>1, <1>3, <1>5, <3>2, <4>1, <4>2, Numbers
    <3>4. \A s \in Slots : s >= committedPointer' => empty'[s] = 0 /\ reserved'[s] = 0 /\ header'[s] = 0
      <4>1. \A s \in Slots : s >= committedPointer => empty[s] = 0 /\ reserved[s] = 0 /\ header[s] = 0
        BY <2>1 DEF Ranges
      <4>2. QED
        BY <2>1, <1>3, <2>2, <1>5, <4>1, Numbers
    <3>5. QED
      BY <1>3, <1>7, <3>1, <3>3, <3>4 DEF Ranges
  <2>4. Committed'
    <3>1. \A s \in Slots : first <= s /\ s < committedPointer => InHeader(s) + empty[s] + reserved[s] = 1
      BY <2>1 DEF Committed
    <3>2. \A s \in Slots : InHeader(s)' = InHeader(s) /\ InHeader(s) \in Nat
      BY <1>3 DEF InHeader
    <3>3. QED
      BY <2>1, <1>3, <2>2, <1>5, <3>1, <3>2, Numbers DEF Committed
  <2>5. Owned'
    BY <1>1, <1>3, Numbers DEF Owned
  <2>6. Intact'
    <3>1. length <= length' /\ length' \in Nat
      BY <1>1, <1>4, <1>8, Numbers
    <3>2. \A s \in Slots : header[s] > 0 => index[s] = header[s] /\ s <= length
      BY <2>1 DEF Intact
    <3>3. \A s \in Slots : header[s] > 0 => s \notin S
      BY <2>1, <2>2, Numbers
    <3>4. QED
      BY <2>1, <1>3, <1>11, <3>1, <3>2, <3>3, Numbers DEF Intact
  <2>7. QED
    BY <2>3, <2>4, <2>5, <2>6 DEF Sound
<1>14. QED
  BY <1>3, <1>12, <1>13 DEF IInv

\* Moving the stream brings the header to the file; the tree of the header is intact, so the one on file is.
LEMMA SeekKeeps ==
  ASSUME IInv, Seek
  PROVE  IInv'
<1>1. TypeOK' /\ careless' = careless
  BY DEF IInv, Seek, lists, pointers, TypeOK
<1>2. Sound => Ranges' /\ Committed'
  BY DEF Sound, Seek, lists, pointers, Ranges, Committed, InHeader
<1>3. Sound => Owned' /\ Intact'
  BY DEF Sound, Seek, lists, pointers, Owned, InUse, Intact
<1>4. QED
  BY <1>1, <1>2, <1>3 DEF IInv, Sound

\* What was freed becomes empty, the working tree the one RollBack goes back to.
LEMMA CommitKeeps ==
  ASSUME IInv, Commit
  PROVE  IInv'
<1>1. TypeOK
  BY DEF IInv
<1>2. /\ root # NoRoot /\ stored' = header
      /\ committedPointer' = pointer /\ careless' = (careless \/ failed > 0)
      /\ transaction < MaxTransactions /\ transaction' = transaction + 1
      /\ UNCHANGED <<index, length, root, first, pointer, failed, opens>>
  BY DEF Commit
<1>3. \A s \in Slots : /\ header'[s] = Tree[s]
                       /\ empty'[s] = empty[s] + freed[s]
                       /\ freed'[s] = 0 /\ reserved'[s] = 0
  BY DEF Commit, With, Nothing, Tree
<1>4. TypeOK'
  <2>1. header' \in [Slots -> 0 .. MaxTransactions]
    <3>1. \A s \in Slots : Tree[s] \in 0 .. MaxTransactions
      BY <1>1, BoundsAssumption DEF TypeOK, Tree
    <3>2. QED
      BY <3>1 DEF Commit, Tree
  <2>2. empty' \in Lists /\ freed' \in Lists /\ reserved' \in Lists
    <3>1. \A s \in Slots : empty[s] + freed[s] \in Nat
      BY <1>1, Numbers
    <3>2. QED
      BY <3>1 DEF Commit, With, Nothing, Lists
  <2>3. /\ committedPointer' \in first' .. pointer' /\ transaction' \in 1 .. MaxTransactions
    BY <1>1, <1>2, Numbers, BoundsAssumption DEF TypeOK
  <2>4. QED
    BY <1>1, <1>2, <2>1, <2>2, <2>3 DEF TypeOK
<1>5. ASSUME Sound, failed = 0
      PROVE  Sound'
  <2>1. TypeOK /\ Ranges /\ Committed /\ Owned /\ Intact
    BY <1>1, <1>5 DEF Sound
  <2>2. \A s \in Slots : /\ header'[s] = IF s \in root THEN index[s] ELSE 0
                         /\ empty'[s] = empty[s] + freed[s]
                         /\ freed'[s] = 0 /\ reserved'[s] = 0
    BY <1>3, <1>5, <2>1 DEF Tree, Ranges
  <2>3. \A s \in Slots : ~ (first <= s /\ s < pointer) =>
          empty[s] = 0 /\ reserved[s] = 0 /\ freed[s] = 0 /\ s \notin root
    BY <1>5, <2>1 DEF Ranges
  <2>4. \A s \in root : s \in Slots /\ index[s] > 0
    BY <1>5, <2>1 DEF Ranges, TypeOK
  <2>5. Ranges'
    <3>1. \A s \in Slots : ~ (first' <= s /\ s < pointer') =>
            empty'[s] = 0 /\ reserved'[s] = 0 /\ freed'[s] = 0 /\ s \notin root'
      BY <1>2, <2>2, <2>3
    <3>2. \A s \in Slots : s >= committedPointer' => empty'[s] = 0 /\ reserved'[s] = 0 /\ header'[s] = 0
      <4>1. \A s \in Slots : s >= pointer => ~ (first <= s /\ s < pointer)
        BY <2>1, Numbers
      <4>2. QED
        BY <1>2, <2>2, <2>3, <4>1
    <3>3. pointer' <= length' + 1 /\ (failed' = 0 => pointer' = length' + 1)
      BY <1>5, <2>1, <1>2 DEF Ranges
    <3>4. QED
      BY <1>2, <2>4, <3>1, <3>2, <3>3 DEF Ranges
  <2>6. Committed'
    <3> SUFFICES ASSUME NEW s \in Slots, first <= s, s < pointer
                 PROVE  InHeader(s)' + empty'[s] + reserved'[s] = 1
      BY <1>2 DEF Committed
    <3>1. InUse(s) + empty[s] + freed[s] = 1
      BY <1>5, <2>1, <1>2 DEF Owned
    <3>2. InHeader(s)' = InUse(s) /\ InUse(s) \in Nat
      BY <2>2, <2>4 DEF InHeader, InUse
    <3>3. QED
      BY <2>1, <2>2, <3>1, <3>2, Numbers
  <2>7. Owned'
    <3> SUFFICES ASSUME NEW s \in Slots, first <= s, s < pointer
                 PROVE  InUse(s)' + empty'[s] + freed'[s] = 1
      BY <1>2 DEF Owned
    <3>1. InUse(s) + empty[s] + freed[s] = 1 /\ InUse(s)' = InUse(s) /\ InUse(s) \in Nat
      BY <1>5, <2>1, <1>2 DEF Owned, InUse
    <3>2. QED
      BY <2>1, <2>2, <3>1, Numbers
  <2>8. Intact'
    <3>1. \A s \in root : s <= length
      BY <1>5, <2>1, <1>2, <2>3, <2>4, Numbers DEF Ranges
    <3>2. QED
      BY <1>5, <2>1, <1>2, <2>2, <3>1 DEF Intact
  <2>9. QED
    BY <2>5, <2>6, <2>7, <2>8 DEF Sound
<1>6. ~ careless' => ~ careless /\ failed = 0
  <2>1. failed = 0 \/ failed > 0
    BY <1>1, Numbers
  <2>2. careless' = (careless \/ failed > 0)
    BY <1>2
  <2>3. QED
    BY <2>1, <2>2, Zenon
<1>7. QED
  BY <1>4, <1>5, <1>6 DEF IInv

\* What was reserved becomes empty again, and the file ends where it did.
LEMMA RollBackKeeps ==
  ASSUME IInv, RollBack
  PROVE  IInv'
<1>1. TypeOK
  BY DEF IInv
<1>2. /\ root' = NoRoot /\ failed' = (IF careless THEN failed ELSE 0) /\ stored' = header
      /\ length' = committedPointer - 1 /\ pointer' = committedPointer
      /\ UNCHANGED <<header, first, committedPointer, transaction, careless, opens>>
  BY DEF RollBack
<1>3. \A s \in Slots : /\ empty'[s] = empty[s] + reserved[s] /\ reserved'[s] = 0 /\ freed'[s] = 0
                       /\ index'[s] = IF s < committedPointer THEN index[s] ELSE 0
  BY DEF RollBack, With, Nothing
<1>4. TypeOK'
  <2>1. index' \in [Slots -> 0 .. MaxTransactions]
    <3>1. \A s \in Slots : (IF s < committedPointer THEN index[s] ELSE 0) \in 0 .. MaxTransactions
      BY <1>1, BoundsAssumption DEF TypeOK
    <3>2. QED
      BY <3>1 DEF RollBack
  <2>2. empty' \in Lists /\ freed' \in Lists /\ reserved' \in Lists
    <3>1. \A s \in Slots : empty[s] + reserved[s] \in Nat
      BY <1>1, Numbers
    <3>2. QED
      BY <3>1 DEF RollBack, With, Nothing, Lists
  <2>3. /\ length' \in 0 .. MaxSlots /\ first' \in Slots
        /\ pointer' \in first' .. MaxSlots + 1 /\ committedPointer' \in first' .. pointer'
    BY <1>1, <1>2, Numbers DEF TypeOK
  <2>4. root' \in SUBSET Slots /\ failed' \in Nat
    BY <1>1, <1>2 DEF NoRoot, TypeOK
  <2>5. QED
    BY <1>1, <1>2, <2>1, <2>2, <2>3, <2>4 DEF TypeOK
<1>5. ASSUME Sound, ~ careless
      PROVE  Sound'
  <2>1. TypeOK /\ Ranges /\ Committed /\ Intact
    BY <1>1, <1>5 DEF Sound
  <2>2. Ranges'
    <3>1. \A s \in Slots : s >= committedPointer => empty[s] = 0 /\ reserved[s] = 0 /\ header[s] = 0
      BY <2>1 DEF Ranges
    <3>2. \A s \in Slots : ~ (first <= s /\ s < pointer) => empty[s] = 0 /\ reserved[s] = 0
      BY <2>1 DEF Ranges
    <3>3. \A s \in Slots : ~ (first' <= s /\ s < pointer') => empty'[s] = 0 /\ reserved'[s] = 0 /\ freed'[s] = 0
      BY <2>1, <1>2, <1>3, <3>1, <3>2, Numbers
    <3>4. \A s \in Slots : s >= committedPointer' => empty'[s] = 0 /\ reserved'[s] = 0 /\ header'[s] = 0
      BY <1>2, <1>3, <3>1
    <3>5. pointer' <= length' + 1 /\ pointer' = length' + 1
      BY <2>1, <1>2, Numbers
    <3>6. reserved' = Nothing
      BY DEF RollBack
    <3>7. QED
      BY <1>2, <1>5, <3>3, <3>4, <3>5, <3>6 DEF Ranges, NoRoot
  <2>3. Committed'
    <3>1. \A s \in Slots : first <= s /\ s < committedPointer => InHeader(s) + empty[s] + reserved[s] = 1
      BY <2>1 DEF Committed
    <3>2. \A s \in Slots : InHeader(s)' = InHeader(s) /\ InHeader(s) \in Nat
      BY <1>2 DEF InHeader
    <3>3. QED
      BY <2>1, <1>2, <1>3, <3>1, <3>2, Numbers DEF Committed
  <2>4. Owned'
    BY <1>2 DEF Owned
  <2>5. Intact'
    <3>1. \A s \in Slots : header[s] > 0 => s < committedPointer
      BY <2>1, Numbers DEF Ranges
    <3>2. \A s \in Slots : header[s] > 0 => index[s] = header[s]
      BY <2>1 DEF Intact
    <3>3. QED
      BY <2>1, <1>2, <1>3, <3>1, <3>2, Numbers DEF Intact
  <2>6. QED
    BY <2>2, <2>3, <2>4, <2>5 DEF Sound
<1>6. QED
  BY <1>2, <1>4, <1>5 DEF IInv

\* The new process knows no slot but the one of its root.
LEMMA OpenKeeps ==
  ASSUME IInv, Open
  PROVE  IInv'
<1>1. TypeOK
  BY DEF IInv
<1>2. /\ opens < MaxOpens /\ opens' = opens + 1
      /\ first' = length + 1 /\ first' \in Slots
      /\ length' = first' /\ pointer' = first' + 1 /\ committedPointer' = first'
      /\ root' = {first'} /\ header' = stored /\ failed' = 0
      /\ UNCHANGED <<stored, transaction, careless>>
  BY DEF Open
<1>3. \A s \in Slots : /\ empty'[s] = 0 /\ reserved'[s] = 0 /\ freed'[s] = 0
                       /\ index'[s] = IF s = first' THEN transaction ELSE index[s]
  BY <1>1, <1>2 DEF Open, Nothing, TypeOK
<1>4. TypeOK'
  <2>1. index' \in [Slots -> 0 .. MaxTransactions]
    BY <1>1, <1>2, Numbers DEF Open, TypeOK
  <2>2. empty' \in Lists /\ freed' \in Lists /\ reserved' \in Lists
    BY DEF Open, Nothing, Lists
  <2>3. /\ length' \in 0 .. MaxSlots /\ opens' \in 1 .. MaxOpens
        /\ pointer' \in first' .. MaxSlots + 1 /\ committedPointer' \in first' .. pointer'
    BY <1>1, <1>2, Numbers, BoundsAssumption DEF TypeOK
  <2>4. QED
    BY <1>1, <1>2, <2>1, <2>2, <2>3 DEF TypeOK
<1>5. ASSUME Sound
      PROVE  Sound'
  <2>1. TypeOK /\ Intact
    BY <1>1, <1>5 DEF Sound
  <2>2. \A s \in Slots : stored[s] > 0 => index[s] = stored[s] /\ s <= length
    BY <2>1 DEF Intact
  <2>3. \A s \in Slots : s >= first' => stored[s] = 0
    BY <2>1, <1>2, <2>2, Numbers
  <2>4. Ranges'
    <3>1. \A s \in Slots : ~ (first' <= s /\ s < pointer') => s \notin root'
      BY <2>1, <1>2, Numbers
    <3>2. index'[first'] > 0 /\ root' # NoRoot
      BY <2>1, <1>2, <1>3, Numbers DEF NoRoot
    <3>3. pointer' = length' + 1 /\ pointer' <= length' + 1
      BY <2>1, <1>2, Numbers
    <3>4. QED
      BY <1>2, <1>3, <2>3, <3>1, <3>2, <3>3 DEF Ranges
  <2>5. Committed'
    BY <2>1, <1>2, Numbers DEF Committed
  <2>6. Owned'
    <3>1. \A s \in Slots : first' <= s /\ s < pointer' => s \in root'
      BY <2>1, <1>2, Numbers
    <3>2. QED
      BY <1>3, <3>1 DEF Owned, InUse
  <2>7. Intact'
    <3>1. \A s \in Slots : s <= length => s <= length' /\ s # first'
      BY <2>1, <1>2, Numbers
    <3>2. QED
      BY <1>2, <1>3, <2>2, <3>1 DEF Intact
  <2>8. QED
    BY <2>4, <2>5, <2>6, <2>7 DEF Sound
<1>6. QED
  BY <1>2, <1>4, <1>5 DEF IInv

\* Each step keeps the invariant, whichever writes throw.
LEMMA NextIInv == IInv /\ [Next]_vars => IInv'
<1> SUFFICES ASSUME IInv, [Next]_vars
             PROVE  IInv'
  OBVIOUS
<1>1. ASSUME NEW path \in (SUBSET root) \ {{}}, NEW created \in 0 .. MaxCreated, Rewrite(path, created)
      PROVE  IInv'
  BY <1>1, RewriteKeeps
<1>2. ASSUME NEW path \in (SUBSET root) \ {{}}, NEW n \in 1 .. Cardinality(path) + MaxCreated,
             Rewrite_Throws(path, n)
      PROVE  IInv'
  <2>1. n \in Nat
    OBVIOUS
  <2>2. QED
    BY <1>2, <2>1, ThrowKeeps
<1>3. CASE Seek \/ Commit \/ RollBack \/ Open
  BY <1>3, SeekKeeps, CommitKeeps, RollBackKeeps, OpenKeeps
<1>4. CASE UNCHANGED vars
  <2>1. TypeOK' /\ careless' = careless
    BY <1>4 DEF IInv, vars, file, lists, pointers, TypeOK
  <2>2. Sound => Ranges' /\ Committed'
    BY <1>4 DEF Sound, vars, file, lists, pointers, Ranges, Committed, InHeader
  <2>3. Sound => Owned' /\ Intact'
    BY <1>4 DEF Sound, vars, file, lists, pointers, Owned, InUse, Intact
  <2>4. QED
    BY <2>1, <2>2, <2>3 DEF IInv, Sound
<1>5. QED
  BY <1>1, <1>2, <1>3, <1>4 DEF Next

\* The state of the files and of the process keeps its types.
THEOREM InPlaceTypes == Spec => []TypeOK
<1>1. IInv => TypeOK
  BY DEF IInv
<1>2. QED
  BY <1>1, InitIInv, NextIInv, PTL DEF Spec

\* Each slot of the process belongs to the working tree, is empty, or was freed,
\* until a write throws.
THEOREM SlotsHaveOneOwner == Spec => []OneOwner
<1>1. IInv => OneOwner
  <2> SUFFICES ASSUME IInv, root # NoRoot, failed = 0, ~ careless, NEW s \in first .. pointer - 1
               PROVE  InUse(s) + empty[s] + freed[s] = 1
    BY DEF OneOwner
  <2>1. s \in Slots /\ first <= s /\ s < pointer
    BY Numbers DEF IInv
  <2>2. QED
    BY <2>1 DEF IInv, Sound, Owned
<1>2. QED
  BY <1>1, InitIInv, NextIInv, PTL DEF Spec

\* After RollBack each slot is of the committed tree or empty, whatever failed
\* before and was not committed.
THEOREM RollBackLosesNothing == Spec => []RollBackRestores
<1>1. IInv => RollBackRestores
  <2> SUFFICES ASSUME IInv, root = NoRoot, ~ careless, NEW s \in first .. pointer - 1
               PROVE  empty[s] = IF header[s] > 0 THEN 0 ELSE 1
    BY DEF RollBackRestores
  <2>1. TypeOK /\ pointer = committedPointer /\ reserved = Nothing
    BY DEF IInv, Sound, Ranges
  <2>2. s \in Slots /\ first <= s /\ s < committedPointer
    BY <2>1, Numbers
  <2>3. InHeader(s) + empty[s] + reserved[s] = 1 /\ reserved[s] = 0
    BY <2>1, <2>2 DEF IInv, Sound, Committed, Nothing
  <2>4. QED
    BY <2>1, <2>2, <2>3, Numbers DEF InHeader
<1>2. QED
  BY <1>1, InitIInv, NextIInv, PTL DEF Spec

\* The tree on file is whole, whenever the process dies and whichever operations
\* fail or follow one that did, until such a transaction is committed.
THEOREM StoredTreeStaysIntact == Spec => []StoredIntact
<1>1. IInv => StoredIntact
  BY DEF IInv, Sound, Intact, StoredIntact, Members
<1>2. QED
  BY <1>1, InitIInv, NextIInv, PTL DEF Spec
=============================================================================
