---------------------------- MODULE PartsProofs ----------------------------
(***************************************************************************)
(* Theorems about the parts in Parts.tla, for every size of keys, nodes,   *)
(* commits, files, batches and heaps: what is read from the files of the   *)
(* Append tree is what was written, its pool of nodes is bounded, and the  *)
(* heap implements a priority queue.                                       *)
(*                                                                         *)
(* Five parts, one for each of the specifications in Parts: values in the  *)
(* data file as bytes, nodes in the buffer of a commit, records in the     *)
(* data file while processes die with what their stream has buffered, the  *)
(* two threads of the pool, and the loops of the heap.                     *)
(***************************************************************************)
EXTENDS Parts, FiniteSetsExt, SequenceTheorems, FiniteSetTheorems, FunctionTheorems,
        WellFoundedInduction, TLAPS

-----------------------------------------------------------------------------
\* The bytes of records: the layout of one record first, then the invariant that
\* keeps each record where it was written.

\* Array.Copy keeps the length of its target and changes only the bytes it covers.
LEMMA Copying ==
  ASSUME NEW n \in Nat, NEW m \in Nat, NEW target \in Array(n), NEW source \in Array(m),
         NEW at \in Nat, NEW count \in 0 .. m
  PROVE  /\ Copied(target, source, at, count) \in Array(n)
         /\ \A p \in 0 .. n - 1 :
              Copied(target, source, at, count)[p] =
                IF at <= p /\ p < at + count THEN source[p - at] ELSE target[p]
  <1>1. DOMAIN target = 0 .. n - 1
    BY DEF Array
  <1>2. \A p \in 0 .. n - 1 :
          Copied(target, source, at, count)[p] =
            IF at <= p /\ p < at + count THEN source[p - at] ELSE target[p]
    BY <1>1 DEF Copied
  <1>3. \A p \in 0 .. n - 1 : Copied(target, source, at, count)[p] \in Byte
    BY <1>2 DEF Array
  <1>4. Copied(target, source, at, count) =
          [p \in 0 .. n - 1 |-> Copied(target, source, at, count)[p]]
    BY <1>1 DEF Copied
  <1> QED
    BY <1>2, <1>3, <1>4 DEF Array

\* The four bytes of an int are read back as that int.
LEMMA Lengths ==
  ASSUME NEW n \in Nat, n <= MaxInt
  PROVE  GetBytes(n) \in Array(4) /\ ToInt32(GetBytes(n)) = n
  <1>1. n \div 16777216 \in 0 .. 127
    BY SMT DEF MaxInt
  <1>2. /\ n % 256 \in Byte
        /\ (n \div 256) % 256 \in Byte
        /\ (n \div 65536) % 256 \in Byte
        /\ n \div 16777216 \in Byte
    BY <1>1, SMT DEF Byte
  <1>3. GetBytes(n) \in Array(4)
    BY <1>2, SMT DEF GetBytes, Array
  <1>4. /\ GetBytes(n)[0] = n % 256
        /\ GetBytes(n)[1] = (n \div 256) % 256
        /\ GetBytes(n)[2] = (n \div 65536) % 256
        /\ GetBytes(n)[3] = n \div 16777216
    BY SMT DEF GetBytes
  <1>5. n = (n % 256) + 256 * ((n \div 256) % 256) + 65536 * ((n \div 65536) % 256)
              + 16777216 * (n \div 16777216)
    BY SMT
  <1> QED
    BY <1>3, <1>4, <1>5, SMT DEF ToInt32

\* A record begins with its length and ends with its value, however far the key
\* reaches into the fields between them.
LEMMA RecordBytes ==
  ASSUME NEW key \in Keys, NEW ticks \in Ticks, NEW payload \in Payloads
  PROVE  LET bytes == To_Bytes(key, ticks, payload) IN
         /\ bytes \in Array(20 + payload.length)
         /\ \A i \in 0 .. 3 : bytes[i] = GetBytes(20 + payload.length)[i]
         /\ \A i \in 0 .. payload.length - 1 : bytes[20 + i] = payload.bytes[i]
  <1> DEFINE size == 20 + payload.length
             zero == [p \in 0 .. size - 1 |-> 0]
             lengthened == Copied(zero, GetBytes(size), 0, 4)
             keyed == Copied(lengthened, key, 4, KeySize)
             timed == Copied(keyed, ticks, 8, 8)
             versioned == Copied(timed, GetBytes(1), 16, 4)
             bytes == Copied(versioned, payload.bytes, 20, payload.length)
  <1>1. /\ payload.length \in Nat /\ 20 + payload.length <= MaxInt /\ payload.bytes \in Array(payload.length)
        /\ key \in Array(KeySize) /\ ticks \in Array(8) /\ KeySize \in 1 .. 16
    BY PayloadsAssumption, KeysAssumption, TicksAssumption, KeySizeAssumption
  <1>2. size \in Nat /\ size <= MaxInt /\ size >= 20 /\ 1 <= MaxInt
    BY <1>1, SMT DEF MaxInt
  <1>3. zero \in Array(size)
    BY <1>2 DEF Array, Byte
  <1>4. GetBytes(size) \in Array(4) /\ GetBytes(1) \in Array(4)
    BY <1>2, Lengths
  <1> HIDE DEF size, zero
  <1>5. /\ lengthened \in Array(size)
        /\ \A p \in 0 .. size - 1 :
             lengthened[p] = IF 0 <= p /\ p < 0 + 4 THEN GetBytes(size)[p - 0] ELSE zero[p]
    <2>1. 0 \in Nat /\ 4 \in Nat /\ 4 \in 0 .. 4
      OBVIOUS
    <2> QED
      BY <1>2, <1>3, <1>4, <2>1, Copying, Zenon
  <1> HIDE DEF lengthened
  <1>6. /\ keyed \in Array(size)
        /\ \A p \in 0 .. size - 1 :
             keyed[p] = IF 4 <= p /\ p < 4 + KeySize THEN key[p - 4] ELSE lengthened[p]
    <2>1. /\ 4 \in Nat /\ KeySize \in Nat /\ KeySize \in 0 .. KeySize
          /\ size \in Nat /\ lengthened \in Array(size) /\ key \in Array(KeySize)
      BY <1>1, <1>2, <1>5
    <2> QED
      BY <2>1, Copying, Zenon
  <1> HIDE DEF keyed
  <1>7. /\ timed \in Array(size)
        /\ \A p \in 0 .. size - 1 :
             timed[p] = IF 8 <= p /\ p < 8 + 8 THEN ticks[p - 8] ELSE keyed[p]
    <2>1. 8 \in Nat /\ 8 \in Nat /\ 8 \in 0 .. 8
      OBVIOUS
    <2> QED
      BY <1>1, <1>2, <1>6, <2>1, Copying, Zenon
  <1> HIDE DEF timed
  <1>8. /\ versioned \in Array(size)
        /\ \A p \in 0 .. size - 1 :
             versioned[p] = IF 16 <= p /\ p < 16 + 4 THEN GetBytes(1)[p - 16] ELSE timed[p]
    <2>1. 16 \in Nat /\ 4 \in Nat /\ 4 \in 0 .. 4
      OBVIOUS
    <2> QED
      BY <1>2, <1>4, <1>7, <2>1, Copying, Zenon
  <1> HIDE DEF versioned
  <1>9. /\ bytes \in Array(size)
        /\ \A p \in 0 .. size - 1 :
             bytes[p] = IF 20 <= p /\ p < 20 + payload.length THEN payload.bytes[p - 20] ELSE versioned[p]
    <2>1. 20 \in Nat /\ payload.length \in Nat /\ payload.length \in 0 .. payload.length
      BY <1>1
    <2> QED
      BY <1>1, <1>2, <1>8, <2>1, Copying, Zenon
  <1> HIDE DEF bytes
  <1>10. \A i \in 0 .. 3 : bytes[i] = GetBytes(size)[i]
    <2> SUFFICES ASSUME NEW i \in 0 .. 3
                 PROVE  bytes[i] = GetBytes(size)[i]
      OBVIOUS
    <2>1. /\ i \in 0 .. size - 1 /\ i - 0 = i
          /\ 0 <= i /\ i < 0 + 4 /\ ~ (4 <= i) /\ ~ (8 <= i) /\ ~ (16 <= i) /\ ~ (20 <= i)
      BY <1>2
    <2>2. bytes[i] = versioned[i]
      BY <1>9, <2>1, Zenon
    <2>3. versioned[i] = timed[i]
      BY <1>8, <2>1, Zenon
    <2>4. timed[i] = keyed[i]
      BY <1>7, <2>1, Zenon
    <2>5. keyed[i] = lengthened[i]
      BY <1>6, <2>1, Zenon
    <2>6. lengthened[i] = GetBytes(size)[i]
      BY <1>5, <2>1, Zenon
    <2> QED
      BY <2>2, <2>3, <2>4, <2>5, <2>6
  <1>11. \A i \in 0 .. payload.length - 1 : bytes[20 + i] = payload.bytes[i]
    <2> SUFFICES ASSUME NEW i \in 0 .. payload.length - 1
                 PROVE  bytes[20 + i] = payload.bytes[i]
      OBVIOUS
    <2>1. 20 + i \in 0 .. size - 1 /\ (20 + i) - 20 = i /\ 20 + i < 20 + payload.length
      BY <1>1 DEF size
    <2> QED
      BY <1>9, <2>1
  <1>12. To_Bytes(key, ticks, payload) = bytes
    BY DEF To_Bytes, bytes, versioned, timed, keyed, lengthened, zero, size
  <1> QED
    BY <1>9, <1>10, <1>11, <1>12 DEF size

-----------------------------------------------------------------------------
\* Where a record was written its bytes still are.
Placed(r) ==
  /\ r.address + 20 + r.payload.length <= pointer
  /\ \A i \in 0 .. 3 : log[r.address + i] = GetBytes(20 + r.payload.length)[i]
  /\ \A i \in 0 .. r.payload.length - 1 : log[r.address + 20 + i] = r.payload.bytes[i]

IInv == TypeOK /\ \A r \in records : Placed(r)

\* An empty file holds no record.
LEMMA InitInv == Init => IInv
  BY DEF Init, IInv, TypeOK, Array

\* An appended record leaves every byte before it where it was.
LEMMA StepInv == IInv /\ [Next]_vars => IInv'
  <1> SUFFICES ASSUME IInv, [Next]_vars
               PROVE  IInv'
    OBVIOUS
  <1>1. ASSUME NEW key \in Keys, NEW ticks \in Ticks, NEW payload \in Payloads,
               Write_Data(key, ticks, payload)
        PROVE  IInv'
    <2> DEFINE size == 20 + payload.length
               new == [address |-> pointer, key |-> key, payload |-> payload]
               bytes == To_Bytes(key, ticks, payload)
    <2>1. /\ payload.length \in Nat
          /\ bytes \in Array(size)
          /\ \A i \in 0 .. 3 : bytes[i] = GetBytes(size)[i]
          /\ \A i \in 0 .. payload.length - 1 : bytes[20 + i] = payload.bytes[i]
      BY RecordBytes, PayloadsAssumption
    <2>2. /\ log' = [p \in 0 .. pointer + size - 1 |->
                       IF p < pointer THEN log[p] ELSE bytes[p - pointer]]
          /\ records' = records \cup {new}
          /\ pointer' = pointer + size
      BY <1>1 DEF Write_Data
    <2>3. pointer \in Nat /\ log \in Array(pointer) /\ size \in Nat /\ size >= 20
      BY <2>1 DEF IInv, TypeOK
    <2> HIDE DEF bytes
    <2>4. /\ \A p \in 0 .. pointer - 1 : log'[p] = log[p]
          /\ \A q \in 0 .. size - 1 : log'[pointer + q] = bytes[q]
      <3>1. \A p \in 0 .. pointer - 1 : log'[p] = log[p]
        BY <2>2, <2>3
      <3>2. ASSUME NEW q \in 0 .. size - 1
            PROVE  log'[pointer + q] = bytes[q]
        <4>1. pointer + q \in 0 .. pointer + size - 1 /\ ~ (pointer + q < pointer)
              /\ (pointer + q) - pointer = q
          BY <2>3
        <4> QED
          BY <2>2, <4>1
      <3> QED
        BY <3>1, <3>2
    <2>5. TypeOK'
      <3>1. ASSUME NEW p \in 0 .. pointer + size - 1
            PROVE  (IF p < pointer THEN log[p] ELSE bytes[p - pointer]) \in Byte
        <4>1. CASE p < pointer
          BY <2>3, <4>1 DEF Array
        <4>2. CASE ~ (p < pointer)
          <5>1. p - pointer \in 0 .. size - 1
            BY <2>3, <4>2
          <5>2. bytes \in [0 .. size - 1 -> Byte]
            BY <2>1 DEF Array
          <5> QED
            BY <4>2, <5>1, <5>2
        <4> QED
          BY <4>1, <4>2
      <3>2. log' \in Array(pointer')
        <4>1. log' \in [0 .. pointer + size - 1 -> Byte]
          BY <2>2, <3>1
        <4>2. pointer' - 1 = pointer + size - 1
          BY <2>2, <2>3
        <4> QED
          BY <4>1, <4>2 DEF Array
      <3>3. records' \subseteq [address : 0 .. pointer' - 1, key : Keys, payload : Payloads]
        BY <2>2, <2>3 DEF IInv, TypeOK
      <3> QED
        BY <2>2, <2>3, <3>2, <3>3 DEF TypeOK
    <2>6. ASSUME NEW r \in records
          PROVE  Placed(r)'
      <3>1. /\ r.address \in Nat /\ r.payload.length \in Nat
            /\ r.address + 20 + r.payload.length <= pointer
            /\ \A i \in 0 .. 3 : log[r.address + i] = GetBytes(20 + r.payload.length)[i]
            /\ \A i \in 0 .. r.payload.length - 1 : log[r.address + 20 + i] = r.payload.bytes[i]
        BY PayloadsAssumption DEF IInv, TypeOK, Placed
      <3>2. /\ \A i \in 0 .. 3 : r.address + i \in 0 .. pointer - 1
            /\ \A i \in 0 .. r.payload.length - 1 : r.address + 20 + i \in 0 .. pointer - 1
        BY <2>3, <3>1
      <3>3. pointer' \in Nat /\ pointer <= pointer'
        BY <2>2, <2>3
      <3>4. r.address + 20 + r.payload.length <= pointer'
        BY <2>3, <3>1, <3>3
      <3> QED
        BY <2>4, <3>1, <3>2, <3>4 DEF Placed
    <2>7. ASSUME NEW r, r = new
          PROVE  Placed(r)'
      <3>1. r.address = pointer /\ r.payload = payload
        BY <2>7
      <3>2. \A i \in 0 .. 3 : log'[pointer + i] = GetBytes(size)[i]
        BY <2>1, <2>3, <2>4
      <3>3. \A i \in 0 .. payload.length - 1 : log'[pointer + 20 + i] = payload.bytes[i]
        <4> SUFFICES ASSUME NEW i \in 0 .. payload.length - 1
                     PROVE  log'[pointer + 20 + i] = payload.bytes[i]
          OBVIOUS
        <4>1. 20 + i \in 0 .. size - 1 /\ pointer + 20 + i = pointer + (20 + i)
          BY <2>1, <2>3
        <4> QED
          BY <2>1, <2>4, <4>1
      <3>4. pointer + 20 + payload.length <= pointer'
        BY <2>1, <2>2, <2>3
      <3> QED
        BY <3>1, <3>2, <3>3, <3>4 DEF Placed
    <2>8. ASSUME NEW r \in records'
          PROVE  Placed(r)'
      <3>1. r \in records \/ r = new
        BY <2>2
      <3> QED
        BY <2>6, <2>7, <3>1
    <2> QED
      BY <2>5, <2>8 DEF IInv
  <1>2. ASSUME UNCHANGED vars
        PROVE  IInv'
    BY <1>2 DEF IInv, TypeOK, Placed, vars
  <1> QED
    BY <1>1, <1>2 DEF Next, Read_Data

\* The types of the data file, its pointer and the records.
THEOREM RecordTypes == Spec => []TypeOK
  <1>1. IInv => TypeOK
    BY DEF IInv
  <1> QED
    BY InitInv, StepInv, <1>1, PTL DEF Spec

\* A value is read back from where its record was placed.
LEMMA PlacedReadsBack == IInv => PayloadsReadBack
  <1> SUFFICES ASSUME IInv, NEW r \in records
               PROVE  Payload_At(r.address) = r.payload
    BY DEF PayloadsReadBack
  <1> DEFINE size == 20 + r.payload.length
  <1>1. /\ pointer \in Nat /\ r.address \in Nat /\ r.payload \in Payloads
        /\ r.payload.length \in Nat /\ 20 + r.payload.length <= MaxInt
        /\ r.payload.bytes \in Array(r.payload.length)
        /\ r.payload = [length |-> r.payload.length, bytes |-> r.payload.bytes]
        /\ r.address + size <= pointer
    BY PayloadsAssumption DEF IInv, TypeOK, Placed
  <1>2. \A i \in 0 .. 3 : r.address + i < pointer
    BY <1>1
  <1>3. \A i \in 0 .. 3 : Read(r.address, 4)[i] = GetBytes(size)[i]
    BY <1>1, <1>2 DEF Read, IInv, Placed
  <1>4. ToInt32(Read(r.address, 4)) = ToInt32(GetBytes(size))
    BY <1>3, SMT DEF ToInt32
  <1>5. ToInt32(Read(r.address, 4)) = size
    BY <1>1, <1>4, Lengths
  <1>6. ASSUME NEW i \in 0 .. r.payload.length - 1
        PROVE  Buffer(r.address)[16 + i] = r.payload.bytes[i]
    <2>1. /\ 16 + i \in 0 .. size - 1
          /\ r.address + 4 + (16 + i) = r.address + 20 + i
          /\ r.address + 20 + i < pointer
      BY <1>1
    <2>2. Buffer(r.address) = Read(r.address + 4, size)
      BY <1>5 DEF Buffer
    <2>3. Read(r.address + 4, size)[16 + i] = log[r.address + 20 + i]
      BY <2>1 DEF Read
    <2> QED
      BY <2>2, <2>3 DEF IInv, Placed
  <1>7. size - 20 = r.payload.length /\ size - 21 = r.payload.length - 1
    BY <1>1
  <1>8. Payload_At(r.address) =
          [length |-> r.payload.length,
           bytes |-> [i \in 0 .. r.payload.length - 1 |-> Buffer(r.address)[16 + i]]]
    BY <1>5, <1>7 DEF Payload_At
  <1>9. [i \in 0 .. r.payload.length - 1 |-> Buffer(r.address)[16 + i]] = r.payload.bytes
    BY <1>1, <1>6 DEF Array
  <1> QED
    BY <1>1, <1>8, <1>9

\* Read_Data returns the bytes that were put, for keys of one to sixteen bytes,
\* values of every length, and whatever records follow.
THEOREM ValuesAreReadBack == Spec => []PayloadsReadBack
  BY InitInv, StepInv, PlacedReadsBack, PTL DEF Spec

-----------------------------------------------------------------------------
\* The bytes of nodes

\* A field of a node is in an array where it was copied to, and what is before
\* it is as it was.
Has_Field(new, old, at, n, field, width, count) ==
  /\ DOMAIN new = DOMAIN old
  /\ \A p \in DOMAIN old : p \in Nat /\ p < at => new[p] = old[p]
  /\ \A i \in 0 .. count - 1, b \in 0 .. width - 1 :
       at + width * i + b \in DOMAIN old =>
         new[at + width * i + b] = Layout!Byte(n, field, i, b)

\* What Memcpy copies is there.
LEMMA FieldCopied ==
  \A old, n, field : \A at \in Nat, width \in {1, 4, 8, 16}, count \in Nat :
    Has_Field(Layout!Copied(old, at, n, field, width, count), old, at, n, field, width, count)
<1> SUFFICES
      ASSUME NEW old, NEW n, NEW field,
             NEW at \in Nat, NEW width \in {1, 4, 8, 16}, NEW count \in Nat
      PROVE  Has_Field(Layout!Copied(old, at, n, field, width, count),
                       old, at, n, field, width, count)
  OBVIOUS
<1> DEFINE new == Layout!Copied(old, at, n, field, width, count)
<1>1. new = [p \in DOMAIN old |->
               IF p \in at .. at + width * count - 1
               THEN Layout!Byte(n, field, (p - at) \div width, (p - at) % width)
               ELSE old[p]]
  BY DEF Layout!Copied
<1> HIDE DEF new
<1>2. DOMAIN new = DOMAIN old
  BY <1>1
<1>3. ASSUME NEW p \in DOMAIN old, p \in Nat, p < at
      PROVE  new[p] = old[p]
  <2>1. p \notin at .. at + width * count - 1
    BY <1>3
  <2>2. QED
    BY <1>1, <2>1
<1>4. ASSUME NEW i \in 0 .. count - 1, NEW b \in 0 .. width - 1,
             at + width * i + b \in DOMAIN old
      PROVE  new[at + width * i + b] = Layout!Byte(n, field, i, b)
  <2> DEFINE p == at + width * i + b
  <2>1. /\ p \in at .. at + width * count - 1
        /\ (p - at) \div width = i /\ (p - at) % width = b
    <3>1. CASE width = 1
      BY <3>1
    <3>2. CASE width = 4
      BY <3>2
    <3>3. CASE width = 8
      BY <3>3
    <3>4. CASE width = 16
      BY <3>4
    <3>5. QED
      BY <3>1, <3>2, <3>3, <3>4
  <2>2. p \in DOMAIN old
    BY <1>4
  <2> HIDE DEF p
  <2>3. new[p] = Layout!Byte(n, field, i, b)
    BY <1>1, <2>1, <2>2
  <2>4. QED
    BY <2>3 DEF p
<1>5. Has_Field(new, old, at, n, field, width, count)
  BY <1>2, <1>3, <1>4 DEF Has_Field
<1>6. QED
  BY <1>5 DEF new

\* The slots of two nodes do not overlap, and the last one ends with the buffer.
LEMMA SlotsApart ==
  ASSUME NEW B \in Nat, NEW m \in Nat \ {0}, NEW n \in Nat, m < n
  PROVE  /\ (m - 1) * B \in Nat /\ (m - 1) * B + B = m * B
         /\ (m - 1) * B + B <= (n - 1) * B
<1>1. PICK d \in Nat : n - 1 = m + d
  <2>1. n - 1 - m \in Nat /\ n - 1 = m + (n - 1 - m)
    OBVIOUS
  <2>2. QED
    BY <2>1
<1>2. m * B \in Nat /\ d * B \in Nat
  OBVIOUS
<1>3. (m + d) * B = m * B + d * B
  OBVIOUS
<1>4. PICK e \in Nat : m = e + 1
  <2>1. m - 1 \in Nat /\ m = (m - 1) + 1
    OBVIOUS
  <2>2. QED
    BY <2>1
<1>5. (e + 1) * B = e * B + B /\ e * B \in Nat /\ m - 1 = e
  BY <1>4
<1>6. QED
  BY <1>1, <1>2, <1>3, <1>4, <1>5

\* A node in a buffer: its header, its keys and one pointer more, each where
\* From_Bytes looks for it.
Held(buffer, n) ==
  LET at == Layout!Slot(n)
      K == Layout!Key_Size
  IN /\ \A b \in 0 .. 3 : buffer[at + b] = Layout!Byte(n, "num", 0, b)
     /\ buffer[at + 4] = Layout!Byte(n, "leaf", 0, 0)
     /\ \A i \in 0 .. nodes[n].num - 1, b \in 0 .. K - 1 :
          buffer[at + 5 + K * i + b] = Layout!Byte(n, "key", i, b)
     /\ \A i \in 0 .. nodes[n].num, b \in 0 .. 7 :
          buffer[at + Layout!Pointers_Offset + 8 * i + b] = Layout!Byte(n, "pointer", i, b)

LayoutTypes ==
  /\ serializer \in Serializers
  /\ nodes \in [1 .. NodeCount -> [num : 0 .. Size - 1, leaf : BOOLEAN]]
  /\ DOMAIN nodeBuffer = 0 .. NodeCount * Layout!Block_Size - 1
  /\ written \in 0 .. NodeCount

LayoutInv == LayoutTypes /\ \A n \in 1 .. written : Held(nodeBuffer, n)

\* The sizes of a node: a slot has room for its header, Size keys and a pointer
\* more, and no slot reaches beyond the buffer or into the next one.
LEMMA Sizes ==
  ASSUME LayoutTypes, NEW n \in 1 .. NodeCount
  PROVE  /\ Layout!Key_Size \in {4, 8, 16}
         /\ Layout!Key_Size * Size \in Nat
         /\ Layout!Pointers_Offset = 5 + Layout!Key_Size * Size
         /\ Layout!Block_Size = 5 + Layout!Key_Size * Size + 8 * (Size + 1)
         /\ Layout!Block_Size \in Nat
         /\ Layout!Slot(n) \in Nat
         /\ NodeCount * Layout!Block_Size \in Nat
         /\ Layout!Slot(n) + Layout!Block_Size <= NodeCount * Layout!Block_Size
         /\ \A m \in 1 .. n - 1 : /\ Layout!Slot(m) \in Nat
                                  /\ Layout!Slot(m) + Layout!Block_Size <= Layout!Slot(n)
<1>1. Layout!Key_Size \in {4, 8, 16}
  BY DEF Layout!Key_Size
<1>2. /\ Layout!Pointers_Offset = 5 + Layout!Key_Size * Size
      /\ Layout!Block_Size = 4 + 1 + Layout!Key_Size * Size + 8 * (Size + 1)
  BY DEF Layout!Pointers_Offset, Layout!Block_Size
<1>3. PICK K \in {4, 8, 16} : K = Layout!Key_Size
  BY <1>1
<1>4. Size \in Nat /\ NodeCount \in Nat /\ K * Size \in Nat
  BY <1>3, LayoutAssumption
<1>5. PICK B \in Nat : B = 5 + K * Size + 8 * (Size + 1)
  BY <1>4
<1>6. Layout!Block_Size = B
  BY <1>2, <1>3, <1>4, <1>5
<1>7. \A m : Layout!Slot(m) = (m - 1) * B
  BY <1>6 DEF Layout!Slot
<1>8. n \in Nat \ {0} /\ n < NodeCount + 1 /\ NodeCount + 1 \in Nat
  BY <1>4
<1>9. /\ (n - 1) * B \in Nat
      /\ (n - 1) * B + B <= ((NodeCount + 1) - 1) * B
  BY <1>5, <1>8, SlotsApart
<1>10. (NodeCount + 1) - 1 = NodeCount /\ NodeCount * B \in Nat
  BY <1>4, <1>5
<1>11. ASSUME NEW m \in 1 .. n - 1
       PROVE  (m - 1) * B \in Nat /\ (m - 1) * B + B <= (n - 1) * B
  <2>1. m \in Nat \ {0} /\ n \in Nat /\ m < n
    BY <1>8
  <2>2. QED
    BY <1>5, <2>1, SlotsApart
<1>12. QED
  BY <1>1, <1>2, <1>3, <1>4, <1>5, <1>6, <1>7, <1>9, <1>10, <1>11

\* A node is copied to its slot, and what is before it is left alone.
LEMMA NodeCopied ==
  ASSUME LayoutTypes, NEW n \in 1 .. NodeCount
  PROVE  LET new == Layout!To_Bytes_In_Buffer(n) IN
         /\ DOMAIN new = DOMAIN nodeBuffer
         /\ \A p \in DOMAIN nodeBuffer : p < Layout!Slot(n) => new[p] = nodeBuffer[p]
         /\ Held(new, n)
<1>1. PICK K \in {4, 8, 16} : K = Layout!Key_Size
  BY Sizes
<1>2. PICK num \in 0 .. Size - 1 : num = nodes[n].num
  BY DEF LayoutTypes
<1>3. PICK kc \in {num, num + 1} : kc = Layout!Keys_Copied(num)
  BY DEF Layout!Keys_Copied
<1>4. PICK at \in Nat : at = Layout!Slot(n)
  BY Sizes
<1>5. PICK N \in Nat : N = NodeCount * Layout!Block_Size
  BY Sizes
<1>6. PICK M \in Nat : M = K * Size
  BY <1>1, LayoutAssumption
<1>7. /\ Layout!Pointers_Offset = 5 + M
      /\ at + (5 + M + 8 * (Size + 1)) <= N
      /\ DOMAIN nodeBuffer = 0 .. N - 1
      /\ Size \in Nat /\ num \in Nat /\ kc \in Nat /\ num <= kc /\ kc <= Size
      /\ num + 1 <= Size
  <2>1. Size \in Nat
    BY LayoutAssumption
  <2>2. num \in Nat /\ num + 1 <= Size /\ kc \in Nat /\ num <= kc /\ kc <= Size
    BY <1>2, <1>3, <2>1
  <2>3. /\ Layout!Pointers_Offset = 5 + M
        /\ Layout!Block_Size = 5 + M + 8 * (Size + 1)
        /\ at + Layout!Block_Size <= N
    BY <1>1, <1>4, <1>5, <1>6, Sizes
  <2>4. DOMAIN nodeBuffer = 0 .. N - 1
    BY <1>5 DEF LayoutTypes
  <2>5. QED
    BY <2>1, <2>2, <2>3, <2>4
<1> DEFINE numbered == Layout!Copied(nodeBuffer, at, n, "num", 4, 1)
           marked == Layout!Copied(numbered, at + 4, n, "leaf", 1, 1)
           keyed == Layout!Copied(marked, at + 5, n, "key", K, kc)
           new == Layout!Copied(keyed, at + (5 + M), n, "pointer", 8, num + 1)
<1>8. Layout!To_Bytes_In_Buffer(n) = new
  BY <1>1, <1>2, <1>3, <1>4, <1>7 DEF Layout!To_Bytes_In_Buffer
<1>9. /\ at + 4 \in Nat /\ at + 5 \in Nat /\ at + (5 + M) \in Nat /\ num + 1 \in Nat
      /\ (num + 1) - 1 = num /\ K \in {1, 4, 8, 16}
  OBVIOUS
<1>10. Has_Field(numbered, nodeBuffer, at, n, "num", 4, 1)
  BY FieldCopied
<1> HIDE DEF numbered
<1>11. Has_Field(marked, numbered, at + 4, n, "leaf", 1, 1)
  BY <1>9, FieldCopied
<1> HIDE DEF marked
<1>12. Has_Field(keyed, marked, at + 5, n, "key", K, kc)
  BY <1>7, <1>9, FieldCopied
<1> HIDE DEF keyed
<1>13. Has_Field(new, keyed, at + (5 + M), n, "pointer", 8, num + 1)
  BY <1>9, FieldCopied
<1> HIDE DEF new
<1>14. /\ DOMAIN numbered = 0 .. N - 1
       /\ \A p \in 0 .. N - 1 : p < at => numbered[p] = nodeBuffer[p]
       /\ \A b \in 0 .. 3 :
            at + 4 * 0 + b \in 0 .. N - 1 => numbered[at + 4 * 0 + b] = Layout!Byte(n, "num", 0, b)
  <2>1. /\ DOMAIN numbered = DOMAIN nodeBuffer
        /\ \A p \in DOMAIN nodeBuffer : p \in Nat /\ p < at => numbered[p] = nodeBuffer[p]
        /\ \A i \in 0 .. 1 - 1, b \in 0 .. 4 - 1 :
             at + 4 * i + b \in DOMAIN nodeBuffer =>
               numbered[at + 4 * i + b] = Layout!Byte(n, "num", i, b)
    BY <1>10 DEF Has_Field
  <2>2. DOMAIN nodeBuffer = 0 .. N - 1 /\ 0 \in 0 .. 1 - 1 /\ 0 .. 4 - 1 = 0 .. 3
    BY <1>7
  <2>3. \A b \in 0 .. 3 : at + 4 * 0 + b \in 0 .. N - 1 =>
          numbered[at + 4 * 0 + b] = Layout!Byte(n, "num", 0, b)
    BY <2>1, <2>2, Zenon
  <2>4. QED
    BY <2>1, <2>2, <2>3
<1>15. /\ DOMAIN marked = 0 .. N - 1
       /\ \A p \in 0 .. N - 1 : p < at + 4 => marked[p] = numbered[p]
       /\ at + 4 + 1 * 0 + 0 \in 0 .. N - 1 =>
            marked[at + 4 + 1 * 0 + 0] = Layout!Byte(n, "leaf", 0, 0)
  BY <1>11, <1>14 DEF Has_Field
<1>16. /\ DOMAIN keyed = 0 .. N - 1
       /\ \A p \in 0 .. N - 1 : p < at + 5 => keyed[p] = marked[p]
       /\ \A i \in 0 .. kc - 1, b \in 0 .. K - 1 :
            at + 5 + K * i + b \in 0 .. N - 1 =>
              keyed[at + 5 + K * i + b] = Layout!Byte(n, "key", i, b)
  BY <1>12, <1>15 DEF Has_Field
<1>17. /\ DOMAIN new = 0 .. N - 1
       /\ \A p \in 0 .. N - 1 : p < at + (5 + M) => new[p] = keyed[p]
       /\ \A i \in 0 .. num, b \in 0 .. 7 :
            at + (5 + M) + 8 * i + b \in 0 .. N - 1 =>
              new[at + (5 + M) + 8 * i + b] = Layout!Byte(n, "pointer", i, b)
  BY <1>9, <1>13, <1>16 DEF Has_Field
<1>18. ASSUME NEW p \in 0 .. N - 1, p < at
       PROVE  new[p] = nodeBuffer[p]
  <2>1. p < at + 4 /\ p < at + 5 /\ p < at + (5 + M)
    BY <1>18
  <2>2. QED
    BY <1>14, <1>15, <1>16, <1>17, <1>18, <2>1
<1>19. ASSUME NEW b \in 0 .. 3
       PROVE  new[at + b] = Layout!Byte(n, "num", 0, b)
  <2>1. /\ at + b \in 0 .. N - 1 /\ at + b < at + 4 /\ at + b < at + 5 /\ at + b < at + (5 + M)
        /\ at + 4 * 0 + b = at + b
    BY <1>7
  <2>2. numbered[at + b] = Layout!Byte(n, "num", 0, b)
    BY <1>14, <2>1
  <2>3. QED
    BY <1>15, <1>16, <1>17, <2>1, <2>2
<1>20. new[at + 4] = Layout!Byte(n, "leaf", 0, 0)
  <2>1. /\ at + 4 \in 0 .. N - 1 /\ at + 4 < at + 5 /\ at + 4 < at + (5 + M)
        /\ at + 4 + 1 * 0 + 0 = at + 4
    BY <1>7
  <2>2. marked[at + 4] = Layout!Byte(n, "leaf", 0, 0)
    BY <1>15, <2>1
  <2>3. QED
    BY <1>16, <1>17, <2>1, <2>2
<1>21. ASSUME NEW i \in 0 .. num - 1, NEW b \in 0 .. K - 1
       PROVE  new[at + 5 + K * i + b] = Layout!Byte(n, "key", i, b)
  <2>1. i \in 0 .. kc - 1 /\ K * i + b < M /\ K * i \in Nat /\ b \in Nat
    <3>1. i \in Nat /\ i + 1 <= Size
      BY <1>7
    <3>2. CASE K = 4
      BY <1>6, <1>7, <3>1, <3>2
    <3>3. CASE K = 8
      BY <1>6, <1>7, <3>1, <3>3
    <3>4. CASE K = 16
      BY <1>6, <1>7, <3>1, <3>4
    <3>5. QED
      BY <3>2, <3>3, <3>4
  <2>2. PICK q \in Nat : q = K * i
    BY <2>1
  <2>3. at + 5 + q + b \in 0 .. N - 1 /\ at + 5 + q + b < at + (5 + M)
    BY <1>7, <2>1, <2>2
  <2>4. keyed[at + 5 + q + b] = Layout!Byte(n, "key", i, b)
    BY <1>16, <2>1, <2>2, <2>3
  <2>5. QED
    BY <1>17, <2>2, <2>3, <2>4
<1>22. ASSUME NEW i \in 0 .. num, NEW b \in 0 .. 7
       PROVE  new[at + (5 + M) + 8 * i + b] = Layout!Byte(n, "pointer", i, b)
  <2>1. at + (5 + M) + 8 * i + b \in 0 .. N - 1
    BY <1>7
  <2>2. QED
    BY <1>17, <2>1
<1>23. Held(new, n)
  BY <1>1, <1>2, <1>4, <1>7, <1>19, <1>20, <1>21, <1>22 DEF Held
<1>24. QED
  BY <1>4, <1>7, <1>8, <1>17, <1>18, <1>23

\* A node that is held is read back, with every serializer that reads a key
\* where it was written.
LEMMA HeldIsRead ==
  ASSUME LayoutTypes, serializer # "Guid", NEW n \in 1 .. NodeCount, Held(nodeBuffer, n)
  PROVE  /\ Layout!Num_Read(n) = Layout!Field(n, "num", 0, 4)
         /\ Layout!Leaf_Read(n) = Layout!Field(n, "leaf", 0, 1)
         /\ \A i \in 0 .. nodes[n].num - 1 :
              Layout!Key_Read(n, i) = Layout!Field(n, "key", i, Layout!Key_Size)
         /\ \A i \in 0 .. nodes[n].num :
              Layout!Pointer_Read(n, i) = Layout!Field(n, "pointer", i, 8)
<1>1. PICK K \in {4, 8, 16} : K = Layout!Key_Size
  BY Sizes
<1>2. PICK at \in Nat : at = Layout!Slot(n)
  BY Sizes
<1>3. PICK after \in Nat : after = Layout!Pointers_Offset
  BY Sizes
<1>4. PICK num \in 0 .. Size - 1 : num = nodes[n].num
  BY DEF LayoutTypes
<1>5. /\ \A b \in 0 .. 3 : nodeBuffer[at + b] = Layout!Byte(n, "num", 0, b)
      /\ nodeBuffer[at + 4] = Layout!Byte(n, "leaf", 0, 0)
      /\ \A i \in 0 .. num - 1, b \in 0 .. K - 1 :
           nodeBuffer[at + 5 + K * i + b] = Layout!Byte(n, "key", i, b)
      /\ \A i \in 0 .. num, b \in 0 .. 7 :
           nodeBuffer[at + after + 8 * i + b] = Layout!Byte(n, "pointer", i, b)
  BY <1>1, <1>2, <1>3, <1>4 DEF Held
<1>6. Layout!Num_Read(n) = Layout!Field(n, "num", 0, 4)
  BY <1>2, <1>5 DEF Layout!Num_Read, Layout!Read, Layout!Field
<1>7. Layout!Leaf_Read(n) = Layout!Field(n, "leaf", 0, 1)
  <2>1. \A b \in 0 .. 1 - 1 : nodeBuffer[at + 4 + b] = Layout!Byte(n, "leaf", 0, b)
    BY <1>5
  <2>2. QED
    BY <1>2, <2>1 DEF Layout!Leaf_Read, Layout!Read, Layout!Field
<1>8. ASSUME NEW i \in 0 .. num - 1
      PROVE  Layout!Key_Read(n, i) = Layout!Field(n, "key", i, K)
  <2>1. PICK q \in Nat : q = K * i /\ q = i * K
    <3>1. i \in Nat
      BY <1>4
    <3>2. QED
      BY <3>1
  <2>2. Layout!Key_Offset(i) = 5 + q
    BY <1>1, <2>1 DEF Layout!Key_Offset
  <2>3. ASSUME NEW b \in 0 .. K - 1
        PROVE  nodeBuffer[at + (5 + q) + b] = Layout!Byte(n, "key", i, b)
    <3>1. nodeBuffer[at + 5 + q + b] = Layout!Byte(n, "key", i, b)
      BY <1>5, <2>1
    <3>2. at + 5 + q + b = at + (5 + q) + b
      OBVIOUS
    <3>3. QED
      BY <3>1, <3>2
  <2>4. Layout!Key_Read(n, i) = [b \in 0 .. K - 1 |-> nodeBuffer[at + (5 + q) + b]]
    BY <1>1, <1>2, <2>2 DEF Layout!Key_Read, Layout!Read
  <2>5. QED
    BY <2>3, <2>4 DEF Layout!Field
<1>9. ASSUME NEW i \in 0 .. num
      PROVE  Layout!Pointer_Read(n, i) = Layout!Field(n, "pointer", i, 8)
  <2>1. PICK q \in Nat : q = 8 * i
    OBVIOUS
  <2>2. Layout!Pointer_Read(n, i) = [b \in 0 .. 8 - 1 |-> nodeBuffer[at + after + q + b]]
    BY <1>2, <1>3, <2>1 DEF Layout!Pointer_Read, Layout!Read
  <2>3. ASSUME NEW b \in 0 .. 8 - 1
        PROVE  nodeBuffer[at + after + q + b] = Layout!Byte(n, "pointer", i, b)
    <3>1. b \in 0 .. 7
      OBVIOUS
    <3>2. nodeBuffer[at + after + 8 * i + b] = Layout!Byte(n, "pointer", i, b)
      BY <1>5, <3>1
    <3>3. QED
      BY <2>1, <3>2
  <2>4. QED
    BY <2>2, <2>3 DEF Layout!Field
<1>10. QED
  BY <1>1, <1>4, <1>6, <1>7, <1>8, <1>9

\* A node that is held stays there when what is before a later slot does not
\* change.
LEMMA HeldKept ==
  ASSUME LayoutTypes, NEW n \in 1 .. NodeCount, NEW m \in 1 .. n - 1, NEW new,
         \A p \in DOMAIN nodeBuffer : p < Layout!Slot(n) => new[p] = nodeBuffer[p],
         Held(nodeBuffer, m)
  PROVE  Held(new, m)
<1>1. m \in 1 .. NodeCount
  BY LayoutAssumption
<1>2. PICK K \in {4, 8, 16} : K = Layout!Key_Size
  BY Sizes
<1>3. PICK at \in Nat : at = Layout!Slot(m)
  BY <1>1, Sizes
<1>4. PICK num \in 0 .. Size - 1 : num = nodes[m].num
  BY <1>1 DEF LayoutTypes
<1>5. PICK M \in Nat : M = K * Size
  BY <1>2, LayoutAssumption
<1>6. /\ Layout!Pointers_Offset = 5 + M
      /\ at + (5 + M + 8 * (Size + 1)) <= Layout!Slot(n)
      /\ Size \in Nat /\ num \in Nat /\ num + 1 <= Size
  <2>1. Size \in Nat
    BY LayoutAssumption
  <2>2. num \in Nat /\ num + 1 <= Size
    BY <1>4, <2>1
  <2>3. /\ Layout!Pointers_Offset = 5 + M
        /\ Layout!Block_Size = 5 + M + 8 * (Size + 1)
        /\ at + Layout!Block_Size <= Layout!Slot(n)
    BY <1>2, <1>3, <1>5, Sizes
  <2>4. QED
    BY <2>1, <2>2, <2>3
<1>7. PICK end \in Nat : end = Layout!Slot(n)
  BY Sizes
<1>8. \A p \in Nat : p < at + (5 + M + 8 * (Size + 1)) => new[p] = nodeBuffer[p]
  <2>1. PICK N \in Nat : N = NodeCount * Layout!Block_Size
    BY Sizes
  <2>2. end <= N
    BY <1>7, <2>1, Sizes
  <2>3. DOMAIN nodeBuffer = 0 .. N - 1
    BY <2>1 DEF LayoutTypes
  <2>4. QED
    BY <1>6, <1>7, <2>2, <2>3
<1>9. /\ \A b \in 0 .. 3 : nodeBuffer[at + b] = Layout!Byte(m, "num", 0, b)
      /\ nodeBuffer[at + 4] = Layout!Byte(m, "leaf", 0, 0)
      /\ \A i \in 0 .. num - 1, b \in 0 .. K - 1 :
           nodeBuffer[at + 5 + K * i + b] = Layout!Byte(m, "key", i, b)
      /\ \A i \in 0 .. num, b \in 0 .. 7 :
           nodeBuffer[at + (5 + M) + 8 * i + b] = Layout!Byte(m, "pointer", i, b)
  BY <1>1, <1>2, <1>3, <1>4, <1>6 DEF Held
<1>10. (\A b \in 0 .. 3 : new[at + b] = nodeBuffer[at + b]) /\ new[at + 4] = nodeBuffer[at + 4]
  BY <1>6, <1>8
<1>11. ASSUME NEW i \in 0 .. num - 1, NEW b \in 0 .. K - 1
       PROVE  new[at + 5 + K * i + b] = nodeBuffer[at + 5 + K * i + b]
  <2>1. i \in Nat /\ i + 1 <= Size
    BY <1>6
  <2>2. K * i + b < M /\ K * i + b \in Nat
    <3>1. CASE K = 4
      BY <1>5, <1>6, <2>1, <3>1
    <3>2. CASE K = 8
      BY <1>5, <1>6, <2>1, <3>2
    <3>3. CASE K = 16
      BY <1>5, <1>6, <2>1, <3>3
    <3>4. QED
      BY <3>1, <3>2, <3>3
  <2>3. PICK q \in Nat : q = K * i + b
    BY <2>2
  <2>4. PICK p \in Nat : p = at + 5 + q
    OBVIOUS
  <2>5. at + 5 + K * i + b = p /\ p < at + (5 + M + 8 * (Size + 1))
    <3>1. K * i \in Int /\ b \in Int
      BY <2>1
    <3>2. QED
      BY <1>6, <2>2, <2>3, <2>4, <3>1
  <2>6. QED
    BY <1>8, <2>5
<1>12. ASSUME NEW i \in 0 .. num, NEW b \in 0 .. 7
       PROVE  new[at + (5 + M) + 8 * i + b] = nodeBuffer[at + (5 + M) + 8 * i + b]
  <2>1. /\ at + (5 + M) + 8 * i + b \in Nat
        /\ at + (5 + M) + 8 * i + b < at + (5 + M + 8 * (Size + 1))
    BY <1>6
  <2>2. QED
    BY <1>8, <2>1
<1>13. /\ \A b \in 0 .. 3 : new[at + b] = Layout!Byte(m, "num", 0, b)
       /\ new[at + 4] = Layout!Byte(m, "leaf", 0, 0)
       /\ \A i \in 0 .. num - 1, b \in 0 .. K - 1 :
            new[at + 5 + K * i + b] = Layout!Byte(m, "key", i, b)
       /\ \A i \in 0 .. num, b \in 0 .. 7 :
            new[at + (5 + M) + 8 * i + b] = Layout!Byte(m, "pointer", i, b)
  <2>1. \A i \in 0 .. num - 1, b \in 0 .. K - 1 :
          new[at + 5 + K * i + b] = Layout!Byte(m, "key", i, b)
    BY <1>9, <1>11
  <2>2. \A i \in 0 .. num, b \in 0 .. 7 :
          new[at + (5 + M) + 8 * i + b] = Layout!Byte(m, "pointer", i, b)
    BY <1>9, <1>12
  <2>3. QED
    BY <1>9, <1>10, <2>1, <2>2
<1>14. QED
  BY <1>2, <1>3, <1>4, <1>6, <1>13 DEF Held

\* Every node that is copied is in the buffer, and those before it stay there.
LEMMA LayoutStep ==
  ASSUME LayoutInv, [Layout!Next]_(Layout!vars)
  PROVE  LayoutInv'
<1>1. CASE Layout!Write_Node
  <2>1. /\ nodeBuffer' = Layout!To_Bytes_In_Buffer(written + 1) /\ written' = written + 1
        /\ serializer' = serializer /\ nodes' = nodes /\ written < NodeCount
    BY <1>1 DEF Layout!Write_Node
  <2>2. written \in Nat /\ written + 1 \in 1 .. NodeCount /\ written' \in 0 .. NodeCount
    BY <2>1, LayoutAssumption DEF LayoutInv, LayoutTypes
  <2>3. PICK n \in 1 .. NodeCount : n = written + 1
    BY <2>2
  <2>4. PICK new : new = Layout!To_Bytes_In_Buffer(n)
    OBVIOUS
  <2>5. /\ DOMAIN new = DOMAIN nodeBuffer
        /\ \A p \in DOMAIN nodeBuffer : p < Layout!Slot(n) => new[p] = nodeBuffer[p]
        /\ Held(new, n)
    BY <2>4, NodeCopied DEF LayoutInv
  <2>6. nodeBuffer' = new
    BY <2>1, <2>3, <2>4
  <2>7. /\ Layout!Key_Size' = Layout!Key_Size
        /\ Layout!Block_Size' = Layout!Block_Size
        /\ Layout!Pointers_Offset' = Layout!Pointers_Offset
    BY <2>1 DEF Layout!Key_Size, Layout!Block_Size, Layout!Pointers_Offset
  <2>8. LayoutTypes'
    BY <2>1, <2>2, <2>5, <2>6, <2>7 DEF LayoutInv, LayoutTypes
  <2>9. ASSUME NEW m \in 1 .. n - 1
        PROVE  Held(new, m)
    <3>1. m \in 1 .. written
      BY <2>2, <2>3, LayoutAssumption
    <3>2. Held(nodeBuffer, m)
      BY <3>1 DEF LayoutInv
    <3>3. QED
      BY <2>5, <3>2, HeldKept DEF LayoutInv
  <2>10. \A m \in 1 .. n : Held(new, m)
    BY <2>5, <2>9
  <2>11. ASSUME NEW m \in 1 .. written'
         PROVE  Held(nodeBuffer, m)'
    <3>1. m \in 1 .. n
      BY <2>1, <2>3
    <3>2. Held(new, m)
      BY <2>10, <3>1
    <3>3. Layout!Slot(m)' = Layout!Slot(m)
      BY <2>7 DEF Layout!Slot
    <3>4. QED
      BY <2>1, <2>6, <2>7, <3>2, <3>3 DEF Held
  <2>12. QED
    BY <2>8, <2>11 DEF LayoutInv
<1>2. CASE UNCHANGED Layout!vars
  <2>1. nodeBuffer' = nodeBuffer /\ written' = written /\ serializer' = serializer /\ nodes' = nodes
    BY <1>2 DEF Layout!vars
  <2>2. /\ Layout!Key_Size' = Layout!Key_Size
        /\ Layout!Block_Size' = Layout!Block_Size
        /\ Layout!Pointers_Offset' = Layout!Pointers_Offset
    BY <2>1 DEF Layout!Key_Size, Layout!Block_Size, Layout!Pointers_Offset
  <2>3. \A m : Layout!Slot(m)' = Layout!Slot(m)
    BY <2>2 DEF Layout!Slot
  <2>4. QED
    BY <2>1, <2>2, <2>3 DEF LayoutInv, LayoutTypes, Held
<1>3. QED
  BY <1>1, <1>2 DEF Layout!Next

\* A new buffer has no nodes.
LEMMA LayoutStart == Layout!Init => LayoutInv
BY LayoutAssumption DEF Layout!Init, LayoutInv, LayoutTypes

\* Every node of a commit is read back from its slot, for every size of nodes
\* and commits and every serializer but Guid_Serializer, which reads keys from
\* the start of the slot.
THEOREM NodesAreReadBack ==
  ASSUME "Guid" \notin Serializers
  PROVE  Layout!Spec => []NodesReadBack
<1>1. LayoutInv => NodesReadBack
  <2> SUFFICES ASSUME LayoutInv, NEW n \in 1 .. written
               PROVE  /\ Layout!Num_Read(n) = Layout!Field(n, "num", 0, 4)
                      /\ Layout!Leaf_Read(n) = Layout!Field(n, "leaf", 0, 1)
                      /\ \A i \in 0 .. nodes[n].num - 1 :
                           Layout!Key_Read(n, i) = Layout!Field(n, "key", i, Layout!Key_Size)
                      /\ \A i \in 0 .. nodes[n].num :
                           Layout!Pointer_Read(n, i) = Layout!Field(n, "pointer", i, 8)
    BY DEF NodesReadBack, Layout!NodesReadBack
  <2>1. n \in 1 .. NodeCount /\ serializer # "Guid" /\ Held(nodeBuffer, n)
    BY LayoutAssumption DEF LayoutInv, LayoutTypes
  <2>2. QED
    BY <2>1, HeldIsRead DEF LayoutInv
<1>2. LayoutInv /\ [Layout!Next]_(Layout!vars) => LayoutInv'
  BY LayoutStep
<1>3. QED
  BY <1>1, <1>2, LayoutStart, PTL DEF Layout!Spec

-----------------------------------------------------------------------------
\* The data file and the buffer of its stream

\* The operators of DataLog are those of this module.
LEMMA SameOperators ==
  /\ \A S : Stream!Max(S) = Max(S)
  /\ \A S : Stream!Cardinality(S) = Cardinality(S)
  /\ \A f : Stream!Range(f) = {f[x] : x \in DOMAIN f}
BY DEF Stream!Max, Max, Stream!Cardinality, Cardinality, Stream!Range

\* Nothing is written with no records.
LEMMA NothingWritten ==
  ASSUME NEW K, NEW file \in Seq(K)
  PROVE  Stream!With_Records(file, {}) = file
<1>1. {Len(file)} \cup {r.address : r \in {}} = {Len(file)}
  OBVIOUS
<1>2. Max({Len(file)}) = Len(file)
  BY DEF Max
<1>3. Stream!Max({Len(file)} \cup {r.address : r \in {}}) = Len(file)
  BY <1>1, <1>2, SameOperators
<1>4. Stream!With_Records(file, {}) = [a \in 1 .. Len(file) |-> file[a]]
  BY <1>3 DEF Stream!With_Records
<1>5. QED
  BY <1>4

\* A record written at the end of a file is appended to it.
LEMMA RecordAppended ==
  ASSUME NEW K, NEW file \in Seq(K), NEW key \in K
  PROVE  Stream!With_Records(file, {[address |-> Len(file) + 1, key |-> key]}) = Append(file, key)
<1> DEFINE n == Len(file)
           r == [address |-> n + 1, key |-> key]
<1>1. n \in Nat /\ {n} \cup {q.address : q \in {r}} = {n, n + 1}
  OBVIOUS
<1>2. \A x \in {n, n + 1} : (\A y \in {n, n + 1} : x >= y) <=> x = n + 1
  BY <1>1
<1>3. Max({n, n + 1}) = n + 1
  BY <1>1, <1>2 DEF Max
<1>4. Stream!Max({n} \cup {q.address : q \in {r}}) = n + 1
  BY <1>1, <1>3, SameOperators
<1>5. Append(file, key) = [a \in 1 .. n + 1 |-> IF a = n + 1 THEN key ELSE file[a]]
  <2> DEFINE longer == Append(file, key)
  <2>1. /\ longer \in Seq(K) /\ Len(longer) = n + 1
        /\ \A a \in 1 .. n : longer[a] = file[a]
        /\ longer[n + 1] = key
    BY AppendProperties
  <2> HIDE DEF longer
  <2>2. longer = [a \in 1 .. n + 1 |-> longer[a]]
    BY <2>1
  <2>3. \A a \in 1 .. n + 1 : longer[a] = IF a = n + 1 THEN key ELSE file[a]
    BY <1>1, <2>1
  <2>4. QED
    BY <2>2, <2>3 DEF longer
<1>6. ASSUME NEW a \in 1 .. n + 1
      PROVE  (CASE \E q \in {r} : q.address = a -> (CHOOSE q \in {r} : q.address = a).key
                [] a \in DOMAIN file /\ ~ \E q \in {r} : q.address = a -> file[a]
                [] OTHER -> Hole)
               = IF a = n + 1 THEN key ELSE file[a]
  <2>1. (\E q \in {r} : q.address = a) <=> a = n + 1
    OBVIOUS
  <2>2. CASE a = n + 1
    <3>1. (CHOOSE q \in {r} : q.address = a) = r
      BY <2>2
    <3>2. QED
      BY <2>1, <2>2, <3>1
  <2>3. CASE a # n + 1
    BY <1>1, <2>1, <2>3
  <2>4. QED
    BY <2>2, <2>3
<1>7. Stream!With_Records(file, {r}) =
        [a \in 1 .. n + 1 |->
           CASE \E q \in {r} : q.address = a -> (CHOOSE q \in {r} : q.address = a).key
             [] a \in DOMAIN file /\ ~ \E q \in {r} : q.address = a -> file[a]
             [] OTHER -> Hole]
  BY <1>4 DEF Stream!With_Records
<1>8. QED
  BY <1>5, <1>6, <1>7

\* The stream holds at most the record after the last one on file, and the
\* pointer is where both end: there are no holes.
OnFile ==
  /\ logFile \in Seq(LogKeys)
  /\ \/ streamBuffer = {}
     \/ \E key \in LogKeys : streamBuffer = {[address |-> Len(logFile) + 1, key |-> key]}
  /\ logPointer = Len(Stream!Flushed) + 1

\* Keys of a tree that a file does not have where the tree leads.
Lost(file, tree) == {key \in DOMAIN tree : ~ Stream!Leads_To_Its_Record(file, tree, key)}

\* The working tree has the one on file in it, and what is more in it this
\* process put.
Trees ==
  /\ IsFiniteSet(DOMAIN working)
  /\ DOMAIN working \subseteq LogKeys
  /\ \A key \in DOMAIN stored : key \in DOMAIN working /\ stored[key] = working[key]
  /\ \A key \in DOMAIN working : key \in DOMAIN stored \/ key \in fresh
  /\ fresh \subseteq DOMAIN working

Readable == \A key \in fresh : Stream!Leads_To_Its_Record(Stream!Flushed, working, key)

LossBounded ==
  /\ crashes \in Nat
  /\ Cardinality(Lost(Stream!Flushed, stored)) <= crashes

Bounds ==
  /\ logPointer <= MaxRecords + 1
  /\ \A key \in DOMAIN working : working[key] \in 1 .. MaxRecords
  /\ crashes \in 0 .. MaxCrashes

StreamInv == OnFile /\ Trees /\ Readable /\ LossBounded /\ Bounds

\* The file as the process sees it is the file on disk, with the record of the
\* buffer after it if there is one.
LEMMA FlushedShape ==
  ASSUME OnFile
  PROVE  /\ Stream!Flushed \in Seq(LogKeys)
         /\ \/ streamBuffer = {} /\ Stream!Flushed = logFile
            \/ \E key \in LogKeys :
                 /\ streamBuffer = {[address |-> Len(logFile) + 1, key |-> key]}
                 /\ Stream!Flushed = Append(logFile, key)
<1>1. logFile \in Seq(LogKeys)
  BY DEF OnFile
<1>2. CASE streamBuffer = {}
  <2>1. Stream!Flushed = logFile
    BY <1>1, <1>2, NothingWritten DEF Stream!Flushed
  <2>2. QED
    BY <1>1, <1>2, <2>1
<1>3. CASE \E key \in LogKeys : streamBuffer = {[address |-> Len(logFile) + 1, key |-> key]}
  <2>1. PICK key \in LogKeys : streamBuffer = {[address |-> Len(logFile) + 1, key |-> key]}
    BY <1>3
  <2>2. Stream!Flushed = Append(logFile, key)
    BY <1>1, <2>1, RecordAppended DEF Stream!Flushed
  <2>3. Append(logFile, key) \in Seq(LogKeys)
    BY <1>1, AppendProperties
  <2>4. QED
    BY <2>1, <2>2, <2>3
<1>4. QED
  BY <1>2, <1>3 DEF OnFile

\* A longer file leads a tree to no fewer of its records.
LEMMA LongerFile ==
  ASSUME NEW K, NEW file \in Seq(K), NEW longer \in Seq(K), NEW tree,
         \A a \in 1 .. Len(file) : a \in 1 .. Len(longer) /\ longer[a] = file[a]
  PROVE  /\ \A key \in DOMAIN tree : Stream!Leads_To_Its_Record(file, tree, key) =>
                                       Stream!Leads_To_Its_Record(longer, tree, key)
         /\ Lost(longer, tree) \subseteq Lost(file, tree)
<1>1. DOMAIN file = 1 .. Len(file) /\ DOMAIN longer = 1 .. Len(longer)
  OBVIOUS
<1>2. QED
  BY <1>1 DEF Lost, Stream!Leads_To_Its_Record

\* A sequence with one element more has the others where they were.
LEMMA OneMore ==
  ASSUME NEW K, NEW file \in Seq(K), NEW key \in K
  PROVE  /\ Append(file, key) \in Seq(K)
         /\ Len(Append(file, key)) = Len(file) + 1
         /\ \A a \in 1 .. Len(file) :
              a \in 1 .. Len(Append(file, key)) /\ Append(file, key)[a] = file[a]
         /\ Append(file, key)[Len(file) + 1] = key
BY AppendProperties

\* The invariant holds of new files.
LEMMA StreamStart == Stream!Init => StreamInv
<1> SUFFICES ASSUME Stream!Init
             PROVE  StreamInv
  OBVIOUS
<1>1. /\ logFile = <<>> /\ streamBuffer = {} /\ logPointer = 1
      /\ DOMAIN working = {} /\ DOMAIN stored = {} /\ fresh = {} /\ crashes = 0
  BY DEF Stream!Init, Stream!NoBuffer, Stream!Empty
<1>2. logFile \in Seq(LogKeys) /\ Len(logFile) = 0
  BY <1>1
<1>3. Stream!Flushed = logFile
  BY <1>1, <1>2, NothingWritten DEF Stream!Flushed
<1>4. OnFile
  BY <1>1, <1>2, <1>3 DEF OnFile
<1>5. Trees /\ Readable
  BY <1>1, FS_EmptySet DEF Trees, Readable
<1>6. Lost(Stream!Flushed, stored) = {}
  BY <1>1 DEF Lost
<1>7. LossBounded
  BY <1>1, <1>6, FS_EmptySet DEF LossBounded
<1>8. Bounds
  BY <1>1, StreamAssumption DEF Bounds
<1>9. QED
  BY <1>4, <1>5, <1>7, <1>8 DEF StreamInv

\* Put appends its record, in the buffer or past it.
LEMMA PutAppends ==
  ASSUME OnFile, NEW key \in LogKeys, Stream!Write_Data(key)
  PROVE  /\ OnFile'
         /\ Stream!Flushed' = Append(Stream!Flushed, key)
         /\ logPointer' = logPointer + 1
         /\ logFile' = Stream!Flushed \/ logFile' = Append(Stream!Flushed, key)
<1>1. PICK F \in Seq(LogKeys) : F = Stream!Flushed
  BY FlushedShape
<1>2. PICK r : r = [address |-> logPointer, key |-> key]
  OBVIOUS
<1>3. logPointer = Len(F) + 1 /\ Len(F) \in Nat
  BY <1>1 DEF OnFile
<1>4. /\ Append(F, key) \in Seq(LogKeys) /\ Len(Append(F, key)) = Len(F) + 1
      /\ Stream!With_Records(F, {r}) = Append(F, key)
  BY <1>2, <1>3, OneMore, RecordAppended
<1>5. /\ \/ logFile' = F /\ streamBuffer' = {r}
         \/ logFile' = Append(F, key) /\ streamBuffer' = {}
      /\ logPointer' = logPointer + 1
  BY <1>1, <1>2, <1>4 DEF Stream!Write_Data, Stream!NoBuffer
<1>6. Stream!Flushed' = Stream!With_Records(logFile', streamBuffer')
  BY DEF Stream!Flushed
<1>7. Stream!Flushed' = Append(F, key)
  BY <1>4, <1>5, <1>6, NothingWritten
<1>8. OnFile'
  BY <1>2, <1>3, <1>4, <1>5, <1>7 DEF OnFile
<1>9. QED
  BY <1>1, <1>5, <1>7, <1>8

\* What is lost is a finite set, and a part of it is no larger.
LEMMA LostIsFinite ==
  ASSUME Trees
  PROVE  /\ IsFiniteSet(DOMAIN stored)
         /\ \A file : /\ IsFiniteSet(Lost(file, stored))
                      /\ Cardinality(Lost(file, stored)) \in Nat
                      /\ \A S \in SUBSET Lost(file, stored) :
                           /\ IsFiniteSet(S) /\ Cardinality(S) \in Nat
                           /\ Cardinality(S) <= Cardinality(Lost(file, stored))
<1>1. IsFiniteSet(DOMAIN stored)
  BY FS_Subset DEF Trees
<1>2. \A file : IsFiniteSet(Lost(file, stored))
  BY <1>1, FS_Subset DEF Lost
<1>3. QED
  BY <1>1, <1>2, FS_Subset, FS_CardinalityType

\* A Put keeps the invariant: the record goes to the end, and the leaf of a new
\* key gets the address.
LEMMA PutStep ==
  ASSUME StreamInv, NEW key \in LogKeys, Stream!Put(key)
  PROVE  StreamInv'
<1>1. PICK F \in Seq(LogKeys) : F = Stream!Flushed
  BY FlushedShape DEF StreamInv
<1>2. /\ OnFile' /\ Stream!Flushed' = Append(F, key) /\ logPointer' = logPointer + 1
      /\ stored' = stored /\ crashes' = crashes
  BY <1>1, PutAppends DEF StreamInv, Stream!Put
<1>3. logPointer = Len(F) + 1 /\ Len(F) \in Nat /\ logPointer <= MaxRecords
  BY <1>1 DEF StreamInv, OnFile, Stream!Put
<1>4. PICK G \in Seq(LogKeys) : G = Append(F, key)
  BY OneMore
<1>5. /\ Len(G) = Len(F) + 1 /\ G[Len(F) + 1] = key
      /\ \A a \in 1 .. Len(F) : a \in 1 .. Len(G) /\ G[a] = F[a]
  BY <1>4, OneMore
<1>6. /\ Lost(G, stored) \subseteq Lost(F, stored)
      /\ \A k \in DOMAIN working : Stream!Leads_To_Its_Record(F, working, k) =>
                                     Stream!Leads_To_Its_Record(G, working, k)
  BY <1>5, LongerFile
<1>7. \A k \in fresh : Stream!Leads_To_Its_Record(F, working, k)
  BY <1>1 DEF StreamInv, Readable
<1>8. LossBounded'
  <2>1. Cardinality(Lost(G, stored)) \in Nat /\ Cardinality(Lost(F, stored)) \in Nat
        /\ Cardinality(Lost(G, stored)) <= Cardinality(Lost(F, stored))
    BY <1>6, LostIsFinite DEF StreamInv
  <2>2. Cardinality(Lost(F, stored)) <= crashes /\ crashes \in Nat
    BY <1>1 DEF StreamInv, LossBounded
  <2>3. Cardinality(Lost(G, stored)) <= crashes
    BY <2>1, <2>2
  <2>4. Lost(Stream!Flushed, stored)' = Lost(G, stored)
    BY <1>2, <1>4 DEF Lost, Stream!Leads_To_Its_Record
  <2>5. QED
    BY <1>2, <2>2, <2>3, <2>4 DEF LossBounded
<1>9. CASE key \in DOMAIN working
  <2>1. working' = working /\ fresh' = fresh
    BY <1>9 DEF Stream!Put
  <2>2. Trees'
    BY <1>2, <2>1 DEF StreamInv, Trees
  <2>3. Readable'
    BY <1>2, <1>4, <1>6, <1>7, <2>1 DEF Readable, StreamInv, Trees, Stream!Leads_To_Its_Record
  <2>4. Bounds'
    BY <1>2, <1>3, <2>1, StreamAssumption DEF StreamInv, Bounds
  <2>5. QED
    BY <1>2, <1>8, <2>2, <2>3, <2>4 DEF StreamInv
<1>10. CASE key \notin DOMAIN working
  <2>1. /\ working' = [k \in DOMAIN working \cup {key} |->
                         IF k = key THEN logPointer ELSE working[k]]
        /\ fresh' = fresh \cup {key}
    BY <1>10 DEF Stream!Put
  <2>2. /\ DOMAIN working' = DOMAIN working \cup {key}
        /\ working'[key] = logPointer
        /\ \A k \in DOMAIN working : working'[k] = working[k]
    BY <1>10, <2>1
  <2>3. IsFiniteSet(DOMAIN working \cup {key})
    BY FS_AddElement DEF StreamInv, Trees
  <2>4. Trees'
    BY <1>2, <2>1, <2>2, <2>3 DEF StreamInv, Trees
  <2>5. ASSUME NEW k \in fresh'
        PROVE  Stream!Leads_To_Its_Record(G, working', k)
    <3>1. CASE k = key
      BY <1>3, <1>5, <2>2, <3>1 DEF Stream!Leads_To_Its_Record
    <3>2. CASE k # key
      <4>1. k \in fresh /\ k \in DOMAIN working
        BY <2>1, <3>2 DEF StreamInv, Trees
      <4>2. Stream!Leads_To_Its_Record(G, working, k)
        BY <1>6, <1>7, <4>1
      <4>3. QED
        BY <2>2, <4>1, <4>2 DEF Stream!Leads_To_Its_Record
    <3>3. QED
      BY <3>1, <3>2
  <2>6. Readable'
    BY <1>2, <1>4, <2>5 DEF Readable, Stream!Leads_To_Its_Record
  <2>7. Bounds'
    BY <1>2, <1>3, <2>2, StreamAssumption DEF StreamInv, Bounds
  <2>8. QED
    BY <1>2, <1>8, <2>4, <2>6, <2>7 DEF StreamInv
<1>11. QED
  BY <1>9, <1>10

\* The file the process sees is the same, and so are its trees, after the stream
\* was moved to read.
LEMMA GetStep ==
  ASSUME StreamInv, NEW key \in LogKeys, Stream!Get(key)
  PROVE  StreamInv' /\ logFile' = Stream!Flushed
<1>1. PICK F \in Seq(LogKeys) : F = Stream!Flushed
  BY FlushedShape DEF StreamInv
<1>2. /\ logFile' = F /\ streamBuffer' = {} /\ logPointer' = logPointer
      /\ working' = working /\ stored' = stored /\ fresh' = fresh /\ crashes' = crashes
  BY <1>1 DEF Stream!Get, Stream!NoBuffer
<1>3. Stream!Flushed' = F
  <2>1. Stream!Flushed' = Stream!With_Records(logFile', streamBuffer')
    BY DEF Stream!Flushed
  <2>2. QED
    BY <1>2, <2>1, NothingWritten
<1>4. OnFile'
  BY <1>1, <1>2, <1>3 DEF StreamInv, OnFile
<1>5. Trees' /\ Bounds'
  BY <1>2 DEF StreamInv, Trees, Bounds
<1>6. Readable'
  BY <1>1, <1>2, <1>3 DEF StreamInv, Readable, Stream!Leads_To_Its_Record
<1>7. LossBounded'
  BY <1>1, <1>2, <1>3 DEF StreamInv, LossBounded, Lost, Stream!Leads_To_Its_Record
<1>8. QED
  BY <1>1, <1>2, <1>4, <1>5, <1>6, <1>7 DEF StreamInv

\* Commit loses nothing more: the keys it adds to the tree on file are readable.
LEMMA CommitKeepsStream ==
  ASSUME StreamInv, Stream!Commit
  PROVE  StreamInv' /\ logFile' = logFile
<1>1. /\ logFile' = logFile /\ streamBuffer' = streamBuffer /\ logPointer' = logPointer
      /\ working' = working /\ stored' = working /\ fresh' = fresh /\ crashes' = crashes
  BY DEF Stream!Commit
<1>2. PICK F : F = Stream!Flushed /\ Stream!Flushed' = F
  BY <1>1 DEF Stream!Flushed, Stream!With_Records
<1>3. OnFile' /\ Trees' /\ Bounds'
  BY <1>1, <1>2 DEF StreamInv, OnFile, Trees, Bounds
<1>4. Readable'
  BY <1>1, <1>2 DEF StreamInv, Readable, Stream!Leads_To_Its_Record
<1>5. Lost(F, working) = Lost(F, stored)
  BY <1>2 DEF StreamInv, Readable, Trees, Lost, Stream!Leads_To_Its_Record
<1>6. LossBounded'
  BY <1>1, <1>2, <1>5 DEF StreamInv, LossBounded, Lost, Stream!Leads_To_Its_Record
<1>7. QED
  BY <1>1, <1>3, <1>4, <1>6 DEF StreamInv

\* A process that opens a file without holes has lost what that file has not.
LEMMA ReopenStep ==
  ASSUME StreamInv, NEW file \in Seq(LogKeys), Stream!Reopen(file),
         Len(file) <= MaxRecords, crashes' \in 0 .. MaxCrashes,
         Cardinality(Lost(file, stored)) <= crashes'
  PROVE  StreamInv'
<1>1. /\ logFile' = file /\ streamBuffer' = {} /\ logPointer' = Len(file) + 1
      /\ working' = stored /\ stored' = stored /\ fresh' = {}
  BY DEF Stream!Reopen, Stream!NoBuffer
<1>2. Stream!Flushed' = file
  <2>1. Stream!Flushed' = Stream!With_Records(logFile', streamBuffer')
    BY DEF Stream!Flushed
  <2>2. QED
    BY <1>1, <2>1, NothingWritten
<1>3. OnFile'
  BY <1>1, <1>2 DEF OnFile
<1>4. Trees'
  BY <1>1, LostIsFinite DEF StreamInv, Trees
<1>5. Readable'
  BY <1>1 DEF Readable
<1>6. LossBounded'
  BY <1>1, <1>2 DEF LossBounded, Lost, Stream!Leads_To_Its_Record
<1>7. Bounds'
  BY <1>1, StreamAssumption DEF StreamInv, Bounds, Trees
<1>8. QED
  BY <1>3, <1>4, <1>5, <1>6, <1>7 DEF StreamInv

\* Closing the stream writes what is in its buffer.
LEMMA CloseStep ==
  ASSUME StreamInv, Stream!Close
  PROVE  StreamInv' /\ logFile' = Stream!Flushed
<1>1. PICK F \in Seq(LogKeys) : F = Stream!Flushed
  BY FlushedShape DEF StreamInv
<1>2. Stream!Reopen(F) /\ crashes' = crashes
  BY <1>1 DEF Stream!Close
<1>3. Len(F) <= MaxRecords
  BY <1>1, StreamAssumption DEF StreamInv, OnFile, Bounds
<1>4. Cardinality(Lost(F, stored)) <= crashes' /\ crashes' \in 0 .. MaxCrashes
  BY <1>1, <1>2 DEF StreamInv, LossBounded, Bounds
<1>5. logFile' = F
  BY <1>2 DEF Stream!Reopen
<1>6. QED
  BY <1>1, <1>2, <1>3, <1>4, <1>5, ReopenStep

\* A process that dies loses one record, and no tree leads to it by two keys.
LEMMA CrashStep ==
  ASSUME StreamInv, Stream!Crash
  PROVE  StreamInv' /\ logFile' = logFile
<1>1. PICK F \in Seq(LogKeys) : F = Stream!Flushed
  BY FlushedShape DEF StreamInv
<1>2. /\ Stream!Reopen(logFile) /\ crashes' = crashes + 1 /\ crashes < MaxCrashes
      /\ logFile' = logFile
  BY DEF Stream!Crash, Stream!Reopen
<1>3. /\ logFile \in Seq(LogKeys) /\ Len(logFile) \in Nat /\ crashes \in Nat
      /\ Cardinality(Lost(F, stored)) <= crashes
  BY <1>1 DEF StreamInv, OnFile, LossBounded
<1>4. /\ IsFiniteSet(Lost(F, stored)) /\ Cardinality(Lost(F, stored)) \in Nat
      /\ IsFiniteSet(Lost(logFile, stored)) /\ Cardinality(Lost(logFile, stored)) \in Nat
  BY LostIsFinite DEF StreamInv
<1>5. /\ Len(logFile) <= Len(F)
      /\ Cardinality(Lost(logFile, stored)) <= Cardinality(Lost(F, stored)) + 1
  <2>1. CASE F = logFile
    BY <1>3, <1>4, <2>1
  <2>2. CASE \E key \in LogKeys : F = Append(logFile, key)
    <3>1. PICK key \in LogKeys : F = Append(logFile, key)
      BY <2>2
    <3>2. /\ Len(F) = Len(logFile) + 1 /\ F[Len(logFile) + 1] = key
          /\ \A a \in 1 .. Len(logFile) : F[a] = logFile[a]
      BY <1>3, <3>1, OneMore
    <3>3. Lost(logFile, stored) \subseteq Lost(F, stored) \cup {key}
      <4>1. SUFFICES ASSUME NEW k \in DOMAIN stored, k # key,
                            ~ Stream!Leads_To_Its_Record(logFile, stored, k),
                            Stream!Leads_To_Its_Record(F, stored, k)
                     PROVE  FALSE
        BY DEF Lost
      <4>2. stored[k] \in 1 .. Len(logFile) + 1 /\ F[stored[k]] = k
        BY <1>1, <3>2, <4>1 DEF Stream!Leads_To_Its_Record
      <4>3. stored[k] \in 1 .. Len(logFile)
        BY <1>3, <3>2, <4>1, <4>2
      <4>4. QED
        BY <1>3, <3>2, <4>1, <4>2, <4>3 DEF Stream!Leads_To_Its_Record
    <3>4. /\ IsFiniteSet(Lost(F, stored) \cup {key})
          /\ Cardinality(Lost(F, stored) \cup {key}) <= Cardinality(Lost(F, stored)) + 1
      <4>1. /\ IsFiniteSet(Lost(F, stored) \cup {key})
            /\ Cardinality(Lost(F, stored) \cup {key}) =
                 IF key \in Lost(F, stored) THEN Cardinality(Lost(F, stored))
                                            ELSE Cardinality(Lost(F, stored)) + 1
        BY <1>4, FS_AddElement
      <4>2. QED
        BY <1>4, <4>1
    <3>5. /\ Cardinality(Lost(logFile, stored)) <= Cardinality(Lost(F, stored) \cup {key})
          /\ Cardinality(Lost(F, stored) \cup {key}) \in Nat
      BY <3>3, <3>4, FS_Subset, FS_CardinalityType
    <3>6. QED
      BY <1>3, <1>4, <3>2, <3>4, <3>5
  <2>3. QED
    BY <1>1, <2>1, <2>2, FlushedShape DEF StreamInv
<1>6. Len(logFile) <= MaxRecords
  BY <1>1, <1>3, <1>5, StreamAssumption DEF StreamInv, OnFile, Bounds
<1>7. Cardinality(Lost(logFile, stored)) <= crashes' /\ crashes' \in 0 .. MaxCrashes
  BY <1>2, <1>3, <1>4, <1>5, StreamAssumption
<1>8. QED
  BY <1>2, <1>3, <1>6, <1>7, ReopenStep

\* Every step keeps the invariant, and leaves what is on file as it is.
LEMMA StreamStep ==
  ASSUME StreamInv, [Stream!Next]_(Stream!vars)
  PROVE  /\ StreamInv'
         /\ \A a \in DOMAIN logFile : a \in DOMAIN logFile' /\ logFile'[a] = logFile[a]
<1> DEFINE Grown == \A a \in DOMAIN logFile : a \in DOMAIN logFile' /\ logFile'[a] = logFile[a]
<1>1. PICK F \in Seq(LogKeys) : F = Stream!Flushed
  BY FlushedShape DEF StreamInv
<1>2. logFile \in Seq(LogKeys)
  BY DEF StreamInv, OnFile
<1>3. \A a \in DOMAIN logFile : a \in DOMAIN F /\ F[a] = logFile[a]
  <2>1. CASE F = logFile
    BY <2>1
  <2>2. CASE \E key \in LogKeys : F = Append(logFile, key)
    BY <1>1, <1>2, <2>2, OneMore
  <2>3. QED
    BY <1>1, <2>1, <2>2, FlushedShape DEF StreamInv
<1>4. ASSUME NEW key \in LogKeys, Stream!Put(key)
      PROVE  StreamInv' /\ Grown
  <2>1. logFile' = F \/ logFile' = Append(F, key)
    BY <1>1, <1>4, PutAppends DEF StreamInv, Stream!Put
  <2>2. \A a \in DOMAIN F : a \in DOMAIN Append(F, key) /\ Append(F, key)[a] = F[a]
    BY <1>1, OneMore
  <2>3. Grown
    BY <1>3, <2>1, <2>2
  <2>4. QED
    BY <1>4, <2>3, PutStep
<1>5. ASSUME NEW key \in LogKeys, Stream!Get(key)
      PROVE  StreamInv' /\ Grown
  BY <1>1, <1>3, <1>5, GetStep
<1>6. CASE Stream!Commit
  BY <1>6, CommitKeepsStream
<1>7. CASE Stream!Close
  BY <1>1, <1>3, <1>7, CloseStep
<1>8. CASE Stream!Crash
  BY <1>8, CrashStep
<1>9. CASE UNCHANGED Stream!vars
  <2>1. /\ logFile' = logFile /\ streamBuffer' = streamBuffer /\ logPointer' = logPointer
        /\ working' = working /\ stored' = stored /\ fresh' = fresh /\ crashes' = crashes
    BY <1>9 DEF Stream!vars
  <2>2. Stream!Flushed' = F
    BY <1>1, <2>1 DEF Stream!Flushed, Stream!With_Records
  <2>3. OnFile' /\ Trees' /\ Bounds'
    BY <1>1, <2>1, <2>2 DEF StreamInv, OnFile, Trees, Bounds
  <2>4. Readable' /\ LossBounded'
    BY <1>1, <2>1, <2>2
       DEF StreamInv, Readable, LossBounded, Lost, Stream!Leads_To_Its_Record
  <2>5. QED
    BY <2>1, <2>3, <2>4 DEF StreamInv
<1>10. QED
  BY <1>4, <1>5, <1>6, <1>7, <1>8, <1>9 DEF Stream!Next

\* The invariant of the data file holds throughout, for every number of keys,
\* records and processes that die.
THEOREM StreamInvariant == Stream!Spec => []StreamInv
<1>1. StreamInv /\ [Stream!Next]_(Stream!vars) => StreamInv'
  BY StreamStep
<1>2. QED
  BY <1>1, StreamStart, PTL DEF Stream!Spec

\* The data file is a sequence of records without holes, whatever processes died
\* before their buffer was written.
THEOREM StreamTypes == Stream!Spec => []Stream!TypeOK
<1>1. StreamInv => Stream!TypeOK
  <2> SUFFICES ASSUME StreamInv
               PROVE  Stream!TypeOK
    OBVIOUS
  <2>1. logFile \in Seq(LogKeys) /\ fresh \subseteq LogKeys /\ crashes \in 0 .. MaxCrashes
    BY DEF StreamInv, OnFile, Trees, Bounds
  <2>2. logPointer \in 1 .. MaxRecords + 1
    BY FlushedShape, StreamAssumption DEF StreamInv, OnFile, Bounds
  <2>3. \A r \in streamBuffer : r.address \in 1 .. MaxRecords /\ r.key \in LogKeys
    <3>1. CASE streamBuffer = {}
      BY <3>1
    <3>2. CASE \E key \in LogKeys : /\ streamBuffer = {[address |-> Len(logFile) + 1, key |-> key]}
                                    /\ Stream!Flushed = Append(logFile, key)
      <4>1. PICK key \in LogKeys : /\ streamBuffer = {[address |-> Len(logFile) + 1, key |-> key]}
                                   /\ Stream!Flushed = Append(logFile, key)
        BY <3>2
      <4>2. Len(Stream!Flushed) = Len(logFile) + 1 /\ Len(logFile) \in Nat
        BY <2>1, <4>1, OneMore
      <4>3. Len(logFile) + 1 \in 1 .. MaxRecords
        BY <4>2, StreamAssumption DEF StreamInv, OnFile, Bounds
      <4>4. QED
        BY <4>1, <4>3
    <3>3. QED
      BY <3>1, <3>2, FlushedShape DEF StreamInv
  <2>4. \A t \in {working, stored} : DOMAIN t \subseteq LogKeys /\ Stream!Range(t) \subseteq 1 .. MaxRecords
    BY SameOperators DEF StreamInv, Trees, Bounds
  <2>5. QED
    BY <2>1, <2>2, <2>3, <2>4 DEF Stream!TypeOK
<1>2. QED
  BY <1>1, StreamInvariant, PTL

\* What this process put can be read, through the buffer and after any deaths.
THEOREM OwnRecordsAreReadable == Stream!Spec => []OwnRecordsReadable
<1>1. StreamInv => OwnRecordsReadable
  BY DEF StreamInv, Readable, OwnRecordsReadable, Stream!OwnRecordsReadable
<1>2. QED
  BY <1>1, StreamInvariant, PTL

\* A process that dies makes at most one key of the tree on file lead astray.
THEOREM LossIsBounded == Stream!Spec => []OneLossPerCrash
<1>1. StreamInv => OneLossPerCrash
  BY SameOperators DEF StreamInv, LossBounded, Lost, OneLossPerCrash, Stream!OneLossPerCrash
<1>2. QED
  BY <1>1, StreamInvariant, PTL

\* No process overwrites a record on file.
THEOREM LogIsAppendOnly == Stream!Spec => LogOnlyGrows
<1>1. StreamInv /\ [Stream!Next]_(Stream!vars) =>
        [\A a \in DOMAIN logFile : a \in DOMAIN logFile' /\ logFile'[a] = logFile[a]]_(Stream!vars)
  BY StreamStep
<1>2. QED
  BY <1>1, StreamInvariant, PTL DEF Stream!Spec, LogOnlyGrows, Stream!LogOnlyGrows

-----------------------------------------------------------------------------
\* The pool of spare nodes: its queue is bounded although nothing limits it, and it
\* starves in one way only, for every size of a batch.

\* Nodes that may still come without another count of the queue: the rest of
\* the batch under way, the batch that a set event starts, and one for a
\* consumer about to set the event, which may do so after the next Reset.
Under_Way ==
  IF builder = "building" THEN Batch - built
  ELSE IF builder = "waiting" /\ lock THEN Batch ELSE 0

Asked_For == IF consumer = "setting" THEN Batch ELSE 0

PoolInv ==
  /\ Pool!TypeOK
  /\ builder # "building" => built = 0
  /\ spare + Under_Way + Asked_For < 3 * Batch

\* The pool starts empty, with its event set.
LEMMA PoolStart == Pool!Init => PoolInv
  BY BatchAssumption DEF Pool!Init, PoolInv, Pool!TypeOK, Under_Way, Asked_For

\* One case per step of either thread.
LEMMA PoolStep == PoolInv /\ [Pool!Next]_(Pool!vars) => PoolInv'
<1> SUFFICES ASSUME PoolInv, [Pool!Next]_(Pool!vars)
             PROVE  PoolInv'
  OBVIOUS
<1> USE BatchAssumption DEF PoolInv, Pool!TypeOK, Under_Way, Asked_For
<1>1. CASE Pool!WaitOne
  BY <1>1 DEF Pool!WaitOne
<1>2. CASE Pool!Enqueue
  BY <1>2 DEF Pool!Enqueue
<1>3. CASE Pool!Reset
  BY <1>3 DEF Pool!Reset
<1>4. CASE Pool!TryDequeue
  BY <1>4 DEF Pool!TryDequeue
<1>5. CASE Pool!Count
  <2>1. CASE spare < Batch
    BY <1>5, <2>1 DEF Pool!Count
  <2>2. CASE ~ spare < Batch
    BY <1>5, <2>2 DEF Pool!Count
  <2>3. QED
    BY <2>1, <2>2
<1>6. CASE Pool!Set
  BY <1>6 DEF Pool!Set
<1>7. CASE UNCHANGED Pool!vars
  BY <1>7 DEF Pool!vars
<1>8. QED
  BY <1>1, <1>2, <1>3, <1>4, <1>5, <1>6, <1>7
     DEF Pool!Next, Pool!Build, Pool!Create_New, Pool!New_Node

\* The variables of both threads keep their types.
THEOREM PoolTypes == Pool!Spec => []Pool!TypeOK
<1>1. PoolInv => Pool!TypeOK
  BY DEF PoolInv
<1>2. QED
  BY <1>1, PoolStart, PoolStep, PTL DEF Pool!Spec

\* The queue never holds three batches, however the threads interleave.
THEOREM PoolStaysBounded == Pool!Spec => []PoolBounded
<1>1. PoolInv => PoolBounded
  BY BatchAssumption DEF PoolInv, Pool!TypeOK, Under_Way, Asked_For, PoolBounded, Pool!PoolBounded
<1>2. QED
  BY <1>1, PoolStart, PoolStep, PTL DEF Pool!Spec

\* The pool starves at Reset and in no other way, and then for good.
THEOREM StarvationIsAtReset == Pool!Spec => StarvesAtReset
<1>1. PoolInv /\ [Pool!Next]_(Pool!vars) =>
        [Pool!Starved' # Pool!Starved => Pool!Reset /\ ~ Pool!Starved]_(Pool!vars)
  <2> SUFFICES ASSUME PoolInv, [Pool!Next]_(Pool!vars), Pool!Starved' # Pool!Starved
               PROVE  Pool!Reset /\ ~ Pool!Starved
    OBVIOUS
  <2> USE BatchAssumption DEF PoolInv, Pool!TypeOK, Pool!Starved
  <2>1. CASE Pool!WaitOne
    BY <2>1 DEF Pool!WaitOne
  <2>2. CASE Pool!Enqueue
    BY <2>2 DEF Pool!Enqueue
  <2>3. CASE Pool!Reset
    BY <2>3 DEF Pool!Reset
  <2>4. CASE Pool!TryDequeue
    BY <2>4 DEF Pool!TryDequeue
  <2>5. CASE Pool!Count
    BY <2>5 DEF Pool!Count
  <2>6. CASE Pool!Set
    BY <2>6 DEF Pool!Set
  <2>7. CASE UNCHANGED Pool!vars
    BY <2>7 DEF Pool!vars
  <2>8. QED
    BY <2>1, <2>2, <2>3, <2>4, <2>5, <2>6, <2>7
     DEF Pool!Next, Pool!Build, Pool!Create_New, Pool!New_Node
<1>2. QED
  BY <1>1, PoolStart, PoolStep, PTL DEF Pool!Spec, StarvesAtReset, Pool!StarvesAtReset

-----------------------------------------------------------------------------
\* The heap: numbers, and loops written as rounds

\* A set of numbers that is not empty has a least one.
LEMMA LeastNumber ==
  ASSUME NEW S \in SUBSET Nat, S # {}
  PROVE  \E m \in S : \A k \in S : m <= k
<1> DEFINE Less == OpToRel(<, Nat)
<1>1. PICK m \in S : \A k \in S : ~ (<<k, m>> \in Less)
  BY NatLessThanWellFounded, WFMin
<1>2. \A i, j \in Nat : i < j => <<i, j>> \in Less
  BY SMT DEF OpToRel
<1> HIDE DEF Less
<1>3. \A k \in S : ~ (k < m)
  BY <1>1, <1>2
<1>4. QED
  BY <1>3

\* What holds of 0 and goes from a number to the next holds of all.
LEMMA NumberInduction ==
  ASSUME NEW G, 0 \in G, \A k \in Nat : k \in G => k + 1 \in G
  PROVE  \A n \in Nat : n \in G
<1> SUFFICES ASSUME NEW n \in Nat, n \notin G
             PROVE  FALSE
  OBVIOUS
<1>1. PICK m \in Nat \ G : \A k \in Nat \ G : m <= k
  BY LeastNumber
<1>2. m # 0 /\ m - 1 \in Nat /\ m - 1 \in G
  BY <1>1
<1>3. QED
  BY <1>1, <1>2

\* The states a loop with the body next is in after its rounds, in the form
\* Iterated has them.
IsLoop(S, m, next, f) ==
  /\ f = [r \in Nat |-> IF r = 0 THEN {m} ELSE {next[x] : x \in f[r - 1]}]
  /\ \A r \in Nat : f[r] # {} /\ f[r] \subseteq S

\* There are such states: the ends of the sequences of rounds.
LEMMA LoopExists ==
  ASSUME NEW S, NEW m \in S, NEW next \in [S -> S]
  PROVE  \E f : IsLoop(S, m, next, f)
<1> DEFINE Run(s, r) == s[0] = m /\ \A j \in 0 .. r - 1 : s[j + 1] = next[s[j]]
           f == [r \in Nat |-> {s[r] : s \in {t \in [0 .. r -> S] : Run(t, r)}}]
<1>0. \A r \in Nat : f[r] = {s[r] : s \in {t \in [0 .. r -> S] : Run(t, r)}}
  OBVIOUS
<1>1. f[0] = {m}
  <2> DEFINE t == [j \in 0 .. 0 |-> m]
  <2>1. \A s \in [0 .. 0 -> S] : Run(s, 0) => s[0] = m
    OBVIOUS
  <2>2. t \in [0 .. 0 -> S] /\ Run(t, 0) /\ t[0] = m
    OBVIOUS
  <2>3. f[0] = {s[0] : s \in {u \in [0 .. 0 -> S] : Run(u, 0)}}
    BY <1>0
  <2> HIDE DEF t, f, Run
  <2>4. QED
    BY <2>1, <2>2, <2>3
<1>2. ASSUME NEW r \in Nat
      PROVE  f[r + 1] = {next[x] : x \in f[r]}
  <2>1. ASSUME NEW y \in f[r + 1]
        PROVE  y \in {next[x] : x \in f[r]}
    <3>1. PICK s \in [0 .. r + 1 -> S] : Run(s, r + 1) /\ y = s[r + 1]
      BY <2>1
    <3> DEFINE t == [j \in 0 .. r |-> s[j]]
    <3>2. t \in [0 .. r -> S] /\ t[r] = s[r]
      OBVIOUS
    <3>3. Run(t, r)
      <4>1. \A j \in 0 .. r : t[j] = s[j]
        OBVIOUS
      <4>2. \A j \in 0 .. r - 1 : j \in 0 .. r /\ j + 1 \in 0 .. r /\ j \in 0 .. (r + 1) - 1
        OBVIOUS
      <4>3. s[0] = m /\ \A j \in 0 .. (r + 1) - 1 : s[j + 1] = next[s[j]]
        BY <3>1
      <4> HIDE DEF t
      <4>4. QED
        BY <4>1, <4>2, <4>3
    <3>4. s[r] \in f[r]
      <4> HIDE DEF t, Run
      <4>1. QED
        BY <1>0, <3>2, <3>3
    <3>5. y = next[s[r]]
      BY <3>1
    <3>6. QED
      BY <3>4, <3>5
  <2>2. ASSUME NEW x \in f[r]
        PROVE  next[x] \in f[r + 1]
    <3>1. PICK s \in [0 .. r -> S] : Run(s, r) /\ x = s[r]
      BY <2>2
    <3> DEFINE t == [j \in 0 .. r + 1 |-> IF j = r + 1 THEN next[s[r]] ELSE s[j]]
    <3>2. t \in [0 .. r + 1 -> S] /\ t[r + 1] = next[x]
      BY <3>1
    <3>3. Run(t, r + 1)
      <4>1. \A j \in 0 .. r : t[j] = s[j]
        OBVIOUS
      <4>2. \A j \in 0 .. (r + 1) - 1 :
              j \in 0 .. r /\ ((j \in 0 .. r - 1 /\ j + 1 \in 0 .. r) \/ j = r)
        OBVIOUS
      <4>3. s[0] = m /\ \A j \in 0 .. r - 1 : s[j + 1] = next[s[j]]
        BY <3>1
      <4>4. t[r + 1] = next[s[r]] /\ 0 \in 0 .. r
        OBVIOUS
      <4> HIDE DEF t
      <4>5. QED
        BY <4>1, <4>2, <4>3, <4>4
    <3>4. QED
      <4> HIDE DEF t, Run
      <4>1. r + 1 \in Nat
        OBVIOUS
      <4>2. QED
        BY <1>0, <3>2, <3>3, <4>1
  <2> HIDE DEF f
  <2>3. QED
    BY <2>1, <2>2
<1>3. \A r \in Nat : f[r] \subseteq S
  OBVIOUS
<1>4. DOMAIN f = Nat
  OBVIOUS
<1> DEFINE g == [r \in Nat |-> IF r = 0 THEN {m} ELSE {next[x] : x \in f[r - 1]}]
<1>5. f = g
  <2> HIDE DEF f
  <2>1. ASSUME NEW r \in Nat
        PROVE  f[r] = g[r]
    <3>1. CASE r = 0
      BY <1>1, <3>1
    <3>2. CASE r # 0
      <4>1. r - 1 \in Nat /\ (r - 1) + 1 = r
        BY <3>2
      <4>2. f[(r - 1) + 1] = {next[x] : x \in f[r - 1]}
        BY <1>2, <4>1
      <4>3. QED
        BY <3>2, <4>1, <4>2
    <3>3. QED
      BY <3>1, <3>2
  <2>2. f = [r \in Nat |-> f[r]]
    <3>1. [r \in Nat |-> f[r]] = f
      BY <1>4 DEF f
    <3>2. QED
      BY <3>1
  <2> HIDE DEF g
  <2>3. g = [r \in Nat |-> g[r]]
    BY DEF g
  <2>4. QED
    BY <2>1, <2>2, <2>3
<1> HIDE DEF f
<1>6. \A r \in Nat : f[r] # {}
  <2> DEFINE G == {r \in Nat : f[r] # {}}
  <2>1. 0 \in G
    BY <1>1
  <2>2. ASSUME NEW r \in Nat, r \in G
        PROVE  r + 1 \in G
    BY <1>2, <2>2
  <2>3. \A r \in Nat : r \in G
    <3> HIDE DEF G
    <3>1. QED
      BY <2>1, <2>2, NumberInduction
  <2>4. QED
    BY <2>3
<1>7. IsLoop(S, m, next, f)
  BY <1>3, <1>5, <1>6 DEF IsLoop
<1>8. QED
  BY <1>7

\* Each round of a loop goes from one set of a family to the one before.
Descends(S, next, after, n, F) ==
  /\ n \in Nat /\ next \in [S -> S] /\ F \in [Nat -> SUBSET S]
  /\ after[0] # {} /\ after[0] \subseteq F[n]
  /\ \A r \in Nat : after[r] \subseteq S => after[r + 1] = {next[x] : x \in after[r]}
  /\ \A k \in Nat : \A x \in F[k + 1] : next[x] \in F[k]

\* Such a loop ends in the first.
LEMMA LoopEnds ==
  ASSUME NEW S, NEW next, NEW after, NEW n, NEW F, Descends(S, next, after, n, F)
  PROVE  after[n] # {} /\ after[n] \subseteq F[0]
<1>0. /\ n \in Nat /\ next \in [S -> S] /\ F \in [Nat -> SUBSET S]
      /\ after[0] # {} /\ after[0] \subseteq F[n]
      /\ \A r \in Nat : after[r] \subseteq S => after[r + 1] = {next[x] : x \in after[r]}
      /\ \A k \in Nat : \A x \in F[k + 1] : next[x] \in F[k]
  BY DEF Descends
<1> DEFINE G == {r \in Nat : r <= n => after[r] # {} /\ after[r] \subseteq F[n - r]}
<1>1. 0 \in G
  BY <1>0
<1>2. ASSUME NEW r \in Nat, r \in G
      PROVE  r + 1 \in G
  <2> SUFFICES ASSUME r + 1 <= n
               PROVE  after[r + 1] # {} /\ after[r + 1] \subseteq F[n - (r + 1)]
    OBVIOUS
  <2> DEFINE k == n - (r + 1)
  <2>1. r <= n /\ k \in Nat /\ n - r = k + 1
    BY <1>0
  <2> HIDE DEF k
  <2>2. after[r] # {} /\ after[r] \subseteq F[k + 1]
    BY <1>2, <2>1
  <2>3. F[k + 1] \subseteq S
    BY <1>0, <2>1
  <2>4. after[r + 1] = {next[x] : x \in after[r]}
    BY <1>0, <2>2, <2>3
  <2>5. after[r + 1] # {} /\ after[r + 1] \subseteq F[k]
    BY <1>0, <2>1, <2>2, <2>4
  <2>6. QED
    BY <2>5 DEF k
<1>3. n \in G
  <2> HIDE DEF G
  <2>1. QED
    BY <1>0, <1>1, <1>2, NumberInduction
<1>4. after[n] # {} /\ after[n] \subseteq F[n - n] /\ n - n = 0
  BY <1>0, <1>3
<1>5. QED
  BY <1>4

-----------------------------------------------------------------------------
\* The order of the heap, and the rounds of its loops

\* What the list of the heap holds.
Entries == [index : Indexes, weight : Weights]

\* The parent of a position is before it, and a position has two children.
LEMMA Parents ==
  /\ \A q \in Nat \ {0} : Heap!Parent(q) \in Nat /\ Heap!Parent(q) < q
  /\ \A q \in Nat \ {0} : \A p \in Nat : Heap!Parent(q) = p <=> q = 2 * p + 1 \/ q = 2 * p + 2
<1>1. ASSUME NEW q \in Nat \ {0}
      PROVE  Heap!Parent(q) \in Nat /\ Heap!Parent(q) < q
  BY <1>1 DEF Heap!Parent
<1>2. ASSUME NEW q \in Nat \ {0}, NEW p \in Nat
      PROVE  Heap!Parent(q) = p <=> q = 2 * p + 1 \/ q = 2 * p + 2
  BY <1>2 DEF Heap!Parent
<1>3. QED
  BY <1>1, <1>2

\* Two entries that change places.
LEMMA Exchange ==
  ASSUME NEW list \in Seq(Entries), NEW p \in 0 .. Len(list) - 1, NEW q \in 0 .. Len(list) - 1
  PROVE  LET l == Heap!Swapped(list, p, q) IN
         /\ l \in Seq(Entries) /\ Len(l) = Len(list)
         /\ \A r \in 0 .. Len(list) - 1 :
              Heap!At(l, r) = IF r = p THEN Heap!At(list, q)
                              ELSE IF r = q THEN Heap!At(list, p) ELSE Heap!At(list, r)
<1> DEFINE n == Len(list)  l == Heap!Swapped(list, p, q)
<1>1. n \in Nat /\ list \in [1 .. n -> Entries]
  OBVIOUS
<1>2. p + 1 \in 1 .. n /\ q + 1 \in 1 .. n
  BY <1>1
<1> HIDE DEF n
<1>3. /\ DOMAIN l = 1 .. n
      /\ \A r \in 1 .. n : l[r] = IF r = q + 1 THEN list[p + 1] ELSE IF r = p + 1 THEN list[q + 1] ELSE list[r]
  BY <1>1, <1>2 DEF Heap!Swapped, Heap!At
<1>4. l \in [1 .. n -> Entries]
  <2>1. \A r \in 1 .. n : l[r] \in Entries
    BY <1>1, <1>2, <1>3
  <2>2. l = [r \in 1 .. n |-> l[r]]
    BY <1>1, <1>2 DEF Heap!Swapped, Heap!At
  <2> HIDE DEF l
  <2>3. QED
    BY <2>1, <2>2
<1> HIDE DEF l
<1>5. l \in Seq(Entries) /\ Len(l) = n
  BY <1>1, <1>4
<1>6. \A r \in 0 .. n - 1 : r + 1 \in 1 .. n
  BY <1>1
<1>7. QED
  BY <1>2, <1>3, <1>5, <1>6 DEF n, l, Heap!At

\* The weight of a position.
Weight(list, q) == Heap!At(list, q).weight

\* Nothing is lighter than its parent.
InHeapOrder(list) ==
  \A q \in 1 .. Len(list) - 1 : Weight(list, Heap!Parent(q)) <= Weight(list, q)

\* Weights are numbers.
LEMMA WeightsAreNumbers ==
  ASSUME NEW list \in Seq(Entries)
  PROVE  \A q \in 0 .. Len(list) - 1 : Heap!At(list, q) \in Entries /\ Weight(list, q) \in Int
<1> SUFFICES ASSUME NEW q \in 0 .. Len(list) - 1
             PROVE  Heap!At(list, q) \in Entries /\ Weight(list, q) \in Int
  OBVIOUS
<1>1. q + 1 \in 1 .. Len(list)
  OBVIOUS
<1>2. list[q + 1] \in Entries
  BY <1>1
<1>3. QED
  BY <1>2, WeightAssumption DEF Heap!At, Weight, Entries

\* In a heap the first entry is one of the lightest.
LEMMA FirstIsLightest ==
  ASSUME NEW list \in Seq(Entries), InHeapOrder(list)
  PROVE  \A q \in 0 .. Len(list) - 1 : Weight(list, 0) <= Weight(list, q)
<1> DEFINE Bad == {q \in Nat : q \in 0 .. Len(list) - 1 /\ ~ (Weight(list, 0) <= Weight(list, q))}
<1>1. SUFFICES ASSUME Bad # {}
               PROVE  FALSE
  OBVIOUS
<1>2. PICK q \in Bad : \A r \in Bad : q <= r
  BY <1>1, LeastNumber
<1>3. \A r \in 0 .. Len(list) - 1 : Weight(list, r) \in Int
  BY WeightsAreNumbers
<1>4. q \in 1 .. Len(list) - 1
  <2>1. q # 0
    <3>1. q = 0 => Weight(list, q) \in Int /\ Weight(list, q) <= Weight(list, q)
      BY <1>2, <1>3
    <3>2. QED
      BY <1>2, <3>1
  <2>2. QED
    BY <1>2, <2>1
<1>5. Heap!Parent(q) \in Nat /\ Heap!Parent(q) < q
  BY <1>4, Parents
<1>6. Heap!Parent(q) \in 0 .. Len(list) - 1 /\ Heap!Parent(q) \notin Bad
  BY <1>2, <1>4, <1>5
<1>7. Weight(list, 0) <= Weight(list, Heap!Parent(q))
  BY <1>5, <1>6
<1>8. Weight(list, Heap!Parent(q)) <= Weight(list, q)
  BY <1>4 DEF InHeapOrder
<1>9. QED
  BY <1>2, <1>3, <1>4, <1>6, <1>7, <1>8

\* And their weights with them.
LEMMA ExchangeWeights ==
  ASSUME NEW list \in Seq(Entries), NEW p \in 0 .. Len(list) - 1, NEW q \in 0 .. Len(list) - 1
  PROVE  \A r \in 0 .. Len(list) - 1 :
           Weight(Heap!Swapped(list, p, q), r) =
             IF r = p THEN Weight(list, q) ELSE IF r = q THEN Weight(list, p) ELSE Weight(list, r)
<1> DEFINE l == Heap!Swapped(list, p, q)
<1>1. \A r \in 0 .. Len(list) - 1 :
        Heap!At(l, r) = IF r = p THEN Heap!At(list, q)
                        ELSE IF r = q THEN Heap!At(list, p) ELSE Heap!At(list, r)
  BY Exchange
<1> HIDE DEF l
<1>2. QED
  <2>1. \A r \in 0 .. Len(list) - 1 :
          Weight(l, r) = IF r = p THEN Weight(list, q) ELSE IF r = q THEN Weight(list, p) ELSE Weight(list, r)
    BY <1>1 DEF Weight
  <2>2. QED
    BY <2>1 DEF l

\* A heap but for an entry on its way up, which may be lighter than its parent; its
\* children are not lighter than that parent either.
HeapBut(list, p) ==
  /\ p \in 0 .. Len(list) - 1
  /\ \A q \in 1 .. Len(list) - 1 :
       /\ q # p => Weight(list, Heap!Parent(q)) <= Weight(list, q)
       /\ Heap!Parent(q) = p /\ p # 0 => Weight(list, Heap!Parent(p)) <= Weight(list, q)

\* One round of the loop of Push.
LEMMA UpRound ==
  ASSUME NEW list \in Seq(Entries), NEW p, HeapBut(list, p),
         p # 0, Weight(list, p) < Weight(list, Heap!Parent(p))
  PROVE  HeapBut(Heap!Swapped(list, p, Heap!Parent(p)), Heap!Parent(p))
<1> DEFINE u == Heap!Parent(p)  l == Heap!Swapped(list, p, u)  N == Len(list)
<1>1. /\ N \in Nat /\ p \in 1 .. N - 1 /\ p \in Nat \ {0}
  BY DEF HeapBut
<1>2. u \in Nat /\ u < p /\ u \in 0 .. N - 1
  BY <1>1, Parents
<1>3. l \in Seq(Entries) /\ Len(l) = N
  BY <1>1, <1>2, Exchange
<1>4. \A r \in 0 .. N - 1 :
        Weight(l, r) = IF r = p THEN Weight(list, u) ELSE IF r = u THEN Weight(list, p) ELSE Weight(list, r)
  BY <1>1, <1>2, ExchangeWeights
<1>5. \A r \in 0 .. N - 1 : Weight(list, r) \in Int
  BY WeightsAreNumbers
<1>6. Weight(list, p) < Weight(list, u)
  OBVIOUS
<1>7. /\ \A q \in 1 .. N - 1 : q # p => Weight(list, Heap!Parent(q)) <= Weight(list, q)
      /\ \A q \in 1 .. N - 1 : Heap!Parent(q) = p => Weight(list, u) <= Weight(list, q)
  BY <1>1 DEF HeapBut
<1> HIDE DEF l, N
<1>8. ASSUME NEW q \in 1 .. N - 1
      PROVE  /\ q # u => Weight(l, Heap!Parent(q)) <= Weight(l, q)
             /\ Heap!Parent(q) = u /\ u # 0 => Weight(l, Heap!Parent(u)) <= Weight(l, q)
  <2> DEFINE a == Heap!Parent(q)
  <2>1. a \in Nat /\ a < q /\ a \in 0 .. N - 1 /\ q \in 0 .. N - 1
    BY <1>1, Parents
  <2>2. /\ Weight(list, q) \in Int /\ Weight(list, a) \in Int /\ Weight(list, p) \in Int /\ Weight(list, u) \in Int
        /\ q # p => Weight(list, a) <= Weight(list, q)
        /\ a = p => Weight(list, u) <= Weight(list, q)
    BY <1>1, <1>2, <1>5, <1>7, <2>1
  <2>3. /\ Weight(l, q) = IF q = p THEN Weight(list, u) ELSE IF q = u THEN Weight(list, p) ELSE Weight(list, q)
        /\ Weight(l, a) = IF a = p THEN Weight(list, u) ELSE IF a = u THEN Weight(list, p) ELSE Weight(list, a)
    BY <1>4, <2>1
  <2>4. q = p => a = u
    OBVIOUS
  <2>5. q # u => Weight(l, a) <= Weight(l, q)
    <3> HIDE DEF a, u
    <3>1. QED
      BY <1>1, <1>2, <1>6, <2>1, <2>2, <2>3, <2>4
  <2>6. ASSUME a = u, u # 0
        PROVE  Weight(l, Heap!Parent(u)) <= Weight(l, q)
    <3> DEFINE g == Heap!Parent(u)
    <3>1. g \in Nat /\ g < u /\ g \in 0 .. N - 1 /\ u \in 1 .. N - 1
      BY <1>1, <1>2, <2>6, Parents
    <3>2. Weight(list, g) <= Weight(list, u) /\ Weight(list, g) \in Int
      BY <1>2, <1>5, <1>7, <3>1
    <3>3. Weight(l, g) = Weight(list, g)
      BY <1>1, <1>2, <1>4, <3>1
    <3> HIDE DEF g, u, a
    <3>4. Weight(l, g) <= Weight(l, q)
      BY <1>1, <1>2, <2>1, <2>2, <2>3, <2>6, <3>1, <3>2, <3>3
    <3>5. QED
      BY <3>4 DEF g
  <2>7. QED
    BY <2>5, <2>6
<1>9. QED
  <2>1. u \in 0 .. Len(l) - 1
    BY <1>2, <1>3
  <2>2. \A q \in 1 .. Len(l) - 1 :
          /\ q # u => Weight(l, Heap!Parent(q)) <= Weight(l, q)
          /\ Heap!Parent(q) = u /\ u # 0 => Weight(l, Heap!Parent(u)) <= Weight(l, q)
    <3> HIDE DEF u
    <3>1. QED
      BY <1>3, <1>8
  <2>3. HeapBut(l, u)
    <3> HIDE DEF u
    <3>1. QED
      BY <2>1, <2>2 DEF HeapBut
  <2>4. QED
    BY <2>3 DEF l, u

\* Where the loop of Push ends, the list is a heap.
LEMMA UpEnds ==
  ASSUME NEW list \in Seq(Entries), NEW p, HeapBut(list, p),
         p = 0 \/ ~ (Weight(list, p) < Weight(list, Heap!Parent(p)))
  PROVE  InHeapOrder(list)
<1> SUFFICES ASSUME NEW q \in 1 .. Len(list) - 1
             PROVE  Weight(list, Heap!Parent(q)) <= Weight(list, q)
  BY DEF InHeapOrder
<1>1. Heap!Parent(q) \in Nat /\ Heap!Parent(q) < q
  BY Parents
<1>2. Weight(list, Heap!Parent(q)) \in Int /\ Weight(list, q) \in Int
  BY <1>1, WeightsAreNumbers
<1>3. QED
  BY <1>1, <1>2 DEF HeapBut

\* A heap but for an entry on its way down, which may be heavier than its children;
\* these are not lighter than its parent.
HeapAbove(list, p) ==
  /\ p \in Nat
  /\ \A q \in 1 .. Len(list) - 1 :
       /\ Heap!Parent(q) # p => Weight(list, Heap!Parent(q)) <= Weight(list, q)
       /\ Heap!Parent(q) = p /\ p # 0 => Weight(list, Heap!Parent(p)) <= Weight(list, q)

\* The entry to go down to is the lightest of three.
LEMMA LightestOfThree ==
  ASSUME NEW list \in Seq(Entries), NEW p \in 0 .. Len(list) - 1
  PROVE  LET c == Heap!Lightest(list, p) IN
         /\ c = p \/ (c \in 1 .. Len(list) - 1 /\ Heap!Parent(c) = p /\ Weight(list, c) < Weight(list, p))
         /\ \A q \in 1 .. Len(list) - 1 : Heap!Parent(q) = p => Weight(list, c) <= Weight(list, q)
<1> DEFINE N == Len(list)  c == Heap!Lightest(list, p)  a == 2 * p + 1  b == 2 * p + 2
           d == IF N > a /\ Weight(list, a) < Weight(list, p) THEN a ELSE p
<1>1. N \in Nat /\ p \in Nat /\ \A r \in 0 .. N - 1 : Weight(list, r) \in Int
  BY WeightsAreNumbers
<1>2. c = IF N > b /\ Weight(list, b) < Weight(list, d) THEN b ELSE d
  BY DEF Heap!Lightest, Heap!Lighter, Weight
<1>3. \A q \in 1 .. N - 1 : Heap!Parent(q) = p <=> q = a \/ q = b
  <2> TAKE q \in 1 .. N - 1
  <2>1. q \in Nat \ {0}
    OBVIOUS
  <2>2. QED
    BY <1>1, <2>1, Parents
<1> HIDE DEF c, N
<1>4. a \in Nat /\ b \in Nat /\ a > p /\ b > p /\ (N > a => a \in 1 .. N - 1) /\ (N > b => b \in 1 .. N - 1 /\ a \in 1 .. N - 1)
  BY <1>1
<1> HIDE DEF a, b
<1>5. p \in 0 .. N - 1 /\ 1 .. N - 1 \subseteq 0 .. N - 1
  BY <1>1 DEF N
<1>6. c = p \/ (c \in 1 .. N - 1 /\ Heap!Parent(c) = p /\ Weight(list, c) < Weight(list, p))
  <2>1. d = p \/ (d \in 1 .. N - 1 /\ d = a /\ Weight(list, d) < Weight(list, p))
    BY <1>4
  <2>2. Weight(list, d) \in Int /\ Weight(list, p) \in Int /\ (N > b => Weight(list, b) \in Int)
    BY <1>1, <1>4, <1>5, <2>1
  <2> HIDE DEF d
  <2>3. c = p \/ (c \in 1 .. N - 1 /\ (c = a \/ c = b) /\ Weight(list, c) < Weight(list, p))
    BY <1>2, <1>4, <2>1, <2>2
  <2>4. QED
    BY <1>3, <2>3
<1>7. ASSUME NEW q \in 1 .. N - 1, Heap!Parent(q) = p
      PROVE  Weight(list, c) <= Weight(list, q)
  <2>1. Weight(list, q) \in Int /\ Weight(list, p) \in Int /\ q \in Nat /\ q < N
    BY <1>1, <1>5, <1>7
  <2>2. q = a \/ q = b
    BY <1>3, <1>7
  <2>3. Weight(list, d) \in Int /\ (q = a => Weight(list, d) <= Weight(list, q))
    <3>1. N > a => Weight(list, a) \in Int
      BY <1>1, <1>4, <1>5
    <3>2. QED
      BY <2>1, <3>1
  <2> HIDE DEF d
  <2>4. Weight(list, c) \in Int /\ Weight(list, c) <= Weight(list, d)
    <3>1. N > b => Weight(list, b) \in Int
      BY <1>1, <1>4, <1>5
    <3>2. QED
      BY <1>2, <2>3, <3>1
  <2>5. q = b => Weight(list, c) <= Weight(list, q)
    BY <1>2, <2>1, <2>3
  <2>6. QED
    BY <2>1, <2>2, <2>3, <2>4, <2>5
<1>8. QED
  BY <1>6, <1>7 DEF c, N

\* One round of the loop of Pop, when it goes down.
LEMMA DownRound ==
  ASSUME NEW list \in Seq(Entries), NEW p \in 0 .. Len(list) - 1, HeapAbove(list, p),
         NEW c, c = Heap!Lightest(list, p), c # p
  PROVE  HeapAbove(Heap!Swapped(list, p, c), c)
<1> DEFINE l == Heap!Swapped(list, p, c)  N == Len(list)
<1>1. /\ N \in Nat /\ p \in 0 .. N - 1 /\ c \in 1 .. N - 1 /\ c \in 0 .. N - 1
      /\ Heap!Parent(c) = p /\ Weight(list, c) < Weight(list, p)
      /\ \A q \in 1 .. N - 1 : Heap!Parent(q) = p => Weight(list, c) <= Weight(list, q)
  BY LightestOfThree
<1>2. p < c
  BY <1>1, Parents
<1>3. l \in Seq(Entries) /\ Len(l) = N
  BY <1>1, Exchange
<1>4. \A r \in 0 .. N - 1 :
        Weight(l, r) = IF r = p THEN Weight(list, c) ELSE IF r = c THEN Weight(list, p) ELSE Weight(list, r)
  BY <1>1, ExchangeWeights
<1>5. \A r \in 0 .. N - 1 : Weight(list, r) \in Int
  BY WeightsAreNumbers
<1>6. /\ \A q \in 1 .. N - 1 : Heap!Parent(q) # p => Weight(list, Heap!Parent(q)) <= Weight(list, q)
      /\ \A q \in 1 .. N - 1 : Heap!Parent(q) = p /\ p # 0 => Weight(list, Heap!Parent(p)) <= Weight(list, q)
  BY DEF HeapAbove
<1> HIDE DEF l, N
<1>7. ASSUME NEW q \in 1 .. N - 1
      PROVE  /\ Heap!Parent(q) # c => Weight(l, Heap!Parent(q)) <= Weight(l, q)
             /\ Heap!Parent(q) = c /\ c # 0 => Weight(l, Heap!Parent(c)) <= Weight(l, q)
  <2> DEFINE a == Heap!Parent(q)
  <2>1. a \in Nat /\ a < q /\ a \in 0 .. N - 1 /\ q \in 0 .. N - 1
    BY <1>1, Parents
  <2>2. /\ Weight(list, q) \in Int /\ Weight(list, a) \in Int /\ Weight(list, p) \in Int /\ Weight(list, c) \in Int
        /\ a # p => Weight(list, a) <= Weight(list, q)
        /\ a = p => Weight(list, c) <= Weight(list, q)
    BY <1>1, <1>5, <1>6, <2>1
  <2>3. /\ Weight(l, q) = IF q = p THEN Weight(list, c) ELSE IF q = c THEN Weight(list, p) ELSE Weight(list, q)
        /\ Weight(l, a) = IF a = p THEN Weight(list, c) ELSE IF a = c THEN Weight(list, p) ELSE Weight(list, a)
        /\ Weight(l, p) = Weight(list, c)
    BY <1>1, <1>4, <2>1
  <2>4. q = p => p # 0 /\ Weight(list, a) <= Weight(list, c)
    <3>1. ASSUME q = p
          PROVE  Weight(list, a) <= Weight(list, c)
      BY <1>1, <1>6, <3>1
    <3>2. QED
      BY <2>1, <3>1
  <2>5. q = c => a = p
    BY <1>1
  <2>6. a # c => Weight(l, a) <= Weight(l, q)
    <3> HIDE DEF a
    <3>1. QED
      BY <1>1, <1>2, <2>1, <2>2, <2>3, <2>4, <2>5
  <2>7. a = c => Weight(l, p) <= Weight(l, q)
    <3> HIDE DEF a
    <3>1. QED
      BY <1>1, <1>2, <2>1, <2>2, <2>3
  <2>8. QED
    BY <1>1, <2>6, <2>7
<1>8. QED
  <2>1. \A q \in 1 .. Len(l) - 1 :
          /\ Heap!Parent(q) # c => Weight(l, Heap!Parent(q)) <= Weight(l, q)
          /\ Heap!Parent(q) = c /\ c # 0 => Weight(l, Heap!Parent(c)) <= Weight(l, q)
    BY <1>3, <1>7
  <2>2. HeapAbove(l, c)
    BY <1>1, <2>1 DEF HeapAbove
  <2>3. QED
    BY <2>2 DEF l

\* Where the loop of Pop ends, the list is a heap.
LEMMA DownEnds ==
  ASSUME NEW list \in Seq(Entries), NEW p \in Nat, HeapAbove(list, p),
         p >= Len(list) \/ Heap!Lightest(list, p) = p
  PROVE  InHeapOrder(list)
<1> SUFFICES ASSUME NEW q \in 1 .. Len(list) - 1
             PROVE  Weight(list, Heap!Parent(q)) <= Weight(list, q)
  BY DEF InHeapOrder
<1>1. CASE Heap!Parent(q) # p
  BY <1>1 DEF HeapAbove
<1>2. CASE Heap!Parent(q) = p
  <2>1. p < q
    BY <1>2, Parents
  <2>2. p \in 0 .. Len(list) - 1 /\ Heap!Lightest(list, p) = p
    BY <2>1
  <2>3. QED
    BY <1>2, <2>2, LightestOfThree
<1>3. QED
  BY <1>1, <1>2

-----------------------------------------------------------------------------
\* The entries of the heap, as a bag

\* How often a list holds an entry.
CountOf(list, e) == Cardinality({i \in DOMAIN list : list[i] = e})

\* The bag of a list.
LEMMA BagOfList ==
  ASSUME NEW list
  PROVE  /\ ToBag(list) = [e \in Range(list) |-> CountOf(list, e)]
         /\ Range(list) = {list[i] : i \in DOMAIN list}
BY DEF ToBag, Range, CountOf

\* The positions of an entry are finitely many, and some exactly when the list has it.
LEMMA CountsAreNumbers ==
  ASSUME NEW list \in Seq(Entries), NEW e
  PROVE  /\ IsFiniteSet({i \in DOMAIN list : list[i] = e})
         /\ CountOf(list, e) \in Nat
         /\ e \in Range(list) <=> CountOf(list, e) > 0
<1> DEFINE S == {i \in DOMAIN list : list[i] = e}
<1>1. IsFiniteSet(S)
  <2>1. S \subseteq 1 .. Len(list) /\ IsFiniteSet(1 .. Len(list))
    BY FS_Interval
  <2>2. QED
    BY <2>1, FS_Subset
<1>2. Cardinality(S) \in Nat /\ (Cardinality(S) = 0 <=> S = {})
  BY <1>1, FS_CardinalityType, FS_EmptySet
<1>3. e \in Range(list) <=> S # {}
  BY DEF Range
<1> HIDE DEF S
<1>4. Cardinality(S) \in Nat /\ (e \in Range(list) <=> Cardinality(S) > 0)
  BY <1>2, <1>3
<1>5. QED
  BY <1>1, <1>4 DEF S, CountOf

\* Entries that change places stay the same entries.
LEMMA ExchangeKeepsBag ==
  ASSUME NEW list \in Seq(Entries), NEW p \in 0 .. Len(list) - 1, NEW q \in 0 .. Len(list) - 1
  PROVE  ToBag(Heap!Swapped(list, p, q)) = ToBag(list)
<1> DEFINE n == Len(list)  l == Heap!Swapped(list, p, q)
           to == [i \in 1 .. n |-> IF i = p + 1 THEN q + 1 ELSE IF i = q + 1 THEN p + 1 ELSE i]
<1>1. n \in Nat /\ DOMAIN list = 1 .. n /\ p + 1 \in 1 .. n /\ q + 1 \in 1 .. n /\ p \in Int /\ q \in Int
  OBVIOUS
<1>2. l \in Seq(Entries) /\ DOMAIN l = 1 .. n
  BY <1>1, Exchange
<1>3. to \in [1 .. n -> 1 .. n] /\ \A i \in 1 .. n : to[to[i]] = i
  <2> HIDE DEF n
  <2>1. to \in [1 .. n -> 1 .. n]
    BY <1>1
  <2>2. \A i \in 1 .. n : to[i] = IF i = p + 1 THEN q + 1 ELSE IF i = q + 1 THEN p + 1 ELSE i
    OBVIOUS
  <2> HIDE DEF to
  <2>3. QED
    BY <1>1, <2>1, <2>2
<1>4. \A i \in 1 .. n : l[i] = list[to[i]]
  BY <1>1 DEF Heap!Swapped, Heap!At
<1> HIDE DEF n, l, to
<1>5. Range(l) = Range(list)
  <2>1. \A i \in 1 .. n : to[i] \in 1 .. n /\ l[i] = list[to[i]] /\ list[i] = l[to[i]]
    BY <1>3, <1>4
  <2>2. QED
    <3>1. Range(l) = {l[i] : i \in 1 .. n} /\ Range(list) = {list[i] : i \in 1 .. n}
      BY <1>1, <1>2 DEF Range
    <3>2. QED
      BY <2>1, <3>1
<1>6. ASSUME NEW e
      PROVE  CountOf(l, e) = CountOf(list, e)
  <2> DEFINE A == {i \in DOMAIN list : list[i] = e}  B == {i \in DOMAIN l : l[i] = e}
             f == [i \in A |-> to[i]]
  <2>1. IsFiniteSet(A)
    BY CountsAreNumbers
  <2>2. \A i \in A : to[i] \in B /\ to[to[i]] = i
    BY <1>1, <1>2, <1>3, <1>4
  <2>3. \A i \in B : to[i] \in A /\ to[to[i]] = i
    BY <1>1, <1>2, <1>3, <1>4
  <2> HIDE DEF A, B
  <2>4. f \in [A -> B] /\ (\A i, j \in A : f[i] = f[j] => i = j) /\ \A i \in B : \E j \in A : f[j] = i
    BY <2>2, <2>3
  <2> HIDE DEF f
  <2>5. f \in Bijection(A, B)
    BY <2>4, Fun_IsBij
  <2>6. Cardinality(B) = Cardinality(A)
    BY <2>1, <2>5, FS_Bijection DEF ExistsBijection
  <2>7. QED
    BY <2>6 DEF A, B, CountOf
<1>7. QED
  BY <1>5, <1>6, BagOfList DEF l

\* An entry more.
LEMMA AppendAddsToBag ==
  ASSUME NEW list \in Seq(Entries), NEW e \in Entries
  PROVE  ToBag(Append(list, e)) = Queue!(+)(ToBag(list), Queue!SetToBag({e}))
<1> DEFINE l == Append(list, e)  n == Len(list)
<1>1. /\ n \in Nat /\ DOMAIN list = 1 .. n
      /\ l \in Seq(Entries) /\ DOMAIN l = 1 .. n + 1
      /\ l[n + 1] = e /\ \A i \in 1 .. n : l[i] = list[i]
  OBVIOUS
<1> HIDE DEF l, n
<1>2. \A i : i \in 1 .. n + 1 <=> (i \in 1 .. n \/ i = n + 1)
  BY <1>1
<1>3. n + 1 \notin 1 .. n
  BY <1>1
<1>4. Range(l) = Range(list) \cup {e}
  BY <1>1, <1>2 DEF Range
<1>5. ASSUME NEW x
      PROVE  CountOf(l, x) = CountOf(list, x) + (IF x = e THEN 1 ELSE 0)
  <2> DEFINE A == {i \in DOMAIN list : list[i] = x}  B == {i \in DOMAIN l : l[i] = x}
  <2>1. IsFiniteSet(A) /\ Cardinality(A) \in Nat
    BY CountsAreNumbers DEF CountOf
  <2>2. n + 1 \notin A
    BY <1>1, <1>3
  <2>3. B = IF x = e THEN A \cup {n + 1} ELSE A
    BY <1>1, <1>2
  <2> HIDE DEF A, B
  <2>4. Cardinality(B) = Cardinality(A) + (IF x = e THEN 1 ELSE 0)
    <3>1. CASE x = e
      <4>1. B = A \cup {n + 1}
        BY <2>3, <3>1
      <4>2. Cardinality(A \cup {n + 1}) = Cardinality(A) + 1
        BY <2>1, <2>2, FS_AddElement
      <4>3. QED
        BY <3>1, <4>1, <4>2
    <3>2. CASE x # e
      BY <2>1, <2>3, <3>2
    <3>3. QED
      BY <3>1, <3>2
  <2>5. QED
    BY <2>4 DEF A, B, CountOf
<1>6. ASSUME NEW x, x \notin Range(list)
      PROVE  CountOf(list, x) = 0
  <2>1. CountOf(list, x) \in Nat /\ ~ (CountOf(list, x) > 0)
    BY <1>6, CountsAreNumbers
  <2>2. QED
    BY <2>1
<1> DEFINE b == ToBag(list)
<1>7. DOMAIN b = Range(list) /\ \A x \in Range(list) : b[x] = CountOf(list, x)
  BY BagOfList
<1>8. ToBag(l) = [x \in Range(l) |-> CountOf(l, x)]
  BY BagOfList
<1>9. Queue!SetToBag({e}) = [x \in {e} |-> 1]
  BY DEF Queue!SetToBag
<1>10. Queue!(+)(b, Queue!SetToBag({e})) =
         [x \in Range(list) \cup {e} |->
            (IF x \in Range(list) THEN CountOf(list, x) ELSE 0) + (IF x \in {e} THEN 1 ELSE 0)]
  <2> HIDE DEF b
  <2>1. QED
    BY <1>7, <1>9 DEF Queue!(+)
<1>11. \A x \in Range(list) \cup {e} :
         CountOf(l, x) = (IF x \in Range(list) THEN CountOf(list, x) ELSE 0) + (IF x \in {e} THEN 1 ELSE 0)
  <2> TAKE x \in Range(list) \cup {e}
  <2>1. (x \notin Range(list) => CountOf(list, x) = 0) /\ (x \in {e} <=> x = e)
    BY <1>6
  <2>2. CountOf(list, x) \in Nat /\ CountOf(l, x) = CountOf(list, x) + (IF x = e THEN 1 ELSE 0)
    BY <1>5, CountsAreNumbers
  <2>3. QED
    BY <2>1, <2>2
<1>12. QED
  BY <1>4, <1>8, <1>10, <1>11 DEF l, b

\* And taken away again.
LEMMA AddedAndTaken ==
  ASSUME NEW list \in Seq(Entries), NEW e
  PROVE  LET b == ToBag(list)  one == Queue!SetToBag({e}) IN
         Queue!(-)(Queue!(+)(b, one), one) = b
<1> DEFINE b == ToBag(list)  one == Queue!SetToBag({e})  R == Range(list)
           sum == Queue!(+)(b, one)
<1>1. one = [x \in {e} |-> 1]
  BY DEF Queue!SetToBag
<1>2. b = [x \in R |-> b[x]] /\ DOMAIN b = R
  BY BagOfList
<1>3. \A x \in R : b[x] \in Nat /\ b[x] > 0
  <2> TAKE x \in R
  <2>1. b[x] = CountOf(list, x)
    BY BagOfList
  <2>2. QED
    BY <2>1, CountsAreNumbers
<1> HIDE DEF one, b, R
<1>4. sum = [x \in R \cup {e} |-> (IF x \in R THEN b[x] ELSE 0) + (IF x \in {e} THEN 1 ELSE 0)]
  BY <1>1, <1>2 DEF Queue!(+)
<1>5. DOMAIN sum = R \cup {e} /\ \A x \in R \cup {e} : sum[x] = (IF x \in R THEN b[x] ELSE 0) + (IF x \in {e} THEN 1 ELSE 0)
  BY <1>4
<1> HIDE DEF sum
<1> DEFINE less == [x \in R \cup {e} |-> IF x \in {e} THEN sum[x] - 1 ELSE sum[x]]
           left == {x \in R \cup {e} : less[x] > 0}
<1>6. \A x \in R \cup {e} : less[x] = IF x \in R THEN b[x] ELSE 0
  <2> TAKE x \in R \cup {e}
  <2>1. sum[x] = (IF x \in R THEN b[x] ELSE 0) + (IF x \in {e} THEN 1 ELSE 0)
    BY <1>5
  <2>2. less[x] = IF x \in {e} THEN sum[x] - 1 ELSE sum[x]
    OBVIOUS
  <2>3. x \in R => b[x] \in Nat
    BY <1>3
  <2> HIDE DEF less
  <2>4. QED
    BY <2>1, <2>2, <2>3
<1>7. Queue!(-)(sum, one) = [x \in left |-> less[x]]
  <2>1. DOMAIN one = {e} /\ one[e] = 1
    BY <1>1
  <2>2. less = [x \in DOMAIN sum |-> IF x \in DOMAIN one THEN sum[x] - one[x] ELSE sum[x]]
    BY <1>5, <2>1
  <2>3. DOMAIN less = R \cup {e}
    OBVIOUS
  <2> HIDE DEF less
  <2>4. QED
    BY <2>2, <2>3 DEF Queue!(-)
<1> HIDE DEF less
<1>8. left = R
  BY <1>3, <1>6
<1>9. [x \in left |-> less[x]] = [x \in R |-> b[x]]
  BY <1>6, <1>8
<1>10. QED
  BY <1>2, <1>7, <1>9 DEF sum, one, b

\* The last entry in the place of the first, as Pop puts it: the heap less the first.
LEMMA LastForFirst ==
  ASSUME NEW list \in Seq(Entries), list # <<>>
  PROVE  LET l == Heap!Front([list EXCEPT ![1] = Heap!Last(list)]) IN
         /\ l \in Seq(Entries) /\ Len(l) = Len(list) - 1
         /\ \A i \in 1 .. Len(l) : l[i] = IF i = 1 THEN list[Len(list)] ELSE list[i]
         /\ ToBag(l) = Queue!(-)(ToBag(list), Queue!SetToBag({Heap!At(list, 0)}))
<1> DEFINE n == Len(list)  m == [list EXCEPT ![1] = Heap!Last(list)]  l == Heap!Front(m)
           w == Heap!Swapped(list, 0, n - 1)  first == Heap!At(list, 0)
<1>1. n \in Nat /\ n >= 1 /\ DOMAIN list = 1 .. n /\ list \in [1 .. n -> Entries]
  OBVIOUS
<1>2. first = list[1] /\ first \in Entries
  BY <1>1 DEF Heap!At
<1>3. m \in Seq(Entries) /\ Len(m) = n /\ \A i \in 1 .. n : m[i] = IF i = 1 THEN list[n] ELSE list[i]
  <2>1. Heap!Last(list) = list[n] /\ list[n] \in Entries
    BY <1>1 DEF Heap!Last
  <2> HIDE DEF n
  <2>2. m \in [1 .. n -> Entries] /\ \A i \in 1 .. n : m[i] = IF i = 1 THEN list[n] ELSE list[i]
    BY <1>1, <2>1
  <2> HIDE DEF m
  <2>3. QED
    BY <1>1, <2>2
<1>4. l \in Seq(Entries) /\ Len(l) = n - 1 /\ \A i \in 1 .. n - 1 : l[i] = m[i]
  <2> HIDE DEF m, n
  <2>1. l = SubSeq(m, 1, n - 1)
    BY <1>3 DEF Heap!Front
  <2>2. QED
    BY <1>1, <1>3, <2>1, SubSeqProperties
<1>5. w \in Seq(Entries) /\ Len(w) = n /\ \A i \in 1 .. n : w[i] = IF i = n THEN list[1] ELSE IF i = 1 THEN list[n] ELSE list[i]
  <2>1. w \in Seq(Entries) /\ Len(w) = n
    BY <1>1, Exchange
  <2>2. \A i \in 1 .. n : w[i] = IF i = n THEN list[1] ELSE IF i = 1 THEN list[n] ELSE list[i]
    BY <1>1 DEF Heap!Swapped, Heap!At
  <2>3. QED
    BY <2>1, <2>2
<1>6. ToBag(w) = ToBag(list)
  BY <1>1, ExchangeKeepsBag
<1> HIDE DEF n, m, l, w, first
<1>7. w = Append(l, first)
  <2> DEFINE a == Append(l, first)
  <2>1. a \in Seq(Entries) /\ Len(a) = n /\ \A i \in 1 .. n : a[i] = IF i = n THEN first ELSE l[i]
    BY <1>1, <1>2, <1>4
  <2>2. \A i \in 1 .. n : a[i] = w[i]
    BY <1>1, <1>2, <1>3, <1>4, <1>5, <2>1
  <2> HIDE DEF a
  <2>3. a = w
    BY <1>5, <2>1, <2>2
  <2>4. QED
    BY <2>3 DEF a
<1>8. ToBag(list) = Queue!(+)(ToBag(l), Queue!SetToBag({first}))
  BY <1>2, <1>4, <1>6, <1>7, AppendAddsToBag
<1>9. ToBag(l) = Queue!(-)(ToBag(list), Queue!SetToBag({first}))
  BY <1>4, <1>8, AddedAndTaken
<1>10. /\ l \in Seq(Entries) /\ Len(l) = n - 1
       /\ \A i \in 1 .. Len(l) : l[i] = IF i = 1 THEN list[n] ELSE list[i]
  BY <1>1, <1>3, <1>4
<1>11. QED
  BY <1>9, <1>10 DEF n, l, m, first

-----------------------------------------------------------------------------
\* The loops to their end, and the heap as a priority queue

\* What the loop of Push does to a list whose last entry has just come.
LEMMA SiftedUp ==
  ASSUME NEW list \in Seq(Entries), NEW p, HeapBut(list, p)
  PROVE  LET l == Heap!Sifted_Up(list, p) IN
         l \in Seq(Entries) /\ Len(l) = Len(list) /\ InHeapOrder(l) /\ ToBag(l) = ToBag(list)
<1> DEFINE n == Len(list)  bag == ToBag(list)
           S == {h \in [list : Seq(Entries), p : Nat] :
                   HeapBut(h.list, h.p) /\ Len(h.list) = n /\ ToBag(h.list) = bag}
           Stops(h) == h.p = 0 \/ ~ (Weight(h.list, h.p) < Weight(h.list, Heap!Parent(h.p)))
           F == [k \in Nat |-> {h \in S : h.p <= k \/ Stops(h)}]
           start == [list |-> list, p |-> p]
           next == [h \in S |-> Heap!Up_Round(h)]
           E(f) == f = [r \in Nat |-> IF r = 0 THEN {start} ELSE {Heap!Up_Round(x) : x \in f[r - 1]}]
           after == CHOOSE f : E(f)
<1>1. n \in Nat /\ p \in Nat /\ p <= n
  BY DEF HeapBut
<1>2. start \in S /\ start.p = p
  BY <1>1
<1>3. ASSUME NEW h \in S
      PROVE  /\ Heap!Up_Round(h) \in S
             /\ Stops(h) => Heap!Up_Round(h) = h
             /\ ~ Stops(h) => Heap!Up_Round(h).p < h.p
  <2> DEFINE u == Heap!Parent(h.p)  l == Heap!Swapped(h.list, h.p, u)
  <2>1. /\ h.list \in Seq(Entries) /\ h.p \in Nat
        /\ HeapBut(h.list, h.p) /\ Len(h.list) = n /\ ToBag(h.list) = bag
    OBVIOUS
  <2>2. Heap!Up_Round(h) = IF Stops(h) THEN h ELSE [list |-> l, p |-> u]
    BY DEF Heap!Up_Round, Heap!Lighter, Weight
  <2>3. CASE Stops(h)
    <3> HIDE DEF S, Stops
    <3>1. QED
      BY <2>2, <2>3
  <2>4. CASE ~ Stops(h)
    <3>1. h.p \in 0 .. n - 1 /\ h.p # 0 /\ u \in Nat /\ u < h.p /\ u \in 0 .. n - 1
      BY <1>1, <2>1, <2>4, Parents DEF HeapBut
    <3>2. HeapBut(l, u)
      BY <2>1, <2>4, UpRound
    <3>3. l \in Seq(Entries) /\ Len(l) = n /\ ToBag(l) = bag
      BY <2>1, <3>1, Exchange, ExchangeKeepsBag
    <3> HIDE DEF l, u, Stops, n, bag
    <3>4. [list |-> l, p |-> u] \in S /\ [list |-> l, p |-> u].p = u
      BY <3>1, <3>2, <3>3
    <3> HIDE DEF S
    <3>5. QED
      BY <2>2, <2>4, <3>1, <3>4
  <2>5. QED
    BY <2>3, <2>4
<1>4. \A h \in S : h.p \in Nat
  OBVIOUS
<1>5. ASSUME NEW h \in S, Stops(h)
      PROVE  h.list \in Seq(Entries) /\ Len(h.list) = n /\ InHeapOrder(h.list) /\ ToBag(h.list) = bag
  BY <1>5, UpEnds
<1> HIDE DEF S, start, n, bag
<1>6. next \in [S -> S] /\ \A x \in S : next[x] = Heap!Up_Round(x)
  BY <1>3
<1> HIDE DEF next
<1>7. PICK f : IsLoop(S, start, next, f)
  BY <1>2, <1>6, LoopExists
<1>8. E(f)
  <2>1. ASSUME NEW r \in Nat, r # 0
        PROVE  {next[x] : x \in f[r - 1]} = {Heap!Up_Round(x) : x \in f[r - 1]}
    <3>1. r - 1 \in Nat
      BY <2>1
    <3>2. \A x \in f[r - 1] : next[x] = Heap!Up_Round(x)
      BY <1>6, <1>7, <3>1 DEF IsLoop
    <3>3. QED
      BY <3>2
  <2>2. f = [r \in Nat |-> IF r = 0 THEN {start} ELSE {next[x] : x \in f[r - 1]}]
    BY <1>7 DEF IsLoop
  <2>3. QED
    BY <2>1, <2>2
<1>9. E(after)
  <2> HIDE DEF E
  <2>1. QED
    BY <1>8
<1> HIDE DEF after
<1>10. after[0] = {start}
  BY <1>9
<1>11. ASSUME NEW r \in Nat, after[r] \subseteq S
       PROVE  after[r + 1] = {next[x] : x \in after[r]}
  <2>1. after[r + 1] = {Heap!Up_Round(x) : x \in after[r]}
    <3>1. r + 1 \in Nat /\ r + 1 # 0 /\ (r + 1) - 1 = r
      OBVIOUS
    <3>2. QED
      BY <1>9, <3>1
  <2>2. QED
    BY <1>6, <1>11, <2>1
<1>12. F \in [Nat -> SUBSET S] /\ after[0] # {} /\ after[0] \subseteq F[n]
  BY <1>1, <1>2, <1>10
<1>13. ASSUME NEW k \in Nat, NEW x \in F[k + 1]
       PROVE  next[x] \in F[k]
  <2>1. x \in S /\ (x.p <= k + 1 \/ Stops(x))
    OBVIOUS
  <2>2. CASE Stops(x)
    BY <1>3, <1>6, <2>1, <2>2
  <2>3. CASE ~ Stops(x)
    <3>1. next[x] \in S /\ next[x].p < x.p /\ x.p <= k + 1
      BY <1>3, <1>6, <2>1, <2>3
    <3>2. next[x].p \in Nat /\ x.p \in Nat
      BY <1>4, <2>1, <3>1
    <3>3. next[x].p <= k
      BY <3>1, <3>2
    <3>4. QED
      BY <3>1, <3>3
  <2>4. QED
    BY <2>2, <2>3
<1> DEFINE end == CHOOSE last \in after[n] : TRUE
<1>14. end \in F[0]
  <2>1. /\ \A r \in Nat : after[r] \subseteq S => after[r + 1] = {next[x] : x \in after[r]}
        /\ \A k \in Nat : \A x \in F[k + 1] : next[x] \in F[k]
    <3> HIDE DEF F
    <3>1. QED
      BY <1>11, <1>13
  <2>2. /\ n \in Nat /\ next \in [S -> S] /\ F \in [Nat -> SUBSET S]
        /\ after[0] # {} /\ after[0] \subseteq F[n]
    BY <1>1, <1>6, <1>12
  <2> HIDE DEF F
  <2>3. Descends(S, next, after, n, F)
    BY <2>1, <2>2 DEF Descends
  <2>4. after[n] # {} /\ after[n] \subseteq F[0]
    BY <2>3, LoopEnds
  <2>5. QED
    BY <2>4
<1>15. end \in S /\ Stops(end)
  <2> HIDE DEF end
  <2>1. end \in S /\ (end.p <= 0 \/ Stops(end))
    BY <1>14
  <2>2. end.p \in Nat
    BY <1>4, <2>1
  <2>3. QED
    BY <2>1, <2>2
<1>16. Heap!Sifted_Up(list, p) = end.list
  BY DEF Heap!Sifted_Up, Heap!Iterated, after, start, n
<1> HIDE DEF end, Stops
<1>17. QED
  BY <1>5, <1>15, <1>16 DEF n, bag

\* What the loop of Pop does to a list whose first entry has just come.
LEMMA SiftedDown ==
  ASSUME NEW list \in Seq(Entries), HeapAbove(list, 0)
  PROVE  LET l == Heap!Sifted_Down(list, 0) IN
         l \in Seq(Entries) /\ Len(l) = Len(list) /\ InHeapOrder(l) /\ ToBag(l) = ToBag(list)
<1> DEFINE n == Len(list)  bag == ToBag(list)
           S == {h \in [list : Seq(Entries), p : Nat] :
                   HeapAbove(h.list, h.p) /\ Len(h.list) = n /\ ToBag(h.list) = bag}
           Stops(h) == Heap!Lightest(h.list, h.p) = h.p
           F == [k \in Nat |-> {h \in S : n - h.p <= k \/ Stops(h)}]
           start == [list |-> list, p |-> 0]
           next == [h \in S |-> Heap!Down_Round(h)]
           E(f) == f = [r \in Nat |-> IF r = 0 THEN {start} ELSE {Heap!Down_Round(x) : x \in f[r - 1]}]
           after == CHOOSE f : E(f)
<1>1. n \in Nat
  OBVIOUS
<1>2. start \in S /\ start.p = 0
  OBVIOUS
<1>3. ASSUME NEW h \in S
      PROVE  /\ Heap!Down_Round(h) \in S
             /\ n - h.p <= 0 => Stops(h)
             /\ Stops(h) => Heap!Down_Round(h) = h
             /\ ~ Stops(h) => h.p < Heap!Down_Round(h).p
  <2> DEFINE c == Heap!Lightest(h.list, h.p)  l == Heap!Swapped(h.list, h.p, c)
  <2>1. /\ h.list \in Seq(Entries) /\ h.p \in Nat
        /\ HeapAbove(h.list, h.p) /\ Len(h.list) = n /\ ToBag(h.list) = bag
    OBVIOUS
  <2>2. Heap!Down_Round(h) = IF Stops(h) THEN h ELSE [list |-> l, p |-> c]
    BY DEF Heap!Down_Round
  <2>3. n - h.p <= 0 => Stops(h)
    <3>1. n - h.p <= 0 => ~ (n > 2 * h.p + 1) /\ ~ (n > 2 * h.p + 2)
      BY <1>1, <2>1
    <3>2. QED
      BY <2>1, <3>1 DEF Heap!Lightest
  <2>4. CASE Stops(h)
    <3> HIDE DEF S, Stops
    <3>1. QED
      BY <2>2, <2>3, <2>4
  <2>5. CASE ~ Stops(h)
    <3>1. h.p \in 0 .. n - 1
      <4> HIDE DEF Stops, S, n
      <4>1. ~ (n - h.p <= 0)
        BY <2>3, <2>5
      <4>2. QED
        BY <1>1, <2>1, <4>1
    <3>2. c \in 1 .. n - 1 /\ Heap!Parent(c) = h.p
      BY <2>1, <2>5, <3>1, LightestOfThree
    <3>3. c \in Nat /\ c \in 0 .. n - 1 /\ h.p < c
      BY <1>1, <3>2, Parents
    <3>4. HeapAbove(l, c)
      BY <2>1, <2>5, <3>1, DownRound
    <3>5. l \in Seq(Entries) /\ Len(l) = n /\ ToBag(l) = bag
      BY <2>1, <3>1, <3>3, Exchange, ExchangeKeepsBag
    <3> HIDE DEF l, c, Stops, n, bag
    <3>6. [list |-> l, p |-> c] \in S /\ [list |-> l, p |-> c].p = c
      BY <3>3, <3>4, <3>5
    <3> HIDE DEF S
    <3>7. QED
      BY <2>2, <2>3, <2>5, <3>3, <3>6
  <2>6. QED
    BY <2>4, <2>5
<1>4. \A h \in S : h.p \in Nat
  OBVIOUS
<1>5. ASSUME NEW h \in S, Stops(h)
      PROVE  h.list \in Seq(Entries) /\ Len(h.list) = n /\ InHeapOrder(h.list) /\ ToBag(h.list) = bag
  BY <1>5, DownEnds
<1> HIDE DEF S, start, n, bag
<1>6. next \in [S -> S] /\ \A x \in S : next[x] = Heap!Down_Round(x)
  BY <1>3
<1> HIDE DEF next
<1>7. PICK f : IsLoop(S, start, next, f)
  BY <1>2, <1>6, LoopExists
<1>8. E(f)
  <2>1. ASSUME NEW r \in Nat, r # 0
        PROVE  {next[x] : x \in f[r - 1]} = {Heap!Down_Round(x) : x \in f[r - 1]}
    <3>1. r - 1 \in Nat
      BY <2>1
    <3>2. \A x \in f[r - 1] : next[x] = Heap!Down_Round(x)
      BY <1>6, <1>7, <3>1 DEF IsLoop
    <3>3. QED
      BY <3>2
  <2>2. f = [r \in Nat |-> IF r = 0 THEN {start} ELSE {next[x] : x \in f[r - 1]}]
    BY <1>7 DEF IsLoop
  <2>3. QED
    BY <2>1, <2>2
<1>9. E(after)
  <2> HIDE DEF E
  <2>1. QED
    BY <1>8
<1> HIDE DEF after
<1>10. after[0] = {start}
  BY <1>9
<1>11. ASSUME NEW r \in Nat, after[r] \subseteq S
       PROVE  after[r + 1] = {next[x] : x \in after[r]}
  <2>1. after[r + 1] = {Heap!Down_Round(x) : x \in after[r]}
    <3>1. r + 1 \in Nat /\ r + 1 # 0 /\ (r + 1) - 1 = r
      OBVIOUS
    <3>2. QED
      BY <1>9, <3>1
  <2>2. QED
    BY <1>6, <1>11, <2>1
<1>12. F \in [Nat -> SUBSET S] /\ after[0] # {} /\ after[0] \subseteq F[n]
  BY <1>1, <1>2, <1>10
<1>13. ASSUME NEW k \in Nat, NEW x \in F[k + 1]
       PROVE  next[x] \in F[k]
  <2>1. x \in S /\ (n - x.p <= k + 1 \/ Stops(x))
    OBVIOUS
  <2>2. CASE Stops(x)
    BY <1>3, <1>6, <2>1, <2>2
  <2>3. CASE ~ Stops(x)
    <3>1. next[x] \in S /\ x.p < next[x].p /\ n - x.p <= k + 1
      BY <1>3, <1>6, <2>1, <2>3
    <3>2. next[x].p \in Nat /\ x.p \in Nat
      BY <1>4, <2>1, <3>1
    <3>3. n - next[x].p <= k
      BY <1>1, <3>1, <3>2
    <3>4. QED
      BY <3>1, <3>3
  <2>4. QED
    BY <2>2, <2>3
<1> DEFINE end == CHOOSE last \in after[n] : TRUE
<1>14. end \in F[0]
  <2>1. /\ \A r \in Nat : after[r] \subseteq S => after[r + 1] = {next[x] : x \in after[r]}
        /\ \A k \in Nat : \A x \in F[k + 1] : next[x] \in F[k]
    <3> HIDE DEF F
    <3>1. QED
      BY <1>11, <1>13
  <2>2. /\ n \in Nat /\ next \in [S -> S] /\ F \in [Nat -> SUBSET S]
        /\ after[0] # {} /\ after[0] \subseteq F[n]
    BY <1>1, <1>6, <1>12
  <2> HIDE DEF F
  <2>3. Descends(S, next, after, n, F)
    BY <2>1, <2>2 DEF Descends
  <2>4. after[n] # {} /\ after[n] \subseteq F[0]
    BY <2>3, LoopEnds
  <2>5. QED
    BY <2>4
<1>15. end \in S /\ Stops(end)
  <2> HIDE DEF end
  <2>1. end \in S /\ (n - end.p <= 0 \/ Stops(end))
    BY <1>14
  <2>2. QED
    BY <1>3, <2>1
<1>16. Heap!Sifted_Down(list, 0) = end.list
  BY DEF Heap!Sifted_Down, Heap!Iterated, after, start, n
<1> HIDE DEF end, Stops
<1>17. QED
  BY <1>5, <1>15, <1>16 DEF n, bag

\* The heap holds entries, none of them lighter than its parent.
HeapInv == InnerList \in Seq(Entries) /\ InHeapOrder(InnerList)

\* Push keeps the order and adds an entry to the bag.
LEMMA PushAdds ==
  ASSUME HeapInv, NEW index \in Indexes, NEW weight \in Weights, Heap!Push(index, weight)
  PROVE  HeapInv' /\ Queue!Push(index, weight)
<1> DEFINE e == [index |-> index, weight |-> weight]  added == Append(InnerList, e)
           n == Len(InnerList)
<1>1. e \in Entries
  BY DEF Entries
<1>2. /\ InnerList \in Seq(Entries) /\ n \in Nat
      /\ added \in Seq(Entries) /\ Len(added) = n + 1 /\ \A i \in 1 .. n : added[i] = InnerList[i]
  <2> HIDE DEF e
  <2>1. QED
    BY <1>1 DEF HeapInv
<1>3. HeapBut(added, n)
  <2>1. \A r \in 0 .. n - 1 : Weight(added, r) = Weight(InnerList, r)
    <3>1. \A r \in 0 .. n - 1 : r + 1 \in 1 .. n
      BY <1>2
    <3> HIDE DEF added, n
    <3>2. QED
      BY <1>2, <3>1 DEF Weight, Heap!At
  <2> HIDE DEF added, n
  <2>2. ASSUME NEW q \in 1 .. Len(added) - 1, q # n
        PROVE  Weight(added, Heap!Parent(q)) <= Weight(added, q)
    <3>1. q \in 1 .. n - 1
      BY <1>2, <2>2
    <3>2. Heap!Parent(q) \in 0 .. n - 1 /\ q \in 0 .. n - 1
      BY <1>2, <3>1, Parents
    <3>3. Weight(InnerList, Heap!Parent(q)) <= Weight(InnerList, q)
      BY <3>1 DEF HeapInv, InHeapOrder, n
    <3>4. QED
      BY <2>1, <3>2, <3>3
  <2>3. ASSUME NEW q \in 1 .. Len(added) - 1
        PROVE  Heap!Parent(q) # n
    BY <1>2, Parents
  <2>4. n \in 0 .. Len(added) - 1
    BY <1>2
  <2>5. QED
    BY <2>2, <2>3, <2>4 DEF HeapBut
<1>4. InnerList' = Heap!Sifted_Up(added, n) /\ popped' = <<>>
  BY DEF Heap!Push
<1> HIDE DEF added, n, e
<1>5. HeapInv' /\ ToBag(InnerList') = ToBag(added)
  BY <1>2, <1>3, <1>4, SiftedUp DEF HeapInv
<1>6. ToBag(added) = Queue!(+)(ToBag(InnerList), Queue!SetToBag({e}))
  BY <1>1, <1>2, AppendAddsToBag DEF added
<1>7. QED
  BY <1>4, <1>5, <1>6 DEF Queue!Push, e

\* Pop keeps the order and takes an entry of least weight from the bag.
LEMMA PopTakesLightest ==
  ASSUME HeapInv, Heap!Pop
  PROVE  HeapInv' /\ Queue!Pop
<1> DEFINE n == Len(InnerList)  first == Heap!At(InnerList, 0)
           l == Heap!Front([InnerList EXCEPT ![1] = Heap!Last(InnerList)])
<1>1. /\ InnerList \in Seq(Entries) /\ InnerList # <<>> /\ n \in Nat /\ n >= 1
      /\ InnerList' = Heap!Sifted_Down(l, 0) /\ popped' = <<first.index>>
  BY DEF HeapInv, Heap!Pop
<1>2. /\ l \in Seq(Entries) /\ Len(l) = n - 1
      /\ \A i \in 1 .. Len(l) : l[i] = IF i = 1 THEN InnerList[n] ELSE InnerList[i]
      /\ ToBag(l) = Queue!(-)(ToBag(InnerList), Queue!SetToBag({first}))
  BY <1>1, LastForFirst
<1> HIDE DEF n, l, first
<1>3. HeapAbove(l, 0)
  <2>1. \A r \in 1 .. Len(l) - 1 : Weight(l, r) = Weight(InnerList, r)
    <3>1. \A r \in 1 .. Len(l) - 1 : r + 1 \in 1 .. Len(l) /\ r + 1 # 1
      BY <1>1, <1>2
    <3>2. QED
      BY <1>2, <3>1 DEF Weight, Heap!At
  <2>2. ASSUME NEW q \in 1 .. Len(l) - 1, Heap!Parent(q) # 0
        PROVE  Weight(l, Heap!Parent(q)) <= Weight(l, q)
    <3>1. Heap!Parent(q) \in 1 .. Len(l) - 1
      BY <1>1, <1>2, <2>2, Parents
    <3>2. Weight(InnerList, Heap!Parent(q)) <= Weight(InnerList, q)
      <4>1. q \in 1 .. n - 1
        BY <1>1, <1>2
      <4>2. QED
        BY <4>1 DEF HeapInv, InHeapOrder, n
    <3>3. QED
      BY <2>1, <3>1, <3>2
  <2>3. QED
    BY <2>2 DEF HeapAbove
<1>4. HeapInv' /\ ToBag(InnerList') = ToBag(l)
  BY <1>1, <1>2, <1>3, SiftedDown DEF HeapInv
<1>5. Queue!BagToSet(ToBag(InnerList)) = {InnerList[i] : i \in 1 .. n}
  <2>1. DOMAIN ToBag(InnerList) = Range(InnerList)
    BY BagOfList
  <2>2. DOMAIN InnerList = 1 .. n
    BY <1>1 DEF n
  <2>3. QED
    BY <2>1, <2>2 DEF Queue!BagToSet, Range
<1>6. first \in Queue!BagToSet(ToBag(InnerList))
  BY <1>1, <1>5 DEF first, Heap!At
<1>7. ASSUME NEW other \in Queue!BagToSet(ToBag(InnerList))
      PROVE  first.weight <= other.weight
  <2>1. PICK i \in 1 .. n : other = InnerList[i]
    BY <1>5
  <2>2. i - 1 \in 0 .. Len(InnerList) - 1 /\ (i - 1) + 1 = i
    BY <1>1 DEF n
  <2>3. Weight(InnerList, 0) <= Weight(InnerList, i - 1)
    BY <2>2, FirstIsLightest DEF HeapInv
  <2>4. Weight(InnerList, i - 1) = other.weight /\ Weight(InnerList, 0) = first.weight
    BY <2>1, <2>2 DEF Weight, Heap!At, first
  <2>5. QED
    BY <2>3, <2>4
<1>8. ToBag(InnerList)' = Queue!(-)(ToBag(InnerList), Queue!SetToBag({first}))
  BY <1>2, <1>4
<1>9. QED
  BY <1>1, <1>4, <1>6, <1>7, <1>8 DEF Queue!Pop

\* The heap implements a priority queue: Pop returns an index of least weight, and no
\* entry is lost or doubled, for every set of indexes and weights and every order of calls.
THEOREM HeapImplementsPriorityQueue == Heap!Spec => ImplementsPriorityQueue
<1>1. Heap!Init => HeapInv
  <2>1. SUFFICES ASSUME InnerList = <<>>
                 PROVE  HeapInv
    BY DEF Heap!Init
  <2>2. InnerList \in Seq(Entries) /\ Len(InnerList) = 0
    BY <2>1
  <2>3. QED
    BY <2>2 DEF HeapInv, InHeapOrder
<1>2. HeapInv /\ [Heap!Next]_(Heap!vars) => HeapInv'
  <2> SUFFICES ASSUME HeapInv, [Heap!Next]_(Heap!vars)
               PROVE  HeapInv'
    OBVIOUS
  <2>1. CASE Heap!Pop
    BY <2>1, PopTakesLightest
  <2>2. ASSUME NEW index \in Indexes, NEW weight \in Weights, Heap!Push(index, weight)
        PROVE  HeapInv'
    BY <2>2, PushAdds
  <2>3. CASE UNCHANGED Heap!vars
    BY <2>3 DEF Heap!vars, HeapInv
  <2>4. QED
    BY <2>1, <2>2, <2>3 DEF Heap!Next
<1>3. Heap!Init => Queue!Init
  <2>1. ToBag(<<>>) = Queue!EmptyBag
    BY DEF ToBag, Range, Queue!EmptyBag, Queue!SetToBag
  <2>2. QED
    BY <2>1 DEF Heap!Init, Queue!Init
<1>4. HeapInv /\ [Heap!Next]_(Heap!vars) => [Queue!Next]_<<ToBag(InnerList), popped>>
  <2> SUFFICES ASSUME HeapInv, [Heap!Next]_(Heap!vars)
               PROVE  [Queue!Next]_<<ToBag(InnerList), popped>>
    OBVIOUS
  <2>1. CASE Heap!Pop
    BY <2>1, PopTakesLightest DEF Queue!Next
  <2>2. ASSUME NEW index \in Indexes, NEW weight \in Weights, Heap!Push(index, weight)
        PROVE  [Queue!Next]_<<ToBag(InnerList), popped>>
    BY <2>2, PushAdds DEF Queue!Next
  <2>3. CASE UNCHANGED Heap!vars
    BY <2>3 DEF Heap!vars
  <2>4. QED
    BY <2>1, <2>2, <2>3 DEF Heap!Next
<1>5. QED
  BY <1>1, <1>2, <1>3, <1>4, PTL DEF Heap!Spec, ImplementsPriorityQueue, Queue!Spec
=============================================================================
