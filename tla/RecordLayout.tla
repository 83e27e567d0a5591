---------------------------- MODULE RecordLayout ----------------------------
(***************************************************************************)
(* The bytes of a record of the data file: Data<T>.To_Bytes and            *)
(* From_Bytes (File_System_ES/Append/Data.cs), with the serializer of the  *)
(* keys.  The key has four bytes of its own; a longer one runs into the    *)
(* fields behind it, which are written after it.  A record is read by its  *)
(* length, which counts the four bytes of the length itself, so that a     *)
(* reader takes four bytes more than the record has.                       *)
(***************************************************************************)
EXTENDS Integers

CONSTANTS
  KeySize,      \* Serialized_Size_For_Single_Key_In_Bytes: 4, 8 or 16
  Keys,         \* keys as the serializer writes them
  Ticks,        \* time stamps as BitConverter writes them
  Payloads,     \* values put: a length and the bytes
  MaxPointer    \* bound: bytes of the data file

Byte == 0 .. 255
MaxInt == 2147483647
Array(n) == [0 .. n - 1 -> Byte]

ASSUME KeySizeAssumption == KeySize \in 1 .. 16
ASSUME KeysAssumption == Keys \subseteq Array(KeySize)
ASSUME TicksAssumption == Ticks \subseteq Array(8)
ASSUME PayloadsAssumption ==
  \A p \in Payloads : /\ p = [length |-> p.length, bytes |-> p.bytes]
                      /\ p.length \in Nat /\ 20 + p.length <= MaxInt
                      /\ p.bytes \in Array(p.length)

VARIABLES
  log,          \* the data file: offset -> byte
  pointer,      \* _data_Pointer, the length of the file
  records       \* what was put: address, key and payload of each record

vars == <<log, pointer, records>>

\* BitConverter.GetBytes of an int, and ToInt32.
GetBytes(n) ==
  [i \in 0 .. 3 |-> IF i = 0 THEN n % 256
                    ELSE IF i = 1 THEN (n \div 256) % 256
                    ELSE IF i = 2 THEN (n \div 65536) % 256
                    ELSE n \div 16777216]
ToInt32(b) == b[0] + 256 * b[1] + 65536 * b[2] + 16777216 * b[3]

\* Array.Copy of count bytes of source to position at of target.
Copied(target, source, at, count) ==
  [p \in DOMAIN target |-> IF p \in at .. at + count - 1 THEN source[p - at] ELSE target[p]]

\* Data.To_Bytes, in the order of its copies.  Put always has version 1.
To_Bytes(key, ticks, payload) ==
  LET size == 20 + payload.length
      zero == [p \in 0 .. size - 1 |-> 0]
      lengthened == Copied(zero, GetBytes(size), 0, 4)
      keyed == Copied(lengthened, key, 4, KeySize)
      timed == Copied(keyed, ticks, 8, 8)
      versioned == Copied(timed, GetBytes(1), 16, 4)
  IN Copied(versioned, payload.bytes, 20, payload.length)

\* Stream.Read leaves the rest of its buffer zero at the end of the file.
Read(address, count) ==
  [i \in 0 .. count - 1 |-> IF address + i < pointer THEN log[address + i] ELSE 0]

\* Data.From_Bytes(stream): the length, then as many bytes as it says.
Buffer(address) == Read(address + 4, ToInt32(Read(address, 4)))

\* Mutant of Payload_At: the four bytes read before are counted again.
Payload_At_20(address) ==
  LET length == ToInt32(Read(address, 4)) IN
  [length |-> length - 20, bytes |-> [i \in 0 .. length - 21 |-> Buffer(address)[20 + i]]]

\* Data.From_Bytes(buffer, length).
Payload_At(address) ==
  LET length == ToInt32(Read(address, 4)) IN
  [length |-> length - 20, bytes |-> [i \in 0 .. length - 21 |-> Buffer(address)[16 + i]]]

Init == log = [p \in 0 .. -1 |-> 0] /\ pointer = 0 /\ records = {}

\* BPlusTree.Write_Data.
Write_Data(key, ticks, payload) ==
  LET bytes == To_Bytes(key, ticks, payload)
      size == 20 + payload.length
  IN /\ pointer + size <= MaxPointer
     /\ log' = [p \in 0 .. pointer + size - 1 |-> IF p < pointer THEN log[p] ELSE bytes[p - pointer]]
     /\ records' = records \cup {[address |-> pointer, key |-> key, payload |-> payload]}
     /\ pointer' = pointer + size

\* BPlusTree.Read_Data moves the stream only; what it returns is Payload_At.
Read_Data == \E r \in records : r.address < pointer /\ UNCHANGED vars

Next ==
  \/ \E key \in Keys, ticks \in Ticks, payload \in Payloads : Write_Data(key, ticks, payload)
  \/ Read_Data

Spec == Init /\ [][Next]_vars

-----------------------------------------------------------------------------
\* Properties

\* The file is as long as the pointer says and consists of bytes, and records
\* begin inside of it.
TypeOK ==
  /\ pointer \in Nat
  /\ log \in Array(pointer)
  /\ records \subseteq [address : 0 .. pointer - 1, key : Keys, payload : Payloads]

\* Read_Data returns the bytes that were put, for keys of every length, although
\* a long key is overwritten and a reader takes in the start of the next record
\* or the end of the file.
PayloadsReadBack == \A r \in records : Payload_At(r.address) = r.payload

=============================================================================
