------------------------------ MODULE DataLog ------------------------------
(***************************************************************************)
(* The data file of File_System_ES/Append: Put appends a record and the    *)
(* leaf keeps its address, Commit puts the tree on file.  The stream is a  *)
(* FileStream: what was last written stays in its buffer, in the memory of *)
(* the process, until the stream is moved, flushed or closed; a record as  *)
(* large as the buffer goes to the file at once.  Commit does none of that *)
(* to the data stream.                                                     *)
(*                                                                         *)
(* Addresses are counted in records, a record is named by the key it was   *)
(* written for, and a tree is the function from its keys to the addresses  *)
(* of their records; AppendTree.tla has the tree itself.                   *)
(***************************************************************************)
EXTENDS Naturals, Sequences, FiniteSets, FiniteSetsExt, Functions

CONSTANTS
  Keys,
  Hole,          \* what a file has where nothing was written: zeros
  MaxRecords,    \* bound: records written
  MaxCrashes     \* bound: processes that die with their buffer

VARIABLES
  log,        \* the data file
  buffer,     \* what the buffer of the stream holds: a record and its address, or nothing
  pointer,    \* _data_Pointer
  working,    \* the tree Get and Put use
  stored,     \* the tree on file
  fresh,      \* keys put by this process
  crashes     \* processes that died

vars == <<log, buffer, pointer, working, stored, fresh, crashes>>

NoBuffer == {}
Empty == [k \in {} |-> 0]

\* A file with records written to it, beyond its end if need be.
With_Records(file, records) ==
  [a \in 1 .. Max({Len(file)} \cup {r.address : r \in records}) |->
     CASE \E r \in records : r.address = a -> (CHOOSE r \in records : r.address = a).key
       [] a \in DOMAIN file /\ ~ \E r \in records : r.address = a -> file[a]
       [] OTHER -> Hole]

\* The file as the process sees it: the stream writes its buffer before it is
\* moved.
Flushed == With_Records(log, buffer)

Init ==
  /\ log = <<>> /\ buffer = NoBuffer /\ pointer = 1
  /\ working = Empty /\ stored = Empty /\ fresh = {} /\ crashes = 0

-----------------------------------------------------------------------------
\* The operations

\* Mutant of Write_Data: the stream is not moved, so that the record joins the
\* ones in the buffer.
Write_Data_Without_Seek(key) ==
  /\ log' = log
  /\ buffer' = buffer \cup {[address |-> pointer, key |-> key]}
  /\ pointer' = pointer + 1

\* Mutant of Write_Data: the pointer stays.
Write_Data_In_Place(key) ==
  /\ log' = Flushed
  /\ buffer' = {[address |-> pointer, key |-> key]}
  /\ pointer' = pointer

\* Seek, Write, and the pointer moves on.  The record stays in the buffer or,
\* if it is large, does not.
Write_Data(key) ==
  LET r == [address |-> pointer, key |-> key] IN
  /\ \/ log' = Flushed /\ buffer' = {r}
     \/ log' = With_Records(Flushed, {r}) /\ buffer' = NoBuffer
  /\ pointer' = pointer + 1

\* The record is written first; a key that is there keeps the record it has.
Put(key) ==
  /\ pointer <= MaxRecords
  /\ Write_Data(key)
  /\ IF key \in DOMAIN working
     THEN UNCHANGED <<working, fresh>>
     ELSE /\ working' = [k \in DOMAIN working \cup {key} |->
                           IF k = key THEN pointer ELSE working[k]]
          /\ fresh' = fresh \cup {key}
  /\ UNCHANGED <<stored, crashes>>

\* Read_Data moves the stream to the record.
Get(key) ==
  /\ key \in DOMAIN working
  /\ log' = Flushed
  /\ buffer' = NoBuffer
  /\ UNCHANGED <<pointer, working, stored, fresh, crashes>>

Commit ==
  /\ stored' = working
  /\ UNCHANGED <<log, buffer, pointer, working, fresh, crashes>>

\* Mutant of Reopen: the pointer is counted from the records of the tree.
Reopen_At_Tree_End(file) ==
  /\ log' = file
  /\ buffer' = NoBuffer
  /\ pointer' = Cardinality(DOMAIN stored) + 1
  /\ working' = stored
  /\ fresh' = {}
  /\ UNCHANGED stored

\* A new process finds a file and the tree on file, and goes on at the file's end.
Reopen(file) ==
  /\ log' = file
  /\ buffer' = NoBuffer
  /\ pointer' = Len(file) + 1
  /\ working' = stored
  /\ fresh' = {}
  /\ UNCHANGED stored

\* The process ends in good order and the stream is closed.
Close == Reopen(Flushed) /\ UNCHANGED crashes

\* The process dies.
Crash == crashes < MaxCrashes /\ crashes' = crashes + 1 /\ Reopen(log)

Next ==
  \/ \E key \in Keys : Put(key) \/ Get(key)
  \/ Commit
  \/ Close
  \/ Crash

Spec == Init /\ [][Next]_vars

-----------------------------------------------------------------------------
\* Properties

TypeOK ==
  /\ log \in Seq(Keys)
  /\ \A r \in buffer : r.address \in 1 .. MaxRecords /\ r.key \in Keys
  /\ pointer \in 1 .. MaxRecords + 1
  /\ \A tree \in {working, stored} :
       DOMAIN tree \subseteq Keys /\ Range(tree) \subseteq 1 .. MaxRecords
  /\ fresh \subseteq Keys
  /\ crashes \in 0 .. MaxCrashes

Leads_To_Its_Record(file, tree, key) ==
  tree[key] \in DOMAIN file /\ file[tree[key]] = key

\* A record that is on file stays as it is and where it is, whatever process
\* writes after it.
LogOnlyGrows == [][\A a \in DOMAIN log : a \in DOMAIN log' /\ log'[a] = log[a]]_vars

\* What a process put it can read, although its records go through the buffer
\* and earlier processes may have left addresses that lead nowhere.
OwnRecordsReadable == \A key \in fresh : Leads_To_Its_Record(Flushed, working, key)

\* Moving the stream for every Put bounds the damage: a process that dies takes
\* one record with it, and no more than one key of the tree on file goes astray.
OneLossPerCrash ==
  Cardinality({key \in DOMAIN stored : ~ Leads_To_Its_Record(Flushed, stored, key)}) <= crashes

=============================================================================
