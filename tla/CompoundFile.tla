---------------------------- MODULE CompoundFile ----------------------------
(***************************************************************************)
(* TransactedCompoundFile: a file of sections, each a number of blocks of  *)
(* which the first and the last are its two headers, the others hold data. *)
(* A header is the table of the section's handles: which blocks each one's *)
(* value is in.  A write takes new blocks and changes the table in memory; *)
(* blocks the last commit uses are reserved until the next.  A commit      *)
(* writes the first header of every section (phase 1), calls a delegate,   *)
(* then writes the last headers (phase 2).  Whoever opens the file after a *)
(* death says which headers to load: the rule of the options.              *)
(*                                                                         *)
(* Handles and blocks are numbered alike; number n is at offset            *)
(* n % BlocksPerSection of its section.  Checksums are taken to find every *)
(* damaged header or value; values of sixteen blocks and more, whose       *)
(* length is not part of the table, are left out, and so is CommitOnWrite. *)
(* The headers of a section that is added are on file when it is there:    *)
(* neither do their writes throw, nor does the process die before them.    *)
(***************************************************************************)
EXTENDS Naturals, FiniteSets, FiniteSetsExt

CONSTANTS
  BlocksPerSection,
  Empty,               \* what a handle reads that was never written
  Broken,              \* what a handle reads whose blocks hold something else
  Writers,             \* threads that write
  Idle,                \* a thread that does not
  MaxSections,         \* bound: sections of the file
  MaxBlocks,           \* bound: blocks of a value
  MaxWrites,           \* bound: values written
  PhaseTwoDeaths,      \* may the process die between the delegate and the end of a commit
  Faults               \* where a write may throw: in a phase of a commit, or at the data of a value

ASSUME SizesAssumption ==
  /\ BlocksPerSection \in Nat /\ BlocksPerSection > 2
  /\ MaxSections \in Nat \ {0}
  /\ MaxBlocks \in 1 .. BlocksPerSection - 2
ASSUME BoundsAssumption == MaxWrites \in Nat
ASSUME IdleAssumption == Idle \notin [handle : Nat, old : SUBSET Nat, blocks : SUBSET Nat]
ASSUME FaultsAssumption == PhaseTwoDeaths \in BOOLEAN /\ Faults \subseteq {"first", "second", "data"}

VARIABLES
  sections,      \* sections of the file
  primary,       \* the tables in the first headers
  secondary,     \* the tables in the last headers
  data,          \* what each block holds: the value and the blocks it was written to
  table,         \* the tables in memory
  dirty,         \* _isDirty: sections whose table in memory may differ from a header
  freeHandles, freeBlocks, reservedBlocks,
  prevFreeHandle, prevFreeBlock,
  leaked,        \* blocks taken since the tables were loaded by a Write that threw
  writing,       \* what each thread has between TakeBlocks and the second half of Write
  phase,         \* where Commit is
  todo,          \* sections it has still to write in this phase
  rule,          \* the headers LoadingRule names: without damage, Default loads the first
  called,        \* what the user knows: was the delegate of the last commit called
  written        \* values written: a value is its number

file == <<sections, primary, secondary, data>>
memory == <<table, dirty, freeHandles, freeBlocks, reservedBlocks, prevFreeHandle, prevFreeBlock, leaked>>
commit == <<phase, todo, called>>
vars == <<file, memory, writing, commit, rule, written>>

Values == 1 .. MaxWrites

-----------------------------------------------------------------------------
\* The layout

Base(s) == (s - 1) * BlocksPerSection
Usable(s) == Base(s) + 1 .. Base(s) + BlocksPerSection - 2
Numbers(n) == UNION {Usable(s) : s \in 1 .. n}      \* of the handles, and of the data blocks
AllHandles == Numbers(MaxSections)
Headers(n) == {Base(s) : s \in 1 .. n} \cup {Base(s) + BlocksPerSection - 1 : s \in 1 .. n}
LastIndex(n) == n * BlocksPerSection - 1

NoBlocks == {}
Blocks_Of(tables) == UNION {tables[h] : h \in AllHandles}
EmptyTables == [h \in AllHandles |-> NoBlocks]
Blank == [value |-> Empty, blocks |-> NoBlocks]
Section_Of(tables, s) == [h \in Usable(s) |-> tables[h]]
With_Section(tables, s) == [h \in AllHandles |-> IF h \in Usable(s) THEN table[h] ELSE tables[h]]

\* Read: the value, if its blocks hold what was written to them.
Value_In(tables, h) ==
  IF tables[h] = NoBlocks THEN Empty
  ELSE LET written_there == {data[b] : b \in tables[h]} IN
       IF \E d \in written_there : written_there = {d} /\ d.blocks = tables[h]
       THEN (CHOOSE d \in written_there : TRUE).value
       ELSE Broken

Init ==
  /\ sections = 1 /\ primary = EmptyTables /\ secondary = EmptyTables
  /\ data = [b \in AllHandles |-> Blank]
  /\ table = EmptyTables /\ dirty = {}
  /\ freeHandles = Usable(1) /\ freeBlocks = Usable(1) /\ reservedBlocks = {}
  /\ prevFreeHandle = 0 /\ prevFreeBlock = 0 /\ leaked = {}
  /\ writing = [w \in Writers |-> Idle]
  /\ phase = "none" /\ todo = {}
  /\ rule = "Primary" /\ called = TRUE
  /\ written = 0

-----------------------------------------------------------------------------
\* Handles and blocks

\* Everything under the lock, which a commit holds from its beginning to its end.
Unlocked == phase = "none"

In_Use(h) == \E w \in Writers : writing[w] # Idle /\ writing[w].handle = h

\* A file that is full grows by a section, whose two headers are written.
Create ==
  /\ Unlocked
  /\ LET found == {h \in freeHandles : h >= prevFreeHandle}
         n == IF found = {} THEN sections + 1 ELSE sections
         handle == IF found = {} THEN Min(Usable(n)) ELSE Min(found)
         added == Numbers(n) \ Numbers(sections) IN
     /\ n <= MaxSections
     /\ sections' = n
     /\ freeHandles' = (freeHandles \cup added) \ {handle}
     /\ freeBlocks' = freeBlocks \cup added
     /\ prevFreeHandle' = handle + 1
  /\ UNCHANGED <<primary, secondary, data, table, dirty, reservedBlocks, prevFreeBlock,
                 leaked, writing, commit, rule, written>>

\* Mutant of Available: blocks of the last commit are taken like all others.
Available_Unreserved(blocks) == {b \in blocks : b >= prevFreeBlock}

Available(blocks) == {b \in blocks \ reservedBlocks : b >= prevFreeBlock}
Runs(blocks, n) == {b \in blocks : b .. b + n - 1 \subseteq blocks}

\* Write looks up the blocks the handle has and takes new ones.  The caller
\* does not write a handle that is being written.
TakeBlocks(w, handle, count) ==
  /\ Unlocked /\ writing[w] = Idle
  /\ handle \in Numbers(sections) \ freeHandles /\ ~ In_Use(handle)
  /\ LET n == IF Runs(Available(freeBlocks), count) = {} THEN sections + 1 ELSE sections
         added == Numbers(n) \ Numbers(sections)
         available == Available(freeBlocks \cup added)
         start == Min(Runs(available, count))
         blocks == start .. start + count - 1 IN
     /\ n <= MaxSections
     /\ sections' = n
     /\ freeHandles' = freeHandles \cup added
     /\ freeBlocks' = (freeBlocks \cup added) \ blocks
     /\ prevFreeBlock' = Min(available)
     /\ writing' = [writing EXCEPT ![w] = [handle |-> handle, old |-> table[handle], blocks |-> blocks]]
  /\ UNCHANGED <<primary, secondary, data, table, dirty, reservedBlocks, prevFreeHandle, leaked,
                 commit, rule, written>>

FreeBlocks(blocks) ==
  /\ freeBlocks' = freeBlocks \cup blocks
  /\ prevFreeBlock' = Min({prevFreeBlock} \cup blocks)

\* The second half of Write: the data, the table, and the old blocks are free.
Write(w) ==
  /\ Unlocked /\ writing[w] # Idle
  /\ written < MaxWrites /\ written' = written + 1
  /\ LET handle == writing[w].handle
         blocks == writing[w].blocks IN
     /\ data' = [b \in AllHandles |-> IF b \in blocks THEN [value |-> written', blocks |-> blocks] ELSE data[b]]
     /\ table' = [table EXCEPT ![handle] = blocks]
     /\ dirty' = dirty \cup {s \in 1 .. sections : handle \in Usable(s)}
     /\ FreeBlocks(writing[w].old)
     /\ writing' = [writing EXCEPT ![w] = Idle]
  /\ UNCHANGED <<sections, primary, secondary, freeHandles, reservedBlocks, prevFreeHandle, leaked, commit, rule>>

\* The write of the data throws: some of the blocks are overwritten.  The table
\* is as before, and the blocks are free no more although no handle has them.
Write_Throws(w) ==
  /\ "data" \in Faults
  /\ Unlocked /\ writing[w] # Idle
  /\ \E torn \in SUBSET writing[w].blocks :
       data' = [b \in AllHandles |-> IF b \in torn THEN [value |-> Broken, blocks |-> NoBlocks] ELSE data[b]]
  /\ leaked' = leaked \cup writing[w].blocks
  /\ writing' = [writing EXCEPT ![w] = Idle]
  /\ UNCHANGED <<sections, primary, secondary, table, dirty, freeHandles, freeBlocks, reservedBlocks,
                 prevFreeHandle, prevFreeBlock, commit, rule, written>>

\* Mutant of Delete: the blocks of the handle stay taken.
Delete_Keeps_Blocks(handle) ==
  /\ Unlocked
  /\ handle \in Numbers(sections) \ freeHandles /\ ~ In_Use(handle)
  /\ table' = [table EXCEPT ![handle] = NoBlocks]
  /\ dirty' = dirty \cup {s \in 1 .. sections : handle \in Usable(s)}
  /\ freeHandles' = freeHandles \cup {handle}
  /\ prevFreeHandle' = Min({prevFreeHandle, handle})
  /\ UNCHANGED <<file, freeBlocks, prevFreeBlock, reservedBlocks, leaked, writing, commit, rule, written>>

Delete(handle) ==
  /\ Unlocked
  /\ handle \in Numbers(sections) \ freeHandles /\ ~ In_Use(handle)
  /\ table' = [table EXCEPT ![handle] = NoBlocks]
  /\ dirty' = dirty \cup {s \in 1 .. sections : handle \in Usable(s)}
  /\ FreeBlocks(table[handle])
  /\ freeHandles' = freeHandles \cup {handle}
  /\ prevFreeHandle' = Min({prevFreeHandle, handle})
  /\ UNCHANGED <<file, reservedBlocks, leaked, writing, commit, rule, written>>

-----------------------------------------------------------------------------
\* Commit

Begin_Commit ==
  /\ Unlocked
  /\ phase' = "first" /\ todo' = dirty /\ called' = FALSE
  /\ UNCHANGED <<file, memory, writing, rule, written>>

\* The sections are written one after the other.
Write_First_Header ==
  /\ phase = "first" /\ todo # {}
  /\ primary' = With_Section(primary, Min(todo))
  /\ todo' = todo \ {Min(todo)}
  /\ UNCHANGED <<sections, secondary, data, memory, writing, phase, called, rule, written>>

\* The file is flushed and the delegate called.
Stage_Commit ==
  /\ phase = "first" /\ todo = {}
  /\ phase' = "second" /\ todo' = dirty /\ called' = TRUE
  /\ UNCHANGED <<file, memory, writing, rule, written>>

Write_Last_Header ==
  /\ phase = "second" /\ todo # {}
  /\ LET s == Min(todo) IN
     /\ secondary' = With_Section(secondary, s)
     /\ dirty' = dirty \ {s}
     /\ todo' = todo \ {s}
  /\ UNCHANGED <<sections, primary, data, table, freeHandles, freeBlocks, reservedBlocks,
                 prevFreeHandle, prevFreeBlock, leaked, writing, phase, called, rule, written>>

\* Mutant of End_Commit: the search goes on where it was.
End_Commit_Search_Goes_On ==
  /\ phase = "second" /\ todo = {}
  /\ reservedBlocks' = 0 .. LastIndex(sections) \ freeBlocks
  /\ phase' = "none"
  /\ UNCHANGED <<file, table, dirty, freeHandles, freeBlocks, prevFreeHandle, prevFreeBlock,
                 leaked, writing, todo, called, rule, written>>

\* Mutant of End_Commit: what is reserved is what was reserved when the file
\* was opened.
End_Commit_Reserves_No_More ==
  /\ phase = "second" /\ todo = {}
  /\ prevFreeBlock' = Min({prevFreeBlock} \cup reservedBlocks)
  /\ phase' = "none"
  /\ UNCHANGED <<file, table, dirty, freeHandles, freeBlocks, reservedBlocks, prevFreeHandle,
                 leaked, writing, todo, called, rule, written>>

\* The search starts at the first block that was reserved; what is in use now
\* is reserved.
End_Commit ==
  /\ phase = "second" /\ todo = {}
  /\ prevFreeBlock' = Min({prevFreeBlock} \cup reservedBlocks)
  /\ reservedBlocks' = 0 .. LastIndex(sections) \ freeBlocks
  /\ phase' = "none"
  /\ UNCHANGED <<file, table, dirty, freeHandles, freeBlocks, prevFreeHandle, leaked,
                 writing, todo, called, rule, written>>

\* A write or the flush of a phase throws, and Commit with it.
Commit_Throws ==
  /\ phase \in Faults
  /\ phase' = "none" /\ todo' = {}
  /\ UNCHANGED <<file, memory, writing, called, rule, written>>

-----------------------------------------------------------------------------
\* Loading

Tables_Of(r) == IF r = "Secondary" THEN secondary ELSE primary

LoadSections(tables) ==
  /\ table' = tables
  /\ dirty' = {s \in 1 .. sections : Section_Of(primary, s) # Section_Of(secondary, s)}
  /\ freeHandles' = {h \in Numbers(sections) : tables[h] = NoBlocks}
  /\ reservedBlocks' = Headers(sections) \cup Blocks_Of(tables)
  /\ freeBlocks' = 0 .. LastIndex(sections) \ reservedBlocks'
  /\ prevFreeHandle' = 0 /\ prevFreeBlock' = 0 /\ leaked' = {}

\* Nobody writes while the file is rolled back or cleared.
Quiet == Unlocked /\ \A w \in Writers : writing[w] = Idle

Rollback ==
  /\ Quiet
  /\ LoadSections(Tables_Of(rule))
  /\ UNCHANGED <<file, writing, commit, rule, written>>

Clear ==
  /\ Quiet
  /\ sections' = 1 /\ primary' = EmptyTables /\ secondary' = EmptyTables
  /\ data' = [b \in AllHandles |-> Blank]
  /\ table' = EmptyTables /\ dirty' = {}
  /\ freeHandles' = Usable(1) /\ freeBlocks' = Usable(1) /\ reservedBlocks' = {}
  /\ prevFreeHandle' = 0 /\ prevFreeBlock' = 0 /\ leaked' = {}
  /\ UNCHANGED <<writing, commit, rule, written>>

\* The rule of the comments on LoadingRule: Primary if the delegate of the last
\* commit was called, else Secondary.
Documented_Rule == IF called THEN "Primary" ELSE "Secondary"

\* The process dies and another one opens the file.
Die ==
  /\ phase = "second" => PhaseTwoDeaths
  /\ rule' = Documented_Rule
  /\ LoadSections(Tables_Of(Documented_Rule))
  /\ writing' = [w \in Writers |-> Idle]
  /\ phase' = "none" /\ todo' = {}
  /\ UNCHANGED <<file, called, written>>

Commit_Step ==
  Begin_Commit \/ Write_First_Header \/ Stage_Commit \/ Write_Last_Header \/ End_Commit \/ Commit_Throws

Next ==
  \/ Create
  \/ \E w \in Writers : \/ \E h \in AllHandles, n \in 1 .. MaxBlocks : TakeBlocks(w, h, n)
                        \/ Write(w)
                        \/ Write_Throws(w)
  \/ \E h \in AllHandles : Delete(h)
  \/ Commit_Step
  \/ Rollback \/ Clear
  \/ Die

Spec == Init /\ [][Next]_vars

-----------------------------------------------------------------------------
\* Properties

Values_In(tables) == [h \in AllHandles |-> Value_In(tables, h)]

Taken == UNION {writing[w].blocks : w \in {x \in Writers : writing[x] # Idle}}

\* A data block is free, or belongs to one handle, or is about to: none has two
\* owners, two threads in Write notwithstanding, and none is lost but those a
\* Write that threw had taken, until the tables are loaded again.
BlocksPartitioned ==
  /\ freeBlocks \cup Blocks_Of(table) \cup Taken \cup leaked = Numbers(sections)
  /\ freeBlocks \cap (Blocks_Of(table) \cup Taken \cup leaked) = {}
  /\ Blocks_Of(table) \cap Taken = {}
  /\ leaked \cap (Blocks_Of(table) \cup Taken) = {}
  /\ \A g, h \in AllHandles : g # h => table[g] \cap table[h] = {}

\* The searches for free handles and blocks start late enough to be fast and
\* early enough to miss none, so that the file grows only when it is full.
SearchesMissNothing ==
  /\ \A h \in freeHandles : h >= prevFreeHandle
  /\ Unlocked => \A b \in freeBlocks \ reservedBlocks : b >= prevFreeBlock

\* The present process writes no block of the tables the next one would load,
\* although it has freed some of them since.
RecoverableReserved ==
  Blocks_Of(Tables_Of(Documented_Rule)) \cap (freeBlocks \cup Taken) \subseteq reservedBlocks \ Taken

\* Whoever opens the file as LoadingRule says loads the last commit: what would
\* be loaded changes when a commit calls its delegate, and with Clear.
StoredByCommitOnly ==
  [][Stage_Commit \/ Clear \/ UNCHANGED Values_In(Tables_Of(Documented_Rule))]_vars

\* The file is atomic: what the next process loads is what the last commit
\* whose delegate was called has put there, whenever the present one dies.
Atomic == INSTANCE AtomicFile WITH
  Handles <- AllHandles,
  current <- Values_In(table),
  durable <- Values_In(Tables_Of(Documented_Rule))

ImplementsAtomicFile == Atomic!Spec
=============================================================================
