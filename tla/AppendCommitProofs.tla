------------------------- MODULE AppendCommitProofs -------------------------
(***************************************************************************)
(* Theorems about AppendCommit.tla, for every value of its constants.      *)
(*                                                                         *)
(* Base is the part of the inductive invariant that holds whichever writes *)
(* have thrown: types, and what the step Commit has reached says about the *)
(* addresses it has given out.                                             *)
(***************************************************************************)
EXTENDS AppendCommit, FiniteSetTheorems, TLAPS

-----------------------------------------------------------------------------
\* What SlotSpace.tla gives to a commit, for any free set and any end of the file

\* The slots a commit is given are free ones and those between the old and the
\* new end of the file, all of the latter: nothing between them is skipped.
LEMMA AllocationShape ==
  ASSUME NEW B, IsFiniteSet(B), NEW p \in Nat \ {0}, NEW n \in Nat,
         NEW A \in Allocations(B, p, n)
  PROVE  /\ PointerAfter(B, p, n) \in Nat
         /\ p <= PointerAfter(B, p, n)
         /\ \A s \in A : s \in B \/ (s \in Nat /\ p <= s /\ s < PointerAfter(B, p, n))
         /\ \A s \in Nat : p <= s /\ s < PointerAfter(B, p, n) => s \in A
<1>1. Cardinality(B) \in Nat
  BY FS_CardinalityType
<1>2. CASE n <= Cardinality(B)
  BY <1>1, <1>2 DEF Allocations, PointerAfter, Appended
<1>3. CASE ~ (n <= Cardinality(B))
  <2>1. Appended(B, n) \in Nat /\ PointerAfter(B, p, n) = p + Appended(B, n)
    BY <1>1, <1>3 DEF Appended, PointerAfter
  <2>2. A = B \cup TailSlots(p, Appended(B, n))
    BY <1>3 DEF Allocations
  <2>3. QED
    BY <2>1, <2>2 DEF TailSlots
<1>4. QED
  BY <1>2, <1>3

\* No node, no slot.
LEMMA NothingForNothing ==
  ASSUME NEW B, IsFiniteSet(B), NEW p, NEW A \in Allocations(B, p, 0)
  PROVE  A = {}
<1>1. Cardinality(B) \in Nat
  BY FS_CardinalityType
<1>2. A \in SUBSET B /\ Cardinality(A) = 0
  BY <1>1 DEF Allocations
<1>3. IsFiniteSet(A)
  BY <1>2, FS_Subset
<1>4. QED
  BY <1>2, <1>3, FS_EmptySet

-----------------------------------------------------------------------------
\* The invariant of types

\* What holds of the addresses of volatile nodes while a commit writes them.
Target ==
  /\ toWrite \subseteq assigned
  /\ phase # "writing" => toWrite = {}
  /\ phase = "writing" =>
       /\ assigned \in Allocations(free, pointer, volatile)
       /\ PointerAfter(free, pointer, volatile) <= MaxSlot + 1
       /\ attempt # 0
       /\ \A s \in assigned : s \in toWrite \/ index[s] = attempt

Base == TypeOK /\ Target

\* What a Commit does to the lists once its nodes are written, the flush that
\* throws included: free slots stay free or are the ones it used, freed slots
\* stay freed or become free.
Flush == Flush_And_Recycle \/ Flush_Fails
LEMMA FlushEffect ==
  ASSUME Flush
  PROVE  /\ Nodes_Written
         /\ free' \subseteq free \cup freed /\ freed' \subseteq freed
         /\ phase' = "flushed" \/ (phase' = "idle" /\ freed' = freed)
         /\ failed' = failed \/ ("flush" \in Faults /\ failed' = failed \cup {"flush"})
         /\ twice = {} => \/ free' = (free \ assigned) \cup freed /\ freed' = {}
                          \/ free' = free \ assigned /\ freed' = freed
<1>1. CASE Flush_And_Recycle
  BY <1>1 DEF Flush_And_Recycle, Recycled, Unused
<1>2. CASE Flush_Fails
  BY <1>2 DEF Flush_Fails, Unused
<1>3. QED
  BY <1>1, <1>2 DEF Flush

-----------------------------------------------------------------------------
\* Types

\* Every set of slots is finite.
LEMMA SlotsFinite == ASSUME NEW B, B \subseteq Slots PROVE IsFiniteSet(B)
<1>1. IsFiniteSet(Slots)
  BY BoundsAssumption, FS_Interval DEF Slots
<1>2. QED
  BY <1>1, FS_Subset

\* The empty tree is a tree.
LEMMA NoTreeType ==
  /\ NoTree \in [Slots -> 0 .. MaxCommits]
  /\ NoTree \in [Slots -> 0 .. Dirty + MaxCommits]
  /\ Pages(NoTree) = {}
<1>1. 0 \in 0 .. MaxCommits /\ 0 \in 0 .. Dirty + MaxCommits
  BY BoundsAssumption DEF Dirty
<1>2. QED
  BY <1>1 DEF NoTree, Pages

\* The values the process starts from.
LEMMA StartingValues ==
  /\ 0 \in 0 .. MaxSlot /\ 0 \in 0 .. MaxCommits
  /\ 0 \in 0 .. MaxVolatile /\ 1 \in 0 .. MaxVolatile
  /\ 1 \in 1 .. MaxSlot + 1
BY BoundsAssumption

\* New files and no process: the typing invariant holds.
LEMMA BaseInit == Init => Base
BY StartingValues, NoTreeType DEF Init, Base, TypeOK, Target

\* Every step keeps the types, and the addresses of a commit under way stay
\* the ones it was given.
LEMMA BaseStep == Base /\ [Next]_vars => Base'
<1> SUFFICES ASSUME Base, [Next]_vars
             PROVE  Base'
  OBVIOUS
<1> USE BoundsAssumption
<1>1. CASE Open
  <2>1. /\ tree' \in [Slots -> 0 .. MaxCommits] /\ volatile' \in 0 .. MaxVolatile
        /\ root' \in 0 .. MaxSlot /\ keyed' \in BOOLEAN /\ pending' \in BOOLEAN
    BY <1>1, NoTreeType, StartingValues DEF Base, TypeOK, Open, files
  <2>2. pointer' \in 1 .. MaxSlot + 1 /\ lost' \subseteq Slots
    BY <1>1 DEF Open
  <2>3. QED
    BY <1>1, <2>1, <2>2 DEF Base, TypeOK, Target, Open, files
<1>2. CASE Crash
  BY <1>2, NoTreeType, StartingValues DEF Base, TypeOK, Target, Crash, files
<1>3. ASSUME NEW s \in Slots, Read_Node_From_Pointer(s)
      PROVE  Base'
  BY <1>3 DEF Base, TypeOK, Target, Read_Node_From_Pointer, files, space, nodes, Dirty
<1>4. ASSUME NEW onFile \in SUBSET Pages(tree), NEW unwritten \in SUBSET assigned,
             NEW shared \in SUBSET (twice \cap (onFile \cup unwritten)),
             NEW created \in 0 .. MaxVolatile - volatile,
             NEW changed \in SUBSET {x \in onFile : cache[x] # 0},
             Put(onFile, unwritten, shared, created, changed)
      PROVE  Base'
  BY <1>4 DEF Base, TypeOK, Target, Put, files, Pages, Dirty
<1>5. CASE Begin_Commit
  <2>0. PICK n \in Counts : \E A \in Allocations(free, pointer, n) :
          /\ volatile' = n
          /\ PointerAfter(free, pointer, n) <= MaxSlot + 1
          /\ assigned' = A
          /\ toWrite' = A
          /\ IF n = 0 THEN root' = root
             ELSE \E r \in A : (\A s \in A : r <= s) /\ root' = r
    BY <1>5 DEF Begin_Commit
  <2>1. PICK A \in Allocations(free, pointer, n) :
          /\ volatile' = n
          /\ PointerAfter(free, pointer, n) <= MaxSlot + 1
          /\ assigned' = A
          /\ toWrite' = A
          /\ IF n = 0 THEN root' = root
             ELSE \E r \in A : (\A s \in A : r <= s) /\ root' = r
    BY <2>0
  <2> n \in 0 .. MaxVolatile
    BY DEF Counts, Base, TypeOK
  <2>2. A \subseteq Slots
    <3>1. IsFiniteSet(free)
      BY SlotsFinite DEF Base, TypeOK
    <3>3. pointer \in Nat \ {0} /\ n \in Nat
      BY DEF Base, TypeOK
    <3>4. /\ PointerAfter(free, pointer, n) \in Nat
          /\ \A s \in A : s \in free \/ (s \in Nat /\ pointer <= s
                                /\ s < PointerAfter(free, pointer, n))
      BY <3>1, <3>3, AllocationShape
    <3>5. free \subseteq Slots
      BY DEF Base, TypeOK
    <3>6. ASSUME NEW s \in A PROVE s \in Slots
      <4>1. CASE s \in free
        BY <4>1, <3>5
      <4>2. CASE s \in Nat /\ pointer <= s /\ s < PointerAfter(free, pointer, n)
        <5>1. s <= MaxSlot /\ 1 <= s
          BY <2>1, <3>3, <3>4, <4>2
        <5>2. QED
          BY <4>2, <5>1 DEF Slots
      <4>3. QED
        BY <3>4, <4>1, <4>2
    <3>7. QED
      BY <3>6
  <2>3. root' \in 0 .. MaxSlot
    <3>1. root' = root \/ root' \in A
      BY <2>1
    <3>2. root \in 0 .. MaxSlot
      BY DEF Base, TypeOK
    <3>3. \A s \in Slots : s \in 0 .. MaxSlot
      BY DEF Slots
    <3>4. QED
      BY <2>2, <3>1, <3>2, <3>3
  <2>4. /\ attempt' \in 0 .. MaxCommits /\ attempt' # 0
    BY <1>5 DEF Base, TypeOK, Begin_Commit, Invalidated, Counts
  <2>5. cache' \in [Slots -> 0 .. Dirty + MaxCommits]
    BY <1>5 DEF Base, TypeOK, Begin_Commit, Invalidated, Counts, Dirty
  <2>6. QED
    BY <1>5, <2>1, <2>2, <2>3, <2>4, <2>5
       DEF Base, TypeOK, Target, Begin_Commit, Invalidated, Counts, files, space
<1>6. CASE Write_Node
  BY <1>6 DEF Base, TypeOK, Target, Write_Node, space, nodes
<1>7. CASE Write_Node_Fails
  BY <1>7 DEF Base, TypeOK, Target, Write_Node_Fails, files, space, nodes
<1>8. CASE Flush
  <2>1. /\ PointerAfter(free, pointer, volatile) \in Nat
        /\ pointer <= PointerAfter(free, pointer, volatile)
    <3>1. pointer \in Nat \ {0} /\ volatile \in Nat /\ free \subseteq Slots
      BY DEF Base, TypeOK
    <3>2. assigned \in Allocations(free, pointer, volatile)
      BY <1>8, FlushEffect DEF Base, Target, Nodes_Written
    <3>3. QED
      BY <3>1, <3>2, SlotsFinite, AllocationShape
  <2>2. pointer' \in 1 .. MaxSlot + 1
    BY <1>8, FlushEffect, <2>1 DEF Base, TypeOK, Target, Nodes_Written
  <2>3. QED
    BY <1>8, FlushEffect, <2>2 DEF Base, TypeOK, Target, Nodes_Written, files
<1>9. CASE Write_Metadata
  BY <1>9 DEF Base, TypeOK, Target, Write_Metadata, space
<1>10. CASE Write_Metadata_Fails
  BY <1>10 DEF Base, TypeOK, Target, Write_Metadata_Fails, files, space, nodes
<1>11. CASE UNCHANGED vars
  BY <1>11 DEF Base, TypeOK, Target, vars, files, space, nodes
<1>12. CASE Delete
  <2>1. cache' \in [Slots -> 0 .. Dirty + MaxCommits]
    <3>1. CASE cache' = cache
      BY <3>1 DEF Base, TypeOK
    <3>2. ASSUME NEW s \in Pages(tree), cache[s] \in 1 .. MaxCommits,
                 cache' = [cache EXCEPT ![s] = Reduced(@)]
          PROVE  cache' \in [Slots -> 0 .. Dirty + MaxCommits]
      <4>1. Reduced(cache[s]) \in 0 .. Dirty + MaxCommits
        BY <3>2 DEF Reduced, Dirty
      <4>2. QED
        BY <3>2, <4>1 DEF Base, TypeOK
    <3>3. QED
      BY <1>12, <3>1, <3>2 DEF Delete
  <2>2. keyed' \in BOOLEAN
    BY <1>12 DEF Delete, Base, TypeOK
  <2>3. QED
    BY <1>12, <2>1, <2>2 DEF Base, TypeOK, Target, Delete, files, space
<1>13. QED
  BY <1>1, <1>2, <1>3, <1>4, <1>5, <1>6, <1>7, <1>8, <1>9, <1>10, <1>11, <1>12 DEF Next, Commit, Flush

\* Every reachable state is well typed, whichever writes fail.
THEOREM TypeCorrect == Spec => []TypeOK
<1>1. Spec => []Base
  BY BaseInit, BaseStep, PTL DEF Spec
<1>2. Base => TypeOK
  BY DEF Base
<1>3. QED
  BY <1>1, <1>2, PTL

-----------------------------------------------------------------------------
\* Slots

\* Without writes of nodes that fail, only a commit under way has addresses to
\* assign; and a slot of a tree has been written.
Space ==
  /\ phase # "down" => OneOwner
  /\ phase # "writing" => assigned = {}
  /\ phase = "down" => free = {} /\ freed = {} /\ twice = {} /\ tree = NoTree
  /\ \A s \in Slots : tree[s] # 0 \/ durable[s] # 0 => index[s] # 0

\* The slots a commit writes are in no tree and on no list: they were free, or
\* beyond the end of the file.
LEMMA TargetUnused ==
  ASSUME Base, Space, phase = "writing"
  PROVE  \A s \in assigned : tree[s] = 0 /\ s \notin freed /\ s \notin lost
<1>1. /\ pointer \in Nat \ {0} /\ volatile \in Nat
      /\ free \subseteq Slots /\ assigned \subseteq Slots
  BY DEF Base, TypeOK
<1>2. assigned \in Allocations(free, pointer, volatile)
  BY DEF Base, Target
<1>3. \A s \in assigned : s \in free \/ pointer <= s
  BY <1>1, <1>2, SlotsFinite, AllocationShape
<1>4. \A s \in Slots : s \in Pages(tree) \cup freed \cup lost => s < pointer /\ s \notin free
  BY DEF Space, OneOwner
<1>5. \A s \in assigned : s \notin Pages(tree) \cup freed \cup lost
  BY <1>1, <1>3, <1>4 DEF Slots
<1>6. QED
  BY <1>1, <1>5 DEF Pages

\* No slot is used, so none has two owners.
LEMMA SpaceInit == Init => Space
BY NoTreeType DEF Init, Space, NoTree

\* Every step keeps each slot with one owner, as long as no node write fails.
LEMMA SpaceStep ==
  ASSUME "index" \notin failed'
  PROVE  Base /\ Space /\ [Next]_vars => Space'
<1> SUFFICES ASSUME Base, Space, [Next]_vars
             PROVE  Space'
  OBVIOUS
<1>1. CASE Open
  <2>1. PICK p \in 1 .. MaxSlot + 1 :
          /\ \A s \in Slots : s >= p => index[s] = 0
          /\ pointer' = p
          /\ lost' = {s \in Slots : s < p} \ Pages(tree')
    BY <1>1 DEF Open
  <2>2. tree' = durable \/ tree' = NoTree
    BY <1>1 DEF Open
  <2>3. \A s \in Slots : tree'[s] # 0 => durable[s] # 0
    BY <2>2 DEF NoTree
  <2>4. Pages(tree') \subseteq {s \in Slots : s < p}
    <3>1. \A s \in Slots : tree'[s] # 0 => ~ (s >= p)
      BY <2>1, <2>3 DEF Space
    <3>2. \A s \in Slots : ~ (s >= p) => s < p
      BY BoundsAssumption DEF Slots
    <3>3. QED
      BY <3>1, <3>2 DEF Pages
  <2>5. /\ free' = free /\ freed' = freed /\ assigned' = assigned /\ twice' = twice
        /\ index' = index /\ durable' = durable /\ phase' = "idle"
    BY <1>1 DEF Open, files
  <2>6. free = {} /\ freed = {} /\ assigned = {} /\ twice = {}
    BY <1>1 DEF Open, Space
  <2>7. QED
    BY <2>1, <2>3, <2>4, <2>5, <2>6 DEF Space, OneOwner
<1>2. CASE Crash
  BY <1>2 DEF Space, OneOwner, Crash, files, NoTree
<1>3. ASSUME NEW s \in Slots, Read_Node_From_Pointer(s)
      PROVE  Space'
  BY <1>3 DEF Space, OneOwner, Pages, Read_Node_From_Pointer, files, space, nodes
<1>4. ASSUME NEW onFile \in SUBSET Pages(tree), NEW unwritten \in SUBSET assigned,
             NEW shared \in SUBSET (twice \cap (onFile \cup unwritten)),
             NEW created \in 0 .. MaxVolatile - volatile,
             NEW changed \in SUBSET {x \in onFile : cache[x] # 0},
             Put(onFile, unwritten, shared, created, changed)
      PROVE  Space'
  <2>1. unwritten = {} /\ assigned' = {} /\ OneOwner /\ shared = {}
    BY <1>4 DEF Put, Space, OneOwner
  <2>2. \A s \in Slots : tree'[s] # 0 <=> tree[s] # 0 /\ s \notin onFile
    BY <1>4, <2>1 DEF Put
  <2>3. Pages(tree') = Pages(tree) \ onFile
    BY <2>2 DEF Pages
  <2>4. freed' = freed \cup onFile /\ free' = free /\ pointer' = pointer /\ lost' = lost
    BY <1>4, <2>1 DEF Put
  <2>5. (phase # "down" => OneOwner)'
    <3>1. twice' = {}
      BY <1>4, <2>1 DEF Put, OneOwner
    <3>2. QED
      BY <1>4, <2>1, <2>3, <2>4, <3>1 DEF OneOwner
  <2>6. QED
    BY <1>4, <2>1, <2>2, <2>5 DEF Put, Space, files
<1>5. CASE Begin_Commit
  BY <1>5 DEF Space, OneOwner, Pages, Begin_Commit, Invalidated, Counts, files, space
<1>6. CASE Write_Node
  <2>1. \A s \in Slots : index[s] # 0 => index'[s] # 0
    BY <1>6 DEF Write_Node, Base, TypeOK, Target
  <2>2. QED
    BY <1>6, <2>1 DEF Space, OneOwner, Pages, Write_Node, space, nodes
<1>7. CASE Write_Node_Fails
  BY <1>7 DEF Write_Node_Fails
<1>8. CASE Flush
  <2> DEFINE end == PointerAfter(free, pointer, volatile)
  <2>1. /\ pointer \in Nat \ {0} /\ volatile \in Nat
        /\ free \subseteq Slots /\ assigned \subseteq Slots /\ toWrite = {}
        /\ assigned \in Allocations(free, pointer, volatile)
        /\ attempt # 0
        /\ phase = "writing" /\ phase' # "writing" /\ phase' # "down"
    BY <1>8, FlushEffect DEF Nodes_Written, Base, TypeOK, Target
  <2>2. /\ end \in Nat /\ pointer <= end
        /\ \A s \in assigned : s \in free \/ (pointer <= s /\ s < end)
        /\ \A s \in Nat : pointer <= s /\ s < end => s \in assigned
    BY <2>1, SlotsFinite, AllocationShape
  <2>3. \A s \in Slots : tree'[s] # 0 <=> tree[s] # 0 \/ s \in assigned
    BY <1>8, FlushEffect, <2>1 DEF Nodes_Written
  <2>4. Pages(tree') = Pages(tree) \cup assigned
    BY <2>1, <2>3 DEF Pages
  <2>5. /\ \/ free' = (free \ assigned) \cup freed /\ freed' = {}
           \/ free' = free \ assigned /\ freed' = freed
        /\ lost' = lost /\ pointer' = end
    <3>1. twice = {}
      BY <2>1 DEF Space, OneOwner
    <3>2. QED
      BY <1>8, <3>1, FlushEffect DEF Nodes_Written
  <2>6. assigned \cap (Pages(tree) \cup freed \cup lost) = {}
    BY <2>1, TargetUnused DEF Pages
  <2>7. Pages(tree) \cup freed \cup free \cup lost = {s \in Slots : s < pointer}
    BY <2>1 DEF Space, OneOwner
  <2>8. {s \in Slots : s < end} = {s \in Slots : s < pointer} \cup assigned
    <3>1. ASSUME NEW s \in Slots
          PROVE  s < end <=> s < pointer \/ s \in assigned
      <4>1. s \in Nat
        BY DEF Slots
      <4>2. s \in free => s < pointer
        BY <2>7
      <4>3. QED
        BY <2>1, <2>2, <4>1, <4>2
    <3>2. QED
      BY <2>1, <3>1
  <2>9. (phase # "down" => OneOwner)'
    <3>1. Pages(tree)' \cup freed' \cup free' \cup lost' = {s \in Slots : s < pointer'}
      BY <2>4, <2>5, <2>7, <2>8
    <3>2. free' \cap (Pages(tree)' \cup freed' \cup lost') = {}
      BY <2>1, <2>4, <2>5, <2>6 DEF Space, OneOwner
    <3>3. lost' \cap Pages(tree)' = {}
      BY <2>1, <2>4, <2>5, <2>6 DEF Space, OneOwner
    <3>4. freed' \cap (Pages(tree)' \cup lost') = {}
      BY <2>1, <2>4, <2>5, <2>6 DEF Space, OneOwner
    <3>5. twice' = {}
      BY <1>8, <2>1, <2>6, FlushEffect DEF Nodes_Written, Space, OneOwner
    <3>6. QED
      BY <2>5, <3>1, <3>2, <3>3, <3>4, <3>5 DEF OneOwner
  <2>10. \A s \in Slots : tree'[s] # 0 \/ durable'[s] # 0 => index'[s] # 0
    BY <1>8, FlushEffect, <2>1, <2>3 DEF Nodes_Written, files, Space, Base, Target
  <2>11. QED
    BY <1>8, FlushEffect, <2>1, <2>9, <2>10 DEF Nodes_Written, Space
<1>9. CASE Write_Metadata
  BY <1>9 DEF Space, OneOwner, Pages, Write_Metadata, space
<1>10. CASE Write_Metadata_Fails
  BY <1>10 DEF Space, OneOwner, Pages, Write_Metadata_Fails, files, space, nodes
<1>11. CASE UNCHANGED vars
  BY <1>11 DEF Space, OneOwner, Pages, vars, files, space, nodes
<1>12. CASE Delete
  BY <1>12 DEF Space, OneOwner, Pages, Delete, files, space
<1>13. QED
  BY <1>1, <1>2, <1>3, <1>4, <1>5, <1>6, <1>7, <1>8, <1>9, <1>10, <1>11, <1>12 DEF Next, Commit, Flush

\* What has failed once has failed.
LEMMA FailuresStay == [Next]_vars => failed \subseteq failed'
BY DEF Next, Commit, Open, Crash, Read_Node_From_Pointer, Put, Begin_Commit, Write_Node,
       Write_Node_Fails, Flush_And_Recycle, Flush_Fails, Nodes_Written, Delete, Write_Metadata,
       Write_Metadata_Fails, vars

SpaceUntilFailure == Base /\ ("index" \notin failed => Space)

\* The partition of the slots holds until the write of a node throws, which no later step undoes.
LEMMA SpaceHolds == Spec => []SpaceUntilFailure
<1>1. Init => SpaceUntilFailure
  BY BaseInit, SpaceInit DEF SpaceUntilFailure
<1>2. SpaceUntilFailure /\ [Next]_vars => SpaceUntilFailure'
  BY BaseStep, SpaceStep, FailuresStay DEF SpaceUntilFailure
<1>3. QED
  BY <1>1, <1>2, PTL DEF Spec

\* Every slot below the end of the file has exactly one owner, in every
\* reachable state, metadata writes that fail included.
THEOREM SlotsPartitioned == Spec => []SlotPartition
<1>1. Spec => []SpaceUntilFailure
  BY SpaceHolds
<1>2. SpaceUntilFailure => SlotPartition
  BY DEF SpaceUntilFailure, Space, SlotPartition
<1>3. QED
  BY <1>1, <1>2, PTL

-----------------------------------------------------------------------------
\* What is on file

\* A slot of the committed tree is still in the working tree, or freed and not
\* yet recycled, or out of reach since the restart: no commit can be given it.
\* Only between the recycling and the metadata write is this not so, and there
\* nothing is written.
Kept ==
  phase \in {"idle", "writing"} =>
    \A s \in Slots : durable[s] # 0 => tree[s] # 0 \/ s \in freed \/ s \in lost

Durability == CommittedTreeOnFile /\ TreeIntact /\ Kept

\* There is no tree to damage yet.
LEMMA DurabilityInit == Init => Durability
BY DEF Init, Durability, CommittedTreeOnFile, TreeIntact, Kept, NoTree

\* The write of a node changes no slot of the working tree, and none of the
\* committed tree.
LEMMA WriteIsElsewhere ==
  ASSUME Base, Space, Write_Node
  PROVE  /\ \A s \in Slots : tree[s] # 0 => index'[s] = index[s]
         /\ Kept => \A s \in Slots : durable[s] # 0 => index'[s] = index[s]
<1>1. PICK w \in toWrite : index' = [index EXCEPT ![w] = attempt]
  BY DEF Write_Node
<1>2. phase = "writing" /\ w \in assigned
  BY <1>1 DEF Write_Node, Base, Target
<1>3. tree[w] = 0 /\ w \notin freed /\ w \notin lost
  BY <1>2, TargetUnused
<1>4. \A s \in Slots : s # w => index'[s] = index[s]
  BY <1>1 DEF Base, TypeOK
<1>5. Kept /\ w \in Slots => durable[w] = 0
  BY <1>2, <1>3 DEF Kept
<1>6. QED
  BY <1>3, <1>4, <1>5

\* No step damages the tree on file, as long as no write throws; a flush may.
LEMMA DurabilityStep ==
  ASSUME failed' \subseteq {"flush"}
  PROVE  Base /\ Space /\ Durability /\ [Next]_vars => Durability'
<1> SUFFICES ASSUME Base, Space, Durability, [Next]_vars
             PROVE  Durability'
  OBVIOUS
<1>1. CASE Open
  <2>1. PICK p \in 1 .. MaxSlot + 1 :
          /\ \A s \in Slots : s >= p => index[s] = 0
          /\ lost' = {s \in Slots : s < p} \ Pages(tree')
    BY <1>1 DEF Open
  <2>2. index' = index /\ durable' = durable /\ (tree' = durable \/ tree' = NoTree)
    BY <1>1 DEF Open, files
  <2>3. CommittedTreeOnFile' /\ TreeIntact'
    BY <2>2 DEF Durability, CommittedTreeOnFile, TreeIntact, NoTree
  <2>4. ASSUME NEW s \in Slots, durable[s] # 0
        PROVE  tree'[s] # 0 \/ s \in lost'
    <3>1. ~ (s >= p)
      BY <2>1, <2>4 DEF Space
    <3>2. s < p
      BY <3>1, BoundsAssumption DEF Slots
    <3>3. QED
      BY <2>1, <3>2 DEF Pages
  <2>5. QED
    BY <2>2, <2>3, <2>4 DEF Durability, Kept
<1>2. CASE Crash
  BY <1>2 DEF Durability, CommittedTreeOnFile, TreeIntact, Kept, Crash, files, NoTree
<1>3. ASSUME NEW s \in Slots, Read_Node_From_Pointer(s)
      PROVE  Durability'
  BY <1>3 DEF Durability, CommittedTreeOnFile, TreeIntact, Kept, Read_Node_From_Pointer, files, space, nodes
<1>4. ASSUME NEW onFile \in SUBSET Pages(tree), NEW unwritten \in SUBSET assigned,
             NEW shared \in SUBSET (twice \cap (onFile \cup unwritten)),
             NEW created \in 0 .. MaxVolatile - volatile,
             NEW changed \in SUBSET {x \in onFile : cache[x] # 0},
             Put(onFile, unwritten, shared, created, changed)
      PROVE  Durability'
  BY <1>4 DEF Durability, CommittedTreeOnFile, TreeIntact, Kept, Put, files
<1>5. CASE Begin_Commit
  BY <1>5 DEF Durability, CommittedTreeOnFile, TreeIntact, Kept, Begin_Commit, Invalidated, Counts, files, space
<1>6. CASE Write_Node
  BY <1>6, WriteIsElsewhere
     DEF Durability, CommittedTreeOnFile, TreeIntact, Kept, Write_Node, space, nodes
<1>7. CASE Write_Node_Fails
  BY <1>7 DEF Write_Node_Fails
<1>8. CASE Flush
  BY <1>8, FlushEffect DEF Durability, CommittedTreeOnFile, TreeIntact, Kept, Nodes_Written, files,
                           Base, Target, TypeOK
<1>9. CASE Write_Metadata
  BY <1>9 DEF Durability, CommittedTreeOnFile, TreeIntact, Kept, Write_Metadata, space
<1>10. CASE Write_Metadata_Fails
  BY <1>10 DEF Write_Metadata_Fails
<1>11. CASE UNCHANGED vars
  BY <1>11 DEF Durability, CommittedTreeOnFile, TreeIntact, Kept, vars, files, space, nodes
<1>12. CASE Delete
  BY <1>12 DEF Durability, CommittedTreeOnFile, TreeIntact, Kept, Delete, files, space
<1>13. QED
  BY <1>1, <1>2, <1>3, <1>4, <1>5, <1>6, <1>7, <1>8, <1>9, <1>10, <1>11, <1>12 DEF Next, Commit, Flush

\* The tree the metadata file heads is intact in the index file at every
\* instant the process may die, until a write throws.
THEOREM CommittedTreeSurvives == Spec => []DurableIntact
<1> DEFINE Inv == Base /\ (failed \subseteq {"flush"} => Space /\ Durability)
<1>1. Init => Inv
  BY BaseInit, SpaceInit, DurabilityInit
<1>2. Inv /\ [Next]_vars => Inv'
  <2> SUFFICES ASSUME Inv, [Next]_vars
               PROVE  Inv'
    OBVIOUS
  <2>1. Base'
    BY BaseStep
  <2>2. ASSUME failed' \subseteq {"flush"}
        PROVE  Space' /\ Durability'
    <3>1. failed \subseteq {"flush"}
      BY <2>2, FailuresStay
    <3>2. QED
      BY <2>2, <3>1, SpaceStep, DurabilityStep
  <2>3. QED
    BY <2>1, <2>2
<1>3. Inv => DurableIntact
  BY DEF Durability, DurableIntact
<1>4. QED
  BY <1>1, <1>2, <1>3, PTL DEF Spec

\* Metadata writes may throw: the running process never loses a node of its
\* working tree, so that it can go on and commit again.
THEOREM WorkingTreeSurvives == Spec => WorkingTreeKept
<1>1. SpaceUntilFailure /\ [Next]_vars
        => [phase # "down" /\ "index" \notin failed /\ TreeIntact => TreeIntact']_vars
  <2> SUFFICES ASSUME SpaceUntilFailure, Next, phase # "down", "index" \notin failed, TreeIntact
               PROVE  TreeIntact'
    OBVIOUS
  <2> USE DEF SpaceUntilFailure
  <2>1. CASE Write_Node
    BY <2>1, WriteIsElsewhere DEF TreeIntact, Write_Node, nodes
  <2>2. ASSUME NEW onFile \in SUBSET Pages(tree), NEW unwritten \in SUBSET assigned,
               NEW shared \in SUBSET (twice \cap (onFile \cup unwritten)),
               NEW created \in 0 .. MaxVolatile - volatile,
               NEW changed \in SUBSET {x \in onFile : cache[x] # 0},
               Put(onFile, unwritten, shared, created, changed)
        PROVE  TreeIntact'
    BY <2>2 DEF TreeIntact, Put, files
  <2>3. CASE Flush
    BY <2>3, FlushEffect DEF TreeIntact, Nodes_Written, files, Base, Target, TypeOK
  <2>4. CASE Crash
    BY <2>4 DEF TreeIntact, Crash, NoTree
  <2>5. ASSUME NEW s \in Slots, Read_Node_From_Pointer(s)
        PROVE  TreeIntact'
    BY <2>5 DEF TreeIntact, Read_Node_From_Pointer, files, nodes
  <2>6. CASE Begin_Commit \/ Write_Node_Fails \/ Write_Metadata \/ Write_Metadata_Fails
    BY <2>6 DEF TreeIntact, Begin_Commit, Invalidated, Counts, Write_Node_Fails, Write_Metadata,
                Write_Metadata_Fails, files, nodes
  <2>7. CASE Open
    BY <2>7 DEF Open
  <2>8. CASE Delete
    BY <2>8 DEF TreeIntact, Delete, files
  <2>9. QED
    BY <2>1, <2>2, <2>3, <2>4, <2>5, <2>6, <2>7, <2>8 DEF Next, Commit, Flush
<1>2. QED
  BY <1>1, SpaceHolds, PTL DEF Spec, WorkingTreeKept

-----------------------------------------------------------------------------
\* Damage

\* What a restart has lost stays out of reach of every list, and a slot of a
\* tree has been written: so whichever writes of nodes have failed.
OutOfReach ==
  /\ \A s \in lost : /\ tree[s] = 0 /\ s \notin freed /\ s \notin free /\ s \notin assigned
                     /\ s < pointer
  /\ phase = "down" => free = {} /\ freed = {} /\ tree = NoTree /\ assigned = {}
  /\ \A s \in Slots : tree[s] # 0 \/ durable[s] # 0 => index[s] # 0

\* The slots a commit is given are not among the lost ones.
LEMMA TargetNotLost ==
  ASSUME Base, OutOfReach, NEW n \in Nat
  PROVE  \A A \in Allocations(free, pointer, n) : \A s \in lost : s \notin A
<1>1. /\ pointer \in Nat \ {0} /\ IsFiniteSet(free)
      /\ lost \subseteq Slots
  BY SlotsFinite DEF Base, TypeOK
<1>2. ASSUME NEW A \in Allocations(free, pointer, n), NEW s \in lost
      PROVE  s \notin A
  <2>1. s \in A => s \in free \/ pointer <= s
    BY <1>1, AllocationShape
  <2>2. s \notin free /\ s < pointer /\ s \in Nat
    BY <1>1 DEF OutOfReach, Slots
  <2>3. QED
    BY <1>1, <2>1, <2>2
<1>3. QED
  BY <1>2

\* Every step keeps the lost slots out of reach.
LEMMA OutOfReachStep == Base /\ OutOfReach /\ [Next]_vars => OutOfReach'
<1> SUFFICES ASSUME Base, OutOfReach, [Next]_vars
             PROVE  OutOfReach'
  OBVIOUS
<1>1. CASE Open
  <2>1. PICK p \in 1 .. MaxSlot + 1 :
          /\ pointer' = p
          /\ lost' = {s \in Slots : s < p} \ Pages(tree')
    BY <1>1 DEF Open
  <2>2. tree' = durable \/ tree' = NoTree
    BY <1>1 DEF Open
  <2>3. free' = {} /\ freed' = {} /\ assigned' = {} /\ phase' = "idle"
    BY <1>1 DEF Open, OutOfReach
  <2>4. \A s \in lost' : tree'[s] = 0 /\ s < pointer'
    BY <2>1 DEF Pages
  <2>5. \A s \in Slots : tree'[s] # 0 \/ durable'[s] # 0 => index'[s] # 0
    BY <1>1, <2>2 DEF OutOfReach, Open, files, NoTree
  <2>6. QED
    BY <2>3, <2>4, <2>5 DEF OutOfReach
<1>2. CASE Crash
  BY <1>2 DEF OutOfReach, Crash, files, NoTree
<1>3. ASSUME NEW s \in Slots, Read_Node_From_Pointer(s)
      PROVE  OutOfReach'
  BY <1>3 DEF OutOfReach, Read_Node_From_Pointer, files, space, nodes
<1>4. ASSUME NEW onFile \in SUBSET Pages(tree), NEW unwritten \in SUBSET assigned,
             NEW shared \in SUBSET (twice \cap (onFile \cup unwritten)),
             NEW created \in 0 .. MaxVolatile - volatile,
             NEW changed \in SUBSET {x \in onFile : cache[x] # 0},
             Put(onFile, unwritten, shared, created, changed)
      PROVE  OutOfReach'
  <2>1. \A s \in Slots : tree'[s] = 0 \/ tree'[s] = tree[s]
    BY <1>4 DEF Put
  <2>2. \A s \in onFile : tree[s] # 0
    BY DEF Pages
  <2>3. /\ freed' = freed \cup onFile \cup unwritten /\ assigned' \subseteq assigned
        /\ free' = free /\ pointer' = pointer /\ lost' = lost
        /\ phase = "idle" /\ phase' = "idle" /\ index' = index /\ durable' = durable
    BY <1>4 DEF Put, files
  <2>4. lost \subseteq Slots
    BY DEF Base, TypeOK
  <2>5. QED
    BY <2>1, <2>2, <2>3, <2>4 DEF OutOfReach
<1>5. CASE Begin_Commit
  <2>1. \A s \in lost : s \notin assigned'
    <3>1. Counts \subseteq Nat
      BY DEF Counts, Base, TypeOK
    <3>2. QED
      BY <1>5, <3>1, TargetNotLost DEF Begin_Commit
  <2>2. QED
    BY <1>5, <2>1 DEF OutOfReach, Begin_Commit, Invalidated, Counts, files, space
<1>6. CASE Write_Node
  <2>1. \A s \in Slots : index[s] # 0 => index'[s] # 0
    BY <1>6 DEF Write_Node, Base, TypeOK, Target
  <2>2. QED
    BY <1>6, <2>1 DEF OutOfReach, Write_Node, space, nodes
<1>7. CASE Write_Node_Fails
  BY <1>7 DEF OutOfReach, Write_Node_Fails, files, space, nodes
<1>8. CASE Flush
  <2>1. /\ pointer \in Nat \ {0} /\ pointer' \in Nat /\ pointer <= pointer'
        /\ toWrite = {} /\ attempt # 0 /\ lost \subseteq Slots /\ assigned \subseteq Slots
        /\ phase = "writing" /\ phase' # "down"
    <3>1. pointer \in Nat \ {0} /\ volatile \in Nat /\ free \subseteq Slots
      BY DEF Base, TypeOK
    <3>2. assigned \in Allocations(free, pointer, volatile)
      BY <1>8, FlushEffect DEF Base, Target, Nodes_Written
    <3>3. pointer' = PointerAfter(free, pointer, volatile)
      BY <1>8, FlushEffect DEF Nodes_Written
    <3>4. pointer' \in Nat /\ pointer <= pointer'
      BY <3>1, <3>2, <3>3, SlotsFinite, AllocationShape
    <3>5. QED
      BY <1>8, FlushEffect, <3>1, <3>4 DEF Nodes_Written, Base, TypeOK, Target
  <2>2. \A s \in Slots : tree'[s] = IF s \in assigned THEN attempt ELSE tree[s]
    BY <1>8, FlushEffect DEF Nodes_Written
  <2>3. /\ free' \subseteq free \cup freed /\ freed' \subseteq freed /\ assigned' = {}
        /\ lost' = lost /\ index' = index /\ durable' = durable
    BY <1>8, FlushEffect DEF Nodes_Written, files
  <2>4. \A s \in lost : s < pointer'
    BY <2>1 DEF OutOfReach, Slots
  <2>5. \A s \in assigned : index[s] = attempt
    BY <2>1 DEF Base, Target
  <2>6. QED
    BY <2>1, <2>2, <2>3, <2>4, <2>5 DEF OutOfReach
<1>9. CASE Write_Metadata
  BY <1>9 DEF OutOfReach, Write_Metadata, space
<1>10. CASE Write_Metadata_Fails
  BY <1>10 DEF OutOfReach, Write_Metadata_Fails, files, space, nodes
<1>11. CASE UNCHANGED vars
  BY <1>11 DEF OutOfReach, vars, files, space, nodes
<1>12. CASE Delete
  BY <1>12 DEF OutOfReach, Delete, files, space
<1>13. QED
  BY <1>1, <1>2, <1>3, <1>4, <1>5, <1>6, <1>7, <1>8, <1>9, <1>10, <1>11, <1>12 DEF Next, Commit, Flush

\* The committed tree stays in the working tree or on the lists no commit takes
\* from: only a metadata write that fails sets the two apart.
LEMMA KeptStep ==
  ASSUME "metadata" \notin failed'
  PROVE  Base /\ OutOfReach /\ Kept /\ [Next]_vars => Kept'
<1> SUFFICES ASSUME Base, OutOfReach, Kept, [Next]_vars
             PROVE  Kept'
  OBVIOUS
<1>1. CASE Open
  <2>1. PICK p \in 1 .. MaxSlot + 1 :
          /\ \A s \in Slots : s >= p => index[s] = 0
          /\ lost' = {s \in Slots : s < p} \ Pages(tree')
    BY <1>1 DEF Open
  <2>2. ASSUME NEW s \in Slots, durable[s] # 0
        PROVE  tree'[s] # 0 \/ s \in lost'
    <3>1. ~ (s >= p)
      BY <2>1, <2>2 DEF OutOfReach
    <3>2. s < p
      BY <3>1, BoundsAssumption DEF Slots
    <3>3. QED
      BY <2>1, <3>2 DEF Pages
  <2>3. durable' = durable
    BY <1>1 DEF Open, files
  <2>4. QED
    BY <2>2, <2>3 DEF Kept
<1>2. CASE Write_Node_Fails
  BY <1>2 DEF Kept, Write_Node_Fails, files, space, nodes
<1>3. CASE Write_Metadata
  BY <1>3 DEF Kept, Write_Metadata, space
<1>4. CASE Flush
  BY <1>4, FlushEffect DEF Kept, Nodes_Written, files, Base, TypeOK, Target
<1>5. ASSUME NEW onFile \in SUBSET Pages(tree), NEW unwritten \in SUBSET assigned,
             NEW shared \in SUBSET (twice \cap (onFile \cup unwritten)),
             NEW created \in 0 .. MaxVolatile - volatile,
             NEW changed \in SUBSET {x \in onFile : cache[x] # 0},
             Put(onFile, unwritten, shared, created, changed)
      PROVE  Kept'
  BY <1>5 DEF Kept, Put, files
<1>6. CASE Begin_Commit
  BY <1>6 DEF Kept, Begin_Commit, Invalidated, Counts, files, space
<1>7. CASE Crash
  BY <1>7 DEF Kept, Crash
<1>8. ASSUME NEW s \in Slots, Read_Node_From_Pointer(s)
      PROVE  Kept'
  BY <1>8 DEF Kept, Read_Node_From_Pointer, files, space, nodes
<1>9. CASE Write_Node
  BY <1>9 DEF Kept, Write_Node, space, nodes
<1>10. CASE Write_Metadata_Fails
  BY <1>10 DEF Write_Metadata_Fails
<1>11. CASE UNCHANGED vars
  BY <1>11 DEF Kept, vars, files, space, nodes
<1>12. CASE Delete
  BY <1>12 DEF Kept, Delete, files, space
<1>13. QED
  BY <1>1, <1>2, <1>3, <1>4, <1>5, <1>6, <1>7, <1>8, <1>9, <1>10, <1>11, <1>12 DEF Next, Commit, Flush

\* A slot of the committed tree is overwritten only by a commit under way, and
\* only when the working tree or the freed list holds it as well: the address a
\* failed commit gave away is the one way to lose a committed node.
THEOREM DamageTakesTwoOwners == Spec => DamageNeedsTwoOwners
<1> DEFINE Inv == Base /\ OutOfReach /\ ("metadata" \notin failed => Kept)
<1>1. Init => Inv
  <2>1. Init => OutOfReach /\ Kept
    BY DEF Init, OutOfReach, Kept, NoTree
  <2>2. QED
    BY <2>1, BaseInit
<1>2. Inv /\ [Next]_vars => Inv'
  <2> SUFFICES ASSUME Inv, [Next]_vars
               PROVE  Inv'
    OBVIOUS
  <2>1. Base' /\ OutOfReach'
    BY BaseStep, OutOfReachStep
  <2>2. "metadata" \notin failed' => Kept'
    BY KeptStep, FailuresStay
  <2>3. QED
    BY <2>1, <2>2
<1>3. Inv /\ [Next]_vars
        => [\A s \in Slots :
              "metadata" \notin failed /\ durable[s] # 0 /\ index'[s] # index[s]
                => s \in toWrite /\ s \in Pages(tree) \cup freed]_vars
  <2> SUFFICES ASSUME Inv, Next, NEW s \in Slots,
                      "metadata" \notin failed, durable[s] # 0, index'[s] # index[s]
               PROVE  s \in toWrite /\ s \in Pages(tree) \cup freed
    OBVIOUS
  <2>1. Write_Node
    <3>1. CASE Open
      BY <3>1 DEF Open, files
    <3>2. CASE Crash
      BY <3>2 DEF Crash, files
    <3>3. CASE \E x \in Slots : Read_Node_From_Pointer(x)
      BY <3>3 DEF Read_Node_From_Pointer, files
    <3>4. CASE \E onFile \in SUBSET Pages(tree), unwritten \in SUBSET assigned :
                \E shared \in SUBSET (twice \cap (onFile \cup unwritten)),
                   created \in 0 .. MaxVolatile - volatile,
                   changed \in SUBSET {x \in onFile : cache[x] # 0} :
                  Put(onFile, unwritten, shared, created, changed)
      BY <3>4 DEF Put, files
    <3>5. CASE Delete
      BY <3>5 DEF Delete, files
    <3>6. CASE Begin_Commit
      BY <3>6 DEF Begin_Commit, files
    <3>7. CASE Write_Node_Fails
      BY <3>7 DEF Write_Node_Fails, files
    <3>8. CASE Flush_And_Recycle
      BY <3>8 DEF Flush_And_Recycle, Nodes_Written, files
    <3>9. CASE Flush_Fails
      BY <3>9 DEF Flush_Fails, Nodes_Written, files
    <3>10. CASE Write_Metadata
      BY <3>10 DEF Write_Metadata
    <3>11. CASE Write_Metadata_Fails
      BY <3>11 DEF Write_Metadata_Fails, files
    <3>12. QED
      BY <3>1, <3>2, <3>3, <3>4, <3>5, <3>6, <3>7, <3>8, <3>9, <3>10, <3>11 DEF Next, Commit
  <2>2. s \in toWrite
    BY <2>1 DEF Write_Node, Base, TypeOK
  <2>3. s \in assigned /\ phase = "writing"
    BY <2>1, <2>2 DEF Write_Node, Base, Target
  <2>4. s \notin lost
    BY <2>3 DEF OutOfReach
  <2>5. QED
    BY <2>2, <2>3, <2>4 DEF Kept, Pages
<1>4. QED
  BY <1>1, <1>2, <1>3, PTL DEF Spec, DamageNeedsTwoOwners

-----------------------------------------------------------------------------
\* The node cache

\* Only nodes of the working tree, and freed ones that no commit has begun to
\* replace, are cached.
CacheScope ==
  \A s \in Slots : cache[s] # 0 => tree[s] # 0 \/ (phase = "idle" /\ s \in freed)

\* A node read through the cache is the node in the file: the slots a commit
\* reuses have left the cache before they are written.
THEOREM CacheIsCoherent == Spec => []CacheCoherent
<1> DEFINE Coherence == CacheScope /\ CacheCurrent
<1>1. Init => Coherence
  BY DEF Init, CacheScope, CacheCurrent, NoTree
<1>2. ASSUME Base, Space, Coherence, [Next]_vars, "index" \notin failed'
      PROVE  Coherence'
  <2>1. CASE Open
    <3>1. \A s \in Slots : cache[s] # 0 => tree[s] # 0
      BY <1>2, <2>1 DEF Open, CacheScope
    <3>2. \A s \in Slots : cache[s] = 0
      <4>1. tree = NoTree
        BY <1>2, <2>1 DEF Space, Open
      <4>2. QED
        BY <3>1, <4>1 DEF NoTree
    <3>3. cache' = cache
      BY <1>2, <2>1 DEF Open
    <3>4. QED
      BY <3>2, <3>3 DEF CacheScope, CacheCurrent
  <2>2. CASE Crash
    BY <1>2, <2>2 DEF CacheScope, CacheCurrent, Crash, NoTree
  <2>3. ASSUME NEW r \in Slots, Read_Node_From_Pointer(r)
        PROVE  Coherence'
    BY <1>2, <2>3 DEF CacheScope, CacheCurrent, Read_Node_From_Pointer, files, space, nodes, Base, TypeOK
  <2>4. ASSUME NEW onFile \in SUBSET Pages(tree), NEW unwritten \in SUBSET assigned,
               NEW shared \in SUBSET (twice \cap (onFile \cup unwritten)),
               NEW created \in 0 .. MaxVolatile - volatile,
               NEW changed \in SUBSET {x \in onFile : cache[x] # 0},
               Put(onFile, unwritten, shared, created, changed)
        PROVE  Coherence'
    <3>1. shared = {}
      BY <1>2, <2>4 DEF Put, Space, OneOwner
    <3>2. QED
      BY <1>2, <2>4, <3>1 DEF CacheScope, CacheCurrent, Put, files
  <2>5. CASE Begin_Commit
    BY <1>2, <2>5 DEF CacheScope, CacheCurrent, Begin_Commit, Invalidated, Counts, files, space
  <2>6. CASE Write_Node
    BY <1>2, <2>6, WriteIsElsewhere DEF CacheScope, CacheCurrent, Write_Node, space, nodes
  <2>7. CASE Flush
    <3>1. \A s \in assigned : cache[s] = 0
      BY <1>2, <2>7, TargetUnused, FlushEffect DEF CacheScope, Nodes_Written, Base, TypeOK
    <3>2. QED
      BY <1>2, <2>7, <3>1, FlushEffect DEF CacheScope, CacheCurrent, Nodes_Written, files
  <2>8. CASE Write_Node_Fails
    BY <1>2, <2>8 DEF Write_Node_Fails
  <2>9. CASE Write_Metadata
    BY <1>2, <2>9 DEF CacheScope, CacheCurrent, Write_Metadata, space
  <2>10. CASE Write_Metadata_Fails
    BY <1>2, <2>10 DEF CacheScope, CacheCurrent, Write_Metadata_Fails, files, space, nodes
  <2>11. CASE UNCHANGED vars
    BY <1>2, <2>11 DEF CacheScope, CacheCurrent, vars, files, space, nodes
  <2>12. CASE Delete
    <3>1. /\ phase' = phase /\ tree' = tree /\ index' = index /\ freed' = freed
          /\ index \in [Slots -> 0 .. MaxCommits] /\ cache \in [Slots -> 0 .. Dirty + MaxCommits]
      BY <1>2, <2>12 DEF Delete, files, space, Base, TypeOK
    <3>2. CASE cache' = cache
      BY <1>2, <3>1, <3>2 DEF CacheScope, CacheCurrent
    <3>3. ASSUME NEW s \in Pages(tree), cache[s] \in 1 .. MaxCommits,
                 cache' = [cache EXCEPT ![s] = Reduced(@)]
          PROVE  Coherence'
      <4>1. s \in Slots /\ tree[s] # 0
        BY DEF Pages
      <4>2. cache[s] = index[s]
        BY <1>2, <3>1, <3>3, <4>1, BoundsAssumption DEF CacheCurrent, Reduced, Dirty
      <4>3. cache'[s] = Reduced(index[s]) /\ \A x \in Slots : x # s => cache'[x] = cache[x]
        BY <3>1, <3>3, <4>1, <4>2
      <4>4. QED
        BY <1>2, <3>1, <4>1, <4>3 DEF CacheScope, CacheCurrent
    <3>4. QED
      BY <2>12, <3>2, <3>3 DEF Delete
  <2>13. QED
    BY <1>2, <2>1, <2>2, <2>3, <2>4, <2>5, <2>6, <2>7, <2>8, <2>9, <2>10, <2>11, <2>12 DEF Next, Commit, Flush
<1>3. SpaceUntilFailure /\ ("index" \notin failed => Coherence) /\ [Next]_vars
        => ("index" \notin failed => Coherence)'
  BY <1>2, FailuresStay DEF SpaceUntilFailure
<1>4. Init => ("index" \notin failed => Coherence)
  BY <1>1
<1>5. ("index" \notin failed => Coherence) => CacheCoherent
  BY DEF CacheCoherent
<1>6. QED
  BY <1>3, <1>4, <1>5, SpaceHolds, PTL DEF Spec

-----------------------------------------------------------------------------
\* The root

\* No node of a tree is younger than its root.
Headed(t, r) == t[r] # 0 /\ \A s \in Slots : t[s] <= t[r]

\* Where the working root is at each step of Commit.
RootPlace ==
  /\ \A s \in Slots : tree[s] <= attempt /\ durable[s] <= attempt
  /\ phase = "idle" => volatile # 0 \/ (root # 0 /\ Headed(tree, root))
  /\ phase = "flushed" => root # 0 /\ Headed(tree, root)
  /\ phase = "writing" =>
       /\ root # 0
       /\ volatile = 0 => Headed(tree, root)
       /\ volatile # 0 => root \in assigned

\* Every step keeps the root at the head of its tree.
LEMMA RootPlaceStep == Base /\ Base' /\ RootNewest /\ RootPlace /\ [Next]_vars => RootPlace'
<1> SUFFICES ASSUME Base, Base', RootNewest, RootPlace, [Next]_vars
             PROVE  RootPlace'
  OBVIOUS
<1> USE DEF Headed
<1>1. CASE Open
  <2>1. CASE metadata # 0 /\ durableKeyed
    BY <1>1, <2>1 DEF RootPlace, RootNewest, Open, files
  <2>2. CASE ~ (metadata # 0 /\ durableKeyed)
    <3>1. \A s \in Slots : tree'[s] = 0
      BY <1>1, <2>2 DEF Open, NoTree
    <3>2. attempt \in Nat
      BY BoundsAssumption DEF Base, TypeOK
    <3>3. QED
      BY <1>1, <2>2, <3>1, <3>2 DEF RootPlace, Open, files
  <2>3. QED
    BY <2>1, <2>2
<1>2. CASE Crash
  <2>1. \A s \in Slots : tree'[s] = 0
    BY <1>2 DEF Crash, NoTree
  <2>2. attempt \in Nat
    BY BoundsAssumption DEF Base, TypeOK
  <2>3. QED
    BY <1>2, <2>1, <2>2 DEF RootPlace, Crash, files
<1>3. ASSUME NEW r \in Slots, Read_Node_From_Pointer(r)
      PROVE  RootPlace'
  BY <1>3 DEF RootPlace, Read_Node_From_Pointer, files, nodes
<1>4. ASSUME NEW onFile \in SUBSET Pages(tree), NEW unwritten \in SUBSET assigned,
             NEW shared \in SUBSET (twice \cap (onFile \cup unwritten)),
             NEW created \in 0 .. MaxVolatile - volatile,
             NEW changed \in SUBSET {x \in onFile : cache[x] # 0},
             Put(onFile, unwritten, shared, created, changed)
      PROVE  RootPlace'
  <2>1. \A s \in Slots : tree'[s] <= attempt
    <3>1. attempt \in Nat
      BY BoundsAssumption DEF Base, TypeOK
    <3>2. \A s \in Slots : tree'[s] = 0 \/ tree'[s] = tree[s]
      BY <1>4 DEF Put
    <3>3. QED
      BY <3>1, <3>2 DEF RootPlace
  <2>2. root' = 0 /\ volatile' # 0 /\ phase' = "idle" /\ attempt' = attempt /\ durable' = durable
    BY <1>4 DEF Put, files
  <2>3. QED
    BY <2>1, <2>2 DEF RootPlace
<1>5. CASE Begin_Commit
  <2>1. attempt' = attempt + 1 /\ tree' = tree /\ durable' = durable
        /\ phase = "idle" /\ phase' = "writing" /\ (volatile' = 0 <=> volatile = 0)
    BY <1>5 DEF Begin_Commit, Invalidated, Counts, files
  <2>2. \A s \in Slots : tree'[s] <= attempt' /\ durable'[s] <= attempt'
    BY <2>1, BoundsAssumption DEF RootPlace, Base, TypeOK
  <2>3. IF volatile' = 0 THEN root' = root ELSE root' \in assigned'
    BY <1>5 DEF Begin_Commit, Invalidated, Counts
  <2>4. \A s \in assigned' : s # 0
    BY DEF Base, TypeOK, Slots
  <2>5. QED
    BY <2>1, <2>2, <2>3, <2>4 DEF RootPlace
<1>6. CASE Write_Node
  BY <1>6 DEF RootPlace, Write_Node, nodes
<1>7. CASE Write_Node_Fails
  BY <1>7 DEF RootPlace, Write_Node_Fails, files, nodes
<1>8. CASE Flush
  <2>1. /\ \A s \in Slots : tree'[s] = IF s \in assigned THEN attempt ELSE tree[s]
        /\ phase = "writing" /\ phase' \in {"flushed", "idle"}
        /\ root' = root /\ attempt' = attempt /\ durable' = durable
    BY <1>8, FlushEffect DEF Nodes_Written, files
  <2>2. attempt \in Nat /\ attempt # 0 /\ assigned \subseteq Slots
    BY <2>1, BoundsAssumption DEF Base, TypeOK, Target
  <2>3. \A s \in Slots : tree'[s] <= attempt' /\ durable'[s] <= attempt'
    BY <2>1, <2>2 DEF RootPlace
  <2>4. CASE volatile = 0
    <3>1. assigned \in Allocations(free, pointer, 0) /\ IsFiniteSet(free)
      BY <2>1, <2>4, SlotsFinite DEF Base, TypeOK, Target
    <3>2. assigned = {}
      BY <3>1, NothingForNothing
    <3>3. \A s \in Slots : tree'[s] = tree[s]
      BY <2>1, <3>2
    <3>4. tree[root] # 0 /\ root \in Slots
      BY <2>1, <2>4 DEF RootPlace, Base, TypeOK, Slots
    <3>5. QED
      BY <2>1, <2>3, <2>4, <3>3, <3>4 DEF RootPlace
  <2>5. CASE volatile # 0
    BY <2>1, <2>2, <2>3, <2>5 DEF RootPlace
  <2>6. QED
    BY <2>4, <2>5
<1>9. CASE Write_Metadata
  BY <1>9 DEF RootPlace, Write_Metadata
<1>10. CASE Write_Metadata_Fails
  BY <1>10 DEF RootPlace, Write_Metadata_Fails, files, nodes
<1>11. CASE UNCHANGED vars
  BY <1>11 DEF RootPlace, vars, files, nodes
<1>12. CASE Delete
  BY <1>12 DEF RootPlace, Delete, files
<1>13. QED
  BY <1>1, <1>2, <1>3, <1>4, <1>5, <1>6, <1>7, <1>8, <1>9, <1>10, <1>11, <1>12 DEF Next, Commit, Flush

\* The root on file leads to its whole tree: it was written by the youngest of
\* the commits that wrote the tree's nodes.
THEOREM RootIsNewest == Spec => []RootNewest
<1> DEFINE Inv == Base /\ RootPlace /\ RootNewest
<1>1. Init => Inv
  <2>1. Init => RootPlace /\ RootNewest
    BY DEF Init, RootPlace, RootNewest, NoTree
  <2>2. QED
    BY <2>1, BaseInit
<1>2. Inv /\ [Next]_vars => Inv'
  <2> SUFFICES ASSUME Inv, [Next]_vars
               PROVE  Inv'
    OBVIOUS
  <2>1. Base' /\ RootPlace'
    BY BaseStep, RootPlaceStep
  <2>2. RootNewest'
    <3>1. CASE Write_Metadata
      BY <3>1 DEF RootNewest, RootPlace, Headed, Write_Metadata
    <3>2. CASE ~ Write_Metadata
      <4>1. metadata' = metadata /\ durable' = durable
        BY <3>2 DEF Next, Commit, Open, Crash, Read_Node_From_Pointer, Put, Begin_Commit, Invalidated, Counts,
                    Write_Node, Write_Node_Fails, Flush_And_Recycle, Flush_Fails, Nodes_Written, Delete,
                    Write_Metadata_Fails, files, vars
      <4>2. QED
        BY <4>1 DEF RootNewest
    <3>3. QED
      BY <3>1, <3>2
  <2>3. QED
    BY <2>1, <2>2
<1>3. QED
  BY <1>1, <1>2, PTL DEF Spec
=============================================================================
