------------------------------- MODULE Parts -------------------------------
(***************************************************************************)
(* The parts that share no state with another one: of the Append tree the  *)
(* bytes of the data file (RecordLayout), its buffer and the processes     *)
(* that die (DataLog), the bytes of nodes (NodeLayout), and the queue of   *)
(* spare nodes (NodePool); and the heap (BasicHeap).  Each with its        *)
(* properties by name.                                                     *)
(***************************************************************************)
EXTENDS RecordLayout, SequencesExt

CONSTANTS
  Serializers, Size, NodeCount,            \* of NodeLayout
  LogKeys, Hole, MaxRecords, MaxCrashes,   \* of DataLog
  Batch,                                   \* of NodePool
  Indexes, Weights, MaxCount               \* of BasicHeap

ASSUME LayoutAssumption == Size \in Nat /\ NodeCount \in Nat
ASSUME StreamAssumption == MaxRecords \in Nat /\ MaxCrashes \in Nat
ASSUME BatchAssumption == Batch \in Nat \ {0}
ASSUME WeightAssumption == Weights \subseteq Int

VARIABLES
  serializer, nodes, nodeBuffer, written,
  logFile, streamBuffer, logPointer, working, stored, fresh, crashes,
  spare, lock, builder, built, consumer,
  InnerList, popped

layout_vars == <<serializer, nodes, nodeBuffer, written>>
stream_vars == <<logFile, streamBuffer, logPointer, working, stored, fresh, crashes>>
pool_vars == <<spare, lock, builder, built, consumer>>
heap_vars == <<InnerList, popped>>

Layout == INSTANCE NodeLayout WITH buffer <- nodeBuffer
Stream == INSTANCE DataLog WITH Keys <- LogKeys, log <- logFile,
                                buffer <- streamBuffer, pointer <- logPointer
Pool == INSTANCE NodePool WITH nodes <- spare
Heap == INSTANCE BasicHeap
Queue == INSTANCE PriorityQueue WITH content <- ToBag(InnerList)

-----------------------------------------------------------------------------
\* Properties, as the modules of the parts state them; PayloadsReadBack is the
\* one of RecordLayout

\* Every node of a buffer reads back from its slot.
NodesReadBack == Layout!NodesReadBack

\* A process reads what it put, whatever was lost before it.
OwnRecordsReadable == Stream!OwnRecordsReadable

\* A process that dies takes one record with it at most.
OneLossPerCrash == Stream!OneLossPerCrash

\* A record on file stays where and as it is.
LogOnlyGrows == Stream!LogOnlyGrows

\* The queue of spare nodes never holds three batches.
PoolBounded == Pool!PoolBounded

\* Only the builder's Reset leaves the pool empty with nobody to fill it.
StarvesAtReset == Pool!StarvesAtReset

\* Pop returns an index of least weight, whatever the order of the calls, and no
\* entry of the heap is lost or doubled by the exchanges.
ImplementsPriorityQueue == Queue!Spec
=============================================================================
