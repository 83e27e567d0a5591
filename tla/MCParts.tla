------------------------------ MODULE MCParts ------------------------------
(***************************************************************************)
(* The parts that share no state with another one, in one instance for     *)
(* TLC: those of Parts and the search tree (AVLTree).  A behaviour is one  *)
(* of a single part; the others rest in an initial state.  The pool of     *)
(* nodes has threads, so that its behaviours are fair and have a           *)
(* specification of their own.                                             *)
(***************************************************************************)
EXTENDS Parts

CONSTANTS
  TreeKeys, TreeValues     \* of AVLTree

VARIABLES
  part,          \* the part that works
  tree, reply

map_vars == <<tree, reply>>

Tree == INSTANCE AVLTree WITH Keys <- TreeKeys, Values <- TreeValues

\* Two keys that differ in every byte, and values of none to three bytes, one of
\* them like a length.
MCKeys == {[i \in 0 .. KeySize - 1 |-> 10 + i], [i \in 0 .. KeySize - 1 |-> 250 - i]}
MCTicks == {[i \in 0 .. 7 |-> 100 + i]}
MCPayloads ==
  {[length |-> n, bytes |-> [i \in 0 .. n - 1 |-> b + i]] : n \in {0, 1, 3}, b \in {21, 253}}

Start ==
  /\ Init /\ Layout!Init /\ Stream!Init /\ Pool!Init /\ Tree!Init /\ Heap!Init
  /\ part # "layout" =>
       serializer = "Int" /\ nodes = [n \in 1 .. NodeCount |-> [num |-> 0, leaf |-> TRUE]]

Records_Step ==
  /\ part = "records" /\ Next
  /\ UNCHANGED <<part, layout_vars, stream_vars, pool_vars, map_vars, heap_vars>>

Layout_Step ==
  /\ part = "layout" /\ Layout!Next
  /\ UNCHANGED <<part, vars, stream_vars, pool_vars, map_vars, heap_vars>>

Stream_Step ==
  /\ part = "stream" /\ Stream!Next
  /\ UNCHANGED <<part, vars, layout_vars, pool_vars, map_vars, heap_vars>>

Map_Step ==
  /\ part = "map" /\ Tree!Next
  /\ UNCHANGED <<part, vars, layout_vars, stream_vars, pool_vars, heap_vars>>

Heap_Step ==
  /\ part = "heap" /\ Heap!Next
  /\ UNCHANGED <<part, vars, layout_vars, stream_vars, pool_vars, map_vars>>

Pool_Step ==
  /\ Pool!Next
  /\ UNCHANGED <<part, vars, layout_vars, stream_vars, map_vars, heap_vars>>

PartsNext == Records_Step \/ Layout_Step \/ Stream_Step \/ Map_Step \/ Heap_Step

all_vars == <<part, vars, layout_vars, stream_vars, pool_vars, map_vars, heap_vars>>

PartsInit == part \in {"records", "layout", "stream", "map", "heap"} /\ Start
PartsSpec == PartsInit /\ [][PartsNext]_all_vars

\* Fair as NodePool is.
PoolInit == part = "pool" /\ Start
PoolSpec ==
  /\ PoolInit /\ [][Pool_Step]_all_vars
  /\ WF_pool_vars(Pool!Build)
  /\ WF_pool_vars(Pool!Count \/ Pool!Set)

-----------------------------------------------------------------------------
\* Properties, as the modules of the parts state them, with those of Parts

\* Files and trees are well formed: the data file as bytes and as records, and
\* the height and Count every node of the search tree keeps.
PartsTypeOK == TypeOK /\ Stream!TypeOK /\ Tree!TypeOK

\* The search tree is a map.
ImplementsSortedMap == Tree!ImplementsSortedMap

\* Its enumerations yield what Search finds, and in the range asked for.
EnumerationsMatch == Tree!EnumerationsMatch

\* No subtree leans by more than two.
NearlyBalanced == Tree!NearlyBalanced

\* An empty pool of nodes is filled again, or starves.
Refilled == Pool!Refilled
=============================================================================
