------------------------------ MODULE NodePool ------------------------------
(***************************************************************************)
(* Node_Factory keeps a queue of spare nodes for the tree.  A builder      *)
(* thread waits for an event, puts a batch of nodes into the queue and     *)
(* resets the event; the thread of the tree takes nodes one by one and     *)
(* sets the event when few are left.  The queue is a ConcurrentQueue: each *)
(* Enqueue, TryDequeue and Count is one step, and nothing holds two of     *)
(* them together.                                                          *)
(*                                                                         *)
(* A node is like any other here: the queue is how many it holds.  Return, *)
(* the other producer, is called by Node.Dispose only, which nobody calls. *)
(***************************************************************************)
EXTENDS Naturals

CONSTANT Batch  \* nodes built at a time, and the count that asks for more: 50, at least one

VARIABLES
  nodes,      \* how many nodes the queue holds
  lock,       \* the event: is it set
  builder,    \* where the builder thread is
  built,      \* nodes of the batch under way
  consumer    \* where the tree's thread is in Create_New

vars == <<nodes, lock, builder, built, consumer>>

Init ==
  /\ nodes = 0 /\ lock = TRUE
  /\ builder = "waiting" /\ built = 0
  /\ consumer = "idle"

-----------------------------------------------------------------------------
\* The builder thread: Build

WaitOne ==
  /\ builder = "waiting" /\ lock
  /\ builder' = "building"
  /\ UNCHANGED <<nodes, lock, built, consumer>>

Enqueue ==
  /\ builder = "building"
  /\ nodes' = nodes + 1
  /\ IF built + 1 = Batch
     THEN builder' = "resetting" /\ built' = 0
     ELSE builder' = builder /\ built' = built + 1
  /\ UNCHANGED <<lock, consumer>>

\* Mutant of Reset: the event stays set.
Reset_Forgotten ==
  /\ builder = "resetting"
  /\ builder' = "waiting"
  /\ UNCHANGED <<nodes, lock, built, consumer>>

\* Mutant of Reset: the thread ends after its batch.
Reset_And_End ==
  /\ builder = "resetting"
  /\ lock' = FALSE
  /\ builder' = "ended"
  /\ UNCHANGED <<nodes, built, consumer>>

Reset ==
  /\ builder = "resetting"
  /\ lock' = FALSE
  /\ builder' = "waiting"
  /\ UNCHANGED <<nodes, built, consumer>>

-----------------------------------------------------------------------------
\* The thread of the tree: Create_New

TryDequeue ==
  /\ consumer = "idle" /\ nodes > 0
  /\ nodes' = nodes - 1
  /\ consumer' = "counting"
  /\ UNCHANGED <<lock, builder, built>>

\* Mutant of Count: the event is left alone by whoever takes the last node.
Count_Unless_Empty ==
  /\ consumer = "counting"
  /\ consumer' = IF nodes \in 1 .. Batch - 1 THEN "setting" ELSE "idle"
  /\ UNCHANGED <<nodes, lock, builder, built>>

Count ==
  /\ consumer = "counting"
  /\ consumer' = IF nodes < Batch THEN "setting" ELSE "idle"
  /\ UNCHANGED <<nodes, lock, builder, built>>

Set ==
  /\ consumer = "setting"
  /\ lock' = TRUE
  /\ consumer' = "idle"
  /\ UNCHANGED <<nodes, builder, built>>

\* The queue is empty: the thread makes its node itself and asks for nothing.
New_Node ==
  /\ consumer = "idle" /\ nodes = 0
  /\ UNCHANGED vars

Build == WaitOne \/ Enqueue \/ Reset
Create_New == TryDequeue \/ Count \/ Set \/ New_Node

Next == Build \/ Create_New

\* Both threads are scheduled.  The tree need not ask for another node, but a
\* call of Create_New that took one is carried to its end.
Spec ==
  /\ Init /\ [][Next]_vars
  /\ WF_vars(Build)
  /\ WF_vars(Count \/ Set)

-----------------------------------------------------------------------------
\* Properties

TypeOK ==
  /\ nodes \in Nat /\ lock \in BOOLEAN
  /\ builder \in {"waiting", "building", "resetting"}
  /\ built \in 0 .. Batch - 1
  /\ consumer \in {"idle", "counting", "setting"}

\* The builder waits for an event that nobody will set: the queue is empty, so
\* that Create_New does not come to the line that sets it.
Starved ==
  /\ builder = "waiting" /\ ~ lock
  /\ nodes = 0 /\ consumer = "idle"

\* Nothing bounds the queue but the event.  A count read before the builder
\* went on, and the event set after it, ask for a second batch while the queue
\* is nearly full: never for a third.
PoolBounded == nodes < 3 * Batch

\* The pool starves at the builder's Reset and in no other way: the event that
\* is set while the batch is being taken is what Reset throws away.  Count and
\* Set never leave an empty queue unnoticed; and a starved pool stays so.
StarvesAtReset == [][Starved' # Starved => Reset /\ ~ Starved]_vars

\* An empty pool is filled again, or else starves.
Refilled == nodes = 0 ~> (nodes > 0 \/ Starved)
=============================================================================
