----------------------------- MODULE AtomicFile -----------------------------
(***************************************************************************)
(* What a transacted file promises: handles with values, of which the      *)
(* process sees the current ones and the file keeps those of the last      *)
(* commit.  A commit makes all current values durable in one step; a       *)
(* rollback and the death of the process bring the durable ones back.      *)
(***************************************************************************)
CONSTANTS
  Handles,
  Values,
  Empty       \* what a handle reads that was never written

VARIABLES
  current,    \* the values the process sees
  durable     \* the values of the last commit

vars == <<current, durable>>

NoValues == [h \in Handles |-> Empty]

Init == current = NoValues /\ durable = NoValues

Write(h, v) == current' = [current EXCEPT ![h] = v] /\ UNCHANGED durable

Delete(h) == Write(h, Empty)

Commit == durable' = current /\ UNCHANGED current

\* Rollback, or the end of the process and the next opening of the file.
Restore == current' = durable /\ UNCHANGED durable

Clear == current' = NoValues /\ durable' = NoValues

Next ==
  \/ \E h \in Handles : Delete(h) \/ \E v \in Values : Write(h, v)
  \/ Commit \/ Restore \/ Clear

Spec == Init /\ [][Next]_vars
=============================================================================
