------------------------------ MODULE KeyStore ------------------------------
(***************************************************************************)
(* What the tree of File_System_ES/Append promises its user: a set of keys *)
(* that only grows, whose state at the last commit survives the process.   *)
(* Put never replaces the value of a key that is there, so that the value  *)
(* of a key is the one of its first Put and the key stands for it.         *)
(***************************************************************************)
CONSTANT Keys

VARIABLES
  working,    \* keys Get finds
  stored      \* keys Get would find after a restart

vars == <<working, stored>>

Init == working = {} /\ stored = {}

Put(key) == working' = working \cup {key} /\ UNCHANGED stored

Commit == stored' = working /\ UNCHANGED working

Restart == working' = stored /\ UNCHANGED stored

Next == (\E key \in Keys : Put(key)) \/ Commit \/ Restart

Spec == Init /\ [][Next]_vars
=============================================================================
