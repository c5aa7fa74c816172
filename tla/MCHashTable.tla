----------------------------- MODULE MCHashTable -----------------------------
EXTENDS HashTable, TLC

(* Values are only stored and compared. *)
ValueSymmetry == Permutations(Values)

(* A table created with capacity 0 grows to 32 buckets at once: it is      *)
(* followed until it holds two records.                                   *)
Explored == capacity \notin 1..3 => size <= 1 /\ pos = NULL
==============================================================================
