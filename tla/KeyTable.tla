------------------------------ MODULE KeyTable ------------------------------
(***************************************************************************)
(* What a client of the hash table relies on: a finite map from keys to    *)
(* values.  An operation that runs out of memory leaves the map alone.     *)
(* The results are the codes that hash-table.c returns, which are not in   *)
(* every case those that comments of include/hdql/hash-table.h announce.   *)
(***************************************************************************)
EXTENDS Naturals

CONSTANTS Keys, Values, NULL

VARIABLES table,  \* table[k]: the value stored for k, or NULL
          out     \* result of the last operation

vars == <<table, out>>

Init == table = [k \in Keys |-> NULL] /\ out = "CREATED"

Ins(k, v) == /\ table' = [table EXCEPT ![k] = v]
             /\ out' = IF table[k] = NULL THEN "INSERTED" ELSE "UPDATED"

Fail == out' \in {"ERR_MEM", "ERR_ALLOC"} /\ UNCHANGED table

Get(k) == out' = table[k] /\ UNCHANGED table

(* HDQL_HT_RC_OK is 0 and HDQL_HT_RC_ERR_NOENT is not: the comment at      *)
(* hash-table.h:77 has it the other way round, 1 if removed, 0 if not.     *)
Remove(k) == /\ table' = [table EXCEPT ![k] = NULL]
             /\ out' = IF table[k] = NULL THEN "NOENT" ELSE "OK"

(* An erasure by a hint that went stale finds nothing. *)
Miss == out' = "NOENT" /\ UNCHANGED table

(* The callback of an iteration sees the value stored for k and sets it. *)
Visit(k, v) == /\ table[k] # NULL
               /\ table' = [table EXCEPT ![k] = v]
               /\ out' = "VISITED"

(* Whatever else the table does is not seen in the map. *)
Other == out' \in {"OK", "VISITED", "DONE"} /\ UNCHANGED table

Clear == table' = [k \in Keys |-> NULL] /\ out' = "CREATED"

Next == \/ \E k \in Keys, v \in Values : Ins(k, v) \/ Visit(k, v)
        \/ \E k \in Keys : Get(k) \/ Remove(k)
        \/ Fail \/ Miss \/ Other \/ Clear

Spec == Init /\ [][Next]_vars
==============================================================================
