--------------------------- MODULE ConverterTable ---------------------------
(***************************************************************************)
(* The tables of type converters (src/converters.c) of a context and its   *)
(* descendants: table 1 is the root's, table t + 1 that of a descendant of *)
(* the owner of t.  A table is an array that grows by a fixed increment;   *)
(* it is sorted when it is searched for the first time after an addition.  *)
(***************************************************************************)
EXTENDS Integers, SequencesExt

CONSTANTS Depth,      \* bound on the chain of contexts
          Keys,       \* numbers of the pairs of types
          Funcs,      \* converter functions
          Increment,  \* HDQL_CONVERTERS_REALLOC_INCREMENT
          NULL

VARIABLES
  made,      \* number of contexts alive; descendants go first
  records,   \* records[t]: a sequence of keys and functions
  sorted,    \* sorted[t]
  available, \* nAvailable
  last       \* the last operation since a context was created or destroyed

vars == <<made, records, sorted, available, last>>

Table == 1..Depth
Record == [key : Keys, fn : Funcs]

NoOperation == [op |-> "none", t |-> 1, k |-> NULL, f |-> NULL, rc |-> 0]
Report(op, t, k, f, rc) == last' = [op |-> op, t |-> t, k |-> k, f |-> f, rc |-> rc]

TypeOK ==
  /\ made \in Table
  /\ \A t \in Table : /\ records[t] \in Seq(Record)
                      /\ sorted[t] \in BOOLEAN
                      /\ available[t] \in Nat
                      /\ t > made => records[t] = <<>> /\ available[t] = 0
  /\ last.op \in {"none", "add", "get"}

Init ==
  /\ made = 1
  /\ records = [t \in Table |-> <<>>]
  /\ sorted = [t \in Table |-> FALSE]
  /\ available = [t \in Table |-> 0]
  /\ last = NoOperation
-----------------------------------------------------------------------------
(* qsort of the C library: the records in the order of their keys. *)
Sorted(rs) ==
  CHOOSE s \in [DOMAIN rs -> Range(rs)] :
    (\A i, j \in DOMAIN s : i < j => s[i].key < s[j].key) /\ Range(s) = Range(rs)

(* bsearch of the C library: the record it comes upon, whether or not the  *)
(* array is sorted.                                                        *)
Bsearch(rs, k) ==
  LET Find[part \in (0..Len(rs)) \X (0..Len(rs))] ==
        LET lo == part[1]
            hi == part[2]
            mid == (lo + hi) \div 2
        IN IF lo >= hi THEN NULL
           ELSE IF rs[mid + 1].key = k THEN rs[mid + 1].fn
           ELSE IF k < rs[mid + 1].key THEN Find[<<lo, mid>>] ELSE Find[<<mid + 1, hi>>]
  IN Find[<<0, Len(rs)>>]

InOrder(t) == IF sorted[t] THEN records[t] ELSE Sorted(records[t])

(* hdql_converters_get: only a table without records asks its parent.      *)
Holder(t) == Max({u \in 1..t : records[u] # <<>>} \cup {0})
Lookup(t, k) == LET h == Holder(t) IN IF h = 0 THEN NULL ELSE Bsearch(InOrder(h), k)

(* The look-up leaves the table it searched sorted. *)
SortedOnLookup(t) ==
  LET h == Holder(t) IN
  IF h = 0 THEN UNCHANGED <<records, sorted>>
  ELSE /\ records' = [records EXCEPT ![h] = InOrder(h)]
       /\ sorted' = [sorted EXCEPT ![h] = TRUE]

(* hdql_converters_get, of any pair. *)
Get(t) ==
  /\ SortedOnLookup(t)
  /\ Report("get", t, NULL, NULL, 0)
  /\ UNCHANGED <<made, available>>
-----------------------------------------------------------------------------
Own(t, k) == {r \in Range(records[t]) : r.key = k}

(* hdql_converters_add finds the key in the table itself. *)
AddRepeated(t, k, f) ==
  /\ Own(t, k) # {}
  /\ Report("add", t, k, f, IF [key |-> k, fn |-> f] \in Own(t, k) THEN 0 ELSE -2)
  /\ UNCHANGED <<made, records, sorted, available>>

(* The look-up finds the key in an ancestor. *)
AddInherited(t, k, f) ==
  /\ Own(t, k) = {} /\ Lookup(t, k) # NULL
  /\ SortedOnLookup(t)
  /\ Report("add", t, k, f, -2)
  /\ UNCHANGED <<made, available>>

Full(t) == Len(records[t]) + 1 >= available[t]

(* No memory to extend the array: the look-up has sorted it all the same. *)
AddNoMemory(t, k, f) ==
  /\ Own(t, k) = {} /\ Lookup(t, k) = NULL
  /\ Full(t)
  /\ SortedOnLookup(t)
  /\ Report("add", t, k, f, -1)
  /\ UNCHANGED <<made, available>>

(* Mutant: the addition does not mark the array as unsorted. *)
AddNewStaysSorted(t, k, f) ==
  /\ Own(t, k) = {} /\ Lookup(t, k) = NULL
  /\ LET h == Holder(t)
         looked == IF h = 0 THEN records ELSE [records EXCEPT ![h] = InOrder(h)] IN
     /\ records' = [looked EXCEPT ![t] = Append(@, [key |-> k, fn |-> f])]
     /\ sorted' = IF h = 0 THEN sorted ELSE [sorted EXCEPT ![h] = TRUE]
  /\ available' = IF Full(t) THEN [available EXCEPT ![t] = @ + Increment] ELSE available
  /\ Report("add", t, k, f, 0)
  /\ UNCHANGED made

AddNew(t, k, f) ==
  /\ Own(t, k) = {} /\ Lookup(t, k) = NULL
  /\ LET h == Holder(t)
         looked == IF h = 0 THEN records ELSE [records EXCEPT ![h] = InOrder(h)]
         marked == IF h = 0 THEN sorted ELSE [sorted EXCEPT ![h] = TRUE] IN
     /\ records' = [looked EXCEPT ![t] = Append(@, [key |-> k, fn |-> f])]
     /\ sorted' = [marked EXCEPT ![t] = FALSE]
  /\ available' = IF Full(t) THEN [available EXCEPT ![t] = @ + Increment] ELSE available
  /\ Report("add", t, k, f, 0)
  /\ UNCHANGED made
-----------------------------------------------------------------------------
CreateDescendant ==
  /\ made < Depth
  /\ made' = made + 1
  /\ last' = NoOperation
  /\ UNCHANGED <<records, sorted, available>>

Destroy ==
  /\ made > 1
  /\ made' = made - 1
  /\ records' = [records EXCEPT ![made] = <<>>]
  /\ sorted' = [sorted EXCEPT ![made] = FALSE]
  /\ available' = [available EXCEPT ![made] = 0]
  /\ last' = NoOperation

Operation(t) ==
  \/ Get(t)
  \/ \E k \in Keys, f \in Funcs : \/ AddRepeated(t, k, f) \/ AddInherited(t, k, f)
                                 \/ AddNoMemory(t, k, f) \/ AddNew(t, k, f)

Next == CreateDescendant \/ Destroy \/ \E t \in 1..made : Operation(t)

Spec == Init /\ [][Next]_vars
-----------------------------------------------------------------------------
(***************************************************************************)
(* Properties.                                                             *)
(***************************************************************************)

(* A table that is marked as sorted is sorted, with every key once.        *)
MarkedIsSorted ==
  \A t \in Table : sorted[t] =>
    \A i, j \in DOMAIN records[t] : i < j => records[t][i].key < records[t][j].key

(* The array is never filled (the assertions after the extension), and the *)
(* memory of an extension copies a whole array into a longer one.          *)
RoomLeft == \A t \in Table : IF records[t] = <<>> THEN available[t] = 0
                             ELSE Len(records[t]) < available[t]

(* The arrays are sound: the binary search may trust the mark, and the next *)
(* addition has a place, whatever sequence of additions and searches, of a *)
(* table and of its descendants, led to them.                              *)
ArraysSound == MarkedIsSorted /\ RoomLeft

(* A converter that was added to a table is found from it at once.         *)
AddedIsFound == (last.op = "add" /\ last.rc = 0) => Lookup(last.t, last.k) = last.f

(* A converter that is found stays found, unless a table nearer than the   *)
(* one that holds it gets its first record.                                *)
FoundStays ==
  [][\/ UNCHANGED <<made, records, sorted>>
     \/ \A t \in 1..made, k \in Keys :
          (t <= made' /\ Lookup(t, k) # NULL) =>
            \/ Lookup(t, k)' = Lookup(t, k)
            \/ \E u \in (Holder(t) + 1)..t : records[u] = <<>> /\ records'[u] # <<>>]_vars
==============================================================================
