---------------------------- MODULE ResultsHandler ----------------------------
(***************************************************************************)
(* Query results as a table: the workspace of query-results-handler.c and  *)
(* the CSV implementation of query-results-handler-csv.c.  The handler     *)
(* builds a tree of attribute handlers from the type of the result, prints *)
(* the names of its columns, then a row for every result.  The tree is a   *)
(* function from the places of its handlers, which are the paths to them,  *)
(* to records:                                                             *)
(*   shape  "atomic", "array", "container" (collections in the object and  *)
(*          in an STL container) or "compound",                            *)
(*   first  an atomic one at offset zero in its owner,                     *)
(*   fwd    "no", or that of a virtual compound that forwards to a query,  *)
(*          "scalar" or "chain" as the attribute itself is a scalar or a   *)
(*          collection: of the last link it says only the shape,           *)
(*   subs   the number of handlers in the tier of a compound.              *)
(* Columns are identified by their places in the tree; the text of cells   *)
(* and names is left out.                                                  *)
(***************************************************************************)
EXTENDS Integers, Sequences, FiniteSets, SequencesExt

CONSTANTS Requests,    \* what may be asked: [tree, origin, keys]
          MaxRecords   \* rows printed

ASSUME MaxRecordsAssumption == MaxRecords \in Nat

RootPath == <<1>>

(* What _extend_tier_with_attribute() builds: the handlers of a tier are   *)
(* numbered from 1, only those of compounds have a tier below.             *)
IsTree(tree) ==
  LET compounds == {p \in DOMAIN tree : tree[p].shape = "compound"}
  IN /\ IsFiniteSet(DOMAIN tree)
     /\ \A p \in DOMAIN tree : p \in Seq(Nat) /\ tree[p].subs \in Nat
     /\ DOMAIN tree = {RootPath} \cup
                        UNION {{Append(p, i) : i \in 1..tree[p].subs} : p \in compounds}

RequestsAreTyped == \A x \in Requests : IsTree(x.tree) /\ x.keys \in Nat

ASSUME RequestsAssumption == RequestsAreTyped

VARIABLES
  q,        \* the query, a member of Requests
  handler,  \* "none", "set", "typed" (it has its tree) or "gone"
  ws,       \* the workspace: "none", "live" or "gone"
  kept,     \* what is allocated, apart from iterators
  its,      \* the paths of collections that have an iterator
  header,   \* the columns named
  row,      \* the cells of the last row: [path, is]
  printed,  \* number of rows
  aborted   \* an assertion failed, or a NULL was read through

vars == <<q, handler, ws, kept, its, header, row, printed, aborted>>

Places == DOMAIN q.tree
Attr(p) == q.tree[p]
Compound(p) == Attr(p).shape = "compound"
Collection(p) == Attr(p).shape \in {"array", "container"}
Forwards(p) == Attr(p).fwd # "no"

(* The attributes below the root, whose own is that of the query. *)
Below == Places \ {RootPath}

KeyPath(i) == <<0, i>>
-----------------------------------------------------------------------------
(* _print_columns_list(): one column for each atomic attribute and each    *)
(* collection, those of nested compounds in their place.                   *)
Columns ==
  LET columns[p \in Places] ==
        IF Compound(p) THEN FlattenSeq([i \in 1..Attr(p).subs |-> columns[Append(p, i)]])
        ELSE <<p>>
  IN columns[RootPath]

KeyColumns == [i \in 1..q.keys |-> KeyPath(i)]

(* _csv_handler_finalize_schema() *)
Header == KeyColumns \o Columns

Cell(p, is) == <<[path |-> p, is |-> is]>>

(* The value handlers; `nulls' are the places of pointers of this record   *)
(* that are NULL and of forwarded queries without a result.  A handler is  *)
(* given what that of its tier dereferenced.  From a NULL owner only the   *)
(* attribute at offset zero is NULL; an array is counted without a look at *)
(* it, and a compound cannot be dereferenced.                              *)
Owner(p, nulls) == Front(p) \notin nulls

AtomicCell(p, nulls) ==
  Cell(p, IF ~Owner(p, nulls)
          THEN IF Attr(p).first /\ ~Forwards(p) THEN "null" ELSE "crash"
          ELSE IF p \in nulls THEN "null" ELSE "value")

CollectionCell(p, nulls) ==
  Cell(p, IF ~Owner(p, nulls) /\ (Attr(p).shape = "container" \/ Forwards(p))
          THEN "crash" ELSE "count")

(* Mutant: a compound that is NULL prints nothing. *)
CompoundSkippingNull(p, nulls, tier) == IF p \in nulls THEN <<>> ELSE FlattenSeq(tier)

(* `tier': what the handlers of its attributes print.                      *)
CompoundCells(p, nulls, tier) ==
  IF Owner(p, nulls) THEN FlattenSeq(tier) ELSE Cell(p, "crash")

(* _assign_value_handler() *)
ValueHandler(p, nulls, tier) ==
  CASE Collection(p) -> CollectionCell(p, nulls)
    [] Compound(p) -> CompoundCells(p, nulls, tier)
    [] OTHER -> AtomicCell(p, nulls)

Cells(nulls) ==
  LET cells[p \in Places] ==
        ValueHandler(p, nulls, [i \in 1..Attr(p).subs |-> cells[Append(p, i)]])
  IN cells[RootPath]

(* A query with atomic results: when its last attribute is a collection    *)
(* the datum is printed as it is; when that is a scalar its interface is   *)
(* asked for a value as if the datum were the owner: the next member of    *)
(* the object unless it is the first, and nothing for what is computed,    *)
(* because there is no state for it.                                       *)
RootCell ==
  Cell(RootPath, CASE q.origin = "computed" -> "crash"
                   [] q.origin = "member" /\ ~Attr(RootPath).first -> "elsewhere"
                   [] OTHER -> "value")

(* _csv_results_handler_handle_record() *)
KeyCells == [i \in 1..q.keys |-> [path |-> KeyPath(i), is |-> "value"]]

Row(nulls) ==
  KeyCells \o IF Compound(RootPath) THEN Cells(nulls) ELSE RootCell

(* _reset_dynamic_states(): iterators are made once, with the first record,*)
(* and kept.  A forwarded chain that ends in a scalar has a collection     *)
(* interface, and is asked for its scalar one.                             *)
IteratedPaths == {p \in Below : Collection(p)}

(* Mutant: every forwarding attribute is. *)
MisreadForward == \E p \in Below : Forwards(p)

MisreadChain == \E p \in Below : Attr(p).fwd = "chain" /\ Attr(p).shape = "atomic"

(* _expand_scalar_compound_to_columns() takes the compound from the        *)
(* attribute and not from what it forwards to.                             *)
ForwardedCompound == \E p \in Below : Forwards(p) /\ Compound(p)
-----------------------------------------------------------------------------
Stop == /\ aborted' = TRUE
        /\ UNCHANGED <<q, handler, ws, kept, its, header, row, printed>>

(* hdql_query_results_handler_csv_init *)
CsvInit ==
  /\ handler = "none"
  /\ handler' = "set"
  /\ kept' = kept \cup {"handler", "formats"}
  /\ UNCHANGED <<q, ws, its, header, row, printed, aborted>>

(* hdql_query_results_init(): the handler is given the result's type, then *)
(* the keys.  Its callbacks always return 0, so that the two early returns *)
(* of hdql_query_results_init() are not taken.                             *)
ViewOf(n) == IF n > 0 THEN {"view"} ELSE {}

ResultsInit ==
  /\ handler = "set" /\ ws = "none"
  /\ \/ /\ ForwardedCompound
        /\ Stop
     \/ /\ ~ForwardedCompound /\ q.keys = 0   \* no array of views
        /\ Stop
     \/ /\ ~ForwardedCompound /\ q.keys > 0
        /\ handler' = "typed"
        /\ ws' = "live"
        /\ kept' = kept \cup {"tree", "workspace", "keys", "ifaces"} \cup ViewOf(q.keys)
        /\ header' = Header
        /\ UNCHANGED <<q, its, row, printed, aborted>>

(* hdql_query_results_process_records_from(), one record of the loop. *)
HandleRecord(nulls) ==
  /\ handler = "typed" /\ ws = "live" /\ printed < MaxRecords
  /\ \/ /\ MisreadChain
        /\ Stop
     \/ /\ ~MisreadChain
        /\ LET cells == Row(nulls)
           IN /\ row' = cells
              /\ aborted' = (\E i \in DOMAIN cells : cells[i].is = "crash")
        /\ its' = its \cup IteratedPaths
        /\ printed' = printed + 1
        /\ UNCHANGED <<q, handler, ws, kept, header>>

Pointers == {p \in Below : Compound(p) \/ Attr(p).fwd = "scalar"}

(* hdql_query_results_destroy *)
Destroy ==
  /\ ws = "live"
  /\ ws' = "gone"
  /\ kept' = kept \ {"workspace", "keys", "view"}
  /\ UNCHANGED <<q, handler, its, header, row, printed, aborted>>

(* hdql_query_results_handler_csv_cleanup(): the attribute of the root is  *)
(* asked for its kind, and is NULL in a handler that was given no type.    *)
(* _free_tier() goes through the tree and destroys the iterators.          *)
(* Mutant: only those of the outermost tier. *)
ReachedTop == {p \in IteratedPaths : Len(p) = 2}

Reached == IteratedPaths

Cleanup ==
  /\ handler \in {"set", "typed"} /\ ws # "live"
  /\ handler' = "gone"
  /\ IF handler = "set"
     THEN aborted' = TRUE /\ UNCHANGED <<kept, its>>
     ELSE /\ its' = its \ Reached
          /\ kept' = kept \ {"handler", "formats", "tree", "ifaces"}
          /\ UNCHANGED aborted
  /\ UNCHANGED <<q, ws, header, row, printed>>
-----------------------------------------------------------------------------
Init ==
  /\ q \in Requests
  /\ handler = "none" /\ ws = "none"
  /\ kept = {} /\ its = {}
  /\ header = <<>> /\ row = <<>>
  /\ printed = 0 /\ aborted = FALSE

Next == /\ ~aborted
        /\ CsvInit \/ ResultsInit \/ Destroy \/ Cleanup
             \/ \E nulls \in SUBSET Pointers : HandleRecord(nulls)

Spec == Init /\ [][Next]_vars
-----------------------------------------------------------------------------
(* Every row has a cell for each named column, in the order of the names,  *)
(* whatever pointers of the record are NULL                                *)
(* (query-results-handler-csv.c: the names and the cells are printed by    *)
(* two walks of the tree).                                                 *)
RowsMatchHeader ==
  ~aborted /\ printed > 0 => [i \in DOMAIN row |-> row[i].path] = header

(* When the handler is cleaned up and the workspace destroyed, nothing of  *)
(* either is left, whatever was printed: no iterator of a collection, at   *)
(* any depth (query-results-handler-csv.c, _free_tier).                    *)
Released == handler = "gone" /\ ws = "gone" => kept = {} /\ its = {}

(* The handler ends the program only for a query without typed keys, for   *)
(* attributes that forward to a compound or to a chain over collections,   *)
(* for a computed result, for a record in which a pointer to a nested      *)
(* compound is NULL, and when it is cleaned up before it was given a       *)
(* type: never at what the object itself has, and never in the cleanup     *)
(* after that.                                                             *)
RunsThrough ==
  aborted => \/ q.keys = 0
             \/ q.origin = "computed"
             \/ \E p \in Below : Forwards(p) /\ (Compound(p) \/ Attr(p).fwd = "chain")
             \/ \E i \in DOMAIN row : row[i].is = "crash" /\ Len(row[i].path) > 2
             \/ handler = "gone" /\ ws = "none"
=============================================================================
