------------------------------ MODULE QueryKeys ------------------------------
(***************************************************************************)
(* Query keys, src/query-key.c: a tree of cells with one list per chain of *)
(* links, reserved by walking the query, filled by evaluating it, copied,  *)
(* read through a flat view of its data, destroyed.  A link is a record:   *)
(*   kind  "typed"    an attribute whose key has a type,                   *)
(*         "none"     one without key,                                     *)
(*         "fwd"      a forwarding attribute,                              *)
(*         "product"  a collection of bound compounds,                     *)
(*         "arith"    an operation on one or two arguments,                *)
(*         "call"     an aggregate;                                        *)
(*   id    the name of a typed link;                                       *)
(*   sub   the chains it forwards to, binds, or has as arguments;          *)
(*   filter  that of a product, or <<>>.                                   *)
(* A query is a table of chains, the first of which is the query itself.   *)
(* The memory is modelled block by block, and any allocation may fail.  A  *)
(* call is a stack of loops, and a step is one turn of the innermost.      *)
(***************************************************************************)
EXTENDS Integers, Sequences, SequencesExt

CONSTANTS Keys,          \* the client's keys
          KeyedQueries,  \* what they may be reserved for: [chains, direct]
          Rounds,        \* one value per evaluation; memory set to zero is <<0, 0>>
          Blocks,        \* what an allocation may return; NULL is 0
          MaxFaults      \* how many allocations fail

LinkKinds == {"typed", "none", "fwd", "product", "arith", "call"}
KeyLinks == [kind : LinkKinds, id : Nat, sub : Seq(Nat), filter : Seq(Nat)]

(* The chains a link refers to come later; `direct' is one product that is *)
(* used on its own.                                                        *)
IsLink(l, later) ==
  /\ \A j \in DOMAIN l.sub : l.sub[j] \in later
  /\ \A j \in DOMAIN l.filter : l.filter[j] \in later
  /\ l.kind = "fwd" => Len(l.sub) = 1
  /\ l.kind = "arith" => Len(l.sub) \in {1, 2}
  /\ l.kind = "product" => l.sub # <<>>
  /\ l.kind # "product" => l.filter = <<>>

IsKeyedQuery(kq) ==
  /\ kq \in [chains : Seq(Seq(KeyLinks)), direct : BOOLEAN]
  /\ kq.chains # <<>>
  /\ \A n \in DOMAIN kq.chains :
       /\ kq.chains[n] # <<>>
       /\ \A i \in DOMAIN kq.chains[n] :
            IsLink(kq.chains[n][i], (n + 1)..Len(kq.chains))
  /\ kq.direct => LET l == kq.chains[1][1] IN l.kind = "product" /\ l.filter = <<>>

ASSUME KeyedAssumption == \A kq \in KeyedQueries : IsKeyedQuery(kq)
ASSUME RoundsAssumption == 0 \notin Rounds
ASSUME BlocksAssumption == 0 \notin Blocks
ASSUME FaultsAssumption == MaxFaults \in Nat

VARIABLES
  keyed,      \* the query, a member of KeyedQueries
  lists,      \* lists[b]: the cells of a live block of cells
  data,       \* data[b]: the content of a live block of key data
  root,       \* root[k]: the block of key k's own cell, 0 if there is none
  result,     \* result[k]: what the reservation of k returned
  view,       \* view[k]: the flat view, a sequence of places
  round,      \* round[k]: the evaluation k got its data from, 0 before the first
  task,       \* the call that runs: [op, key, from, round]
  stack,      \* its loops, the innermost last
  faults,     \* the number of allocations that failed
  broken      \* "assert" where an assertion failed or NULL was written to,
              \* "memory" where a dead block was freed or read

keyVars == <<keyed, lists, data, root, result, view, round, task, stack, faults, broken>>

NoTask == [op |-> "none", key |-> 0, from |-> 0, round |-> 0]
Void == [code |-> 0, pl |-> "plain", term |-> FALSE, ptr |-> 0]

(* A place is a block and a position in it. *)
At(a) == lists[a[1]][a[2]]
Put(a, cell) == [lists EXCEPT ![a[1]][a[2]] = cell]
Own(k) == <<root[k], 1>>
Readable(a) == a[1] \in DOMAIN lists /\ a[2] \in DOMAIN lists[a[1]]
Allocated == UNION {{<<b, i>> : i \in DOMAIN lists[b]} : b \in DOMAIN lists}

Live == DOMAIN lists \cup DOMAIN data
Free == Blocks \ Live
Fresh == CHOOSE b \in Free : TRUE
With(f, b, x) == [d \in DOMAIN f \cup {b} |-> IF d = b THEN x ELSE f[d]]
Without(f, b) == [d \in DOMAIN f \ {b} |-> f[d]]
-----------------------------------------------------------------------------
(* hdql_query_is_fully_scalar, and which argument of an operation is the   *)
(* collection.                                                             *)
FullyScalar[n \in DOMAIN keyed.chains] ==
  \A i \in DOMAIN keyed.chains[n] :
    LET l == keyed.chains[n][i]
    IN \/ l.kind \in {"none", "call"}
       \/ l.kind \in {"fwd", "arith"} /\ \A j \in DOMAIN l.sub : FullyScalar[l.sub[j]]

(* Mutant: the collection is taken to be the first argument. *)
CollectionFirst(l) == l.sub[1]

CollectionOf(l) == IF FullyScalar[l.sub[1]] THEN l.sub[2] ELSE l.sub[1]

(* A bound query is given its cell as a forwarded one is. *)
Forward(n) == [kind |-> "fwd", id |-> 0, sub |-> <<n>>, filter |-> <<>>]
Forwarding(subs) == [j \in DOMAIN subs |-> Forward(subs[j])]

(* The links that have the cells of the list the key of a link is, <<>> if *)
(* it is no list.                                                          *)
Listed(l) ==
  CASE l.kind = "fwd" -> keyed.chains[l.sub[1]]
    [] l.kind = "product" -> Forwarding(l.sub)
    [] l.kind = "arith" /\ (\E j \in DOMAIN l.sub : ~FullyScalar[l.sub[j]]) ->
         keyed.chains[CollectionOf(l)]
    [] OTHER -> <<>>

(* The key's own cell is that of the whole query. *)
Whole == IF keyed.direct THEN keyed.chains[1][1] ELSE Forward(1)

(* A loop over links and the cells they are given; the turn is the i-th.   *)
Loop(links, cells) == [links |-> links, cells |-> cells, i |-> 1]
CellsOf(b, links) == [j \in DOMAIN links |-> <<b, j>>]
Depth == Len(stack)
Inner == stack[Depth]
Outer == SubSeq(stack, 1, Depth - 1)
NextTurn == [stack EXCEPT ![Depth].i = @ + 1]

AllocationFails == faults < MaxFaults /\ faults' = faults + 1

Quiet == broken = "no" /\ task = NoTask
Runs(op) == broken = "no" /\ task.op = op
Break(how) == broken' = how /\ UNCHANGED <<lists, data, view, round, task, stack>>
-----------------------------------------------------------------------------
(* hdql_key_new, where it returns. *)
NewKey(k) ==
  /\ Quiet /\ root[k] = 0 /\ Free # {}
  /\ root' = [root EXCEPT ![k] = Fresh]
  /\ lists' = With(lists, Fresh, <<Void>>)
  /\ UNCHANGED <<keyed, data, result, view, round, task, stack, faults, broken>>

(* hdql_key_reserve_for_query or hdql_query_product_reserve_key. *)
ReserveKey(k) ==
  /\ Quiet /\ root[k] # 0
  /\ task' = [op |-> "reserve", key |-> k, from |-> k, round |-> 0]
  /\ stack' = <<Loop(<<Whole>>, <<Own(k)>>)>>
  /\ UNCHANGED <<keyed, lists, data, root, result, view, round, faults, broken>>

ReserveReturns(rc) ==
  /\ task' = NoTask /\ stack' = <<>>
  /\ result' = [result EXCEPT ![task.key] = IF @ = "none" THEN rc ELSE @]

(* A reservation of a list that fails: the calls of the client return what *)
(* it returned, a product's of hdql_query_product_reserve_key too, all     *)
(* other callers ignore it.                                                *)
Fails(depth, rc, under) ==
  IF depth <= (IF keyed.direct THEN 3 ELSE 2) THEN ReserveReturns(rc)
  ELSE stack' = under /\ UNCHANGED <<task, result>>

(* hdql_key_mark_as_list: without memory it writes to NULL. *)
MarkAsList(a, links) ==
  \/ /\ Free # {}
     /\ lists' = With(Put(a, [At(a) EXCEPT !.pl = "list", !.ptr = Fresh]), Fresh,
                      [j \in DOMAIN links |-> [Void EXCEPT !.term = (j = Len(links))]])
     /\ stack' = Append(NextTurn, Loop(links, CellsOf(Fresh, links)))
     /\ UNCHANGED <<data, task, result, faults, broken>>
  \/ /\ AllocationFails /\ broken' = "assert"
     /\ UNCHANGED <<lists, data, task, result, stack>>

(* A cell that is in use is refused, but for a product which goes on.      *)
ReserveList(l, a) ==
  IF At(a).code = 0 /\ At(a).pl = "plain" THEN MarkAsList(a, Listed(l))
  ELSE /\ IF l.kind = "product"
          THEN /\ stack' = Append(NextTurn, Loop(Listed(l), CellsOf(At(a).ptr, Listed(l))))
               /\ UNCHANGED <<task, result>>
          ELSE Fails(Depth + 1, "generic", NextTurn)
       /\ UNCHANGED <<lists, data, faults, broken>>

(* The data of a typed cell; where they are missing the cell keeps its type. *)
ReserveDatum(a) ==
  \/ /\ Free # {}
     /\ lists' = Put(a, [At(a) EXCEPT !.code = 1, !.ptr = Fresh])
     /\ data' = With(data, Fresh, <<0, 0>>)
     /\ stack' = NextTurn
     /\ UNCHANGED <<task, result, faults, broken>>
  \/ /\ AllocationFails
     /\ lists' = Put(a, [At(a) EXCEPT !.code = 1, !.ptr = 0])
     /\ Fails(Depth, "memory", Outer)
     /\ UNCHANGED <<data, broken>>

(* One turn of hdql_key_reserve_for_query, with hdql_attr_def_reserve_key, *)
(* or of hdql_bound_compound_key_reserve.                                  *)
ReserveLink ==
  /\ Runs("reserve") /\ Inner.i <= Len(Inner.links)
  /\ LET l == Inner.links[Inner.i]
         a == Inner.cells[Inner.i]
     IN CASE l.kind = "typed" -> ReserveDatum(a)
          [] Listed(l) # <<>> -> ReserveList(l, a)
          [] OTHER -> /\ lists' = Put(a, Void)
                      /\ stack' = NextTurn
                      /\ UNCHANGED <<data, task, result, faults, broken>>
  /\ UNCHANGED <<keyed, root, view, round>>

(* The last cell is marked after the loop: the loop may have cleared it.   *)
ReserveEnd ==
  /\ Runs("reserve") /\ Inner.i > Len(Inner.links)
  /\ IF Depth = 1 THEN ReserveReturns("ok") /\ UNCHANGED lists
     ELSE LET a == Inner.cells[Len(Inner.cells)]
          IN /\ lists' = Put(a, [At(a) EXCEPT !.term = TRUE])
             /\ stack' = Outer
             /\ UNCHANGED <<task, result>>
  /\ UNCHANGED <<keyed, data, root, view, round, faults, broken>>
-----------------------------------------------------------------------------
(* An evaluation that finds something, with a key whose reservation        *)
(* succeeded: which cell each link is given and writes to.                 *)
EvaluateQuery(k, v) ==
  /\ Quiet /\ root[k] # 0 /\ result[k] = "ok"
  /\ task' = [op |-> "evaluate", key |-> k, from |-> k, round |-> v]
  /\ stack' = <<Loop(<<Whole>>, <<Own(k)>>)>>
  /\ UNCHANGED <<keyed, lists, data, root, result, view, round, faults, broken>>

Is(a, pl) == At(a).pl = pl /\ At(a).ptr # 0

(* Mutant: the key is not moved on from one query to the next. *)
CellsGivenStuck(l, a) ==
  [j \in DOMAIN Listed(l) |-> <<At(a).ptr, 1>>] \o [j \in DOMAIN l.filter |-> a]

(* hdql__query_product_reset and hdql__query_reset_descendant move on, a   *)
(* filter is given the product's own cell.                                 *)
CellsGiven(l, a) == CellsOf(At(a).ptr, Listed(l)) \o [j \in DOMAIN l.filter |-> a]

(* hdql__keys_next does not leave a list. *)
MovesPastEnd ==
  /\ Inner.i > 1
  /\ LET from == Inner.cells[Inner.i - 1]
     IN Inner.cells[Inner.i] = <<from[1], from[2] + 1>> /\ At(from).term

EvaluateLink ==
  /\ Runs("evaluate") /\ Inner.i <= Len(Inner.links)
  /\ LET l == Inner.links[Inner.i]
         a == Inner.cells[Inner.i]
     IN IF \/ MovesPastEnd
           \/ l.kind = "typed" /\ ~Is(a, "plain")
           \/ Listed(l) # <<>> /\ ~Is(a, "list")
        THEN Break("assert")
        ELSE /\ data' = IF l.kind = "typed"
                        THEN [data EXCEPT ![At(a).ptr] = <<l.id, task.round>>] ELSE data
             /\ stack' = CASE Listed(l) # <<>> ->
                                Append(NextTurn, Loop(Listed(l) \o Forwarding(l.filter),
                                                      CellsGiven(l, a)))
                           [] l.kind = "call" ->
                                Append(NextTurn, Loop(Forwarding(l.sub), [j \in DOMAIN l.sub |-> a]))
                           [] OTHER -> NextTurn
             /\ UNCHANGED <<lists, view, round, task, broken>>
  /\ UNCHANGED <<keyed, root, result, faults>>

EvaluateEnd ==
  /\ Runs("evaluate") /\ Inner.i > Len(Inner.links)
  /\ stack' = Outer
  /\ IF Depth = 1 THEN task' = NoTask /\ round' = [round EXCEPT ![task.key] = task.round]
     ELSE UNCHANGED <<task, round>>
  /\ UNCHANGED <<keyed, lists, data, root, result, view, faults, broken>>
-----------------------------------------------------------------------------
(* hdql_key_copy_value: a loop is over two lists at once. *)
CopyKey(k, from) ==
  /\ Quiet /\ k # from
  /\ \A x \in {k, from} : root[x] # 0 /\ result[x] = "ok"
  /\ task' = [op |-> "copy", key |-> k, from |-> from, round |-> round[from]]
  /\ stack' = <<[to |-> root[k], from |-> root[from], i |-> 1]>>
  /\ UNCHANGED <<keyed, lists, data, root, result, view, round, faults, broken>>

(* The loop ends after the cell marked as last; the own cell is alone.     *)
PassedLast(b) ==
  Inner.i > 1 /\ (Depth = 1 \/ lists[b][Inner.i - 1].term)

CopyCell ==
  /\ Runs("copy") /\ ~PassedLast(Inner.from)
  /\ LET d == At(<<Inner.to, Inner.i>>)
         s == At(<<Inner.from, Inner.i>>)
     IN IF \/ s.pl # d.pl \/ s.code # d.code
           \/ s.pl = "plain" /\ s.code # 0 /\ (s.ptr = 0 \/ d.ptr = 0)
        THEN Break("assert")
        ELSE /\ data' = IF s.pl = "plain" /\ s.code # 0
                        THEN [data EXCEPT ![d.ptr] = data[s.ptr]] ELSE data
             /\ stack' = IF s.pl = "list"
                         THEN Append(NextTurn, [to |-> d.ptr, from |-> s.ptr, i |-> 1])
                         ELSE NextTurn
             /\ UNCHANGED <<lists, view, round, task, broken>>
  /\ UNCHANGED <<keyed, root, result, faults>>

CopyEnd ==
  /\ Runs("copy") /\ PassedLast(Inner.from)
  /\ stack' = Outer
  /\ IF Depth = 1 THEN task' = NoTask /\ round' = [round EXCEPT ![task.key] = task.round]
     ELSE UNCHANGED <<task, round>>
  /\ UNCHANGED <<keyed, lists, data, root, result, view, faults, broken>>
-----------------------------------------------------------------------------
(* _hdql__for_each_key, which visits a list after its cells: with          *)
(* hdql_key_flat_view_populate, of a key whose reservation succeeded, or   *)
(* with hdql_key_destroy.                                                  *)
FlatView(k) ==
  /\ Quiet /\ root[k] # 0 /\ result[k] = "ok"
  /\ task' = [op |-> "view", key |-> k, from |-> k, round |-> 0]
  /\ stack' = <<[list |-> root[k], i |-> 1]>>
  /\ view' = [view EXCEPT ![k] = <<>>]
  /\ UNCHANGED <<keyed, lists, data, root, result, round, faults, broken>>

DestroyKey(k) ==
  /\ Quiet /\ root[k] # 0
  /\ task' = [op |-> "destroy", key |-> k, from |-> k, round |-> 0]
  /\ stack' = <<[list |-> root[k], i |-> 1]>>
  /\ UNCHANGED <<keyed, lists, data, root, result, view, round, faults, broken>>

Walking == Runs("view") \/ Runs("destroy")

(* Mutant: lists are not freed. *)
CallBackDatum(a) ==
  LET cell == At(a)
  IN IF task.op = "view" \/ cell.pl = "list" \/ cell.code = 0 \/ cell.ptr = 0
     THEN UNCHANGED <<lists, data, view, broken>>
     ELSE data' = Without(data, cell.ptr) /\ UNCHANGED <<lists, view, broken>>

(* What the walk calls back: a view takes the data; _hdql__destroy_key_plain *)
(* frees: NULL is harmless, a second time is not.                          *)
CallBack(a) ==
  LET cell == At(a)
  IN CASE task.op = "view" ->
            /\ view' = IF cell.pl = "plain" /\ cell.code # 0
                       THEN [view EXCEPT ![task.key] = Append(@, a)] ELSE view
            /\ UNCHANGED <<lists, data, broken>>
       [] task.op = "destroy" /\ cell.pl = "list" ->
            /\ lists' = Without(lists, cell.ptr)
            /\ broken' = IF cell.ptr \in DOMAIN lists THEN broken ELSE "memory"
            /\ UNCHANGED <<data, view>>
       [] task.op = "destroy" /\ cell.pl = "plain" /\ cell.code # 0 /\ cell.ptr # 0 ->
            /\ data' = Without(data, cell.ptr)
            /\ broken' = IF cell.ptr \in DOMAIN data THEN broken ELSE "memory"
            /\ UNCHANGED <<lists, view>>
       [] OTHER -> UNCHANGED <<lists, data, view, broken>>

WalkCell ==
  /\ Walking /\ ~PassedLast(Inner.list)
  /\ LET a == <<Inner.list, Inner.i>>
     IN IF ~Readable(a) THEN Break("memory")
        ELSE /\ IF At(a).pl = "list"
                THEN /\ stack' = Append(stack, [list |-> At(a).ptr, i |-> 1])
                     /\ UNCHANGED <<lists, data, view, broken>>
                ELSE CallBack(a) /\ stack' = NextTurn
             /\ UNCHANGED <<round, task>>
  /\ UNCHANGED <<keyed, root, result, faults>>

WalkUp ==
  /\ Walking /\ Depth > 1 /\ PassedLast(Inner.list)
  /\ CallBack(<<stack[Depth - 1].list, stack[Depth - 1].i>>)
  /\ stack' = [Outer EXCEPT ![Depth - 1].i = @ + 1]
  /\ UNCHANGED <<keyed, root, result, round, task, faults>>

ViewEnd ==
  /\ Runs("view") /\ Depth = 1 /\ PassedLast(Inner.list)
  /\ task' = NoTask /\ stack' = <<>>
  /\ UNCHANGED <<keyed, lists, data, root, result, view, round, faults, broken>>

(* The place of level zero is itself freed. *)
DestroyEnd ==
  /\ Runs("destroy") /\ Depth = 1 /\ PassedLast(Inner.list)
  /\ task' = NoTask /\ stack' = <<>>
  /\ lists' = Without(lists, Inner.list)
  /\ root' = [root EXCEPT ![task.key] = 0]
  /\ result' = [result EXCEPT ![task.key] = "none"]
  /\ view' = [view EXCEPT ![task.key] = <<>>]
  /\ round' = [round EXCEPT ![task.key] = 0]
  /\ UNCHANGED <<keyed, data, faults, broken>>
-----------------------------------------------------------------------------
KeyInit ==
  /\ keyed \in KeyedQueries
  /\ lists = <<>> /\ data = <<>>
  /\ root = [k \in Keys |-> 0]
  /\ result = [k \in Keys |-> "none"]
  /\ view = [k \in Keys |-> <<>>]
  /\ round = [k \in Keys |-> 0]
  /\ task = NoTask /\ stack = <<>>
  /\ faults = 0 /\ broken = "no"

KeyNext ==
  \/ \E k \in Keys :
       \/ NewKey(k) \/ ReserveKey(k) \/ FlatView(k) \/ DestroyKey(k)
       \/ \E v \in Rounds : EvaluateQuery(k, v)
       \/ \E from \in Keys : CopyKey(k, from)
  \/ ReserveLink \/ ReserveEnd
  \/ EvaluateLink \/ EvaluateEnd
  \/ CopyCell \/ CopyEnd
  \/ WalkCell \/ WalkUp \/ ViewEnd \/ DestroyEnd

KeySpec == KeyInit /\ [][KeyNext]_keyVars
-----------------------------------------------------------------------------
(* Every block has one owner, and the last cell of a list, no other, is    *)
(* marked so: destroying a key, after a reservation that failed half way   *)
(* too, frees everything, nothing twice, and reads nothing that is freed   *)
(* (query-key.c:236).                                                      *)
Owners(b) == {<<k, 0>> : k \in {x \in Keys : root[x] = b}}
             \cup {a \in Allocated : At(a).ptr = b}
OwnedOnce ==
  /\ broken # "memory"
  /\ Quiet =>
       /\ \A b \in Live : \E o \in Owners(b) : Owners(b) = {o}
       /\ \A a \in Allocated : At(a).ptr \in Live \cup {0}
       /\ \A b \in DOMAIN lists \ {root[k] : k \in Keys} :
            \A i \in DOMAIN lists[b] : lists[b][i].term <=> i = Len(lists[b])

(* No link is an aggregate, and the filters of products are single links   *)
(* that take no key: the evaluation of others uses the cells of others.    *)
PlainQuery ==
  \A n \in DOMAIN keyed.chains : \A i \in DOMAIN keyed.chains[n] :
    LET l == keyed.chains[n][i]
    IN /\ l.kind # "call"
       /\ \A j \in DOMAIN l.filter :
            LET filter == keyed.chains[l.filter[j]]
            IN Len(filter) = 1 /\ filter[1].kind = "none"

(* Reference: the typed links of a chain, from left to right. *)
TypedLinks[n \in DOMAIN keyed.chains] ==
  FlattenSeq([i \in DOMAIN keyed.chains[n] |->
    LET l == keyed.chains[n][i]
    IN CASE l.kind = "typed" -> <<l.id>>
         [] l.kind \in {"fwd", "product", "arith"} ->
              FlattenSeq([j \in DOMAIN l.sub |-> TypedLinks[l.sub[j]]])
         [] OTHER -> <<>>])

(* The data a flat view leads to are the keys of the typed links, in order,*)
(* all of one evaluation.                                                  *)
ViewShows(k) ==
  [i \in DOMAIN view[k] |-> data[At(view[k][i]).ptr]] =
  [i \in DOMAIN TypedLinks[1] |->
     IF round[k] = 0 THEN <<0, 0>> ELSE <<TypedLinks[1][i], round[k]>>]

(* The flat view shows the keys of the typed links from left to right, all *)
(* of the last result that was evaluated or copied (query-key.c:448).      *)
ViewNamesResult ==
  \A k \in Keys :
    Quiet /\ faults = 0 /\ PlainQuery /\ result[k] = "ok" /\ view[k] # <<>> => ViewShows(k)

(* A program ends only where an allocation failed, or at the key of an     *)
(* aggregate or of a filter (query-key.c:47, query.c:180, bound-value.c:292). *)
KeysRunThrough == broken # "no" => faults > 0 \/ ~PlainQuery
==============================================================================
