# A verification project for HDQL

HDQL (Hierarchical Data Query Language) compiles an expression such as
`.tracks{ :size > 3}.hits.energy` into a *query*: a chain of links, each bound to
an attribute of a compound type through a table of C callbacks (an *interface*).
A client applies the query to a root datum (an *event*) with `hdql_query_reset`,
and asks for one result after another with `hdql_query_get`; a composite *key*
tells which elements of which collections a result was found by.

The library is sequential ("not thread-safe", doc/concepts.rst): nothing in it
runs concurrently. What is hard in it is *state that outlives a call*: iterators
of links, wheels of products, filters, key cells and cached values, most of them
describing data that was left at any given moment, and used again by later calls
in an order that depends on which collections are empty.

## Inventory

| component | state it keeps | operations | correct when |
|---|---|---|---|
| query chain engine, `query.c` | per link: owner, iterator or scalar state | `hdql_query_reset`, `hdql_query_get` | every path through the data is delivered once, in depth-first order, then NULL; no stale iterator shows; calls return |
| query product and bound compounds, `query.c`, `ifaces/bound-value.c` | owner, values, one query per bound attribute, a filter query | `hdql_query_product_reset/advance`, the collection's reset and yield | the filtered Cartesian product of one owner is delivered; partial resets leave nothing that shows later |
| query keys, `query-key.c` | a tree of key cells | reserve, copy, flat view, destroy, walk | the walk stays in step with the links; a copy has the shape of its source; destroy frees once |
| hash table, `hash-table.c` | buckets, size, capacity | insert, get, lookup, erase, remove, iterate, rebuild | it is a map; no entry is lost by an extension; nothing leaks when an allocation fails |
| forwarding and filtering interfaces, `ifaces/fwd-*`, `filtered-v-compound.c` | a query as the iterator of a link, the attribute's own: shared by all links of that attribute | reset, yield | a nested chain is a link like any other; queries that share one iterator do not crash |
| arithmetic interfaces, `ifaces/arith-*`, `operations.cc` | two queries, a result | reset, yield, look-up of evaluators | results are those of the operands at hand; empty operands are handled |
| aggregates, `funcs/monoids.c`, `len.c` | argument queries, an accumulator | reset | each result of each argument is taken once |
| context and registries, `context.cc`, `function.cc`, `converters.c`, `value.cc` | tables with a parent context | define, get, create a descendant, destroy | a child sees its parent's definitions; look-ups return; data is destroyed once |
| attribute definitions and compounds, `attr-def.c`, `compound.cc` | definitions, what they own and forward to | create, look up, destroy | each definition is destroyed once, and no later than what refers to it |
| front end, `hdql.y`, `hdql.l` | a stack of scopes, the parser's semantic values | one action per production: push, pop, resolve, create, fold, wrap | scopes stay in step with the braces; every object has one owner, also on errors |
| C++ templates, `helpers/compounds.hh`, `functions.hh` | iterators of arrays and containers with selections; argument pointers of a function | reset, yield, destroy | the interface contract that the chain relies on |
| C++ wrapper, `helpers/query.hh`, `query.cc` | a query with its context, keys and conversion buffers; cursors that lock it | open, reset, next, get, bind, unbind, destroy, each of which may throw | the lock and the cursor are a pair; nothing is left |
| result handlers, `query-results-handler*.c` | a tree of attribute handlers, iterators, the workspace | init, handle a record, destroy, clean up | rows match the header; all is released |
| allocators | blocks of an arena | alloc, destroy | blocks do not overlap and are returned |
| random numbers, printing, build | | | not modelled |

Components call each other in one way: a client calls the chain, the chain calls
the interface of each link, and an interface may run queries of its own (bound
queries, filters, arguments), which are chains again.

## What is modelled

### The chain engine

* `Paths.tla` names data: a datum is the sequence of choices that lead to it, one
  position per link, position 0 the event. `Owner(i)` are the data link i can be
  applied to.
* `QueryEnumeration.tla` is the promise of `hdql_query_reset`/`hdql_query_get`:
  a set of paths not delivered yet, and their order.
* `QueryChain.tla` is `query.c`. State: `own[i]` (`hdql_Query.owner` and whether
  the iterator exists), `at[i]` (the iterator), `key` (the caller's key list) and
  the locals of the running call `pc`, `cq`, `ck`, `r`. One action per turn of
  each loop: `ResetDescend` and `ResetClimb` are the two inner loops of
  `hdql__query_reset_descendant`; `GetYield` and `GetDescend` those of
  `hdql_query_get`; `CallReset` and `CallGet` are the entries. An attribute
  interface is its contract (`attr-def.h`): reset picks the first element or
  reports NULL, yield the next or NULL, and NULL again after that; keys are set
  on success only. The client may apply the query anew at any time between
  calls, to any event, with or without keys; it asks for more only after a reset
  that found something, as every loop in the repository does.

Properties: `Enumerates` (the chain implements `QueryEnumeration`, with its
fairness), `YieldOnOwner` (no stale iterator is advanced), `KeyNamesResult` (the
key is the key of the result), `TypeInv` (with it that keys are written in step
with the walk, and only where the client wants them), and `WalkInv`, the
inductive invariant: links above the one at hand are *synced* (each serves the
element its parent is at), links below it are spent.

### Products and bound compounds

* `ProductEnumeration.tla` is the promise of `{a := *.x, b := *.y : filter}`: the
  combinations of one owner that pass the filter, in odometer order.
* `BoundCompound.tla` is `ifaces/bound-value.c` with `hdql__query_product_reset`
  and `hdql_query_product_advance`: one action per turn of the reset loop, of the
  advance loop, and of the filter loops of the two interface methods. A bound
  query is abstracted to the promise proved for chains (`QueryEnumeration`): it
  has `size[d][i]` results on owner d. Where that promise is silent (asking for
  more after a reset that cut an iteration short and found nothing) the model
  keeps a mark, `torn`, and `NoLeftover` shows that no such query is ever asked.
  That number depends on the owner only: bound queries that start from an attribute
  bound before them, whose results change as the odometer turns, are outside the model.
  Calls come as the chain makes them. `served` says that `hdql_query_reset` of the
  chain has found its first result. Before that, a link whose reset found nothing is
  reset on its parent's next datum at once, and only a link that stands on a result
  is asked for the next; from then on, in `hdql_query_get`, it may be asked to yield
  directly after a reset that found nothing, and is always asked before it is reset
  again. The client may apply the query anew at any time.

Properties: `DeliversProduct` (refinement of `ProductEnumeration`), `NoLeftover`,
`ValuesAreWheels` (what bound attributes read is one combination of one owner),
`CallsReturn`. The exception in the latter, `Stuck`, is the subject
of the violation run `bound_stuck`.

### The hash table

* `KeyTable.tla` is the map that clients rely on, with the result codes of the code
  (the header announces others for a removal: see the disagreements below).
* `HashTable.tla` is `hash-table.c`: buckets as sets of entries (the order inside
  a chain is abstracted; a lookup compares whole keys), an arbitrary hash per key,
  every allocation that may fail, extension inside an insertion, hints of
  `hdql_ht_lookup` that may be stale, and an iteration with a callback that sets
  values or stops. The shift `1u << (capacity-1)` is undefined for capacity 0:
  the model lets the comparison go either way.

Properties: `IsMap` (refinement), `EntriesInPlace` (every entry is where a lookup
searches it, and extensions keep up with the records), `NoLeak`, `HintHolds`,
`IterComplete`.

### Aggregates

`Aggregate.tla` is `funcs/monoids.c` and `funcs/len.c`: `sum`, `prod`, `min`,
`max`, `all`, `any`, `count`, `mean`, `len`, `empty`. An aggregate is a scalar
whose reset runs whole queries: it resets every argument and takes its first
result, then runs each to its end. State: the aggregate and its arguments
(`fn`, `sig`, `arg`), the dynamic data of the link (`made`, `acc`), the state of
the argument queries (`serves`, `at`) and the locals of the running reset.
`NewDynData` and `SetNeutral` are the start of the reset, `ResetArg` (with
`ResetArgKeyed` when the caller gives keys) is one turn of the first loop, `GetArg`
one turn of the second. Dynamic data begins as uninitialized memory: any value.
Integers wrap at their width, and a conversion (`Convert`) may change a value: a negative
`int` becomes a large `uint`, and a number a floating one (`Rounded`). A `float` is one of
a few values in their order, and a `double` a sign and two halves, because the code writes
a `float` neutral value into the union of which it reads a `double`; what dynamic data
begins with is any value, so that the half which is not written may be anything. Sums,
products and means of floating numbers are left out (`Modelled`): they need an
arithmetic, which places in an order do not have.

Properties: `ResultOfArguments` (the result is that of the argument's results on
this owner, against a reference that folds over all of them; where the extremes of
floating numbers do not start from a neutral element, it may be what they started from,
and is passed by no result), `StopsExactlyThere` (the program stops at a mean that has no
quotient, a missing conversion target or the empty key cell, and there always: no
evaluation of such a call returns), `EvaluationEnds`.

### The interfaces of a link

Three modules, composed in `Interfaces.tla` (those whose calls do not nest) and
`MCInterfaces.tla`: they share nothing, so that each behaviour uses one of them.

* `ArithOperation.tla` is `ifaces/arith-op-as-scalar.c` and
  `ifaces/arith-op-as-collection.c` for an operator of one or two operands. A
  result is kept as the pair of the operands that went into it, so that `Paired`
  can say that each result joins the next element of the collection with the
  scalar of the same owner. An operator that is given a NULL operand, or divides integers
  that have no quotient (`NoQuotient`, `divides`), ends the program (`stopped`); `Paired`
  also says that this happens at the first such pair and at no other, and that an operand
  is missing in a reset on an empty argument only.
* `NestedQuery.tla` is a chain whose links run chains of their own: forwarding
  attributes (`fwd-query-as-collection.c`, `fwd-query-as-scalar.c`), filters
  (`filtered-v-compound.c`) and functions of scalars (`helpers/functions.hh`). The
  iterators are numbered by the links of the definitions, so that two queries over one
  forwarding attribute use the same ones (`mixed` marks a query that another one has
  moved). `Reset` and `Get` run the loops of `query.c` over the iterators to the end of
  the call. Properties: `Delivers` (a query results in what a definition from the data
  alone says, unless it was mixed), `StopsForArguments` (no iterator is used before it
  exists; the one thing that goes wrong is a function with too few arguments).
* `CollectionIterator.tla` is the templates of `helpers/compounds.hh`: the iterator of
  an array or a container, of objects or pointers, with or without selections. What
  `new_iterator` does not initialize is arbitrary. Properties: `YieldsSelected`
  (since the last reset it has delivered what the selection takes), `KeyOfElement` (a
  key given is set to that of the element, and to nothing else).

### Query keys

`QueryKeys.tla` is `query-key.c` with the reservation methods of the interfaces
(`attr-def.c`, `bound-value.c`, `arith-op-as-collection.c`): memory is modelled block
by block (`lists` the blocks of cells, `data` those of key data, `root` the own cell of
each key), any allocation may fail, and what a failing one leaves half done stays in the
heap. The code's recursion is `stack`, the loops that run, the innermost last; a step is
one turn of that loop. A call begins with `ReserveKey`, `EvaluateQuery` (a query writes
the keys of its result), `CopyKey`, `FlatView` or `DestroyKey`; its turns are
`ReserveLink`, `EvaluateLink`, `CopyCell` and `WalkCell`, and each loop is left by an
action of its own (`ReserveEnd`, ..., `WalkUp`). The queries of `MCQueryKeys.tla` put
every kind of link inside every other. Properties: `OwnedOnce` (destroying a key, also
one whose reservation stopped half way, frees every block, none twice, and reads nothing
that is freed), `ViewNamesResult` (a flat view shows the keys of the typed links from left
to right, all of one result), `KeysRunThrough` (a program ends only where an allocation
failed, or at the keys of aggregates and filters).

### The C++ wrapper

`QueryCursor.tla` is `Query` and its cursors (`helpers/query.hh`, `helpers/query.cc`).
Every call may throw where the code does, and leaves what it has done by then: a lock
taken, an error in the context, a buffer in the cache. The C query is what it promises
(`First`, `Following`). The copies of a generic cursor that the compiler defines by itself
are outside the model: a copy points to a query that is locked by another cursor.
Properties: `OneCursor` (the lock of a query and the query of a cursor are a pair; no
query is destroyed under a cursor), `NothingLeft`.

### Results as a table

`ResultsHandler.tla` is the workspace of `query-results-handler.c` and the CSV handler:
the tree of handlers made from the type of the result, the names of the columns, the
cells of a record (`Cells`, one walk) under names printed by another (`Columns`), the
iterators of collections, and the way out. The tree is a function from places, the
paths to handlers, to what the handler is (`IsTree`: the places are the root and those
of the tiers of compounds, which is what the code builds); columns are places, and text is
left out. Any pointer of a record may be NULL. The callbacks of the CSV handler never
refuse a type or keys, so that the workspace's two early returns are not taken; a cleanup
may follow the initialization directly. Properties: `RowsMatchHeader`, `Released` (nothing is
left of a handler and a workspace), `RunsThrough` (which shapes, and which order of calls,
end the program).

### Contexts and their registries

A context may have descendants, and each has a table of types, converters,
functions and constants whose parent is that of its parent. `Context.tla`
(`context.cc`) composes the four modules: a context is created and destroyed with
all its tables, any operation of any registry may follow, and a running call of
`hdql_functions_resolve` goes on before anything else. Table 1 is the root's;
contexts are destroyed from the last to the first.

* `TypeTable.tla`: `hdql_ValueTypes` of `value.cc` and the promotion table.
  `codeByName`, `items` are the maps of a table; `valid`, `cache` the promotions
  copied at the first use. Actions: `Define`, `Alias`, `Promote`. Properties:
  `NamesHaveTypes` (a name leads to a type that is there), `MeaningsStay` (what a
  name means changes only when a nearer table gets the name), `CacheOnlyLacks` (the
  root's promotions are those of its types; a descendant's may lack some, and never
  have a wrong one).
* `ConverterTable.tla`: `converters.c`. An array that grows by an increment and is
  sorted lazily at the first look-up, as binary search (`Bsearch`, the halving loop
  it is) requires. Actions: `Get` and the four outcomes of an addition. Properties:
  `ArraysSound` (what is marked as sorted is sorted, and an addition has room for its
  record), `AddedIsFound`, `FoundStays`.
* `FunctionTable.tla`: `function.cc`. `CallResolve` begins a call; `Accept`, `Deny`,
  `Unknown`, `Cannot`, `AskParent` are its turns. `MaxFrames` bounds the recursion
  on a name that is not in the dictionary at hand. Properties: `Overloads` (a call of
  a known name succeeds exactly if an overload accepts the arguments, and with one
  that does), `KnownReturns`.
* `ConstantTable.tla`: the constants of `value.cc` and what `hdql.l` makes of the
  name of one. An item is the bits of a union; two definitions are compared as
  bits. Properties: `MeaningStays`, `AcceptedIsSeen`.

`Context.tla` states them together: `TablesInOrder` (`NamesHaveTypes`,
`CacheOnlyLacks`, `ArraysSound`), `DefinedIsSeen` (`AddedIsFound`, `AcceptedIsSeen`),
`MeaningsStay` (types and constants), `FoundStays`, `Overloads`, `KnownReturns`.

### The compiler

`QueryCompiler.tla` is the grammar's semantic actions (`hdql.y`) together with what
they create in `attr-def.c`, `compound.cc` and `query.c`, and the way out: the
evaluation, the destruction of the query and that of the context. Its state is the
heap (`heap`, append-only, and `freed`), the context's list of virtual compounds
(`listed`), the stack of scopes (`scopes`, `overflow`), the parser's semantic values
(`sem`), what it returns (`rc`, `result`), the iterators that exist (`iterated`) and
the destruction of the context (`context`).

An action is a production, or the part of one before a mid-rule action: `Literal`,
`Member` and `Extend` are the operands; `Operator` and `EndOperation`, `Unary`, `Call`,
`EndArgument`, `EndCall` the expressions; `OpenOn` is `query {`, `Open` a scope of its
own, `Name` and `EndDefinition` an attribute of it (named, positional, bound), `Colon` a
filter, `CloseScope` the brace that ends it. The productions are driven by an expression
that is read from left to right, so that the model meets every expression within the
bounds, with a syntax error anywhere (`SyntaxError`). After `Accept` the client creates
iterators (`Iterate`), destroys the query and the context (`DestroyQuery`,
`DestroyContext`), and the latter goes attribute by attribute (`UnwindAttribute`,
`UnwindCompound`), in every order a hash map may have. When the parser fails, its
semantic values are not destroyed (`hdql.y` has no destructor in use); the context still
is.

Left out: parentheses and precedence (they choose among reductions the model makes
anyway), labels and the text of selections, and failing allocations. Left open: which
operand types have an evaluator, whether it fails, which overload takes the arguments,
whether an interface can compile a selection. Where an assertion may fail
(`hdql.y:580, 596`) the model goes both ways, as builds with and without NDEBUG do.

Properties: `OneOwner` (nothing has two users that would both destroy it),
`LiveRefs` (nothing live refers to what folding or a failing reduction has destroyed),
`ScopesInStep` (the stack of scopes follows the braces, and the names defined so far
are known in an open scope, whatever was opened and closed inside),
`LeavesNothing` (destroying the query and the context leaves nothing but bound queries
that no iterator took over). `UnwindsInOrder` is the subject of a violation run.

## Runs

| run | instance | shows |
|---|---|---|
| `chain` | 3 links, at most 2 elements per datum, 2 events (`MCQueryChain.tla` says which data) | all properties of the chain; nothing leaks from one event into the next |
| `bound` | 3 bound queries, up to 2 results, 2 owners, no filter, or every filter when the last query has one result | all properties of the product |
| `hash` | 3 keys with every pattern of collisions, initial capacities 0 and 1, up to 4 records ever stored | all properties of the table, also where the test for an extension is undefined |
| `aggr` | every aggregate, 6 signatures with and without conversion, integers of 4 and 8 values, up to 2 results each, 2 owners | all properties of aggregates |
| `ifaces` | operations, divisions among them, on scalars and on a collection of up to 2 results on either side, one of two values zero; 6 contents of a member, 4 selections; 8 programs of queries two and three deep; 2 owners | all properties of the interfaces |
| `contexts` | 2 contexts; 3 type names, 2 types per table; 3 pairs of types, increment 2; 3 overloads; 3 values of a constant | all properties of the registries |
| `bound_stuck` | 1 bound query, every filter | violated: a reset returns |
| `keys` | 2 keys, 12 queries, any two allocations failing | all properties of keys |
| `cursor` | 2 queries, 2 cursors, 4 types, an event with 2 results and an empty one | all properties of the wrapper |
| `csv` | 30 results: every shape, nested three deep, up to 2 keys; 3 records with every pattern of NULL | all properties of the table |
| `compile` | expressions of up to 15 units, 2 names, chains of 3 nodes, 2 arguments, 3 scopes | all properties of the compiler |
| `compile_unwind` | as `compile` | violated: the destruction of a context touches nothing destroyed before (`{a := *.x}`) |

A violation run is a disagreement between the code and a line of its
documentation, quoted under `findings` of `PROJECT.json`. The passing runs state
what holds around it: `CallsReturn`, for instance, says that a reset other than
that of `bound_stuck` returns.

Bounds. A chain of three links has a first, a middle and a terminal link, which
is all the code distinguishes; two elements per datum give an iterator a first
element, a next one, and an end; the empty datum is included everywhere. Three
bound queries give the odometer a wheel between two others. Two events or owners
are enough to confuse one with another. In the hash table `MaxSize` bounds the
records ever stored (the code never decrements the size) and `MaxCap` the
capacity; they allow two extensions from capacity 1, and the extension from capacity 0,
which makes 32 buckets at once. `Values` are symmetric: they are only stored
and compared. In `Aggregate` the widths (`IntMax`, `UIntMax`) are so small that two arguments of
two results make an `int` counter a multiple of its type's size, and three results make
it -1: both ways in which a mean has no quotient are met. `MCSample` holds zero, numbers
that conversions change, a negative float, and doubles of either sign that differ in both
halves. Registries treat every table but the first
alike, so that a parent and a child are enough. They share nothing but the
lifetimes of their contexts, so that operations of two registries commute:
`MCContext.tla` lets a behaviour use one of them (`Registries`, `used`), in every
order of its operations. Three type names over `MaxTypes` = 2 fill a table; three
pairs of types over an increment of 2 make the array grow, and give binary search a
middle and both sides. `MaxFrames` cuts the recursion of `hdql_functions_resolve` at
three frames: it repeats itself from the second on. In `QueryCompiler` every object
and node counts one unit, literals, operations and calls three, and constructs
that have begun are charged for what completes them (`Weight`, `Begun`, `Room`): 15
units (`MaxObjects`) hold a scope in a scope in a scope, a bound attribute with a filter
after it, an operation on two scopes. `MaxDepth` = 3 fills the stack of scopes, so that
pushes are refused, by an error and silently. What happens after the parser
returned is followed for expressions of up to `MaxCompiled` objects, and, where it
failed, `MaxFailed`. The two names are symmetric. The error of a pop on an
empty stack (`Close`) needs a filter around which a push was refused: it is met with
`MaxDepth` = 2, where the properties hold too. In `QueryKeys` any allocation may fail, and
`MaxFaults` = 2 of them do, so that a second reservation of a key whose first one failed
may fail as well; the 24 `Blocks` are more than the two keys can hold, the source and the
target of a copy. In `NestedQuery` `Fan` = 2 is the number of
elements and, as a value, NULL. In `QueryCursor` one query has a number as result and
one a compound, the two cases of a conversion; two cursors compete for a lock. In
`ResultsHandler` a second record meets the iterators of the first, a third those of the
second, and `MaxRecords` = 3.

Fairness. `WF_vars(Step)`, `WF_vars(ResolveStep)`: a call that has begun goes on.
The library is sequential and has no waits, so a running call always takes its
next step. The client is not assumed to call anything. Where an operation is one
step (`HashTable`, the interfaces, cursors, the table of results, types,
converters, constants), and for keys, of which only safety is stated, no fairness is
assumed.

Deadlock is checked for the chain and the hash table. It is switched off where the
program really ends: the product (a reset on a NULL owner), aggregates, operations,
functions, keys and the table of results (a failed assertion, a division by zero, a read
through NULL; the model has assertions on, as in a build without NDEBUG), the registries
(the recursion that exhausts the stack), the compiler and the cursors, whose behaviours
end with the context and with the last cursor.

### Further disagreements

Met while modelling, and part of the models, but not runs of their own:

* `bound-value.c:233`: after a reset that found nothing the owner is NULL, and a
  yield still turns the odometer with it: when a wheel has more to give, the next bound
  query is reset on no datum (`crashed`).
* `hash-table.c:214`: an erasure does not decrement `size` ("Number of records"),
  so a table that is filled and emptied in turns grows; `hash-table.c:161` returns
  -3 where `hash-table.h:53` says `HDQL_HT_ERR_MEM`; `hash-table.c:202, 217, 223`: a
  removal returns 0 (`HDQL_HT_RC_OK`) if the key was there and an error code if it was
  not, where `hash-table.h:77` says "returns 1 if removed, 0 if not found" (the model has
  the code's results); `hash-table.c:135`: for a table
  created with capacity 0 the shift is undefined, and it may grow too late.
* `monoids.c:111`: a count of `uint64_t` values has a converter and no target for
  it; `monoids.c:140`, `len.c:46,64`: the empty key cell of the link is passed as the
  key list of an argument; `monoids.c:762`: a mean divides by its counter modulo the
  width of its type, which may be 0, or -1 where the sum is the least number
  (`StopsExactlyThere` says that the program stops there, and elsewhere only as above).
  `monoids.c:680`: the neutral element of `min` for `double` is stored as a `float`, and
  `monoids.c:694`: that of `max` is the least positive `float`, where `function.h:107`
  says "min of type", so that the maximum of negative numbers is a positive one
  (`ResultOfArguments` says what is left of the extremes then).
* `arith-op-as-collection.c:78`, `arith-op-as-scalar.c:58`: an operator is applied to
  the missing result of an empty argument; `operations.cc:231, 312`: integers are divided
  without a look at the divisor (`Paired` says where the program stops for either).
* `value.cc:133`: `get_by_name` of an alias to a type of an ancestor fails an
  assertion; `value.cc:110`: a repeated alias is reported as a collision;
  `value.cc:164`: promotions a descendant has cached lack what its parent defines
  later; `value.cc:63`: tier 8 is refused although `types.h:75` allows 16;
  `value.cc:652`: a repeated definition of a constant is compared without its type.
* `hdql.l:153`: the token of an integer constant carries the bits of the integer as a
  floating point number.
* `hdql.l:126`: the literal `false` is given the value true.
* `hdql.y:580, 596`: a scope of its own, closed inside a scope with bound attributes (or
  the reverse), leaves its mark in the scope's place on the stack, and the assertion
  fails at the brace of the outer one; the names of a closed scope of its own stay
  known in the one around it, and the counter of positional attributes starts anew.
* `hdql.y:613`: a push that is refused is ignored, and the pop after the filter then
  takes another scope's place away (`overflow`; `ScopesInStep` excludes it).
* `hdql.y:1085`: the arguments of a function are resolved in reverse order.
* `hdql.y:1016, 1021`: the text of a failed constant operation is an array that was
  never written; `hdql.y:1259`: so is the position of an error without message.
* `function.cc:54`: a function that a descendant's dictionary does not know is looked
  up in the same dictionary again, not in the parent's that context.h:114 promises.
* `converters.c:120`: the first converter of a descendant hides all those of its
  ancestors (value.h:141: "Recursively expands converters till root").
* `hdql.y:1001`: an operation is folded also when its operands are collections or
  depend on the data, as in `-.h{a := 2}.a`.
* `compound.cc:158`: the test for an empty name compares with the digit `'0'`.
* `fwd-query-as-collection.c:24`: two queries, or two links, over one forwarding
  attribute share its iterator (`{a := .hits, b := *.a.x, c := *.a.y}`): each moves the
  other (`mixed`).
* `functions.hh:239`: a function is accepted with fewer arguments than it has parameters
  (the comments at 66 and 238 say otherwise) and applied to pointers never set; an
  argument whose conversion failed is applied with the value it had before.
* `compounds.hh:605`: an array of which the selection takes nothing yields the place
  behind its end; a NULL element of a container ends the iteration for the chain.
* `attr-def.c:555`: a nested key whose reservation failed is ignored;
  `query-key.c:174`: `hdql_key_swap_list_item` swaps the mark of the last cell, too;
  `bound-value.c:292`: a filter is given the keys of the product it filters.
* `query.cc` (helpers): an error ever pushed to the context makes every later reset
  throw (436); the constructor that throws leaks what it has (116); a cursor that moves
  to another query keeps the converter of the first; a converter for a compound the
  dictionary does not know reads past the end of it (346); the cache gives a converter
  of none where `query.hh:326` promises an error; `cursor<T>()` locks the query although
  `query.hh:396` says it does not; the buffers of converters are freed with the context
  destroyed two lines before (228).
* `query-results-handler-csv.c`: an assertion fails for queries without typed keys (627)
  and for forwarded compounds (`attr-def.c:485`); members of a NULL compound are read
  through NULL (365); a collection's forwarded chain that ends in a scalar is taken for
  a scalar; a cleanup directly after the initialization reads the attribute of a type
  that was never given (754), and would free a pointer that is never set before keys are
  handled (667, 771), were the type ever refused.

## Theorems

They hold for every value of the constants; the only assumptions are those the modules
name. One theorem states a condition of its own: the hash table's `EntriesFound` (no
table is created with capacity 0).

**The chain** (`NAssumption` and its neighbours in `Paths` and `QueryChain`).

1. `QueryChain_proofs.tla`, `TypeCorrect`: types, locals and the key walk are as
   `TypeOK`, `Locals` and `KeysInStep` say. The three are inductive only together:
   the datum at hand is an owner of the link at hand because the link before found
   it; a link that yields has an iterator because the descent created those above
   it; the key cell is that of the link because every branch moves both.
2. There too, `WalksOnePosition`: `WalkInv`, the invariant that
   the links above the one at hand stand on one position in the data. Its
   inductive form `WalkInd` adds that a query that is being applied is not live
   yet. The argument has one lemma per thing a loop does to the position: a link
   that finds something makes it grow (`PositionGrows`), one that finds nothing
   shrinks it (`PositionShrinks`), links below are irrelevant (`PositionKept`).
   From it follow `KeysNameResults` (a result comes with its own keys) and
   `YieldsOnOwners` (no link is asked to yield for a datum its parent has left,
   unless everything is depleted).
3. There too, `ImplementsEnumeration`: `Spec =>
   Enum!SafeSpec`, that is, each path of the event is delivered once, in
   depth-first order, and NULL only after the last. The set of paths still to
   deliver is computed from the iterators; lemmas say how it changes when a link
   moves on (`MoveOn`), has nothing more (`NothingMore`) or takes its first
   element (`FirstOfAll`), and one lemma per action shows that the loops only
   rearrange that set while a call's return takes the least path out of it.
   `RefInv` adds to the walk that a scalar link has one element.

**Products** (`MAssumption`, `MaxFanAssumption`, `VerdictsAssumption`,
`NULLAssumption` of `BoundCompound`).

4. `BoundCompound_proofs.tla`, `NothingLeftOver` and `ValuesOfOneOwner`. `NoLeftover`
   is not inductive: that the wheels a failed reset did not reach are over depends on
   what the chain has asked before. In `hdql_query_get` every reset comes after the
   wheels were turned to the end; in `hdql_query_reset` they may be anywhere, and
   nothing is asked of them before a reset has found something. `IInv` says so for
   each loop (`InReset`, `InAdvance`, `InFilter`) and for the time between calls
   (`AtRest`): which wheels stand on a result of the owner (`On`), which are over and
   not torn (`Spent`).
5. There too, `ImplementsProduct`: `Spec =>
   Abstract!SafeSpec`. To `IInv` it adds `NothingMore`: where the owner was dropped,
   or a wheel was passed in an advance, some query has no results or the values are
   the last ones. Combinations to come split by the first wheel in which they differ
   from the values at hand (`AheadSplits`, `NextValue`, `FirstValue`), and one lemma
   per action maps its step.

**The hash table** (`NULLAssumption`, `ValuesAssumption`, `HashAssumption`,
`CapAssumption`, `SizeAssumption`, and `PowerAssumption`: powers of two are positive and
double from one capacity to the next, which the provers do not know of `^`).

6. `HashTable_proofs.tla`: the buckets are a function of the set of entries, the
   hash and the capacity (`TableOf`). `InPlace`, the first part of the invariant,
   says that the table is that function of what it stores; lemmas about `TableOf`
   (`Finds`, `Puts`, `Takes`, `Replaces`) turn every operation into one on the set
   of entries (`InsEffect`, `EraseEffect`, `RebuildEffect`, ...). From these follow
   `NothingLeaks`, `HintsHold` (with `HintKept`: the entry of a hint is stored, and
   its bucket was that of its capacity), `IterationsComplete` (with `IterKept`: what
   is in the buckets behind was seen) and `ImplementsMap`: `Spec => Map!Spec`, each
   operation is that of `KeyTable` on what the set of entries says of the keys
   (`Assoc`). `EntriesFound` needs a further invariant, `Load`, and assumes that no
   table is created with capacity 0: for such a table the test for an extension is
   undefined, and the bound on the load does not hold beyond 17 records.

**Operations and iterators** (`MaxLenAssumption`, `NoQuotientAssumption` and
`NULLAssumption` of `ArithOperation`;
`ContentsAssumption`, that members are sequences of elements, and `PlacesAssumption`,
that NULL is not a place, of `Interfaces`).

7. `Interfaces_proofs.tla`, `OperandsPaired`: a reset that does not stop the
   program has found both operands, and until the next one neither the owner nor the
   scalar that is kept changes (`Serving`), so that what a yield applies the operator to
   is the next pair (`Pair`) and misses nothing. There too, `IteratorsYieldSelected` and
   `KeysOfElements`: an iterator that was reset is on an element that is taken or at the
   end (`Placed`), and every move leads to the next such place (`NextPlace`), skips
   nothing that is due, and so adds at most one place to what was delivered
   (`MoveShows`, from the empty sequence at a reset, `FirstShows`). That an array without
   anything to take delivers the place behind its end is the only other case. A reset
   of an array returns the place it finds without a look at what is there; the proof
   uses that no element of an array is NULL.

**Cursors, the table of results, keys** (`RootedAssumption`, `CountAssumption`,
`TypesAssumption`, `NoneAssumption` of `QueryCursor`; `RequestsAssumption` of
`ResultsHandler`: the handlers of every query are a finite tree; `KeyedAssumption`,
`BlocksAssumption` of `QueryKeys`: the chains of a query refer to later ones, and NULL is
no block). One module has the proofs about the components that a client has to do with;
they share no state.

8. `Clients_proofs.tla`, `CursorsExclusive` and `BuffersReleased`: `OneCursor` is
   inductive with the types of the locks, one lemma per kind of step (open and close,
   a new cursor, bind, release, and all that leave locks alone); `NothingLeft` needs
   to know that nobody reaches a query that is not open, which is `OneCursor`.
9. There too, `RowsMatchHeaderHolds`, `ReleasedHolds` and `RunsThroughHolds`, for trees of
   any depth and width. The header and the row are two walks of one tree. That such a walk
   is defined at all follows from a rank that falls from a tier to those below it (the
   number of longer paths: `RanksExist`, `WalksExist`). `Fits` relates the walks at one
   place: the cells of a place are below it, and are those of its columns unless a NULL
   ended the walk; it holds where there is one cell (`LeafFits`), and of a compound if it
   does of its tier (`TierFits`), so everywhere, because a place of least rank where it
   does not would have a tier where it does (`WalksFit`). A walk is only ended below a
   nested compound (`CrashIsDeep`), which is `RunsThrough`. `TableInv` puts this into the
   states: a workspace that is live has the header of its tree, what is allocated belongs
   to the handler or to the workspace as long as that is there (`HeldInv`), and only
   collections of the tree have iterators.
10. There too, `OwnedOnceHolds`, for any queries, keys and blocks, and any number of
    failures. `OwnedOnce` speaks of the time between calls; `OwnsInv` says what holds at
    every turn of every loop. `Owned` relates the cells to the blocks: a cell that points
    somewhere points to a live block of its kind, no two cells and no key point to the
    same, and every block has a cell or a key that does. A destruction visits a list after
    its cells, which still hold what they pointed to: `Gone` are the cells it has passed,
    computed from its loops, and they own nothing any more (`DatumFreed`, `ListFreed`,
    `RootFreed`). `LastMarked`, the mark by which a walk ends, holds but for the list
    whose reservation is at its end (`OpenLists`); so a walk stays inside its lists
    (`WalkIs`), each of which is that of the cell the loop outside is at (`WalkLoops`).
    `LoopsOf` says that the cells a reservation has still to give are not in use, but for
    those of a product that is reserved again, which goes over the list it has: that this
    list is as long as the product (`ProductLists`) is part of the invariant, since it
    was made for the same query.

11. There too, `KeysRunThroughHolds`, on top of `OwnsInv`, while no allocation fails and for
    queries without aggregates whose filters take no key, as the property says. What a cell
    must look like depends on the link it was reserved for, which no variable records:
    `KeysRunInv` says that there is a `label` that gives each block of cells the links of
    its reservation (`KeyRuns`). `Shape`: a block has as many cells as its label has links,
    and every cell fits its link (`Fitting`: key data for a typed link, for a link with a
    list a list labelled with the links inside), unless a destruction has passed it
    (`Gone`) or a first reservation is still to come to it (`Waiting`, computed from the
    loops). A reservation gives every turn the links of the label (`ReservesFor`); that of
    a key which was reserved before is refused at its first cell (`Again`). Every link
    of an evaluation is served by the cell of its label, or is the filter of a product,
    or in one (`EvaluateLoops`), and a copy goes through two lists of one label
    (`CopyLoops`). One lemma per action shows that no assertion of it fails and finds
    the next label: a new list gets its own (`ListAdded`), all others keep theirs.

**The compiler** (`NamesAssumption`, `MaxDepthAssumption` of `QueryCompiler`).

12. `QueryCompiler_proofs.tla`, `OwnInvHolds` and `OneOwnerHolds`. `OneOwner` is not
    inductive: that a reduction hands a query to a new attribute makes no second owner
    only if nothing else could become one. `OwnInv` says what every part of the state
    may claim: objects refer to objects of the right kind, and no object has two claims on
    it (`HeapInv`); what a semantic value holds or builds is claimed by no object and by
    no other value (`SemInv`); scopes, the context's list and the client are in
    `ScopeInv`, `ListInv` and `ClientInv`. `Later` relates the heaps before and after a
    step: what nothing claimed, and the step did not hand over, is still unclaimed.
    Lemmas say how a heap grows by a chain, an attribute or a compound (`GrowByChain`,
    ...) and each production uses them (`OwnStep`). Lineage and what folding destroys are
    closures: `Reach`, characterized by the steps that lead somewhere (`ReachSteps`,
    `ReachClosed`, `ReachWithin`).
13. There too, `LiveRefsHolds`: on top of `OwnInv`, what was destroyed while the parser
    works are queries that were nobody's, with the attributes they own (`Gone`), and no
    semantic value holds any of it (`LiveInv`), so that nothing left refers to it
    (`GoneSafe`). An operation that is folded destroys the closure of its operands, which
    is such a set (`ClosureGone`) and apart from what other values hold (`HeldApart`).
14. There too, `ScopesInStepHolds`: `Stepped` restates the property for any stack of
    semantic values, counts the pushes among them (`Pushing`) and is inductive on top of
    `OwnInv`: a scope is pushed or popped with the value that opened it.
15. There too, `LeavesNothingHolds`. That nothing is destroyed twice does not say that
    everything is destroyed once: `LeaveInv`, on top of the two invariants, does.
    `Rooted`: a query or an attribute is claimed by another object or held by the parser
    or the client, a compound is in the context's list, and a compound with bound
    attributes has an attribute that iterates over it or is under construction.
    `Ranked`: claims lead upwards, so that there is no cycle; of what would be left, the
    highest would have an owner that is left too (`RankGrows`: a reduction puts what it
    makes on top). `Destroyed`: what is gone left nothing of what it owned, and took
    nothing that something else owns; the query of a bound attribute goes only after an
    iterator over its compound. `GivenThere`: the compound the client gave stays. The
    exception in the property is in the proof where the code has it: an iterator that was
    never made does not destroy the queries of its compound (`NeverIteratedIs`).

**Contexts** (the assumptions of `Context`; `NullAssumption` says that
the constant that stands for nothing is not a name, a call, or a value).

16. `Context_proofs.tla`. A step of the context is a step of each registry, or leaves it
    alone (`StepOfEach`), so that each has an invariant of its own (`TypesInv`,
    `ConvertersInv`, `FunctionsInv`, `ConstantsInv`) and `EachRegistry` holds: a
    behaviour of a context is one of each table in it. `TablesInOrderHolds`,
    `DefinedIsSeenHolds`, `MeaningsStayHolds` (what a name means is read from the nearest
    table that defines it, `NearestName`, and an addition is either behind that table
    or nearer, `CodesGrow`), `FoundStaysHolds` and `OverloadsHolds` follow. For the
    converters it is proved that any array can be arranged by `qsort` (`SortExists`) and
    that the halving loop of `bsearch` ends, and finds a record of a sorted array if and
    only if there is one (`SearchExists`, `SearchFinds`, `BsearchFinds`), for arrays of
    any length.

**Aggregates** (`MaxLenAssumption`, `FunctionsAssumption`, `SampleAssumption`,
`RoundedAssumption`, `SignaturesAssumption` of `Aggregate`).

17. `Aggregate_proofs.tla`, `ResultOfArgumentsHolds` and `StopsExactlyThereHolds`. The
    reference folds over the set of all results, the code over one after another.
    `Aggregated` relates the accumulator to any set of results taken so far; it holds of
    none (`AggregatedNone`), is kept by the operation (`AggregatedOne`: wrapping at every
    step is wrapping once, `Wrapping`) and, of all results, gives the reference
    (`AggregatedAll`). That a fold over a set does not depend on the order, so that it
    can be taken apart by the result at hand rather than by CHOOSE, is `FoldedFolds` and
    `SameFold`. `AggInv` says which results were taken: the first of the arguments
    before the one at hand, then all that the queries have gone past. The minimum and
    maximum of `double` and the maximum of `float`, whose neutral elements are none
    (`StartsNeutral`, and the disagreements above), return a value that bounds the results
    and is one of them or what the accumulator began with (`Extreme`). That a mean stops
    at a number of values and a sum of which there is no quotient is read from the same
    relation, since it gives both.

Induction. The library's induction theorems cannot be used, but a least counterexample
can: that every set of numbers has a least element (`LeastNumber`, `LeastElement`, from the
well-foundedness of `<`), and every set of finite sets a least one (`SubsetInduction`),
are instances of well-founded sets, and carry the proofs about `qsort`, `bsearch`, `Reach`,
folds and the walks of the table.

Model-checked only: liveness (that calls return, `Enumerates` with its fairness,
`CallsReturn`, `EvaluationEnds`, `KnownReturns`), since the prover has no rule for
ENABLED; what a flat view shows (`ViewNamesResult`), which compares the view with a
recursive function of all the chains of the query; nested queries (`Delivers` and
`StopsForArguments`), whose module walks trees by recursive operators, of which the prover
knows nothing.

## Plan

Written: the chain, products, the hash table, aggregates, the interfaces of links
(operations, nested queries, iterators), keys, the C++ wrapper, the table of results, four
registries and the compiler with the ownership of what it creates, with the theorems
above. What would come next:

1. A proof of `ViewNamesResult`: on top of `KeysRunInv`, what the loops of a view have
   passed are the typed links before the place they are at.
2. Custom and variadic data of a context and its stack of errors; the arena of
   `allocator.c`; the values of literals; the look-up of evaluators in `operations.cc`.
3. Liveness of the interfaces composed: that a call of a chain of nested queries returns
   when those inside do.

The modules take over what others leave to their environment: `CollectionIterator`,
`NestedQuery` and `BoundCompound` justify the contract of an interface in `QueryChain`,
`QueryKeys` its key list, and `QueryChain` the promise of a query that `BoundCompound`,
`ArithOperation`, `Aggregate` and `QueryCursor` rest on.

## Not modelled

Formatting (printing, the text of CSV cells, error messages), the parser's tables, the
tables of generated operators and the look-up of their evaluators, selections' text, labels,
the arena (its blocks are kept apart by one comparison), the quality of random numbers, the
registration of compounds and functions by C++ templates, which runs once before any
query, the build, and sources that are not compiled (`src/query.cc`, `*.xxx`). Failing
allocations are modelled in the hash table, converters and keys; elsewhere the code asserts
or does not test them.
