---------------------------- MODULE QueryCompiler ----------------------------
(***************************************************************************)
(* The compilation of a query: the semantic actions of the grammar         *)
(* (hdql.y) with the attribute definitions, virtual compounds and queries  *)
(* they create (src/attr-def.c, src/compound.cc, src/query.c), and the way *)
(* out: the destruction of the query and of the context it was compiled in *)
(* (src/context.cc).                                                       *)
(*                                                                         *)
(* The parser's stack of semantic values is sem; an action pushes the      *)
(* tokens of a production that carry no semantics of their own, or reduces *)
(* a production.  Parentheses only order reductions.  The heap is append-  *)
(* only, what is destroyed is in freed.  A query object is a whole chain:  *)
(* hdql_query_append merges the nodes of one chain into another.           *)
(* Allocations succeed.                                                    *)
(***************************************************************************)
EXTENDS Naturals, SequencesExt, FiniteSetsExt

CONSTANTS Names,       \* identifiers of the expression
          x, h,        \* the attributes of the root compound: a scalar, and a
                       \*   collection of compounds of the root's own type
          MaxDepth,    \* HDQL_COMPOUNDS_STACK_MAX_DEPTH
          MaxObjects,  \* bound on the objects of an expression
          MaxChain,    \* bound on the nodes of a chain that is extended
          MaxArgs      \* bound on the arguments of a function

ASSUME NamesAssumption == x # h /\ {x, h} \cap Names = {}
ASSUME MaxDepthAssumption == MaxDepth \in Nat \ {0}

VARIABLES
  heap,     \* every object ever allocated, by its number
  freed,    \* numbers of those destroyed
  listed,   \* hdql_Context.virtualCompounds
  scopes,   \* Workspace.compoundStack
  overflow, \* a push onto compoundStack was refused and the refusal ignored
  sem,      \* semantic values of the parser
  rc,       \* what the parser returns; "aborted" by an assertion
  result,   \* Workspace.query, the client's after the parsing; 0 for none
  iterated, \* collections of bound compounds that created their iterator
  context   \* the context: live, being destroyed, gone, or memory corrupted

parser == <<scopes, overflow, sem>>
client == <<result, iterated, context>>
vars == <<heap, freed, listed, scopes, overflow, sem, rc, result, iterated, context>>
-----------------------------------------------------------------------------
(***************************************************************************)
(* Objects.  An attribute's definition data are queries it destroys with   *)
(* itself, except for "bound", whose query is only remembered.  top is     *)
(* what hdql_attr_def_top_attr leads to: a forwarded query is complete     *)
(* when the attribute is created.                                          *)
(***************************************************************************)
Compound(parent, attrs) == [kind |-> "compound", parent |-> parent, attrs |-> attrs]

Attr(sort, atomic, collection, type, data, top) ==
  [kind |-> "attr", sort |-> sort, atomic |-> atomic, collection |-> collection,
   static |-> sort = "static", type |-> type, data |-> data, top |-> top]

(* Mutant: the new chain owns its attribute, whoever defined it. *)
ChainOwns(a, owned) == [kind |-> "query", links |-> <<[attr |-> a, owned |-> TRUE]>>]

Chain(a, owned) == [kind |-> "query", links |-> <<[attr |-> a, owned |-> owned]>>]

Given == <<Compound(0, [n \in {x, h} |-> IF n = x THEN 2 ELSE 3]),
           Attr("member", TRUE, FALSE, 0, <<>>, 2),
           Attr("member", FALSE, TRUE, 1, <<>>, 3)>>

Live == DOMAIN heap \ freed
LiveOf(kind) == {o \in Live : heap[o].kind = kind}

(* hdql_query_top_attr, hdql_query_is_fully_scalar: a forwarding attribute *)
(* is a collection unless its query is fully scalar.                       *)
TopAttr(q) == heap[heap[Last(heap[q].links).attr].top]
FullyScalar(q) == \A l \in Range(heap[q].links) : ~heap[l.attr].collection
IsCompound(a) == ~a.static /\ ~a.atomic

(* What the objects of S lead to, where f[o] is one step on from o.        *)
Reach(f, S) == LET seen[n \in Nat] ==
                     IF n = 0 THEN S
                     ELSE LET s == seen[n - 1] IN s \cup UNION {f[o] : o \in s}
               IN seen[Cardinality(DOMAIN f)]

(* A compound and those it is based on; parents are older. *)
Lineage(c) == Reach([o \in DOMAIN heap |->
                       IF heap[o].kind = "compound" THEN {heap[o].parent} \ {0} ELSE {}], {c})

(* hdql_compound_get_attr: the nearest definition, 0 if there is none. *)
Lookup(c, n) == LET has == {d \in Lineage(c) : n \in DOMAIN heap[d].attrs}
                IN IF has = {} THEN 0 ELSE heap[Max(has)].attrs[n]

IsBound(hp, c) == \E a \in Range(hp[c].attrs) : hp[a].sort = "bound"
BoundQueries(c) == {heap[a].data[1] : a \in {b \in Range(heap[c].attrs) : heap[b].sort = "bound"}}

(* Mutant: a node destroys its attribute without a look at the flag. *)
OwnedAttrsAll(q) == {l.attr : l \in Range(heap[q].links)}

OwnedAttrs(q) == {l.attr : l \in {k \in Range(heap[q].links) : k.owned}}

(* What is destroyed with an object: the attributes a node owns and the    *)
(* bound queries of its iterator, the definition data of an attribute, the *)
(* attributes of a virtual compound.                                       *)
OwnedBy(o) ==
  CASE heap[o].kind = "query" ->
         OwnedAttrs(o)
         \cup UNION {BoundQueries(heap[l.attr].type) :
                      l \in {k \in Range(heap[o].links) : k.attr \in iterated}}
    [] heap[o].kind = "attr" -> IF heap[o].sort = "bound" THEN {} ELSE Range(heap[o].data)
    [] heap[o].kind = "compound" -> Range(heap[o].attrs)

Closure(S) == Reach([o \in DOMAIN heap |-> OwnedBy(o)], S)
-----------------------------------------------------------------------------
Init ==
  /\ heap = Given /\ freed = {} /\ listed = <<>>
  /\ scopes = <<[compound |-> 1, pos |-> 0, bound |-> FALSE]>>
  /\ overflow = FALSE
  /\ sem = <<>> /\ rc = "parsing"
  /\ result = 0 /\ iterated = {} /\ context = "live"

(* The bound: operands and brackets are added only while there is room for *)
(* what completes the constructs begun.  Every object counts, every node   *)
(* of a chain, and literals, operations and calls three times, so that     *)
(* scopes may be deeper than arithmetics.                                  *)
Weight(o) == CASE heap[o].kind = "query" -> Len(heap[o].links)
               [] heap[o].kind = "attr" /\ heap[o].sort \in {"static", "op", "function"} -> 3
               [] OTHER -> 1
Begun(item) == CASE item.is \in {"op", "call"} -> 4
                 [] item.is \in {"open", "name"} -> 2
                 [] OTHER -> 0
Size == FoldSet(LAMBDA o, n : n + Weight(o), 0, DOMAIN heap)
        + FoldSet(LAMBDA i, n : n + Begun(sem[i]), 0, DOMAIN sem)
Room(more) == Size + more < MaxObjects

Scope == Last(scopes)
Top == Last(sem)
Below(n) == SubSeq(sem, 1, Len(sem) - n)
Item(n) == sem[Len(sem) - n]
IsItem(n, is) == Len(sem) > n /\ Item(n).is = is

Query(q, path) == [is |-> "query", q |-> q, path |-> path]

(* An expression may start here, or is complete. *)
Starts ==
  rc = "parsing" /\ (sem # <<>> => Top.is \in {"op", "call", "name", "colon"}) /\ Room(0)
Complete == IsItem(0, "query")
Path == Complete /\ Top.path

(* The workspace is gone when the parser returns. *)
Leave(code) ==
  rc' = code /\ sem' = <<>> /\ scopes' = <<>> /\ overflow' = FALSE
Stop(code) == Leave(code) /\ UNCHANGED client
Fail == Stop("error") /\ UNCHANGED <<heap, freed, listed>>

(* The tail of most reductions: new objects and the semantic value. *)
Reduce(below, value, objects) ==
  /\ heap' = heap \o objects /\ sem' = Append(below, value)
  /\ UNCHANGED <<freed, listed, scopes, overflow, rc, client>>

Shift(item) ==
  /\ Room(Begun(item)) /\ sem' = Append(sem, item)
  /\ UNCHANGED <<heap, freed, listed, scopes, overflow, rc, client>>

(* Mutant: hdql_query_set_transient_subject_ownership is forgotten. *)
WrappedUnowned(attr) == <<attr, Chain(Len(heap) + 1, FALSE)>>

(* A query of its own for a new attribute, which it owns. *)
Wrapped(attr) == <<attr, Chain(Len(heap) + 1, TRUE)>>
WrappedId == Len(heap) + 2
Self == Len(heap) + 1
-----------------------------------------------------------------------------
(***************************************************************************)
(* Literals and attributes.                                                *)
(***************************************************************************)
Literal ==
  /\ Starts
  /\ Reduce(sem, Query(WrappedId, FALSE),
            Wrapped(Attr("static", TRUE, FALSE, 0, <<>>, Self)))

(* A selection needs a collection; its text an interface that compiles it, *)
(* which forwarding attributes have not.                                   *)
Selectable(a, selection) ==
  /\ a # 0
  /\ selection # "none" => heap[a].collection
  /\ selection = "text" => heap[a].sort = "member"

Selections == {"none", "label", "text"}
Attributes == Names \cup {x, h}

Member ==
  /\ Starts
  /\ \E n \in Attributes, selection \in Selections :
       LET a == Lookup(Scope.compound, n)
       IN \/ /\ Selectable(a, selection)
             /\ Reduce(sem, Query(Self, TRUE), <<Chain(a, FALSE)>>)
          \/ (~Selectable(a, selection) \/ selection = "text") /\ Fail

(* _resolve_query_top_as_compound: 0 if the query results in no compound.  *)
Resolve(q, n) == IF TopAttr(q).atomic THEN 0 ELSE Lookup(TopAttr(q).type, n)

(* `query.name': the node is appended to the chain on the stack. *)
Extend ==
  /\ Path /\ Len(heap[Top.q].links) < MaxChain /\ Room(0)
  /\ \E n \in Attributes, selection \in Selections :
       LET a == Resolve(Top.q, n)
       IN \/ /\ Selectable(a, selection)
             /\ heap' = [heap EXCEPT ![Top.q].links =
                           Append(@, [attr |-> a, owned |-> FALSE])]
             /\ UNCHANGED <<freed, listed, parser, rc, client>>
          \/ (~Selectable(a, selection) \/ selection = "text") /\ Fail
-----------------------------------------------------------------------------
(***************************************************************************)
(* Operators and functions.  Which operand types have an evaluator, when   *)
(* an evaluator fails and which overload takes the arguments is left open. *)
(***************************************************************************)
Operator ==
  Complete /\ Shift([is |-> "op"])

Operands(args) == [i \in DOMAIN args |-> args[i].q]

(* Constant operands are evaluated at once and destroyed, the others become *)
(* the definition data of the operation.                                    *)
Operation(below, args) ==
  LET qs == Operands(args)
      scalar == {q \in Range(qs) : FullyScalar(q)}
  IN \/ Fail
     \/ /\ \A q \in Range(qs) : ~IsCompound(TopAttr(q))
        /\ Cardinality(Range(qs) \ scalar) <= 1
        /\ IF \A q \in Range(qs) : TopAttr(q).static
           THEN /\ heap' = heap \o Wrapped(Attr("static", TRUE, FALSE, 0, <<>>, Self))
                /\ freed' = freed \cup Closure(Range(qs))
                /\ sem' = Append(below, Query(WrappedId, FALSE))
                /\ UNCHANGED <<listed, scopes, overflow, rc, client>>
           ELSE Reduce(below, Query(WrappedId, FALSE),
                       Wrapped(Attr("op", TRUE, Range(qs) # scalar, 0, qs, Self)))

EndOperation ==
  Complete /\ IsItem(1, "op") /\ Operation(Below(3), <<Item(2), Top>>)

Unary ==
  Complete /\ Room(0) /\ Operation(Below(1), <<Top>>)

Call ==
  Starts /\ Shift([is |-> "call", args |-> <<>>])

EndArgument ==
  /\ Complete /\ IsItem(1, "call") /\ Len(Item(1).args) < MaxArgs
  /\ Reduce(Below(2), [is |-> "call", args |-> <<Top.q>> \o Item(1).args], <<>>)

EndCall ==
  /\ IsItem(0, "call") /\ Top.args # <<>>
  /\ \/ Reduce(Below(1), Query(WrappedId, FALSE),
               Wrapped(Attr("function", TRUE, FALSE, 0, Top.args, Self)))
     \/ /\ freed' = freed \cup Closure(Range(Top.args))
        /\ Stop("error") /\ UNCHANGED <<heap, listed>>
-----------------------------------------------------------------------------
(***************************************************************************)
(* Scopes.  `query {' pushes the compound that the query results in, a     *)
(* scope of its own does not push anything.                                *)
(***************************************************************************)
Push(c) == Append(scopes, [compound |-> c, pos |-> 0, bound |-> FALSE])
Full == Len(scopes) = MaxDepth

(* Mutant: the scope of a filter is not popped. *)
PoppedNever == scopes

Popped == IF Len(scopes) > 1 THEN Front(scopes) ELSE scopes

OpenOn ==
  /\ Path /\ Room(2)
  /\ IF TopAttr(Top.q).atomic \/ Full THEN Fail
     ELSE /\ scopes' = Push(TopAttr(Top.q).type)
          /\ sem' = Append(Below(1), [is |-> "open", q |-> Top.q])
          /\ UNCHANGED <<heap, freed, listed, overflow, rc, client>>

Open ==
  Starts /\ Shift([is |-> "open", q |-> 0])

(* name 0: positional *)
Name(n, bind) ==
  /\ \/ IsItem(0, "open")
     \/ IsItem(0, "def") /\ Top.named = (n # 0)
  /\ Shift([is |-> "name", n |-> n, bind |-> bind])

(* The attribute that stands for a query in a virtual compound forwards to *)
(* the query, or is bound to it.                                           *)
Forwarding(q) ==
  Attr("forward", TopAttr(q).atomic, ~FullyScalar(q), 0, <<q>>,
       heap[Last(heap[q].links).attr].top)

Bound(self, q) ==
  [Attr("bound", TopAttr(q).atomic, FALSE, TopAttr(q).type, <<q>>, self)
     EXCEPT !.static = TopAttr(q).static]

Definition(self, q, bind) == IF bind THEN Bound(self, q) ELSE Forwarding(q)

(* _vcompound_def_start: the new virtual compound takes the place of the   *)
(* scope's.  When the first attribute is refused the compound is destroyed. *)
StartCompound(below, n, q, bind) ==
  LET name == IF n = 0 THEN 1 ELSE n
  IN /\ listed' = Append(listed, Self)
     /\ IF bind /\ FullyScalar(q)
        THEN /\ heap' = Append(heap, Compound(Scope.compound, <<>>))
             /\ freed' = freed \cup {Self}
             /\ Stop("error")
        ELSE /\ heap' = heap \o <<Compound(Scope.compound, [m \in {name} |-> Self + 1]),
                                  Definition(Self + 1, q, bind)>>
             /\ scopes' = Append(Front(scopes),
                                 [compound |-> Self, pos |-> IF n = 0 THEN 2 ELSE 0,
                                  bound |-> bind])
             /\ sem' = Append(below, [is |-> "def", c |-> Self, named |-> n # 0])
             /\ UNCHANGED <<freed, overflow, rc, client>>

(* hdql_compound_add_attr: a name that is taken keeps its attribute. *)
Extended(attrs, name, a) ==
  [m \in DOMAIN attrs \cup {name} |-> IF m \in DOMAIN attrs THEN attrs[m] ELSE a]

(* _vcompound_append_with_query for the attributes after the first. *)
AppendAttribute(below, n, q, bind) ==
  LET def == Last(below)
      name == IF n = 0 THEN Scope.pos ELSE n
  IN /\ UNCHANGED <<freed, listed>>
     /\ IF bind /\ FullyScalar(q) THEN Stop("error") /\ UNCHANGED heap
        ELSE /\ heap' = [heap EXCEPT ![def.c].attrs = Extended(@, name, Self)]
                        \o <<Definition(Self, q, bind)>>
             /\ IF name \in DOMAIN heap[def.c].attrs THEN Stop("error")
                ELSE /\ scopes' = Append(Front(scopes),
                                    [Scope EXCEPT !.pos = IF n = 0 THEN @ + 1 ELSE @,
                                                  !.bound = @ \/ bind])
                     /\ sem' = below
                     /\ UNCHANGED <<overflow, rc, client>>

EndDefinition ==
  /\ Complete /\ IsItem(1, "name")
  /\ LET name == Item(1)
     IN IF IsItem(2, "open") THEN StartCompound(Below(2), name.n, Top.q, name.bind)
        ELSE AppendAttribute(Below(2), name.n, Top.q, name.bind)

(* The colon before a filter: after definitions their compound is pushed   *)
(* once more, whether there is room or not.                                *)
Colon ==
  \/ IsItem(0, "open") /\ Shift([is |-> "colon", c |-> 0])
  \/ /\ IsItem(0, "def")
     /\ scopes' = IF Full THEN scopes ELSE Push(Top.c)
     /\ overflow' = (overflow \/ Full)
     /\ sem' = Append(Below(1), [is |-> "colon", c |-> Top.c])
     /\ UNCHANGED <<heap, freed, listed, rc, client>>

(* `}', with the compound c of object heap hp, the filter f (0: none) and  *)
(* the scopes sc as the reduction of the definitions left them: the query  *)
(* that results in the compound is appended to the one before the scope.   *)
(* A build without assertions goes on where the flag of the scope is not   *)
(* that of the compound.                                                   *)
Close(below, open, c, f, hp, sc) ==
  LET id == Len(hp) + 1
      bound == IsBound(hp, c)
      filter == IF f = 0 THEN <<>> ELSE <<f>>
      attr == Attr(IF bound THEN "product" ELSE "scope", FALSE, bound, c, filter, id)
      on == open.q # 0
  IN \/ /\ bound # Last(sc).bound
        /\ heap' = hp /\ Stop("aborted")
     \/ /\ ~bound /\ f # 0 /\ TopAttr(f).collection
        /\ heap' = hp /\ Stop("error")
     \/ /\ ~bound /\ f # 0 => ~TopAttr(f).collection
        /\ IF on /\ Len(sc) = 1
           THEN heap' = hp \o <<attr, Chain(id, TRUE)>> /\ Stop("error")
           ELSE /\ heap' = IF on
                           THEN [hp EXCEPT ![open.q].links =
                                   Append(@, [attr |-> id, owned |-> TRUE])] \o <<attr>>
                           ELSE hp \o <<attr, Chain(id, TRUE)>>
                /\ scopes' = IF on THEN Front(sc) ELSE sc
                /\ sem' = Append(below, Query(IF on THEN open.q ELSE id + 1, TRUE))
                /\ UNCHANGED <<overflow, rc, client>>

(* The definitions alone, definitions and filter, a filter alone: the      *)
(* latter makes a virtual compound without attributes.                     *)
CloseScope ==
  /\ UNCHANGED freed
  /\ \/ /\ IsItem(0, "def") /\ UNCHANGED listed
        /\ Close(Below(2), Item(1), Top.c, 0, heap, scopes)
     \/ /\ Complete /\ IsItem(1, "colon") /\ Item(1).c # 0 /\ UNCHANGED listed
        /\ Close(Below(3), Item(2), Item(1).c, Top.q, heap, Popped)
     \/ /\ Complete /\ IsItem(1, "colon") /\ Item(1).c = 0
        /\ listed' = Append(listed, Self)
        /\ Close(Below(3), Item(2), Self, Top.q,
                 Append(heap, Compound(Scope.compound, <<>>)), scopes)

Accept ==
  /\ Len(sem) = 1 /\ Complete
  /\ result' = Top.q /\ Leave("ok")
  /\ UNCHANGED <<heap, freed, listed, iterated, context>>

(* Semantic values are not destroyed. *)
SyntaxError == rc = "parsing" /\ Fail

Parse ==
  \/ Accept \/ SyntaxError
  \/ Member \/ Extend \/ Literal \/ Unary \/ Operator \/ EndOperation
  \/ Call \/ EndArgument \/ EndCall
  \/ OpenOn \/ Open \/ Colon \/ CloseScope
  \/ \E n \in Names \cup {0}, bind \in BOOLEAN : Name(n, bind)
  \/ EndDefinition
-----------------------------------------------------------------------------
(***************************************************************************)
(* The client: evaluates the query, destroys it and then the context       *)
(* (Query::~Query of src/helpers/query.cc).                                *)
(***************************************************************************)
(* What an evaluation of the query may come across. *)
Uses(o) ==
  OwnedBy(o) \cup (IF heap[o].kind = "query" THEN {l.attr : l \in Range(heap[o].links)} ELSE {})

Reached == Reach([o \in DOMAIN heap |-> Uses(o)], {result})

Iterate ==
  /\ result # 0
  /\ \E p \in Reached : /\ heap[p].kind = "attr" /\ heap[p].sort = "product"
                        /\ p \notin iterated
                        /\ iterated' = iterated \cup {p}
  /\ UNCHANGED <<heap, freed, listed, parser, rc, result, context>>

DestroyQuery ==
  /\ result # 0
  /\ freed' = freed \cup Closure({result})
  /\ result' = 0
  /\ UNCHANGED <<heap, listed, parser, rc, iterated, context>>

DestroyContext ==
  /\ rc \in {"ok", "error"} /\ result = 0 /\ context = "live"
  /\ context' = "unwinding"
  /\ UNCHANGED <<heap, freed, listed, parser, rc, result, iterated>>

(* Compounds are destroyed from the last to the first, the attributes of   *)
(* one in the order of its hash map.  A node's attribute is read when the  *)
(* node is destroyed: freed memory may still hold what it held.            *)
Touched(S) == {l.attr : l \in UNION {Range(heap[q].links) :
                                      q \in {o \in S : heap[o].kind = "query"}}}

Corrupt == context' = "corrupt" /\ UNCHANGED <<heap, freed, listed, parser, rc, result, iterated>>

UnwindAttribute ==
  /\ context = "unwinding" /\ listed # <<>>
  /\ Last(listed) \notin freed
  /\ \E a \in Range(heap[Last(listed)].attrs) \ freed :
       LET gone == Closure({a})
       IN \/ Touched(gone) \cap freed # {} /\ Corrupt
          \/ /\ freed' = freed \cup gone
             /\ UNCHANGED <<heap, listed, parser, rc, client>>

UnwindCompound ==
  /\ context = "unwinding" /\ listed # <<>>
  /\ \/ Last(listed) \in freed /\ Corrupt
     \/ /\ Last(listed) \notin freed
        /\ Range(heap[Last(listed)].attrs) \subseteq freed
        /\ freed' = freed \cup {Last(listed)} /\ listed' = Front(listed)
        /\ UNCHANGED <<heap, parser, rc, client>>

ContextGone ==
  /\ context = "unwinding" /\ listed = <<>>
  /\ context' = "gone"
  /\ UNCHANGED <<heap, freed, listed, parser, rc, result, iterated>>

Next == \/ Parse
        \/ Iterate \/ DestroyQuery \/ DestroyContext
        \/ UnwindAttribute \/ UnwindCompound \/ ContextGone

Spec == Init /\ [][Next]_vars
-----------------------------------------------------------------------------
(* Who else would destroy object o, beside other objects. *)
Holders(o) ==
  {<<"sem", i>> : i \in {j \in DOMAIN sem :
     \/ sem[j].is \in {"query", "open"} /\ sem[j].q = o
     \/ sem[j].is = "call" /\ o \in Range(sem[j].args)}}
  \cup {<<"listed", i>> : i \in {j \in DOMAIN listed : listed[j] = o}}
  \cup (IF result = o THEN {<<"client">>} ELSE {})

(* Ownership: nothing is destroyed twice by two of its users, whatever the *)
(* expression, the errors in it and the evaluations of the result are      *)
(* (HDQL_QUERY_OWNS_SUBJECT, transient attributes, iterators).             *)
OneOwner ==
  LET owned == [p \in Live |-> OwnedBy(p)]
  IN \A o \in Live \ DOMAIN Given :
       Cardinality({p \in Live : o \in owned[p]}) + Cardinality(Holders(o)) <= 1

(* While the context is there, a live object refers to live ones only:     *)
(* folding and failing reductions destroy nothing that an attribute, a     *)
(* node, a compound or the stack of scopes still names.  The query a bound *)
(* attribute remembers lives until the iterator over it is destroyed.      *)
References(o) ==
  CASE heap[o].kind = "query" -> {l.attr : l \in Range(heap[o].links)}
    [] heap[o].kind = "attr" ->
         (IF heap[o].type = 0 THEN {} ELSE {heap[o].type}) \cup {heap[o].top}
         \cup (IF heap[o].sort = "bound" /\ result = 0 THEN {} ELSE Range(heap[o].data))
    [] heap[o].kind = "compound" ->
         Range(heap[o].attrs) \cup (IF heap[o].parent = 0 THEN {} ELSE {heap[o].parent})

LiveRefs ==
  context = "live" =>
    /\ \A o \in Live : References(o) \cap freed = {}
    /\ rc = "parsing" => \A s \in Range(scopes) : s.compound \notin freed
    /\ rc = "ok" => Range(listed) \cap freed = {}

(* The scopes pushed by the item at place i of the stack and those below. *)
Pushes(i) == {j \in 1..i : \/ sem[j].is = "open" /\ sem[j].q # 0
                           \/ sem[j].is = "colon" /\ sem[j].c # 0}

(* compoundStack follows the braces and the filters of the expression, as  *)
(* long as no push is refused, and the names defined so far in an open     *)
(* scope are known in it: its place on the stack holds the compound under  *)
(* definition or one based on it, whatever was opened and closed inside.   *)
ScopesInStep ==
  rc = "parsing" /\ ~overflow =>
    /\ Len(scopes) = 1 + Cardinality(Pushes(Len(sem)))
    /\ \A i \in DOMAIN sem :
         sem[i].is \in {"def", "colon"} /\ sem[i].c # 0 =>
           /\ Len(scopes) > Cardinality(Pushes(i))
           /\ sem[i].c \in Lineage(scopes[1 + Cardinality(Pushes(i))].compound)

(* A compiled query leaves nothing behind when it and its context are      *)
(* destroyed, except for bound queries whose collection was never reset:   *)
(* only an iterator destroys them (bound-value.c:328).                     *)
NeverIterated ==
  UNION {BoundQueries(heap[p].type) :
         p \in {q \in DOMAIN heap : /\ heap[q].kind = "attr" /\ heap[q].sort = "product"
                                   /\ q \notin iterated}}

LeavesNothing ==
  rc = "ok" /\ context = "gone" => Live = 1..3 \cup Closure(NeverIterated)

(* "Unwinding them backwards should prevent double free" (context.cc:84):  *)
(* nothing the destruction of a context touches was destroyed before.      *)
UnwindsInOrder == context # "corrupt"
=============================================================================
