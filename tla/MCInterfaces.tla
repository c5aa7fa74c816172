----------------------------- MODULE MCInterfaces -----------------------------
(***************************************************************************)
(* The interfaces a link may have, apart from those with modules of their  *)
(* own (BoundCompound, Aggregate).  They share nothing: each behaviour     *)
(* uses one, and the variables of the others are NULL.                     *)
(***************************************************************************)
EXTENDS Interfaces

CONSTANT Fan

VARIABLES program, size, st, got, event, over, mixed, crashed

nestedVars == <<program, size, st, got, event, over, mixed, crashed>>
-----------------------------------------------------------------------------
(* Elements of an array, of a multimap, and pointers of which one is NULL. *)
Item(k, isNull) == [key |-> k, null |-> isNull]
MCContents ==
  {<<>>, <<Item(0, FALSE)>>,
   <<Item(0, FALSE), Item(1, FALSE), Item(2, FALSE)>>,
   <<Item(5, FALSE), Item(5, FALSE), Item(1, FALSE)>>,
   <<Item(1, TRUE), Item(2, FALSE)>>,
   <<Item(0, FALSE), Item(1, TRUE), Item(2, FALSE)>>}

(* One of the results is zero. *)
MCNoQuotient == LET zero == CHOOSE v \in Values : TRUE IN Values \X {zero}

MCSelections == {{}, {1}, {0, 2}, {5}}
-----------------------------------------------------------------------------
Link(kind, id, sub, n) == [kind |-> kind, id |-> id, sub |-> sub, n |-> n]
X(n) == Link("member", "x", <<>>, n)
Y(n) == Link("member", "y", <<>>, n)
V(n) == Link("value", "v", <<>>, n)
Forward(c, n) == Link("forward", "", <<c>>, n)
ForwardScalar(c, n) == Link("scalar", "", <<c>>, n)
Filter(c, n) == Link("filter", "", <<c>>, n)
Function(args, n) == Link("function", 2, args, n)

(* Queries two and three deep; the last but one has an attribute in its    *)
(* filter and behind it, the last are two queries of one attribute.        *)
MCPrograms ==
  {<<<<X(1), Forward(<<X(2), Y(3)>>, 4), Y(5)>>>>,
   <<<<Forward(<<Forward(<<X(1), Y(2)>>, 3)>>, 4), X(5)>>>>,
   <<<<X(1), Filter(<<Y(2), V(3)>>, 4), Y(5)>>>>,
   <<<<X(1), ForwardScalar(<<Filter(<<V(2)>>, 3), V(4)>>, 5)>>>>,
   <<<<X(1), Function(<<<<V(2)>>,
                        <<ForwardScalar(<<Filter(<<Y(3), V(4)>>, 5), V(6)>>, 7)>>>>, 8)>>>>,
   <<<<X(1), Function(<<<<V(2)>>>>, 3)>>>>,
   <<<<X(1), Filter(<<Forward(<<Y(2)>>, 3), V(4)>>, 5), Forward(<<Y(2)>>, 6)>>>>,
   <<<<Forward(<<X(1)>>, 2), Y(3)>>, <<Forward(<<X(1)>>, 4), V(5)>>>>}

Nested == INSTANCE NestedQuery
  WITH Programs <- MCPrograms, Attributes <- {"x", "y", "v"}, Events <- {1, 2}
-----------------------------------------------------------------------------
NoOperation ==
  /\ shape = NULL /\ unary = NULL /\ divides = NULL /\ arg = NULL /\ made = NULL /\ serves = NULL
  /\ at = NULL /\ scalar = NULL /\ stopped = NULL /\ delivered = NULL

NoIterator ==
  /\ member = NULL /\ items = NULL /\ state = NULL /\ holder = NULL /\ sel = NULL
  /\ pos = NULL /\ cell = NULL /\ last = NULL /\ yielded = NULL

NoNested ==
  /\ program = NULL /\ size = NULL /\ st = NULL /\ got = NULL /\ event = NULL
  /\ over = NULL /\ mixed = NULL /\ crashed = NULL

MCInit ==
  \/ used = "operation" /\ Init /\ NoIterator /\ NoNested
  \/ used = "iterator" /\ Iterators!Init /\ NoOperation /\ NoNested
  \/ used = "nested" /\ Nested!Init /\ NoOperation /\ NoIterator

MCNext ==
  /\ UNCHANGED used
  /\ \/ used = "operation" /\ Next /\ UNCHANGED <<iteratorVars, nestedVars>>
     \/ used = "iterator" /\ Iterators!Next /\ UNCHANGED <<operationVars, nestedVars>>
     \/ used = "nested" /\ Nested!Next /\ UNCHANGED <<operationVars, iteratorVars>>

MCSpec == MCInit /\ [][MCNext]_<<operationVars, iteratorVars, nestedVars, used>>

(* NestedQuery: a query delivers the results of its own event.             *)
Delivers == used = "nested" => Nested!Delivers
(* NestedQuery: only a function with too few arguments ends the program.   *)
StopsForArguments == used = "nested" => Nested!StopsForArguments
==============================================================================
