--------------------------- MODULE ArithOperation ---------------------------
(***************************************************************************)
(* The interfaces of an arithmetic operation on one or two queries:        *)
(* src/ifaces/arith-op-as-scalar.c when both have one result,              *)
(* src/ifaces/arith-op-as-collection.c when one of them is a collection.   *)
(* An argument keeps the promise of QueryEnumeration: it is the sequence   *)
(* of its results on an owner.  A result is the pair of the operands that  *)
(* went into it.                                                           *)
(***************************************************************************)
EXTENDS Integers, SequencesExt

CONSTANTS Owners,  \* the data the operation is applied to
          Values,  \* results of the arguments
          NoQuotient, \* operands of an integer division that has no result: a
                      \* divisor that is zero, or the least number and minus one
          MaxLen,  \* bound on the results of the collection
          NULL

ASSUME MaxLenAssumption == MaxLen \in Nat \ {0}
ASSUME NoQuotientAssumption == NoQuotient \subseteq Values \X Values
ASSUME NULLAssumption == NULL \notin Owners \cup Values

VARIABLES
  shape,     \* "scalar", or the side of the collection
  unary,     \* there is one argument only
  divides,   \* the operator is / or % of integers
  arg,       \* arg[d][k]: the results of argument k on owner d
  made,      \* the iterator, or the dynamic data, exists
  serves,    \* the owner of the last reset, or NULL
  at,        \* the number of the collection's result at hand
  scalar,    \* scalarDatum: the result of the other argument, or NULL
  stopped,   \* an operator was applied to operands that have no result
  delivered  \* what the reset and the yields since then returned

defs == <<shape, unary, divides, arg>>
vars == <<shape, unary, divides, arg, made, serves, at, scalar, stopped, delivered>>

Shapes == {"scalar", "left", "right"}
Left == 1
Right == 2
Collection == IF shape = "right" THEN Right ELSE Left
Other == 3 - Collection
AtMost(k) == IF shape # "scalar" /\ k = Collection THEN MaxLen ELSE 1

TypeOK ==
  /\ shape \in Shapes /\ unary \in BOOLEAN /\ (unary => shape # "right")
  /\ divides \in BOOLEAN /\ (divides => ~unary)
  /\ \A d \in Owners, k \in {Left, Right} : arg[d][k] \in BoundedSeq(Values, AtMost(k))
  /\ made \in BOOLEAN /\ stopped \in BOOLEAN
  /\ serves \in Owners \cup {NULL}
  /\ at \in 0..(MaxLen + 1)
  /\ scalar \in Values \cup {NULL}
  /\ delivered \in BoundedSeq((Values \cup {NULL}) \X (Values \cup {NULL}), MaxLen)

Init ==
  /\ shape \in Shapes /\ unary \in BOOLEAN /\ (unary => shape # "right")
  /\ divides \in BOOLEAN /\ (divides => ~unary)
  /\ arg \in [Owners -> BoundedSeq(Values, AtMost(Left)) \X BoundedSeq(Values, AtMost(Right))]
  /\ made = FALSE /\ serves = NULL /\ at = 0 /\ scalar = NULL
  /\ stopped = FALSE /\ delivered = <<>>
-----------------------------------------------------------------------------
Size(d, k) == Len(arg[d][k])
Result(d, k, n) == IF n \in 1..Size(d, k) THEN arg[d][k][n] ELSE NULL
Operands(c, s) == IF Collection = Left THEN <<c, s>> ELSE <<s, c>>

(* The generated operators assert that a binary one has both operands, or  *)
(* read them; a unary one reads its only operand.                          *)
Missing(p) == p[Left] = NULL \/ (~unary /\ p[Right] = NULL)

(* An integer is divided without a look at the divisor.                    *)
Fails(p) == Missing(p) \/ (divides /\ p \in NoQuotient)

Apply(p, kept) ==
  IF Fails(p) THEN stopped' = TRUE /\ UNCHANGED delivered
              ELSE delivered' = Append(kept, p) /\ UNCHANGED stopped

(* Mutant: the scalar argument is evaluated with the iterator's creation.  *)
ScalarOnce(d) == IF made THEN scalar ELSE IF unary THEN NULL ELSE Result(d, Other, 1)

Scalar(d) == IF unary THEN NULL ELSE Result(d, Other, 1)

(* Creation at the first reset.  The scalar interface resets each argument *)
(* twice, and keeps no operand; no test is made whether the arguments      *)
(* resulted in anything.                                                   *)
Reset(d) ==
  /\ ~stopped
  /\ made' = TRUE /\ serves' = d /\ at' = 1
  /\ scalar' = IF shape = "scalar" THEN NULL ELSE Scalar(d)
  /\ Apply(Operands(Result(d, Collection, 1), Scalar(d)), <<>>)
  /\ UNCHANGED defs

(* The collection is asked for its next result; nothing is applied to NULL *)
(* here.  Nobody yields from the scalar interface.                         *)
Yield ==
  /\ ~stopped /\ shape # "scalar" /\ made
  /\ at' = IF at <= Size(serves, Collection) THEN at + 1 ELSE at
  /\ IF Result(serves, Collection, at') = NULL THEN UNCHANGED <<stopped, delivered>>
     ELSE Apply(Operands(Result(serves, Collection, at'), scalar), delivered)
  /\ UNCHANGED <<defs, made, serves, scalar>>

Next == (\E d \in Owners : Reset(d)) \/ Yield

Spec == Init /\ [][Next]_vars
-----------------------------------------------------------------------------
(***************************************************************************)
(* Properties.                                                             *)
(***************************************************************************)

(* The results since the last reset are the collection's, one by one and   *)
(* in order, each paired with the scalar of the same owner, however far    *)
(* the owners before were iterated.  The program stops at the first pair   *)
(* of this owner that has no result and at no other; an operand is missing *)
(* in a reset only: no yield of an iteration that began applies an         *)
(* operator to a missing operand, though it may divide by zero             *)
(* (arith-op-as-collection.c, operations.cc).                              *)
Paired ==
  serves # NULL =>
    LET operand == IF unary THEN NULL ELSE Result(serves, Other, 1)
        pair(n) == Operands(Result(serves, Collection, n), operand)
    IN IF stopped
       THEN /\ Fails(pair(at)) /\ \A n \in 1..(at - 1) : ~Fails(pair(n))
            /\ Missing(pair(at)) => at = 1
       ELSE /\ \A n \in DOMAIN delivered : delivered[n] = pair(n) /\ ~Fails(pair(n))
            /\ Len(delivered) =
                 (IF at <= Size(serves, Collection) THEN at ELSE Size(serves, Collection))
==============================================================================
