------------------------------- MODULE Aggregate -------------------------------
(***************************************************************************)
(* The aggregating functions: src/funcs/monoids.c (sum, product, min, max, *)
(* all, any, count, mean) and src/funcs/len.c (len, empty).  A function is *)
(* a scalar attribute whose reset evaluates a whole query per argument:    *)
(* first each argument is reset and its first result taken, then each is   *)
(* run to its end.  The accumulator is dynamic data of the link: created   *)
(* at the first reset, from uninitialized memory, and used for all later   *)
(* events.                                                                 *)
(*                                                                         *)
(* An argument is a query and keeps the promise of QueryEnumeration: it is *)
(* the sequence of its results on an owner.  Integers keep their width;    *)
(* "float" and "double" are the positions of a few of their values in      *)
(* their order, so that sums, products and means of them are left out.     *)
(***************************************************************************)
EXTENDS Integers, SequencesExt

CONSTANTS Owners,     \* the data the function is applied to
          MaxLen,     \* bound on the results of one argument
          Functions,  \* names of the functions
          Signatures, \* tuples of the types of the arguments' results
          Sample,     \* Sample[t]: values of type t that occur in the data
          Rounded(_, _, _), \* Rounded(u, t, v): v of type u as a floating t
          NULL

ASSUME MaxLenAssumption == MaxLen \in Nat
ASSUME FunctionsAssumption ==
  Functions \subseteq {"sum", "prod", "min", "max", "all", "any", "count",
                       "mean", "len", "empty"}

(* "int" stands for the signed integers, of a width the operations keep,   *)
(* "uint" for uint64_t, the type that count results in.  A "double" is     *)
(* made of a sign and two halves of DoubleHalf values.                     *)
IntMax == 1
UIntMax == 7
FloatMax == 3
DoubleHalf == 4
Types == {"bool", "int", "uint", "float", "double"}
Real == {"float", "double"}
Top == [bool |-> 1, int |-> IntMax, uint |-> UIntMax, float |-> FloatMax,
        double |-> DoubleHalf * DoubleHalf - 1]
Bottom(t) == IF t = "int" THEN -IntMax - 1 ELSE IF t \in Real THEN -Top[t] ELSE 0
NumbersOf(t) == Bottom(t)..Top[t]
Rank == [bool |-> 0, int |-> 1, uint |-> 2, float |-> 3, double |-> 4]

Abs(n) == IF n < 0 THEN -n ELSE n

(* FLT_MAX and FLT_MIN.  The latter is the least positive normal number.   *)
FltMax == FloatMax
FltMin == 1

ASSUME SampleAssumption ==
  \A t \in Types : Sample[t] \subseteq NumbersOf(t)
ASSUME RoundedAssumption ==
  \A u \in Types, t \in Real : \A v \in Sample[u] : Rounded(u, t, v) \in NumbersOf(t)
ASSUME SignaturesAssumption == Signatures \subseteq Seq(Types) \ {<<>>}

VARIABLES
  fn,      \* the function
  sig,     \* the types of its arguments
  arg,     \* arg[d][i]: the results of argument i on owner d
  made,    \* the dynamic data exists
  acc,     \* SMADynamicData_t.result: value, and the counter of mean
  serves,  \* serves[i]: the owner argument i was last reset on, or NULL
  at,      \* at[i]: the number of its result at hand
  pc, i,   \* the loop and the argument at hand
  given,   \* the owner of the last call
  keyed,   \* a key cell was passed
  out      \* what the last call returned

defs == <<fn, sig, arg>>
queries == <<serves, at>>
vars == <<fn, sig, arg, made, acc, serves, at, pc, i, given, keyed, out>>

Arg == DOMAIN sig
Monoid == fn \notin {"len", "empty"}
Logic == fn \in {"all", "any", "count"}

(* The type the arguments are promoted or converted to: bool for the       *)
(* logical functions, otherwise the widest.                                *)
ArgType == IF Logic \/ ~Monoid THEN "bool"
           ELSE CHOOSE t \in Range(sig) : \A u \in Range(sig) : Rank[t] >= Rank[u]

ResultType == IF fn = "count" THEN "uint" ELSE ArgType

(* What the constructors refuse: logical arguments of an arithmetic        *)
(* function, more than one argument of len and empty.                      *)
Accepts(f, s) ==
  /\ f \in {"len", "empty"} => Len(s) = 1
  /\ f \in {"sum", "prod", "min", "max", "mean"} => "bool" \notin Range(s)

(* Left out: a float is its place in the order, and has no sum.            *)
Modelled(f, s) == f \in {"sum", "prod", "mean"} => Range(s) \cap Real = {}

Converted(k) == Monoid /\ sig[k] # ArgType

HasTarget(k) == sig[k] # ResultType

(* The number of an integer type that n is cut to, modulo its size.        *)
WrapTo(t, n) == Bottom(t) + ((n - Bottom(t)) % (Top[t] - Bottom(t) + 1))

(* Converter<T1, T2>::convert: a negative number becomes a large unsigned  *)
(* one, and a floating number may be another than the integer.             *)
Convert(u, t, v) == IF t = "bool" THEN (IF v # 0 THEN 1 ELSE 0)
                    ELSE IF t \in Real THEN Rounded(u, t, v) ELSE WrapTo(t, v)

Value(k, v) == IF Converted(k) THEN Convert(sig[k], ArgType, v) ELSE v

Places == {"idle", "create", "neutral", "reset", "get",
           "noTarget", "notAList", "noQuotient"}

Numbers == UNION {NumbersOf(t) : t \in Types} \cup 0..(MaxLen * Len(sig))

TypeOK ==
  /\ fn \in Functions /\ sig \in Signatures /\ Accepts(fn, sig) /\ Modelled(fn, sig)
  /\ \A d \in Owners : \A k \in Arg : arg[d][k] \in BoundedSeq(Sample[sig[k]], MaxLen)
  /\ made \in BOOLEAN /\ keyed \in BOOLEAN
  /\ acc \in [v : Numbers, c : 0..(MaxLen * Len(sig))]
  /\ serves \in [Arg -> Owners \cup {NULL}]
  /\ at \in [Arg -> 0..(MaxLen + 1)]
  /\ pc \in Places
  /\ i \in Arg
  /\ given \in Owners \cup {NULL}
  /\ out \in Numbers \cup {NULL}

Init ==
  /\ fn \in Functions /\ sig \in {s \in Signatures : Accepts(fn, s) /\ Modelled(fn, s)}
  /\ arg \in [Owners -> {a \in [Arg -> UNION {BoundedSeq(Sample[t], MaxLen) : t \in Types}] :
                           \A k \in Arg : Range(a[k]) \subseteq Sample[sig[k]]}]
  /\ made = FALSE /\ acc = [v |-> 0, c |-> 0]
  /\ serves = [k \in Arg |-> NULL] /\ at = [k \in Arg |-> 0]
  /\ pc = "idle" /\ i = 1 /\ given = NULL /\ keyed = FALSE /\ out = NULL
-----------------------------------------------------------------------------
(***************************************************************************)
(* The monoids: neutral element, operation, result.                        *)
(***************************************************************************)
Wrap(n) == WrapTo(ResultType, n)

(* The neutral element; of a double only the lower half is written, as a   *)
(* float.                                                                  *)
NeutralValue ==
  CASE fn \in {"sum", "any", "count", "mean", "len"} -> 0
    [] fn \in {"prod", "all", "empty"} -> 1
    [] fn = "min" -> IF ResultType \in Real THEN FltMax ELSE Top[ResultType]
    [] fn = "max" -> IF ResultType \in Real THEN FltMin ELSE Bottom(ResultType)
Stored(old, new) ==
  IF ResultType = "double" /\ fn \in {"min", "max"}
  THEN LET bits == (Abs(old) \div DoubleHalf) * DoubleHalf + new
       IN  IF old < 0 THEN -bits ELSE bits
  ELSE new

(* Mutant: the counter of the mean is not reset. *)
NeutralKeepsCount(a) == [v |-> Stored(a.v, NeutralValue), c |-> a.c]

Neutral(a) == [v |-> Stored(a.v, NeutralValue), c |-> 0]

Operation(a, x) ==
  [v |-> CASE fn \in {"sum", "mean"} -> Wrap(a.v + x)
           [] fn = "prod" -> Wrap(a.v * x)
           [] fn = "min" -> IF a.v > x THEN x ELSE a.v
           [] fn = "max" -> IF a.v < x THEN x ELSE a.v
           [] fn = "all" -> a.v * x
           [] fn = "any" -> IF a.v + x > 0 THEN 1 ELSE 0
           [] fn = "count" -> a.v + x
           [] fn = "len" -> a.v + 1
           [] fn = "empty" -> 0,
   c |-> IF fn = "mean" THEN a.c + 1 ELSE a.c]

DefinedForEmpty == fn \in {"count", "len", "empty"}

(* Integers are divided towards zero.                                      *)
Quotient(n, m) == LET q == Abs(n) \div Abs(m) IN IF (n < 0) = (m < 0) THEN q ELSE -q

(* The counter is converted to the type of the result before the division, *)
(* so that a multiple of its size is no divisor, and one less is -1, of    *)
(* which the least signed number has no quotient.  (The last is so from    *)
(* int32_t on: narrower types are divided as int, and are not told apart.) *)
NoQuotient(a) ==
  /\ fn = "mean" /\ a.c # 0
  /\ Wrap(a.c) = 0 \/ (Wrap(a.c) = -1 /\ a.v = Bottom(ResultType))
Result(a) == IF fn # "mean" THEN a.v
             ELSE IF a.c = 0 THEN 0 ELSE Quotient(a.v, Wrap(a.c))
-----------------------------------------------------------------------------
(* The chain resets the link of the function, on the datum at hand, with   *)
(* the key cell of the link or without.  The cell was reserved as an empty *)
(* one: the attribute is created without a callback that reserves a key.   *)
CallReset(d, k) ==
  /\ pc = "idle"
  /\ given' = d /\ keyed' = k /\ out' = NULL
  /\ pc' = IF made THEN "neutral" ELSE "create"
  /\ UNCHANGED <<defs, queries, made, acc, i>>

(* _monoid__new_dyn_data and _len_empty__new_dyn_data.  An argument of the *)
(* type of the result gets no target for conversions, and is asserted not  *)
(* to need one.                                                            *)
NewDynData ==
  /\ pc = "create"
  /\ \E v \in NumbersOf(ResultType) : acc' = [v |-> v, c |-> 0]
  /\ IF Monoid /\ \E k \in Arg : Converted(k) /\ ~HasTarget(k)
     THEN pc' = "noTarget" /\ UNCHANGED made
     ELSE pc' = "neutral" /\ made' = TRUE
  /\ UNCHANGED <<defs, queries, i, given, keyed, out>>

(* Mutant: the accumulator is not reset for a new event. *)
SetNeutralOnce ==
  /\ pc = "neutral"
  /\ acc' = IF \A k \in Arg : serves[k] = NULL THEN Neutral(acc) ELSE acc
  /\ pc' = "reset" /\ i' = 1
  /\ UNCHANGED <<defs, queries, made, given, keyed, out>>

SetNeutral ==
  /\ pc = "neutral"
  /\ acc' = Neutral(acc)
  /\ pc' = "reset" /\ i' = 1
  /\ UNCHANGED <<defs, queries, made, given, keyed, out>>

ReturnNothing == pc' = "idle" /\ i' = 1 /\ UNCHANGED out

Return(a) == /\ i' = 1
             /\ IF NoQuotient(a) THEN pc' = "noQuotient" /\ UNCHANGED out
                                 ELSE pc' = "idle" /\ out' = Result(a)

Size(d, k) == Len(arg[d][k])
Take(k, n) == acc' = Operation(acc, Value(k, arg[given][k][n]))

(* One turn of the first loop of _monoid__reset, or the only reset of      *)
(* _len__reset and _empty__reset.                                          *)
ResetArg ==
  /\ pc = "reset" /\ ~keyed
  /\ serves' = [serves EXCEPT ![i] = given]
  /\ at' = [at EXCEPT ![i] = 1]
  /\ \/ /\ Size(given, i) = 0 /\ UNCHANGED acc
        /\ IF DefinedForEmpty THEN Return(acc) ELSE ReturnNothing
     \/ /\ Size(given, i) > 0 /\ Take(i, 1)
        /\ IF fn = "empty" THEN Return(acc')
           ELSE IF i = Len(sig) THEN pc' = "get" /\ i' = 1 /\ UNCHANGED out
           ELSE i' = i + 1 /\ UNCHANGED <<pc, out>>
  /\ UNCHANGED <<defs, made, given, keyed>>

(* The cell of the function's link is passed on as a list of keys.         *)
ResetArgKeyed ==
  /\ pc = "reset" /\ keyed
  /\ pc' = "notAList"
  /\ UNCHANGED <<defs, queries, made, acc, i, given, keyed, out>>

(* Mutant: an argument that ran dry is asked for ever. *)
GetArgInsists ==
  /\ pc = "get"
  /\ \/ /\ at[i] < Size(serves[i], i)
        /\ at' = [at EXCEPT ![i] = @ + 1]
        /\ Take(i, at'[i])
     \/ /\ at[i] >= Size(serves[i], i)
        /\ at' = [at EXCEPT ![i] = Size(serves[i], i) + 1]
        /\ UNCHANGED acc
  /\ UNCHANGED <<defs, serves, made, given, keyed, pc, i, out>>

(* One turn of the loop over the further results of an argument.           *)
GetArg ==
  /\ pc = "get"
  /\ \/ /\ at[i] < Size(serves[i], i)
        /\ at' = [at EXCEPT ![i] = @ + 1]
        /\ acc' = Operation(acc, Value(i, arg[serves[i]][i][at'[i]]))
        /\ UNCHANGED <<pc, i, out>>
     \/ /\ at[i] >= Size(serves[i], i)
        /\ at' = [at EXCEPT ![i] = Size(serves[i], i) + 1]
        /\ UNCHANGED acc
        /\ IF i = Len(sig) THEN Return(acc) ELSE i' = i + 1 /\ UNCHANGED <<pc, out>>
  /\ UNCHANGED <<defs, serves, made, given, keyed>>
-----------------------------------------------------------------------------
Step == NewDynData \/ SetNeutral \/ ResetArg \/ ResetArgKeyed \/ GetArg

Next == \/ \E d \in Owners, k \in BOOLEAN : CallReset(d, k)
        \/ Step

(* A call runs to its end: nothing in it waits for anything. *)
Spec == Init /\ [][Next]_vars /\ WF_vars(Step)
-----------------------------------------------------------------------------
(***************************************************************************)
(* Properties.                                                             *)
(***************************************************************************)

(* What the function is of the results of its arguments on d, taken        *)
(* together as a bag.                                                      *)
Results(d) == {<<k, n>> : k \in Arg, n \in 1..MaxLen} \cap
              UNION {{k} \X (1..Size(d, k)) : k \in Arg}
Of(d, p) == Value(p[1], arg[d][p[1]][p[2]])
Total(d) == MapThenSumSet(LAMBDA p : Of(d, p), Results(d))
Product(d) == MapThenFoldSet(LAMBDA x, y : x * y, 1, LAMBDA p : Of(d, p),
                             LAMBDA s : CHOOSE p \in s : TRUE, Results(d))
Reference(d) ==
  LET vals == {Of(d, p) : p \in Results(d)} IN
  CASE fn = "sum" -> Wrap(Total(d))
    [] fn = "prod" -> Wrap(Product(d))
    [] fn = "min" -> Min(vals)
    [] fn = "max" -> Max(vals)
    [] fn = "all" -> IF 0 \in vals THEN 0 ELSE 1
    [] fn = "any" -> IF vals \subseteq {0} THEN 0 ELSE 1
    [] fn = "count" -> Cardinality({p \in Results(d) : Of(d, p) # 0})
    [] fn = "mean" -> Quotient(Wrap(Total(d)), Wrap(Cardinality(Results(d))))
    [] fn = "len" -> Cardinality(Results(d))
    [] fn = "empty" -> IF Results(d) = {} THEN 1 ELSE 0

HasEmpty(d) == \E k \in Arg : Size(d, k) = 0
Finished == pc = "idle" /\ given # NULL

(* The neutral elements of min and max are none for a double, of which     *)
(* half is stored, and for the maximum of floating numbers, which starts   *)
(* from the least positive one.                                            *)
StartsNeutral == /\ fn = "min" => ResultType # "double"
                 /\ fn = "max" => ResultType \notin Real
IsStart(n) == NeutralValue = IF ResultType = "double" THEN Abs(n) % DoubleHalf ELSE n
Extreme(d, n) ==
  LET vals == {Of(d, p) : p \in Results(d)} IN
  /\ n \in vals \/ IsStart(n)
  /\ \A v \in vals : IF fn = "min" THEN n <= v ELSE n >= v

(* An evaluation takes each result of each argument of its own owner once, *)
(* as the type of the result has it, whatever was evaluated before, and    *)
(* however it ended; with an empty argument there is no result, save for   *)
(* the functions that are defined for an empty set.  A count that ends at  *)
(* an empty argument among others has counted some of the results, none of *)
(* them twice and none of another event.  Where the extremes do not start  *)
(* from a neutral element, the result may be what they did start from, in  *)
(* a double whatever its other half was, but it is never passed by any of  *)
(* the arguments' results.                                                 *)
ResultOfArguments ==
  Finished =>
    IF HasEmpty(given) /\ ~DefinedForEmpty THEN out = NULL
    ELSE IF fn = "count" /\ HasEmpty(given) /\ Results(given) # {}
    THEN out \in 0..Reference(given)
    ELSE IF StartsNeutral THEN out = Reference(given)
    ELSE Extreme(given, out)

(* Whether an evaluation ends the program is decided by the definition, the *)
(* results on its own owner and the call alone, and by nothing that was    *)
(* evaluated before: a count takes results of its own type; the mean's     *)
(* number of values is a multiple of the size of its type, or their sum is *)
(* the least number where the number of values becomes -1; or a key is     *)
(* passed.                                                                 *)
CountsCounts == fn = "count" /\ "uint" \in Range(sig)
NoMean(d) ==
  /\ fn = "mean" /\ ~HasEmpty(d)
  /\ LET n == Wrap(Cardinality(Results(d))) IN
       n = 0 \/ (n = -1 /\ Wrap(Total(d)) = Bottom(ResultType))
StopsExactlyThere ==
  /\ pc = "noTarget" => CountsCounts
  /\ pc = "noQuotient" => NoMean(given)
  /\ pc = "notAList" => keyed
  /\ Finished => ~CountsCounts /\ ~NoMean(given) /\ ~keyed

(* Every evaluation ends. *)
Ended == pc \in {"idle", "noTarget", "notAList", "noQuotient"}
EvaluationEnds == (pc # "idle") ~> Ended
===============================================================================
