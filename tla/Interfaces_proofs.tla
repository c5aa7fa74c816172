------------------------- MODULE Interfaces_proofs -------------------------
(***************************************************************************)
(* Proofs about the interfaces of an operation and the iterators over a    *)
(* member, for any owners, results, elements and selections.               *)
(*                                                                         *)
(* An operation: a reset that does not stop the program has found both     *)
(* operands, so that the scalar kept is that of the owner and not NULL;    *)
(* until the next reset neither the owner nor the scalar changes, and the  *)
(* iterator moves by one with every result, so that a yield can only fail  *)
(* at a division.                                                          *)
(*                                                                         *)
(* An iterator: at every place it is on an element that is taken, or at    *)
(* the end, and what a move skips is not taken.                            *)
(***************************************************************************)
EXTENDS Interfaces, WellFoundedInduction, NaturalsInduction, TLAPS

Operand == Values \cup {NULL}

(* What Init chooses and no step changes. *)
Defined ==
  /\ shape \in Shapes /\ unary \in BOOLEAN /\ (unary => shape # "right")
  /\ \A d \in Owners, k \in {Left, Right} : arg[d][k] \in Seq(Values)

(* The operands of the n-th result on owner d.                             *)
Pair(d, n) == Operands(Result(d, Collection, n), Scalar(d))

Serving ==
  /\ serves \in Owners
  /\ at \in Nat \ {0}
  /\ stopped => /\ Fails(Pair(serves, at))
                /\ \A n \in 1..(at - 1) : ~Fails(Pair(serves, n))
                /\ Missing(Pair(serves, at)) => at = 1
  /\ ~stopped =>
       /\ shape # "scalar" => scalar = Scalar(serves)
       /\ unary \/ Scalar(serves) # NULL
       /\ delivered \in Seq(Operand \X Operand)
       /\ \A n \in DOMAIN delivered :
            delivered[n] = Pair(serves, n) /\ ~Fails(Pair(serves, n))
       /\ Len(delivered) =
            (IF at <= Size(serves, Collection) THEN at ELSE Size(serves, Collection))

Ind == /\ Defined
       /\ made => Serving
       /\ ~made => serves = NULL
-----------------------------------------------------------------------------
LEMMA Sides == Defined => /\ Collection \in {Left, Right} /\ Other \in {Left, Right}
                          /\ Collection # Other
  BY DEF Collection, Other, Left, Right

LEMMA Lengths ==
  ASSUME Defined, NEW d \in Owners, NEW k \in {Left, Right}
  PROVE  /\ Size(d, k) \in Nat
         /\ \A n \in Nat \ {0} : /\ Result(d, k, n) \in Operand
                                 /\ Result(d, k, n) # NULL <=> n <= Size(d, k)
                                 /\ n <= Size(d, k) => Result(d, k, n) = arg[d][k][n]
<1>1. arg[d][k] \in Seq(Values)
  BY DEF Defined
<1>2. Size(d, k) \in Nat /\ \A n \in 1..Size(d, k) : arg[d][k][n] \in Values
  BY <1>1 DEF Size
<1> QED
  BY <1>2, NULLAssumption DEF Result, Operand

LEMMA ScalarOf ==
  ASSUME Defined, NEW d \in Owners
  PROVE  /\ Scalar(d) \in Operand
         /\ ~unary => (Scalar(d) = NULL <=> Size(d, Other) = 0)
<1>1. 1 \in Nat \ {0}
  OBVIOUS
<1>2. /\ Size(d, Other) \in Nat
      /\ Result(d, Other, 1) \in Operand
      /\ Result(d, Other, 1) # NULL <=> 1 <= Size(d, Other)
  BY <1>1, Lengths, Sides
<1> QED
  BY <1>2 DEF Scalar, Operand

(* An operator misses what the collection or the scalar argument lacks.    *)
LEMMA MissingOf ==
  ASSUME Defined, NEW c, NEW s
  PROVE  Missing(Operands(c, s)) <=> c = NULL \/ (~unary /\ s = NULL)
<1>1. CASE Collection = Left
  BY <1>1 DEF Missing, Operands, Left, Right
<1>2. CASE Collection # Left
  <2>1. ~unary
    BY <1>2 DEF Defined, Collection
  <2> QED
    BY <1>2, <2>1 DEF Missing, Operands, Left, Right
<1> QED
  BY <1>1, <1>2

LEMMA OperandsType ==
  ASSUME NEW c \in Operand, NEW s \in Operand
  PROVE  Operands(c, s) \in Operand \X Operand
  BY DEF Operands
-----------------------------------------------------------------------------
LEMMA InitInd == Init => Ind
<1> SUFFICES ASSUME Init PROVE Ind
  OBVIOUS
<1>1. \A n \in Nat : BoundedSeq(Values, n) \subseteq Seq(Values)
  BY DEF BoundedSeq, SeqOf
<1>2. AtMost(Left) \in Nat /\ AtMost(Right) \in Nat
  BY MaxLenAssumption DEF AtMost
<1>3. \A d \in Owners : arg[d][Left] \in Seq(Values) /\ arg[d][Right] \in Seq(Values)
  <2> SUFFICES ASSUME NEW d \in Owners
               PROVE  arg[d][1] \in Seq(Values) /\ arg[d][2] \in Seq(Values)
    BY DEF Left, Right
  <2>1. arg[d] \in BoundedSeq(Values, AtMost(Left)) \X BoundedSeq(Values, AtMost(Right))
    BY DEF Init
  <2>2. BoundedSeq(Values, AtMost(Left)) \X BoundedSeq(Values, AtMost(Right))
          \subseteq Seq(Values) \X Seq(Values)
    BY <1>1, <1>2
  <2> QED
    BY <2>1, <2>2
<1> QED
  BY <1>3 DEF Init, Ind, Defined

(* Until the next reset the pairs of an owner stay what they are.          *)
LEMMA PairsStay ==
  ASSUME UNCHANGED defs
  PROVE  /\ Collection' = Collection
         /\ \A d \in Owners : /\ Scalar(d)' = Scalar(d)
                              /\ Size(d, Collection)' = Size(d, Collection)
                              /\ \A n \in Nat : /\ Pair(d, n)' = Pair(d, n)
                                                /\ Fails(Pair(d, n))' <=> Fails(Pair(d, n))
                                                /\ Missing(Pair(d, n))' <=> Missing(Pair(d, n))
BY DEF defs, Pair, Fails, Missing, Operands, Scalar, Collection, Other, Size, Result

LEMMA ResetInd ==
  ASSUME Ind, NEW d \in Owners, Reset(d)
  PROVE  Ind'
<1> DEFINE c == Result(d, Collection, 1)
           s == Scalar(d)
           p == Pair(d, 1)
<1>1. Defined /\ Defined'
  BY DEF Ind, Reset, defs, Defined
<1>2. /\ made' = TRUE /\ serves' = d /\ at' = 1 /\ UNCHANGED defs
      /\ scalar' = IF shape = "scalar" THEN NULL ELSE s
      /\ ~stopped
      /\ Apply(p, <<>>)
  BY DEF Reset, Pair
<1>3. /\ Size(d, Collection) \in Nat
      /\ c \in Operand
      /\ c # NULL <=> 1 <= Size(d, Collection)
  <2>1. 1 \in Nat \ {0}
    OBVIOUS
  <2> QED
    BY <1>1, <2>1, Lengths, Sides
<1>4. s \in Operand
  BY <1>1, ScalarOf
<1>5. Missing(p) <=> c = NULL \/ (~unary /\ s = NULL)
  BY <1>1, MissingOf DEF Pair
<1>6. /\ Scalar(d)' = s /\ shape' = shape /\ unary' = unary
      /\ Size(d, Collection)' = Size(d, Collection)
      /\ Pair(d, 1)' = p
      /\ Fails(Pair(d, 1))' <=> Fails(p)
  BY <1>2, PairsStay DEF defs
<1>7. p \in Operand \X Operand
  BY <1>3, <1>4, OperandsType DEF Pair
<1> HIDE DEF c, s, p
<1>8. CASE Fails(p)
  <2>1. stopped'
    BY <1>2, <1>8 DEF Apply
  <2>2. Serving'
    BY <1>2, <1>6, <1>8, <2>1 DEF Serving
  <2> QED
    BY <1>1, <1>2, <2>2 DEF Ind
<1>9. CASE ~Fails(p)
  <2>1. ~stopped' /\ delivered' = <<p>>
    BY <1>2, <1>9 DEF Apply
  <2>2. 1 <= Size(d, Collection) /\ (unary \/ s # NULL)
    BY <1>3, <1>5, <1>9 DEF Fails
  <2>3. /\ delivered' \in Seq(Operand \X Operand)
        /\ Len(delivered') = 1 /\ DOMAIN delivered' = {1}
        /\ delivered'[1] = p
    <3>1. Len(<<p>>) = 1 /\ DOMAIN <<p>> = 1..1
      OBVIOUS
    <3> QED
      BY <1>7, <2>1, <3>1
  <2>4. Serving'
    <3>1. (IF 1 <= Size(d, Collection) THEN 1 ELSE Size(d, Collection)) = 1
      BY <2>2
    <3> QED
      BY <1>2, <1>6, <1>9, <2>1, <2>2, <2>3, <3>1 DEF Serving
  <2> QED
    BY <1>1, <1>2, <2>4 DEF Ind
<1> QED
  BY <1>8, <1>9

LEMMA YieldInd ==
  ASSUME Ind, Yield
  PROVE  Ind'
<1> DEFINE n == IF at <= Size(serves, Collection) THEN at + 1 ELSE at
           c == Result(serves, Collection, n)
           p == Pair(serves, n)
<1>1. /\ Defined /\ Defined' /\ Serving
      /\ ~stopped /\ shape # "scalar" /\ made
      /\ at' = n
      /\ UNCHANGED <<defs, made, serves, scalar>>
      /\ IF c = NULL THEN UNCHANGED <<stopped, delivered>>
         ELSE Apply(Operands(c, scalar), delivered)
  BY DEF Ind, Yield, defs, Defined
<1>2. /\ serves \in Owners /\ at \in Nat \ {0}
      /\ scalar = Scalar(serves) /\ (unary \/ Scalar(serves) # NULL)
      /\ delivered \in Seq(Operand \X Operand)
      /\ \A m \in DOMAIN delivered :
           delivered[m] = Pair(serves, m) /\ ~Fails(Pair(serves, m))
      /\ Len(delivered) =
           (IF at <= Size(serves, Collection) THEN at ELSE Size(serves, Collection))
  BY <1>1 DEF Serving
<1>3. /\ Size(serves, Collection) \in Nat /\ n \in Nat \ {0}
      /\ c \in Operand
      /\ c # NULL <=> n <= Size(serves, Collection)
  <2>1. Size(serves, Collection) \in Nat
    BY <1>1, <1>2, Lengths, Sides
  <2>2. n \in Nat \ {0}
    BY <1>2, <2>1
  <2> HIDE DEF n
  <2> QED
    BY <1>1, <1>2, <2>1, <2>2, Lengths, Sides
<1>4. /\ Operands(c, scalar) = p
      /\ Missing(p) <=> c = NULL
      /\ p \in Operand \X Operand
  <2>1. Operands(c, scalar) = p
    BY <1>2 DEF Pair
  <2>2. Missing(Operands(c, scalar)) <=> c = NULL \/ (~unary /\ scalar = NULL)
    BY <1>1, MissingOf
  <2>3. Operands(c, scalar) \in Operand \X Operand
    BY <1>1, <1>2, <1>3, ScalarOf, OperandsType
  <2> QED
    BY <1>2, <2>1, <2>2, <2>3
<1>5. /\ Scalar(serves)' = Scalar(serves)
      /\ Size(serves, Collection)' = Size(serves, Collection)
      /\ unary' = unary /\ serves' = serves /\ shape' = shape
      /\ \A m \in Nat : /\ Pair(serves, m)' = Pair(serves, m)
                        /\ Fails(Pair(serves, m))' <=> Fails(Pair(serves, m))
                        /\ Missing(Pair(serves, m))' <=> Missing(Pair(serves, m))
  <2>1. /\ Collection' = Collection
        /\ \A d \in Owners : /\ Scalar(d)' = Scalar(d)
                             /\ Size(d, Collection)' = Size(d, Collection)
                             /\ \A m \in Nat :
                                  /\ Pair(d, m)' = Pair(d, m)
                                  /\ Fails(Pair(d, m))' <=> Fails(Pair(d, m))
                                  /\ Missing(Pair(d, m))' <=> Missing(Pair(d, m))
    BY <1>1, PairsStay
  <2>2. serves' = serves
    BY <1>1
  <2> QED
    BY <1>1, <1>2, <2>1, <2>2 DEF defs, Size, Scalar, Pair, Fails, Missing
<1> HIDE DEF n, c, p
<1>6. DOMAIN delivered \subseteq Nat
  BY <1>2
<1>7. CASE c = NULL
  <2>1. UNCHANGED <<stopped, delivered>>
    BY <1>1, <1>7
  <2>2. Len(delivered) = IF n <= Size(serves, Collection) THEN n ELSE Size(serves, Collection)
    BY <1>2, <1>3, <1>7 DEF n
  <2>3. Serving'
    BY <1>1, <1>2, <1>3, <1>5, <1>6, <2>1, <2>2 DEF Serving
  <2> QED
    BY <1>1, <2>3 DEF Ind
<1>8. c # NULL => /\ n = at + 1 /\ at <= Size(serves, Collection) /\ Len(delivered) = at
                  /\ n <= Size(serves, Collection)
  BY <1>2, <1>3 DEF n
<1>9. CASE c # NULL /\ Fails(p)
  <2>1. stopped'
    BY <1>1, <1>4, <1>9 DEF Apply
  <2>2. \A m \in 1..(n - 1) : m \in Nat /\ ~Fails(Pair(serves, m))
    BY <1>2, <1>8, <1>9
  <2>3. Serving'
    BY <1>1, <1>2, <1>3, <1>4, <1>5, <1>9, <2>1, <2>2 DEF Serving, p
  <2> QED
    BY <1>1, <2>3 DEF Ind
<1>10. CASE c # NULL /\ ~Fails(p)
  <2>1. ~stopped' /\ delivered' = Append(delivered, p)
    BY <1>1, <1>4, <1>10 DEF Apply
  <2>2. /\ delivered' \in Seq(Operand \X Operand)
        /\ Len(delivered') = n
        /\ \A m \in DOMAIN delivered' :
             /\ m \in Nat
             /\ IF m = n THEN delivered'[m] = p
                         ELSE m \in DOMAIN delivered /\ delivered'[m] = delivered[m]
    BY <1>2, <1>4, <1>8, <1>10, <2>1
  <2>3. \A m \in DOMAIN delivered' :
          m \in Nat /\ delivered'[m] = Pair(serves, m) /\ ~Fails(Pair(serves, m))
    BY <1>2, <1>10, <2>2 DEF p
  <2>4. Serving'
    BY <1>1, <1>2, <1>3, <1>5, <1>8, <1>10, <2>1, <2>2, <2>3 DEF Serving
  <2> QED
    BY <1>1, <2>4 DEF Ind
<1> QED
  BY <1>7, <1>9, <1>10

(* Operands are paired on one owner and in order, and a program stops at   *)
(* the first pair without a result, which lacks an operand in a reset only *)
(* and is otherwise a division of integers, whatever the argument queries  *)
(* result in (arith-op-as-scalar.c, arith-op-as-collection.c).             *)
THEOREM OperandsPaired == Spec => []Paired
<1>1. Ind /\ [Next]_vars => Ind'
  <2> SUFFICES ASSUME Ind, [Next]_vars PROVE Ind'
    OBVIOUS
  <2>1. CASE UNCHANGED vars
    BY <2>1 DEF vars, defs, Ind, Defined, Serving, Size, Collection, Other, Scalar,
                Result, Operands, Pair, Fails, Missing
  <2> QED
    BY <2>1, ResetInd, YieldInd DEF Next
<1>2. Ind => Paired
  BY DEF Ind, Serving, Paired, Pair, Scalar
<1> QED
  BY <1>1, <1>2, InitInd, PTL DEF Spec
-----------------------------------------------------------------------------
(* Every set of natural numbers that is not empty has a least element.     *)
LEMMA LeastPlace ==
  ASSUME NEW T, T \subseteq Nat, T # {}
  PROVE  \E m \in T : \A k \in T : m <= k
<1> DEFINE R == OpToRel(<, Nat)
<1>1. IsWellFoundedOn(R, Nat)
  BY NatLessThanWellFounded
<1>2. \A a, b \in Nat : a < b => <<a, b>> \in R
  BY DEF OpToRel
<1> HIDE DEF R
<1>3. PICK m \in T : \A k \in T : ~(<<k, m>> \in R)
  BY <1>1, WFMin
<1>4. \A k \in T : k \in Nat /\ m \in Nat /\ ~(k < m)
  BY <1>2, <1>3
<1> QED
  BY <1>3, <1>4

(* What Init chooses and no step of an iterator changes. *)
Given ==
  /\ member \in [array : BOOLEAN, selects : BOOLEAN]
  /\ items \in [Owners -> Contents]
  /\ member.array => \A o \in Owners : Iterators!IsArray(items[o]) /\ Iterators!End(o) > 1

(* Y is what is due of o up to place p. *)
Shown(Y, o, s, p) ==
  /\ Y \in Seq(Nat)
  /\ {Y[n] : n \in DOMAIN Y} = {q \in Iterators!Due(o, s) : q <= p}
  /\ \A m, n \in DOMAIN Y : m < n => Y[m] < Y[n]

(* An iterator that was reset is on an element that is taken or at the     *)
(* end.                                                                    *)
Placed ==
  /\ holder \in Owners
  /\ pos \in 1..Iterators!End(holder)
  /\ pos = Iterators!End(holder) \/ Iterators!Taken(holder, sel, pos)
  /\ Shown(yielded, holder, sel, pos)

IterInv == /\ Given
           /\ state = "reset" => Placed

LEMMA ItemsOf ==
  ASSUME Given, NEW o \in Owners
  PROVE  /\ Iterators!End(o) \in Nat \ {0}
         /\ DOMAIN items[o] = 1..(Iterators!End(o) - 1)
         /\ \A p \in 1..(Iterators!End(o) - 1) : items[o][p].null \in BOOLEAN
<1> DEFINE S == [key : Keys, null : BOOLEAN]
<1>1. items[o] \in Seq(S)
  BY ContentsAssumption DEF Given
<1>2. Len(items[o]) \in Nat /\ DOMAIN items[o] = 1..Len(items[o])
  BY <1>1
<1>3. ASSUME NEW p \in 1..Len(items[o]) PROVE items[o][p].null \in BOOLEAN
  <2>1. \A x \in S : x.null \in BOOLEAN
    OBVIOUS
  <2> HIDE DEF S
  <2>2. items[o][p] \in S
    BY <1>1
  <2> QED
    BY <2>1, <2>2
<1> QED
  BY <1>2, <1>3 DEF Iterators!End

(* The next place that is taken: all before it are not. *)
LEMMA NextPlace ==
  ASSUME Given, NEW o \in Owners, NEW s, NEW p \in 0..(Iterators!End(o) - 1)
  PROVE  LET n == Iterators!NextTaken(o, s, p)
         IN /\ n \in (p + 1)..Iterators!End(o)
            /\ n = Iterators!End(o) \/ Iterators!Taken(o, s, n)
            /\ \A k \in (p + 1)..(n - 1) : ~Iterators!Taken(o, s, k)
<1> DEFINE e == Iterators!End(o)
           T == {n \in (p + 1)..e : n = e \/ Iterators!Taken(o, s, n)}
<1>1. e \in Nat \ {0} /\ p \in Nat /\ p < e
  BY ItemsOf
<1> HIDE DEF e
<1>2. T \subseteq Nat /\ e \in T
  BY <1>1
<1>3. PICK n \in T : \A k \in T : n <= k
  BY <1>2, LeastPlace
<1>4. /\ n \in (p + 1)..e
      /\ n = e \/ Iterators!Taken(o, s, n)
      /\ \A k \in (p + 1)..(n - 1) : ~Iterators!Taken(o, s, k)
  <2>1. \A k \in (p + 1)..(n - 1) : k \in (p + 1)..e /\ ~(n <= k)
    BY <1>1, <1>3
  <2> QED
    BY <1>3, <2>1
<1> DEFINE P(m) == /\ m = Iterators!End(o) \/ Iterators!Taken(o, s, m)
                   /\ \A k \in (p + 1)..(m - 1) : ~Iterators!Taken(o, s, k)
<1>5. \E m \in (p + 1)..Iterators!End(o) : P(m)
  BY <1>4 DEF e
<1>6. Iterators!NextTaken(o, s, p) = CHOOSE m \in (p + 1)..Iterators!End(o) : P(m)
  BY DEF Iterators!NextTaken
<1> HIDE DEF P
<1>7. /\ Iterators!NextTaken(o, s, p) \in (p + 1)..Iterators!End(o)
      /\ P(Iterators!NextTaken(o, s, p))
  BY <1>5, <1>6, Zenon
<1> QED
  BY <1>7 DEF P

(* A move adds at most the place it leads to, as all that is skipped is    *)
(* not due.                                                                *)
LEMMA MoveShows ==
  ASSUME Given, NEW o \in Owners, NEW s, NEW p \in 0..(Iterators!End(o) - 1), NEW Y,
         Iterators!Due(o, s) = Iterators!Selected(o, s),
         Shown(Y, o, s, p),
         NEW n, n = Iterators!NextTaken(o, s, p),
         NEW r, r = IF n = Iterators!End(o) THEN NULL ELSE Iterators!Element(o, n)
  PROVE  Shown(IF r = NULL THEN Y ELSE Append(Y, r), o, s, n)
<1> DEFINE e == Iterators!End(o)
           D == Iterators!Due(o, s)
           Z == IF r = NULL THEN Y ELSE Append(Y, r)
<1>1. e \in Nat \ {0} /\ p \in Nat /\ p < e
  BY ItemsOf
<1>2. /\ n \in (p + 1)..e
      /\ n = e \/ Iterators!Taken(o, s, n)
      /\ \A k \in (p + 1)..(n - 1) : ~Iterators!Taken(o, s, k)
  BY NextPlace
<1>3. D = {q \in 1..(e - 1) : Iterators!Taken(o, s, q) /\ ~items[o][q].null}
  BY DEF Iterators!Selected
<1>4. r = IF n = e \/ items[o][n].null THEN NULL ELSE n
  BY DEF Iterators!Element
<1>5. NULL # n
  BY <1>1, <1>2, PlacesAssumption
<1> HIDE DEF e, D
<1>6. r # NULL => r = n /\ n \in D
  BY <1>1, <1>2, <1>3, <1>4
<1>7. r = NULL => n \notin D
  BY <1>1, <1>2, <1>3, <1>4, <1>5
<1>8. \A q \in D : q \in Nat /\ (q <= n <=> (q <= p \/ q = n))
  BY <1>1, <1>2, <1>3
<1>9. /\ Y \in Seq(Nat)
      /\ {Y[k] : k \in DOMAIN Y} = {q \in D : q <= p}
      /\ \A k, m \in DOMAIN Y : k < m => Y[k] < Y[m]
  BY DEF Shown, D
<1>10. CASE r = NULL
  <2>1. {q \in D : q <= n} = {q \in D : q <= p}
    BY <1>1, <1>2, <1>7, <1>8, <1>10
  <2> QED
    BY <1>9, <1>10, <2>1 DEF Shown, D
<1>11. CASE r # NULL
  <2>1. Z = Append(Y, n) /\ n \in Nat
    BY <1>1, <1>2, <1>6, <1>11
  <2> HIDE DEF Z
  <2>2. /\ Z \in Seq(Nat)
        /\ Len(Z) = Len(Y) + 1 /\ DOMAIN Z = 1..(Len(Y) + 1)
        /\ \A k \in 1..Len(Y) : Z[k] = Y[k]
        /\ Z[Len(Y) + 1] = n
    BY <1>9, <2>1
  <2>3. DOMAIN Y = 1..Len(Y) /\ Len(Y) \in Nat /\ \A k \in 1..Len(Y) : Y[k] \in Nat
    BY <1>9
  <2>4. {Z[k] : k \in DOMAIN Z} = {Y[k] : k \in DOMAIN Y} \cup {n}
    <3>1. DOMAIN Z = DOMAIN Y \cup {Len(Y) + 1}
      BY <2>2, <2>3
    <3> QED
      BY SMTT(30), <2>2, <2>3, <3>1
  <2>5. {q \in D : q <= n} = {q \in D : q <= p} \cup {n}
    BY <1>1, <1>2, <1>6, <1>8, <1>11
  <2>6. \A k \in 1..Len(Y) : Y[k] < n
    <3>1. \A k \in 1..Len(Y) : Y[k] \in {q \in D : q <= p}
      BY <1>9, <2>3
    <3> QED
      BY <1>1, <1>2, <3>1, <2>3
  <2>7. ASSUME NEW k \in DOMAIN Z, NEW m \in DOMAIN Z, k < m PROVE Z[k] < Z[m]
    <3>1. k \in 1..Len(Y) /\ (m \in 1..Len(Y) \/ m = Len(Y) + 1)
      BY <2>2, <2>3, <2>7
    <3> QED
      BY <1>9, <2>2, <2>3, <2>6, <2>7, <3>1
  <2>8. Shown(Z, o, s, n)
    BY <1>9, <2>2, <2>4, <2>5, <2>7 DEF Shown, D
  <2> QED
    BY <2>8 DEF Z
<1> QED
  BY <1>10, <1>11

LEMMA InitIter == Iterators!Init => IterInv
  BY DEF Iterators!Init, IterInv, Given

(* A reset starts over at the first place, wherever the iterator was. *)
LEMMA FirstShows ==
  ASSUME Given, NEW o \in Owners, NEW s,
         NEW n, n = Iterators!First(o, s),
         NEW r, r = IF member.array THEN n
                    ELSE IF n = Iterators!End(o) THEN NULL ELSE Iterators!Element(o, n)
  PROVE  /\ n \in 1..Iterators!End(o)
         /\ n = Iterators!End(o) \/ Iterators!Taken(o, s, n)
         /\ Shown(IF r = NULL THEN <<>> ELSE <<r>>, o, s, n)
<1> DEFINE e == Iterators!End(o)
<1>1. e \in Nat \ {0}
  BY ItemsOf
<1>2. n = Iterators!NextTaken(o, s, 0)
  BY DEF Iterators!First
<1>3. /\ n \in 1..e
      /\ n = e \/ Iterators!Taken(o, s, n)
      /\ \A k \in 1..(n - 1) : ~Iterators!Taken(o, s, k)
  BY <1>1, <1>2, NextPlace
<1>4. Shown(IF r = NULL THEN <<>> ELSE <<r>>, o, s, n)
  <2>1. CASE member.array /\ n = e
    <3>1. Iterators!Selected(o, s) = {}
      BY <1>1, <1>3, <2>1 DEF Iterators!Selected
    <3>2. Iterators!Due(o, s) = {e}
      BY <2>1, <3>1 DEF Iterators!Due
    <3>3. r = e /\ r # NULL
      BY <1>1, <2>1, PlacesAssumption
    <3> HIDE DEF e
    <3>4. Shown(<<e>>, o, s, e)
      BY <1>1, <3>2 DEF Shown
    <3> QED
      BY <2>1, <3>3, <3>4
  <2>2. CASE ~(member.array /\ n = e)
    <3>1. member.array => n \in 1..(e - 1) /\ ~items[o][n].null
      <4>1. member.array => \A k \in DOMAIN items[o] : ~items[o][k].null
        BY DEF Given, Iterators!IsArray
      <4>2. DOMAIN items[o] = 1..(e - 1)
        BY ItemsOf
      <4> QED
        BY <1>1, <1>3, <2>2, <4>1, <4>2
    <3>2. member.array => n \in Iterators!Selected(o, s)
      BY <1>1, <1>3, <3>1 DEF Iterators!Selected
    <3>3. Iterators!Due(o, s) = Iterators!Selected(o, s)
      BY <3>2 DEF Iterators!Due
    <3>4. r = IF n = Iterators!End(o) THEN NULL ELSE Iterators!Element(o, n)
      BY <1>1, <3>1 DEF Iterators!Element
    <3>5. \A q \in Iterators!Selected(o, s) : ~(q <= 0)
      BY <1>1 DEF Iterators!Selected
    <3>6. Shown(<<>>, o, s, 0)
      <4>1. {q \in Iterators!Due(o, s) : q <= 0} = {}
        BY <3>3, <3>5
      <4> DEFINE Y == <<>>
      <4>2. Y \in Seq(Nat) /\ DOMAIN Y = {}
        OBVIOUS
      <4> HIDE DEF Y
      <4>3. Shown(Y, o, s, 0)
        BY <4>1, <4>2 DEF Shown
      <4> QED
        BY <4>3 DEF Y
    <3>7. Shown(IF r = NULL THEN <<>> ELSE Append(<<>>, r), o, s, n)
      <4>1. 0 \in 0..(Iterators!End(o) - 1)
        BY <1>1
      <4> HIDE DEF e
      <4> QED
        BY <1>2, <3>3, <3>4, <3>6, <4>1, MoveShows
    <3>8. Append(<<>>, r) = <<r>>
      OBVIOUS
    <3> QED
      BY <3>7, <3>8
  <2> QED
    BY <2>1, <2>2
<1> QED
  BY <1>3, <1>4

(* A step that leaves the elements where they are leaves what is given.    *)
LEMMA GivenKept ==
  ASSUME Given, UNCHANGED <<member, items>>
  PROVE  Given'
BY DEF Given, Iterators!IsArray, Iterators!End

(* An iterator is placed after a step that puts it on place n of o.        *)
LEMMA PlacedAt ==
  ASSUME UNCHANGED <<member, items>>,
         NEW o \in Owners, NEW s, NEW n, NEW Y,
         holder' = o, sel' = s, pos' = n, yielded' = Y,
         n \in 1..Iterators!End(o),
         n = Iterators!End(o) \/ Iterators!Taken(o, s, n),
         Shown(Y, o, s, n)
  PROVE  Placed'
<1>1. Iterators!Due(holder, sel)' = Iterators!Due(o, s)
  BY DEF Iterators!Due, Iterators!Selected, Iterators!Taken, Iterators!End
<1>2. Iterators!End(holder)' = Iterators!End(o)
  BY DEF Iterators!End
<1>3. Iterators!Taken(holder, sel, pos)' = Iterators!Taken(o, s, n)
  BY DEF Iterators!Taken
<1>4. Shown(yielded, holder, sel, pos)'
  BY <1>1 DEF Shown
<1> QED
  BY <1>2, <1>3, <1>4 DEF Placed

LEMMA ResetIter ==
  ASSUME IterInv, NEW o \in Owners, NEW s, NEW k,
         Iterators!ResetContainer(o, s, k) \/ Iterators!ResetArray(o, s, k)
  PROVE  IterInv'
<1> DEFINE n == Iterators!First(o, s)
           r == IF member.array THEN n
                ELSE IF n = Iterators!End(o) THEN NULL ELSE Iterators!Element(o, n)
           Y == IF r = NULL THEN <<>> ELSE <<r>>
<1>1. /\ UNCHANGED <<member, items>>
      /\ holder' = o /\ sel' = s /\ pos' = n /\ last'.r = r /\ yielded' = Y
  BY DEF Iterators!ResetContainer, Iterators!ResetArray, Iterators!Reset, Iterators!Dereference
<1>2. Given
  BY DEF IterInv
<1>3. /\ n \in 1..Iterators!End(o)
      /\ n = Iterators!End(o) \/ Iterators!Taken(o, s, n)
      /\ Shown(Y, o, s, n)
  BY <1>2, FirstShows
<1> HIDE DEF n, Y
<1>4. Placed'
  BY <1>1, <1>3, PlacedAt
<1>5. Given'
  BY <1>1, <1>2, GivenKept
<1> QED
  BY <1>4, <1>5 DEF IterInv

LEMMA YieldIter ==
  ASSUME IterInv, NEW k, Iterators!Yield(k)
  PROVE  IterInv'
<1> DEFINE e == Iterators!End(holder)
           n == Iterators!NextTaken(holder, sel, pos)
           r == IF n = e THEN NULL ELSE Iterators!Element(holder, n)
           Y == IF r = NULL THEN yielded ELSE Append(yielded, r)
<1>1. UNCHANGED <<member, items, state, holder, sel>> /\ state = "reset"
  BY DEF Iterators!Yield
<1>2. Given /\ Placed
  BY <1>1 DEF IterInv
<1>3. Given'
  BY <1>1, <1>2, GivenKept
<1>4. /\ holder \in Owners /\ pos \in 1..e /\ e \in Nat \ {0}
      /\ pos = e \/ Iterators!Taken(holder, sel, pos)
      /\ Shown(yielded, holder, sel, pos)
  BY <1>2, ItemsOf DEF Placed
<1>5. CASE pos = e
  <2>1. pos' = pos /\ yielded' = yielded
    BY <1>5 DEF Iterators!Yield
  <2>2. Placed'
    BY <1>1, <1>4, <2>1, PlacedAt
  <2> QED
    BY <1>3, <2>2 DEF IterInv
<1>6. CASE pos # e
  <2>1. pos' = n /\ last'.r = r /\ yielded' = Y
    BY <1>6 DEF Iterators!Yield, Iterators!Dereference
  <2>2. pos \in 0..(e - 1)
    BY <1>4, <1>6
  <2>3. Iterators!Due(holder, sel) = Iterators!Selected(holder, sel)
    <3>1. member.array => \A p \in DOMAIN items[holder] : ~items[holder][p].null
      BY <1>2, <1>4 DEF Given, Iterators!IsArray
    <3>2. pos \in 1..(e - 1) /\ DOMAIN items[holder] = 1..(e - 1)
      BY <1>2, <1>4, <1>6, ItemsOf
    <3>3. member.array => pos \in Iterators!Selected(holder, sel)
      BY <1>4, <1>6, <3>1, <3>2 DEF Iterators!Selected
    <3> QED
      BY <3>3 DEF Iterators!Due
  <2>4. /\ n \in (pos + 1)..e
        /\ n = e \/ Iterators!Taken(holder, sel, n)
    BY <1>2, <1>4, <2>2, NextPlace
  <2>5. Shown(Y, holder, sel, n)
    BY <1>2, <1>4, <2>2, <2>3, MoveShows
  <2>6. n \in 1..e
    BY <1>4, <2>4
  <2> HIDE DEF n, Y
  <2>7. Placed'
    BY <1>1, <1>4, <2>1, <2>4, <2>5, <2>6, PlacedAt
  <2> QED
    BY <1>3, <2>7 DEF IterInv
<1> QED
  BY <1>5, <1>6

LEMMA IterStep == IterInv /\ [Iterators!Next]_iteratorVars => IterInv'
<1> SUFFICES ASSUME IterInv, [Iterators!Next]_iteratorVars PROVE IterInv'
  OBVIOUS
<1>1. ASSUME NEW o \in Owners, Iterators!NewUninitialized(o) \/ Iterators!NewAtBegin(o)
      PROVE  IterInv'
  <2>1. UNCHANGED <<member, items>> /\ state' = "new"
    BY <1>1 DEF Iterators!NewUninitialized, Iterators!NewAtBegin, Iterators!New
  <2> QED
    BY <2>1, GivenKept DEF IterInv
<1>2. ASSUME Iterators!Destroy PROVE IterInv'
  <2>1. UNCHANGED <<member, items>> /\ state' = "gone"
    BY <1>2 DEF Iterators!Destroy
  <2> QED
    BY <2>1, GivenKept DEF IterInv
<1>3. ASSUME UNCHANGED iteratorVars PROVE IterInv'
  <2>1. UNCHANGED <<member, items, state, holder, sel, pos, yielded>>
    BY <1>3 DEF iteratorVars
  <2>2. Given'
    BY <2>1, GivenKept DEF IterInv
  <2>3. Placed => Placed'
    <3>1. Placed => holder \in Owners
      BY DEF Placed
    <3> QED
      BY <2>1, <3>1, PlacedAt DEF Placed
  <2> QED
    BY <2>1, <2>2, <2>3 DEF IterInv
<1> QED
  BY <1>1, <1>2, <1>3, ResetIter, YieldIter DEF Iterators!Next

(* Whatever was iterated before, an iterator delivers since its reset the  *)
(* elements that the selection takes, in their order, and, of an array     *)
(* without any, the place behind its end (helpers/compounds.hh).           *)
THEOREM IteratorsYieldSelected == Iterators!Spec => []YieldsSelected
<1>1. IterInv => YieldsSelected
  BY DEF IterInv, Placed, Shown, YieldsSelected, Iterators!YieldsSelected
<1> QED
  BY <1>1, InitIter, IterStep, PTL DEF Iterators!Spec, Iterators!vars, iteratorVars

(* The key of the element that the last call returned, see KeyOfElement.   *)
LEMMA KeyStep ==
  IterInv /\ Iterators!KeyOfElement /\ [Iterators!Next]_iteratorVars
    => Iterators!KeyOfElement'
<1> SUFFICES ASSUME IterInv, Iterators!KeyOfElement, [Iterators!Next]_iteratorVars
             PROVE  Iterators!KeyOfElement'
  OBVIOUS
<1> USE DEF Iterators!KeyOfElement
<1>1. ASSUME NEW o \in Owners, NEW s, NEW k, Iterators!ResetContainer(o, s, k)
      PROVE  Iterators!KeyOfElement'
  <2>1. /\ UNCHANGED items /\ holder' = o
        /\ Iterators!Dereference(o, Iterators!First(o, s), k)
    BY <1>1 DEF Iterators!ResetContainer, Iterators!Reset
  <2> DEFINE n == Iterators!First(o, s)
  <2>2. n \in 1..Iterators!End(o) /\ Iterators!End(o) \in Nat
    BY FirstShows, ItemsOf DEF IterInv
  <2> HIDE DEF n
  <2>3. /\ cell' = IF k /\ n # Iterators!End(o) THEN items[o][n].key ELSE cell
        /\ last'.keyed = k /\ last'.cell = cell /\ pos' = n
        /\ last'.r = IF n = Iterators!End(o) \/ items[o][n].null THEN NULL ELSE n
    BY <2>1 DEF Iterators!Dereference, Iterators!Element, n
  <2>4. Iterators!End(holder)' = Iterators!End(o)
    BY <2>1 DEF Iterators!End
  <2> QED
    BY <2>1, <2>3, <2>4
<1>2. ASSUME NEW o \in Owners, NEW s, NEW k, Iterators!ResetArray(o, s, k)
      PROVE  Iterators!KeyOfElement'
  <2> DEFINE n == Iterators!First(o, s)
  <2>1. /\ UNCHANGED items /\ holder' = o /\ member.array
        /\ cell' = IF k THEN n - 1 ELSE cell
        /\ last'.keyed = k /\ last'.cell = cell /\ pos' = n /\ last'.r = n
    BY <1>2 DEF Iterators!ResetArray, Iterators!Reset
  <2>2. Given
    BY DEF IterInv
  <2>3. n \in 1..Iterators!End(o) /\ Iterators!End(o) \in Nat
    BY <2>2, FirstShows, ItemsOf
  <2> HIDE DEF n
  <2>4. n # Iterators!End(o) => items[o][n].key = n - 1
    <3>1. \A p \in DOMAIN items[o] : items[o][p].key = p - 1
      BY <2>1, <2>2 DEF Given, Iterators!IsArray
    <3>2. DOMAIN items[o] = 1..(Iterators!End(o) - 1)
      BY <2>2, ItemsOf
    <3> QED
      BY <2>3, <3>1, <3>2
  <2>5. Iterators!End(holder)' = Iterators!End(o)
    BY <2>1 DEF Iterators!End
  <2> QED
    BY <2>1, <2>3, <2>4, <2>5, PlacesAssumption
<1>3. ASSUME NEW k, Iterators!Yield(k) PROVE Iterators!KeyOfElement'
  <2>1. UNCHANGED <<items, holder>> /\ state = "reset"
    BY <1>3 DEF Iterators!Yield
  <2>2. Iterators!End(holder)' = Iterators!End(holder)
    BY <2>1 DEF Iterators!End
  <2>3. CASE pos = Iterators!End(holder)
    <3>1. last'.r = NULL /\ cell' = cell /\ last'.cell = cell
      BY <1>3, <2>3 DEF Iterators!Yield
    <3> QED
      BY <3>1
  <2>4. CASE pos # Iterators!End(holder)
    <3> DEFINE n == Iterators!NextTaken(holder, sel, pos)
    <3>1. Iterators!Dereference(holder, n, k)
      BY <1>3, <2>4 DEF Iterators!Yield
    <3> HIDE DEF n
    <3>2. /\ cell' = IF k /\ n # Iterators!End(holder) THEN items[holder][n].key ELSE cell
          /\ last'.keyed = k /\ last'.cell = cell /\ pos' = n
          /\ last'.r = IF n = Iterators!End(holder) \/ items[holder][n].null
                       THEN NULL ELSE n
      BY <3>1 DEF Iterators!Dereference, Iterators!Element
    <3> QED
      BY <2>1, <2>2, <3>2
  <2> QED
    BY <2>3, <2>4
<1>4. ASSUME NEW o \in Owners, Iterators!NewUninitialized(o) \/ Iterators!NewAtBegin(o)
      PROVE  Iterators!KeyOfElement'
  BY <1>4 DEF Iterators!NewUninitialized, Iterators!NewAtBegin, Iterators!New
<1>5. ASSUME Iterators!Destroy PROVE Iterators!KeyOfElement'
  BY <1>5 DEF Iterators!Destroy
<1>6. ASSUME UNCHANGED iteratorVars PROVE Iterators!KeyOfElement'
  BY <1>6 DEF iteratorVars, Iterators!End
<1> QED
  BY <1>1, <1>2, <1>3, <1>4, <1>5, <1>6 DEF Iterators!Next

(* A call that was given a key and returned an element has set the key to  *)
(* that of the element, and any other has left it (helpers/compounds.hh).  *)
THEOREM KeysOfElements == Iterators!Spec => []KeyOfElement
<1>1. Iterators!Init => Iterators!KeyOfElement
  BY DEF Iterators!Init, Iterators!KeyOfElement
<1>2. Iterators!KeyOfElement => KeyOfElement
  BY DEF KeyOfElement
<1> QED
  BY <1>1, <1>2, InitIter, IterStep, KeyStep, PTL DEF Iterators!Spec, Iterators!vars, iteratorVars

=============================================================================
