---------------------------- MODULE Aggregate_proofs ----------------------------
(***************************************************************************)
(* Proofs about Aggregate: what an evaluation returns is the function of   *)
(* the results of its arguments on its owner, and where it may stop.       *)
(*                                                                         *)
(* The accumulator is related to the set of results taken so far, by a     *)
(* fold over that set in any order; the reference folds over all results   *)
(* in the order of CHOOSE.  Induction over sets is done by a least set for *)
(* which the claim would fail.                                             *)
(***************************************************************************)
EXTENDS Aggregate, FiniteSetTheorems, WellFoundedInduction, TLAPS

(***************************************************************************)
(* Folds over finite sets.                                                 *)
(***************************************************************************)

(* What holds of the empty set, and of a set when it holds of that set     *)
(* less any one element, holds of every subset of a finite set.            *)
LEMMA SubsetInduction ==
  ASSUME NEW S, IsFiniteSet(S), NEW P, {} \in P,
         \A s \in SUBSET S : s # {} /\ (\A e \in s : s \ {e} \in P) => s \in P
  PROVE  SUBSET S \subseteq P
<1> DEFINE R == StrictSubsetOrdering(S)
           U == {s \in SUBSET S : s \notin P}
<1>1. SUFFICES ASSUME U # {} PROVE FALSE
  OBVIOUS
<1>2. IsWellFoundedOn(R, FiniteSubsetsOf(S))
  BY FS_StrictSubsetOrderingWellFounded
<1>3. U \subseteq FiniteSubsetsOf(S)
  BY FS_Subset DEF FiniteSubsetsOf
<1>4. \A s, u \in SUBSET S : s \subseteq u /\ s # u => <<s, u>> \in R
  BY DEF StrictSubsetOrdering
<1> HIDE DEF R
<1>5. PICK m \in U : \A s \in U : ~(<<s, m>> \in R)
  BY ZenonT(40), <1>1, <1>2, <1>3, WFMin
<1>6. ASSUME NEW e \in m PROVE m \ {e} \in P
  <2>1. m \ {e} \in SUBSET S /\ m \in SUBSET S /\ m \ {e} \subseteq m /\ m \ {e} # m
    BY <1>6
  <2>2. <<m \ {e}, m>> \in R
    BY <1>4, <2>1
  <2>3. m \ {e} \notin U
    BY <1>5, <2>2
  <2> QED
    BY <2>1, <2>3
<1>7. m # {} /\ m \in SUBSET S
  OBVIOUS
<1> QED
  BY <1>5, <1>6, <1>7

(* g folds op over the values that V gives to the elements of a set,       *)
(* whichever element is taken first.                                       *)
FoldsBy(op, base, V, g) ==
  /\ g \in [SUBSET DOMAIN V -> Int] /\ g[{}] = base
  /\ \A s \in SUBSET DOMAIN V : \A e \in s : g[s] = op[<<V[e], g[s \ {e}]>>]
Folded(op, base, V) == CHOOSE g : FoldsBy(op, base, V, g)

LeftCommutative(op) ==
  /\ op \in [Int \X Int -> Int]
  /\ \A a, b, c \in Int : op[<<a, op[<<b, c>>]>>] = op[<<b, op[<<a, c>>]>>]

(* The fold exists where the order does not matter: an element is added to *)
(* the fold of a smaller set.                                              *)
LEMMA FoldedFolds ==
  ASSUME NEW op, LeftCommutative(op), NEW base \in Int,
         NEW D, IsFiniteSet(D), NEW V \in [D -> Int]
  PROVE  FoldsBy(op, base, V, Folded(op, base, V))
<1> DEFINE Good(s, g) == /\ g \in [SUBSET s -> Int] /\ g[{}] = base
                         /\ \A u \in SUBSET s : \A e \in u : g[u] = op[<<V[e], g[u \ {e}]>>]
           P == {s \in SUBSET D : \E g : Good(s, g)}
<1>0. \A a, b \in Int : op[<<a, b>>] \in Int
  BY DEF LeftCommutative
<1>1. {} \in P
  <2> DEFINE g == [u \in SUBSET {} |-> base]
  <2>1. Good({}, g)
    OBVIOUS
  <2> QED
    BY <2>1
<1>2. ASSUME NEW s \in SUBSET D, s # {}, \A e \in s : s \ {e} \in P
      PROVE  s \in P
  <2>1. PICK e0 \in s : TRUE
    BY <1>2
  <2>2. PICK g0 : Good(s \ {e0}, g0)
    BY <1>2
  <2> DEFINE g == [u \in SUBSET s |-> IF e0 \in u THEN op[<<V[e0], g0[u \ {e0}]>>] ELSE g0[u]]
  <2>3. V[e0] \in Int /\ \A e \in s : V[e] \in Int
    OBVIOUS
  <2>4. \A u \in SUBSET s : u \ {e0} \in SUBSET (s \ {e0})
    OBVIOUS
  <2>5. \A u \in SUBSET (s \ {e0}) : g0[u] \in Int
    BY <2>2
  <2>6. \A u \in SUBSET s : e0 \notin u => u \in SUBSET (s \ {e0})
    OBVIOUS
  <2>7. g \in [SUBSET s -> Int]
    <3>1. ASSUME NEW u \in SUBSET s
          PROVE  (IF e0 \in u THEN op[<<V[e0], g0[u \ {e0}]>>] ELSE g0[u]) \in Int
      BY <1>0, <2>3, <2>4, <2>5, <2>6
    <3> QED
      BY <3>1
  <2>8. g[{}] = base
    BY <2>2
  <2>9. ASSUME NEW u \in SUBSET s, NEW e \in u
        PROVE  g[u] = op[<<V[e], g[u \ {e}]>>]
    <3>0. u \ {e} \in SUBSET s /\ e \in s /\ V[e] \in Int
      OBVIOUS
    <3>1. CASE e0 \notin u
      <4>1. g[u] = g0[u] /\ g[u \ {e}] = g0[u \ {e}]
        BY <3>0, <3>1
      <4> QED
        BY <2>2, <2>6, <3>1, <4>1
    <3>2. CASE e = e0
      <4>1. g[u] = op[<<V[e0], g0[u \ {e0}]>>] /\ g[u \ {e0}] = g0[u \ {e0}]
        BY <3>0, <3>2
      <4> QED
        BY <3>2, <4>1
    <3>3. CASE e0 \in u /\ e # e0
      <4> DEFINE r == g0[(u \ {e0}) \ {e}]
      <4>1. g[u] = op[<<V[e0], g0[u \ {e0}]>>]
        BY <3>3
      <4>2. g0[u \ {e0}] = op[<<V[e], r>>]
        BY <2>2, <2>4, <3>3
      <4>3. g[u \ {e}] = op[<<V[e0], g0[(u \ {e}) \ {e0}]>>]
        BY <3>0, <3>3
      <4>4. (u \ {e}) \ {e0} = (u \ {e0}) \ {e}
        OBVIOUS
      <4>5. r \in Int
        BY <2>4, <2>5, <3>0, <4>4
      <4> HIDE DEF r, g
      <4>6. g[u \ {e}] = op[<<V[e0], r>>]
        BY <4>3, <4>4 DEF r
      <4>7. op[<<V[e0], op[<<V[e], r>>]>>] = op[<<V[e], op[<<V[e0], r>>]>>]
        BY <2>3, <3>0, <4>5 DEF LeftCommutative
      <4> QED
        BY <4>1, <4>2, <4>6, <4>7
    <3> QED
      BY <3>1, <3>2, <3>3
  <2> HIDE DEF g
  <2>10. Good(s, g)
    BY <2>7, <2>8, <2>9
  <2> QED
    BY <2>10
<1> HIDE DEF P
<1>3. SUBSET D \subseteq P
  BY <1>1, <1>2, SubsetInduction
<1>4. PICK g : Good(D, g)
  BY <1>3 DEF P
<1>5. FoldsBy(op, base, V, g)
  BY <1>4 DEF FoldsBy
<1> QED
  BY <1>5 DEF Folded

(* f takes, of every set, some element as g would.                         *)
Follows(op, V, g, f) ==
  \A s \in SUBSET DOMAIN V :
    s # {} => \E e \in s : f[s \ {e}] = g[s \ {e}] => f[s] = op[<<V[e], g[s \ {e}]>>]

(* A function that agrees with a fold on one element after another is that *)
(* fold.                                                                   *)
LEMMA SameFold ==
  ASSUME NEW op, NEW base \in Int, NEW V, NEW g, FoldsBy(op, base, V, g),
         IsFiniteSet(DOMAIN V), NEW h, h[{}] = base, Follows(op, V, g, h)
  PROVE  \A s \in SUBSET DOMAIN V : h[s] = g[s]
<1> DEFINE P == {s \in SUBSET DOMAIN V : h[s] = g[s]}
<1>1. {} \in P
  BY DEF FoldsBy
<1>2. ASSUME NEW s \in SUBSET DOMAIN V, s # {}, \A e \in s : s \ {e} \in P
      PROVE  s \in P
  <2>1. PICK e \in s : h[s \ {e}] = g[s \ {e}] => h[s] = op[<<V[e], g[s \ {e}]>>]
    BY <1>2 DEF Follows
  <2>2. h[s \ {e}] = g[s \ {e}]
    BY <1>2
  <2>3. g[s] = op[<<V[e], g[s \ {e}]>>]
    BY DEF FoldsBy
  <2> QED
    BY <2>1, <2>2, <2>3
<1> HIDE DEF P
<1>3. SUBSET DOMAIN V \subseteq P
  <2>1. \A s \in SUBSET DOMAIN V : s # {} /\ (\A e \in s : s \ {e} \in P) => s \in P
    BY <1>2
  <2> QED
    BY <1>1, <2>1, SubsetInduction
<1> QED
  BY <1>3 DEF P

(* The operations of sums and products.                                    *)
Plus == [p \in Int \X Int |-> p[1] + p[2]]
Times == [p \in Int \X Int |-> p[1] * p[2]]

(* Sums and products may be taken in any order.                            *)
LEMMA PlusTimes ==
  /\ \A a, b \in Int : Plus[<<a, b>>] = a + b /\ Times[<<a, b>>] = a * b
  /\ LeftCommutative(Plus) /\ LeftCommutative(Times)
<1>1. \A a, b \in Int : Plus[<<a, b>>] = a + b
  BY DEF Plus
<1>2. \A a, b \in Int : Times[<<a, b>>] = a * b
  BY DEF Times
<1>3. Plus \in [Int \X Int -> Int]
  BY DEF Plus
<1>4. Times \in [Int \X Int -> Int]
  <2>1. \A p \in Int \X Int : p[1] * p[2] \in Int
    OBVIOUS
  <2> QED
    BY <2>1 DEF Times
<1>5. LeftCommutative(Plus)
  <2>1. ASSUME NEW a \in Int, NEW b \in Int, NEW c \in Int
        PROVE  Plus[<<a, Plus[<<b, c>>]>>] = Plus[<<b, Plus[<<a, c>>]>>]
    <3>1. b + c \in Int /\ a + c \in Int
      OBVIOUS
    <3> QED
      BY <1>1, <3>1
  <2> QED
    BY <1>3, <2>1 DEF LeftCommutative
<1>6. LeftCommutative(Times)
  <2>1. ASSUME NEW a \in Int, NEW b \in Int, NEW c \in Int
        PROVE  Times[<<a, Times[<<b, c>>]>>] = Times[<<b, Times[<<a, c>>]>>]
    <3>1. b * c \in Int /\ a * c \in Int
      OBVIOUS
    <3>2. a * (b * c) = b * (a * c)
      OBVIOUS
    <3>3. Times[<<b, c>>] = b * c /\ Times[<<a, c>>] = a * c
      BY <1>2
    <3>4. Times[<<a, b * c>>] = a * (b * c) /\ Times[<<b, a * c>>] = b * (a * c)
      BY <1>2, <3>1
    <3> QED
      BY <3>2, <3>3, <3>4
  <2> QED
    BY <1>4, <2>1 DEF LeftCommutative
<1> QED
  BY <1>1, <1>2, <1>5, <1>6

(* What the results of the arguments are taken for.                        *)
Vals(d) == [p \in Results(d) |-> Of(d, p)]

(* The library's fold takes its elements as CHOOSE gives them; the sum is  *)
(* the fold in any order.                                                  *)
LEMMA TotalFolded ==
  ASSUME NEW d, IsFiniteSet(Results(d)), Vals(d) \in [Results(d) -> Int]
  PROVE  Total(d) = Folded(Plus, 0, Vals(d))[Results(d)]
<1> DEFINE V == Vals(d)
           D == Results(d)
           g == Folded(Plus, 0, V)
           Raw(hh) == hh = [s \in SUBSET D |->
                        IF s = {} THEN 0
                        ELSE Of(d, CHOOSE x \in s : TRUE) + hh[s \ {CHOOSE x \in s : TRUE}]]
           r == CHOOSE hh : Raw(hh)
<1>1. Total(d) = r[D]
  BY DEF Total, MapThenSumSet, MapThenFoldSet
<1>2. FoldsBy(Plus, 0, V, g)
  BY PlusTimes, FoldedFolds
<1>3. DOMAIN V = D /\ IsFiniteSet(D) /\ \A p \in D : V[p] = Of(d, p) /\ V[p] \in Int
  BY DEF Vals
<1> HIDE DEF g, V, D
<1>4. g \in [SUBSET D -> Int]
  BY <1>2, <1>3 DEF FoldsBy
<1>5. ASSUME NEW s \in SUBSET D, s # {}
      PROVE  g[s] = Of(d, CHOOSE x \in s : TRUE) + g[s \ {CHOOSE x \in s : TRUE}]
  <2> DEFINE c == CHOOSE x \in s : TRUE
  <2>1. c \in s
    BY <1>5
  <2> HIDE DEF c
  <2>2. g[s] = Plus[<<V[c], g[s \ {c}]>>]
    BY <1>2, <1>3, <2>1 DEF FoldsBy
  <2>3. V[c] = Of(d, c) /\ V[c] \in Int /\ g[s \ {c}] \in Int
    BY <1>3, <1>4, <2>1
  <2>4. g[s] = Of(d, c) + g[s \ {c}]
    BY <2>2, <2>3, PlusTimes
  <2> QED
    BY <2>4 DEF c
<1>6. Raw(g)
  <2>1. \A s \in SUBSET D :
          g[s] = IF s = {} THEN 0
                 ELSE Of(d, CHOOSE x \in s : TRUE) + g[s \ {CHOOSE x \in s : TRUE}]
    BY <1>2, <1>5 DEF FoldsBy
  <2> QED
    BY <1>4, <2>1
<1>7. Raw(r)
  BY <1>6
<1> HIDE DEF r
<1>8. r[{}] = 0
  BY <1>7
<1>9. ASSUME NEW s \in SUBSET D, s # {}
      PROVE  \E e \in s : r[s \ {e}] = g[s \ {e}] => r[s] = Plus[<<V[e], g[s \ {e}]>>]
  <2> DEFINE c == CHOOSE x \in s : TRUE
  <2>1. c \in s
    BY <1>9
  <2>2. r[s] = Of(d, c) + r[s \ {c}]
    BY <1>7, <1>9
  <2> HIDE DEF c
  <2>3. V[c] = Of(d, c) /\ V[c] \in Int /\ g[s \ {c}] \in Int
    BY <1>3, <1>4, <2>1
  <2>4. r[s \ {c}] = g[s \ {c}] => r[s] = Plus[<<V[c], g[s \ {c}]>>]
    BY <2>2, <2>3, PlusTimes
  <2> QED
    BY <2>1, <2>4
<1> HIDE DEF Raw
<1>10. \A s \in SUBSET D : r[s] = g[s]
  <2>1. Follows(Plus, V, g, r)
    BY <1>3, <1>9 DEF Follows
  <2>2. IsFiniteSet(DOMAIN V)
    BY <1>3
  <2>3. \A s \in SUBSET DOMAIN V : r[s] = g[s]
    BY <1>2, <1>8, <2>1, <2>2, SameFold
  <2> QED
    BY <1>3, <2>3
<1>11. r[D] = g[D]
  BY <1>10
<1> QED
  BY <1>1, <1>11 DEF g, V, D

(* So is the product.                                                      *)
LEMMA ProductFolded ==
  ASSUME NEW d, IsFiniteSet(Results(d)), Vals(d) \in [Results(d) -> Int]
  PROVE  Product(d) = Folded(Times, 1, Vals(d))[Results(d)]
<1> DEFINE V == Vals(d)
           D == Results(d)
           g == Folded(Times, 1, V)
           Raw(hh) == hh = [s \in SUBSET D |->
                        IF s = {} THEN 1
                        ELSE Of(d, CHOOSE x \in s : TRUE) * hh[s \ {CHOOSE x \in s : TRUE}]]
           r == CHOOSE hh : Raw(hh)
<1>1. Product(d) = r[D]
  BY DEF Product, MapThenFoldSet
<1>2. FoldsBy(Times, 1, V, g)
  BY PlusTimes, FoldedFolds
<1>3. DOMAIN V = D /\ IsFiniteSet(D) /\ \A p \in D : V[p] = Of(d, p) /\ V[p] \in Int
  BY DEF Vals
<1> HIDE DEF g, V, D
<1>4. g \in [SUBSET D -> Int]
  BY <1>2, <1>3 DEF FoldsBy
<1>5. ASSUME NEW s \in SUBSET D, s # {}
      PROVE  g[s] = Of(d, CHOOSE x \in s : TRUE) * g[s \ {CHOOSE x \in s : TRUE}]
  <2> DEFINE c == CHOOSE x \in s : TRUE
  <2>1. c \in s
    BY <1>5
  <2> HIDE DEF c
  <2>2. g[s] = Times[<<V[c], g[s \ {c}]>>]
    BY <1>2, <1>3, <2>1 DEF FoldsBy
  <2>3. V[c] = Of(d, c) /\ V[c] \in Int /\ g[s \ {c}] \in Int
    BY <1>3, <1>4, <2>1
  <2>4. g[s] = Of(d, c) * g[s \ {c}]
    BY <2>2, <2>3, PlusTimes
  <2> QED
    BY <2>4 DEF c
<1>6. Raw(g)
  <2>1. \A s \in SUBSET D :
          g[s] = IF s = {} THEN 1
                 ELSE Of(d, CHOOSE x \in s : TRUE) * g[s \ {CHOOSE x \in s : TRUE}]
    BY <1>2, <1>5 DEF FoldsBy
  <2> QED
    BY <1>4, <2>1
<1>7. Raw(r)
  BY <1>6
<1> HIDE DEF r
<1>8. r[{}] = 1
  BY <1>7
<1>9. ASSUME NEW s \in SUBSET D, s # {}
      PROVE  \E e \in s : r[s \ {e}] = g[s \ {e}] => r[s] = Times[<<V[e], g[s \ {e}]>>]
  <2> DEFINE c == CHOOSE x \in s : TRUE
  <2>1. c \in s
    BY <1>9
  <2>2. r[s] = Of(d, c) * r[s \ {c}]
    BY <1>7, <1>9
  <2> HIDE DEF c
  <2>3. V[c] = Of(d, c) /\ V[c] \in Int /\ g[s \ {c}] \in Int
    BY <1>3, <1>4, <2>1
  <2>4. r[s \ {c}] = g[s \ {c}] => r[s] = Times[<<V[c], g[s \ {c}]>>]
    BY <2>2, <2>3, PlusTimes
  <2> QED
    BY <2>1, <2>4
<1> HIDE DEF Raw
<1>10. \A s \in SUBSET D : r[s] = g[s]
  <2>1. Follows(Times, V, g, r)
    BY <1>3, <1>9 DEF Follows
  <2>2. IsFiniteSet(DOMAIN V)
    BY <1>3
  <2>3. \A s \in SUBSET DOMAIN V : r[s] = g[s]
    BY <1>2, <1>8, <2>1, <2>2, SameFold
  <2> QED
    BY <1>3, <2>3
<1>11. r[D] = g[D]
  BY <1>10
<1> QED
  BY <1>1, <1>11 DEF g, V, D

(***************************************************************************)
(* Definitions, arguments and values.                                      *)
(***************************************************************************)

(* The definition is one of those the context offers, on data of its       *)
(* types.                                                                  *)
Typed ==
  /\ fn \in Functions /\ sig \in Signatures /\ Accepts(fn, sig) /\ Modelled(fn, sig)
  /\ \A d \in Owners : \A k \in Arg :
       arg[d][k] \in Seq(Sample[sig[k]]) /\ Len(arg[d][k]) <= MaxLen

(* A function has arguments, of types that there are.                      *)
LEMMA SignatureIs ==
  ASSUME Typed
  PROVE  /\ sig \in Seq(Types) /\ Len(sig) \in Nat /\ Len(sig) >= 1
         /\ Arg = 1..Len(sig) /\ 1 \in Arg
         /\ \A k \in Arg : sig[k] \in Types /\ sig[k] \in Range(sig)
         /\ \A u \in Range(sig) : u \in Types /\ \E k \in Arg : sig[k] = u
<1>1. sig \in Seq(Types) /\ sig # <<>>
  BY SignaturesAssumption DEF Typed
<1>2. Len(sig) \in Nat /\ DOMAIN sig = 1..Len(sig) /\ Len(sig) # 0
  BY <1>1
<1>3. \A k \in Arg : sig[k] \in Types
  BY <1>1 DEF Arg
<1>4. Range(sig) = {sig[k] : k \in Arg}
  BY DEF Range, Arg
<1> QED
  BY <1>1, <1>2, <1>3, <1>4 DEF Arg

(* The CHOOSE of a widest type finds one: the types are ranked.            *)
LEMMA WidestIs ==
  ASSUME NEW R, R \subseteq Types, R # {}
  PROVE  LET w == CHOOSE t \in R : \A u \in R : Rank[t] >= Rank[u]
         IN  w \in R /\ \A u \in R : Rank[w] >= Rank[u]
<1>1. /\ Rank["bool"] = 0 /\ Rank["int"] = 1 /\ Rank["uint"] = 2
      /\ Rank["float"] = 3 /\ Rank["double"] = 4
  BY DEF Rank
<1>2. \E t \in R : \A u \in R : Rank[t] >= Rank[u]
  <2>0. \A u \in R : u = "bool" \/ u = "int" \/ u = "uint" \/ u = "float" \/ u = "double"
    BY DEF Types
  <2>1. CASE "double" \in R
    <3>1. \A u \in R : Rank["double"] >= Rank[u]
      BY <1>1, <2>0, <2>1
    <3> QED
      BY <2>1, <3>1
  <2>2. CASE "double" \notin R /\ "float" \in R
    <3>1. \A u \in R : Rank["float"] >= Rank[u]
      BY <1>1, <2>0, <2>2
    <3> QED
      BY <2>2, <3>1
  <2>3. CASE "double" \notin R /\ "float" \notin R /\ "uint" \in R
    <3>1. \A u \in R : Rank["uint"] >= Rank[u]
      BY <1>1, <2>0, <2>3
    <3> QED
      BY <2>3, <3>1
  <2>4. CASE "double" \notin R /\ "float" \notin R /\ "uint" \notin R /\ "int" \in R
    <3>1. \A u \in R : Rank["int"] >= Rank[u]
      BY <1>1, <2>0, <2>4
    <3> QED
      BY <2>4, <3>1
  <2>5. CASE "double" \notin R /\ "float" \notin R /\ "uint" \notin R /\ "int" \notin R
    <3>1. "bool" \in R
      BY <2>0, <2>5
    <3>2. \A u \in R : Rank["bool"] >= Rank[u]
      BY <1>1, <2>0, <2>5
    <3> QED
      BY <2>5, <3>1, <3>2
  <2> QED
    BY <2>1, <2>2, <2>3, <2>4, <2>5
<1> QED
  BY <1>2

(* The functions that are refused truth values.                            *)
Arithmetic == fn \in {"sum", "prod", "min", "max", "mean"}

(* What the names of the functions and the constructors' checks rule out.  *)
LEMMA FunctionIs ==
  ASSUME Typed
  PROVE  /\ fn \in {"sum", "prod", "min", "max", "all", "any", "count", "mean", "len", "empty"}
         /\ Arithmetic => Monoid /\ ~Logic
         /\ ~Arithmetic => Logic \/ ~Monoid
         /\ Arithmetic => "bool" \notin Range(sig)
         /\ fn \in {"len", "empty"} => Len(sig) = 1
BY FunctionsAssumption DEF Typed, Arithmetic, Monoid, Logic, Accepts

(* The type of the result is that of an argument that is no wider than it. *)
LEMMA ResultTypeIs ==
  ASSUME Typed
  PROVE  /\ ResultType \in Types
         /\ Arithmetic => /\ ResultType \in Range(sig) /\ ResultType # "bool"
                          /\ \A u \in Range(sig) : Rank[ResultType] >= Rank[u]
         /\ Arithmetic => ArgType = ResultType
         /\ fn \in {"sum", "prod", "mean"} => ResultType \notin Real
<1>1. CASE Arithmetic
  <2>1. Range(sig) \subseteq Types /\ Range(sig) # {}
    BY SignatureIs
  <2>2. fn # "count" /\ ~Logic /\ Monoid
    BY <1>1, FunctionIs DEF Logic
  <2>3. /\ ResultType = CHOOSE t \in Range(sig) : \A u \in Range(sig) : Rank[t] >= Rank[u]
        /\ ArgType = ResultType
    BY <2>2 DEF ResultType, ArgType
  <2>4. ResultType \in Range(sig) /\ \A u \in Range(sig) : Rank[ResultType] >= Rank[u]
    BY <2>1, <2>3, WidestIs
  <2>5. fn \in {"sum", "prod", "mean"} => ResultType \notin Real
    BY <2>4 DEF Typed, Modelled
  <2> QED
    BY <1>1, <2>1, <2>3, <2>4, <2>5, FunctionIs
<1>2. CASE ~Arithmetic
  BY <1>2, FunctionIs DEF ResultType, ArgType, Types, Arithmetic
<1> QED
  BY <1>1, <1>2

(* The ranges of the types.                                                *)
LEMMA Bounds ==
  /\ Top["bool"] = 1 /\ Top["int"] = 1 /\ Top["uint"] = 7
  /\ Top["float"] = 3 /\ Top["double"] = 15
  /\ Bottom("bool") = 0 /\ Bottom("int") = -2 /\ Bottom("uint") = 0
  /\ Bottom("float") = -3 /\ Bottom("double") = -15
BY DEF Top, Bottom, Real, IntMax, UIntMax, FloatMax, DoubleHalf

(* Values are in the range of their type.                                  *)
LEMMA SampleIs ==
  \A t \in Types : \A v \in Sample[t] : v \in Int /\ Bottom(t) <= v /\ v <= Top[t]
<1> SUFFICES ASSUME NEW t \in Types, NEW v \in Sample[t]
             PROVE  v \in Int /\ Bottom(t) <= v /\ v <= Top[t]
  OBVIOUS
<1>1. v \in Bottom(t)..Top[t]
  BY SampleAssumption DEF NumbersOf
<1>2. Bottom(t) \in Int /\ Top[t] \in Int
  BY Bounds DEF Types
<1> QED
  BY <1>1, <1>2

(* The results are the pairs of an argument and a place among its results. *)
LEMMA ResultsAre ==
  ASSUME Typed, NEW d \in Owners
  PROVE  /\ IsFiniteSet(Results(d))
         /\ \A k \in Arg : Size(d, k) \in Nat
         /\ \A p \in Results(d) : /\ p = <<p[1], p[2]>> /\ p[1] \in Arg
                                  /\ p[2] \in Nat /\ 1 <= p[2] /\ p[2] <= Size(d, p[1])
         /\ \A k \in Arg : \A n \in 1..Size(d, k) : <<k, n>> \in Results(d)
<1>1. \A k \in Arg : Size(d, k) \in Nat /\ Size(d, k) <= MaxLen
  BY DEF Typed, Size
<1>2. Results(d) \subseteq Arg \X (1..MaxLen)
  BY DEF Results
<1>3. IsFiniteSet(Arg) /\ IsFiniteSet(1..MaxLen)
  BY SignatureIs, MaxLenAssumption, FS_Interval
<1>4. IsFiniteSet(Results(d))
  BY <1>2, <1>3, FS_Product, FS_Subset
<1>5. ASSUME NEW p \in Results(d)
      PROVE  /\ p = <<p[1], p[2]>> /\ p[1] \in Arg
             /\ p[2] \in Nat /\ 1 <= p[2] /\ p[2] <= Size(d, p[1])
  <2>1. PICK k \in Arg : p \in {k} \X (1..Size(d, k))
    BY DEF Results
  <2>2. p = <<p[1], p[2]>> /\ p[1] = k /\ p[2] \in 1..Size(d, k)
    BY <2>1
  <2> QED
    BY <1>1, <2>2
<1>6. ASSUME NEW k \in Arg, NEW n \in 1..Size(d, k)
      PROVE  <<k, n>> \in Results(d)
  <2>1. n \in 1..MaxLen
    BY <1>1, MaxLenAssumption
  <2>2. <<k, n>> \in {k} \X (1..Size(d, k))
    OBVIOUS
  <2> QED
    BY <2>1, <2>2 DEF Results
<1> QED
  BY <1>1, <1>4, <1>5, <1>6

(* An integer is cut to a number of the type.                              *)
LEMMA WrapToIs ==
  ASSUME NEW t \in Types \ Real, NEW n \in Int
  PROVE  WrapTo(t, n) \in Int /\ Bottom(t) <= WrapTo(t, n) /\ WrapTo(t, n) <= Top[t]
<1>1. t = "bool" \/ t = "int" \/ t = "uint"
  BY DEF Types, Real
<1>2. CASE t = "bool"
  BY <1>2, Bounds DEF WrapTo
<1>3. CASE t = "int"
  BY <1>3, Bounds DEF WrapTo
<1>4. CASE t = "uint"
  BY <1>4, Bounds DEF WrapTo
<1> QED
  BY <1>1, <1>2, <1>3, <1>4

(* What a value is converted to is one of the type.                        *)
LEMMA ConvertIs ==
  ASSUME NEW u \in Types, NEW t \in Types, NEW v \in Sample[u]
  PROVE  Convert(u, t, v) \in Int /\ Bottom(t) <= Convert(u, t, v) /\ Convert(u, t, v) <= Top[t]
<1>1. v \in Int
  BY SampleIs
<1>2. CASE t = "bool"
  BY <1>2, Bounds DEF Convert
<1>3. CASE t \in Real
  <2>1. Convert(u, t, v) = Rounded(u, t, v) /\ t # "bool"
    BY <1>3 DEF Convert, Real
  <2>2. Rounded(u, t, v) \in Bottom(t)..Top[t]
    BY <1>3, RoundedAssumption DEF NumbersOf
  <2>3. Bottom(t) \in Int /\ Top[t] \in Int
    BY Bounds DEF Types
  <2> QED
    BY <2>1, <2>2, <2>3
<1>4. CASE t # "bool" /\ t \notin Real
  BY <1>1, <1>4, WrapToIs DEF Convert
<1> QED
  BY <1>2, <1>3, <1>4

(* What the results are taken for: numbers in the range of the type of the *)
(* result, truth values for a logical function.                            *)
LEMMA ValuesAre ==
  ASSUME Typed, NEW d \in Owners
  PROVE  /\ Vals(d) \in [Results(d) -> Int]
         /\ \A p \in Results(d) :
              /\ Vals(d)[p] = Of(d, p)
              /\ Logic => Of(d, p) \in {0, 1}
              /\ Arithmetic => /\ Bottom(ResultType) <= Of(d, p)
                               /\ Of(d, p) <= Top[ResultType]
<1>1. ASSUME NEW p \in Results(d)
      PROVE  /\ Of(d, p) \in Int
             /\ Logic => Of(d, p) \in {0, 1}
             /\ Arithmetic => /\ Bottom(ResultType) <= Of(d, p)
                              /\ Of(d, p) <= Top[ResultType]
  <2> DEFINE k == p[1]
             t == sig[k]
             v == arg[d][k][p[2]]
             r == ArgType
  <2>1. k \in Arg /\ p[2] \in 1..Len(arg[d][k])
    BY ResultsAre DEF Size
  <2>2. arg[d][k] \in Seq(Sample[t])
    BY <2>1 DEF Typed
  <2>3. v \in Sample[t] /\ t \in Types
    BY <2>1, <2>2, SignatureIs
  <2>4. Of(d, p) = Value(k, v)
    BY DEF Of
  <2>5. Monoid => r \in Types
    <3>1. CASE Logic
      BY <3>1 DEF ArgType, Types
    <3>2. CASE Monoid /\ ~Logic
      <4>1. Arithmetic
        BY <3>2, FunctionIs
      <4> QED
        BY <4>1, ResultTypeIs
    <3> QED
      BY <3>1, <3>2
  <2>6. Value(k, v) = IF Monoid /\ t # r THEN Convert(t, r, v) ELSE v
    BY DEF Value, Converted
  <2>7. Logic => Monoid /\ r = "bool"
    BY DEF Logic, Monoid, ArgType
  <2>8. Arithmetic => Monoid /\ r = ResultType
    BY FunctionIs, ResultTypeIs
  <2> HIDE DEF v, t, r
  <2>9. v \in Int /\ Bottom(t) <= v /\ v <= Top[t]
    BY <2>3, SampleIs
  <2>10. Of(d, p) \in Int /\ (Monoid => Bottom(r) <= Of(d, p) /\ Of(d, p) <= Top[r])
    <3>1. CASE Monoid /\ t # r
      BY <2>3, <2>4, <2>5, <2>6, <3>1, ConvertIs
    <3>2. CASE ~(Monoid /\ t # r)
      BY <2>4, <2>6, <2>9, <3>2
    <3> QED
      BY <3>1, <3>2
  <2>11. Logic => Of(d, p) \in {0, 1}
    BY <2>7, <2>10, Bounds
  <2> QED
    BY <2>8, <2>10, <2>11
<1> QED
  BY <1>1 DEF Vals

(***************************************************************************)
(* Numbers of a width.                                                     *)
(***************************************************************************)

(* Arithmetic of a width may be reduced at every step or at the end; the   *)
(* numbers of a signed type are moved by the least of them.                *)
LEMMA ModuloSum ==
  ASSUME NEW a \in Int, NEW b \in Int
  PROVE  /\ ((a % 2) + b) % 2 = (a + b) % 2
         /\ ((-2 + ((a + 2) % 4)) + b + 2) % 4 = (a + b + 2) % 4
         /\ ((a % 8) + b) % 8 = (a + b) % 8
OBVIOUS

(* The same of products: a is a multiple of the size and the rest.         *)
LEMMA ModuloProduct ==
  ASSUME NEW a \in Int, NEW b \in Int
  PROVE  /\ ((a % 2) * b) % 2 = (a * b) % 2
         /\ ((-2 + ((a + 2) % 4)) * b + 2) % 4 = (a * b + 2) % 4
         /\ ((a % 8) * b) % 8 = (a * b) % 8
<1>1. ASSUME NEW m \in {2, 4, 8}, NEW r \in Int, NEW q \in Int, a = m * q + r, NEW n \in Int
      PROVE  (r * b + n) % m = (a * b + n) % m
  <2>1. a * b = m * (q * b) + r * b
    BY <1>1
  <2>2. \A x, k \in Int : (m * k + x) % m = x % m
    <3>1. CASE m = 2
      BY <3>1
    <3>2. CASE m = 4
      BY <3>2
    <3>3. CASE m = 8
      BY <3>3
    <3> QED
      BY <3>1, <3>2, <3>3
  <2>3. q * b \in Int /\ r * b \in Int
    BY <1>1
  <2> DEFINE x == q * b
             y == r * b
  <2>4. x \in Int /\ y \in Int /\ a * b = m * x + y
    BY <2>1, <2>3
  <2> HIDE DEF x, y
  <2>5. a * b + n = m * x + (y + n) /\ y + n \in Int
    BY <2>4
  <2>6. (a * b + n) % m = (y + n) % m
    BY <2>2, <2>4, <2>5
  <2> QED
    BY <2>6 DEF y
<1>2. /\ a \div 2 \in Int /\ a % 2 \in Int /\ a = 2 * (a \div 2) + (a % 2)
      /\ a \div 8 \in Int /\ a % 8 \in Int /\ a = 8 * (a \div 8) + (a % 8)
      /\ (a + 2) \div 4 \in Int /\ -2 + ((a + 2) % 4) \in Int
      /\ a = 4 * ((a + 2) \div 4) + (-2 + ((a + 2) % 4))
  OBVIOUS
<1>3. ((a % 2) * b + 0) % 2 = (a * b + 0) % 2 /\ ((a % 8) * b + 0) % 8 = (a * b + 0) % 8
  BY <1>1, <1>2
<1>4. ((-2 + ((a + 2) % 4)) * b + 2) % 4 = (a * b + 2) % 4
  <2> DEFINE q == (a + 2) \div 4
             r == -2 + ((a + 2) % 4)
  <2>1. q \in Int /\ r \in Int /\ a = 4 * q + r
    BY <1>2
  <2> HIDE DEF q, r
  <2>2. (r * b + 2) % 4 = (a * b + 2) % 4
    BY <1>1, <2>1
  <2> QED
    BY <2>2 DEF r
<1>5. a * b \in Int /\ (a % 2) * b \in Int /\ (a % 8) * b \in Int
  BY <1>2
<1>6. \A n \in Int : n + 0 = n
  OBVIOUS
<1> QED
  BY <1>3, <1>4, <1>5, <1>6

(* Wrapping at every step comes to wrapping once.                          *)
LEMMA Wrapping ==
  ASSUME NEW t \in Types \ Real, NEW a \in Int, NEW b \in Int
  PROVE  /\ WrapTo(t, a) \in Int
         /\ WrapTo(t, WrapTo(t, a) + b) = WrapTo(t, a + b)
         /\ WrapTo(t, WrapTo(t, a) * b) = WrapTo(t, a * b)
         /\ WrapTo(t, 0) = 0 /\ WrapTo(t, 1) = 1
<1>1. /\ \A n \in Int : WrapTo("bool", n) = n % 2
      /\ \A n \in Int : WrapTo("int", n) = -2 + ((n + 2) % 4)
      /\ \A n \in Int : WrapTo("uint", n) = n % 8
  BY Bounds DEF WrapTo
<1>2. a % 2 \in Int /\ -2 + ((a + 2) % 4) \in Int /\ a % 8 \in Int
  OBVIOUS
<1>3. /\ a + b \in Int /\ a * b \in Int
      /\ (a % 2) * b \in Int /\ (-2 + ((a + 2) % 4)) * b \in Int /\ (a % 8) * b \in Int
      /\ (a % 2) + b \in Int /\ (-2 + ((a + 2) % 4)) + b \in Int /\ (a % 8) + b \in Int
  BY <1>2
<1>4. CASE t = "bool"
  <2> DEFINE r == a % 2
  <2>1. r \in Int /\ r + b \in Int /\ r * b \in Int
    BY <1>2, <1>3
  <2>2. WrapTo(t, a) = r
    BY <1>1, <1>4
  <2>3. WrapTo(t, a + b) = WrapTo(t, r + b)
    BY <1>1, <1>3, <1>4, <2>1, ModuloSum
  <2>4. WrapTo(t, a * b) = WrapTo(t, r * b)
    BY <1>1, <1>3, <1>4, <2>1, ModuloProduct
  <2>5. WrapTo(t, 0) = 0 /\ WrapTo(t, 1) = 1
    BY <1>1, <1>4
  <2> HIDE DEF r
  <2> QED
    BY <2>1, <2>2, <2>3, <2>4, <2>5
<1>5. CASE t = "int"
  <2> DEFINE r == -2 + ((a + 2) % 4)
  <2>1. r \in Int /\ r + b \in Int /\ r * b \in Int
    BY <1>2, <1>3
  <2>2. WrapTo(t, a) = r
    BY <1>1, <1>5
  <2>3. WrapTo(t, a + b) = WrapTo(t, r + b)
    BY <1>1, <1>3, <1>5, <2>1, ModuloSum
  <2>4. WrapTo(t, a * b) = WrapTo(t, r * b)
    BY <1>1, <1>3, <1>5, <2>1, ModuloProduct
  <2>5. WrapTo(t, 0) = 0 /\ WrapTo(t, 1) = 1
    BY <1>1, <1>5
  <2> HIDE DEF r
  <2> QED
    BY <2>1, <2>2, <2>3, <2>4, <2>5
<1>6. CASE t = "uint"
  <2> DEFINE r == a % 8
  <2>1. r \in Int /\ r + b \in Int /\ r * b \in Int
    BY <1>2, <1>3
  <2>2. WrapTo(t, a) = r
    BY <1>1, <1>6
  <2>3. WrapTo(t, a + b) = WrapTo(t, r + b)
    BY <1>1, <1>3, <1>6, <2>1, ModuloSum
  <2>4. WrapTo(t, a * b) = WrapTo(t, r * b)
    BY <1>1, <1>3, <1>6, <2>1, ModuloProduct
  <2>5. WrapTo(t, 0) = 0 /\ WrapTo(t, 1) = 1
    BY <1>1, <1>6
  <2> HIDE DEF r
  <2> QED
    BY <2>1, <2>2, <2>3, <2>4, <2>5
<1> QED
  BY <1>4, <1>5, <1>6 DEF Types, Real

LEMMA WrapIs == \A n : Wrap(n) = WrapTo(ResultType, n)
BY DEF Wrap

(***************************************************************************)
(* The accumulator.                                                        *)
(***************************************************************************)

(* The accumulator after the results in S, of a function f with results of *)
(* type t, where V are the values.                                         *)
FirstOf(f, t) == IF f = "min" THEN (IF t \in Real THEN FltMax ELSE Top[t])
                 ELSE (IF t \in Real THEN FltMin ELSE Bottom(t))
StartOf(f, t, v) == FirstOf(f, t) = IF t = "double" THEN Abs(v) % DoubleHalf ELSE v
Among(V, S, f, t, v) == StartOf(f, t, v) \/ \E p \in S : v = V[p]
Aggregated(f, t, V, S, a) ==
  /\ a.c = IF f = "mean" THEN Cardinality(S) ELSE 0
  /\ f \in {"sum", "mean"} => a.v = WrapTo(t, Folded(Plus, 0, V)[S])
  /\ f = "prod" => a.v = WrapTo(t, Folded(Times, 1, V)[S])
  /\ f = "min" => Among(V, S, f, t, a.v) /\ \A p \in S : a.v <= V[p]
  /\ f = "max" => Among(V, S, f, t, a.v) /\ \A p \in S : a.v >= V[p]
  /\ f = "all" => a.v = IF \E p \in S : V[p] = 0 THEN 0 ELSE 1
  /\ f = "any" => a.v = IF \A p \in S : V[p] = 0 THEN 0 ELSE 1
  /\ f = "count" => a.v = Cardinality({p \in S : V[p] # 0})
  /\ f = "len" => a.v = Cardinality(S)
  /\ f = "empty" => a.v = IF S = {} THEN 1 ELSE 0

Accumulator == [v : Int, c : Nat]

(* The element an extreme starts from is the one that is stored.           *)
LEMMA IsStartIs ==
  ASSUME NEW v
  PROVE  fn \in {"min", "max"} => (StartOf(fn, ResultType, v) <=> IsStart(v))
<1>1. fn \in {"min", "max"} => NeutralValue = FirstOf(fn, ResultType)
  BY DEF NeutralValue, FirstOf
<1> QED
  BY <1>1 DEF StartOf, IsStart

(* Writing the lower half of a double leaves it with that lower half.      *)
LEMMA StoredIs ==
  ASSUME NEW v \in Int, fn \in {"min", "max"}
  PROVE  /\ Stored(v, FirstOf(fn, ResultType)) \in Int \/ ResultType \notin Types
         /\ ResultType \in Types => StartOf(fn, ResultType, Stored(v, FirstOf(fn, ResultType)))
<1> DEFINE t == ResultType
           n == FirstOf(fn, t)
<1>1. ASSUME t \in Types PROVE n \in Int
  BY <1>1, Bounds DEF FirstOf, Types, FltMax, FltMin, FloatMax
<1>2. CASE t # "double"
  BY <1>1, <1>2 DEF Stored, StartOf
<1>3. CASE t = "double"
  <2>1. n \in 1..3
    BY <1>3 DEF FirstOf, Real, FltMax, FltMin, FloatMax
  <2> DEFINE m == (Abs(v) \div 4) * 4 + n
  <2>2. Stored(v, n) = IF v < 0 THEN -m ELSE m
    BY <1>3 DEF Stored, DoubleHalf
  <2>3. Abs(v) \in Nat
    BY DEF Abs
  <2> HIDE DEF n
  <2>4. m \in Nat /\ m % 4 = n
    BY <2>1, <2>3
  <2> HIDE DEF m
  <2>5. Stored(v, n) \in Int /\ Abs(Stored(v, n)) = m
    BY <2>2, <2>4 DEF Abs
  <2> QED
    BY <1>3, <2>4, <2>5 DEF StartOf, DoubleHalf, n
<1> QED
  BY <1>2, <1>3

(* The neutral element is what there is before any result is taken.        *)
LEMMA AggregatedNone ==
  ASSUME Typed, NEW a \in Accumulator, NEW V, NEW D, IsFiniteSet(D), V \in [D -> Int]
  PROVE  /\ Neutral(a) \in Accumulator
         /\ Aggregated(fn, ResultType, V, {}, Neutral(a))
<1> DEFINE t == ResultType
           b == Neutral(a)
<1>1. t \in Types /\ (Arithmetic => t # "bool")
  BY ResultTypeIs
<1>2. b = [v |-> Stored(a.v, NeutralValue), c |-> 0] /\ b.c = 0 /\ b.v = Stored(a.v, NeutralValue)
  BY DEF Neutral
<1>3. Top[t] \in Int /\ Bottom(t) \in Int
  BY <1>1, Bounds DEF Types
<1>4. NeutralValue \in Int
  BY <1>3, FunctionIs DEF NeutralValue, FltMax, FltMin, FloatMax
<1>5. a.v \in Int
  BY DEF Accumulator
<1>6. b.v \in Int
  <2>1. Abs(a.v) \in Int
    BY <1>5 DEF Abs
  <2> QED
    BY <1>2, <1>4, <2>1 DEF Stored, DoubleHalf
<1>7. b \in Accumulator
  BY <1>2, <1>6 DEF Accumulator
<1>8. Cardinality({}) = 0
  BY FS_EmptySet
<1>9. fn \notin {"min", "max"} => b.v = NeutralValue
  BY <1>2 DEF Stored
<1>10. FoldsBy(Plus, 0, V, Folded(Plus, 0, V)) /\ FoldsBy(Times, 1, V, Folded(Times, 1, V))
  BY PlusTimes, FoldedFolds
<1>11. Folded(Plus, 0, V)[{}] = 0 /\ Folded(Times, 1, V)[{}] = 1
  BY <1>10 DEF FoldsBy
<1>12. fn \in {"sum", "prod", "mean"} => WrapTo(t, 0) = 0 /\ WrapTo(t, 1) = 1
  BY <1>1, Wrapping, ResultTypeIs
<1>13. fn \in {"sum", "mean"} => b.v = WrapTo(t, Folded(Plus, 0, V)[{}])
  BY <1>9, <1>11, <1>12 DEF NeutralValue
<1>14. fn = "prod" => b.v = WrapTo(t, Folded(Times, 1, V)[{}])
  BY <1>9, <1>11, <1>12 DEF NeutralValue
<1>15. fn \in {"min", "max"} => StartOf(fn, t, b.v)
  <2>1. fn \in {"min", "max"} => b.v = Stored(a.v, FirstOf(fn, t))
    BY <1>2 DEF NeutralValue, FirstOf
  <2> QED
    BY <1>1, <1>5, <2>1, StoredIs
<1>17. /\ fn \in {"all", "empty"} => b.v = 1
       /\ fn \in {"any", "count", "len"} => b.v = 0
  BY <1>9 DEF NeutralValue
<1>18. {p \in {} : V[p] # 0} = {}
  OBVIOUS
<1> HIDE DEF b, t
<1>19. Aggregated(fn, t, V, {}, b)
  BY <1>2, <1>3, <1>8, <1>13, <1>14, <1>15, <1>17, <1>18 DEF Aggregated, Among
<1> QED
  BY <1>7, <1>19 DEF b, t

(* A fold over one element more.                                           *)
LEMMA FoldedOne ==
  ASSUME NEW D, IsFiniteSet(D), NEW V, V \in [D -> Int],
         NEW S \in SUBSET D, NEW p \in D, p \notin S
  PROVE  /\ Folded(Plus, 0, V)[S] \in Int /\ Folded(Times, 1, V)[S] \in Int
         /\ Folded(Plus, 0, V)[S \cup {p}] = Folded(Plus, 0, V)[S] + V[p]
         /\ Folded(Times, 1, V)[S \cup {p}] = Folded(Times, 1, V)[S] * V[p]
<1> DEFINE U == S \cup {p}
           f == Folded(Plus, 0, V)
           g == Folded(Times, 1, V)
<1>1. FoldsBy(Plus, 0, V, f) /\ FoldsBy(Times, 1, V, g)
  BY PlusTimes, FoldedFolds
<1>2. U \ {p} = S /\ p \in U /\ U \in SUBSET D /\ V[p] \in Int /\ DOMAIN V = D
  OBVIOUS
<1> HIDE DEF U, f, g
<1>3. f[S] \in Int /\ g[S] \in Int
  BY <1>1, <1>2 DEF FoldsBy
<1>4. f[U] = Plus[<<V[p], f[S]>>] /\ g[U] = Times[<<V[p], g[S]>>]
  BY <1>1, <1>2 DEF FoldsBy
<1>5. f[U] = V[p] + f[S]
  BY <1>2, <1>3, <1>4, PlusTimes
<1>6. g[U] = V[p] * g[S]
  BY <1>2, <1>3, <1>4, PlusTimes
<1>7. V[p] + f[S] = f[S] + V[p] /\ V[p] * g[S] = g[S] * V[p]
  BY <1>2, <1>3
<1> QED
  BY <1>3, <1>5, <1>6, <1>7 DEF U, f, g

(* The operation takes one result more into account.                       *)
LEMMA AggregatedOne ==
  ASSUME Typed, NEW d \in Owners, NEW S \in SUBSET Results(d),
         NEW p \in Results(d), p \notin S,
         NEW a \in Accumulator, Aggregated(fn, ResultType, Vals(d), S, a)
  PROVE  /\ Operation(a, Of(d, p)) \in Accumulator
         /\ Aggregated(fn, ResultType, Vals(d), S \cup {p}, Operation(a, Of(d, p)))
<1> DEFINE t == ResultType
           b == Operation(a, Of(d, p))
           U == S \cup {p}
           V == Vals(d)
           w == Of(d, p)
           D == Results(d)
<1>1. IsFiniteSet(D) /\ V \in [D -> Int] /\ V[p] = w /\ w \in Int /\ p \in D
  BY ResultsAre, ValuesAre
<1>2. Logic => w \in {0, 1} /\ \A q \in S : V[q] \in {0, 1}
  BY ValuesAre
<1>3. t \in Types /\ (fn \in {"sum", "prod", "mean"} => t \notin Real)
  BY ResultTypeIs
<1>4. IsFiniteSet(S) /\ Cardinality(S) \in Nat /\ Cardinality(U) = Cardinality(S) + 1
  BY <1>1, FS_Subset, FS_AddElement, FS_CardinalityType
<1>5. a.v \in Int /\ a.c \in Nat
  BY DEF Accumulator
<1>6. b.c = (IF fn = "mean" THEN a.c + 1 ELSE a.c)
  BY DEF Operation
<1>7. /\ fn \in {"sum", "mean"} => b.v = WrapTo(t, a.v + w)
      /\ fn = "prod" => b.v = WrapTo(t, a.v * w)
      /\ fn = "min" => b.v = IF a.v > w THEN w ELSE a.v
      /\ fn = "max" => b.v = IF a.v < w THEN w ELSE a.v
      /\ fn = "all" => b.v = a.v * w
      /\ fn = "any" => b.v = IF a.v + w > 0 THEN 1 ELSE 0
      /\ fn = "count" => b.v = a.v + w
      /\ fn = "len" => b.v = a.v + 1
      /\ fn = "empty" => b.v = 0
  BY WrapIs DEF Operation
<1>8. b = [v |-> b.v, c |-> b.c]
  <2>1. \E v, c : b = [v |-> v, c |-> c]
    BY Zenon DEF Operation
  <2> HIDE DEF b
  <2> QED
    BY <2>1
<1>9. /\ Folded(Plus, 0, V)[S] \in Int /\ Folded(Times, 1, V)[S] \in Int
      /\ Folded(Plus, 0, V)[U] = Folded(Plus, 0, V)[S] + V[p]
      /\ Folded(Times, 1, V)[U] = Folded(Times, 1, V)[S] * V[p]
  <2>1. S \in SUBSET D /\ p \in D /\ p \notin S
    OBVIOUS
  <2> HIDE DEF V, D
  <2> QED
    BY <1>1, <2>1, FoldedOne
<1>10. Aggregated(fn, t, V, S, a)
  OBVIOUS
<1>11. p \notin S /\ U = S \cup {p} /\ \A q \in S : V[q] \in Int
  BY <1>1
<1> HIDE DEF t, b, U, V, w, D
<1>12. b.c = IF fn = "mean" THEN Cardinality(U) ELSE 0
  BY <1>4, <1>6, <1>10 DEF Aggregated
<1>13. fn \in {"sum", "mean"} => b.v = WrapTo(t, Folded(Plus, 0, V)[U])
  BY <1>1, <1>3, <1>7, <1>9, <1>10, Wrapping DEF Aggregated
<1>14. fn = "prod" => b.v = WrapTo(t, Folded(Times, 1, V)[U])
  <2> DEFINE r == Folded(Times, 1, V)[S]
  <2>1. fn = "prod" => a.v = WrapTo(t, r)
    BY <1>10 DEF Aggregated
  <2>2. r \in Int /\ Folded(Times, 1, V)[U] = r * w
    BY <1>1, <1>9
  <2> HIDE DEF r
  <2>3. fn = "prod" => WrapTo(t, WrapTo(t, r) * w) = WrapTo(t, r * w)
    BY <1>1, <1>3, <2>2, Wrapping
  <2> QED
    BY <1>7, <2>1, <2>2, <2>3
<1>15. fn = "min" => Among(V, U, fn, t, b.v) /\ \A q \in U : b.v <= V[q]
  <2> SUFFICES ASSUME fn = "min" PROVE Among(V, U, fn, t, b.v) /\ \A q \in U : b.v <= V[q]
    OBVIOUS
  <2>1. Among(V, S, fn, t, a.v) /\ \A q \in S : a.v <= V[q]
    BY <1>10 DEF Aggregated
  <2>2. b.v = IF a.v > w THEN w ELSE a.v
    BY <1>7
  <2>3. \A q \in U : b.v <= V[q]
    BY <1>1, <1>5, <1>11, <2>1, <2>2
  <2>4. Among(V, U, fn, t, b.v)
    BY <1>1, <1>11, <2>1, <2>2 DEF Among
  <2> QED
    BY <2>3, <2>4
<1>16. fn = "max" => Among(V, U, fn, t, b.v) /\ \A q \in U : b.v >= V[q]
  <2> SUFFICES ASSUME fn = "max" PROVE Among(V, U, fn, t, b.v) /\ \A q \in U : b.v >= V[q]
    OBVIOUS
  <2>1. Among(V, S, fn, t, a.v) /\ \A q \in S : a.v >= V[q]
    BY <1>10 DEF Aggregated
  <2>2. b.v = IF a.v < w THEN w ELSE a.v
    BY <1>7
  <2>3. \A q \in U : b.v >= V[q]
    BY <1>1, <1>5, <1>11, <2>1, <2>2
  <2>4. Among(V, U, fn, t, b.v)
    BY <1>1, <1>11, <2>1, <2>2 DEF Among
  <2> QED
    BY <2>3, <2>4
<1>17. fn = "all" => b.v = IF \E q \in U : V[q] = 0 THEN 0 ELSE 1
  BY <1>1, <1>2, <1>7, <1>10, <1>11 DEF Aggregated, Logic
<1>18. fn = "any" => b.v = IF \A q \in U : V[q] = 0 THEN 0 ELSE 1
  BY <1>1, <1>2, <1>7, <1>10, <1>11 DEF Aggregated, Logic
<1>19. fn = "count" => b.v = Cardinality({q \in U : V[q] # 0})
  <2> DEFINE C == {q \in S : V[q] # 0}
             C2 == {q \in U : V[q] # 0}
  <2> SUFFICES ASSUME fn = "count" PROVE b.v = Cardinality(C2)
    OBVIOUS
  <2>1. a.v = Cardinality(C) /\ w \in {0, 1} /\ b.v = a.v + w
    BY <1>2, <1>7, <1>10 DEF Aggregated, Logic
  <2>2. IsFiniteSet(C) /\ p \notin C
    BY <1>4, <1>11, FS_Subset
  <2>3. CASE w = 0
    <3>1. C2 = C
      BY <1>1, <1>11, <2>3
    <3> HIDE DEF C, C2
    <3> QED
      BY <1>5, <2>1, <2>3, <3>1
  <2>4. CASE w = 1
    <3>1. C2 = C \cup {p}
      BY <1>1, <1>11, <2>4
    <3> HIDE DEF C, C2
    <3>2. Cardinality(C2) = Cardinality(C) + 1
      BY <2>2, <3>1, FS_AddElement
    <3> QED
      BY <2>1, <2>4, <3>2
  <2> QED
    BY <2>1, <2>3, <2>4
<1>20. fn = "len" => b.v = Cardinality(U)
  BY <1>4, <1>7, <1>10 DEF Aggregated
<1>21. fn = "empty" => b.v = IF U = {} THEN 1 ELSE 0
  BY <1>7, <1>11
<1>22. b.c \in Nat
  BY <1>5, <1>6
<1>23. b.v \in Int
  <2>1. a.v * w \in Int /\ a.v + w \in Int /\ a.v + 1 \in Int
    BY <1>1, <1>5
  <2>2. fn \in {"sum", "prod", "mean"} =>
          WrapTo(t, a.v * w) \in Int /\ WrapTo(t, a.v + w) \in Int
    BY <1>3, <2>1, Wrapping
  <2> QED
    BY <1>1, <1>5, <1>7, <2>1, <2>2, FunctionIs
<1>24. b \in Accumulator
  BY <1>8, <1>22, <1>23 DEF Accumulator
<1>25. Aggregated(fn, t, V, U, b)
  BY <1>12, <1>13, <1>14, <1>15, <1>16, <1>17, <1>18, <1>19, <1>20, <1>21 DEF Aggregated
<1> QED
  BY <1>24, <1>25 DEF t, b, U, V, w

(* The reference, function by function.                                    *)
LEMMA ReferenceIs ==
  ASSUME NEW d
  PROVE  LET vals == {Of(d, p) : p \in Results(d)} IN
         /\ fn = "sum" => Reference(d) = Wrap(Total(d))
         /\ fn = "prod" => Reference(d) = Wrap(Product(d))
         /\ fn = "min" => Reference(d) = Min(vals)
         /\ fn = "max" => Reference(d) = Max(vals)
         /\ fn = "all" => Reference(d) = IF 0 \in vals THEN 0 ELSE 1
         /\ fn = "any" => Reference(d) = IF vals \subseteq {0} THEN 0 ELSE 1
         /\ fn = "count" => Reference(d) = Cardinality({p \in Results(d) : Of(d, p) # 0})
         /\ fn = "mean" => Reference(d) = Quotient(Wrap(Total(d)), Wrap(Cardinality(Results(d))))
         /\ fn = "len" => Reference(d) = Cardinality(Results(d))
         /\ fn = "empty" => Reference(d) = IF Results(d) = {} THEN 1 ELSE 0
BY DEF Reference

(* Min and Max are the bounds that are reached.                            *)
LEMMA LeastOf ==
  ASSUME NEW R, R \subseteq Int, NEW m \in R
  PROVE  /\ (\A r \in R : m <= r) => Min(R) = m
         /\ (\A r \in R : m >= r) => Max(R) = m
<1>1. ASSUME \A r \in R : m <= r PROVE Min(R) = m
  <2>1. \E n \in R : \A r \in R : n <= r
    BY <1>1
  <2>2. Min(R) \in R /\ \A r \in R : Min(R) <= r
    BY <2>1 DEF Min
  <2>3. Min(R) \in Int /\ m \in Int /\ Min(R) <= m /\ m <= Min(R)
    BY <1>1, <2>2
  <2> QED
    BY <2>3
<1>2. ASSUME \A r \in R : m >= r PROVE Max(R) = m
  <2>1. \E n \in R : \A r \in R : n >= r
    BY <1>2
  <2>2. Max(R) \in R /\ \A r \in R : Max(R) >= r
    BY <2>1 DEF Max
  <2>3. Max(R) \in Int /\ m \in Int /\ Max(R) >= m /\ m >= Max(R)
    BY <1>2, <2>2
  <2> QED
    BY <2>3
<1> QED
  BY <1>1, <1>2

(* With all results taken, the accumulator gives the reference: a minimum  *)
(* is that of the results and not the neutral element since some argument  *)
(* has the type of the result, and a mean is of some results.              *)
LEMMA AggregatedAll ==
  ASSUME Typed, NEW d \in Owners, NEW a \in Accumulator,
         Aggregated(fn, ResultType, Vals(d), Results(d), a),
         HasEmpty(d) => DefinedForEmpty
  PROVE  /\ NoQuotient(a) <=> NoMean(d)
         /\ StartsNeutral => Result(a) = Reference(d)
         /\ ~StartsNeutral => Extreme(d, Result(a))
<1> DEFINE t == ResultType
           V == Vals(d)
           D == Results(d)
           vals == {Of(d, p) : p \in D}
<1>1. IsFiniteSet(D) /\ V \in [D -> Int] /\ \A p \in D : V[p] = Of(d, p) /\ V[p] \in Int
  BY ResultsAre, ValuesAre
<1>2. vals = {V[p] : p \in D} /\ vals \subseteq Int
  BY <1>1
<1>3. Total(d) = Folded(Plus, 0, V)[D] /\ Product(d) = Folded(Times, 1, V)[D]
  BY <1>1, TotalFolded, ProductFolded
<1>4. ASSUME Arithmetic PROVE \E p \in D : Bottom(t) <= V[p] /\ V[p] <= Top[t]
  <2>1. ~HasEmpty(d)
    BY <1>4 DEF DefinedForEmpty, Arithmetic
  <2>2. PICK k \in Arg : TRUE
    BY SignatureIs
  <2>3. Size(d, k) \in Nat /\ Size(d, k) # 0
    BY <2>1, ResultsAre DEF HasEmpty
  <2> DEFINE p == <<k, 1>>
  <2>4. p \in D /\ p[1] = k
    BY <2>3, ResultsAre
  <2> HIDE DEF p
  <2>5. Bottom(t) <= Of(d, p) /\ Of(d, p) <= Top[t]
    BY <1>4, <2>4, ValuesAre
  <2> QED
    BY <1>1, <2>4, <2>5
<1>5. fn = "mean" => a.c = Cardinality(D) /\ a.c # 0
  <2> SUFFICES ASSUME fn = "mean" PROVE a.c = Cardinality(D) /\ a.c # 0
    OBVIOUS
  <2>1. a.c = Cardinality(D)
    BY DEF Aggregated
  <2>2. D # {}
    BY <1>4 DEF Arithmetic
  <2> QED
    BY <1>1, <2>1, <2>2, FS_EmptySet
<1>6. \A n : Wrap(n) = WrapTo(t, n)
  BY WrapIs
<1>7. Aggregated(fn, t, V, D, a) /\ a.v \in Int
  BY DEF Accumulator
<1>8. t \in Types
  BY ResultTypeIs
<1>9. Top[t] \in Int /\ Bottom(t) \in Int
  BY <1>8, Bounds DEF Types
<1>10. \A p \in D : V[p] \in vals
  BY <1>2
<1> HIDE DEF t, V, D
<1>11. fn \in {"sum", "prod"} => a.v = Reference(d)
  BY <1>3, <1>6, <1>7, ReferenceIs DEF Aggregated, t, V, D
<1>12. ASSUME fn = "mean" PROVE Quotient(a.v, Wrap(a.c)) = Reference(d)
  BY <1>3, <1>5, <1>6, <1>7, <1>12, ReferenceIs DEF Aggregated, t, V, D
<1>13. ASSUME fn = "min", StartsNeutral PROVE a.v = Reference(d)
  <2>1. Among(V, D, fn, t, a.v) /\ \A p \in D : a.v <= V[p]
    BY <1>7, <1>13 DEF Aggregated
  <2>2. \E p \in D : V[p] <= Top[t]
    BY <1>4, <1>13 DEF Arithmetic
  <2>3. StartOf(fn, t, a.v) => a.v = Top[t]
    BY <1>8, <1>13, Bounds DEF StartsNeutral, StartOf, FirstOf, Real, Types, FltMax, FloatMax, t
  <2>4. a.v \in vals
    BY <1>1, <1>7, <1>9, <1>10, <2>1, <2>2, <2>3 DEF Among
  <2>5. \A r \in vals : a.v <= r
    BY <1>2, <2>1
  <2> HIDE DEF vals
  <2>6. Min(vals) = a.v
    BY <1>2, <2>4, <2>5, LeastOf
  <2> QED
    BY <1>13, <2>6, ReferenceIs DEF vals, D
<1>14. ASSUME fn = "max", StartsNeutral PROVE a.v = Reference(d)
  <2>1. Among(V, D, fn, t, a.v) /\ \A p \in D : a.v >= V[p]
    BY <1>7, <1>14 DEF Aggregated
  <2>2. \E p \in D : Bottom(t) <= V[p]
    BY <1>4, <1>14 DEF Arithmetic
  <2>3. StartOf(fn, t, a.v) => a.v = Bottom(t)
    BY <1>14 DEF StartsNeutral, StartOf, FirstOf, Real, t
  <2>4. a.v \in vals
    BY <1>1, <1>7, <1>9, <1>10, <2>1, <2>2, <2>3 DEF Among
  <2>5. \A r \in vals : a.v >= r
    BY <1>2, <2>1
  <2> HIDE DEF vals
  <2>6. Max(vals) = a.v
    BY <1>2, <2>4, <2>5, LeastOf
  <2> QED
    BY <1>14, <2>6, ReferenceIs DEF vals, D
<1>15. ASSUME fn = "all" PROVE a.v = Reference(d)
  <2>1. a.v = IF \E p \in D : V[p] = 0 THEN 0 ELSE 1
    BY <1>7, <1>15 DEF Aggregated
  <2>2. (\E p \in D : V[p] = 0) <=> 0 \in vals
    BY <1>1, <1>2
  <2>3. Reference(d) = IF 0 \in vals THEN 0 ELSE 1
    BY <1>15, ReferenceIs DEF D
  <2> QED
    BY <2>1, <2>2, <2>3
<1>16. ASSUME fn = "any" PROVE a.v = Reference(d)
  <2>1. a.v = IF \A p \in D : V[p] = 0 THEN 0 ELSE 1
    BY <1>7, <1>16 DEF Aggregated
  <2>2. (\A p \in D : V[p] = 0) <=> vals \subseteq {0}
    BY <1>1, <1>2
  <2>3. Reference(d) = IF vals \subseteq {0} THEN 0 ELSE 1
    BY <1>16, ReferenceIs DEF D
  <2> QED
    BY <2>1, <2>2, <2>3
<1>17. ASSUME fn = "count" PROVE a.v = Reference(d)
  <2>1. a.v = Cardinality({p \in D : V[p] # 0})
    BY <1>7, <1>17 DEF Aggregated
  <2>2. {p \in D : V[p] # 0} = {p \in D : Of(d, p) # 0}
    BY <1>1
  <2>3. Reference(d) = Cardinality({p \in D : Of(d, p) # 0})
    BY <1>17, ReferenceIs DEF D
  <2> QED
    BY <2>1, <2>2, <2>3
<1>18. fn \in {"len", "empty"} => a.v = Reference(d)
  BY <1>7, ReferenceIs DEF Aggregated, D
<1>19. /\ fn = "mean" => Result(a) = Quotient(a.v, Wrap(a.c))
       /\ fn # "mean" => Result(a) = a.v
  BY <1>5 DEF Result
<1>20. StartsNeutral => Result(a) = Reference(d)
  BY <1>11, <1>12, <1>13, <1>14, <1>15, <1>16, <1>17, <1>18, <1>19, FunctionIs
<1>21. ASSUME ~StartsNeutral PROVE Extreme(d, Result(a))
  <2>1. fn \in {"min", "max"} /\ Result(a) = a.v
    BY <1>19, <1>21 DEF StartsNeutral
  <2>2. Among(V, D, fn, t, a.v)
    BY <1>7, <2>1 DEF Aggregated
  <2>3. a.v \in vals \/ IsStart(a.v)
    BY <1>10, <2>1, <2>2, IsStartIs DEF Among, t
  <2>4. \A r \in vals : IF fn = "min" THEN a.v <= r ELSE a.v >= r
    BY <1>2, <1>7, <2>1 DEF Aggregated
  <2> QED
    BY <2>1, <2>3, <2>4 DEF Extreme, D
<1>22. NoQuotient(a) <=> NoMean(d)
  <2>1. fn = "mean" => /\ a.c = Cardinality(D) /\ a.c # 0 /\ ~HasEmpty(d)
                       /\ a.v = Wrap(Total(d))
    BY <1>3, <1>5, <1>6, <1>7 DEF Aggregated, DefinedForEmpty, t, V, D
  <2> QED
    BY <2>1 DEF NoQuotient, NoMean, D
<1> QED
  BY <1>20, <1>21, <1>22

(* Of some of the results a count counts no more than of all.              *)
LEMMA AggregatedSome ==
  ASSUME Typed, NEW d \in Owners, NEW a \in Accumulator, NEW S \in SUBSET Results(d),
         Aggregated(fn, ResultType, Vals(d), S, a), fn = "count"
  PROVE  Result(a) \in 0..Reference(d)
<1> DEFINE C == {p \in S : Vals(d)[p] # 0}
           A == {p \in Results(d) : Of(d, p) # 0}
<1>1. Result(a) = Cardinality(C)
  BY DEF Aggregated, Result
<1>2. Reference(d) = Cardinality(A)
  BY ReferenceIs
<1>3. C \subseteq A /\ IsFiniteSet(A)
  BY ResultsAre, ValuesAre, FS_Subset
<1> HIDE DEF C, A
<1>4. Cardinality(C) \in Nat /\ Cardinality(A) \in Nat /\ Cardinality(C) <= Cardinality(A)
  BY <1>3, FS_Subset, FS_CardinalityType
<1> QED
  BY <1>1, <1>2, <1>4

(***************************************************************************)
(* The steps of a call.                                                    *)
(***************************************************************************)

(* Nothing that is said of a definition and its data changes with a call.  *)
LEMMA SameDefinition ==
  ASSUME UNCHANGED defs
  PROVE  /\ fn' = fn /\ sig' = sig /\ arg' = arg /\ Arg' = Arg
         /\ (Typed <=> Typed') /\ ResultType' = ResultType
         /\ (StartsNeutral <=> StartsNeutral') /\ (DefinedForEmpty <=> DefinedForEmpty')
         /\ \A d : /\ Results(d)' = Results(d) /\ Vals(d)' = Vals(d)
                   /\ (HasEmpty(d) <=> HasEmpty(d)') /\ \A k : Size(d, k)' = Size(d, k)
                   /\ Reference(d)' = Reference(d) /\ (NoMean(d) <=> NoMean(d)')
                   /\ \A n : Extreme(d, n) <=> Extreme(d, n)'
         /\ (CountsCounts <=> CountsCounts')
<1>1. fn' = fn /\ sig' = sig /\ arg' = arg /\ Arg' = Arg
  BY DEF defs, Arg
<1>2. ResultType' = ResultType
  BY <1>1 DEF ResultType, ArgType, Monoid, Logic, Range
<1>3. (Typed <=> Typed') /\ (DefinedForEmpty <=> DefinedForEmpty')
  BY <1>1 DEF Typed, Accepts, Modelled, DefinedForEmpty
<1>4. StartsNeutral <=> StartsNeutral'
  BY <1>1, <1>2 DEF StartsNeutral
<1>5. ASSUME NEW d
      PROVE  /\ Results(d)' = Results(d) /\ Vals(d)' = Vals(d)
             /\ (HasEmpty(d) <=> HasEmpty(d)') /\ \A k : Size(d, k)' = Size(d, k)
  <2>1. \A k : Size(d, k)' = Size(d, k)
    BY <1>1 DEF Size
  <2>2. Results(d)' = Results(d) /\ (HasEmpty(d) <=> HasEmpty(d)')
    BY <1>1, <2>1 DEF Results, HasEmpty
  <2>3. \A p : Of(d, p)' = Of(d, p)
    BY <1>1 DEF Of, Value, Monoid, Converted, Logic, ArgType, Range
  <2> QED
    BY <2>1, <2>2, <2>3 DEF Vals
<1>6. ASSUME NEW d PROVE Reference(d)' = Reference(d) /\ (NoMean(d) <=> NoMean(d)')
  BY <1>1 DEF Reference, NoMean, HasEmpty, Wrap, Total, Product, MapThenSumSet, MapThenFoldSet,
       Results, Of, Value, Monoid, Converted, Logic, ArgType, ResultType, Size, Arg, Range
<1>7. ASSUME NEW d, NEW n PROVE Extreme(d, n) <=> Extreme(d, n)'
  <2>1. Results(d)' = Results(d)
    BY <1>5
  <2>2. \A p : Of(d, p)' = Of(d, p)
    BY <1>1 DEF Of, Value, Monoid, Converted, Logic, ArgType, Range
  <2>3. IsStart(n) <=> IsStart(n)'
    BY <1>1, <1>2 DEF IsStart, NeutralValue
  <2> QED
    BY <1>1, <2>1, <2>2, <2>3 DEF Extreme
<1>8. CountsCounts <=> CountsCounts'
  BY <1>1 DEF CountsCounts
<1> QED
  BY <1>1, <1>2, <1>3, <1>4, <1>5, <1>6, <1>7, <1>8

(* The results taken by resets of the arguments before n, and with them    *)
(* those that were run through since.                                      *)
First(d, n) == {p \in Results(d) : p[2] = 1 /\ p[1] < n}
Taken(d, reached) == {p \in Results(d) : p[2] <= reached[p[1]]}

(* Before the argument at hand each gave its first result; ...             *)
InReset ==
  pc = "reset" =>
    /\ \A k \in Arg : k < i => serves[k] = given /\ at[k] = 1 /\ Size(given, k) > 0
    /\ Aggregated(fn, ResultType, Vals(given), First(given, i), acc)
(* ... then all have, those before the argument at hand are run through,   *)
(* and the accumulator stands for the results at hand and before.          *)
InGet ==
  pc = "get" =>
    /\ fn # "empty" /\ ~keyed
    /\ \A k \in Arg : /\ serves[k] = given /\ Size(given, k) > 0
                      /\ k < i => at[k] = Size(given, k) + 1
                      /\ k > i => at[k] = 1
    /\ 1 <= at[i] /\ at[i] <= Size(given, i)
    /\ Aggregated(fn, ResultType, Vals(given), Taken(given, at), acc)
(* A call has returned nothing before it ends.                             *)
Running == pc # "idle" => given \in Owners /\ out = NULL
(* The dynamic data of a count of counts is never made.                    *)
Countable == made \/ pc \in {"neutral", "reset", "get"} => ~CountsCounts
(* The inductive invariant.                                                *)
AggInv ==
  /\ Typed
  /\ i \in Arg /\ acc \in Accumulator /\ pc \in Places
  /\ serves \in [Arg -> Owners \cup {NULL}] /\ at \in [Arg -> Nat]
  /\ Running /\ InReset /\ InGet /\ Countable
  /\ StopsExactlyThere
  /\ ResultOfArguments

LEMMA AggInit == Init => AggInv
<1> SUFFICES ASSUME Init PROVE AggInv
  OBVIOUS
<1>1. ASSUME NEW d \in Owners, NEW k \in Arg
      PROVE  arg[d][k] \in Seq(Sample[sig[k]]) /\ Len(arg[d][k]) <= MaxLen
  <2> DEFINE q == arg[d][k]
  <2>1. arg[d] \in [Arg -> UNION {BoundedSeq(Sample[t], MaxLen) : t \in Types}]
    BY DEF Init
  <2>2. PICK t \in Types : q \in BoundedSeq(Sample[t], MaxLen)
    BY <2>1
  <2>3. Range(q) \subseteq Sample[sig[k]]
    BY DEF Init
  <2> HIDE DEF q
  <2>4. PICK m \in 0..MaxLen : q \in [1..m -> Sample[t]]
    BY <2>2 DEF BoundedSeq, SeqOf
  <2>5. m \in Nat /\ m <= MaxLen
    BY <2>4, MaxLenAssumption
  <2>6. \A n \in 1..m : q[n] \in Sample[sig[k]]
    BY <2>3, <2>4 DEF Range
  <2>7. q \in [1..m -> Sample[sig[k]]]
    BY <2>4, <2>6
  <2>8. q \in Seq(Sample[sig[k]]) /\ Len(q) = m
    BY <2>5, <2>7
  <2> QED
    BY <2>5, <2>8 DEF q
<1>2. Typed
  BY <1>1 DEF Init, Typed
<1>3. i \in Arg /\ serves \in [Arg -> Owners \cup {NULL}] /\ at \in [Arg -> Nat]
  BY <1>2, SignatureIs DEF Init
<1>4. acc \in Accumulator /\ pc \in Places /\ pc = "idle" /\ given = NULL
  BY DEF Init, Accumulator, Places
<1>5. ResultOfArguments
  BY <1>4 DEF ResultOfArguments, Finished, Init
<1>6. StopsExactlyThere /\ Countable
  BY <1>4 DEF StopsExactlyThere, Countable, Finished, Init
<1> QED
  BY <1>2, <1>3, <1>4, <1>5, <1>6 DEF AggInv, Running, InReset, InGet

(* What a call leaves alone.                                               *)
LEMMA KeptTyped ==
  ASSUME AggInv, UNCHANGED defs
  PROVE  Typed' /\ Arg' = Arg
BY SameDefinition DEF AggInv

(* One lemma per action.                                                   *)
LEMMA CallResetInv ==
  ASSUME AggInv, NEW d \in Owners, NEW k \in BOOLEAN, CallReset(d, k)
  PROVE  AggInv'
<1>1. UNCHANGED defs /\ pc' \in {"create", "neutral"} /\ given' = d /\ out' = NULL
      /\ i' = i /\ acc' = acc /\ serves' = serves /\ at' = at /\ made' = made
      /\ (pc' = "neutral" => made)
  BY DEF CallReset, queries
<1>2. Typed' /\ Arg' = Arg /\ (CountsCounts <=> CountsCounts')
  BY <1>1, KeptTyped, SameDefinition
<1>3. pc' \in Places
  BY <1>1 DEF Places
<1> QED
  BY <1>1, <1>2, <1>3
  DEF AggInv, Running, InReset, InGet, Countable, StopsExactlyThere, ResultOfArguments, Finished

LEMMA NewDynDataInv ==
  ASSUME AggInv, NewDynData
  PROVE  AggInv'
<1>1. UNCHANGED defs /\ pc = "create" /\ i' = i /\ serves' = serves /\ at' = at
      /\ given' = given /\ out' = out /\ keyed' = keyed /\ pc' \in {"noTarget", "neutral"}
      /\ (pc' = "noTarget" => made' = made)
  BY DEF NewDynData, queries
<1>2. Typed' /\ Arg' = Arg /\ ResultType' = ResultType /\ fn' = fn /\ sig' = sig
      /\ (CountsCounts <=> CountsCounts')
  BY <1>1, KeptTyped, SameDefinition
<1>3. acc' \in Accumulator
  <2>1. PICK v \in Bottom(ResultType)..Top[ResultType] : acc' = [v |-> v, c |-> 0]
    BY DEF NewDynData, NumbersOf
  <2>2. v \in Int
    BY <2>1
  <2> QED
    BY <2>1, <2>2 DEF Accumulator
<1>4. pc' = "noTarget" <=> CountsCounts
  <2>1. pc' = "noTarget" <=> Monoid /\ \E k \in Arg : Converted(k) /\ ~HasTarget(k)
    BY DEF NewDynData
  <2>2. ASSUME NEW k \in Arg, Converted(k), ~HasTarget(k) PROVE CountsCounts
    <3>1. sig[k] # ArgType /\ sig[k] = ResultType
      BY <2>2 DEF Converted, HasTarget
    <3>2. fn = "count" /\ sig[k] = "uint"
      BY <3>1 DEF ResultType
    <3> QED
      BY <3>2, SignatureIs DEF AggInv, CountsCounts
  <2>3. ASSUME CountsCounts PROVE Monoid /\ \E k \in Arg : Converted(k) /\ ~HasTarget(k)
    <3>1. PICK k \in Arg : sig[k] = "uint"
      BY <2>3, SignatureIs DEF AggInv, CountsCounts
    <3>2. fn = "count" /\ Monoid /\ ArgType = "bool" /\ ResultType = "uint"
      BY <2>3 DEF CountsCounts, Monoid, Logic, ArgType, ResultType
    <3> QED
      BY <3>1, <3>2 DEF Converted, HasTarget
  <2> QED
    BY <2>1, <2>2, <2>3
<1>5. pc' \in Places
  BY <1>1 DEF Places
<1> QED
  BY <1>1, <1>2, <1>3, <1>4, <1>5
  DEF AggInv, Running, InReset, InGet, Countable, StopsExactlyThere, ResultOfArguments, Finished

LEMMA SetNeutralInv ==
  ASSUME AggInv, SetNeutral
  PROVE  AggInv'
<1>1. UNCHANGED defs /\ pc = "neutral" /\ pc' = "reset" /\ i' = 1 /\ serves' = serves /\ at' = at
      /\ given' = given /\ out' = out /\ keyed' = keyed /\ acc' = Neutral(acc) /\ made' = made
  BY DEF SetNeutral, queries
<1>2. Typed /\ acc \in Accumulator /\ given \in Owners /\ out = NULL
  BY <1>1 DEF AggInv, Running
<1>3. /\ fn' = fn /\ ResultType' = ResultType /\ Vals(given)' = Vals(given)
      /\ Results(given)' = Results(given) /\ Typed' /\ Arg' = Arg
      /\ (CountsCounts <=> CountsCounts')
  BY <1>1, <1>2, SameDefinition
<1>4. 1 \in Arg /\ \A k \in Arg : k \in Nat /\ ~(k < 1)
  BY <1>2, SignatureIs
<1>5. First(given, 1) = {}
  BY <1>2, <1>4, ResultsAre DEF First
<1>6. /\ acc' \in Accumulator
      /\ Aggregated(fn, ResultType, Vals(given), {}, acc')
  BY <1>1, <1>2, AggregatedNone, ResultsAre, ValuesAre
<1>7. First(given, i)' = {}
  BY <1>1, <1>3, <1>5 DEF First
<1>8. InReset'
  BY <1>1, <1>3, <1>4, <1>6, <1>7 DEF InReset
<1> QED
  BY <1>1, <1>2, <1>3, <1>4, <1>6, <1>8
  DEF AggInv, Running, InGet, Countable, StopsExactlyThere, ResultOfArguments, Finished, Places

LEMMA ResetArgKeyedInv ==
  ASSUME AggInv, ResetArgKeyed
  PROVE  AggInv'
<1>1. UNCHANGED defs /\ pc = "reset" /\ pc' = "notAList" /\ keyed /\ i' = i /\ serves' = serves
      /\ at' = at /\ given' = given /\ out' = out /\ keyed' = keyed /\ acc' = acc /\ made' = made
  BY DEF ResetArgKeyed, queries
<1>2. Typed' /\ Arg' = Arg /\ (CountsCounts <=> CountsCounts')
  BY <1>1, KeptTyped, SameDefinition
<1> QED
  BY <1>1, <1>2
  DEF AggInv, Running, InReset, InGet, Countable, StopsExactlyThere, ResultOfArguments, Finished, Places

(* What a call may return.                                                 *)
Right(v) ==
  /\ HasEmpty(given) => DefinedForEmpty
  /\ IF fn = "count" /\ HasEmpty(given) /\ Results(given) # {}
     THEN v \in 0..Reference(given)
     ELSE IF StartsNeutral THEN v = Reference(given) ELSE Extreme(given, v)

(* A call ends, with a result or in a division by zero.                    *)
LEMMA Returned ==
  ASSUME AggInv, UNCHANGED <<defs, given, keyed, made>>, pc \in {"reset", "get"}, ~keyed,
         serves' \in [Arg -> Owners \cup {NULL}], at' \in [Arg -> Nat],
         acc' \in Accumulator, Return(acc'),
         NoQuotient(acc') <=> NoMean(given), Right(Result(acc'))
  PROVE  AggInv'
<1> DEFINE a == acc'
<1>1. /\ fn' = fn /\ sig' = sig /\ ResultType' = ResultType /\ Arg' = Arg /\ Typed /\ Typed'
      /\ given' = given /\ keyed' = keyed
      /\ Results(given)' = Results(given) /\ Reference(given)' = Reference(given)
      /\ (HasEmpty(given) <=> HasEmpty(given)') /\ (DefinedForEmpty <=> DefinedForEmpty')
      /\ (StartsNeutral <=> StartsNeutral') /\ (CountsCounts <=> CountsCounts')
      /\ (NoMean(given) <=> NoMean(given)') /\ made' = made
      /\ \A n : Extreme(given, n) <=> Extreme(given, n)'
  BY KeptTyped, SameDefinition DEF AggInv
<1>2. i' = 1 /\ 1 \in Arg
  BY <1>1, SignatureIs DEF Return
<1>3. given \in Owners /\ out = NULL
  BY DEF AggInv, Running
<1>4. ~CountsCounts
  BY DEF AggInv, Countable
<1>5. CASE NoQuotient(a)
  <2>1. pc' = "noQuotient" /\ out' = out
    BY <1>5 DEF Return
  <2>2. NoMean(given)
    BY <1>5
  <2> QED
    BY <1>1, <1>2, <1>3, <1>4, <2>1, <2>2
    DEF AggInv, Running, InReset, InGet, Countable, StopsExactlyThere, ResultOfArguments,
        Finished, Places
<1>6. CASE ~NoQuotient(a)
  <2>1. pc' = "idle" /\ out' = Result(a) /\ ~NoMean(given)
    BY <1>6 DEF Return
  <2>2. ResultOfArguments'
    <3>1. Right(out')
      BY <2>1
    <3>2. Extreme(given, out') <=> Extreme(given, out)'
      BY <1>1
    <3> QED
      BY <1>1, <3>1, <3>2 DEF ResultOfArguments, Right
  <2>3. StopsExactlyThere'
    BY <1>1, <1>4, <2>1 DEF StopsExactlyThere
  <2> QED
    BY <1>1, <1>2, <1>4, <2>1, <2>2, <2>3 DEF AggInv, Running, InReset, InGet, Countable, Places
<1> QED
  BY <1>5, <1>6

(* The first result of the argument at hand is taken.                      *)
LEMMA FirstTaken ==
  ASSUME AggInv, pc = "reset", Size(given, i) > 0
  PROVE  LET b == Operation(acc, Value(i, arg[given][i][1])) IN
         /\ b \in Accumulator
         /\ Aggregated(fn, ResultType, Vals(given), First(given, i + 1), b)
         /\ First(given, i + 1) \in SUBSET Results(given) /\ First(given, i + 1) # {}
<1> DEFINE p == <<i, 1>>
<1>1. Typed /\ given \in Owners /\ i \in Arg /\ i \in Nat /\ acc \in Accumulator
  BY SignatureIs DEF AggInv, Running
<1>2. p \in Results(given) /\ Of(given, p) = Value(i, arg[given][i][1])
  BY <1>1, ResultsAre DEF Of
<1>3. First(given, i) \in SUBSET Results(given) /\ p \notin First(given, i)
  BY <1>1 DEF First
<1>4. \A q \in Results(given) : q = <<q[1], q[2]>> /\ q[1] \in Nat
  BY <1>1, ResultsAre, SignatureIs
<1>5. First(given, i + 1) = First(given, i) \cup {p}
  <2>1. ASSUME NEW q \in Results(given)
        PROVE  q[2] = 1 /\ q[1] < i + 1 <=> (q[2] = 1 /\ q[1] < i) \/ q = p
    BY <1>1, <1>4
  <2> QED
    BY <1>2, <2>1 DEF First
<1>6. Aggregated(fn, ResultType, Vals(given), First(given, i), acc)
  BY DEF AggInv, InReset
<1> HIDE DEF p
<1>7. /\ Operation(acc, Of(given, p)) \in Accumulator
      /\ Aggregated(fn, ResultType, Vals(given), First(given, i) \cup {p}, Operation(acc, Of(given, p)))
  BY <1>1, <1>2, <1>3, <1>6, AggregatedOne
<1> QED
  BY <1>2, <1>3, <1>5, <1>7

(* An argument is reset: it is empty and the call ends, with what a count  *)
(* has counted so far; or its first result is taken, and it was the last   *)
(* argument or not.                                                        *)
LEMMA ResetArgInv ==
  ASSUME AggInv, ResetArg
  PROVE  AggInv'
<1>1. /\ UNCHANGED defs /\ UNCHANGED <<given, keyed, made>> /\ pc = "reset" /\ ~keyed
      /\ serves' = [serves EXCEPT ![i] = given] /\ at' = [at EXCEPT ![i] = 1]
  BY DEF ResetArg
<1>2. /\ Typed /\ given \in Owners /\ out = NULL /\ i \in Arg /\ i \in Nat /\ acc \in Accumulator
      /\ Arg = 1..Len(sig) /\ Len(sig) \in Nat
  <2>1. Typed /\ given \in Owners /\ out = NULL /\ i \in Arg /\ acc \in Accumulator
    BY <1>1 DEF AggInv, Running
  <2>2. Arg = 1..Len(sig) /\ Len(sig) \in Nat
    BY <2>1, SignatureIs
  <2> QED
    BY <2>1, <2>2
<1>3. serves \in [Arg -> Owners \cup {NULL}] /\ at \in [Arg -> Nat]
  BY DEF AggInv
<1>4. serves' \in [Arg -> Owners \cup {NULL}] /\ at' \in [Arg -> Nat]
  BY <1>1, <1>2, <1>3
<1>5. /\ \A k \in Arg : k < i => serves[k] = given /\ at[k] = 1 /\ Size(given, k) > 0
      /\ Aggregated(fn, ResultType, Vals(given), First(given, i), acc)
  BY <1>1 DEF AggInv, InReset
<1>6. /\ fn' = fn /\ sig' = sig /\ ResultType' = ResultType /\ Arg' = Arg /\ Typed'
      /\ given' = given /\ keyed' = keyed
      /\ Results(given)' = Results(given) /\ Reference(given)' = Reference(given)
      /\ Vals(given)' = Vals(given) /\ \A k : Size(given, k)' = Size(given, k)
      /\ (HasEmpty(given) <=> HasEmpty(given)') /\ (DefinedForEmpty <=> DefinedForEmpty')
      /\ (NoMean(given) <=> NoMean(given)') /\ (CountsCounts <=> CountsCounts') /\ made' = made
  BY <1>1, <1>2, SameDefinition
<1>7. \A k \in Arg : k \in Nat /\ Size(given, k) \in Nat
  BY <1>2, ResultsAre
<1>8. ~CountsCounts
  BY <1>1 DEF AggInv, Countable
<1>9. fn # "mean" => (NoQuotient(acc') <=> NoMean(given))
  BY DEF NoQuotient, NoMean
<1>10. CASE Size(given, i) = 0 /\ ~DefinedForEmpty
  <2>1. acc' = acc /\ pc' = "idle" /\ i' = 1 /\ out' = out
    BY <1>1, <1>7, <1>10 DEF ResetArg, ReturnNothing
  <2>2. HasEmpty(given)
    BY <1>2, <1>10 DEF HasEmpty
  <2>3. ResultOfArguments' /\ StopsExactlyThere'
    <3>1. ~NoMean(given) /\ ~keyed'
      BY <1>1, <1>6, <2>2 DEF NoMean
    <3> QED
      BY <1>2, <1>6, <1>10, <1>8, <2>1, <2>2, <3>1 DEF ResultOfArguments, StopsExactlyThere
  <2>4. 1 \in Arg
    BY <1>2, SignatureIs
  <2> QED
    BY <1>2, <1>4, <1>6, <1>8, <2>1, <2>3, <2>4
    DEF AggInv, Running, InReset, InGet, Countable, Places
<1>11. CASE Size(given, i) = 0 /\ DefinedForEmpty
  <2>1. acc' = acc /\ Return(acc')
    BY <1>1, <1>7, <1>11 DEF ResetArg
  <2>2. fn \in {"count", "len", "empty"} /\ StartsNeutral /\ (NoQuotient(acc') <=> NoMean(given))
    BY <1>11, <1>9 DEF DefinedForEmpty, StartsNeutral
  <2>3. First(given, i) \in SUBSET Results(given)
    BY DEF First
  <2>4. CASE Results(given) = {}
    <3>1. First(given, i) = Results(given)
      BY <2>3, <2>4
    <3>2. Result(acc) = Reference(given)
      BY <1>2, <1>5, <1>11, <2>2, <3>1, AggregatedAll
    <3>3. Right(Result(acc'))
      BY <1>11, <2>1, <2>2, <2>4, <3>2 DEF Right
    <3> QED
      BY <1>1, <1>2, <1>4, <2>1, <2>2, <3>3, Returned
  <2>5. CASE Results(given) # {} /\ fn = "count"
    <3>1. Result(acc) \in 0..Reference(given)
      BY <1>2, <1>5, <2>3, <2>5, AggregatedSome
    <3>2. Right(Result(acc'))
      BY <1>2, <1>11, <2>1, <2>5, <3>1 DEF Right, HasEmpty
    <3> QED
      BY <1>1, <1>2, <1>4, <2>1, <2>2, <3>2, Returned
  <2>6. fn # "count" => Results(given) = {}
    <3> SUFFICES ASSUME fn # "count", NEW q \in Results(given) PROVE FALSE
      OBVIOUS
    <3>1. Len(sig) = 1
      BY <1>2, <2>2, FunctionIs
    <3>2. q[1] \in Arg /\ q[2] \in Nat /\ 1 <= q[2] /\ q[2] <= Size(given, q[1])
      BY <1>2, ResultsAre
    <3>3. q[1] = i
      BY <1>2, <3>1, <3>2
    <3> QED
      BY <1>11, <3>2, <3>3
  <2> QED
    BY <2>4, <2>5, <2>6
<1>12. CASE Size(given, i) > 0
  <2>1. /\ acc' = Operation(acc, Value(i, arg[given][i][1]))
        /\ IF fn = "empty" THEN Return(acc')
           ELSE IF i = Len(sig) THEN pc' = "get" /\ i' = 1 /\ UNCHANGED out
           ELSE i' = i + 1 /\ UNCHANGED <<pc, out>>
    BY <1>7, <1>12 DEF ResetArg, Take
  <2>2. /\ acc' \in Accumulator
        /\ Aggregated(fn, ResultType, Vals(given), First(given, i + 1), acc')
        /\ First(given, i + 1) \in SUBSET Results(given) /\ First(given, i + 1) # {}
    BY <1>1, <1>12, <2>1, FirstTaken
  <2>3. CASE fn = "empty"
    <3>1. acc'.v = 0 /\ Results(given) # {}
      BY <2>2, <2>3 DEF Aggregated
    <3>2. Result(acc') = Reference(given)
      BY <2>3, <3>1, ReferenceIs DEF Result
    <3>3. Right(Result(acc'))
      BY <2>3, <3>2 DEF Right, DefinedForEmpty, StartsNeutral
    <3> QED
      BY <1>1, <1>2, <1>4, <1>9, <2>1, <2>2, <2>3, <3>3, Returned
  <2>4. CASE fn # "empty" /\ i = Len(sig)
    <3>1. pc' = "get" /\ i' = 1 /\ out' = out
      BY <2>1, <2>4
    <3>2. \A k \in Arg : serves'[k] = given /\ at'[k] = 1 /\ Size(given, k) > 0
      BY <1>1, <1>2, <1>3, <1>5, <1>12, <2>4
    <3>3. Taken(given, at') = First(given, i + 1)
      <4>1. ASSUME NEW q \in Results(given)
            PROVE  q[2] <= at'[q[1]] <=> q[2] = 1 /\ q[1] < i + 1
        <5>1. q[1] \in Arg /\ q[2] \in Nat /\ 1 <= q[2]
          BY <1>2, ResultsAre
        <5>2. at'[q[1]] = 1 /\ q[1] < i + 1
          BY <1>2, <2>4, <3>2, <5>1
        <5> QED
          BY <5>1, <5>2
      <4> QED
        BY <4>1 DEF Taken, First
    <3>4. Taken(given, at)' = Taken(given, at')
      BY <1>6 DEF Taken
    <3>5. 1 \in Arg
      BY <1>2, SignatureIs
    <3>6. InGet'
      <4>1. \A k \in Arg' : /\ serves'[k] = given' /\ Size(given, k)' > 0
                            /\ k < i' => at'[k] = Size(given, k)' + 1
                            /\ k > i' => at'[k] = 1
        BY <1>2, <1>6, <3>1, <3>2
      <4>2. 1 <= at'[i'] /\ at'[i'] <= Size(given, 1)'
        BY <1>6, <1>7, <3>1, <3>2, <3>5
      <4>3. Aggregated(fn', ResultType', Vals(given)', Taken(given, at)', acc')
        BY <1>6, <2>2, <3>3, <3>4
      <4>4. fn' # "empty" /\ ~keyed'
        BY <1>1, <1>6, <2>4
      <4> QED
        BY <1>6, <3>1, <4>1, <4>2, <4>3, <4>4 DEF InGet, Size
    <3> QED
      BY <1>1, <1>2, <1>4, <1>6, <1>8, <2>2, <3>1, <3>5, <3>6
      DEF AggInv, Running, InReset, Countable, StopsExactlyThere, ResultOfArguments, Finished, Places
  <2>5. CASE fn # "empty" /\ i # Len(sig)
    <3>1. pc' = "reset" /\ i' = i + 1 /\ out' = out /\ i + 1 \in Arg
      BY <1>1, <1>2, <2>1, <2>5
    <3>2. \A k \in Arg : k < i + 1 => serves'[k] = given /\ at'[k] = 1 /\ Size(given, k) > 0
      BY <1>1, <1>2, <1>3, <1>5, <1>7, <1>12
    <3>3. First(given, i)' = First(given, i + 1)
      BY <1>6, <3>1 DEF First
    <3>4. InReset'
      BY <1>6, <2>2, <3>1, <3>2, <3>3 DEF InReset
    <3> QED
      BY <1>1, <1>2, <1>4, <1>6, <1>8, <2>2, <3>1, <3>4
      DEF AggInv, Running, InGet, Countable, StopsExactlyThere, ResultOfArguments, Finished, Places
  <2> QED
    BY <2>3, <2>4, <2>5
<1> QED
  BY <1>2, <1>7, <1>10, <1>11, <1>12

(* An argument is run on: it has one result more; or it has none and was   *)
(* the last argument, or not.                                              *)
LEMMA GetArgInv ==
  ASSUME AggInv, GetArg
  PROVE  AggInv'
<1>1. UNCHANGED defs /\ UNCHANGED <<given, keyed, made>> /\ serves' = serves /\ pc = "get"
  BY DEF GetArg
<1>2. /\ Typed /\ given \in Owners /\ out = NULL /\ i \in Arg /\ i \in Nat /\ acc \in Accumulator
      /\ Arg = 1..Len(sig) /\ Len(sig) \in Nat
  <2>1. Typed /\ given \in Owners /\ out = NULL /\ i \in Arg /\ acc \in Accumulator
    BY <1>1 DEF AggInv, Running
  <2>2. Arg = 1..Len(sig) /\ Len(sig) \in Nat
    BY <2>1, SignatureIs
  <2> QED
    BY <2>1, <2>2
<1>3. serves \in [Arg -> Owners \cup {NULL}] /\ at \in [Arg -> Nat]
  BY DEF AggInv
<1>4. /\ \A k \in Arg : /\ serves[k] = given /\ Size(given, k) > 0
                        /\ k < i => at[k] = Size(given, k) + 1
                        /\ k > i => at[k] = 1
      /\ 1 <= at[i] /\ at[i] <= Size(given, i)
      /\ fn # "empty" /\ ~keyed
      /\ Aggregated(fn, ResultType, Vals(given), Taken(given, at), acc)
  BY <1>1 DEF AggInv, InGet
<1>5. /\ fn' = fn /\ sig' = sig /\ ResultType' = ResultType /\ Arg' = Arg /\ Typed'
      /\ given' = given /\ keyed' = keyed
      /\ Results(given)' = Results(given) /\ Vals(given)' = Vals(given)
      /\ \A k : Size(given, k)' = Size(given, k)
      /\ (CountsCounts <=> CountsCounts') /\ ~CountsCounts /\ made' = made
  BY <1>1, <1>2, SameDefinition DEF AggInv, Countable
<1>6. \A k \in Arg : k \in Nat /\ Size(given, k) \in Nat /\ at[k] \in Nat
  BY <1>2, <1>3, ResultsAre
<1>7. \A q \in Results(given) : /\ q = <<q[1], q[2]>> /\ q[1] \in Arg
                                /\ q[2] \in Nat /\ 1 <= q[2] /\ q[2] <= Size(given, q[1])
  BY <1>2, ResultsAre
<1>8. Taken(given, at)' = Taken(given, at')
  BY <1>5 DEF Taken
<1>9. serves[i] = given /\ serves' \in [Arg -> Owners \cup {NULL}]
  BY <1>1, <1>2, <1>3, <1>4
<1>10. ASSUME at' = [at EXCEPT ![i] = @ + 1], at[i] < Size(given, i),
              acc' = Operation(acc, Value(i, arg[given][i][at'[i]])),
              UNCHANGED <<pc, i, out>>
       PROVE  AggInv'
  <2> DEFINE n == at[i] + 1
             p == <<i, n>>
  <2>1. n \in Nat /\ 1 <= n /\ n <= Size(given, i) /\ at'[i] = n
    BY <1>2, <1>3, <1>6, <1>10
  <2>2. p \in Results(given)
    BY <1>2, <1>6, <2>1, ResultsAre
  <2>3. Of(given, p) = Value(i, arg[given][i][at'[i]])
    BY <2>1 DEF Of
  <2>4. p \notin Taken(given, at) /\ Taken(given, at) \in SUBSET Results(given)
    BY <1>2, <1>6 DEF Taken
  <2>5. \A k \in Arg : at'[k] = IF k = i THEN n ELSE at[k]
    BY <1>3, <1>10
  <2> HIDE DEF n
  <2>6. Taken(given, at') = Taken(given, at) \cup {p}
    <3>1. ASSUME NEW q \in Results(given)
          PROVE  q[2] <= at'[q[1]] <=> q[2] <= at[q[1]] \/ q = p
      <4>1. CASE q[1] = i
        BY <1>2, <1>6, <1>7, <2>1, <2>5, <4>1 DEF n
      <4>2. CASE q[1] # i
        BY <1>7, <2>5, <4>2
      <4> QED
        BY <4>1, <4>2
    <3> QED
      BY <2>2, <3>1 DEF Taken
  <2> HIDE DEF p
  <2>7. /\ acc' \in Accumulator
        /\ Aggregated(fn, ResultType, Vals(given), Taken(given, at'), acc')
    BY <1>2, <1>4, <1>10, <2>2, <2>3, <2>4, <2>6, AggregatedOne
  <2>8. at' \in [Arg -> Nat]
    BY <1>3, <1>10, <1>6, <1>2
  <2>9. \A k \in Arg : /\ serves'[k] = given /\ Size(given, k) > 0
                       /\ k < i => at'[k] = Size(given, k) + 1
                       /\ k > i => at'[k] = 1
    BY <1>1, <1>2, <1>4, <1>6, <2>5
  <2>10. InGet'
    <3>1. i' = i /\ pc' = "get"
      BY <1>1, <1>10
    <3>2. 1 <= at'[i'] /\ at'[i'] <= Size(given, i)
      BY <2>1, <3>1
    <3>3. Aggregated(fn, ResultType, Vals(given), Taken(given, at), acc)'
      BY <1>5, <1>8, <2>7
    <3> QED
      BY <1>4, <1>5, <2>9, <3>1, <3>2, <3>3 DEF InGet, Size
  <2>11. pc' = "get" /\ i' = i /\ out' = out
    BY <1>1, <1>10
  <2> QED
    BY <1>2, <1>5, <1>9, <2>7, <2>8, <2>10, <2>11
    DEF AggInv, Running, InReset, Countable, StopsExactlyThere, ResultOfArguments, Finished, Places
<1>11. ASSUME at' = [at EXCEPT ![i] = Size(given, i) + 1], at[i] >= Size(given, i), acc' = acc,
              IF i = Len(sig) THEN Return(acc) ELSE i' = i + 1 /\ UNCHANGED <<pc, out>>
       PROVE  AggInv'
  <2>1. \A k \in Arg : at'[k] = IF k = i THEN Size(given, i) + 1 ELSE at[k]
    BY <1>3, <1>11
  <2>2. at' \in [Arg -> Nat]
    BY <1>3, <1>11, <1>6, <1>2
  <2>3. Taken(given, at') = Taken(given, at)
    <3>1. ASSUME NEW q \in Results(given)
          PROVE  q[2] <= at'[q[1]] <=> q[2] <= at[q[1]]
      <4>1. CASE q[1] = i
        BY <1>2, <1>6, <1>7, <1>11, <2>1, <4>1
      <4>2. CASE q[1] # i
        BY <1>7, <2>1, <4>2
      <4> QED
        BY <4>1, <4>2
    <3> QED
      BY <3>1 DEF Taken
  <2>4. CASE i = Len(sig)
    <3>1. Taken(given, at) = Results(given)
      <4>1. ASSUME NEW q \in Results(given) PROVE q[2] <= at[q[1]]
        <5>1. q[1] \in Arg /\ q[1] \in Nat /\ q[1] <= i
          BY <1>2, <1>7, <2>4
        <5>2. at[q[1]] >= Size(given, q[1])
          BY <1>2, <1>4, <1>6, <1>11, <5>1
        <5> QED
          BY <1>6, <1>7, <5>1, <5>2
      <4> QED
        BY <4>1 DEF Taken
    <3>2. ~HasEmpty(given)
      BY <1>4, <1>6 DEF HasEmpty
    <3>3. /\ NoQuotient(acc) <=> NoMean(given)
          /\ StartsNeutral => Result(acc) = Reference(given)
          /\ ~StartsNeutral => Extreme(given, Result(acc))
      BY <1>2, <1>4, <3>1, <3>2, AggregatedAll
    <3>4. NoQuotient(acc') <=> NoMean(given)
      BY <1>11, <3>3
    <3>5. Right(Result(acc'))
      BY <1>11, <3>2, <3>3 DEF Right
    <3>6. Return(acc') /\ acc' \in Accumulator
      BY <1>2, <1>11, <2>4
    <3> QED
      BY <1>1, <1>4, <1>9, <1>11, <2>2, <3>4, <3>5, <3>6, Returned
  <2>5. CASE i # Len(sig)
    <3>1. i' = i + 1 /\ pc' = "get" /\ out' = out /\ i + 1 \in Arg
      BY <1>1, <1>2, <1>11, <2>5
    <3>2. \A k \in Arg : /\ serves'[k] = given /\ Size(given, k) > 0
                         /\ k < i + 1 => at'[k] = Size(given, k) + 1
                         /\ k > i + 1 => at'[k] = 1
      BY <1>1, <1>2, <1>4, <1>6, <2>1
    <3>3. 1 <= at'[i + 1] /\ at'[i + 1] <= Size(given, i + 1)
      BY <1>2, <1>4, <1>6, <2>1, <3>1
    <3>4. Aggregated(fn, ResultType, Vals(given), Taken(given, at), acc)'
      BY <1>4, <1>5, <1>8, <1>11, <2>3
    <3>5. InGet'
      BY <1>4, <1>5, <3>1, <3>2, <3>3, <3>4 DEF InGet, Size
    <3> QED
      BY <1>2, <1>5, <1>9, <1>11, <2>2, <3>1, <3>5
      DEF AggInv, Running, InReset, Countable, StopsExactlyThere, ResultOfArguments, Finished, Places
  <2> QED
    BY <2>4, <2>5
<1>12. \/ /\ at' = [at EXCEPT ![i] = @ + 1] /\ at[i] < Size(given, i)
          /\ acc' = Operation(acc, Value(i, arg[given][i][at'[i]])) /\ UNCHANGED <<pc, i, out>>
       \/ /\ at' = [at EXCEPT ![i] = Size(given, i) + 1] /\ at[i] >= Size(given, i) /\ acc' = acc
          /\ IF i = Len(sig) THEN Return(acc) ELSE i' = i + 1 /\ UNCHANGED <<pc, out>>
  BY <1>9 DEF GetArg
<1> QED
  BY <1>10, <1>11, <1>12

LEMMA AggNext == AggInv /\ [Next]_vars => AggInv'
<1> SUFFICES ASSUME AggInv, [Next]_vars PROVE AggInv'
  OBVIOUS
<1>1. ASSUME NEW d \in Owners, NEW k \in BOOLEAN, CallReset(d, k) PROVE AggInv'
  BY <1>1, CallResetInv
<1>2. CASE NewDynData
  BY <1>2, NewDynDataInv
<1>3. CASE SetNeutral
  BY <1>3, SetNeutralInv
<1>4. CASE ResetArg
  BY <1>4, ResetArgInv
<1>5. CASE ResetArgKeyed
  BY <1>5, ResetArgKeyedInv
<1>6. CASE GetArg
  BY <1>6, GetArgInv
<1>7. CASE UNCHANGED vars
  <2>1. UNCHANGED defs /\ UNCHANGED <<made, acc, serves, at, pc, i, given, keyed, out>>
    BY <1>7 DEF vars, defs
  <2>2. /\ Typed' /\ Arg' = Arg /\ fn' = fn /\ sig' = sig /\ ResultType' = ResultType
        /\ (StartsNeutral <=> StartsNeutral') /\ (DefinedForEmpty <=> DefinedForEmpty')
        /\ \A d : /\ Results(d)' = Results(d) /\ Vals(d)' = Vals(d)
                  /\ (HasEmpty(d) <=> HasEmpty(d)') /\ \A k : Size(d, k)' = Size(d, k)
                  /\ Reference(d)' = Reference(d) /\ (NoMean(d) <=> NoMean(d)')
                  /\ \A n : Extreme(d, n) <=> Extreme(d, n)'
        /\ (CountsCounts <=> CountsCounts')
    BY <2>1, KeptTyped, SameDefinition
  <2>3. Running' /\ StopsExactlyThere' /\ Countable'
    BY <2>1, <2>2 DEF AggInv, Running, StopsExactlyThere, Countable, Finished
  <2>4. InReset'
    <3>1. First(given, i)' = First(given, i)
      BY <2>1, <2>2 DEF First
    <3> QED
      BY <2>1, <2>2, <3>1 DEF AggInv, InReset
  <2>5. InGet'
    <3>1. Taken(given, at)' = Taken(given, at)
      BY <2>1, <2>2 DEF Taken
    <3> QED
      BY <2>1, <2>2, <3>1 DEF AggInv, InGet
  <2>6. ResultOfArguments'
    BY <2>1, <2>2 DEF AggInv, ResultOfArguments, Finished
  <2> QED
    BY <2>1, <2>2, <2>3, <2>4, <2>5, <2>6 DEF AggInv
<1> QED
  BY <1>1, <1>2, <1>3, <1>4, <1>5, <1>6, <1>7 DEF Next, Step

LEMMA AggInvHolds == Spec => []AggInv
<1>1. Init => AggInv
  BY AggInit
<1>2. AggInv /\ [Next]_vars => AggInv'
  BY AggNext
<1> QED
  BY <1>1, <1>2, PTL DEF Spec

(* An evaluation ends the program in a count of results of the type of the *)
(* count, in a mean whose number of values is no divisor in its type, or   *)
(* when it is given a key, and in no other case, for any arguments and     *)
(* after any calls.                                                        *)
THEOREM StopsExactlyThereHolds == Spec => []StopsExactlyThere
<1>1. AggInv => StopsExactlyThere
  BY DEF AggInv
<1> QED
  BY <1>1, AggInvHolds, PTL

(* An evaluation returns the function of the results of its arguments on   *)
(* its own owner, each taken once and as wide as the type says, however    *)
(* many arguments and results there are and whatever was evaluated before. *)
(* The extremes of floating numbers that do not start from a neutral       *)
(* element return a result no other passes, or what they started from.     *)
THEOREM ResultOfArgumentsHolds == Spec => []ResultOfArguments
<1>1. AggInv => ResultOfArguments
  BY DEF AggInv
<1> QED
  BY <1>1, AggInvHolds, PTL
================================================================================
